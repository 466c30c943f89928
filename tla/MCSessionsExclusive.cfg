SPECIFICATION Spec
CONSTANTS
    u1 = u1
    u2 = u2
    f1 = f1
    f2 = f2
    g1 = g1
    p1 = p1
    p2 = p2
    NoToken = NoToken
    Malformed = Malformed
    NoTemp = NoTemp
    Url = {u1, u2}
    Family = {f1, f2, g1}
    Home <- MCHome
    Proc = {p1, p2}
    MaxGen <- TwiceEach
    Overlap = FALSE
INVARIANTS
    ErasedPairIsDead
    PersistedBeforeReplay
PROPERTIES
    RegisterSpec
