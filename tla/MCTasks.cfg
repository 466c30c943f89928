SPECIFICATION Spec
CONSTANTS
    c1 = c1
    c2 = c2
    Client = {c1, c2}
    Actor = {c1, c2}
    ActorOf <- MCActorOf
    TagId = {g1}
    Spelling = {"ux", "UX", "u x"}
    Plain = {"ux", "UX"}
    Fold <- MCFold
    NoName = NoName
    MaxProposals = 2
    t1 = t1
    g1 = g1
    t2 = t2
    CommandLine <- MCCommandLine
    Task = {t1, t2}
    Root = Root
    Nobody = Nobody
    MaxRevision = 3
SYMMETRY Symm
PROPERTY WritesOnlyWhatItRead
PROPERTY ConflictHasCause
PROPERTY HintCompletes
CONSTRAINT FewProposals
