SPECIFICATION Spec
CONSTANTS
    c1 = c1
    c2 = c2
    Client = {c1, c2}
    Actor = {"agent"}
    ActorOf <- MCActorOf
    Character = {"a", "b", "m", "t", "w", "x", "|"}
    CommandLine <- MCCommandLine
    NoListing = NoListing
    Limit = 1
    MaxRow = 3
    MaxPosition = 3
INVARIANT CreatedOnce
INVARIANT AnsweredWithOwn
PROPERTY ListingComplete
PROPERTY ListingEnds
