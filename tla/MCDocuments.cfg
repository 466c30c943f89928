SPECIFICATION Spec
CONSTANTS
    c1 = c1
    c2 = c2
    x = x
    y = y
    Empty = Empty
    NoPin = NoPin
    Client = {c1, c2}
    Actor = {c1, c2}
    ActorOf <- MCActorOf
    Content = {x, y, Empty}
    MaxRevision = 3
    MaxConflicts = 1
PROPERTIES
    ReplacesOnlyWhatItSaw
    NoPhantomConflict
    RerunChangesNothing
    PinnedPushTakes
SYMMETRY Symmetry
CHECK_DEADLOCK FALSE
