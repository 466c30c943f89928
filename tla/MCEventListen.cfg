SPECIFICATION SpecAll
CONSTANTS
    LastEvent = 3
    MaxEvents = 3
    InitialBackoff = 1
    MaxBackoff = 4
    RetryAfters = {0, 8}
    Trouble = 3
    LineKinds <- MCLineKinds
    MaxLines = 4
    MaxChunk = 8
INVARIANTS
    TypeOK
    SeenContiguous
    LinesIntact
    StopsAtLimit
    ExpiredCursorDropped
    EventsAreTheBlocks
PROPERTIES
    SlowsDown
    CatchesUp
CHECK_DEADLOCK FALSE
