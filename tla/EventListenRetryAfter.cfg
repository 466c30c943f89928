SPECIFICATION Spec
CONSTANTS
    LastEvent = 3
    MaxEvents = 3
    InitialBackoff = 1
    MaxBackoff = 4
    RetryAfters = {0, 8}
    Trouble = 3
INVARIANTS
    RetryAfterHonoured
CHECK_DEADLOCK FALSE
