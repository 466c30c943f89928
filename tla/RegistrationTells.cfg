SPECIFICATION Spec
CONSTANTS
    ExpiresIn = 40
    Interval = 3
    Penalty = 5
    Gap = 10
    MaxLatency = 4
    Latencies = {0, 1, 4}
    Horizon = 120
    MaxRuns = 2
INVARIANTS
    TellsOfAccount
CHECK_DEADLOCK FALSE
