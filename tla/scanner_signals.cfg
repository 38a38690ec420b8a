CONSTANTS
    Stocks = {a}
    Users = {u1, u2}
    MaxRuns = 4
    MaxActive = 2
    MaxFaults = 1
SPECIFICATION Spec
SYMMETRY AnyUser
INVARIANTS RepeatMeansOverlap StreakIsSignaled
CHECK_DEADLOCK FALSE
