SPECIFICATION Spec
CONSTANTS
    Request = {r1, r2, r3, r4}
    Rules <- AllRules
    NoRule = NoRule
    Modes <- BothModes
    Nano = {1, 2}
    MaxTime = 3
    MaxChanges = 2
SYMMETRY Symmetry
INVARIANTS
    SlidingWindowBound
    GcraBound
    RetryAfterExact
    KeyExpires
CHECK_DEADLOCK FALSE
