CONSTANTS
    Size = 9
    Records = {r1, r2, r3, r4}
    Lengths = {1, 2, 3}
SPECIFICATION Spec
INVARIANTS
    NoOverlap
    NothingLost
    BlocksAreJoined
CHECK_DEADLOCK FALSE
