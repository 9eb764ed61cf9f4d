\* Two attempts are enough to leave an entry behind.
SPECIFICATION Spec
CONSTANTS
    Calls = {c1, c2}
    NoCall = NoCall
INVARIANTS
    NothingLeftInflight
CHECK_DEADLOCK FALSE
