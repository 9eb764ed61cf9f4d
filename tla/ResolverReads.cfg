\* Four attempts at one cacheable read, with and without Redis.
SPECIFICATION Spec
CONSTANTS
    Calls = {c1, c2, c3, c4}
    NoCall = NoCall
INVARIANTS
    TypeOK
    OneUpstream
    NoNeedlessFetch
    SuccessLeavesNothing
PROPERTIES
    LookupEnds
CHECK_DEADLOCK FALSE
