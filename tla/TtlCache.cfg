\* Four calls for one key, with and without Redis.
SPECIFICATION Spec
CONSTANTS
    Calls = {c1, c2, c3, c4}
    NoCall = NoCall
INVARIANTS
    TypeOK
    OneFlight
    NoNeedlessFetch
    StrandedOnlyByCancel
PROPERTIES
    WaitersReleased
    KeepsPromise
CHECK_DEADLOCK FALSE
