\* Two dashboards, two requests of two users and one retry of each call.
SPECIFICATION Spec
CONSTANTS
    Users = {u1, u2}
    Uids = {x1, x2}
    Requests = {r1, r2}
    None = None
    MaxRetries = 1
INVARIANTS
    TypeOK
PROPERTIES
    PurgeSparesHeld
    RowsChangeNoHands
    RequestsEnd
    StaleRowsGo
CHECK_DEADLOCK FALSE
