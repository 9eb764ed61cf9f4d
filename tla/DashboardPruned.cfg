\* One dashboard and one request at a time are enough.
SPECIFICATION Spec
CONSTANTS
    Users = {u1}
    Uids = {x1}
    Requests = {r1}
    None = None
    MaxRetries = 1
PROPERTIES
    PrunesDeleted
CHECK_DEADLOCK FALSE
