\* Deadlock is not checked: the user may stop, and the page with them.
SPECIFICATION MCSpec
CONSTANTS
  None = None
  Callers = {caller}
  Tokens = {token}
  Calls = {"getCurrentUser", "listApiKeys", "updateApiKey"}
  Account = a
  Accounts = {a, b}
  OidcEnabled = TRUE
  PasswordEnabled = TRUE
  Own = {k1, k2}
  Foreign = {s1}
  First = k1
  Slots = {1, 2}
  MaxStarts = 1
  MaxExecuted = 2
  MaxInFlight = 2
  Refreshers = {"refresh"}
  RefreshersOfMany = {"pageRefresh"}
INVARIANTS
  TypeOK
  WriteExecutedOnce
  ScopeFollowsUser
  MfaRetryPossible
  NoWorkBeforePasswordChange
PROPERTY BusyEnds
CHECK_DEADLOCK FALSE
