\* Deadlock is not checked: the user may stop, and the page with them.
SPECIFICATION Spec
CONSTANTS
  None = None
  Own = {k1, k2}
  Foreign = {s1}
  First = k1
  Slots = {1, 2}
  MaxStarts = 2
INVARIANT SettledScopeIsActive
CHECK_DEADLOCK FALSE
