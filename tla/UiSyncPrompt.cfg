\* Deadlock is not checked: the user may stop, and the page with them.
SPECIFICATION Spec
CONSTANTS
  None = None
  Dashboards = {d1}
  Datasources = {p1}
  Syncable = {p1}
  Groups = {g1}
  Slots = {1, 2}
  MaxStarts = 2
INVARIANT AnswerSavesOnce
CHECK_DEADLOCK FALSE
