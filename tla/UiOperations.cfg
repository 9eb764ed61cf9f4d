\* Deadlock is not checked: the user may stop, and the page with them.
SPECIFICATION Spec
CONSTANTS
  None = None
  u1 = u1
  u2 = u2
  g1 = g1
  g2 = g2
  i1 = i1
  j1 = j1
  c1 = c1
  c2 = c2
  Keys = {k1, k2}
  DefaultKey = k1
  Active = k1
  Users = {u1, u2}
  Groups = {g1, g2}
  Members <- SmallMembers
  Incidents = {i1}
  IncidentVisibility <- AllPublic
  MayUpdate = TRUE
  Integrations = {j1, j2}
  FirstIntegration = j1
  Assignees = {u1}
  Me = u1
  MayRead = TRUE
  Rules = {r1, r2}
  Silences = {s1}
  MyAlerts = {r1}
  Teams = {g1}
  Labels = {l1}
  Channels = {c1, c2}
  ChannelVisibility <- OneForTheGroup
  ChannelGroups <- GroupOfFirst
  Jiras = {j1}
  MyItems = {c1, j1}
  TabOf <- JiraForTheGroup
  Dashboards = {d1}
  Datasources = {p1}
  Folders = {f1, f2}
  Owned = {d1, f1}
  DefaultDatasource = None
  Syncable = {p1}
  Slots = {1, 2}
  MaxStarts = 2
  MaxToolsStarts = 1
  MaxGrafanaStarts = 1
  MaxRows = 2
  EditsInFlight = FALSE
INVARIANTS
  TypeOK
  SettledListIsCurrent
  OrdersFit
  OneAtATime
  RuleOncePerScope
  SavesFit
PROPERTY BusyEnds
CHECK_DEADLOCK FALSE
