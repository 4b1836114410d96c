SPECIFICATION FairOnboarding
CONSTANTS
  Replicas = {r1}
  Keys = {n1}
  Names = {n1}
  Unnamed = Unnamed
  Ids = {i1}
  Absent = Absent
  NoKey = NoKey
  NoId = NoId
  MaxEdits = 1
  Clients = {k1}
  ClientIds = {c1}
  Given = {s1}
  Generated = {g1, g2, g3, g4}
  NoSecret = NoSecret
  Unset = Unset
  NoRow = NoRow
  Disconnected = {}
  ReadErrors = FALSE
  MaxClientEdits = 2
  TenantCommands = {}
  TenantNames = {n1}
INVARIANTS ShownIsBacked
PROPERTIES ImplementsClients ClientsEventuallyReady EventuallyPublished
CHECK_DEADLOCK FALSE
