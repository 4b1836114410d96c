SPECIFICATION FairSpec
CONSTANTS
  Replicas = {r1}
  Keys = {k1}
  Tenants = {t1, t2}
  Names = {n1}
  Absent = Absent
  NoKey = NoKey
  NoStream = NoStream
  Disconnected = {}
  AcceptsExisting = TRUE
  MaxEdits = 2
PROPERTIES EventuallyReady
CHECK_DEADLOCK FALSE
