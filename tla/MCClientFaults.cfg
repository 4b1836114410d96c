SPECIFICATION Spec
CONSTANTS
  Replicas = {r1, r2}
  Keys = {k1}
  Tenants = {t1}
  ClientIds = {c1}
  Given = {s1}
  Generated = {}
  Absent = Absent
  NoKey = NoKey
  NoSecret = NoSecret
  Unset = Unset
  NoRow = NoRow
  Disconnected = {r2}
  ReadErrors = TRUE
  MaxEdits = 3
  MaxDeletes = 1
INVARIANTS TypeOK ReadyIsBacked
PROPERTIES ImplementsProvisioning
CHECK_DEADLOCK FALSE
