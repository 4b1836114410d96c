SPECIFICATION Spec
CONSTANTS
  Replicas = {r1}
  Keys = {k1}
  Tenants = {t1}
  ClientIds = {c1}
  Given = {s1}
  Generated = {g1, g2, g3, g4}
  Absent = Absent
  NoKey = NoKey
  NoSecret = NoSecret
  Unset = Unset
  NoRow = NoRow
  Disconnected = {}
  ReadErrors = FALSE
  MaxEdits = 1
  MaxDeletes = 0
INVARIANTS SecretOpensClient
CHECK_DEADLOCK FALSE
