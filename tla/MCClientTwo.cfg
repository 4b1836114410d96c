SPECIFICATION Spec
CONSTANTS
  Replicas = {r1, r2}
  Keys = {k1}
  Tenants = {t1}
  ClientIds = {c1}
  Given = {s1}
  Generated = {g1, g2, g3, g4, g5, g6}
  Absent = Absent
  NoKey = NoKey
  NoSecret = NoSecret
  Unset = Unset
  NoRow = NoRow
  Disconnected = {}
  ReadErrors = FALSE
  MaxEdits = 2
  MaxDeletes = 0
SYMMETRY SymmetryMC
INVARIANTS SecretFollowsSpec SecretAtRest
CHECK_DEADLOCK FALSE
