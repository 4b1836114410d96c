SPECIFICATION Spec
CONSTANTS
  Replicas = {r1}
  Keys = {k1}
  Tenants = {t1}
  Given = {s1}
  Generated = {g1, g2, g3, g4, g5, g6, g7}
  Absent = Absent
  NoKey = NoKey
  NoSecret = NoSecret
  Unset = Unset
  OnExisting = {"replace"}
  Commands = {}
  Disconnected = {}
  MaxEdits = 2
  MaxDeletes = 0
INVARIANTS StatusShowsPassword
CHECK_DEADLOCK FALSE
