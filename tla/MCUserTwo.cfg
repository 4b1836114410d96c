SPECIFICATION Spec
CONSTANTS
  Replicas = {r1, r2}
  Keys = {k1}
  Tenants = {t1}
  Given = {s1, s2}
  Generated = {}
  Absent = Absent
  NoKey = NoKey
  NoSecret = NoSecret
  Unset = Unset
  OnExisting = {"keep", "replace"}
  Commands = {}
  Disconnected = {r2}
  MaxEdits = 3
  MaxDeletes = 1
INVARIANTS ProvidedPasswordWins
PROPERTIES PopulatedOnce
CHECK_DEADLOCK FALSE
