SPECIFICATION FairSpec
CONSTANTS
  Replicas = {r1}
  Keys = {k1}
  Tenants = {t1}
  Given = {s1}
  Generated = {g1, g2, g3, g4, g5, g6, g7}
  Absent = Absent
  NoKey = NoKey
  NoSecret = NoSecret
  Unset = Unset
  OnExisting = {"replace"}
  Commands = {k1}
  Disconnected = {}
  MaxEdits = 3
  MaxDeletes = 0
INVARIANTS TypeOK ActiveIsBacked SecretAtRest DatabaseMatchesSecret ProvidedPasswordRevoked PrintedMeansActive
PROPERTIES EventuallyActive
CHECK_DEADLOCK FALSE
