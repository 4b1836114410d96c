SPECIFICATION Spec
CONSTANTS
  Replicas = {r1, r2}
  Keys = {k1}
  Users = {u1, u2}
  Absent = Absent
  NoKey = NoKey
  NoType = NoType
  MaxEdits = 4
SYMMETRY SymmetryMC
INVARIANTS TypeOK RecordedAtRest KnownUsersDeleted
PROPERTIES SettledUsersStay
CHECK_DEADLOCK FALSE
