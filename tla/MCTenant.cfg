SPECIFICATION Spec
CONSTANTS
  Replicas = {r1, r2}
  Keys = {n1}
  Names = {n1, n2}
  Unnamed = Unnamed
  Ids = {i1, i2}
  Absent = Absent
  NoKey = NoKey
  NoId = NoId
  MaxEdits = 4
SYMMETRY SymmetryMC
INVARIANTS TypeOK IdAtRest PrintedIsItsOwn
PROPERTIES ImplementsProvisioning
CHECK_DEADLOCK FALSE
