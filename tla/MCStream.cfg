SPECIFICATION Spec
CONSTANTS
  Replicas = {r1, r2}
  Keys = {k1}
  Tenants = {t1, t2}
  Names = {n1}
  Absent = Absent
  NoKey = NoKey
  NoStream = NoStream
  Disconnected = {r2}
  AcceptsExisting = TRUE
  MaxEdits = 2
SYMMETRY SymmetryMC
INVARIANTS TypeOK StatusIsBacked NothingForgotten
PROPERTIES PublishesCurrentSpec ImplementsProvisioning
CHECK_DEADLOCK FALSE
