SPECIFICATION FairSpec
CONSTANTS
  Replicas = {r1}
  Keys = {k1}
  Urls = {u1, u2}
  PlaneUrl = u1
  FromDataPlane = FromDataPlane
  NoPlane = NoPlane
  Gateways = {g1}
  Latest = 2
  Absent = Absent
  NoKey = NoKey
  MaxChanges = 2
INVARIANTS TypeOK InitializedAtRest VersionIsFinal
PROPERTIES EventuallyInitialized
CHECK_DEADLOCK FALSE
