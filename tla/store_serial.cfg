\* One call at a time on each path; R2 calls fail, and land after the eviction of their caller.
SPECIFICATION Spec
CONSTANTS
  Request = {r1, r2}
  Path = {a, b}
  Chunk = {x}
  Payload <- MCPayload
  SpillThreshold = 1
  MaxSize = 2
  R2Faults = TRUE
  MaxCrashes = 1
  LateCalls = TRUE
  Serialize = TRUE
  Absent = Absent
  Broken = Broken
  NoRow = NoRow
  NoCall = NoCall
SYMMETRY MCSymmetry
INVARIANTS TypeOK ListenerAgreesAtRest StoresAgreeAtRest ReadableAtRest
PROPERTY PromiseKept
