\* Any overlap of calls, contents on both sides of the spill threshold, no failure.
SPECIFICATION Spec
CONSTANTS
  Request = {r1, r2}
  Path = {a, b}
  Chunk = {x}
  Payload <- MCPayload
  SpillThreshold = 1
  MaxSize = 3
  R2Faults = FALSE
  MaxCrashes = 0
  LateCalls = FALSE
  Serialize = FALSE
  Absent = Absent
  Broken = Broken
  NoRow = NoRow
  NoCall = NoCall
SYMMETRY MCSymmetry
INVARIANT ReadableAtRest
