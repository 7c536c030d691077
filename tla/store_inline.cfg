\* Any overlap of calls, but no content above the spill threshold.
SPECIFICATION Spec
CONSTANTS
  Request = {r1, r2}
  Path = {a, b}
  Chunk = {x}
  Payload <- MCPayload
  SpillThreshold = 9
  MaxSize = 2
  R2Faults = TRUE
  MaxCrashes = 0
  LateCalls = FALSE
  Serialize = FALSE
  Absent = Absent
  Broken = Broken
  NoRow = NoRow
  NoCall = NoCall
SYMMETRY MCSymmetry
PROPERTY PromiseKept
