\* Two calls on apart subtrees at the same time; R2 calls may fail.
SPECIFICATION Spec
CONSTANTS
  Request = {r1, r2}
  a = a
  b = b
  c = c
  L = L
  Name = {a, b, c}
  MaxDepth = 2
  Chunk = {L}
  Large = {L}
  Target <- MCTarget
  MaxSymlinkDepth = 2
  LikeAlso = {}
  Seed <- MCApart
  Asked <- MCMovers
  R2Faults = TRUE
  Serialize = TRUE
  MaxCalls = 2
  Absent = Absent
  NoRow = NoRow
  NoTarget = NoTarget
  NoCall = NoCall
  NoAwait = NoAwait
  Nobody = Nobody
  None = None
  Loop = Loop
  Illegal = Illegal
SYMMETRY MCSymmetry
INVARIANTS NothingLeaks ListenerKnowsTree CopyExact MvLosesNothing
PROPERTY OnlyItsOwn
