\* A write after another call, on a fresh Workspace.
SPECIFICATION Spec
CONSTANTS
  Request = {r1}
  a = a
  b = b
  c = c
  L = L
  Name = {a, b}
  MaxDepth = 2
  Chunk = {L}
  Large = {L}
  Target <- MCTarget
  MaxSymlinkDepth = 2
  LikeAlso = {}
  Seed <- MCFresh
  Asked <- MCAll
  R2Faults = FALSE
  Serialize = TRUE
  MaxCalls = 2
  Absent = Absent
  NoRow = NoRow
  NoTarget = NoTarget
  NoCall = NoCall
  NoAwait = NoAwait
  Nobody = Nobody
  None = None
  Loop = Loop
  Illegal = Illegal
INVARIANT WriteIsRead
