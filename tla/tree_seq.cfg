\* One call on any tree of two levels; R2 calls may fail.
SPECIFICATION FairSpec
CONSTANTS
  Request = {r1}
  a = a
  b = b
  c = c
  L = L
  Name = {a, b}
  MaxDepth = 2
  Chunk = {L}
  Large = {L}
  Target <- MCTarget
  MaxSymlinkDepth = 2
  LikeAlso = {}
  Seed <- MCSmall
  Asked <- MCAll
  R2Faults = TRUE
  Serialize = TRUE
  MaxCalls = 1
  Absent = Absent
  NoRow = NoRow
  NoTarget = NoTarget
  NoCall = NoCall
  NoAwait = NoAwait
  Nobody = Nobody
  None = None
  Loop = Loop
  Illegal = Illegal
INVARIANTS TypeOK NothingLeaks ListenerKnowsTree RmExact CopyExact MvLosesNothing WriteThenRead LinksResolve TreeStaysRooted
PROPERTIES CallsEnd OnlyItsOwn
