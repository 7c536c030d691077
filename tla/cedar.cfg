\* Two calls at a time, any sequence of records; two texts share their hash.
SPECIFICATION Spec
CONSTANTS
  p = p
  q = q
  bad = bad
  d1 = d1
  d2 = d2
  Thread = {c1, c2}
  Text = {p, q, bad}
  Hash <- MCHash
  Parses <- MCParses
  Data = {d1, d2}
  Accepts <- MCAccepts
  Asked <- MCAsked
  NotText = NotText
  Empty = Empty
  Free = Free
INVARIANTS TypeOK CacheIsTransparent ParsedOnce
PROPERTY LocksAreReleased
