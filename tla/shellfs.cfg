\* Two callers of three namespaces, one of them empty and one no valid name; R2 calls fail and objects
\* are evicted once.
SPECIFICATION Spec
CONSTANTS
  Client = {k1, k2}
  Namespace = {unnamed, alice, bad}
  Named = {alice}
  Unnamed = unnamed
  Default = default
  Path = {p}
  Data = {s, L}
  Large = {L}
  Guarded = TRUE
  R2Faults = TRUE
  MaxEvictions = 1
  Absent = Absent
  Listed = Listed
  NoRow = NoRow
  NoCall = NoCall
SYMMETRY MCSymmetry
INVARIANTS TypeOK FilesAreOwn AnswersAreOwn CacheIsSound
