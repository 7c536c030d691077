\* Two callers, one of the namespace "default", one of the empty one; nothing fails.
SPECIFICATION Spec
CONSTANTS
  Client = {k1, k2}
  Namespace = {default, unnamed}
  Named = {default}
  Unnamed = unnamed
  Default = default
  Path = {p}
  Data = {s, L}
  Large = {L}
  Guarded = FALSE
  R2Faults = FALSE
  MaxEvictions = 0
  Absent = Absent
  Listed = Listed
  NoRow = NoRow
  NoCall = NoCall
SYMMETRY MCSymmetry
INVARIANT FilesAreOwn
