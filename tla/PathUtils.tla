------------------------------ MODULE PathUtils ------------------------------
(***************************************************************************)
(* Paths (crates/cloudflare-shell/src/path_utils.rs). A path is the        *)
(* sequence of its segments: the names in it and, before it is normalized, *)
(* "..". The empty segments of "//" and the "." of "./" are dropped by the *)
(* first thing normalize does and are left out.                            *)
(***************************************************************************)
EXTENDS Naturals, Sequences
LOCAL INSTANCE SequencesExt

Up == ".."
Root == <<>>

\* normalize: ".." takes the segment before it back; above the root it is ignored.
Normalize(segments) ==
  FoldLeft(LAMBDA out, seg : IF seg # Up THEN Append(out, seg)
                             ELSE IF out = <<>> THEN out ELSE Front(out),
           <<>>, segments)

\* resolve_path: an absolute path stands for itself, a relative one starts at base.
ResolvePath(base, path) ==
  IF path.abs THEN Normalize(path.segs) ELSE Normalize(base \o path.segs)

\* parent_path, of a path that is not the root
ParentPath(p) == SubSeq(p, 1, Len(p) - 1)

\* path_name
PathName(p) == p[Len(p)]
============================================================================
