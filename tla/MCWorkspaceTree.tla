--------------------------- MODULE MCWorkspaceTree ---------------------------
(* Small instances of WorkspaceTree for TLC. *)
EXTENDS WorkspaceTree, TLC

CONSTANTS a, b, c, L

\* An absolute target, two that are relative to the link's directory, one of them up, and
\* one that is too long.
MCTarget == {[abs |-> TRUE, segs |-> <<a>>], [abs |-> FALSE, segs |-> <<b>>],
             [abs |-> FALSE, segs |-> <<Up, a>>], [abs |-> FALSE, segs |-> <<Up, Up, a>>]}

\* What a caller may have left at a path: nothing, an empty file, a spilled one, a
\* symlink or a directory.
Leaves == {NoRow, FileRow("inline", {}), FileRow("r2", {}),
           LinkRow([abs |-> FALSE, segs |-> <<Up, a>>]), DirRow}

\* The tree of the entries t, with the objects of its rows, and a bucket bound or not.
SeedOf(t, bound) ==
  LET all == [p \in Path |-> IF p = Root THEN DirRow ELSE IF p \in DOMAIN t THEN t[p] ELSE NoRow]
  IN [bucket |-> bound, rows |-> all, objects |-> [p \in Path |-> IF InR2(all, p) THEN {L} ELSE Absent]]

\* Every tree of the leaves at the names a and b whose entries are in directories.
MCSeed ==
  LET Below == {<<n>> : n \in {a, b}} \cup {<<n, m>> : n, m \in {a, b}}
      Sound(t) == \A p \in Below : t[p] # NoRow /\ Len(p) > 1 => t[ParentPath(p)] = DirRow
  IN {SeedOf(t, bound) : t \in {u \in [Below -> Leaves] : Sound(u)}, bound \in BOOLEAN}

\* Those of at most three entries besides the root; of at most two without a bucket.
MCSmall ==
  {s \in MCSeed : Cardinality({p \in Path : s.rows[p] # NoRow}) <= IF s.bucket THEN 4 ELSE 3}

\* The directory a with a spilled file, and perhaps one more or a directory; the free place
\* b; and c, which is free, a spilled file, or a directory that has one, too.
MCApart ==
  LET file == FileRow("r2", {})
      more == {<<>>, <<a, b>> :> file, <<a, b>> :> DirRow}
      other == {<<>>, <<c>> :> file, <<c>> :> DirRow @@ <<c, a>> :> file}
  IN {SeedOf(<<a>> :> DirRow @@ <<a, a>> :> file @@ x @@ y, bound) :
        x \in more, y \in other, bound \in BOOLEAN}

\* Every call.
MCAll == Call

\* Those that move spilled files and whole subtrees about, between the three names and into
\* c.
MCMovers ==
  {m \in Call : /\ m.do \in {"write", "rm", "cp", "mv"}
                /\ PathsOf(m) \subseteq {<<a>>, <<b>>, <<c>>, <<c, a>>}
                /\ m.do \in {"rm", "cp"} => m.recursive
                /\ m.do = "rm" => m.force
                /\ m.do = "write" => m.data = {L}}

\* The two callers are alike.
MCSymmetry == Permutations(Request)

\* The name a has a wildcard (or differs from b in case only).
MCLike == {<<a, b>>}

\* The freshly bootstrapped Workspace.
MCFresh == {s \in MCSeed : \A p \in Path \ {Root} : s.rows[p] = NoRow}
============================================================================
