-------------------------- MODULE MCWorkspaceStore --------------------------
(* Small instances of WorkspaceStore for TLC. *)
EXTENDS WorkspaceStore, TLC

\* Contents of one and of two chunks: with SpillThreshold = 1 the second spills.
MCPayload == {<<ch>> : ch \in Chunk} \cup {<<ch, ch>> : ch \in Chunk}

\* Requests and chunks are interchangeable; so are paths.
MCSymmetry == Permutations(Request) \cup Permutations(Path) \cup Permutations(Chunk)
============================================================================
