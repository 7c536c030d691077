----------------------------- MODULE MCShellFs -----------------------------
(* Small instances of ShellFs for TLC. *)
EXTENDS ShellFs, TLC

\* Clients are interchangeable.
MCSymmetry == Permutations(Client)
============================================================================
