--------------------------- MODULE MCUpdateService ---------------------------
(***************************************************************************)
(* Small instances of UpdateService for TLC.                               *)
(***************************************************************************)
EXTENDS UpdateServiceStore, TLC

\* Clients of one kind are interchangeable, and so are the workers.
Symmetry == Permutations(Updaters) \cup Permutations(Workers)
=============================================================================
