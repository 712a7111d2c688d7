--------------------------- MODULE MCRemoteFiles ---------------------------
(* Instances of RemoteFiles for TLC. *)
EXTENDS RemoteFiles, TLC

Symmetry == Permutations(Calls) \cup Permutations(Paths)
=============================================================================
