--------------------------- MODULE MCVidSchEngine ---------------------------
(* Instances of VidSchEngine for TLC.                                      *)
EXTENDS VidSchEngine, TLC

\* The tasks of one kind are interchangeable.
Symmetry == Permutations(Render) \cup Permutations(Paging)
=============================================================================
