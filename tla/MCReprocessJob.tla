--------------------------- MODULE MCReprocessJob ---------------------------
(* Small instances of the reprocess job for TLC.                           *)
EXTENDS ReprocessJobProperties, TLC

\* The pods are interchangeable; used only where no liveness is checked.
PodSymmetry == Permutations(Pods)
=============================================================================
