--------------------------- MODULE MCScanLifecycle ---------------------------
(* Instances of ScanLifecycle for TLC: see the cfg files for the bounds. *)
EXTENDS ScanLifecycle, TLC

UploadSymmetry == Permutations(Requests)
=============================================================================
