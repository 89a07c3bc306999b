--------------------------- MODULE MCOfflineSync ---------------------------
(* Instances of OfflineSync for TLC: contexts are interchangeable. *)
EXTENDS OfflineSync, TLC

TabSymmetry == Permutations(Tabs)
=============================================================================
