----------------------- MODULE MCInspectionHistory -----------------------
(* Instances of InspectionHistory for TLC.  Nodes do not interact and runs  *)
(* are alike, so both sets are symmetric.                                   *)
EXTENDS InspectionHistory, TLC

Symmetry == Permutations(Nodes) \cup Permutations(Runs)
==========================================================================
