-------------------------- MODULE MCNodeFanOut --------------------------
(* Three nodes over two slots, so that one always waits for a slot; one     *)
(* inspector for the cluster and one for each node.                        *)
EXTENDS NodeFanOut

MCOutcomes == {LevelWarn, LevelCritical, LevelUnknown}
==========================================================================
