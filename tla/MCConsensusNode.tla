--------------------------- MODULE MCConsensusNode ---------------------------
(* ConsensusNode on one node: the node's own id, no peer (heartbeat_loop  *)
(* is the only sender of the channel), one or two API request tasks.      *)
EXTENDS ConsensusNode, TLC

CONSTANTS n1, r1, r2
=============================================================================
