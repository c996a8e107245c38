------------------------------ MODULE MCRaftNode ------------------------------
(* A RaftNode with one peer, for TLC.                                      *)
EXTENDS RaftNode, TLC

CONSTANTS n1, n2
=============================================================================
