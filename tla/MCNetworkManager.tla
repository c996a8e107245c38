-------------------------- MODULE MCNetworkManager --------------------------
(* NetworkManager with one peer and one caller of add_peer / remove_peer. *)
EXTENDS NetworkManager, TLC

CONSTANTS p1, c1
=============================================================================
