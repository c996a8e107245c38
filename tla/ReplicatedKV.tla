------------------------------ MODULE ReplicatedKV ------------------------------
(***************************************************************************)
(* The unversioned cluster of the three-node demo (three_node_test.rs): a  *)
(* set of Nodes, each a HashMap from keys to values, written by            *)
(* replicate_to_cluster and taken down and up by simulate_failure and      *)
(* recover.  main is one thread and runs each method to its end, so each   *)
(* method is one step.                                                     *)
(*                                                                         *)
(* It is also what the versioned cluster promises of its latest versions:  *)
(* VersionedStorageProofs shows that VersionedStorage, seen through each   *)
(* node's latest version, implements this specification.                   *)
(***************************************************************************)
EXTENDS Naturals, FiniteSets

CONSTANTS
    Nodes,      \* the node ids of the cluster
    Keys,       \* keys
    Values,     \* values
    NoValue     \* a key the HashMap does not hold

VARIABLES
    active,     \* active[n]: is_active
    kv,         \* kv[n][k]: node n's value for k, or NoValue
    ok          \* history: the writes replicate_to_cluster returned true for

kvvars == <<active, kv, ok>>

\* Node::new sets replication_factor to 2.
ReplicationFactor == 2

\* main: Node::new for every node, all active, empty maps.
Init ==
    /\ active = [n \in Nodes |-> TRUE]
    /\ kv = [n \in Nodes |-> [k \in Keys |-> NoValue]]
    /\ ok = {}

\* replicate_to_cluster on node p with the other nodes as the cluster: an
\* inactive p returns false; otherwise store (an insert) runs on p and on
\* every active other node, and the call returns true when at least
\* replication_factor of them stored the value.
Replicate(p, k, v) ==
    /\ active[p]
    /\ LET stored == {p} \cup {n \in Nodes \ {p} : active[n]}
       IN  /\ kv' = [n \in Nodes |->
                        IF n \in stored THEN [kv[n] EXCEPT ![k] = v] ELSE kv[n]]
           /\ ok' = IF Cardinality(stored) >= ReplicationFactor
                      THEN ok \cup {[node |-> p, key |-> k, value |-> v]}
                      ELSE ok
    /\ UNCHANGED active

\* simulate_failure.
Fail(n) ==
    /\ active' = [active EXCEPT ![n] = FALSE]
    /\ UNCHANGED <<kv, ok>>

\* recover: the node comes back with the map it had.
Recover(n) ==
    /\ active' = [active EXCEPT ![n] = TRUE]
    /\ UNCHANGED <<kv, ok>>

Next ==
    \/ \E p \in Nodes, k \in Keys, v \in Values : Replicate(p, k, v)
    \/ \E n \in Nodes : Fail(n) \/ Recover(n)

Spec == Init /\ [][Next]_kvvars

\* get on an active node.
Get(n, k) == kv[n][k]
=============================================================================
