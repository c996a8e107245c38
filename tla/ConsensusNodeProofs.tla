-------------------------- MODULE ConsensusNodeProofs --------------------------
(***************************************************************************)
(* Type correctness of the consensus manager, health monitor and write     *)
(* gate of one node, for every peer list, replication factor and set of    *)
(* request tasks.  The inductive invariant adds RaftNodeProofs' TermBound  *)
(* to TypeOK: the manager's process_messages task is the RaftNode message  *)
(* task, and it can still write a term between the election loop's read   *)
(* of the term and its increment.                                          *)
(***************************************************************************)
EXTENDS ConsensusNode, RaftNodeProofs, FiniteSetTheorems

\* The cluster and request fields of TypeOK but the gate, which no RaftNode
\* step touches.  The Boolean gate is kept apart: no one prover reasons both
\* about it and about the arithmetic of the others.
ClusterTypeOK ==
    /\ chan \in 0..MaxChan
    /\ members \subseteq Nodes
    /\ stale \subseteq members
    /\ totalReplicas \in 0..Cardinality(Nodes)
    /\ rPc \in [Reqs -> {"idle", "store", "replicate", "submit"}]
    /\ rOp \in [Reqs -> WriteOps \cup {Nil}]

ConsInv == RaftInv /\ ClusterTypeOK /\ writeEnabled \in BOOLEAN

LEMMA ConsInvTypeOK == ConsInv => TypeOK
BY Zenon DEF ConsInv, RaftInv, ClusterTypeOK, TypeOK

\* The node's own heartbeat is a message the handlers accept.
LEMMA SelfHeartbeatIsMsg == SelfHeartbeat \in Msgs
BY RaftConstants DEF SelfHeartbeat, Msgs, MsgKinds, Nodes

\* Every set of node ids has a natural size, at most that of Nodes.
LEMMA MembersCard ==
    ASSUME NEW S \in SUBSET Nodes
    PROVE  Cardinality(S) \in 0..Cardinality(Nodes)
<1>1. IsFiniteSet(Nodes)
  BY ConsensusConstants, FS_AddElement DEF Nodes
<1>. QED
  BY <1>1, FS_Subset, FS_CardinalityType

\* A step that leaves RaftNode's variables alone keeps RaftInv.
LEMMA RaftInvUnchanged ==
    ASSUME RaftInv, UNCHANGED rvars
    PROVE  RaftInv'
BY DEF RaftInv, RaftTypeOK, TermBound, rvars, raftVars, loopVars

LEMMA ConsInvInit == Init => ConsInv
<1> SUFFICES ASSUME Init PROVE ConsInv
  OBVIOUS
<1>1. RaftInv
  BY RaftInvInit DEF Init
<1>2. ClusterTypeOK
  <2>1. 0 \in 0..Cardinality(Nodes)
    BY MembersCard
  <2>. QED
    BY <2>1, ConsensusConstants DEF Init, ClusterTypeOK
<1>3. writeEnabled \in BOOLEAN
  BY DEF Init
<1>. QED
  BY <1>1, <1>2, <1>3 DEF ConsInv

LEMMA ConsInvStep == ConsInv /\ [Next]_cvars => ConsInv'
<1> SUFFICES ASSUME ConsInv, [Next]_cvars PROVE ConsInv'
  OBVIOUS
<1>0. RaftInv
  BY DEF ConsInv
<1>a. ClusterTypeOK
  BY DEF ConsInv
<1>b. writeEnabled \in BOOLEAN
  BY DEF ConsInv
<1>1. RaftInv'
  <2>1. CASE ProcessMessage
    BY <2>1, <1>0, SelfHeartbeatIsMsg, RaftActionInv DEF ProcessMessage
  <2>2. CASE RaftInternal
    BY <2>2, <1>0, RaftActionInv DEF RaftInternal
  \* update_cluster_state_from_heartbeat runs after the handler returned.
  <2>3. CASE UpdateClusterState
    BY <2>3, <1>0, RaftConstants DEF UpdateClusterState, RaftInv, RaftTypeOK, TermBound,
                                     HPcs, raftVars
  <2>4. CASE \/ HeartbeatLoop \/ GoStale \/ MonitorClusterHealth \/ UNCHANGED cvars
             \/ \E r \in Reqs : Handler(r)
    <3>1. UNCHANGED rvars
      BY <2>4 DEF HeartbeatLoop, GoStale, MonitorClusterHealth, cvars, Handler,
                  PutObjectGate, DeleteObjectGate, CreateBucketGate, WriteGate,
                  StoreLocal, RequestReplication, SubmitReplication
    <3>. QED
      BY <3>1, <1>0, RaftInvUnchanged
  <2>. QED
    BY <2>1, <2>2, <2>3, <2>4 DEF Next
<1>2. ClusterTypeOK'
  <2>1. CASE HeartbeatLoop
    <3>1. /\ chan < MaxChan /\ chan' = chan + 1
          /\ UNCHANGED <<members, stale, totalReplicas, rPc, rOp>>
      BY <2>1 DEF HeartbeatLoop, clusterVars, reqVars
    <3>. QED
      BY <3>1, <1>a, ConsensusConstants DEF ClusterTypeOK
  <2>2. CASE ProcessMessage
    <3>1. /\ chan > 0 /\ chan' = chan - 1
          /\ UNCHANGED <<members, stale, totalReplicas, rPc, rOp>>
      BY <2>2 DEF ProcessMessage, clusterVars, reqVars
    <3>. QED
      BY <3>1, <1>a, ConsensusConstants DEF ClusterTypeOK
  \* The sender recorded is the one of the message handled, a node id.
  <2>3. CASE UpdateClusterState
    <3>1. hMsg \in Msgs
      BY <2>3, <1>0 DEF UpdateClusterState, RaftInv, RaftTypeOK
    <3>. QED
      BY <2>3, <3>1, <1>a DEF UpdateClusterState, ClusterTypeOK, reqVars, Msgs
  <2>4. CASE RaftInternal
    BY <2>4, <1>a DEF RaftInternal, ClusterTypeOK, clusterVars, reqVars
  <2>5. CASE GoStale
    BY <2>5, <1>a DEF GoStale, ClusterTypeOK, reqVars
  \* total_replicas is the size of a set of node ids.
  <2>6. CASE MonitorClusterHealth
    <3>1. Cardinality(members) \in 0..Cardinality(Nodes)
      BY <1>a, MembersCard DEF ClusterTypeOK
    <3>. QED
      BY <2>6, <3>1, <1>a DEF MonitorClusterHealth, ClusterTypeOK, reqVars
  <2>7. ASSUME NEW r \in Reqs, Handler(r) PROVE ClusterTypeOK'
    BY <2>7, <1>a DEF Handler, PutObjectGate, DeleteObjectGate, CreateBucketGate, WriteGate,
                      StoreLocal, RequestReplication, SubmitReplication, Reply, WriteOps,
                      ClusterTypeOK, clusterVars
  <2>8. CASE UNCHANGED cvars
    BY <2>8, <1>a DEF cvars, ClusterTypeOK, clusterVars, reqVars
  <2>. QED
    BY <2>1, <2>2, <2>3, <2>4, <2>5, <2>6, <2>7, <2>8 DEF Next
\* is_write_enabled is only ever set to a comparison.
<1>3. writeEnabled' \in BOOLEAN
  <2>1. CASE MonitorClusterHealth
    BY <2>1 DEF MonitorClusterHealth
  <2>2. CASE ~MonitorClusterHealth
    BY <2>2, <1>b DEF Next, HeartbeatLoop, ProcessMessage, UpdateClusterState, RaftInternal,
                      GoStale, cvars, clusterVars, Handler, PutObjectGate, DeleteObjectGate,
                      CreateBucketGate, WriteGate, StoreLocal, RequestReplication,
                      SubmitReplication
  <2>. QED
    BY <2>1, <2>2
<1>. QED
  BY <1>1, <1>2, <1>3 DEF ConsInv

\* Every reachable state of the node's consensus manager, health monitor
\* and write handlers is well typed, for every peer list and replication
\* factor: the channel stays within its bound, active_nodes holds node ids,
\* total_replicas is a count of them and each request is at a point of its
\* handler.
THEOREM ConsensusTypeCorrect == Spec => []TypeOK
BY ConsInvTypeOK, ConsInvInit, ConsInvStep, PTL DEF Spec
=============================================================================
