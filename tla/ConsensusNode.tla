---------------------------- MODULE ConsensusNode ----------------------------
(***************************************************************************)
(* One node's consensus manager, cluster health monitor and write gate,    *)
(* around its RaftNode:                                                    *)
(*   - ConsensusManager::start (consensus/src/manager.rs) spawns           *)
(*     heartbeat_loop, which sends a Heartbeat {from: own id, term: 0}     *)
(*     into the manager's own mpsc channel every heartbeat interval, and   *)
(*     process_messages, which hands each message to the RaftNode handler  *)
(*     and then records the sender in cluster_state;                       *)
(*   - Node::monitor_cluster_health (src/node.rs) recounts the active      *)
(*     nodes, sets is_write_enabled and evicts nodes not heard from in     *)
(*     3 heartbeat intervals;                                              *)
(*   - the write handlers (api/src/handlers.rs) read is_write_enabled,     *)
(*     call the storage engine and ask the manager for replication.        *)
(*                                                                         *)
(* The channel's sender is private to the manager and heartbeat_loop is    *)
(* its only user, so the only message the node ever handles is its own     *)
(* term-0 heartbeat: the channel is the number of such heartbeats queued.  *)
(* node.rs, manager.rs and the API each declare a ClusterState struct of   *)
(* their own; Node::new hands one Arc of it to both, and the model takes   *)
(* it as the one shared state the code means.  The storage engine call is  *)
(* one step with its outcome (Ok or an error) chosen freely: the engine    *)
(* itself is StorageEngine.tla.                                            *)
(***************************************************************************)
EXTENDS RaftNode

CONSTANTS
    RF,          \* replication_factor
    Reqs,        \* the tasks serving API write requests
    MaxChan      \* bound: heartbeats queued in the channel

\* The peers come from a configured list (ConsensusConfig.peers, a Vec).
ASSUME ConsensusConstants ==
    /\ IsFiniteSet(Peers)
    /\ RF \in Nat \ {0}
    /\ MaxChan \in Nat \ {0}
    /\ Nil \notin Reqs

VARIABLES
    chan,           \* heartbeats sent and not yet received
    members,        \* the ids in cluster_state.active_nodes (all Active)
    stale,          \* members not heard from in 3 heartbeat intervals
    totalReplicas,  \* cluster_state.total_replicas
    writeEnabled,   \* cluster_state.is_write_enabled
    rPc,            \* rPc[r]: where write request r is
    rOp             \* rOp[r]: its operation

clusterVars == <<members, stale, totalReplicas, writeEnabled>>
reqVars     == <<rPc, rOp>>
cvars       == <<rvars, chan, clusterVars, reqVars>>

WriteOps == {"put", "delete", "create_bucket"}

\* The heartbeat heartbeat_loop sends.
SelfHeartbeat == [kind |-> "hb", from |-> Me, term |-> 0]

TypeOK ==
    /\ RaftTypeOK
    /\ chan \in 0..MaxChan
    /\ members \subseteq Nodes
    /\ stale \subseteq members
    /\ totalReplicas \in 0..Cardinality(Nodes)
    /\ writeEnabled \in BOOLEAN
    /\ rPc \in [Reqs -> {"idle", "store", "replicate", "submit"}]
    /\ rOp \in [Reqs -> WriteOps \cup {Nil}]

\* Node::new and ConsensusManager::new.
Init ==
    /\ RaftInit
    /\ chan = 0
    /\ members = {}
    /\ stale = {}
    /\ totalReplicas = 0
    /\ writeEnabled = FALSE
    /\ rPc = [r \in Reqs |-> "idle"]
    /\ rOp = [r \in Reqs |-> Nil]

-----------------------------------------------------------------------------
(* The consensus manager *)

\* heartbeat_loop: one tick, one heartbeat into the channel.
HeartbeatLoop ==
    /\ chan < MaxChan
    /\ chan' = chan + 1
    /\ UNCHANGED <<rvars, clusterVars, reqVars>>

\* process_messages: receive a heartbeat and start handle_heartbeat.
ProcessMessage ==
    /\ chan > 0
    /\ chan' = chan - 1
    /\ HandleMessage(SelfHeartbeat)
    /\ UNCHANGED <<clusterVars, reqVars>>

\* After handle_heartbeat returns: update_cluster_state_from_heartbeat
\* marks the sender Active and refreshes its last_seen, or adds it.
UpdateClusterState ==
    /\ hPc = "returned"
    /\ members' = members \cup {hMsg.from}
    /\ stale' = stale \ {hMsg.from}
    /\ hPc' = "idle"
    /\ hMsg' = Nil
    /\ UNCHANGED <<raftVars, elPc, votes, chan, totalReplicas, writeEnabled, reqVars>>

\* A RaftNode step that is not the arrival or the return of a message.
RaftInternal ==
    /\ Run \/ Expire \/ ElectionStep \/ HandlerStep
    /\ UNCHANGED <<chan, clusterVars, reqVars>>

-----------------------------------------------------------------------------
(* The health monitor *)

\* Time passes: node n's last_seen falls more than 3 intervals behind.
GoStale ==
    /\ \E n \in members \ stale : stale' = stale \cup {n}
    /\ UNCHANGED <<rvars, chan, members, totalReplicas, writeEnabled, reqVars>>

\* Mutant: the gate opens only above replication_factor.
MonitorClusterHealthStrict ==
    /\ totalReplicas' = Cardinality(members)
    /\ writeEnabled' = (Cardinality(members) > RF)
    /\ members' = members \ stale
    /\ stale' = {}
    /\ UNCHANGED <<rvars, chan, reqVars>>

\* monitor_cluster_health: one pass under the cluster_state write lock.
\* It counts the Active nodes and sets the gate first, then evicts.
MonitorClusterHealth ==
    /\ totalReplicas' = Cardinality(members)
    /\ writeEnabled' = (Cardinality(members) >= RF)
    /\ members' = members \ stale
    /\ stale' = {}
    /\ UNCHANGED <<rvars, chan, reqVars>>

-----------------------------------------------------------------------------
(* The write handlers *)

\* put_object, delete_object and create_bucket: read is_write_enabled,
\* refuse with InsufficientReplicas when it is false, drop the lock.
WriteGate(r, o) ==
    /\ rPc[r] = "idle"
    /\ rOp' = [rOp EXCEPT ![r] = o]
    /\ rPc' = [rPc EXCEPT ![r] = IF writeEnabled THEN "store" ELSE "idle"]
    /\ UNCHANGED <<rvars, chan, clusterVars>>

PutObjectGate(r)    == WriteGate(r, "put")
DeleteObjectGate(r) == WriteGate(r, "delete")
CreateBucketGate(r) == WriteGate(r, "create_bucket")

\* The handler returns its response to the client.
Reply(r) == rPc' = [rPc EXCEPT ![r] = "idle"]

\* The storage engine call.  An error (InsufficientSpace, Io, NoSuchKey on a
\* delete that removed nothing) is returned to the client; create_bucket
\* answers after the engine, put and delete go on to replication.
StoreLocal(r) ==
    /\ rPc[r] = "store"
    /\ \/ Reply(r)
       \/ rOp[r] = "create_bucket" /\ Reply(r)
       \/ rOp[r] # "create_bucket" /\ rPc' = [rPc EXCEPT ![r] = "replicate"]
    /\ UNCHANGED <<rvars, chan, clusterVars, rOp>>

\* request_replication: refuse when total_replicas < replication_factor.
\* The handler logs the error and answers 200 all the same.
RequestReplication(r) ==
    /\ rPc[r] = "replicate"
    /\ IF totalReplicas < RF
         THEN Reply(r)
         ELSE rPc' = [rPc EXCEPT ![r] = "submit"]
    /\ UNCHANGED <<rvars, chan, clusterVars, rOp>>

\* submit_replication_request: reads state and returns NotLeader unless
\* this node is Leader; the handler again logs the error and answers 200.
SubmitReplication(r) ==
    /\ rPc[r] = "submit"
    /\ Reply(r)
    /\ UNCHANGED <<rvars, chan, clusterVars, rOp>>

Handler(r) ==
    \/ PutObjectGate(r) \/ DeleteObjectGate(r) \/ CreateBucketGate(r)
    \/ StoreLocal(r) \/ RequestReplication(r) \/ SubmitReplication(r)

-----------------------------------------------------------------------------
Next ==
    \/ HeartbeatLoop
    \/ ProcessMessage
    \/ UpdateClusterState
    \/ RaftInternal
    \/ GoStale
    \/ MonitorClusterHealth
    \/ \E r \in Reqs : Handler(r)

\* The manager's and the monitor's loops and the raft tasks are polled
\* whenever they can go on; requests from clients, time and the order of
\* the loops' ticks are not assumed to progress.
Fairness ==
    /\ RaftFairness
    /\ WF_cvars(HeartbeatLoop)
    /\ WF_cvars(ProcessMessage)
    /\ WF_cvars(UpdateClusterState)
    /\ WF_cvars(MonitorClusterHealth)

Spec == Init /\ [][Next]_cvars /\ Fairness

-----------------------------------------------------------------------------
(* Properties *)

\* Writes are enabled again and again: the node's own heartbeats keep it
\* in active_nodes, so each health pass after one of them opens the gate
\* when the node alone meets replication_factor (spec 4.4, gate).
GateEventuallyOpens == []<>writeEnabled

\* A write reaches the storage engine only while active_nodes holds at
\* least replication_factor nodes: the coordinator refuses a mutation
\* unless |Active peers| >= R (spec 4.4).  Both the health pass, which sets
\* the gate from the count it takes before evicting stale nodes, and the
\* handler, which drops the lock before the engine call, bear on it.
GateHeldDuringWrite ==
    \A r \in Reqs : rPc[r] = "store" => Cardinality(members) >= RF
=============================================================================
