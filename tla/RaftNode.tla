------------------------------- MODULE RaftNode -------------------------------
(***************************************************************************)
(* One node's RaftNode (consensus/src/raft.rs).                            *)
(*                                                                         *)
(* Every field of RaftNode sits behind its own tokio RwLock or Mutex, and  *)
(* each statement that reads or writes one takes that lock for the one    *)
(* statement only: between two such statements another task can run.  A   *)
(* step of this module is one such statement.  handle_vote_request is the  *)
(* exception: it holds the current_term and voted_for write locks for its  *)
(* whole body, so it is one step.                                          *)
(*                                                                         *)
(* Two tasks act on a node: election_timeout_loop (spawned by run) and the *)
(* task that calls the message handlers one message at a time              *)
(* (process_messages in manager.rs).  leader_heartbeat_loop only reads     *)
(* state, and become_leader has no caller, so neither is an action here.   *)
(*                                                                         *)
(* The handlers of AppendEntriesResponse, Replication* and Join* change    *)
(* nothing and are left out.  In this module any message with any term can *)
(* arrive: the handlers are the public interface of RaftNode.              *)
(* ConsensusNode restricts the arrivals to what manager.rs really sends.   *)
(***************************************************************************)
EXTENDS Naturals, FiniteSets

CONSTANTS
    Me,          \* this node's NodeId
    Peers,       \* the NodeIds of other nodes
    Nil,         \* None
    MaxTerm      \* bound: the election loop starts no election at this term

ASSUME RaftConstants ==
    /\ Me \notin Peers
    /\ Nil \notin Peers \cup {Me}
    /\ MaxTerm \in Nat \ {0}

VARIABLES
    state,        \* RaftState
    currentTerm,  \* current_term
    votedFor,     \* voted_for
    leader,       \* leader
    timer,        \* election_timeout: None, Some(deadline ahead), Some(deadline passed)
    elPc,         \* where election_timeout_loop is
    hPc,          \* where the message-handling task is
    hMsg,         \* the message it is handling
    votes         \* ghost: the pairs <<term, candidate>> this node voted for

raftVars == <<state, currentTerm, votedFor, leader, timer>>
loopVars == <<elPc, hPc, hMsg>>
rvars    == <<raftVars, loopVars, votes>>

Nodes  == Peers \cup {Me}
Terms  == 0..MaxTerm
States == {"Follower", "Candidate", "Leader"}

\* The messages whose handlers change state.  A peer's term is below
\* MaxTerm, so that the election loop's increment stays within Terms.
MsgKinds == {"hb", "vreq", "vresp", "ae"}
Msgs     == [kind: MsgKinds, from: Nodes, term: 0..(MaxTerm - 1)]

\* hMsg is an Option: None is no message.
ASSUME NilNotMsg == Nil \notin Msgs

ElPcs == {"run", "tick", "read_state", "candidate", "term", "vote", "reset"}
HPcs  == {"idle", "write_term", "write_state", "write_leader", "reset", "returned"}

RaftTypeOK ==
    /\ state \in States
    /\ currentTerm \in Terms
    /\ votedFor \in Nodes \cup {Nil}
    /\ leader \in Nodes \cup {Nil}
    /\ timer \in {"none", "armed", "expired"}
    /\ elPc \in ElPcs
    /\ hPc \in HPcs
    /\ hMsg \in Msgs \cup {Nil}
    /\ (hPc = "idle") <=> (hMsg = Nil)
    /\ votes \subseteq Terms \X Nodes

\* RaftNode::new.
RaftInit ==
    /\ state = "Follower"
    /\ currentTerm = 0
    /\ votedFor = Nil
    /\ leader = Nil
    /\ timer = "none"
    /\ elPc = "run"
    /\ hPc = "idle"
    /\ hMsg = Nil
    /\ votes = {}

\* reset_election_timeout: a fresh deadline in the future.
ArmTimer == timer' = "armed"

\* run: reset_election_timeout, then spawn the two loops.
Run ==
    /\ elPc = "run"
    /\ ArmTimer
    /\ elPc' = "tick"
    /\ UNCHANGED <<state, currentTerm, votedFor, leader, hPc, hMsg, votes>>

\* Time passes the deadline.
Expire ==
    /\ timer = "armed"
    /\ timer' = "expired"
    /\ UNCHANGED <<state, currentTerm, votedFor, leader, loopVars, votes>>

\* Mutant: the deadline comparison inverted, so a passed deadline is ignored.
ElectionTickInverted ==
    /\ elPc = "tick"
    /\ timer = "armed"
    /\ elPc' = "read_state"
    /\ UNCHANGED <<raftVars, hPc, hMsg, votes>>

\* election_timeout_loop: on a tick, lock the deadline and compare it with
\* now; when it has passed, drop the guard.  A tick before the deadline
\* changes nothing.
ElectionTick ==
    /\ elPc = "tick"
    /\ timer = "expired"
    /\ elPc' = "read_state"
    /\ UNCHANGED <<raftVars, hPc, hMsg, votes>>

\* ... read state; start an election unless Leader.
ElectionReadState ==
    /\ elPc = "read_state"
    /\ elPc' = IF state # "Leader" /\ currentTerm < MaxTerm THEN "candidate" ELSE "tick"
    /\ UNCHANGED <<raftVars, hPc, hMsg, votes>>

\* start_election, one statement per step.
StartCandidate ==
    /\ elPc = "candidate"
    /\ state' = "Candidate"
    /\ elPc' = "term"
    /\ UNCHANGED <<currentTerm, votedFor, leader, timer, hPc, hMsg, votes>>

StartTerm ==
    /\ elPc = "term"
    /\ currentTerm' = currentTerm + 1
    /\ elPc' = "vote"
    /\ UNCHANGED <<state, votedFor, leader, timer, hPc, hMsg, votes>>

StartVote ==
    /\ elPc = "vote"
    /\ votedFor' = Me
    /\ votes' = votes \cup {<<currentTerm, Me>>}
    /\ elPc' = "reset"
    /\ UNCHANGED <<state, currentTerm, leader, timer, hPc, hMsg>>

StartReset ==
    /\ elPc = "reset"
    /\ ArmTimer
    /\ elPc' = "tick"
    /\ UNCHANGED <<state, currentTerm, votedFor, leader, hPc, hMsg, votes>>

ElectionStep ==
    ElectionTick \/ ElectionReadState \/ StartCandidate \/ StartTerm \/ StartVote \/ StartReset

\* handle_heartbeat and handle_append_entries: read current_term; a message
\* of a term at least as high makes the handler write term, state, leader
\* and deadline, each under its own lock.
HandleHeartbeat(m) ==
    /\ m.kind \in {"hb", "ae"}
    /\ hPc' = IF m.term >= currentTerm THEN "write_term" ELSE "returned"
    /\ UNCHANGED <<raftVars, votes>>

WriteTerm ==
    /\ hPc = "write_term"
    /\ currentTerm' = hMsg.term
    /\ hPc' = "write_state"
    /\ UNCHANGED <<state, votedFor, leader, timer, elPc, hMsg, votes>>

WriteState ==
    /\ hPc = "write_state"
    /\ state' = "Follower"
    /\ hPc' = "write_leader"
    /\ UNCHANGED <<currentTerm, votedFor, leader, timer, elPc, hMsg, votes>>

WriteLeader ==
    /\ hPc = "write_leader"
    /\ leader' = hMsg.from
    /\ hPc' = "reset"
    /\ UNCHANGED <<state, currentTerm, votedFor, timer, elPc, hMsg, votes>>

WriteReset ==
    /\ hPc = "reset"
    /\ ArmTimer
    /\ hPc' = "returned"
    /\ UNCHANGED <<state, currentTerm, votedFor, leader, elPc, hMsg, votes>>

\* handle_vote_request, under the current_term and voted_for locks.
GrantVote(m) ==
    \/ m.term > currentTerm
    \/ m.term = currentTerm /\ votedFor \in {Nil, m.from}

HandleVoteRequest(m) ==
    /\ m.kind = "vreq"
    /\ currentTerm' = IF m.term > currentTerm THEN m.term ELSE currentTerm
    /\ IF GrantVote(m)
         THEN /\ votedFor' = m.from
              /\ ArmTimer
              /\ votes' = votes \cup {<<currentTerm', m.from>>}
         ELSE UNCHANGED <<votedFor, timer, votes>>
    /\ hPc' = "returned"
    /\ UNCHANGED <<state, leader>>

\* handle_vote_response: reads state and counts nothing.
HandleVoteResponse(m) ==
    /\ m.kind = "vresp"
    /\ hPc' = "returned"
    /\ UNCHANGED <<raftVars, votes>>

\* The message-handling task takes message m and runs its handler's first step.
HandleMessage(m) ==
    /\ hPc = "idle"
    /\ hMsg' = m
    /\ \/ HandleHeartbeat(m)
       \/ HandleVoteRequest(m)
       \/ HandleVoteResponse(m)
    /\ UNCHANGED elPc

HandlerStep == WriteTerm \/ WriteState \/ WriteLeader \/ WriteReset

\* The handler has returned Ok; the task waits for the next message.
Return ==
    /\ hPc = "returned"
    /\ hPc' = "idle"
    /\ hMsg' = Nil
    /\ UNCHANGED <<raftVars, elPc, votes>>

RaftNext ==
    \/ Run
    \/ Expire
    \/ ElectionStep
    \/ \E m \in Msgs : HandleMessage(m)
    \/ HandlerStep
    \/ Return

\* The election loop and the handler run on tokio tasks that are polled
\* again whenever they can proceed; time and the arrival of messages are
\* not assumed to progress.
RaftFairness ==
    /\ WF_rvars(Run)
    /\ WF_rvars(ElectionStep)
    /\ WF_rvars(HandlerStep)
    /\ WF_rvars(Return)

RaftSpec == RaftInit /\ [][RaftNext]_rvars /\ RaftFairness

-----------------------------------------------------------------------------
(* Properties *)

\* A node votes for at most one candidate in a term: its own vote in
\* start_election and the votes handle_vote_request grants never name two
\* nodes for the same term (spec 4.4, Raft's election safety).
VotesOncePerTerm ==
    \A v, w \in votes : v[1] = w[1] => v[2] = w[2]

\* current_term never decreases: a handler or the election loop never
\* writes a term below the one the node is in.
TermNeverDecreases == [][currentTerm' >= currentTerm]_currentTerm

ExpiredTimerRearmed ==
    (timer = "expired") ~> (timer = "armed" \/ currentTerm = MaxTerm)
=============================================================================
