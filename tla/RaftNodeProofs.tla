---------------------------- MODULE RaftNodeProofs ----------------------------
(***************************************************************************)
(* Proofs about RaftNode for every set of peers and every term bound.      *)
(*                                                                         *)
(* RaftTypeOK is not inductive: start_election reads state and the term    *)
(* in one statement and increments the term in a later one, and between   *)
(* the two the message task may write a new term (handle_heartbeat's       *)
(* WriteTerm, handle_vote_request).  The increment stays within Terms      *)
(* because every term the message task writes is a peer's, and a peer's   *)
(* term is below MaxTerm: TermBound says so at the two points between the  *)
(* read and the increment.                                                 *)
(***************************************************************************)
EXTENDS RaftNode, TLAPS

\* Between ElectionReadState and StartTerm the term is below MaxTerm.
TermBound == elPc \in {"candidate", "term"} => currentTerm < MaxTerm

RaftInv == RaftTypeOK /\ TermBound

LEMMA RaftInvInit == RaftInit => RaftInv
BY RaftConstants DEF RaftInit, RaftInv, RaftTypeOK, TermBound, Terms, States,
                     Nodes, ElPcs, HPcs

\* The steps of RaftNode that ConsensusNode shares keep RaftInv: every one
\* but the return of a handler.
LEMMA RaftActionInv ==
    ASSUME RaftInv,
           \/ Run \/ Expire \/ ElectionStep \/ HandlerStep
           \/ \E m \in Msgs : HandleMessage(m)
    PROVE  RaftInv'
<1> USE RaftConstants DEF RaftInv, RaftTypeOK, TermBound, Terms, States, Nodes,
                          ElPcs, HPcs
<1>1. CASE Run
  BY <1>1 DEF Run, ArmTimer
<1>2. CASE Expire
  BY <1>2 DEF Expire, loopVars
<1>3. CASE ElectionStep
  <2>1. CASE ElectionTick
    BY <2>1 DEF ElectionTick, raftVars
  <2>2. CASE ElectionReadState
    BY <2>2 DEF ElectionReadState, raftVars
  <2>3. CASE StartCandidate
    BY <2>3 DEF StartCandidate
  \* The increment: TermBound gives currentTerm < MaxTerm at "term".
  <2>4. CASE StartTerm
    BY <2>4 DEF StartTerm
  <2>5. CASE StartVote
    BY <2>5 DEF StartVote
  <2>6. CASE StartReset
    BY <2>6 DEF StartReset, ArmTimer
  <2>. QED
    BY <1>3, <2>1, <2>2, <2>3, <2>4, <2>5, <2>6 DEF ElectionStep
<1>4. ASSUME NEW m \in Msgs, HandleMessage(m) PROVE RaftInv'
  <2>1. m.term \in 0..(MaxTerm - 1) /\ m.from \in Nodes /\ m # Nil
    BY NilNotMsg DEF Msgs
  <2>2. CASE HandleHeartbeat(m)
    BY <1>4, <2>1, <2>2 DEF HandleMessage, HandleHeartbeat, raftVars, Msgs
  \* The term the handler writes is the request's, below MaxTerm.
  <2>3. CASE HandleVoteRequest(m)
    BY <1>4, <2>1, <2>3 DEF HandleMessage, HandleVoteRequest, GrantVote, ArmTimer, Msgs
  <2>4. CASE HandleVoteResponse(m)
    BY <1>4, <2>1, <2>4 DEF HandleMessage, HandleVoteResponse, raftVars, Msgs
  <2>. QED
    BY <1>4, <2>2, <2>3, <2>4 DEF HandleMessage
<1>5. CASE HandlerStep
  \* WriteTerm writes the term of the message it holds, below MaxTerm.
  <2>1. CASE WriteTerm
    <3>1. hMsg \in Msgs
      BY <2>1 DEF WriteTerm
    <3>. QED
      BY <2>1, <3>1 DEF WriteTerm, Msgs
  <2>2. CASE WriteState
    BY <2>2 DEF WriteState
  <2>3. CASE WriteLeader
    <3>1. hMsg \in Msgs
      BY <2>3 DEF WriteLeader
    <3>. QED
      BY <2>3, <3>1 DEF WriteLeader, Msgs
  <2>4. CASE WriteReset
    BY <2>4 DEF WriteReset, ArmTimer
  <2>. QED
    BY <1>5, <2>1, <2>2, <2>3, <2>4 DEF HandlerStep
<1>. QED
  BY <1>1, <1>2, <1>3, <1>4, <1>5

LEMMA RaftInvStep == RaftInv /\ [RaftNext]_rvars => RaftInv'
<1> SUFFICES ASSUME RaftInv, [RaftNext]_rvars PROVE RaftInv'
  OBVIOUS
<1>1. CASE Return
  BY <1>1, RaftConstants DEF Return, raftVars, RaftInv, RaftTypeOK, TermBound, HPcs
<1>2. CASE UNCHANGED rvars
  BY <1>2 DEF rvars, raftVars, loopVars, RaftInv, RaftTypeOK, TermBound
<1>. QED
  BY <1>1, <1>2, RaftActionInv DEF RaftNext

\* Every reachable state of the node, whatever peers and term bound, is
\* well typed: in particular start_election's current_term += 1 never
\* leaves the terms, although the message task can write current_term
\* between the election loop's read of the term and its increment.
THEOREM RaftTypeCorrect == RaftSpec => []RaftTypeOK
<1>1. RaftInv => RaftTypeOK
  BY DEF RaftInv
<1>. QED
  BY <1>1, RaftInvInit, RaftInvStep, PTL DEF RaftSpec
=============================================================================
