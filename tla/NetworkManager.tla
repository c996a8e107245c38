---------------------------- MODULE NetworkManager ----------------------------
(***************************************************************************)
(* The network crate of one node (network/src): NetworkManager, its        *)
(* PeerDiscovery behind a tokio RwLock, and the MessageHandler's           *)
(* connection table behind another.                                       *)
(*                                                                         *)
(* Tasks:                                                                  *)
(*   - the discovery task of NetworkManager::start, which takes the        *)
(*     discovery write lock and holds it for start_discovery, whose two    *)
(*     loops run forever and only log;                                     *)
(*   - manage_peer_connections, which reads the discovered peers, then     *)
(*     the connected ones, then calls add_connection for each missing one; *)
(*   - maintain_connections, which collects the connections idle longer    *)
(*     than consensus_timeout_ms under the read lock, then removes those   *)
(*     ids under the write lock;                                           *)
(*   - one handle_connection task per connection add_connection made: it   *)
(*     marks the connection Connected, forwards messages until its         *)
(*     channel's sender (held in the Connection) is dropped, then removes  *)
(*     the table entry of its peer;                                        *)
(*   - callers of the public add_peer and remove_peer.                     *)
(* Each lock acquisition is one step.  No message ever reaches             *)
(* process_messages (nothing sends into its channel), so last_activity is  *)
(* only set when a connection is made; the messages of send_message are    *)
(* forwarded by the handler without touching the table and are left out.   *)
(***************************************************************************)
EXTENDS Naturals, FiniteSets

CONSTANTS
    Peers,     \* the Uuids of other nodes
    Callers,   \* tasks calling add_peer / remove_peer
    Nil,       \* None
    MaxGen     \* bound: connections made (each is a fresh Connection)

VARIABLES
    discHolder,   \* the task holding the discovery write lock, or Nil
    discovered,   \* discovered_peers
    conns,        \* conns[p]: the Connection of p in the table, or Nil
    nextGen,      \* the generation of the next Connection made
    hPc,          \* hPc[g]: where the handler of connection g is
    hPeer,        \* hPeer[g]: its peer
    mnPc,         \* manage_peer_connections
    mnSeen,       \* its snapshot of the discovered peers still to visit
    mnConn,       \* its snapshot of the connected peers
    mtPc,         \* maintain_connections
    mtRemove,     \* its to_remove
    cPc,          \* cPc[c]: where caller c is
    cPeer,        \* cPeer[c]: its argument
    wanted        \* history: peers whose add_connection returned Ok and
                  \* that no remove and no idle timeout has dropped since

nvars == <<discHolder, discovered, conns, nextGen, hPc, hPeer, mnPc, mnSeen,
           mnConn, mtPc, mtRemove, cPc, cPeer, wanted>>

Gens    == 1..MaxGen
Conn    == [gen: Gens, status: {"Connecting", "Connected"}, idle: BOOLEAN]
HPcs    == {"none", "start", "loop", "cleanup", "done"}
Present == {p \in Peers : conns[p] # Nil}

TypeOK ==
    /\ discHolder \in {Nil, "discovery"}
    /\ discovered \subseteq Peers
    /\ conns \in [Peers -> Conn \cup {Nil}]
    /\ nextGen \in 1..(MaxGen + 1)
    /\ hPc \in [Gens -> HPcs]
    /\ hPeer \in [Gens -> Peers \cup {Nil}]
    /\ mnPc \in {"tick", "connected", "add"}
    /\ mnSeen \subseteq Peers /\ mnConn \subseteq Peers
    /\ mtPc \in {"tick", "remove"}
    /\ mtRemove \subseteq Peers
    /\ cPc \in [Callers -> {"idle", "add_connection", "remove_connection"}]
    /\ cPeer \in [Callers -> Peers \cup {Nil}]
    /\ wanted \subseteq Peers

\* NetworkManager::new: empty discovery list and connection table.
Init ==
    /\ discHolder = Nil
    /\ discovered = {}
    /\ conns = [p \in Peers |-> Nil]
    /\ nextGen = 1
    /\ hPc = [g \in Gens |-> "none"]
    /\ hPeer = [g \in Gens |-> Nil]
    /\ mnPc = "tick" /\ mnSeen = {} /\ mnConn = {}
    /\ mtPc = "tick" /\ mtRemove = {}
    /\ cPc = [c \in Callers |-> "idle"]
    /\ cPeer = [c \in Callers |-> Nil]
    /\ wanted = {}

-----------------------------------------------------------------------------
(* MessageHandler's table operations, each under the connections write lock *)

\* add_connection: Ok if p has a connection; otherwise insert a fresh one
\* (Connecting, just active) and spawn its handler.
AddConnection(p) ==
    /\ wanted' = wanted \cup {p}
    /\ IF conns[p] # Nil
         THEN UNCHANGED <<conns, nextGen, hPc, hPeer>>
         ELSE /\ nextGen <= MaxGen
              /\ conns' = [conns EXCEPT ![p] =
                             [gen |-> nextGen, status |-> "Connecting", idle |-> FALSE]]
              /\ hPc' = [hPc EXCEPT ![nextGen] = "start"]
              /\ hPeer' = [hPeer EXCEPT ![nextGen] = p]
              /\ nextGen' = nextGen + 1

\* remove_connection: drop p's entry, and with it its channel's sender.
RemoveConnection(p) ==
    /\ conns' = [conns EXCEPT ![p] = Nil]
    /\ wanted' = wanted \ {p}
    /\ UNCHANGED <<nextGen, hPc, hPeer>>

-----------------------------------------------------------------------------
(* The discovery task *)

\* NetworkManager::start's discovery task: discovery.write(), then
\* start_discovery, which never returns.
DiscoveryStart ==
    /\ discHolder = Nil
    /\ discHolder' = "discovery"
    /\ UNCHANGED <<discovered, conns, nextGen, hPc, hPeer, mnPc, mnSeen, mnConn,
                   mtPc, mtRemove, cPc, cPeer, wanted>>

-----------------------------------------------------------------------------
(* manage_peer_connections *)

\* A tick: read the discovered peers under the discovery read lock.
ManageReadDiscovered ==
    /\ mnPc = "tick"
    /\ discHolder = Nil
    /\ mnSeen' = discovered
    /\ mnPc' = "connected"
    /\ UNCHANGED <<discHolder, discovered, conns, nextGen, hPc, hPeer, mnConn,
                   mtPc, mtRemove, cPc, cPeer, wanted>>

\* get_connected_nodes under the connections read lock.
ManageReadConnected ==
    /\ mnPc = "connected"
    /\ mnConn' = Present
    /\ mnPc' = "add"
    /\ UNCHANGED <<discHolder, discovered, conns, nextGen, hPc, hPeer, mnSeen,
                   mtPc, mtRemove, cPc, cPeer, wanted>>

\* The loop over the snapshot: add_connection for a peer not connected in
\* the snapshot; the tick ends when the snapshot is exhausted.
ManageAdd ==
    /\ mnPc = "add"
    /\ \/ /\ mnSeen = {}
          /\ mnPc' = "tick"
          /\ UNCHANGED <<conns, nextGen, hPc, hPeer, mnSeen, wanted>>
       \/ \E p \in mnSeen :
            /\ mnSeen' = mnSeen \ {p}
            /\ IF p \in mnConn THEN UNCHANGED <<conns, nextGen, hPc, hPeer, wanted>>
                               ELSE AddConnection(p)
            /\ UNCHANGED mnPc
    /\ UNCHANGED <<discHolder, discovered, mnConn, mtPc, mtRemove, cPc, cPeer>>

ManageStep == ManageReadDiscovered \/ ManageReadConnected \/ ManageAdd

-----------------------------------------------------------------------------
(* maintain_connections *)

\* Time passes: a connection's last_activity is older than the timeout.
GoIdle ==
    /\ \E p \in Present :
         /\ ~conns[p].idle
         /\ conns' = [conns EXCEPT ![p].idle = TRUE]
    /\ UNCHANGED <<discHolder, discovered, nextGen, hPc, hPeer, mnPc, mnSeen,
                   mnConn, mtPc, mtRemove, cPc, cPeer, wanted>>

\* A tick: collect the idle connections under the read lock.
MaintainScan ==
    /\ mtPc = "tick"
    /\ mtRemove' = {p \in Present : conns[p].idle}
    /\ mtPc' = IF mtRemove' = {} THEN "tick" ELSE "remove"
    /\ UNCHANGED <<discHolder, discovered, conns, nextGen, hPc, hPeer, mnPc,
                   mnSeen, mnConn, cPc, cPeer, wanted>>

\* Remove every collected id under the write lock, whatever entry it has
\* now.  Only the removal of a connection that is idle drops it from the
\* history of wanted connections.
MaintainRemove ==
    /\ mtPc = "remove"
    /\ conns' = [p \in Peers |-> IF p \in mtRemove THEN Nil ELSE conns[p]]
    /\ wanted' = wanted \ {p \in mtRemove : conns[p] # Nil /\ conns[p].idle}
    /\ mtPc' = "tick"
    /\ mtRemove' = {}
    /\ UNCHANGED <<discHolder, discovered, nextGen, hPc, hPeer, mnPc, mnSeen,
                   mnConn, cPc, cPeer>>

MaintainStep == MaintainScan \/ MaintainRemove

-----------------------------------------------------------------------------
(* handle_connection, one task per connection generation g *)

\* The Connection of generation g is still in the table, so its sender lives.
SenderAlive(g) == conns[hPeer[g]] # Nil /\ conns[hPeer[g]].gen = g

\* Mark the peer's connection Connected, whichever connection it is now.
HandlerStart(g) ==
    /\ hPc[g] = "start"
    /\ conns' = IF conns[hPeer[g]] # Nil
                  THEN [conns EXCEPT ![hPeer[g]].status = "Connected"]
                  ELSE conns
    /\ hPc' = [hPc EXCEPT ![g] = "loop"]
    /\ UNCHANGED <<discHolder, discovered, nextGen, hPeer, mnPc, mnSeen, mnConn,
                   mtPc, mtRemove, cPc, cPeer, wanted>>

\* recv returns None: the sender was dropped with its Connection.
HandlerExit(g) ==
    /\ hPc[g] = "loop"
    /\ ~SenderAlive(g)
    /\ hPc' = [hPc EXCEPT ![g] = "cleanup"]
    /\ UNCHANGED <<discHolder, discovered, conns, nextGen, hPeer, mnPc, mnSeen,
                   mnConn, mtPc, mtRemove, cPc, cPeer, wanted>>

\* Clean up: remove the peer's entry, whichever connection it is now.
HandlerCleanup(g) ==
    /\ hPc[g] = "cleanup"
    /\ conns' = [conns EXCEPT ![hPeer[g]] = Nil]
    /\ hPc' = [hPc EXCEPT ![g] = "done"]
    /\ UNCHANGED <<discHolder, discovered, nextGen, hPeer, mnPc, mnSeen, mnConn,
                   mtPc, mtRemove, cPc, cPeer, wanted>>

Handler(g) == HandlerStart(g) \/ HandlerExit(g) \/ HandlerCleanup(g)

-----------------------------------------------------------------------------
(* add_peer and remove_peer *)

\* add_peer: add_discovered_peer under the discovery write lock.
AddPeer(c, p) ==
    /\ cPc[c] = "idle"
    /\ discHolder = Nil
    /\ discovered' = discovered \cup {p}
    /\ cPc' = [cPc EXCEPT ![c] = "add_connection"]
    /\ cPeer' = [cPeer EXCEPT ![c] = p]
    /\ UNCHANGED <<discHolder, conns, nextGen, hPc, hPeer, mnPc, mnSeen, mnConn,
                   mtPc, mtRemove, wanted>>

\* ... then add_connection.
AddPeerConnect(c) ==
    /\ cPc[c] = "add_connection"
    /\ AddConnection(cPeer[c])
    /\ cPc' = [cPc EXCEPT ![c] = "idle"]
    /\ UNCHANGED <<discHolder, discovered, mnPc, mnSeen, mnConn, mtPc, mtRemove, cPeer>>

\* remove_peer: remove_peer under the discovery write lock.
RemovePeer(c, p) ==
    /\ cPc[c] = "idle"
    /\ discHolder = Nil
    /\ discovered' = discovered \ {p}
    /\ cPc' = [cPc EXCEPT ![c] = "remove_connection"]
    /\ cPeer' = [cPeer EXCEPT ![c] = p]
    /\ UNCHANGED <<discHolder, conns, nextGen, hPc, hPeer, mnPc, mnSeen, mnConn,
                   mtPc, mtRemove, wanted>>

\* ... then remove_connection.
RemovePeerConnect(c) ==
    /\ cPc[c] = "remove_connection"
    /\ RemoveConnection(cPeer[c])
    /\ cPc' = [cPc EXCEPT ![c] = "idle"]
    /\ UNCHANGED <<discHolder, discovered, mnPc, mnSeen, mnConn, mtPc, mtRemove, cPeer>>

Caller(c) ==
    \/ \E p \in Peers : AddPeer(c, p) \/ RemovePeer(c, p)
    \/ AddPeerConnect(c) \/ RemovePeerConnect(c)

-----------------------------------------------------------------------------
Next ==
    \/ DiscoveryStart
    \/ ManageStep
    \/ GoIdle
    \/ MaintainStep
    \/ \E g \in Gens : Handler(g)
    \/ \E c \in Callers : Caller(c)

\* The spawned tasks are polled whenever they can go on; time and the
\* callers are not assumed to progress.
Fairness ==
    /\ WF_nvars(DiscoveryStart)
    /\ WF_nvars(ManageStep)
    /\ WF_nvars(MaintainStep)
    /\ \A g \in Gens : WF_nvars(Handler(g))

Spec == Init /\ [][Next]_nvars /\ Fairness

-----------------------------------------------------------------------------
(* Properties *)

\* A connection that add_connection reported (made or already there) stays
\* in the table until remove_connection removes it or maintain_connections
\* removes it for being idle: send_message to that peer finds it.
ConnectionKeptWhileWanted == wanted \subseteq Present
=============================================================================
