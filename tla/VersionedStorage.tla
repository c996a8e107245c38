--------------------------- MODULE VersionedStorage ---------------------------
(***************************************************************************)
(* The versioned cluster of versioned_storage.rs: a set of VersionedNodes, *)
(* each with its own map from file names to VersionedFiles, written by     *)
(* replicate_to_cluster and taken down and up by simulate_failure and      *)
(* recover.  Every method runs to its end before the next is called (main  *)
(* is one thread and holds the cluster by &mut), so each is one step.      *)
(*                                                                         *)
(* A file the map does not hold is the empty VersionedFile: store_version  *)
(* adds a version to a file in the same call that creates it, so no file   *)
(* of the map is ever empty and the two are told apart by Len.  A version  *)
(* is its number and its content; the timestamp and the size are read by   *)
(* no method of the cluster and are left out.                              *)
(***************************************************************************)
EXTENDS Naturals, Sequences, FiniteSets

CONSTANTS
    Nodes,      \* the ids of the VersionedNodes of the cluster
    Files,      \* file names
    Contents    \* file contents

VARIABLES
    active,     \* active[n]: is_active
    storage,    \* storage[n][f]: node n's VersionedFile of name f
    acked,      \* history: the versions replicate_to_cluster returned
    recovered   \* history: some node has been through recover

vsvars == <<active, storage, acked, recovered>>

\* VersionedNode::new sets replication_factor to 2.
ReplicationFactor == 2

Version   == [num: Nat, content: Contents]
VFile     == [latest: Nat, versions: Seq(Version)]
Ack       == [node: Nodes, file: Files, num: Nat, content: Contents]

\* VersionedFile::new: no versions, latest_version 0.
EmptyFile == [latest |-> 0, versions |-> << >>]

\* add_version: bump latest_version and push a version with that number.
AddVersion(vf, c) ==
    [latest   |-> vf.latest + 1,
     versions |-> Append(vf.versions, [num |-> vf.latest + 1, content |-> c])]

\* store_version on an active node: add a version to the file, creating it
\* first if the node has none of that name.
StoreVersion(sto, f, c) == [sto EXCEPT ![f] = AddVersion(@, c)]

TypeOK ==
    /\ active \in [Nodes -> BOOLEAN]
    /\ storage \in [Nodes -> [Files -> VFile]]
    /\ acked \subseteq Ack
    /\ recovered \in BOOLEAN

\* main: VersionedNode::new for every node, all active, no files.
Init ==
    /\ active = [n \in Nodes |-> TRUE]
    /\ storage = [n \in Nodes |-> [f \in Files |-> EmptyFile]]
    /\ acked = {}
    /\ recovered = FALSE

\* replicate_to_cluster on node p, with the other nodes as the cluster: an
\* inactive p returns None and changes nothing; otherwise p and every
\* active other node store the version, and the version number p gave it
\* is returned when at least replication_factor nodes stored it.
ReplicateToCluster(p, f, c) ==
    /\ active[p]
    /\ LET others == {n \in Nodes \ {p} : active[n]}
           stored == {p} \cup others
       IN  /\ storage' = [n \in Nodes |->
                            IF n \in stored THEN StoreVersion(storage[n], f, c)
                                            ELSE storage[n]]
           /\ acked' = IF Cardinality(stored) >= ReplicationFactor
                         THEN acked \cup {[node |-> p, file |-> f,
                                           num |-> storage[p][f].latest + 1,
                                           content |-> c]}
                         ELSE acked
    /\ UNCHANGED <<active, recovered>>

\* simulate_failure.
SimulateFailure(n) ==
    /\ active' = [active EXCEPT ![n] = FALSE]
    /\ UNCHANGED <<storage, acked, recovered>>

\* recover: the node comes back with the files it had.
Recover(n) ==
    /\ active' = [active EXCEPT ![n] = TRUE]
    /\ recovered' = TRUE
    /\ UNCHANGED <<storage, acked>>

Next ==
    \/ \E p \in Nodes, f \in Files, c \in Contents : ReplicateToCluster(p, f, c)
    \/ \E n \in Nodes : SimulateFailure(n) \/ Recover(n)

Spec == Init /\ [][Next]_vsvars

-----------------------------------------------------------------------------
(* The reads of a node, on an active node (an inactive one answers None or *)
(* an empty list).                                                        *)

\* get_version: the first version whose number is v.
GetVersion(n, f, v) ==
    LET vs == storage[n][f].versions
        ks == {k \in 1..Len(vs) : vs[k].num = v}
    IN  IF ks = {} THEN "None"
        ELSE vs[CHOOSE k \in ks : \A j \in ks : k <= j].content

\* get_latest: the last version.
GetLatest(n, f) ==
    LET vs == storage[n][f].versions
    IN  IF vs = << >> THEN "None" ELSE vs[Len(vs)].content

\* list_file_versions: the version numbers in order.
ListVersions(n, f) ==
    [k \in 1..Len(storage[n][f].versions) |-> storage[n][f].versions[k].num]

-----------------------------------------------------------------------------
(* Properties *)

\* s is a prefix of t.
IsPrefixOf(s, t) ==
    /\ Len(s) <= Len(t)
    /\ \A k \in 1..Len(s) : s[k] = t[k]

\* No method removes or rewrites a version: every step leaves each node's
\* versions of each file a prefix of what they become (add_version only
\* pushes, and simulate_failure and recover keep the files).
VersionsAppendOnly ==
    [][\A n \in Nodes, f \in Files :
          IsPrefixOf(storage[n][f].versions, storage'[n][f].versions)]_vsvars

\* Node n holds content c as version k of file f.
HoldsAs(n, f, k, c) ==
    /\ k \in 1..Len(storage[n][f].versions)
    /\ storage[n][f].versions[k].content = c

\* Every file numbers its versions 1, 2, ... in order, and latest_version
\* is the count: add_version's increment and push stay in step, so
\* get_version(v) finds the v-th version and get_file_info's two numbers
\* agree.
VersionNumbering ==
    \A n \in Nodes, f \in Files :
        /\ storage[n][f].latest = Len(storage[n][f].versions)
        /\ \A k \in 1..Len(storage[n][f].versions) :
               storage[n][f].versions[k].num = k

\* A version replicate_to_cluster returned is kept, under that number, by
\* the node that returned it, and is held by another node as well: the
\* count of successful replicas it checks against replication_factor is a
\* count of distinct nodes, and no method ever removes a version.
AckedReplicated ==
    \A a \in acked :
        /\ HoldsAs(a.node, a.file, a.num, a.content)
        /\ \E m \in Nodes \ {a.node}, k \in Nat : HoldsAs(m, a.file, k, a.content)

\* Two nodes that both hold a version of a file under one number hold the
\* same content under it: get_version(f, v) answers the same on every node.
ReplicasAgree ==
    \A n, m \in Nodes, f \in Files :
        \A k \in 1..Len(storage[n][f].versions) \cap 1..Len(storage[m][f].versions) :
            storage[n][f].versions[k] = storage[m][f].versions[k]

\* The replicas agree as long as no node has been through recover: a node
\* that fails misses the versions written while it is down, and after
\* recover its own counter numbers the next version as one the others
\* already gave to different content.
AgreeUntilRecovery == ~recovered => ReplicasAgree
=============================================================================
