------------------------ MODULE VersionedStorageProofs ------------------------
(***************************************************************************)
(* Proofs, for every cluster, file set and content set, that the version   *)
(* numbering, the replication of acknowledged versions and the agreement   *)
(* of the replicas until a recovery hold in VersionedStorage.              *)
(***************************************************************************)
EXTENDS VersionedStorage, FiniteSetTheorems, TLAPS

\* Any two replicas of a file are one a prefix of the other.
Comparable ==
    \A n, m \in Nodes, f \in Files :
        \/ IsPrefixOf(storage[n][f].versions, storage[m][f].versions)
        \/ IsPrefixOf(storage[m][f].versions, storage[n][f].versions)

\* An active node has every version any node has.
ActiveMaximal ==
    \A n, m \in Nodes, f \in Files :
        active[n] => IsPrefixOf(storage[m][f].versions, storage[n][f].versions)

\* The strengthening of AgreeUntilRecovery.
AgreeInv == ~recovered => Comparable /\ ActiveMaximal

-----------------------------------------------------------------------------
(* Prefixes *)

\* IsPrefixOf is reflexive, transitive and antisymmetric on sequences.
LEMMA PrefixRefl ==
    ASSUME NEW S, NEW s \in Seq(S)
    PROVE  IsPrefixOf(s, s)
BY DEF IsPrefixOf

LEMMA PrefixTrans ==
    ASSUME NEW S, NEW r \in Seq(S), NEW s \in Seq(S), NEW t \in Seq(S),
           IsPrefixOf(r, s), IsPrefixOf(s, t)
    PROVE  IsPrefixOf(r, t)
BY DEF IsPrefixOf

LEMMA PrefixAntisym ==
    ASSUME NEW S, NEW s \in Seq(S), NEW t \in Seq(S),
           IsPrefixOf(s, t), IsPrefixOf(t, s)
    PROVE  s = t
BY DEF IsPrefixOf

-----------------------------------------------------------------------------
(* add_version *)

\* What add_version returns: a well-formed file one version longer, whose
\* old versions are unchanged and whose new one carries latest + 1.
LEMMA AddVersionFacts ==
    ASSUME NEW vf \in VFile, NEW c \in Contents
    PROVE  /\ AddVersion(vf, c) \in VFile
           /\ Len(AddVersion(vf, c).versions) = Len(vf.versions) + 1
           /\ \A k \in 1..Len(vf.versions) :
                  AddVersion(vf, c).versions[k] = vf.versions[k]
           /\ AddVersion(vf, c).versions[Len(vf.versions) + 1] =
                  [num |-> vf.latest + 1, content |-> c]
           /\ AddVersion(vf, c).latest = vf.latest + 1
BY DEF AddVersion, VFile, Version

\* A step of replicate_to_cluster, file by file: the nodes that stored the
\* version have add_version applied to that file, all else is unchanged.
LEMMA ReplicateStorage ==
    ASSUME TypeOK,
           NEW p \in Nodes, NEW f \in Files, NEW c \in Contents,
           ReplicateToCluster(p, f, c),
           NEW n \in Nodes, NEW g \in Files
    PROVE  storage'[n][g] =
             IF n \in {p} \cup {x \in Nodes \ {p} : active[x]} /\ g = f
               THEN AddVersion(storage[n][f], c)
               ELSE storage[n][g]
BY DEF ReplicateToCluster, StoreVersion, TypeOK

-----------------------------------------------------------------------------
(* Type correctness *)

\* The type invariant holds initially and is kept by every step.
LEMMA TypeInit == Init => TypeOK
<1>1. EmptyFile \in VFile
  BY DEF EmptyFile, VFile
<1>2. [f \in Files |-> EmptyFile] \in [Files -> VFile]
  BY <1>1
<1>. QED
  BY <1>2 DEF Init, TypeOK

LEMMA TypeStep == TypeOK /\ [Next]_vsvars => TypeOK'
<1> SUFFICES ASSUME TypeOK, [Next]_vsvars PROVE TypeOK'
  OBVIOUS
<1>1. ASSUME NEW p \in Nodes, NEW f \in Files, NEW c \in Contents,
             ReplicateToCluster(p, f, c)
      PROVE  TypeOK'
  <2>1. storage' \in [Nodes -> [Files -> VFile]]
    <3>1. storage' = [n \in Nodes |->
                        IF n \in {p} \cup {x \in Nodes \ {p} : active[x]}
                          THEN StoreVersion(storage[n], f, c) ELSE storage[n]]
      BY <1>1 DEF ReplicateToCluster
    <3>2. ASSUME NEW n \in Nodes PROVE StoreVersion(storage[n], f, c) \in [Files -> VFile]
      <4>0. storage[n][f] \in VFile
        BY DEF TypeOK
      <4>1. AddVersion(storage[n][f], c) \in VFile
        BY <4>0, AddVersionFacts
      <4>. QED
        BY <4>1 DEF StoreVersion, TypeOK
    <3>. QED
      BY <3>1, <3>2 DEF TypeOK
  <2>2. acked' \subseteq Ack
    BY <1>1 DEF ReplicateToCluster, TypeOK, Ack, VFile
  <2>. QED
    BY <1>1, <2>1, <2>2 DEF ReplicateToCluster, TypeOK
<1>2. ASSUME NEW n \in Nodes, SimulateFailure(n) \/ Recover(n)
      PROVE  TypeOK'
  BY <1>2 DEF SimulateFailure, Recover, TypeOK
<1>3. CASE UNCHANGED vsvars
  BY <1>3 DEF vsvars, TypeOK
<1>. QED
  BY <1>1, <1>2, <1>3 DEF Next

\* The type invariant holds in every state.
THEOREM TypeCorrect == Spec => []TypeOK
BY TypeInit, TypeStep, PTL DEF Spec

-----------------------------------------------------------------------------
(* Versions only grow *)

\* Every step leaves each replica a prefix of what it becomes.
LEMMA GrowStep ==
    ASSUME TypeOK, [Next]_vsvars, NEW n \in Nodes, NEW g \in Files
    PROVE  IsPrefixOf(storage[n][g].versions, storage'[n][g].versions)
<1>0. storage[n][g] \in VFile /\ storage[n][g].versions \in Seq(Version)
  BY DEF TypeOK, VFile
<1>1. ASSUME NEW p \in Nodes, NEW f \in Files, NEW c \in Contents,
             ReplicateToCluster(p, f, c)
      PROVE  IsPrefixOf(storage[n][g].versions, storage'[n][g].versions)
  <2>1. CASE n \in {p} \cup {x \in Nodes \ {p} : active[x]} /\ g = f
    <3>1. storage'[n][g] = AddVersion(storage[n][g], c)
      BY <1>1, <2>1, ReplicateStorage
    <3>2. /\ Len(AddVersion(storage[n][g], c).versions) = Len(storage[n][g].versions) + 1
          /\ \A k \in 1..Len(storage[n][g].versions) :
                 AddVersion(storage[n][g], c).versions[k] = storage[n][g].versions[k]
      BY <1>0, AddVersionFacts
    <3>. QED
      BY <1>0, <3>1, <3>2 DEF IsPrefixOf
  <2>2. CASE ~(n \in {p} \cup {x \in Nodes \ {p} : active[x]} /\ g = f)
    <3>1. storage'[n][g] = storage[n][g]
      BY <1>1, <2>2, ReplicateStorage
    <3>. QED
      BY <1>0, <3>1, PrefixRefl
  <2>. QED
    BY <2>1, <2>2
<1>2. CASE storage' = storage
  BY <1>0, <1>2, PrefixRefl
<1>. QED
  BY <1>1, <1>2 DEF Next, vsvars, SimulateFailure, Recover

\* Hence a version, once held under a number, stays held under it.
LEMMA HoldsKept ==
    ASSUME TypeOK, [Next]_vsvars,
           NEW n \in Nodes, NEW g \in Files, NEW k, NEW c,
           HoldsAs(n, g, k, c)
    PROVE  HoldsAs(n, g, k, c)'
<1>1. IsPrefixOf(storage[n][g].versions, storage'[n][g].versions)
  BY GrowStep
<1>2. storage'[n][g].versions \in Seq(Version) /\ storage[n][g].versions \in Seq(Version)
  BY TypeStep DEF TypeOK, VFile
<1>3. k \in 1..Len(storage[n][g].versions) /\ storage[n][g].versions[k].content = c
  BY DEF HoldsAs
<1>4. Len(storage[n][g].versions) <= Len(storage'[n][g].versions)
      /\ storage'[n][g].versions[k] = storage[n][g].versions[k]
  BY <1>1, <1>3 DEF IsPrefixOf
<1>5. k \in 1..Len(storage'[n][g].versions)
  BY <1>2, <1>3, <1>4
<1>6. storage'[n][g].versions[k].content = c
  BY <1>3, <1>4
<1>. QED
  BY <1>5, <1>6 DEF HoldsAs

\* No method removes or rewrites a version.
THEOREM AppendOnly == Spec => VersionsAppendOnly
<1>1. TypeOK /\ [Next]_vsvars =>
        [\A n \in Nodes, f \in Files :
            IsPrefixOf(storage[n][f].versions, storage'[n][f].versions)]_vsvars
  BY GrowStep
<1>. QED
  BY <1>1, TypeCorrect, PTL DEF Spec, VersionsAppendOnly

-----------------------------------------------------------------------------
(* Version numbering *)

LEMMA NumberingInit == Init => VersionNumbering
BY DEF Init, VersionNumbering, EmptyFile

LEMMA NumberingStep ==
    TypeOK /\ VersionNumbering /\ [Next]_vsvars => VersionNumbering'
<1> SUFFICES ASSUME TypeOK, VersionNumbering, [Next]_vsvars,
                    NEW n \in Nodes, NEW g \in Files
             PROVE  /\ storage'[n][g].latest = Len(storage'[n][g].versions)
                    /\ \A k \in 1..Len(storage'[n][g].versions) :
                           storage'[n][g].versions[k].num = k
  BY DEF VersionNumbering
<1>0. /\ storage[n][g] \in VFile
      /\ storage[n][g].latest = Len(storage[n][g].versions)
      /\ \A k \in 1..Len(storage[n][g].versions) : storage[n][g].versions[k].num = k
  BY DEF TypeOK, VersionNumbering
<1>1. ASSUME NEW p \in Nodes, NEW f \in Files, NEW c \in Contents,
             ReplicateToCluster(p, f, c)
      PROVE  /\ storage'[n][g].latest = Len(storage'[n][g].versions)
             /\ \A k \in 1..Len(storage'[n][g].versions) :
                    storage'[n][g].versions[k].num = k
  <2>1. CASE n \in {p} \cup {x \in Nodes \ {p} : active[x]} /\ g = f
    <3>1. storage'[n][g] = AddVersion(storage[n][g], c)
      BY <1>1, <2>1, ReplicateStorage
    <3>2. /\ Len(AddVersion(storage[n][g], c).versions) = Len(storage[n][g].versions) + 1
          /\ \A k \in 1..Len(storage[n][g].versions) :
                 AddVersion(storage[n][g], c).versions[k] = storage[n][g].versions[k]
          /\ AddVersion(storage[n][g], c).versions[Len(storage[n][g].versions) + 1] =
                 [num |-> storage[n][g].latest + 1, content |-> c]
          /\ AddVersion(storage[n][g], c).latest = storage[n][g].latest + 1
      BY <1>0, AddVersionFacts
    <3>3. Len(storage[n][g].versions) \in Nat
      BY <1>0 DEF VFile
    <3>4. storage'[n][g].latest = Len(storage'[n][g].versions)
      BY <1>0, <3>1, <3>2, <3>3
    <3>5. ASSUME NEW k \in 1..Len(storage'[n][g].versions)
          PROVE  storage'[n][g].versions[k].num = k
      <4>1. CASE k \in 1..Len(storage[n][g].versions)
        BY <1>0, <3>1, <3>2, <4>1
      <4>2. CASE k = Len(storage[n][g].versions) + 1
        BY <1>0, <3>1, <3>2, <4>2
      <4>0. k \in 1..Len(storage[n][g].versions) \/ k = Len(storage[n][g].versions) + 1
        BY <3>1, <3>2, <3>3
      <4>. QED
        BY <4>0, <4>1, <4>2
    <3>. QED
      BY <3>4, <3>5
  <2>2. CASE ~(n \in {p} \cup {x \in Nodes \ {p} : active[x]} /\ g = f)
    BY <1>0, <1>1, <2>2, ReplicateStorage
  <2>. QED
    BY <2>1, <2>2
<1>2. CASE storage' = storage
  BY <1>0, <1>2
<1>. QED
  BY <1>1, <1>2 DEF Next, vsvars, SimulateFailure, Recover

\* Every replica numbers its versions 1, 2, ... and its latest_version is
\* their count (versioned_storage.rs add_version).
THEOREM NumberingHolds == Spec => []VersionNumbering
BY TypeInit, TypeStep, NumberingInit, NumberingStep, PTL DEF Spec

-----------------------------------------------------------------------------
(* Acknowledged versions *)

\* A replicate_to_cluster that returns a version stored it on p and on some
\* other active node: its count of distinct nodes reached 2.
LEMMA AckedHasOther ==
    ASSUME NEW p \in Nodes,
           Cardinality({p} \cup {n \in Nodes \ {p} : active[n]}) >= ReplicationFactor
    PROVE  \E m \in Nodes \ {p} : active[m]
<1> SUFFICES ASSUME {n \in Nodes \ {p} : active[n]} = {} PROVE FALSE
  OBVIOUS
<1>1. {p} \cup {n \in Nodes \ {p} : active[n]} = {p}
  OBVIOUS
<1>2. Cardinality({p}) = 1
  BY FS_Singleton
<1>. QED
  BY <1>1, <1>2 DEF ReplicationFactor

LEMMA AckedInit == Init => AckedReplicated
BY DEF Init, AckedReplicated

LEMMA AckedStep ==
    TypeOK /\ VersionNumbering /\ AckedReplicated /\ [Next]_vsvars => AckedReplicated'
<1> SUFFICES ASSUME TypeOK, VersionNumbering, AckedReplicated, [Next]_vsvars,
                    NEW a \in acked'
             PROVE  /\ HoldsAs(a.node, a.file, a.num, a.content)'
                    /\ \E m \in Nodes \ {a.node}, k \in Nat : HoldsAs(m, a.file, k, a.content)'
  BY DEF AckedReplicated
<1>1. CASE a \in acked
  <2>1. a.node \in Nodes /\ a.file \in Files
    BY <1>1 DEF TypeOK, Ack
  <2>2. HoldsAs(a.node, a.file, a.num, a.content)
    BY <1>1 DEF AckedReplicated
  <2>3. PICK m \in Nodes \ {a.node}, k \in Nat : HoldsAs(m, a.file, k, a.content)
    BY <1>1 DEF AckedReplicated
  <2>. QED
    BY <2>1, <2>2, <2>3, HoldsKept
<1>2. CASE a \notin acked
  \* Then the step is a replicate_to_cluster that acknowledged a.
  <2>1. PICK p \in Nodes, f \in Files, c \in Contents : ReplicateToCluster(p, f, c)
    BY <1>2 DEF Next, vsvars, SimulateFailure, Recover
  <2>2. /\ Cardinality({p} \cup {n \in Nodes \ {p} : active[n]}) >= ReplicationFactor
        /\ a = [node |-> p, file |-> f, num |-> storage[p][f].latest + 1, content |-> c]
    BY <1>2, <2>1 DEF ReplicateToCluster
  <2>3. ASSUME NEW n \in Nodes, active[n],
               NEW k \in Nat, k = Len(storage[n][f].versions) + 1
        PROVE  HoldsAs(n, f, k, c)'
    <3>1. storage'[n][f] = AddVersion(storage[n][f], c)
      BY <2>1, <2>3, ReplicateStorage
    <3>2. storage[n][f] \in VFile
      BY DEF TypeOK
    <3>3. /\ Len(AddVersion(storage[n][f], c).versions) = Len(storage[n][f].versions) + 1
          /\ AddVersion(storage[n][f], c).versions[Len(storage[n][f].versions) + 1] =
                 [num |-> storage[n][f].latest + 1, content |-> c]
      BY <3>2, AddVersionFacts
    <3>4. Len(storage[n][f].versions) \in Nat
      BY <3>2 DEF VFile
    <3>5. k \in 1..Len(storage'[n][f].versions) /\ storage'[n][f].versions[k].content = c
      BY <2>3, <3>1, <3>3, <3>4
    <3>. QED
      BY <3>5 DEF HoldsAs
  <2>4. a.num = Len(storage[p][f].versions) + 1 /\ a.num \in Nat
    BY <2>2 DEF VersionNumbering, TypeOK, VFile
  <2>5. HoldsAs(a.node, a.file, a.num, a.content)'
    <3>1. active[p]
      BY <2>1 DEF ReplicateToCluster
    <3>2. HoldsAs(p, f, a.num, c)'
      BY <2>3, <3>1, <2>4
    <3>. QED
      BY <2>2, <3>2
  <2>6. PICK m \in Nodes \ {p} : active[m]
    BY <2>2, AckedHasOther
  <2>7. Len(storage[m][f].versions) + 1 \in Nat
    BY DEF TypeOK, VFile
  <2>8. \E k \in Nat : HoldsAs(m, f, k, c)'
    \* The index is a constant of this step: name it before priming.
    <3>1. PICK kk \in Nat : kk = Len(storage[m][f].versions) + 1
      BY <2>7
    <3>2. HoldsAs(m, f, kk, c)'
      BY <2>3, <2>6, <3>1
    <3>. QED
      BY <3>1, <3>2
  <2>. QED
    BY <2>2, <2>5, <2>6, <2>7, <2>8
<1>. QED
  BY <1>1, <1>2

\* A version replicate_to_cluster returns stays held, under its number, by
\* the node that returned it and is held by one other node too, for every
\* cluster (versioned_storage.rs replicate_to_cluster).
THEOREM AckedVersionsReplicated == Spec => []AckedReplicated
<1>1. Init => TypeOK /\ VersionNumbering /\ AckedReplicated
  BY TypeInit, NumberingInit, AckedInit
<1>2. TypeOK /\ VersionNumbering /\ AckedReplicated /\ [Next]_vsvars
        => (TypeOK /\ VersionNumbering /\ AckedReplicated)'
  BY TypeStep, NumberingStep, AckedStep
<1>. QED
  BY <1>1, <1>2, PTL DEF Spec

-----------------------------------------------------------------------------
(* Agreement of the replicas until a recovery *)

LEMMA AgreeInit == Init => AgreeInv
BY DEF Init, AgreeInv, Comparable, ActiveMaximal, IsPrefixOf, EmptyFile

\* Two active nodes hold the same versions of every file.
LEMMA ActiveSame ==
    ASSUME TypeOK, ActiveMaximal,
           NEW n \in Nodes, NEW m \in Nodes, NEW g \in Files,
           active[n], active[m]
    PROVE  storage[n][g].versions = storage[m][g].versions
<1>1. storage[n][g].versions \in Seq(Version) /\ storage[m][g].versions \in Seq(Version)
  BY DEF TypeOK, VFile
<1>2. IsPrefixOf(storage[n][g].versions, storage[m][g].versions)
      /\ IsPrefixOf(storage[m][g].versions, storage[n][g].versions)
  BY DEF ActiveMaximal
<1>. QED
  BY <1>1, <1>2, PrefixAntisym

LEMMA AgreeStep ==
    TypeOK /\ VersionNumbering /\ AgreeInv /\ [Next]_vsvars => AgreeInv'
<1> SUFFICES ASSUME TypeOK, VersionNumbering, AgreeInv, [Next]_vsvars, ~recovered'
             PROVE  Comparable' /\ ActiveMaximal'
  BY DEF AgreeInv
<1>0. Comparable /\ ActiveMaximal
  <2>1. ~recovered
    BY DEF Next, vsvars, ReplicateToCluster, SimulateFailure, Recover
  <2>. QED
    BY <2>1 DEF AgreeInv
<1>1. ASSUME NEW p \in Nodes, NEW f \in Files, NEW c \in Contents,
             ReplicateToCluster(p, f, c)
      PROVE  Comparable' /\ ActiveMaximal'
  \* The nodes that store the version are exactly the active ones.
  <2>1. \A x \in Nodes : (x \in {p} \cup {y \in Nodes \ {p} : active[y]}) <=> active[x]
    BY <1>1 DEF ReplicateToCluster
  <2>2. active' = active
    BY <1>1 DEF ReplicateToCluster
  <2>3. ASSUME NEW n \in Nodes, NEW m \in Nodes, NEW g \in Files, active[n]
        PROVE  IsPrefixOf(storage'[m][g].versions, storage'[n][g].versions)
    <3>0. /\ storage[n][g] \in VFile /\ storage[m][g] \in VFile
          /\ storage[n][g].versions \in Seq(Version)
          /\ storage[m][g].versions \in Seq(Version)
      BY DEF TypeOK, VFile
    <3>1. CASE g # f
      <4>1. storage'[n][g] = storage[n][g] /\ storage'[m][g] = storage[m][g]
        BY <1>1, <3>1, ReplicateStorage
      <4>. QED
        BY <1>0, <2>3, <4>1 DEF ActiveMaximal
    <3>2. CASE g = f /\ active[m]
      <4>1. storage'[n][g] = AddVersion(storage[n][g], c)
            /\ storage'[m][g] = AddVersion(storage[m][g], c)
        BY <1>1, <2>1, <2>3, <3>2, ReplicateStorage
      <4>2. storage[n][g].versions = storage[m][g].versions
        BY <1>0, <2>3, <3>2, ActiveSame
      <4>3. storage[n][g].latest = storage[m][g].latest
        BY <4>2 DEF VersionNumbering
      <4>4. storage'[n][g].versions = storage'[m][g].versions
        BY <4>1, <4>2, <4>3 DEF AddVersion
      <4>5. storage'[n][g].versions \in Seq(Version)
        BY <4>1, <3>0, AddVersionFacts DEF VFile
      <4>. QED
        BY <4>4, <4>5, PrefixRefl
    <3>3. CASE g = f /\ ~active[m]
      <4>1. storage'[m][g] = storage[m][g]
        BY <1>1, <2>1, <3>3, ReplicateStorage
      <4>2. IsPrefixOf(storage[m][g].versions, storage[n][g].versions)
        BY <1>0, <2>3 DEF ActiveMaximal
      <4>3. IsPrefixOf(storage[n][g].versions, storage'[n][g].versions)
        BY <1>1, GrowStep DEF Next
      <4>4. storage'[n][g].versions \in Seq(Version)
        BY <1>1, TypeStep DEF Next, TypeOK, VFile
      <4>. QED
        BY <3>0, <4>1, <4>2, <4>3, <4>4, PrefixTrans
    <3>. QED
      BY <3>1, <3>2, <3>3
  <2>4. ActiveMaximal'
    BY <2>2, <2>3 DEF ActiveMaximal
  <2>5. Comparable'
    <3> SUFFICES ASSUME NEW n \in Nodes, NEW m \in Nodes, NEW g \in Files
                 PROVE  \/ IsPrefixOf(storage'[n][g].versions, storage'[m][g].versions)
                        \/ IsPrefixOf(storage'[m][g].versions, storage'[n][g].versions)
      BY DEF Comparable
    <3>1. CASE active[n] \/ active[m]
      BY <2>3, <3>1
    <3>2. CASE ~active[n] /\ ~active[m]
      <4>1. storage'[n][g] = storage[n][g] /\ storage'[m][g] = storage[m][g]
        BY <1>1, <2>1, <3>2, ReplicateStorage
      <4>. QED
        BY <1>0, <4>1 DEF Comparable
    <3>. QED
      BY <3>1, <3>2
  <2>. QED
    BY <2>4, <2>5
<1>2. ASSUME NEW x \in Nodes, SimulateFailure(x)
      PROVE  Comparable' /\ ActiveMaximal'
  <2>1. storage' = storage /\ \A n \in Nodes : active'[n] => active[n]
    BY <1>2 DEF SimulateFailure, TypeOK
  <2>. QED
    BY <1>0, <2>1 DEF Comparable, ActiveMaximal
<1>3. ASSUME NEW x \in Nodes, Recover(x) PROVE FALSE
  BY <1>3 DEF Recover
<1>4. CASE UNCHANGED vsvars
  BY <1>0, <1>4 DEF vsvars, Comparable, ActiveMaximal
<1>. QED
  BY <1>1, <1>2, <1>3, <1>4 DEF Next

\* Comparable replicas agree on every version number both hold.
LEMMA AgreeImplies == AgreeInv => AgreeUntilRecovery
BY DEF AgreeInv, AgreeUntilRecovery, Comparable, ReplicasAgree, IsPrefixOf

\* Until some node goes through recover, get_version answers the same on
\* every node that holds the number (versioned_storage.rs: each node's
\* add_version numbers versions with its own latest_version).
THEOREM ReplicasAgreeUntilRecovery == Spec => []AgreeUntilRecovery
<1>1. Init => TypeOK /\ VersionNumbering /\ AgreeInv
  BY TypeInit, NumberingInit, AgreeInit
<1>2. TypeOK /\ VersionNumbering /\ AgreeInv /\ [Next]_vsvars
        => (TypeOK /\ VersionNumbering /\ AgreeInv)'
  BY TypeStep, NumberingStep, AgreeStep
<1>. QED
  BY <1>1, <1>2, AgreeImplies, PTL DEF Spec

-----------------------------------------------------------------------------
(* Refinement of the unversioned cluster *)

\* The value a node's get would return if the file kept only its latest
\* version: get_latest's content, or nothing.
LatestContent(vf) ==
    IF vf.versions = << >> THEN "None" ELSE vf.versions[Len(vf.versions)].content

\* The refinement mapping: each node's map holds the latest content of each
\* file, and an acknowledged version is an acknowledged write of its content.
KVBar == [n \in Nodes |-> [f \in Files |-> LatestContent(storage[n][f])]]
OkBar == {[node |-> a.node, key |-> a.file, value |-> a.content] : a \in acked}

KV == INSTANCE ReplicatedKV
        WITH Keys <- Files, Values <- Contents, NoValue <- "None",
             kv <- KVBar, ok <- OkBar

\* add_version makes the new content the latest.
LEMMA LatestAdd ==
    ASSUME NEW vf \in VFile, NEW c \in Contents
    PROVE  LatestContent(AddVersion(vf, c)) = c
<1>0. /\ Len(AddVersion(vf, c).versions) = Len(vf.versions) + 1
      /\ AddVersion(vf, c).versions[Len(vf.versions) + 1] =
            [num |-> vf.latest + 1, content |-> c]
  BY AddVersionFacts
<1>1. Len(AddVersion(vf, c).versions) = Len(vf.versions) + 1
      /\ AddVersion(vf, c).versions[Len(vf.versions) + 1].content = c
  BY <1>0
<1>2. AddVersion(vf, c).versions # << >>
  BY <1>1
<1>. QED
  BY <1>1, <1>2 DEF LatestContent

LEMMA RefineInit == Init => KV!Init
BY DEF Init, KV!Init, KVBar, OkBar, LatestContent, EmptyFile

LEMMA RefineStep == TypeOK /\ [Next]_vsvars => [KV!Next]_KV!kvvars
<1> SUFFICES ASSUME TypeOK, [Next]_vsvars PROVE [KV!Next]_KV!kvvars
  OBVIOUS
<1>1. ASSUME NEW p \in Nodes, NEW f \in Files, NEW c \in Contents,
             ReplicateToCluster(p, f, c)
      PROVE  KV!Replicate(p, f, c)
  <2> DEFINE S == {p} \cup {n \in Nodes \ {p} : active[n]}
  <2>1. ASSUME NEW n \in Nodes, NEW g \in Files
        PROVE  KVBar'[n][g] = (IF n \in S THEN [KVBar[n] EXCEPT ![f] = c] ELSE KVBar[n])[g]
    <3>0. storage[n][g] \in VFile
      BY DEF TypeOK
    <3>1. CASE n \in S /\ g = f
      <4>1. storage'[n][g] = AddVersion(storage[n][g], c)
        BY <1>1, <3>1, ReplicateStorage
      <4>. QED
        BY <3>0, <3>1, <4>1, LatestAdd DEF KVBar
    <3>2. CASE ~(n \in S /\ g = f)
      <4>1. storage'[n][g] = storage[n][g]
        BY <1>1, <3>2, ReplicateStorage
      <4>. QED
        BY <3>2, <4>1 DEF KVBar
    <3>. QED
      BY <3>1, <3>2
  <2>2. KVBar' = [n \in Nodes |-> IF n \in S THEN [KVBar[n] EXCEPT ![f] = c] ELSE KVBar[n]]
    BY <2>1 DEF KVBar
  <2>3. OkBar' = IF Cardinality(S) >= KV!ReplicationFactor
                   THEN OkBar \cup {[node |-> p, key |-> f, value |-> c]}
                   ELSE OkBar
    <3> DEFINE a0 == [node |-> p, file |-> f,
                      num |-> storage[p][f].latest + 1, content |-> c]
    <3>1. CASE Cardinality(S) >= ReplicationFactor
      <4>1. acked' = acked \cup {a0}
        BY <1>1, <3>1 DEF ReplicateToCluster
      <4>2. [node |-> a0.node, key |-> a0.file, value |-> a0.content]
              = [node |-> p, key |-> f, value |-> c]
        OBVIOUS
      <4>. QED
        BY <3>1, <4>1, <4>2 DEF OkBar, ReplicationFactor, KV!ReplicationFactor
    <3>2. CASE ~(Cardinality(S) >= ReplicationFactor)
      <4>1. acked' = acked
        BY <1>1, <3>2 DEF ReplicateToCluster
      <4>. QED
        BY <3>2, <4>1 DEF OkBar, ReplicationFactor, KV!ReplicationFactor
    <3>. QED
      BY <3>1, <3>2
  <2>4. active[p] /\ active' = active
    BY <1>1 DEF ReplicateToCluster
  \* The instance's Cardinality is FiniteSets' own.
  <2>5. KV!Cardinality(S) = Cardinality(S)
    BY DEF KV!Cardinality, Cardinality
  <2>. QED
    BY <2>2, <2>3, <2>4, <2>5 DEF KV!Replicate
<1>2. ASSUME NEW n \in Nodes, SimulateFailure(n) PROVE KV!Fail(n)
  BY <1>2 DEF SimulateFailure, KV!Fail, KVBar, OkBar
<1>3. ASSUME NEW n \in Nodes, Recover(n) PROVE KV!Recover(n)
  BY <1>3 DEF Recover, KV!Recover, KVBar, OkBar
<1>4. CASE UNCHANGED vsvars
  BY <1>4 DEF vsvars, KV!kvvars, KVBar, OkBar
<1>. QED
  BY <1>1, <1>2, <1>3, <1>4 DEF Next, KV!Next

\* The versioned cluster, seen through each node's latest version, is the
\* unversioned cluster of three_node_test.rs: every replicate_to_cluster,
\* simulate_failure and recover of versioned_storage.rs is the same call
\* there, get_latest answers what get would, and a write is acknowledged
\* exactly when the unversioned one returns true.
THEOREM VersionedRefinesKV == Spec => KV!Spec
<1>1. Spec => []TypeOK
  BY TypeCorrect
<1>2. TypeOK /\ [Next]_vsvars => [KV!Next]_KV!kvvars
  BY RefineStep
<1>. QED
  BY <1>1, <1>2, RefineInit, PTL DEF Spec, KV!Spec
=============================================================================
