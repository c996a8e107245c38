------------------------ MODULE StorageEngineProofs -------------------------
(***************************************************************************)
(* Proofs about StorageEngine for every value of its constants: type       *)
(* correctness, and that no object version ever names a blob file that was *)
(* never written.                                                          *)
(***************************************************************************)
EXTENDS StorageEngine, TLAPS

\* The points of put_object outside append_to_parquet.
PutPcs == {"bucket_exists", "new_object", "store_data", "store_data_end", "update_stats"}

\* The points outside append_to_parquet where the append target is still
\* the objects table and no caller waits for a return.
ObjTablePcs == {"idle", "bucket_exists", "dv_query", "dv_create", "dv_write", "dv_register"}

(***************************************************************************)
(* What the locals of a request hold at each point of its code: a busy     *)
(* request has an operation; put_object (and an append it called) knows   *)
(* its key and content; the snapshot is empty until append_to_parquet or   *)
(* the versioned delete reads the file.                                    *)
(***************************************************************************)
OpShapeAt(r) ==
    /\ pc[r] # "idle" => op[r] \in Ops
    /\ pc[r] \in PutPcs \/ ret[r] # "done" =>
           /\ op[r].kind = "put"
           /\ op[r].key \in Keys
           /\ op[r].data \in Data
    /\ pc[r] \in ObjTablePcs => tbl[r] = "objects" /\ ret[r] = "done"
    /\ pc[r] \in {"idle", "bucket_exists", "new_object"} => snap[r] = {}

OpShape == \A r \in Reqs : OpShapeAt(r)

TypeInv == TypeOK /\ OpShape

(***************************************************************************)
(* A row is backed when it is a delete marker or names a blob file that    *)
(* has been created.  Rows in flight (read into a snapshot or about to be  *)
(* appended) are backed too, except the row of a put whose blob is not     *)
(* written yet; that row names the blob file the put is about to write.    *)
(***************************************************************************)
Backed(x) == ~x.dm => x.blob \in Data /\ blobs[FileId(x)] # "none"

FilesBacked == \A x \in parquet.objects : Backed(x)

BlobRefAt(r) ==
    /\ tbl[r] = "objects" =>
           /\ \A x \in snap[r] : Backed(x)
           /\ pc[r] # "store_data" => \A x \in add[r] : Backed(x)
    /\ pc[r] = "store_data" =>
           /\ tbl[r] = "objects"
           /\ \A x \in add[r] : ~x.dm /\ FileId(x) = <<op[r].bucket, op[r].key, op[r].data>>

BlobRefInv == FilesBacked /\ \A r \in Reqs : BlobRefAt(r)

IInv == TypeInv /\ BlobRefInv

-----------------------------------------------------------------------------
(***************************************************************************)
(* Type correctness.  TypeOK alone is not inductive: the stats update of   *)
(* put_object adds Size[op[r].data], which is a number only because the    *)
(* request is a put whose content is in Data (OpShape).                    *)
(***************************************************************************)

\* TypeOK split into the locals of the requests and the rest of the state.
LocalsAt(r) ==
    /\ pc[r] \in Pcs
    /\ op[r] \in Ops \cup {NoOp}
    /\ tbl[r] \in Tables
    /\ add[r] \in SUBSET (ObjRow \cup Buckets)
    /\ snap[r] \in SUBSET (ObjRow \cup Buckets)
    /\ RowsOf(tbl[r], add[r], snap[r])
    /\ ret[r] \in Rets

LocalsOK ==
    /\ pc \in [Reqs -> Pcs]
    /\ op \in [Reqs -> Ops \cup {NoOp}]
    /\ tbl \in [Reqs -> Tables]
    /\ add \in [Reqs -> SUBSET (ObjRow \cup Buckets)]
    /\ snap \in [Reqs -> SUBSET (ObjRow \cup Buckets)]
    /\ \A r \in Reqs : RowsOf(tbl[r], add[r], snap[r])
    /\ ret \in [Reqs -> Rets]

GlobalsOK ==
    /\ parquet \in [objects: SUBSET ObjRow, buckets: SUBSET Buckets]
    /\ torn \in [Tables -> BOOLEAN]
    /\ registered \in [Tables -> BOOLEAN]
    /\ blobs \in [FileIds -> {"none", "partial", "full"}]
    /\ used \in Nat
    /\ now \in Times
    /\ nextVid \in Vids
    /\ stSeen \subseteq FileIds
    /\ stTotal \in Nat
    /\ issued \in 0..MaxOps
    /\ acked \subseteq Ops
    /\ dvIssued \subseteq Nat

\* A step of request r changes the locals of r and of no other request.
FrameAt(r) ==
    /\ pc' = [pc EXCEPT ![r] = pc'[r]]
    /\ op' = [op EXCEPT ![r] = op'[r]]
    /\ tbl' = [tbl EXCEPT ![r] = tbl'[r]]
    /\ add' = [add EXCEPT ![r] = add'[r]]
    /\ snap' = [snap EXCEPT ![r] = snap'[r]]
    /\ ret' = [ret EXCEPT ![r] = ret'[r]]

\* The initial state (empty files, idle requests) is well typed.
LEMMA TypeInvInit == Init => TypeInv
BY ConstantsAssumption DEF Init, TypeInv, TypeOK, OpShape, OpShapeAt, Tables, NoOp, Vids,
                           Times, Pcs, Rets, ObjRow, FileIds, Ops, PutPcs, ObjTablePcs, RowsOf

\* If a step of request r leaves the locals of r well typed and fitting its
\* point, it leaves the locals of every request so.
LEMMA LocalsFrame ==
    ASSUME TypeInv, NEW r \in Reqs, FrameAt(r), LocalsAt(r)', OpShapeAt(r)'
    PROVE  LocalsOK' /\ OpShape'
<1>1. LocalsOK'
    <2>1. \A s \in Reqs : RowsOf(tbl[s], add[s], snap[s])'
        BY DEF FrameAt, LocalsAt, TypeInv, TypeOK
    <2>2. QED
        BY <2>1 DEF FrameAt, LocalsAt, LocalsOK, TypeInv, TypeOK
<1>2. OpShape'
    <2>1. SUFFICES ASSUME NEW s \in Reqs PROVE OpShapeAt(s)'
        BY DEF OpShape
    <2>2. CASE s = r
        BY <2>2
    <2>3. CASE s # r
        <3>1. pc'[s] = pc[s] /\ op'[s] = op[s] /\ tbl'[s] = tbl[s] /\ snap'[s] = snap[s]
              /\ ret'[s] = ret[s]
            BY <2>3 DEF FrameAt, TypeInv, TypeOK
        <3>2. OpShapeAt(s)
            BY DEF TypeInv, OpShape
        <3>3. QED
            BY <3>1, <3>2 DEF OpShapeAt
    <2>4. QED
        BY <2>2, <2>3
<1>3. QED
    BY <1>1, <1>2

\* A step of request r that keeps the other variables well typed and the
\* locals of r well typed and fitting its point keeps TypeInv.
LEMMA RequestStepTyped ==
    ASSUME TypeInv, NEW r \in Reqs, GlobalsOK', FrameAt(r), LocalsAt(r)', OpShapeAt(r)'
    PROVE  TypeInv'
<1>1. LocalsOK' /\ OpShape'
    BY LocalsFrame
<1>2. QED
    BY <1>1 DEF TypeInv, TypeOK, LocalsOK, GlobalsOK

\* A request that returns leaves well-typed, idle locals behind.
LEMMA EndRequestTyped ==
    ASSUME TypeInv, NEW r \in Reqs, EndRequest(r), GlobalsOK'
    PROVE  TypeInv'
<1>1. FrameAt(r)
    BY DEF EndRequest, FrameAt, TypeInv, TypeOK
<1>2. LocalsAt(r)'
    BY DEF EndRequest, LocalsAt, TypeInv, TypeOK, Pcs, Rets, Tables, RowsOf
<1>3. OpShapeAt(r)'
    BY DEF EndRequest, OpShapeAt, TypeInv, TypeOK, PutPcs, ObjTablePcs
<1>4. QED
    BY <1>1, <1>2, <1>3, RequestStepTyped

\* A request that moves on to point l, its other locals unchanged, keeps
\* TypeInv when its locals fit point l.
LEMMA GotoTyped ==
    ASSUME TypeInv, NEW r \in Reqs, NEW l \in Pcs, GlobalsOK',
           pc' = [pc EXCEPT ![r] = l], UNCHANGED <<op, tbl, add, snap, ret>>,
           pc[r] # "idle",
           l \in PutPcs \/ ret[r] # "done" =>
               op[r].kind = "put" /\ op[r].key \in Keys /\ op[r].data \in Data,
           l \in ObjTablePcs => tbl[r] = "objects" /\ ret[r] = "done",
           l \in {"idle", "bucket_exists", "new_object"} => snap[r] = {}
    PROVE  TypeInv'
<1>1. FrameAt(r)
    BY DEF FrameAt, TypeInv, TypeOK
<1>2. LocalsAt(r) /\ OpShapeAt(r)
    BY DEF TypeInv, TypeOK, OpShape, LocalsAt
<1>3. LocalsAt(r)'
    BY <1>2 DEF LocalsAt, TypeInv, TypeOK
<1>4. OpShapeAt(r)'
    BY <1>2 DEF OpShapeAt, TypeInv, TypeOK
<1>5. QED
    BY <1>1, <1>3, <1>4, RequestStepTyped

\* A step that leaves every request's locals alone keeps TypeInv when it
\* keeps the other variables well typed.
LEMMA GlobalStepTyped ==
    ASSUME TypeInv, GlobalsOK', UNCHANGED reqVars
    PROVE  TypeInv'
BY DEF TypeInv, TypeOK, GlobalsOK, OpShape, OpShapeAt, reqVars

\* Operations built by the request handlers are operations.
LEMMA OpRecords ==
    ASSUME NEW kd \in OpKinds, NEW b \in Buckets, NEW k \in Keys \cup {Nil},
           NEW d \in Data \cup {Nil}, NEW v \in Nat
    PROVE  [kind |-> kd, bucket |-> b, key |-> k, data |-> d, vid |-> v] \in Ops
BY DEF Ops

\* Every step keeps the state well typed.
LEMMA TypeInvStep == TypeInv /\ [Next]_vars => TypeInv'
<1> SUFFICES ASSUME TypeInv, [Next]_vars PROVE TypeInv'
    OBVIOUS
<1> USE ConstantsAssumption
<1>1. ASSUME NEW r \in Reqs, NEW b \in Buckets, NEW k \in Keys, NEW d \in Data,
             PutObject(r, b, k, d)
      PROVE  TypeInv'
    <2> DEFINE o == [kind |-> "put", bucket |-> b, key |-> k, data |-> d, vid |-> 0]
    <2>1. GlobalsOK'
        BY <1>1 DEF PutObject, Issue, GlobalsOK, TypeInv, TypeOK, fileVars, statVars
    <2>2. FrameAt(r)
        BY <1>1 DEF PutObject, Goto, FrameAt, TypeInv, TypeOK
    <2>3. /\ pc[r] = "idle" /\ pc'[r] = "bucket_exists" /\ op'[r] = o
          /\ tbl'[r] = tbl[r] /\ add'[r] = add[r] /\ snap'[r] = snap[r] /\ ret'[r] = ret[r]
        BY <1>1 DEF PutObject, Issue, Goto, TypeInv, TypeOK
    <2>4. LocalsAt(r) /\ OpShapeAt(r)
        BY DEF TypeInv, TypeOK, OpShape, LocalsAt
    <2>5. o \in Ops
        BY OpRecords DEF OpKinds
    <2>6. LocalsAt(r)'
        BY <2>3, <2>4, <2>5 DEF LocalsAt, Pcs
    <2>7. OpShapeAt(r)'
        BY <2>3, <2>4, <2>5 DEF OpShapeAt, PutPcs, ObjTablePcs
    <2>8. QED
        BY <2>1, <2>2, <2>6, <2>7, RequestStepTyped
<1>2. ASSUME NEW r \in Reqs, NEW b \in Buckets, NEW k \in Keys, DeleteMarker(r, b, k)
      PROVE  TypeInv'
    <2> DEFINE o == [kind |-> "dm", bucket |-> b, key |-> k, data |-> Nil, vid |-> nextVid]
               row == [vid |-> nextVid, bucket |-> b, key |-> k, blob |-> Nil,
                       created |-> now, dm |-> TRUE]
    <2>1. GlobalsOK'
        BY <1>2 DEF DeleteMarker, Issue, GlobalsOK, TypeInv, TypeOK, fileVars, statVars, Vids
    <2>2. FrameAt(r)
        BY <1>2 DEF DeleteMarker, CallAppend, FrameAt, TypeInv, TypeOK
    <2>3. /\ pc[r] = "idle" /\ pc'[r] = "append_read" /\ op'[r] = o
          /\ tbl'[r] = "objects" /\ add'[r] = {row} /\ snap'[r] = snap[r] /\ ret'[r] = "done"
        BY <1>2 DEF DeleteMarker, Issue, CallAppend, TypeInv, TypeOK
    <2>4. LocalsAt(r) /\ OpShapeAt(r)
        BY DEF TypeInv, TypeOK, OpShape, LocalsAt
    <2>5. o \in Ops /\ row \in ObjRow
        BY OpRecords DEF OpKinds, ObjRow, TypeInv, TypeOK, Vids
    <2>6. LocalsAt(r)'
        BY <2>3, <2>4, <2>5 DEF LocalsAt, OpShapeAt, Pcs, Rets, Tables, RowsOf
    <2>7. OpShapeAt(r)'
        BY <2>3, <2>5 DEF OpShapeAt, PutPcs, ObjTablePcs
    <2>8. QED
        BY <2>1, <2>2, <2>6, <2>7, RequestStepTyped
<1>3. ASSUME NEW r \in Reqs, NEW b \in Buckets, NEW k \in Keys, NEW v \in 1..(nextVid - 1),
             DeleteVersion(r, b, k, v)
      PROVE  TypeInv'
    <2> DEFINE o == [kind |-> "dv", bucket |-> b, key |-> k, data |-> Nil, vid |-> v]
    <2>1. GlobalsOK'
        BY <1>3 DEF DeleteVersion, Issue, GlobalsOK, TypeInv, TypeOK, fileVars, statVars, Vids
    <2>2. FrameAt(r)
        BY <1>3 DEF DeleteVersion, Goto, FrameAt, TypeInv, TypeOK
    <2>3. /\ pc[r] = "idle" /\ pc'[r] = "dv_query" /\ op'[r] = o
          /\ tbl'[r] = tbl[r] /\ add'[r] = add[r] /\ snap'[r] = snap[r] /\ ret'[r] = ret[r]
        BY <1>3 DEF DeleteVersion, Issue, Goto, TypeInv, TypeOK
    <2>4. LocalsAt(r) /\ OpShapeAt(r)
        BY DEF TypeInv, TypeOK, OpShape, LocalsAt
    <2>5. o \in Ops
        BY OpRecords DEF OpKinds, TypeInv, TypeOK, Vids
    <2>6. LocalsAt(r)'
        BY <2>3, <2>4, <2>5 DEF LocalsAt, Pcs
    <2>7. OpShapeAt(r)'
        BY <2>3, <2>4, <2>5 DEF OpShapeAt, PutPcs, ObjTablePcs
    <2>8. QED
        BY <2>1, <2>2, <2>6, <2>7, RequestStepTyped
<1>4. ASSUME NEW r \in Reqs, NEW b \in Buckets, CreateBucket(r, b)
      PROVE  TypeInv'
    <2> DEFINE o == [kind |-> "cb", bucket |-> b, key |-> Nil, data |-> Nil, vid |-> 0]
    <2>1. GlobalsOK'
        BY <1>4 DEF CreateBucket, Issue, GlobalsOK, TypeInv, TypeOK, fileVars, statVars
    <2>2. FrameAt(r)
        BY <1>4 DEF CreateBucket, CallAppend, FrameAt, TypeInv, TypeOK
    <2>3. /\ pc[r] = "idle" /\ pc'[r] = "append_read" /\ op'[r] = o
          /\ tbl'[r] = "buckets" /\ add'[r] = {b} /\ snap'[r] = snap[r] /\ ret'[r] = "done"
        BY <1>4 DEF CreateBucket, Issue, CallAppend, TypeInv, TypeOK
    <2>4. LocalsAt(r) /\ OpShapeAt(r)
        BY DEF TypeInv, TypeOK, OpShape, LocalsAt
    <2>5. o \in Ops
        BY OpRecords DEF OpKinds
    <2>6. LocalsAt(r)'
        BY <2>3, <2>4, <2>5 DEF LocalsAt, OpShapeAt, Pcs, Rets, Tables, RowsOf
    <2>7. OpShapeAt(r)'
        BY <2>3, <2>5 DEF OpShapeAt, PutPcs, ObjTablePcs
    <2>8. QED
        BY <2>1, <2>2, <2>6, <2>7, RequestStepTyped
<1>5. ASSUME NEW r \in Reqs, BucketExists(r)
      PROVE  TypeInv'
    <2>1. GlobalsOK'
        BY <1>5 DEF BucketExists, GlobalsOK, TypeInv, TypeOK, fileVars, statVars, ghostVars
    <2>2. pc[r] = "bucket_exists" /\ LocalsAt(r) /\ OpShapeAt(r)
        BY <1>5 DEF BucketExists, TypeInv, TypeOK, OpShape, LocalsAt
    <2>3. CASE EndRequest(r)
        BY <2>1, <2>3, EndRequestTyped
    <2>4. CASE Goto(r, "new_object") /\ UNCHANGED <<op, tbl, add, snap, ret>>
        BY <2>1, <2>2, <2>4, GotoTyped DEF Goto, OpShapeAt, PutPcs, ObjTablePcs, Pcs
    <2>5. CASE CallAppend(r, "buckets", {op[r].bucket}, "new_object") /\ UNCHANGED <<op, snap>>
        <3>1. FrameAt(r)
            BY <2>5 DEF CallAppend, FrameAt, TypeInv, TypeOK
        <3>2. /\ pc'[r] = "append_read" /\ op'[r] = op[r] /\ tbl'[r] = "buckets"
              /\ add'[r] = {op[r].bucket} /\ snap'[r] = snap[r] /\ ret'[r] = "new_object"
            BY <2>5 DEF CallAppend, TypeInv, TypeOK
        <3>3. op[r].bucket \in Buckets /\ snap[r] = {}
            BY <2>2 DEF OpShapeAt, Ops
        <3>4. LocalsAt(r)'
            BY <2>2, <3>2, <3>3 DEF LocalsAt, Pcs, Tables, Rets, RowsOf
        <3>5. OpShapeAt(r)'
            BY <2>2, <3>2 DEF OpShapeAt, PutPcs, ObjTablePcs
        <3>6. QED
            BY <2>1, <3>1, <3>4, <3>5, RequestStepTyped
    <2>6. QED
        BY <1>5, <2>3, <2>4, <2>5 DEF BucketExists
<1>6. ASSUME NEW r \in Reqs, NewObject(r)
      PROVE  TypeInv'
    <2> DEFINE o   == VersionOf(op[r], nextVid)
               row == [vid |-> nextVid, bucket |-> op[r].bucket, key |-> op[r].key,
                       blob |-> op[r].data, created |-> now, dm |-> FALSE]
    <2>1. GlobalsOK'
        BY <1>6 DEF NewObject, GlobalsOK, TypeInv, TypeOK, fileVars, statVars, ghostVars, Vids
    <2>2. pc[r] = "new_object" /\ LocalsAt(r) /\ OpShapeAt(r)
        BY <1>6 DEF NewObject, TypeInv, TypeOK, OpShape, LocalsAt
    <2>3. CASE EndRequest(r)
        BY <2>1, <2>3, EndRequestTyped
    <2>4. CASE /\ Goto(r, "store_data")
               /\ op' = [op EXCEPT ![r] = o]
               /\ tbl' = [tbl EXCEPT ![r] = "objects"]
               /\ add' = [add EXCEPT ![r] = {row}]
               /\ ret' = [ret EXCEPT ![r] = "update_stats"]
               /\ UNCHANGED snap
        <3>1. FrameAt(r)
            BY <2>4 DEF Goto, FrameAt, TypeInv, TypeOK
        <3>2. /\ pc'[r] = "store_data" /\ op'[r] = o /\ tbl'[r] = "objects"
              /\ add'[r] = {row} /\ snap'[r] = snap[r] /\ ret'[r] = "update_stats"
            BY <2>4 DEF Goto, TypeInv, TypeOK
        <3>3. /\ op[r] \in Ops /\ op[r].kind = "put" /\ op[r].key \in Keys
              /\ op[r].data \in Data /\ snap[r] = {}
            BY <2>2 DEF OpShapeAt, PutPcs
        <3>4. o \in Ops /\ o.kind = "put" /\ o.key \in Keys /\ o.data \in Data
            BY <3>3 DEF VersionOf, Ops, OpKinds, TypeInv, TypeOK, Vids
        <3>5. row \in ObjRow
            BY <3>3 DEF ObjRow, Ops, TypeInv, TypeOK
        <3>6. LocalsAt(r)'
            BY <3>2, <3>3, <3>4, <3>5 DEF LocalsAt, Pcs, Tables, Rets, RowsOf
        <3>7. OpShapeAt(r)'
            BY <3>2, <3>4 DEF OpShapeAt, PutPcs, ObjTablePcs
        <3>8. QED
            BY <2>1, <3>1, <3>6, <3>7, RequestStepTyped
    <2>5. QED
        BY <1>6, <2>3, <2>4 DEF NewObject
<1>7. ASSUME NEW r \in Reqs, StoreDataBegin(r)
      PROVE  TypeInv'
    <2>1. GlobalsOK'
        BY <1>7 DEF StoreDataBegin, GlobalsOK, TypeInv, TypeOK, statVars, ghostVars
    <2>2. pc[r] = "store_data" /\ OpShapeAt(r)
        BY <1>7 DEF StoreDataBegin, TypeInv, OpShape
    <2>3. QED
        BY <1>7, <2>1, <2>2, GotoTyped DEF StoreDataBegin, Goto, OpShapeAt, PutPcs,
                                           ObjTablePcs, Pcs
<1>8. ASSUME NEW r \in Reqs, StoreDataEnd(r)
      PROVE  TypeInv'
    <2>1. GlobalsOK'
        BY <1>8 DEF StoreDataEnd, GlobalsOK, TypeInv, TypeOK, statVars, ghostVars
    <2>2. pc[r] = "store_data_end" /\ OpShapeAt(r)
        BY <1>8 DEF StoreDataEnd, TypeInv, OpShape
    <2>3. QED
        BY <1>8, <2>1, <2>2, GotoTyped DEF StoreDataEnd, Goto, OpShapeAt, PutPcs,
                                           ObjTablePcs, Pcs
<1>9. ASSUME NEW r \in Reqs, UpdatePutStats(r)
      PROVE  TypeInv'
    <2>1. pc[r] = "update_stats" /\ OpShapeAt(r)
        BY <1>9 DEF UpdatePutStats, TypeInv, OpShape
    <2>2. op[r] \in Ops /\ op[r].data \in Data
        BY <2>1 DEF OpShapeAt, PutPcs
    <2>3. GlobalsOK'
        BY <1>9, <2>2 DEF UpdatePutStats, GlobalsOK, TypeInv, TypeOK, fileVars, statVars
    <2>4. QED
        BY <1>9, <2>3, EndRequestTyped DEF UpdatePutStats
<1>10. ASSUME NEW r \in Reqs, AppendRead(r)
       PROVE  TypeInv'
    <2>1. GlobalsOK'
        BY <1>10 DEF AppendRead, GlobalsOK, TypeInv, TypeOK, fileVars, statVars, ghostVars
    <2>2. pc[r] = "append_read" /\ LocalsAt(r) /\ OpShapeAt(r)
        BY <1>10 DEF AppendRead, TypeInv, TypeOK, OpShape, LocalsAt
    <2>3. CASE EndRequest(r)
        BY <2>1, <2>3, EndRequestTyped
    <2>4. CASE /\ snap' = [snap EXCEPT ![r] = parquet[tbl[r]]]
               /\ Goto(r, "append_create")
               /\ UNCHANGED <<op, tbl, add, ret>>
        <3>1. FrameAt(r)
            BY <2>4 DEF Goto, FrameAt, TypeInv, TypeOK
        <3>2. /\ pc'[r] = "append_create" /\ op'[r] = op[r] /\ tbl'[r] = tbl[r]
              /\ add'[r] = add[r] /\ snap'[r] = parquet[tbl[r]] /\ ret'[r] = ret[r]
            BY <2>4 DEF Goto, TypeInv, TypeOK
        <3>3. RowsOf(tbl[r], add[r], parquet[tbl[r]])
              /\ parquet[tbl[r]] \in SUBSET (ObjRow \cup Buckets)
            BY <2>2 DEF LocalsAt, RowsOf, Tables, TypeInv, TypeOK
        <3>4. LocalsAt(r)'
            BY <2>2, <3>2, <3>3 DEF LocalsAt, Pcs
        <3>5. OpShapeAt(r)'
            BY <2>2, <3>2 DEF OpShapeAt, PutPcs, ObjTablePcs
        <3>6. QED
            BY <2>1, <3>1, <3>4, <3>5, RequestStepTyped
    <2>5. QED
        BY <1>10, <2>3, <2>4 DEF AppendRead
<1>11. ASSUME NEW r \in Reqs, AppendCreate(r)
       PROVE  TypeInv'
    <2>1. tbl[r] \in Tables
        BY DEF TypeInv, TypeOK
    <2>2. GlobalsOK'
        BY <1>11, <2>1 DEF AppendCreate, Truncate, GlobalsOK, TypeInv, TypeOK, Tables,
                           statVars, ghostVars
    <2>3. pc[r] = "append_create" /\ OpShapeAt(r)
        BY <1>11 DEF AppendCreate, TypeInv, OpShape
    <2>4. QED
        BY <1>11, <2>2, <2>3, GotoTyped DEF AppendCreate, Goto, OpShapeAt, PutPcs,
                                            ObjTablePcs, Pcs
<1>12. ASSUME NEW r \in Reqs, AppendWrite(r)
       PROVE  TypeInv'
    <2>1. tbl[r] \in Tables /\ RowsOf(tbl[r], add[r], snap[r])
        BY DEF TypeInv, TypeOK
    <2>2. GlobalsOK'
        BY <1>12, <2>1 DEF AppendWrite, WriteBack, GlobalsOK, TypeInv, TypeOK, Tables, RowsOf,
                           statVars, ghostVars
    <2>3. pc[r] = "append_write" /\ OpShapeAt(r)
        BY <1>12 DEF AppendWrite, TypeInv, OpShape
    <2>4. QED
        BY <1>12, <2>2, <2>3, GotoTyped DEF AppendWrite, Goto, OpShapeAt, PutPcs,
                                            ObjTablePcs, Pcs
<1>13. ASSUME NEW r \in Reqs, AppendRegister(r)
       PROVE  TypeInv'
    <2>1. pc[r] = "append_register" /\ LocalsAt(r) /\ OpShapeAt(r) /\ op[r] \in Ops
        BY <1>13 DEF AppendRegister, TypeInv, TypeOK, OpShape, OpShapeAt, LocalsAt
    <2>2. tbl[r] \in Tables
        BY DEF TypeInv, TypeOK
    <2>3. CASE EndRequest(r) /\ UNCHANGED <<registered, acked>>
        <3>1. GlobalsOK'
            BY <1>13, <2>3 DEF AppendRegister, GlobalsOK, TypeInv, TypeOK, statVars
        <3>2. QED
            BY <2>3, <3>1, EndRequestTyped
    <2>4. CASE Register(tbl[r]) /\ acked' = acked \cup {op[r]} /\ EndRequest(r)
        <3>1. GlobalsOK'
            BY <1>13, <2>1, <2>2, <2>4 DEF AppendRegister, Register, GlobalsOK, TypeInv,
                                           TypeOK, statVars, Tables
        <3>2. QED
            BY <2>4, <3>1, EndRequestTyped
    <2>5. CASE /\ Register(tbl[r]) /\ ret[r] # "done"
               /\ Goto(r, ret[r]) /\ snap' = [snap EXCEPT ![r] = {}]
               /\ UNCHANGED <<op, tbl, add, ret, acked>>
        <3>1. GlobalsOK'
            BY <1>13, <2>2, <2>5 DEF AppendRegister, Register, GlobalsOK, TypeInv,
                                     TypeOK, statVars, Tables
        <3>2. FrameAt(r)
            BY <2>5 DEF Goto, FrameAt, TypeInv, TypeOK
        <3>3. /\ pc'[r] = ret[r] /\ op'[r] = op[r] /\ tbl'[r] = tbl[r]
              /\ add'[r] = add[r] /\ snap'[r] = {} /\ ret'[r] = ret[r]
            BY <2>5 DEF Goto, TypeInv, TypeOK
        <3>4. ret[r] \in {"new_object", "update_stats"}
            BY <2>1, <2>5 DEF LocalsAt, Rets
        <3>5. LocalsAt(r)'
            BY <2>1, <3>3, <3>4 DEF LocalsAt, Pcs, RowsOf
        <3>6. OpShapeAt(r)'
            BY <2>1, <2>5, <3>3, <3>4 DEF OpShapeAt, PutPcs, ObjTablePcs
        <3>7. QED
            BY <3>1, <3>2, <3>5, <3>6, RequestStepTyped
    <2>6. QED
        BY <1>13, <2>3, <2>4, <2>5 DEF AppendRegister
<1>14. ASSUME NEW r \in Reqs, DeleteVersionQuery(r)
       PROVE  TypeInv'
    <2>1. GlobalsOK'
        BY <1>14 DEF DeleteVersionQuery, GlobalsOK, TypeInv, TypeOK, fileVars, statVars,
                     ghostVars
    <2>2. pc[r] = "dv_query" /\ LocalsAt(r) /\ OpShapeAt(r)
        BY <1>14 DEF DeleteVersionQuery, TypeInv, TypeOK, OpShape, LocalsAt
    <2>3. CASE EndRequest(r)
        BY <2>1, <2>3, EndRequestTyped
    <2>4. CASE /\ snap' = [snap EXCEPT ![r] =
                          {x \in parquet.objects :
                              ~(x.bucket = op[r].bucket /\ x.key = op[r].key
                                /\ x.vid = op[r].vid)}]
               /\ Goto(r, "dv_create")
               /\ UNCHANGED <<op, tbl, add, ret>>
        <3> DEFINE kept == {x \in parquet.objects :
                               ~(x.bucket = op[r].bucket /\ x.key = op[r].key
                                 /\ x.vid = op[r].vid)}
        <3>1. FrameAt(r)
            BY <2>4 DEF Goto, FrameAt, TypeInv, TypeOK
        <3>2. /\ pc'[r] = "dv_create" /\ op'[r] = op[r] /\ tbl'[r] = tbl[r]
              /\ add'[r] = add[r] /\ snap'[r] = kept /\ ret'[r] = ret[r]
            BY <2>4 DEF Goto, TypeInv, TypeOK
        <3>3. tbl[r] = "objects" /\ ret[r] = "done" /\ kept \subseteq ObjRow
            BY <2>2 DEF OpShapeAt, ObjTablePcs, TypeInv, TypeOK
        <3>4. LocalsAt(r)'
            BY <2>2, <3>2, <3>3 DEF LocalsAt, Pcs, RowsOf
        <3>5. OpShapeAt(r)'
            BY <2>2, <3>2, <3>3 DEF OpShapeAt, PutPcs, ObjTablePcs
        <3>6. QED
            BY <2>1, <3>1, <3>4, <3>5, RequestStepTyped
    <2>5. QED
        BY <1>14, <2>3, <2>4 DEF DeleteVersionQuery
<1>15. ASSUME NEW r \in Reqs, DeleteVersionCreate(r)
       PROVE  TypeInv'
    <2>1. GlobalsOK'
        BY <1>15 DEF DeleteVersionCreate, Truncate, GlobalsOK, TypeInv, TypeOK, statVars,
                     ghostVars
    <2>2. pc[r] = "dv_create" /\ OpShapeAt(r)
        BY <1>15 DEF DeleteVersionCreate, TypeInv, OpShape
    <2>3. QED
        BY <1>15, <2>1, <2>2, GotoTyped DEF DeleteVersionCreate, Goto, OpShapeAt, PutPcs,
                                            ObjTablePcs, Pcs
<1>16. ASSUME NEW r \in Reqs, DeleteVersionWrite(r)
       PROVE  TypeInv'
    <2>1. pc[r] = "dv_write" /\ OpShapeAt(r)
        BY <1>16 DEF DeleteVersionWrite, TypeInv, OpShape
    <2>2. snap[r] \subseteq ObjRow
        BY <2>1 DEF OpShapeAt, ObjTablePcs, TypeInv, TypeOK, RowsOf
    <2>3. GlobalsOK'
        BY <1>16, <2>2 DEF DeleteVersionWrite, WriteBack, GlobalsOK, TypeInv, TypeOK,
                           statVars, ghostVars
    <2>4. QED
        BY <1>16, <2>1, <2>3, GotoTyped DEF DeleteVersionWrite, Goto, OpShapeAt, PutPcs,
                                            ObjTablePcs, Pcs
<1>17. ASSUME NEW r \in Reqs, DeleteVersionRegister(r)
       PROVE  TypeInv'
    <2>1. op[r] \in Ops
        BY <1>17 DEF DeleteVersionRegister, TypeInv, OpShape, OpShapeAt
    <2>2. GlobalsOK'
        <3>1. CASE UNCHANGED <<registered, acked>>
            BY <1>17, <3>1 DEF DeleteVersionRegister, GlobalsOK, TypeInv, TypeOK, statVars
        <3>2. CASE Register("objects") /\ acked' = acked \cup {op[r]}
            BY <1>17, <2>1, <3>2 DEF DeleteVersionRegister, Register, GlobalsOK, TypeInv,
                                     TypeOK, statVars, Tables
        <3>3. QED
            BY <1>17, <3>1, <3>2 DEF DeleteVersionRegister
    <2>3. QED
        BY <1>17, <2>2, EndRequestTyped DEF DeleteVersionRegister
<1>18. ASSUME NEW f \in FileIds, StatsScanEntry(f)
       PROVE  TypeInv'
    <2>1. BlobLen(f) \subseteq Nat
        BY DEF BlobLen, FileIds, TypeInv, TypeOK
    <2>2. GlobalsOK'
        BY <1>18, <2>1 DEF StatsScanEntry, GlobalsOK, TypeInv, TypeOK, fileVars, ghostVars
    <2>3. QED
        BY <1>18, <2>2, GlobalStepTyped DEF StatsScanEntry
<1>19. CASE StatsWrite
    <2>1. GlobalsOK'
        BY <1>19 DEF StatsWrite, GlobalsOK, TypeInv, TypeOK, fileVars, ghostVars
    <2>2. QED
        BY <1>19, <2>1, GlobalStepTyped DEF StatsWrite
<1>20. CASE Tick
    <2>1. GlobalsOK'
        BY <1>20 DEF Tick, GlobalsOK, TypeInv, TypeOK, fileVars, statVars, ghostVars, Times
    <2>2. QED
        BY <1>20, <2>1, GlobalStepTyped DEF Tick
<1>21. CASE UNCHANGED vars
    BY <1>21 DEF vars, fileVars, reqVars, statVars, ghostVars, TypeInv, TypeOK, OpShape,
                 OpShapeAt
<1>22. QED
    BY <1>1, <1>2, <1>3, <1>4, <1>5, <1>6, <1>7, <1>8, <1>9, <1>10, <1>11, <1>12, <1>13,
       <1>14, <1>15, <1>16, <1>17, <1>18, <1>19, <1>20, <1>21
    DEF Next, NewRequest, RequestStep

\* Whatever the interleaving of put_object, delete_object, create_bucket and
\* the update_stats task, every variable stays within its type: in particular
\* used_space_bytes stays a natural number and every stored row is a row.
THEOREM TypeCorrect == Spec => []TypeOK
<1>1. Init => TypeInv
    BY TypeInvInit
<1>2. TypeInv /\ [Next]_vars => TypeInv'
    BY TypeInvStep
<1>3. TypeInv => TypeOK
    BY DEF TypeInv
<1>4. QED
    BY <1>1, <1>2, <1>3, PTL DEF Spec

-----------------------------------------------------------------------------
(***************************************************************************)
(* No dangling blob reference.  IInv is inductive: blob files are created  *)
(* and rewritten but never removed, so a backed row stays backed; a put    *)
(* writes its blob (store_data) before its row can reach a file.           *)
(***************************************************************************)

\* No step removes a blob file.
BlobsGrow == \A f \in FileIds : blobs[f] # "none" => blobs'[f] # "none"

\* A backed row stays backed while no blob file is removed.
LEMMA BackedMono ==
    ASSUME TypeOK, NEW x \in ObjRow, Backed(x), BlobsGrow
    PROVE  Backed(x)'
<1>1. ~x.dm => FileId(x) \in FileIds
    BY DEF Backed, ObjRow, FileId, FileIds
<1>2. QED
    BY <1>1 DEF Backed, BlobsGrow

\* Rows of the files stay backed when the files do not change.
LEMMA FilesBackedFrame ==
    ASSUME TypeOK, FilesBacked, BlobsGrow, parquet' = parquet
    PROVE  FilesBacked'
BY BackedMono DEF FilesBacked, TypeOK

\* If a step of request r keeps the files and the locals of r backed, every
\* request's locals stay backed.
LEMMA BlobFrame ==
    ASSUME IInv, NEW r \in Reqs, FrameAt(r), BlobsGrow, FilesBacked', BlobRefAt(r)'
    PROVE  BlobRefInv'
<1>1. SUFFICES ASSUME NEW s \in Reqs PROVE BlobRefAt(s)'
    BY DEF BlobRefInv
<1>2. CASE s = r
    BY <1>2
<1>3. CASE s # r
    <2>1. pc'[s] = pc[s] /\ op'[s] = op[s] /\ tbl'[s] = tbl[s] /\ add'[s] = add[s]
          /\ snap'[s] = snap[s]
        BY <1>3 DEF FrameAt, IInv, TypeInv, TypeOK
    <2>2. BlobRefAt(s) /\ RowsOf(tbl[s], add[s], snap[s]) /\ TypeOK
        BY DEF IInv, BlobRefInv, TypeInv, TypeOK
    <2>3. tbl[s] = "objects" => \A x \in snap[s] : Backed(x)'
        BY <2>2, BackedMono DEF BlobRefAt, RowsOf
    <2>4. tbl[s] = "objects" /\ pc[s] # "store_data" => \A x \in add[s] : Backed(x)'
        BY <2>2, BackedMono DEF BlobRefAt, RowsOf
    <2>5. QED
        BY <2>1, <2>2, <2>3, <2>4 DEF BlobRefAt
<1>4. QED
    BY <1>2, <1>3

\* A request that returns has nothing in flight.
LEMMA EndRequestBlob ==
    ASSUME TypeOK, NEW r \in Reqs, EndRequest(r)
    PROVE  BlobRefAt(r)'
BY DEF EndRequest, BlobRefAt, TypeOK

\* A request that moves between points other than store_data, its rows
\* unchanged, keeps them backed.
LEMMA GotoBlob ==
    ASSUME IInv, NEW r \in Reqs, BlobsGrow,
           pc[r] # "store_data", pc'[r] # "store_data",
           tbl'[r] = tbl[r], add'[r] = add[r], snap'[r] = snap[r]
    PROVE  BlobRefAt(r)'
<1>1. BlobRefAt(r) /\ RowsOf(tbl[r], add[r], snap[r]) /\ TypeOK
    BY DEF IInv, BlobRefInv, TypeInv, TypeOK
<1>2. tbl[r] = "objects" => \A x \in snap[r] \cup add[r] : Backed(x)'
    BY <1>1, BackedMono DEF BlobRefAt, RowsOf
<1>3. QED
    BY <1>2 DEF BlobRefAt

\* A step of request r that moves it between points other than store_data,
\* its rows unchanged and the files backed, keeps BlobRefInv.
LEMMA GotoBlobStep ==
    ASSUME IInv, NEW r \in Reqs, FrameAt(r), BlobsGrow, FilesBacked',
           pc[r] # "store_data", pc'[r] # "store_data",
           tbl'[r] = tbl[r], add'[r] = add[r], snap'[r] = snap[r]
    PROVE  BlobRefInv'
BY GotoBlob, BlobFrame

\* The initial files and requests hold no rows.
LEMMA IInvInit == Init => IInv
<1> SUFFICES ASSUME Init PROVE IInv
    OBVIOUS
<1>1. TypeInv
    BY TypeInvInit
<1>2. BlobRefInv
    BY DEF Init, BlobRefInv, FilesBacked, BlobRefAt
<1>3. QED
    BY <1>1, <1>2 DEF IInv

\* Every step keeps every row in a file or in flight backed.
LEMMA BlobRefStep == IInv /\ [Next]_vars => BlobRefInv'
<1> SUFFICES ASSUME IInv, [Next]_vars PROVE BlobRefInv'
    OBVIOUS
<1>0. TypeInv /\ TypeOK /\ OpShape /\ FilesBacked
    BY DEF IInv, TypeInv, BlobRefInv
<1>1. ASSUME NEW r \in Reqs, NEW b \in Buckets, NEW k \in Keys, NEW d \in Data,
             PutObject(r, b, k, d)
      PROVE  BlobRefInv'
    <2>1. BlobsGrow /\ parquet' = parquet
        BY <1>1 DEF PutObject, fileVars, BlobsGrow
    <2>2. FrameAt(r) /\ pc[r] = "idle" /\ pc'[r] = "bucket_exists"
          /\ tbl'[r] = tbl[r] /\ add'[r] = add[r] /\ snap'[r] = snap[r]
        BY <1>0, <1>1 DEF PutObject, Issue, Goto, FrameAt, TypeOK
    <2>3. QED
        BY <1>0, <2>1, <2>2, FilesBackedFrame, GotoBlobStep
<1>2. ASSUME NEW r \in Reqs, NEW b \in Buckets, NEW k \in Keys, DeleteMarker(r, b, k)
      PROVE  BlobRefInv'
    <2>1. BlobsGrow /\ parquet' = parquet /\ blobs' = blobs
        BY <1>2 DEF DeleteMarker, fileVars, BlobsGrow
    <2>2. FrameAt(r)
        BY <1>0, <1>2 DEF DeleteMarker, CallAppend, FrameAt, TypeOK
    <2>3. /\ pc'[r] = "append_read" /\ tbl'[r] = "objects" /\ snap'[r] = snap[r]
          /\ \A x \in add'[r] : x.dm
        BY <1>0, <1>2 DEF DeleteMarker, CallAppend, TypeOK
    <2>4. snap[r] = {}
        BY <1>0, <1>2 DEF DeleteMarker, Issue, OpShape, OpShapeAt
    <2>5. BlobRefAt(r)'
        BY <2>3, <2>4 DEF BlobRefAt, Backed
    <2>6. QED
        BY <1>0, <2>1, <2>2, <2>5, FilesBackedFrame, BlobFrame
<1>3. ASSUME NEW r \in Reqs, NEW b \in Buckets, NEW k \in Keys, NEW v \in 1..(nextVid - 1),
             DeleteVersion(r, b, k, v)
      PROVE  BlobRefInv'
    <2>1. BlobsGrow /\ parquet' = parquet
        BY <1>3 DEF DeleteVersion, fileVars, BlobsGrow
    <2>2. FrameAt(r) /\ pc[r] = "idle" /\ pc'[r] = "dv_query"
          /\ tbl'[r] = tbl[r] /\ add'[r] = add[r] /\ snap'[r] = snap[r]
        BY <1>0, <1>3 DEF DeleteVersion, Issue, Goto, FrameAt, TypeOK
    <2>3. QED
        BY <1>0, <2>1, <2>2, FilesBackedFrame, GotoBlobStep
<1>4. ASSUME NEW r \in Reqs, NEW b \in Buckets, CreateBucket(r, b)
      PROVE  BlobRefInv'
    <2>1. BlobsGrow /\ parquet' = parquet
        BY <1>4 DEF CreateBucket, fileVars, BlobsGrow
    <2>2. FrameAt(r) /\ pc'[r] = "append_read" /\ tbl'[r] = "buckets"
        BY <1>0, <1>4 DEF CreateBucket, CallAppend, FrameAt, TypeOK
    <2>3. BlobRefAt(r)'
        BY <2>2 DEF BlobRefAt
    <2>4. QED
        BY <1>0, <2>1, <2>2, <2>3, FilesBackedFrame, BlobFrame
<1>5. ASSUME NEW r \in Reqs, BucketExists(r)
      PROVE  BlobRefInv'
    <2>1. BlobsGrow /\ parquet' = parquet /\ pc[r] = "bucket_exists"
        BY <1>5 DEF BucketExists, fileVars, BlobsGrow
    <2>2. FilesBacked'
        BY <1>0, <2>1, FilesBackedFrame
    <2>3. CASE EndRequest(r)
        <3>1. FrameAt(r)
            BY <1>0, <2>3 DEF EndRequest, FrameAt, TypeOK
        <3>2. QED
            BY <1>0, <2>1, <2>2, <2>3, <3>1, EndRequestBlob, BlobFrame
    <2>4. CASE Goto(r, "new_object") /\ UNCHANGED <<op, tbl, add, snap, ret>>
        <3>1. FrameAt(r) /\ pc'[r] = "new_object"
            BY <1>0, <2>4 DEF Goto, FrameAt, TypeOK
        <3>2. QED
            BY <2>1, <2>2, <2>4, <3>1, GotoBlobStep
    <2>5. CASE CallAppend(r, "buckets", {op[r].bucket}, "new_object") /\ UNCHANGED <<op, snap>>
        <3>1. FrameAt(r) /\ pc'[r] = "append_read" /\ tbl'[r] = "buckets"
            BY <1>0, <2>5 DEF CallAppend, FrameAt, TypeOK
        <3>2. BlobRefAt(r)'
            BY <3>1 DEF BlobRefAt
        <3>3. QED
            BY <2>1, <2>2, <3>1, <3>2, BlobFrame
    <2>6. QED
        BY <1>5, <2>3, <2>4, <2>5 DEF BucketExists
<1>6. ASSUME NEW r \in Reqs, NewObject(r)
      PROVE  BlobRefInv'
    <2> DEFINE o   == VersionOf(op[r], nextVid)
               row == [vid |-> nextVid, bucket |-> op[r].bucket, key |-> op[r].key,
                       blob |-> op[r].data, created |-> now, dm |-> FALSE]
    <2>1. BlobsGrow /\ parquet' = parquet /\ pc[r] = "new_object"
        BY <1>6 DEF NewObject, fileVars, BlobsGrow
    <2>2. FilesBacked'
        BY <1>0, <2>1, FilesBackedFrame
    <2>3. CASE EndRequest(r)
        <3>1. FrameAt(r)
            BY <1>0, <2>3 DEF EndRequest, FrameAt, TypeOK
        <3>2. QED
            BY <1>0, <2>1, <2>2, <2>3, <3>1, EndRequestBlob, BlobFrame
    <2>4. CASE /\ Goto(r, "store_data")
               /\ op' = [op EXCEPT ![r] = o]
               /\ tbl' = [tbl EXCEPT ![r] = "objects"]
               /\ add' = [add EXCEPT ![r] = {row}]
               /\ ret' = [ret EXCEPT ![r] = "update_stats"]
               /\ UNCHANGED snap
        <3>1. FrameAt(r)
            BY <1>0, <2>4 DEF Goto, FrameAt, TypeOK
        <3>2. /\ pc'[r] = "store_data" /\ op'[r] = o /\ tbl'[r] = "objects"
              /\ add'[r] = {row} /\ snap'[r] = snap[r]
            BY <1>0, <2>4 DEF Goto, TypeOK
        <3>3. snap[r] = {}
            BY <1>0, <2>1 DEF OpShape, OpShapeAt
        <3>4. ~row.dm /\ FileId(row) = <<o.bucket, o.key, o.data>>
            BY DEF FileId, VersionOf
        <3>5. BlobRefAt(r)'
            BY <3>2, <3>3, <3>4 DEF BlobRefAt
        <3>6. QED
            BY <2>1, <2>2, <3>1, <3>5, BlobFrame
    <2>5. QED
        BY <1>6, <2>3, <2>4 DEF NewObject
<1>7. ASSUME NEW r \in Reqs, StoreDataBegin(r)
      PROVE  BlobRefInv'
    <2> DEFINE f == <<op[r].bucket, op[r].key, op[r].data>>
    <2>1. pc[r] = "store_data" /\ op[r] \in Ops /\ op[r].key \in Keys /\ op[r].data \in Data
        BY <1>0, <1>7 DEF StoreDataBegin, OpShape, OpShapeAt, PutPcs
    <2>2. f \in FileIds
        BY <2>1 DEF Ops, FileIds
    <2>3. blobs' = [blobs EXCEPT ![f] = "partial"] /\ parquet' = parquet
        BY <1>7 DEF StoreDataBegin
    <2>4. BlobsGrow /\ blobs'[f] # "none"
        BY <1>0, <2>2, <2>3 DEF BlobsGrow, TypeOK
    <2>5. FrameAt(r) /\ pc'[r] = "store_data_end"
          /\ tbl'[r] = tbl[r] /\ add'[r] = add[r] /\ snap'[r] = snap[r] /\ op'[r] = op[r]
        BY <1>0, <1>7 DEF StoreDataBegin, Goto, FrameAt, TypeOK
    <2>6. /\ tbl[r] = "objects"
          /\ \A x \in add[r] : ~x.dm /\ FileId(x) = f
          /\ \A x \in snap[r] : Backed(x)
          /\ RowsOf(tbl[r], add[r], snap[r])
        BY <1>0, <2>1 DEF IInv, BlobRefInv, BlobRefAt, TypeOK
    <2>7. \A x \in snap[r] : Backed(x)'
        BY <1>0, <2>4, <2>6, BackedMono DEF RowsOf
    <2>8. \A x \in add[r] : Backed(x)'
        BY <2>1, <2>4, <2>6 DEF Backed, FileId
    <2>9. BlobRefAt(r)'
        BY <2>5, <2>6, <2>7, <2>8 DEF BlobRefAt
    <2>10. QED
        BY <1>0, <2>3, <2>4, <2>5, <2>9, FilesBackedFrame, BlobFrame
<1>8. ASSUME NEW r \in Reqs, StoreDataEnd(r)
      PROVE  BlobRefInv'
    <2> DEFINE f == <<op[r].bucket, op[r].key, op[r].data>>
    <2>1. pc[r] = "store_data_end" /\ op[r] \in Ops /\ op[r].key \in Keys /\ op[r].data \in Data
        BY <1>0, <1>8 DEF StoreDataEnd, OpShape, OpShapeAt, PutPcs
    <2>2. f \in FileIds
        BY <2>1 DEF Ops, FileIds
    <2>3. blobs' = [blobs EXCEPT ![f] = "full"] /\ parquet' = parquet
        BY <1>8 DEF StoreDataEnd
    <2>4. BlobsGrow
        BY <1>0, <2>2, <2>3 DEF BlobsGrow, TypeOK
    <2>5. FrameAt(r) /\ pc'[r] = "append_read"
          /\ tbl'[r] = tbl[r] /\ add'[r] = add[r] /\ snap'[r] = snap[r]
        BY <1>0, <1>8 DEF StoreDataEnd, Goto, FrameAt, TypeOK
    <2>6. QED
        BY <1>0, <2>1, <2>3, <2>4, <2>5, FilesBackedFrame, GotoBlobStep
<1>9. ASSUME NEW r \in Reqs, UpdatePutStats(r)
      PROVE  BlobRefInv'
    <2>1. BlobsGrow /\ parquet' = parquet
        BY <1>9 DEF UpdatePutStats, fileVars, BlobsGrow
    <2>2. FrameAt(r)
        BY <1>0, <1>9 DEF UpdatePutStats, EndRequest, FrameAt, TypeOK
    <2>3. QED
        BY <1>0, <1>9, <2>1, <2>2, FilesBackedFrame, EndRequestBlob, BlobFrame
          DEF UpdatePutStats
<1>10. ASSUME NEW r \in Reqs, AppendRead(r)
       PROVE  BlobRefInv'
    <2>1. BlobsGrow /\ parquet' = parquet /\ blobs' = blobs /\ pc[r] = "append_read"
        BY <1>10 DEF AppendRead, fileVars, BlobsGrow
    <2>2. FilesBacked'
        BY <1>0, <2>1, FilesBackedFrame
    <2>3. CASE EndRequest(r)
        <3>1. FrameAt(r)
            BY <1>0, <2>3 DEF EndRequest, FrameAt, TypeOK
        <3>2. QED
            BY <1>0, <2>1, <2>2, <2>3, <3>1, EndRequestBlob, BlobFrame
    <2>4. CASE /\ snap' = [snap EXCEPT ![r] = parquet[tbl[r]]]
               /\ Goto(r, "append_create")
               /\ UNCHANGED <<op, tbl, add, ret>>
        <3>1. FrameAt(r) /\ pc'[r] = "append_create" /\ snap'[r] = parquet[tbl[r]]
              /\ tbl'[r] = tbl[r] /\ add'[r] = add[r]
            BY <1>0, <2>4 DEF Goto, FrameAt, TypeOK
        <3>2. tbl[r] = "objects" => \A x \in add[r] : Backed(x)
            BY <2>1 DEF IInv, BlobRefInv, BlobRefAt
        <3>3. tbl[r] = "objects" => \A x \in parquet[tbl[r]] : Backed(x)
            BY <1>0 DEF FilesBacked
        <3>4. BlobRefAt(r)'
            BY <2>1, <3>1, <3>2, <3>3 DEF BlobRefAt, Backed
        <3>5. QED
            BY <2>1, <2>2, <3>1, <3>4, BlobFrame
    <2>5. QED
        BY <1>10, <2>3, <2>4 DEF AppendRead
<1>11. ASSUME NEW r \in Reqs, AppendCreate(r)
       PROVE  BlobRefInv'
    <2>1. BlobsGrow /\ blobs' = blobs /\ pc[r] = "append_create"
        BY <1>11 DEF AppendCreate, BlobsGrow
    <2>2. parquet' = [parquet EXCEPT ![tbl[r]] = {}] /\ tbl[r] \in Tables
        BY <1>0, <1>11 DEF AppendCreate, Truncate, TypeOK
    <2>3. parquet'.objects = {} \/ parquet'.objects = parquet.objects
        BY <1>0, <2>2 DEF TypeOK, Tables
    <2>4. FilesBacked'
        BY <1>0, <2>1, <2>3 DEF FilesBacked, Backed
    <2>5. FrameAt(r) /\ pc'[r] = "append_write"
          /\ tbl'[r] = tbl[r] /\ add'[r] = add[r] /\ snap'[r] = snap[r]
        BY <1>0, <1>11 DEF AppendCreate, Goto, FrameAt, TypeOK
    <2>6. QED
        BY <2>1, <2>4, <2>5, GotoBlobStep
<1>12. ASSUME NEW r \in Reqs, AppendWrite(r)
       PROVE  BlobRefInv'
    <2>1. BlobsGrow /\ blobs' = blobs /\ pc[r] = "append_write"
        BY <1>12 DEF AppendWrite, BlobsGrow
    <2>2. parquet' = [parquet EXCEPT ![tbl[r]] = snap[r] \cup add[r]] /\ tbl[r] \in Tables
        BY <1>0, <1>12 DEF AppendWrite, WriteBack, TypeOK
    <2>3. tbl[r] = "objects" => \A x \in snap[r] \cup add[r] : Backed(x)
        BY <2>1 DEF IInv, BlobRefInv, BlobRefAt
    <2>4. \/ tbl[r] = "objects" /\ parquet'.objects = snap[r] \cup add[r]
          \/ parquet'.objects = parquet.objects
        BY <1>0, <2>2 DEF TypeOK, Tables
    <2>5. FilesBacked'
        BY <1>0, <2>1, <2>3, <2>4 DEF FilesBacked, Backed
    <2>6. FrameAt(r) /\ pc'[r] = "append_register"
          /\ tbl'[r] = tbl[r] /\ add'[r] = add[r] /\ snap'[r] = snap[r]
        BY <1>0, <1>12 DEF AppendWrite, Goto, FrameAt, TypeOK
    <2>7. QED
        BY <2>1, <2>5, <2>6, GotoBlobStep
<1>13. ASSUME NEW r \in Reqs, AppendRegister(r)
       PROVE  BlobRefInv'
    <2>1. BlobsGrow /\ parquet' = parquet /\ blobs' = blobs /\ pc[r] = "append_register"
        BY <1>13 DEF AppendRegister, BlobsGrow
    <2>2. FilesBacked'
        BY <1>0, <2>1, FilesBackedFrame
    <2>3. CASE EndRequest(r)
        <3>1. FrameAt(r)
            BY <1>0, <2>3 DEF EndRequest, FrameAt, TypeOK
        <3>2. QED
            BY <1>0, <2>1, <2>2, <2>3, <3>1, EndRequestBlob, BlobFrame
    <2>4. CASE /\ ret[r] # "done"
               /\ Goto(r, ret[r]) /\ snap' = [snap EXCEPT ![r] = {}]
               /\ UNCHANGED <<op, tbl, add, ret>>
        <3>1. FrameAt(r) /\ pc'[r] = ret[r] /\ snap'[r] = {}
              /\ tbl'[r] = tbl[r] /\ add'[r] = add[r]
            BY <1>0, <2>4 DEF Goto, FrameAt, TypeOK
        <3>2. ret[r] # "store_data"
            BY <1>0 DEF TypeOK, Rets
        <3>3. tbl[r] = "objects" => \A x \in add[r] : Backed(x)
            BY <2>1 DEF IInv, BlobRefInv, BlobRefAt
        <3>4. BlobRefAt(r)'
            BY <2>1, <3>1, <3>2, <3>3 DEF BlobRefAt, Backed
        <3>5. QED
            BY <2>1, <2>2, <3>1, <3>4, BlobFrame
    <2>5. QED
        BY <1>13, <2>3, <2>4 DEF AppendRegister
<1>14. ASSUME NEW r \in Reqs, DeleteVersionQuery(r)
       PROVE  BlobRefInv'
    <2>1. BlobsGrow /\ parquet' = parquet /\ blobs' = blobs /\ pc[r] = "dv_query"
        BY <1>14 DEF DeleteVersionQuery, fileVars, BlobsGrow
    <2>2. FilesBacked'
        BY <1>0, <2>1, FilesBackedFrame
    <2>3. CASE EndRequest(r)
        <3>1. FrameAt(r)
            BY <1>0, <2>3 DEF EndRequest, FrameAt, TypeOK
        <3>2. QED
            BY <1>0, <2>1, <2>2, <2>3, <3>1, EndRequestBlob, BlobFrame
    <2>4. CASE /\ snap' = [snap EXCEPT ![r] =
                          {x \in parquet.objects :
                              ~(x.bucket = op[r].bucket /\ x.key = op[r].key
                                /\ x.vid = op[r].vid)}]
               /\ Goto(r, "dv_create")
               /\ UNCHANGED <<op, tbl, add, ret>>
        <3>1. FrameAt(r) /\ pc'[r] = "dv_create" /\ snap'[r] \subseteq parquet.objects
              /\ tbl'[r] = tbl[r] /\ add'[r] = add[r]
            BY <1>0, <2>4 DEF Goto, FrameAt, TypeOK
        <3>2. tbl[r] = "objects" => \A x \in add[r] : Backed(x)
            BY <2>1 DEF IInv, BlobRefInv, BlobRefAt
        <3>3. BlobRefAt(r)'
            BY <1>0, <2>1, <3>1, <3>2 DEF BlobRefAt, FilesBacked, Backed
        <3>4. QED
            BY <2>1, <2>2, <3>1, <3>3, BlobFrame
    <2>5. QED
        BY <1>14, <2>3, <2>4 DEF DeleteVersionQuery
<1>15. ASSUME NEW r \in Reqs, DeleteVersionCreate(r)
       PROVE  BlobRefInv'
    <2>1. BlobsGrow /\ pc[r] = "dv_create" /\ parquet'.objects = {}
        BY <1>0, <1>15 DEF DeleteVersionCreate, Truncate, BlobsGrow, TypeOK
    <2>2. FilesBacked'
        BY <2>1 DEF FilesBacked
    <2>3. FrameAt(r) /\ pc'[r] = "dv_write"
          /\ tbl'[r] = tbl[r] /\ add'[r] = add[r] /\ snap'[r] = snap[r]
        BY <1>0, <1>15 DEF DeleteVersionCreate, Goto, FrameAt, TypeOK
    <2>4. QED
        BY <2>1, <2>2, <2>3, GotoBlobStep
<1>16. ASSUME NEW r \in Reqs, DeleteVersionWrite(r)
       PROVE  BlobRefInv'
    <2>1. BlobsGrow /\ blobs' = blobs /\ pc[r] = "dv_write" /\ parquet'.objects = snap[r]
        BY <1>0, <1>16 DEF DeleteVersionWrite, WriteBack, BlobsGrow, TypeOK
    <2>2. tbl[r] = "objects"
        BY <1>0, <2>1 DEF OpShape, OpShapeAt, ObjTablePcs
    <2>3. \A x \in snap[r] : Backed(x)
        BY <2>2 DEF IInv, BlobRefInv, BlobRefAt
    <2>4. FilesBacked'
        BY <2>1, <2>3 DEF FilesBacked, Backed
    <2>5. FrameAt(r) /\ pc'[r] = "dv_register"
          /\ tbl'[r] = tbl[r] /\ add'[r] = add[r] /\ snap'[r] = snap[r]
        BY <1>0, <1>16 DEF DeleteVersionWrite, Goto, FrameAt, TypeOK
    <2>6. QED
        BY <2>1, <2>4, <2>5, GotoBlobStep
<1>17. ASSUME NEW r \in Reqs, DeleteVersionRegister(r)
       PROVE  BlobRefInv'
    <2>1. BlobsGrow /\ parquet' = parquet
        BY <1>17 DEF DeleteVersionRegister, BlobsGrow
    <2>2. FrameAt(r)
        BY <1>0, <1>17 DEF DeleteVersionRegister, EndRequest, FrameAt, TypeOK
    <2>3. QED
        BY <1>0, <1>17, <2>1, <2>2, FilesBackedFrame, EndRequestBlob, BlobFrame
          DEF DeleteVersionRegister
<1>18. CASE UNCHANGED <<fileVars, reqVars>>
    BY <1>18 DEF IInv, BlobRefInv, FilesBacked, BlobRefAt, Backed, fileVars, reqVars
<1>19. QED
    BY <1>1, <1>2, <1>3, <1>4, <1>5, <1>6, <1>7, <1>8, <1>9, <1>10, <1>11, <1>12, <1>13,
       <1>14, <1>15, <1>16, <1>17, <1>18
    DEF Next, NewRequest, RequestStep, StatsScanEntry, StatsWrite, Tick, vars

(***************************************************************************)
(* The strengthened invariant is inductive: the type part by TypeInvStep,  *)
(* the blob part by BlobRefStep.                                           *)
(***************************************************************************)
LEMMA IInvStep == IInv /\ [Next]_vars => IInv'
    BY TypeInvStep, BlobRefStep DEF IInv

(***************************************************************************)
(* No version row names a blob file that was never written: put_object    *)
(* writes the blob (store_object_data) before it appends the row, a blob   *)
(* file is never removed, and every rewrite of objects.parquet in          *)
(* append_to_parquet and the versioned delete writes back only rows read   *)
(* from the file or rows whose blob was written.                           *)
(***************************************************************************)
THEOREM NoDanglingRefs == Spec => []NoDanglingBlobRef
<1>1. IInv => NoDanglingBlobRef
    BY DEF IInv, BlobRefInv, FilesBacked, Backed, NoDanglingBlobRef
<1>2. QED
    BY IInvInit, IInvStep, <1>1, PTL DEF Spec

=============================================================================
