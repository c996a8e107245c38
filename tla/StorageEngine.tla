---------------------------- MODULE StorageEngine ----------------------------
(***************************************************************************)
(* One node's storage engine: StorageEngine (storage/src/engine.rs) over   *)
(* the parquet-backed MetadataStore (storage/src/metadata.rs).             *)
(*                                                                         *)
(* API requests run as tokio tasks of a multi-threaded runtime, so any     *)
(* two of them run in parallel.  A request is a sequence of steps, one per *)
(* await point or per synchronous file-system call that other tasks can    *)
(* observe; the local variables of a request (pc, op, tbl, add, snap, ret) *)
(* hold what the Rust future holds across those points.                    *)
(*                                                                         *)
(* A parquet file is modelled by the SET of its rows: no query the code    *)
(* runs depends on row order (a SELECT without ORDER BY has none), and the *)
(* only use of the buckets table is a COUNT greater than 0, which cannot tell    *)
(* a duplicated bucket row from a single one.                            *)
(***************************************************************************)
EXTENDS Naturals, FiniteSets

LOCAL INSTANCE FiniteSetsExt

CONSTANTS
    Reqs,        \* the tasks serving API requests
    Buckets,     \* bucket names
    Keys,        \* object keys
    Data,        \* object contents (one model value per byte string)
    Nil,         \* "no value": the blob of a delete marker, an idle request
    Size,        \* Size[d] = data.len() of content d
    MaxStorage,  \* max_storage_size
    MaxOps,      \* bound: number of requests issued in a behaviour
    MaxTime      \* bound: the millisecond clock of Utc::now()

ASSUME ConstantsAssumption ==
    /\ Size \in [Data -> Nat]
    /\ MaxStorage \in Nat
    /\ MaxOps \in Nat
    /\ MaxTime \in Nat
    /\ Nil \notin Buckets \cup Keys \cup Data

VARIABLES
    parquet,     \* parquet[t]: the rows of <t>.parquet on disk
    torn,        \* torn[t]: <t>.parquet is truncated or half written
    registered,  \* registered[t]: table t is registered in the SessionContext
    blobs,       \* blobs[f]: the blob file objects/xx/<id> is absent, being written, or whole
    used,        \* stats.used_space_bytes
    now,         \* Utc::now() in milliseconds
    nextVid,     \* the next fresh Uuid::new_v4()
    pc,          \* pc[r]: where request r is
    op,          \* op[r]: the operation request r performs
    tbl,         \* tbl[r]: the table append_to_parquet is appending to
    add,         \* add[r]: the rows that append is adding
    snap,        \* snap[r]: the rows read before the file is rewritten
    ret,         \* ret[r]: where r continues after append_to_parquet
    stSeen,      \* the blob files update_stats has visited
    stTotal,     \* total_size accumulated by update_stats
    issued,      \* number of requests issued so far (bounded by MaxOps)
    acked,       \* ghost: the operations that returned Ok
    dvIssued     \* ghost: the version ids some versioned delete was issued for

fileVars  == <<parquet, torn, registered, blobs>>
reqVars   == <<pc, op, tbl, add, snap, ret>>
statVars  == <<stSeen, stTotal>>
ghostVars == <<issued, acked, dvIssued>>
vars == <<fileVars, used, now, nextVid, reqVars, statVars, ghostVars>>

Tables  == {"objects", "buckets"}
Vids    == Nat \ {0}
Times   == 0..MaxTime

\* ObjectId = "bucket:key:blake3[..16]": a blob file is named by bucket, key
\* and content, so the same content put twice under one key is one file.
FileIds == Buckets \X Keys \X Data

\* A row of objects.parquet (the columns the code reads back).
ObjRow == [vid: Vids, bucket: Buckets, key: Keys, blob: Data \cup {Nil},
           created: Times, dm: BOOLEAN]

FileId(row) == <<row.bucket, row.key, row.blob>>

OpKinds == {"put", "dm", "dv", "cb"}   \* put, delete marker, delete version, create bucket
Ops  == [kind: OpKinds, bucket: Buckets, key: Keys \cup {Nil},
         data: Data \cup {Nil}, vid: Nat]
NoOp == [kind |-> "none", bucket |-> Nil, key |-> Nil, data |-> Nil, vid |-> 0]

Pcs == {"idle", "bucket_exists", "new_object", "store_data", "store_data_end",
        "append_read", "append_create", "append_write", "append_register",
        "update_stats", "dv_query", "dv_create", "dv_write", "dv_register"}
Rets == {"new_object", "update_stats", "done"}

\* The rows an append to table t adds and the rows it read are rows of t.
RowsOf(t, a, s) ==
    /\ t = "objects" => a \subseteq ObjRow /\ s \subseteq ObjRow
    /\ t = "buckets" => a \subseteq Buckets /\ s \subseteq Buckets

TypeOK ==
    /\ parquet \in [objects: SUBSET ObjRow, buckets: SUBSET Buckets]
    /\ torn \in [Tables -> BOOLEAN]
    /\ registered \in [Tables -> BOOLEAN]
    /\ blobs \in [FileIds -> {"none", "partial", "full"}]
    /\ used \in Nat
    /\ now \in Times
    /\ nextVid \in Vids
    /\ pc \in [Reqs -> Pcs]
    /\ op \in [Reqs -> Ops \cup {NoOp}]
    /\ tbl \in [Reqs -> Tables]
    /\ add \in [Reqs -> SUBSET (ObjRow \cup Buckets)]
    /\ snap \in [Reqs -> SUBSET (ObjRow \cup Buckets)]
    /\ \A r \in Reqs : RowsOf(tbl[r], add[r], snap[r])
    /\ ret \in [Reqs -> Rets]
    /\ stSeen \subseteq FileIds
    /\ stTotal \in Nat
    /\ issued \in 0..MaxOps
    /\ acked \subseteq Ops
    /\ dvIssued \subseteq Nat

-----------------------------------------------------------------------------
Init ==
    \* MetadataStore::new creates the empty files and registers the tables;
    \* StorageEngine::new runs update_stats over an empty objects directory.
    /\ parquet = [objects |-> {}, buckets |-> {}]
    /\ torn = [t \in Tables |-> FALSE]
    /\ registered = [t \in Tables |-> TRUE]
    /\ blobs = [f \in FileIds |-> "none"]
    /\ used = 0
    /\ now = 0
    /\ nextVid = 1
    /\ pc = [r \in Reqs |-> "idle"]
    /\ op = [r \in Reqs |-> NoOp]
    /\ tbl = [r \in Reqs |-> "objects"]
    /\ add = [r \in Reqs |-> {}]
    /\ snap = [r \in Reqs |-> {}]
    /\ ret = [r \in Reqs |-> "done"]
    /\ stSeen = {}
    /\ stTotal = 0
    /\ issued = 0
    /\ acked = {}
    /\ dvIssued = {}

\* A query through ctx.sql succeeds only on a registered table whose file is
\* a whole parquet file.
Queryable(t) == registered[t] /\ ~torn[t]

Goto(r, l) == pc' = [pc EXCEPT ![r] = l]

\* The request returns (Ok or Err): its future and its locals are dropped.
EndRequest(r) ==
    /\ pc' = [pc EXCEPT ![r] = "idle"]
    /\ op' = [op EXCEPT ![r] = NoOp]
    /\ tbl' = [tbl EXCEPT ![r] = "objects"]
    /\ add' = [add EXCEPT ![r] = {}]
    /\ snap' = [snap EXCEPT ![r] = {}]
    /\ ret' = [ret EXCEPT ![r] = "done"]

\* A new request is taken by an idle task.
Issue(r) ==
    /\ pc[r] = "idle"
    /\ issued < MaxOps
    /\ issued' = issued + 1

\* Enter append_to_parquet(t, rows), continuing at cont when it returns Ok.
CallAppend(r, t, rows, cont) ==
    /\ pc' = [pc EXCEPT ![r] = "append_read"]
    /\ tbl' = [tbl EXCEPT ![r] = t]
    /\ add' = [add EXCEPT ![r] = rows]
    /\ ret' = [ret EXCEPT ![r] = cont]

\* File::create(path): the file is truncated to zero bytes.
Truncate(t) ==
    /\ parquet' = [parquet EXCEPT ![t] = {}]
    /\ torn' = [torn EXCEPT ![t] = TRUE]

\* The writer writes every batch and closes; then deregister_table(t).
WriteBack(t, rows) ==
    /\ parquet' = [parquet EXCEPT ![t] = rows]
    /\ torn' = [torn EXCEPT ![t] = FALSE]
    /\ registered' = [registered EXCEPT ![t] = FALSE]

\* register_parquet(t): fails when t is registered already ("table already
\* exists") or when the file cannot be read to infer its schema.
CanRegister(t) == ~registered[t] /\ ~torn[t]
Register(t) == registered' = [registered EXCEPT ![t] = TRUE]

-----------------------------------------------------------------------------
(* put_object: bucket_exists, maybe create_bucket, Object::new and the     *)
(* space check, store_object_data, store_object, then the stats update.    *)

PutObject(r, b, k, d) ==
    /\ Issue(r)
    /\ Goto(r, "bucket_exists")
    /\ op' = [op EXCEPT ![r] = [kind |-> "put", bucket |-> b, key |-> k, data |-> d, vid |-> 0]]
    /\ UNCHANGED <<fileVars, used, now, nextVid, tbl, add, snap, ret, statVars, acked, dvIssued>>

\* Mutant: a missing bucket is not created before the version is stored.
BucketExistsNoCreate(r) ==
    /\ pc[r] = "bucket_exists"
    /\ \/ /\ ~Queryable("buckets")
          /\ EndRequest(r)
       \/ /\ Queryable("buckets")
          /\ Goto(r, "new_object")
          /\ UNCHANGED <<op, tbl, add, snap, ret>>
    /\ UNCHANGED <<fileVars, used, now, nextVid, statVars, ghostVars>>

BucketExists(r) ==
    /\ pc[r] = "bucket_exists"
    /\ \/ /\ ~Queryable("buckets")
          /\ EndRequest(r)
       \/ /\ Queryable("buckets")
          /\ op[r].bucket \in parquet.buckets
          /\ Goto(r, "new_object")
          /\ UNCHANGED <<op, tbl, add, snap, ret>>
       \/ /\ Queryable("buckets")
          /\ op[r].bucket \notin parquet.buckets
          /\ CallAppend(r, "buckets", {op[r].bucket}, "new_object")
          /\ UNCHANGED <<op, snap>>
    /\ UNCHANGED <<fileVars, used, now, nextVid, statVars, ghostVars>>

\* The operation of a put once Object::new has given it its version id.
VersionOf(o, v) == [kind |-> o.kind, bucket |-> o.bucket, key |-> o.key, data |-> o.data, vid |-> v]

\* Mutant: the call to store_object_data is left out.
NewObjectSkipStore(r) ==
    /\ pc[r] = "new_object"
    /\ nextVid' = nextVid + 1
    /\ LET d   == op[r].data
           row == [vid |-> nextVid, bucket |-> op[r].bucket, key |-> op[r].key,
                   blob |-> d, created |-> now, dm |-> FALSE]
       IN \/ /\ used + Size[d] > MaxStorage
             /\ EndRequest(r)
          \/ /\ used + Size[d] <= MaxStorage
             /\ Goto(r, "append_read")
             /\ op' = [op EXCEPT ![r] = VersionOf(op[r], nextVid)]
             /\ tbl' = [tbl EXCEPT ![r] = "objects"]
             /\ add' = [add EXCEPT ![r] = {row}]
             /\ ret' = [ret EXCEPT ![r] = "update_stats"]
             /\ UNCHANGED snap
    /\ UNCHANGED <<fileVars, used, now, statVars, ghostVars>>

\* Object::new draws a version id and the creation time; the integrity check
\* of a fresh object passes; the space check reads used_space_bytes.
NewObject(r) ==
    /\ pc[r] = "new_object"
    /\ nextVid' = nextVid + 1
    /\ LET d   == op[r].data
           row == [vid |-> nextVid, bucket |-> op[r].bucket, key |-> op[r].key,
                   blob |-> d, created |-> now, dm |-> FALSE]
       IN \/ /\ used + Size[d] > MaxStorage
             /\ EndRequest(r)
          \/ /\ used + Size[d] <= MaxStorage
             /\ Goto(r, "store_data")
             /\ op' = [op EXCEPT ![r] = VersionOf(op[r], nextVid)]
             /\ tbl' = [tbl EXCEPT ![r] = "objects"]
             /\ add' = [add EXCEPT ![r] = {row}]
             /\ ret' = [ret EXCEPT ![r] = "update_stats"]
             /\ UNCHANGED snap
    /\ UNCHANGED <<fileVars, used, now, statVars, ghostVars>>

\* fs::write truncates (or creates) the blob file, then writes the bytes.
StoreDataBegin(r) ==
    /\ pc[r] = "store_data"
    /\ blobs' = [blobs EXCEPT ![<<op[r].bucket, op[r].key, op[r].data>>] = "partial"]
    /\ Goto(r, "store_data_end")
    /\ UNCHANGED <<parquet, torn, registered, used, now, nextVid, op, tbl, add, snap, ret, statVars, ghostVars>>

StoreDataEnd(r) ==
    /\ pc[r] = "store_data_end"
    /\ blobs' = [blobs EXCEPT ![<<op[r].bucket, op[r].key, op[r].data>>] = "full"]
    /\ Goto(r, "append_read")
    /\ UNCHANGED <<parquet, torn, registered, used, now, nextVid, op, tbl, add, snap, ret, statVars, ghostVars>>

UpdatePutStats(r) ==
    /\ pc[r] = "update_stats"
    /\ used' = used + Size[op[r].data]
    /\ acked' = acked \cup {op[r]}
    /\ EndRequest(r)
    /\ UNCHANGED <<fileVars, now, nextVid, statVars, issued, dvIssued>>

-----------------------------------------------------------------------------
(* append_to_parquet: read the file, truncate it, write old and new rows,  *)
(* deregister the table, register it again.  No lock is held.              *)

AppendRead(r) ==
    /\ pc[r] = "append_read"
    /\ \/ /\ torn[tbl[r]]
          /\ EndRequest(r)
       \/ /\ ~torn[tbl[r]]
          /\ snap' = [snap EXCEPT ![r] = parquet[tbl[r]]]
          /\ Goto(r, "append_create")
          /\ UNCHANGED <<op, tbl, add, ret>>
    /\ UNCHANGED <<fileVars, used, now, nextVid, statVars, ghostVars>>

AppendCreate(r) ==
    /\ pc[r] = "append_create"
    /\ Truncate(tbl[r])
    /\ Goto(r, "append_write")
    /\ UNCHANGED <<registered, blobs, used, now, nextVid, op, tbl, add, snap, ret, statVars, ghostVars>>

\* Mutant: the rows are written to objects.parquet whatever the table.
AppendWriteObjectsFile(r) ==
    /\ pc[r] = "append_write"
    /\ WriteBack("objects", snap[r] \cup add[r])
    /\ Goto(r, "append_register")
    /\ UNCHANGED <<blobs, used, now, nextVid, op, tbl, add, snap, ret, statVars, ghostVars>>

AppendWrite(r) ==
    /\ pc[r] = "append_write"
    /\ WriteBack(tbl[r], snap[r] \cup add[r])
    /\ Goto(r, "append_register")
    /\ UNCHANGED <<blobs, used, now, nextVid, op, tbl, add, snap, ret, statVars, ghostVars>>

\* On success append_to_parquet returns to its caller: put_object goes on,
\* delete_object and create_bucket return Ok.
AppendRegister(r) ==
    /\ pc[r] = "append_register"
    /\ \/ /\ ~CanRegister(tbl[r])
          /\ EndRequest(r)
          /\ UNCHANGED <<registered, acked>>
       \/ /\ CanRegister(tbl[r])
          /\ Register(tbl[r])
          /\ \/ /\ ret[r] = "done"
                /\ acked' = acked \cup {op[r]}
                /\ EndRequest(r)
             \/ /\ ret[r] # "done"
                /\ Goto(r, ret[r])
                /\ snap' = [snap EXCEPT ![r] = {}]
                /\ UNCHANGED <<op, tbl, add, ret, acked>>
    /\ UNCHANGED <<parquet, torn, blobs, used, now, nextVid, statVars, issued, dvIssued>>

-----------------------------------------------------------------------------
(* delete_object without a version id appends a delete marker.             *)
DeleteMarker(r, b, k) ==
    /\ Issue(r)
    /\ nextVid' = nextVid + 1
    /\ op' = [op EXCEPT ![r] = [kind |-> "dm", bucket |-> b, key |-> k, data |-> Nil, vid |-> nextVid]]
    /\ CallAppend(r, "objects",
                  {[vid |-> nextVid, bucket |-> b, key |-> k, blob |-> Nil,
                    created |-> now, dm |-> TRUE]}, "done")
    /\ UNCHANGED <<fileVars, used, now, snap, statVars, acked, dvIssued>>

(* delete_object with a version id selects every other row and rewrites    *)
(* objects.parquet from the result.                                        *)
DeleteVersion(r, b, k, v) ==
    /\ Issue(r)
    /\ Goto(r, "dv_query")
    /\ op' = [op EXCEPT ![r] = [kind |-> "dv", bucket |-> b, key |-> k, data |-> Nil, vid |-> v]]
    /\ dvIssued' = dvIssued \cup {v}
    /\ UNCHANGED <<fileVars, used, now, nextVid, tbl, add, snap, ret, statVars, acked>>

\* Mutant: the filter leaves out the version id, so every version of the
\* key is dropped.
DeleteVersionQueryAllVersions(r) ==
    /\ pc[r] = "dv_query"
    /\ \/ /\ ~Queryable("objects")
          /\ EndRequest(r)
       \/ /\ Queryable("objects")
          /\ snap' = [snap EXCEPT ![r] =
                {x \in parquet.objects : ~(x.bucket = op[r].bucket /\ x.key = op[r].key)}]
          /\ Goto(r, "dv_create")
          /\ UNCHANGED <<op, tbl, add, ret>>
    /\ UNCHANGED <<fileVars, used, now, nextVid, statVars, ghostVars>>

DeleteVersionQuery(r) ==
    /\ pc[r] = "dv_query"
    /\ \/ /\ ~Queryable("objects")
          /\ EndRequest(r)
       \/ /\ Queryable("objects")
          /\ snap' = [snap EXCEPT ![r] =
                {x \in parquet.objects :
                    ~(x.bucket = op[r].bucket /\ x.key = op[r].key /\ x.vid = op[r].vid)}]
          /\ Goto(r, "dv_create")
          /\ UNCHANGED <<op, tbl, add, ret>>
    /\ UNCHANGED <<fileVars, used, now, nextVid, statVars, ghostVars>>

DeleteVersionCreate(r) ==
    /\ pc[r] = "dv_create"
    /\ Truncate("objects")
    /\ Goto(r, "dv_write")
    /\ UNCHANGED <<registered, blobs, used, now, nextVid, op, tbl, add, snap, ret, statVars, ghostVars>>

DeleteVersionWrite(r) ==
    /\ pc[r] = "dv_write"
    /\ WriteBack("objects", snap[r])
    /\ Goto(r, "dv_register")
    /\ UNCHANGED <<blobs, used, now, nextVid, op, tbl, add, snap, ret, statVars, ghostVars>>

\* Ok(true) whether or not the version existed.
DeleteVersionRegister(r) ==
    /\ pc[r] = "dv_register"
    /\ \/ /\ ~CanRegister("objects")
          /\ UNCHANGED <<registered, acked>>
       \/ /\ CanRegister("objects")
          /\ Register("objects")
          /\ acked' = acked \cup {op[r]}
    /\ EndRequest(r)
    /\ UNCHANGED <<parquet, torn, blobs, used, now, nextVid, statVars, issued, dvIssued>>

-----------------------------------------------------------------------------
\* create_bucket appends a row to buckets.parquet; it never checks for one.
CreateBucket(r, b) ==
    /\ Issue(r)
    /\ op' = [op EXCEPT ![r] = [kind |-> "cb", bucket |-> b, key |-> Nil, data |-> Nil, vid |-> 0]]
    /\ CallAppend(r, "buckets", {b}, "done")
    /\ UNCHANGED <<fileVars, used, now, nextVid, snap, statVars, acked, dvIssued>>

-----------------------------------------------------------------------------
(* update_stats, run every 60 s by StorageEngine::start: walk the objects  *)
(* directory one entry per await summing metadata.len(), then overwrite    *)
(* used_space_bytes with the sum.                                          *)

\* metadata.len() of a blob file: nothing when absent, anything up to its
\* size while fs::write is writing it.
BlobLen(f) ==
    {n \in 0..Size[f[3]] : /\ blobs[f] = "none" => n = 0
                           /\ blobs[f] = "full" => n = Size[f[3]]}

StatsScanEntry(f) ==
    /\ f \notin stSeen
    /\ stSeen' = stSeen \cup {f}
    /\ \E n \in BlobLen(f) : stTotal' = stTotal + n
    /\ UNCHANGED <<fileVars, used, now, nextVid, reqVars, ghostVars>>

StatsWrite ==
    /\ stSeen = FileIds
    /\ used' = stTotal
    /\ stSeen' = {}
    /\ stTotal' = 0
    /\ UNCHANGED <<fileVars, now, nextVid, reqVars, ghostVars>>

\* Wall-clock time advances.
Tick ==
    /\ now < MaxTime
    /\ now' = now + 1
    /\ UNCHANGED <<fileVars, used, nextVid, reqVars, statVars, ghostVars>>

-----------------------------------------------------------------------------
RequestStep(r) ==
    \/ BucketExists(r) \/ NewObject(r) \/ StoreDataBegin(r) \/ StoreDataEnd(r)
    \/ AppendRead(r) \/ AppendCreate(r) \/ AppendWrite(r) \/ AppendRegister(r)
    \/ UpdatePutStats(r)
    \/ DeleteVersionQuery(r) \/ DeleteVersionCreate(r) \/ DeleteVersionWrite(r)
    \/ DeleteVersionRegister(r)

NewRequest(r) ==
    \/ \E b \in Buckets, k \in Keys, d \in Data : PutObject(r, b, k, d)
    \/ \E b \in Buckets, k \in Keys : DeleteMarker(r, b, k)
    \/ \E b \in Buckets, k \in Keys, v \in 1..(nextVid - 1) : DeleteVersion(r, b, k, v)
    \/ \E b \in Buckets : CreateBucket(r, b)

Next ==
    \/ \E r \in Reqs : NewRequest(r) \/ RequestStep(r)
    \/ \E f \in FileIds : StatsScanEntry(f)
    \/ StatsWrite
    \/ Tick

Spec == Init /\ [][Next]_vars

-----------------------------------------------------------------------------
(* The tables as MetadataTables sees them.  From the read that starts a    *)
(* rewrite of table t until the rows are written back, t is the rows the   *)
(* rewriting task holds: append_to_parquet's rows read (and, at            *)
(* append_write, the file truncated), delete_object's rows selected.        *)
(* Otherwise t is its file.                                                *)

Rewriting(r, t) ==
    \/ pc[r] \in {"append_create", "append_write"} /\ tbl[r] = t
    \/ pc[r] \in {"dv_create", "dv_write"} /\ t = "objects"

TableView(t) ==
    IF \E r \in Reqs : Rewriting(r, t)
      THEN snap[CHOOSE r \in Reqs : Rewriting(r, t)]
      ELSE parquet[t]

Meta == INSTANCE MetadataTables
          WITH Rows <- ObjRow, Names <- Buckets,
               objects <- TableView("objects"), buckets <- TableView("buckets")

-----------------------------------------------------------------------------
(* Reads.  A read changes no state; what it returns is a function of the   *)
(* state it runs in.                                                       *)

\* The rows of key (b, k) in objects.parquet.
KeyRows(b, k) == {x \in parquet.objects : x.bucket = b /\ x.key = k}

\* get_object_metadata(b, k, None): the non-marker rows of the key, ORDER BY
\* created_at DESC LIMIT 1.  Rows created in the same millisecond tie, and
\* the query may return any of them: the set of possible answers.
GetObjectMetadata(b, k) ==
    LET live == {x \in KeyRows(b, k) : ~x.dm}
    IN  {x \in live : \A y \in live : y.created <= x.created}

-----------------------------------------------------------------------------
(* Properties                                                              *)

\* An acknowledged put or delete marker stays in objects.parquet (whenever
\* the file is whole) unless a versioned delete named its version id: the
\* read-truncate-rewrite of append_to_parquet must not lose rows.
AckedDurable ==
    ~torn.objects =>
        \A o \in acked :
            o.kind \in {"put", "dm"} /\ o.vid \notin dvIssued =>
                \E x \in parquet.objects : x.vid = o.vid

\* Every object version (not a delete marker) in objects.parquet belongs to a
\* bucket of buckets.parquet: put_object creates a missing bucket before it
\* stores the version, and nothing removes a bucket.
BucketIntegrity ==
    ~torn.objects /\ ~torn.buckets =>
        \A x \in parquet.objects : ~x.dm => x.bucket \in parquet.buckets

\* MetadataStore behaves as MetadataTables: seen through the rows of a
\* rewriting task, each table changes only by one whole call at a time.
\* store_object and a delete marker add exactly their row,
\* create_bucket its bucket, and a versioned delete removes exactly the rows
\* of (bucket, key, version id).  No row is lost, changed or duplicated on
\* the way through read, truncate and write-back.
MetadataRefinement == Meta!Spec

\* No object version in objects.parquet names a blob file that was never
\* written: store_object_data runs before store_object appends the row.
NoDanglingBlobRef ==
    \A x \in parquet.objects : ~x.dm => blobs[FileId(x)] # "none"

\* Every object version in objects.parquet names a whole blob file: a GET
\* that finds the version must find all of its bytes (the spec's blob is
\* immutable while referenced).
BlobsWhole ==
    \A x \in parquet.objects : ~x.dm => blobs[FileId(x)] = "full"

\* The bytes the blob files take on disk.
DiskBytes == MapThenSumSet(LAMBDA f : Size[f[3]], {f \in FileIds : blobs[f] = "full"})

\* The blob files never take more than max_storage_size: put_object checks
\* used_space_bytes + size against it before it writes.
WithinCapacity == DiskBytes <= MaxStorage

\* A head of a key whose newest version is a delete marker finds no object
\* (the spec: a read after a delete marker returns NoSuchKey).
DeletedKeyHidden ==
    \A b \in Buckets, k \in Keys :
        (\E m \in KeyRows(b, k) :
            m.dm /\ \A x \in KeyRows(b, k) \ {m} : x.created < m.created)
        => GetObjectMetadata(b, k) = {}

\* A head of a key with no delete marker returns its most recently created
\* version: read-your-writes for two puts of one key.
HeadReturnsNewest ==
    \A b \in Buckets, k \in Keys :
        (KeyRows(b, k) # {} /\ \A x \in KeyRows(b, k) : ~x.dm)
        => \A x \in GetObjectMetadata(b, k) :
               \A y \in KeyRows(b, k) : y.vid <= x.vid

=============================================================================
