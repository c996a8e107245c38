---------------------------- MODULE MetadataTables ----------------------------
(***************************************************************************)
(* What MetadataStore (storage/src/metadata.rs) promises of its two tables *)
(* when each call runs on its own: store_object, and delete_object without *)
(* a version id, append one row to objects; create_bucket appends one row  *)
(* to buckets; delete_object with a version id removes the rows of that    *)
(* version.  Each call is one step, and nothing else changes a table.      *)
(*                                                                         *)
(* StorageEngine, with a table that is being rewritten read through the   *)
(* rows the rewriting task holds, implements this specification when one  *)
(* task serves requests (StorageEngine's MetadataRefinement, checked by    *)
(* the storage_single run).  With two tasks it does not: a concurrent      *)
(* append is lost (lost_update).                                           *)
(***************************************************************************)

CONSTANTS
    Rows,       \* the rows objects.parquet can hold
    Names       \* bucket names

VARIABLES
    objects,    \* the rows of objects.parquet
    buckets     \* the names in buckets.parquet

tvars == <<objects, buckets>>

\* MetadataStore::new: init_parquet_files creates both files empty.
Init ==
    /\ objects = {}
    /\ buckets = {}

\* store_object, or delete_object's delete marker: append_to_parquet with a
\* batch of one row.
AppendObject(x) ==
    /\ x \in Rows
    /\ objects' = objects \cup {x}
    /\ UNCHANGED buckets

\* delete_object with a version id: every row but those of the version.
DeleteVersion(b, k, v) ==
    /\ objects' = {x \in objects : ~(x.bucket = b /\ x.key = k /\ x.vid = v)}
    /\ UNCHANGED buckets

\* create_bucket: append_to_parquet with the bucket's row.
CreateBucket(n) ==
    /\ n \in Names
    /\ buckets' = buckets \cup {n}
    /\ UNCHANGED objects

\* The row an append adds is in the table after it, so it is drawn from
\* objects' (buckets'); deleting a version the table does not hold changes
\* nothing, so the version is drawn from the rows held.
Next ==
    \/ \E x \in objects' : AppendObject(x)
    \/ \E x \in objects : DeleteVersion(x.bucket, x.key, x.vid)
    \/ \E n \in buckets' : CreateBucket(n)

Spec == Init /\ [][Next]_tvars
=============================================================================
