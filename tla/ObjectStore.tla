----------------------------- MODULE ObjectStore -----------------------------
(***************************************************************************)
(* RocksObjectStore (s3_rocksdb_gateway/src/storage.cpp) used by the       *)
(* gateway's worker threads at once.  Nothing in it locks: each RocksDB    *)
(* call is atomic, and threads interleave between the calls of one         *)
(* operation.  An action is one RocksDB call with the code up to the next. *)
(*                                                                         *)
(* db holds the three families of rows: bucket markers "B\0b", metadata    *)
(* "M\0b\0k" and data "D\0b\0k".  Of the metadata only the size is kept:   *)
(* etag is always "", and mtime and content type are only echoed.  Names   *)
(* have no NUL (the contains_nul checks reject such calls before any       *)
(* RocksDB call).  disk is what a restart recovers: with the write-ahead   *)
(* log a process crash loses nothing; with --disable_wal (or a machine     *)
(* crash without --sync) it loses every write since the last flush.        *)
(* list_objects_v2 is in ListObjects; get_object has no caller.            *)
(***************************************************************************)
EXTENDS Naturals

CONSTANTS
    Buckets,
    Keys,
    Payloads,       \* bodies of PUT requests
    SizeOf,         \* [Payloads -> bytes]
    Threads,        \* worker threads, each serving one request at a time
    WritesSurvive,  \* every applied write is on disk
    None            \* no row

ASSUME SizeAssumption == SizeOf \in [Payloads -> Nat]
ASSUME NoneAssumption == None \notin Payloads /\ None \notin Nat
ASSUME SurviveAssumption == WritesSurvive \in BOOLEAN

Objects == Buckets \X Keys

VARIABLES
    db,             \* rows as reads see them
    disk,           \* rows a restart recovers
    call,           \* per thread: the operation it is in
    unguarded       \* history: buckets that took a PUT while their marker was
                    \* absent or a delete_bucket was past its emptiness check

vars == <<db, disk, call, unguarded>>

Rows == [buckets : SUBSET Buckets,
         meta : [Objects -> Nat \union {None}],
         data : [Objects -> Payloads \union {None}]]

NoRows == [buckets |-> {}, meta |-> [o \in Objects |-> None], data |-> [o \in Objects |-> None]]

Replies == {"none", "ok", "NoSuchBucket", "NoSuchKey", "BucketNotEmpty", "InternalError"}

(* The thread is between requests; reply is the outcome of the last one. *)
Idle(reply) == [op |-> "idle", at |-> "idle", b |-> None, k |-> None, d |-> None, reply |-> reply]

(* The first RocksDB call of each operation. *)
FirstCall ==
    [create_bucket |-> "get_marker", bucket_exists |-> "exists", delete_bucket |-> "exists",
     put_object |-> "write_object", head_object |-> "exists", get_object_data |-> "get_data",
     delete_object |-> "exists"]

(* The call that follows a successful bucket_exists inside another operation. *)
AfterExists ==
    [delete_bucket |-> "seek_meta", head_object |-> "get_meta", delete_object |-> "erase_object"]

Init ==
    /\ db = NoRows
    /\ disk = NoRows
    /\ call = [t \in Threads |-> Idle("none")]
    /\ unguarded = {}

-----------------------------------------------------------------------------
At(t, place) == call[t].at = place

Obj(t) == <<call[t].b, call[t].k>>

Goto(t, place) == call' = [call EXCEPT ![t].at = place]

Return(t, reply) == call' = [call EXCEPT ![t] = Idle(reply)]

(* db_->Write, Put or Delete: one atomic change of rows. *)
Commit(rows) ==
    /\ db' = rows
    /\ disk' = IF WritesSurvive THEN rows ELSE disk

ReadOnly == UNCHANGED <<db, disk, unguarded>>

BucketEmpty(b) == \A k \in Keys : db.meta[<<b, k>>] = None

(* A request reaches the thread. *)
Begin(t, op, b, k, d) ==
    /\ At(t, "idle")
    /\ call' = [call EXCEPT ![t] =
                  [op |-> op, at |-> FirstCall[op], b |-> b, k |-> k, d |-> d, reply |-> "none"]]
    /\ ReadOnly

BucketRequest(t) ==
    \E op \in {"create_bucket", "bucket_exists", "delete_bucket"}, b \in Buckets :
        Begin(t, op, b, None, None)

ObjectRequest(t) ==
    \E op \in {"head_object", "get_object_data", "delete_object"}, b \in Buckets, k \in Keys :
        Begin(t, op, b, k, None)

PutRequest(t) ==
    \E b \in Buckets, k \in Keys, d \in Payloads : Begin(t, "put_object", b, k, d)

(* bucket_exists, alone or as the first part of another operation. *)
BucketExists(t) ==
    /\ At(t, "exists")
    /\ \/ /\ call[t].b \notin db.buckets
          /\ Return(t, "NoSuchBucket")
       \/ /\ call[t].b \in db.buckets
          /\ IF call[t].op = "bucket_exists"
             THEN Return(t, "ok")
             ELSE Goto(t, AfterExists[call[t].op])
    /\ ReadOnly

(* create_bucket: Get of the marker, then Put if it was absent. *)
CreateBucketGet(t) ==
    /\ At(t, "get_marker")
    /\ IF call[t].b \in db.buckets THEN Return(t, "ok") ELSE Goto(t, "put_marker")
    /\ ReadOnly

CreateBucketPut(t) ==
    /\ At(t, "put_marker")
    /\ Commit([db EXCEPT !.buckets = @ \union {call[t].b}])
    /\ Return(t, "ok")
    /\ UNCHANGED unguarded

(* Faulty variant: the emptiness check is left out. *)
DeleteBucketSeek_NoCheck(t) ==
    /\ At(t, "seek_meta")
    /\ Goto(t, "drop_marker")
    /\ ReadOnly

(* delete_bucket: after bucket_exists, Seek for a metadata row; then Delete. *)
DeleteBucketSeek(t) ==
    /\ At(t, "seek_meta")
    /\ IF BucketEmpty(call[t].b) THEN Goto(t, "drop_marker") ELSE Return(t, "BucketNotEmpty")
    /\ ReadOnly

DeleteBucketDrop(t) ==
    /\ At(t, "drop_marker")
    /\ Commit([db EXCEPT !.buckets = @ \ {call[t].b}])
    /\ Return(t, "ok")
    /\ UNCHANGED unguarded

(* Faulty variants: the two rows are swapped; the metadata row is left out. *)
PutObject_Swapped(t) ==
    /\ At(t, "write_object")
    /\ Commit([db EXCEPT !.data[Obj(t)] = SizeOf[call[t].d], !.meta[Obj(t)] = call[t].d])
    /\ Return(t, "ok")
    /\ UNCHANGED unguarded

PutObject_DataOnly(t) ==
    /\ At(t, "write_object")
    /\ Commit([db EXCEPT !.data[Obj(t)] = call[t].d])
    /\ Return(t, "ok")
    /\ UNCHANGED unguarded

(* put_object: one WriteBatch with the data and the metadata row, and no look  *)
(* at the bucket marker.                                                       *)
PutObject(t) ==
    /\ At(t, "write_object")
    /\ Commit([db EXCEPT !.data[Obj(t)] = call[t].d, !.meta[Obj(t)] = SizeOf[call[t].d]])
    /\ Return(t, "ok")
    /\ unguarded' =
          IF \/ call[t].b \notin db.buckets
             \/ \E s \in Threads : At(s, "drop_marker") /\ call[s].b = call[t].b
          THEN unguarded \union {call[t].b} ELSE unguarded

HeadObject(t) ==
    /\ At(t, "get_meta")
    /\ Return(t, IF db.meta[Obj(t)] = None THEN "NoSuchKey" ELSE "ok")
    /\ ReadOnly

GetObjectData(t) ==
    /\ At(t, "get_data")
    /\ Return(t, IF db.data[Obj(t)] = None THEN "NoSuchKey" ELSE "ok")
    /\ ReadOnly

(* Faulty variant: the data row is forgotten. *)
DeleteObject_MetaOnly(t) ==
    /\ At(t, "erase_object")
    /\ Commit([db EXCEPT !.meta[Obj(t)] = None])
    /\ Return(t, "ok")
    /\ UNCHANGED unguarded

(* delete_object: after bucket_exists, one WriteBatch; a missing key is no error. *)
DeleteObject(t) ==
    /\ At(t, "erase_object")
    /\ Commit([db EXCEPT !.data[Obj(t)] = None, !.meta[Obj(t)] = None])
    /\ Return(t, "ok")
    /\ UNCHANGED unguarded

(* Any RocksDB call may return a status that is neither OK nor NotFound. *)
RocksError(t) ==
    /\ ~At(t, "idle")
    /\ Return(t, "InternalError")
    /\ ReadOnly

Step(t) ==
    \/ BucketExists(t) \/ CreateBucketGet(t) \/ CreateBucketPut(t)
    \/ DeleteBucketSeek(t) \/ DeleteBucketDrop(t)
    \/ PutObject(t) \/ HeadObject(t) \/ GetObjectData(t) \/ DeleteObject(t)
    \/ RocksError(t)

(* RocksDB flushes its memtable. *)
Flush ==
    /\ disk' = db
    /\ UNCHANGED <<db, call, unguarded>>

(* The gateway dies and is started again on the same directory. *)
Crash ==
    /\ db' = disk
    /\ call' = [t \in Threads |-> Idle("none")]
    /\ UNCHANGED <<disk, unguarded>>

Next ==
    \/ \E t \in Threads : BucketRequest(t) \/ ObjectRequest(t) \/ PutRequest(t) \/ Step(t)
    \/ Flush
    \/ Crash

Spec == Init /\ [][Next]_vars

(* A worker thread runs a request to its end. *)
FairSpec == Spec /\ \A t \in Threads : WF_vars(Step(t))
-----------------------------------------------------------------------------
Calls ==
    [op : DOMAIN FirstCall \union {"idle"},
     at : {"idle", "exists", "get_marker", "put_marker", "seek_meta", "drop_marker",
           "write_object", "get_meta", "get_data", "erase_object"},
     b : Buckets \union {None}, k : Keys \union {None}, d : Payloads \union {None},
     reply : Replies]

(* The rows, and where each thread is in its operation (storage.cpp). *)
TypeOK ==
    /\ db \in Rows
    /\ disk \in Rows
    /\ call \in [Threads -> Calls]
    /\ unguarded \subseteq Buckets

Agree(rows) ==
    \A o \in Objects :
        rows.meta[o] = IF rows.data[o] = None THEN None ELSE SizeOf[rows.data[o]]

(* HEAD and LIST read the metadata row, GET the data row: they never disagree  *)
(* on whether an object is there or on its size, nor would they after a crash  *)
(* at any moment.  It rests on put_object and delete_object changing both rows *)
(* in one WriteBatch.                                                          *)
MetaMatchesData == Agree(db) /\ Agree(disk)

(* put_object does not look at the bucket, so an object may be in a bucket     *)
(* that HEAD, DELETE and LIST call missing.  That takes a PUT that began       *)
(* its write when the bucket was missing, or when a delete_bucket had already  *)
(* found it empty: no other interleaving, no failed call and no crash with     *)
(* lost writes leaves an object outside an existing bucket.                    *)
OrphansOnlyFromUnguardedPut ==
    \A b \in Buckets \ (db.buckets \union unguarded) : BucketEmpty(b)

ObjectsOf(rows) == [o \in Objects |-> [data |-> rows.data[o], size |-> rows.meta[o]]]

Abstract == INSTANCE BlobStore WITH objects <- ObjectsOf(db), stable <- ObjectsOf(disk)

(* Seen as objects, the rows behave as BlobStore says: one object changes at   *)
(* a time and as a whole, bucket operations change none, and a crash takes all *)
(* of them to one earlier moment.                                              *)
ImplementsBlobStore == Abstract!Spec

(* README.md: "DeleteBucket (only if empty)".  The bucket is empty at the      *)
(* moment delete_bucket removes its marker.                                    *)
DeleteBucketOnlyIfEmpty ==
    [][\A t \in Threads : DeleteBucketDrop(t) => BucketEmpty(call[t].b)]_vars
=============================================================================
