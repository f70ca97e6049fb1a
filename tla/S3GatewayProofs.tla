-------------------------- MODULE S3GatewayProofs --------------------------
(***************************************************************************)
(* Proofs about the object store and about the gateway in front of it, for *)
(* any set of buckets, keys, payloads and requests, any number of sessions *)
(* and threads, and writes that survive a crash or do not.                 *)
(***************************************************************************)
EXTENDS S3Gateway, TLAPS

-----------------------------------------------------------------------------
(* The object store. *)

(* A thread inside an operation has the arguments that operation was given. *)
CallsWellFormed ==
    \A t \in Threads :
        LET c == call[t]
        IN  /\ c.at # "idle" => c.b \in Buckets
            /\ c.at \in {"write_object", "get_data", "get_meta", "erase_object"} => c.k \in Keys
            /\ c.at = "write_object" => c.d \in Payloads
            /\ c.at = "exists" =>
                  c.op \in {"bucket_exists", "delete_bucket", "head_object", "delete_object"}
            /\ c.at = "exists" /\ c.op \in {"head_object", "delete_object"} => c.k \in Keys

TypeInv == TypeOK /\ CallsWellFormed

(* The rows of bucket b hold no object. *)
NoObjects(rows, b) == \A k \in Keys : rows.meta[<<b, k>>] = None

(* The inductive form of OrphansOnlyFromUnguardedPut.  A bucket that took no   *)
(* unguarded PUT is empty if its marker is missing, now or on disk, and while  *)
(* a delete_bucket is about to remove the marker.                              *)
Guarded ==
    \A b \in Buckets \ unguarded :
        /\ b \notin db.buckets => NoObjects(db, b)
        /\ b \notin disk.buckets => NoObjects(disk, b)
        /\ \A t \in Threads : At(t, "drop_marker") /\ call[t].b = b => NoObjects(db, b)
-----------------------------------------------------------------------------
(* Every reply leaves the thread between requests.                             *)
LEMMA IdleType == ASSUME NEW r \in Replies PROVE Idle(r) \in Calls /\ Idle(r).at = "idle"
  BY DEF Idle, Calls

(* A step that only moves one thread, to a well-formed call, keeps the types. *)
LEMMA ReturnType ==
  ASSUME TypeInv, NEW t \in Threads, NEW r \in Replies, Return(t, r)
  PROVE  /\ call' \in [Threads -> Calls]
         /\ CallsWellFormed'
  BY IdleType DEF TypeInv, TypeOK, CallsWellFormed, Return

(* The store starts well typed. *)
LEMMA InitTypeInv == Init => TypeInv
  <1> SUFFICES ASSUME Init PROVE TypeInv
    OBVIOUS
  <1>1. Idle("none") \in Calls /\ Idle("none").at = "idle"
    BY IdleType DEF Replies
  <1>2. NoRows \in Rows
    BY DEF NoRows, Rows
  <1>3. TypeOK
    BY <1>1, <1>2 DEF Init, TypeOK
  <1>4. CallsWellFormed
    BY <1>1 DEF Init, CallsWellFormed
  <1> QED
    BY <1>3, <1>4 DEF TypeInv

(* The rows that the four writing calls of storage.cpp produce are rows. *)
LEMMA CommitType ==
  ASSUME TypeInv, NEW t \in Threads
  PROVE  /\ At(t, "put_marker") => [db EXCEPT !.buckets = @ \union {call[t].b}] \in Rows
         /\ At(t, "drop_marker") => [db EXCEPT !.buckets = @ \ {call[t].b}] \in Rows
         /\ At(t, "write_object") =>
              [db EXCEPT !.data[Obj(t)] = call[t].d, !.meta[Obj(t)] = SizeOf[call[t].d]] \in Rows
         /\ At(t, "erase_object") =>
              [db EXCEPT !.data[Obj(t)] = None, !.meta[Obj(t)] = None] \in Rows
  <1>1. At(t, "put_marker") \/ At(t, "drop_marker") => call[t].b \in Buckets
    BY DEF TypeInv, CallsWellFormed, At
  <1>2. At(t, "write_object") \/ At(t, "erase_object") => Obj(t) \in Objects
    BY DEF TypeInv, CallsWellFormed, At, Obj, Objects
  <1>3. At(t, "write_object") => call[t].d \in Payloads /\ SizeOf[call[t].d] \in Nat
    BY SizeAssumption DEF TypeInv, CallsWellFormed, At
  <1>4. At(t, "put_marker") => [db EXCEPT !.buckets = @ \union {call[t].b}] \in Rows
    BY <1>1 DEF TypeInv, TypeOK, Rows
  <1>5. At(t, "drop_marker") => [db EXCEPT !.buckets = @ \ {call[t].b}] \in Rows
    BY <1>1 DEF TypeInv, TypeOK, Rows
  <1>6. At(t, "write_object") =>
          [db EXCEPT !.data[Obj(t)] = call[t].d, !.meta[Obj(t)] = SizeOf[call[t].d]] \in Rows
    BY <1>2, <1>3 DEF TypeInv, TypeOK, Rows
  <1>7. At(t, "erase_object") =>
          [db EXCEPT !.data[Obj(t)] = None, !.meta[Obj(t)] = None] \in Rows
    BY <1>2 DEF TypeInv, TypeOK, Rows
  <1> QED
    BY <1>4, <1>5, <1>6, <1>7

(* Every RocksDB call keeps the types. *)
LEMMA NextTypeInv == TypeInv /\ [Next]_vars => TypeInv'
  <1> SUFFICES ASSUME TypeInv, [Next]_vars PROVE TypeInv'
    OBVIOUS
  <1>1. ASSUME NEW t \in Threads, BucketRequest(t) PROVE TypeInv'
    BY <1>1 DEF TypeInv, TypeOK, CallsWellFormed, Calls, Replies, BucketRequest, Begin, FirstCall, ReadOnly
  <1>2. ASSUME NEW t \in Threads, ObjectRequest(t) PROVE TypeInv'
    BY <1>2 DEF TypeInv, TypeOK, CallsWellFormed, Calls, Replies, ObjectRequest, Begin, FirstCall, ReadOnly
  <1>3. ASSUME NEW t \in Threads, PutRequest(t) PROVE TypeInv'
    BY <1>3 DEF TypeInv, TypeOK, CallsWellFormed, Calls, Replies, PutRequest, Begin, FirstCall, ReadOnly
  <1>4. ASSUME NEW t \in Threads, NEW r \in Replies, Return(t, r), ReadOnly PROVE TypeInv'
    <2>1. call' \in [Threads -> Calls] /\ CallsWellFormed'
      BY <1>4, ReturnType
    <2> QED
      BY <1>4, <2>1 DEF TypeInv, TypeOK, ReadOnly
  <1>5. ASSUME NEW t \in Threads, NEW rows \in Rows, Commit(rows), Return(t, "ok"),
               unguarded' \subseteq Buckets
        PROVE  TypeInv'
    <2>1. call' \in [Threads -> Calls] /\ CallsWellFormed'
      BY <1>5, ReturnType DEF Replies
    <2> QED
      BY <1>5, <2>1 DEF TypeInv, TypeOK, Commit
  <1>6. ASSUME NEW t \in Threads, BucketExists(t) PROVE TypeInv'
    <2>1. CASE Return(t, "ok") \/ Return(t, "NoSuchBucket")
      BY <1>4, <1>6, <2>1 DEF BucketExists, Replies
    <2>2. CASE Goto(t, AfterExists[call[t].op]) /\ call[t].op # "bucket_exists"
      <3>1. call' \in [Threads -> Calls]
        BY <1>6, <2>2 DEF TypeInv, TypeOK, CallsWellFormed, Calls, BucketExists, Goto, At, AfterExists
      <3>2. CallsWellFormed'
        BY <1>6, <2>2 DEF TypeInv, TypeOK, CallsWellFormed, Calls, BucketExists, Goto, At, AfterExists
      <3> QED
        BY <1>6, <3>1, <3>2 DEF TypeInv, TypeOK, BucketExists, ReadOnly
    <2> QED
      BY <1>6, <2>1, <2>2 DEF BucketExists
  <1>7. ASSUME NEW t \in Threads, CreateBucketGet(t) PROVE TypeInv'
    <2>1. CASE Return(t, "ok")
      BY <1>4, <1>7, <2>1 DEF CreateBucketGet, Replies
    <2>2. CASE Goto(t, "put_marker")
      <3>1. call' \in [Threads -> Calls]
        BY <1>7, <2>2 DEF TypeInv, TypeOK, CallsWellFormed, Calls, CreateBucketGet, Goto, At
      <3>2. CallsWellFormed'
        BY <1>7, <2>2 DEF TypeInv, TypeOK, CallsWellFormed, Calls, CreateBucketGet, Goto, At
      <3> QED
        BY <1>7, <3>1, <3>2 DEF TypeInv, TypeOK, CreateBucketGet, ReadOnly
    <2> QED
      BY <1>7, <2>1, <2>2 DEF CreateBucketGet
  <1>8. ASSUME NEW t \in Threads, DeleteBucketSeek(t) PROVE TypeInv'
    <2>1. CASE Return(t, "BucketNotEmpty")
      BY <1>4, <1>8, <2>1 DEF DeleteBucketSeek, Replies
    <2>2. CASE Goto(t, "drop_marker")
      <3>1. call' \in [Threads -> Calls]
        BY <1>8, <2>2 DEF TypeInv, TypeOK, CallsWellFormed, Calls, DeleteBucketSeek, Goto, At
      <3>2. CallsWellFormed'
        BY <1>8, <2>2 DEF TypeInv, TypeOK, CallsWellFormed, Calls, DeleteBucketSeek, Goto, At
      <3> QED
        BY <1>8, <3>1, <3>2 DEF TypeInv, TypeOK, DeleteBucketSeek, ReadOnly
    <2> QED
      BY <1>8, <2>1, <2>2 DEF DeleteBucketSeek
  <1>9. ASSUME NEW t \in Threads,
               CreateBucketPut(t) \/ DeleteBucketDrop(t) \/ DeleteObject(t)
        PROVE  TypeInv'
    <2>1. unguarded' \subseteq Buckets
      BY <1>9 DEF CreateBucketPut, DeleteBucketDrop, DeleteObject, TypeInv, TypeOK
    <2>2. CASE CreateBucketPut(t)
      BY <1>5, <2>1, <2>2, CommitType DEF CreateBucketPut
    <2>3. CASE DeleteBucketDrop(t)
      BY <1>5, <2>1, <2>3, CommitType DEF DeleteBucketDrop
    <2>4. CASE DeleteObject(t)
      BY <1>5, <2>1, <2>4, CommitType DEF DeleteObject
    <2> QED
      BY <1>9, <2>2, <2>3, <2>4
  <1>10. ASSUME NEW t \in Threads, PutObject(t) PROVE TypeInv'
    <2>1. unguarded' \subseteq Buckets
      BY <1>10 DEF PutObject, TypeInv, TypeOK, CallsWellFormed, At
    <2> QED
      BY <1>5, <1>10, <2>1, CommitType DEF PutObject
  <1>11. ASSUME NEW t \in Threads, HeadObject(t) \/ GetObjectData(t) \/ RocksError(t)
         PROVE  TypeInv'
    BY <1>4, <1>11 DEF HeadObject, GetObjectData, RocksError, Replies
  <1>12. CASE Flush
    BY <1>12 DEF Flush, TypeInv, TypeOK, CallsWellFormed
  <1>13. CASE Crash
    <2>1. Idle("none") \in Calls /\ Idle("none").at = "idle"
      BY IdleType DEF Replies
    <2> QED
      BY <1>13, <2>1 DEF Crash, TypeInv, TypeOK, CallsWellFormed
  <1>14. CASE UNCHANGED vars
    BY <1>14 DEF vars, TypeInv, TypeOK, CallsWellFormed
  <1> QED
    BY <1>1, <1>2, <1>3, <1>6, <1>7, <1>8, <1>9, <1>10, <1>11, <1>12, <1>13, <1>14 DEF Next, Step

(* The rows and the threads' calls keep their types (storage.cpp). *)
THEOREM TypeCorrect == Spec => []TypeOK
  <1>1. TypeInv => TypeOK
    BY DEF TypeInv
  <1> QED
    BY InitTypeInv, NextTypeInv, <1>1, PTL DEF Spec
(* The types hold throughout. *)
LEMMA TypeInvAlways == Spec => []TypeInv
  BY InitTypeInv, NextTypeInv, PTL DEF Spec
-----------------------------------------------------------------------------
(* Which steps change rows, and how: everything else leaves db and disk alone. *)
LEMMA RowSteps ==
  ASSUME TypeInv, [Next]_vars
  PROVE  \/ UNCHANGED <<db, disk>>
         \/ \E t \in Threads : \/ CreateBucketPut(t) \/ DeleteBucketDrop(t)
                               \/ PutObject(t) \/ DeleteObject(t)
         \/ Flush
         \/ Crash
  BY DEF Next, Step, vars, ReadOnly, BucketRequest, ObjectRequest, PutRequest, Begin,
         BucketExists, CreateBucketGet, DeleteBucketSeek, HeadObject, GetObjectData, RocksError

(* An empty store has matching rows. *)
LEMMA InitMeta == Init => MetaMatchesData
  BY DEF Init, MetaMatchesData, Agree, NoRows

(* Every call and every crash keeps the two rows of an object in agreement. *)
LEMMA NextMeta == TypeInv /\ MetaMatchesData /\ [Next]_vars => MetaMatchesData'
  <1> SUFFICES ASSUME TypeInv, MetaMatchesData, [Next]_vars PROVE MetaMatchesData'
    OBVIOUS
  <1>1. ASSUME NEW rows, Agree(rows), Commit(rows) PROVE MetaMatchesData'
    BY <1>1 DEF MetaMatchesData, Commit, Agree
  <1>2. ASSUME NEW t \in Threads, CreateBucketPut(t) \/ DeleteBucketDrop(t)
        PROVE  MetaMatchesData'
    <2>1. /\ Agree([db EXCEPT !.buckets = @ \union {call[t].b}])
          /\ Agree([db EXCEPT !.buckets = @ \ {call[t].b}])
      BY DEF MetaMatchesData, Agree, TypeInv, TypeOK, Rows
    <2> QED
      BY <1>1, <1>2, <2>1 DEF CreateBucketPut, DeleteBucketDrop
  <1>3. ASSUME NEW t \in Threads, PutObject(t) PROVE MetaMatchesData'
    <2>1. call[t].d \in Payloads /\ Obj(t) \in Objects
      BY <1>3 DEF PutObject, At, TypeInv, CallsWellFormed, Obj, Objects
    <2>2. Agree([db EXCEPT !.data[Obj(t)] = call[t].d, !.meta[Obj(t)] = SizeOf[call[t].d]])
      BY <2>1, NoneAssumption DEF MetaMatchesData, Agree, TypeInv, TypeOK, Rows
    <2> QED
      BY <1>1, <1>3, <2>2 DEF PutObject
  <1>4. ASSUME NEW t \in Threads, DeleteObject(t) PROVE MetaMatchesData'
    <2>1. Agree([db EXCEPT !.data[Obj(t)] = None, !.meta[Obj(t)] = None])
      BY DEF MetaMatchesData, Agree, TypeInv, TypeOK, Rows
    <2> QED
      BY <1>1, <1>4, <2>1 DEF DeleteObject
  <1>5. CASE Flush \/ Crash \/ UNCHANGED <<db, disk>>
    BY <1>5 DEF Flush, Crash, MetaMatchesData, Agree
  <1> QED
    BY RowSteps, <1>2, <1>3, <1>4, <1>5

(* HEAD and LIST agree with GET on every object, and would after a crash at    *)
(* any moment: put_object and delete_object change both rows in one batch.     *)
THEOREM MetaAlwaysMatchesData == Spec => []MetaMatchesData
  BY TypeInvAlways, InitMeta, NextMeta, PTL DEF Spec
-----------------------------------------------------------------------------
(* An empty store has no stranded objects. *)
LEMMA InitGuarded == Init => Guarded
  BY DEF Init, Guarded, NoRows, NoObjects, Objects, At, Idle

(* Only an unguarded PUT strands an object. *)
LEMMA NextGuarded == TypeInv /\ Guarded /\ [Next]_vars => Guarded'
  <1> SUFFICES ASSUME TypeInv, Guarded, [Next]_vars PROVE Guarded'
    OBVIOUS
  <1>1. ASSUME UNCHANGED <<db, disk, unguarded>>,
               \A t \in Threads :
                  call'[t].at = "drop_marker" =>
                     \/ call[t].at = "drop_marker" /\ call[t].b = call'[t].b
                     \/ BucketEmpty(call'[t].b)
        PROVE  Guarded'
    BY <1>1 DEF Guarded, NoObjects, BucketEmpty, At
  <1>2. ASSUME NEW t \in Threads, NEW place, place # "drop_marker", Goto(t, place), ReadOnly
        PROVE  Guarded'
    BY <1>1, <1>2 DEF Goto, ReadOnly, TypeInv, TypeOK, Calls
  <1>3. ASSUME NEW t \in Threads, NEW r \in Replies, Return(t, r), ReadOnly PROVE Guarded'
    BY <1>1, <1>3 DEF Return, Idle, ReadOnly, TypeInv, TypeOK
  <1>4. ASSUME NEW t \in Threads, BucketRequest(t) \/ ObjectRequest(t) \/ PutRequest(t)
        PROVE  Guarded'
    BY <1>1, <1>4 DEF BucketRequest, ObjectRequest, PutRequest, Begin, FirstCall, ReadOnly, TypeInv, TypeOK
  <1>5. ASSUME NEW t \in Threads, BucketExists(t) PROVE Guarded'
    <2>1. CASE Return(t, "ok") \/ Return(t, "NoSuchBucket")
      BY <1>3, <1>5, <2>1 DEF BucketExists, Replies
    <2>2. CASE Goto(t, AfterExists[call[t].op]) /\ call[t].op # "bucket_exists"
      <3>1. AfterExists[call[t].op] # "drop_marker"
        BY <1>5, <2>2 DEF BucketExists, At, TypeInv, CallsWellFormed, AfterExists
      <3> QED
        BY <1>2, <1>5, <2>2, <3>1 DEF BucketExists
    <2> QED
      BY <1>5, <2>1, <2>2 DEF BucketExists
  <1>6. ASSUME NEW t \in Threads, CreateBucketGet(t) PROVE Guarded'
    <2>1. CASE Return(t, "ok")
      BY <1>3, <1>6, <2>1 DEF CreateBucketGet, Replies
    <2>2. CASE Goto(t, "put_marker")
      BY <1>2, <1>6, <2>2 DEF CreateBucketGet
    <2> QED
      BY <1>6, <2>1, <2>2 DEF CreateBucketGet
  <1>7. ASSUME NEW t \in Threads, DeleteBucketSeek(t) PROVE Guarded'
    <2>1. CASE Return(t, "BucketNotEmpty")
      BY <1>3, <1>7, <2>1 DEF DeleteBucketSeek, Replies
    <2>2. CASE BucketEmpty(call[t].b) /\ Goto(t, "drop_marker")
      BY <1>1, <1>7, <2>2 DEF DeleteBucketSeek, Goto, ReadOnly, TypeInv, TypeOK, Calls
    <2> QED
      BY <1>7, <2>1, <2>2 DEF DeleteBucketSeek
  <1>8. ASSUME NEW t \in Threads, CreateBucketPut(t) PROVE Guarded'
    BY <1>8 DEF CreateBucketPut, Commit, Return, Idle, Guarded, NoObjects, At, TypeInv, TypeOK, Rows
  <1>9. ASSUME NEW t \in Threads, DeleteBucketDrop(t) PROVE Guarded'
    BY <1>9 DEF DeleteBucketDrop, Commit, Return, Idle, Guarded, NoObjects, At, TypeInv, TypeOK, Rows
  <1>10. ASSUME NEW t \in Threads, PutObject(t) PROVE Guarded'
    <2>1. call[t].b \in Buckets /\ call[t].k \in Keys
      BY <1>10 DEF PutObject, At, TypeInv, CallsWellFormed
    <2>2. db' = [db EXCEPT !.data[Obj(t)] = call[t].d, !.meta[Obj(t)] = SizeOf[call[t].d]]
      BY <1>10 DEF PutObject, Commit
    <2>3. db'.buckets = db.buckets
      BY <2>2 DEF TypeInv, TypeOK, Rows
    <2>4. \A b \in Buckets : b # call[t].b /\ NoObjects(db, b) => NoObjects(db', b)
      BY <2>2 DEF TypeInv, TypeOK, Rows, NoObjects, Obj, Objects
    <2>5. disk' = disk \/ disk' = db'
      BY <1>10 DEF PutObject, Commit
    <2>6. \A s \in Threads : call'[s].at = "drop_marker" =>
             call[s].at = "drop_marker" /\ call'[s].b = call[s].b
      BY <1>10 DEF PutObject, Return, Idle, TypeInv, TypeOK
    <2>7. unguarded \subseteq unguarded'
      BY <1>10 DEF PutObject
    <2>8. call[t].b \notin unguarded' =>
             /\ call[t].b \in db.buckets
             /\ \A s \in Threads : ~(call[s].at = "drop_marker" /\ call[s].b = call[t].b)
      BY <1>10 DEF PutObject, At
    <2>9. ASSUME NEW b \in Buckets, b \notin unguarded'
          PROVE  /\ b \notin db'.buckets => NoObjects(db', b)
                 /\ b \notin disk'.buckets => NoObjects(disk', b)
                 /\ \A s \in Threads : call'[s].at = "drop_marker" /\ call'[s].b = b => NoObjects(db', b)
      <3>1. /\ b \notin db.buckets => NoObjects(db, b)
            /\ b \notin disk.buckets => NoObjects(disk, b)
            /\ \A s \in Threads : call[s].at = "drop_marker" /\ call[s].b = b => NoObjects(db, b)
        BY <2>7, <2>9 DEF Guarded, At
      <3>2. b \notin db'.buckets => NoObjects(db', b)
        BY <2>3, <2>4, <2>8, <2>9, <3>1
      <3>3. b \notin disk'.buckets => NoObjects(disk', b)
        BY <2>5, <3>1, <3>2
      <3>4. \A s \in Threads : call'[s].at = "drop_marker" /\ call'[s].b = b => NoObjects(db', b)
        BY <2>4, <2>6, <2>8, <2>9, <3>1
      <3> QED
        BY <3>2, <3>3, <3>4
    <2> QED
      BY <2>9 DEF Guarded, At, NoObjects
  <1>11. ASSUME NEW t \in Threads, DeleteObject(t) PROVE Guarded'
    <2>1. db' = [db EXCEPT !.data[Obj(t)] = None, !.meta[Obj(t)] = None]
      BY <1>11 DEF DeleteObject, Commit
    <2>2. db'.buckets = db.buckets /\ \A b \in Buckets : NoObjects(db, b) => NoObjects(db', b)
      BY <2>1 DEF TypeInv, TypeOK, Rows, NoObjects, Objects
    <2>3. disk' = disk \/ disk' = db'
      BY <1>11 DEF DeleteObject, Commit
    <2>4. \A s \in Threads : call'[s].at = "drop_marker" =>
             call[s].at = "drop_marker" /\ call'[s].b = call[s].b
      BY <1>11 DEF DeleteObject, Return, Idle, TypeInv, TypeOK
    <2>5. unguarded' = unguarded
      BY <1>11 DEF DeleteObject
    <2> QED
      BY <2>2, <2>3, <2>4, <2>5 DEF Guarded, At, NoObjects
  <1>12. ASSUME NEW t \in Threads, HeadObject(t) \/ GetObjectData(t) \/ RocksError(t)
         PROVE  Guarded'
    BY <1>3, <1>12 DEF HeadObject, GetObjectData, RocksError, Replies
  <1>13. CASE Flush
    BY <1>13 DEF Flush, Guarded, NoObjects, At
  <1>14. CASE Crash
    BY <1>14 DEF Crash, Guarded, NoObjects, At, Idle
  <1>15. CASE UNCHANGED vars
    BY <1>15 DEF vars, Guarded, NoObjects, At
  <1> QED
    BY <1>4, <1>5, <1>6, <1>7, <1>8, <1>9, <1>10, <1>11, <1>12, <1>13, <1>14, <1>15 DEF Next, Step

(* Only an unguarded PUT, one into a missing bucket or behind the back of a    *)
(* delete_bucket, leaves an object outside an existing bucket.                 *)
THEOREM OrphansAreUnguarded == Spec => []OrphansOnlyFromUnguardedPut
  <1>1. Guarded => OrphansOnlyFromUnguardedPut
    BY DEF Guarded, OrphansOnlyFromUnguardedPut, NoObjects, BucketEmpty
  <1> QED
    BY TypeInvAlways, InitGuarded, NextGuarded, <1>1, PTL DEF Spec
-----------------------------------------------------------------------------
(* An empty store is an empty BlobStore. *)
LEMMA InitRefines == Init => Abstract!Init
  BY DEF Init, Abstract!Init, Abstract!Absent, ObjectsOf, NoRows

(* Every call is a step of BlobStore or none. *)
LEMMA NextRefines == TypeInv /\ [Next]_vars => [Abstract!Next]_(Abstract!vars)
  <1> SUFFICES ASSUME TypeInv, [Next]_vars PROVE [Abstract!Next]_(Abstract!vars)
    OBVIOUS
  <1>1. ASSUME NEW rows, Commit(rows) PROVE Abstract!Apply(ObjectsOf(rows))
    BY <1>1 DEF Commit, Abstract!Apply, ObjectsOf
  <1>2. ASSUME NEW t \in Threads, CreateBucketPut(t) \/ DeleteBucketDrop(t)
        PROVE  UNCHANGED ObjectsOf(db) /\ (UNCHANGED ObjectsOf(disk) \/ ObjectsOf(disk)' = ObjectsOf(db))
    BY <1>2 DEF CreateBucketPut, DeleteBucketDrop, Commit, ObjectsOf, TypeInv, TypeOK, Rows
  <1>3. ASSUME NEW t \in Threads, PutObject(t) PROVE Abstract!Put(Obj(t), call[t].d)
    <2>1. Obj(t) \in Objects
      BY <1>3 DEF PutObject, At, TypeInv, CallsWellFormed, Obj, Objects
    <2>2. ObjectsOf([db EXCEPT !.data[Obj(t)] = call[t].d, !.meta[Obj(t)] = SizeOf[call[t].d]])
             = [ObjectsOf(db) EXCEPT ![Obj(t)] = Abstract!Blob(call[t].d)]
      BY <2>1 DEF ObjectsOf, Abstract!Blob, TypeInv, TypeOK, Rows
    <2> QED
      BY <1>1, <1>3, <2>2 DEF PutObject, Abstract!Put
  <1>4. ASSUME NEW t \in Threads, DeleteObject(t) PROVE Abstract!Delete(Obj(t))
    <2>1. Obj(t) \in Objects
      BY <1>4 DEF DeleteObject, At, TypeInv, CallsWellFormed, Obj, Objects
    <2>2. ObjectsOf([db EXCEPT !.data[Obj(t)] = None, !.meta[Obj(t)] = None])
             = [ObjectsOf(db) EXCEPT ![Obj(t)] = Abstract!Absent]
      BY <2>1 DEF ObjectsOf, Abstract!Absent, TypeInv, TypeOK, Rows
    <2> QED
      BY <1>1, <1>4, <2>2 DEF DeleteObject, Abstract!Delete
  <1>5. CASE Flush
    BY <1>5 DEF Flush, Abstract!Next, Abstract!Persist, ObjectsOf
  <1>6. CASE Crash
    BY <1>6 DEF Crash, Abstract!Next, Abstract!Crash, ObjectsOf
  <1>7. CASE UNCHANGED <<db, disk>>
    BY <1>7 DEF Abstract!vars, ObjectsOf
  <1>8. ASSUME NEW t \in Threads, PutObject(t) PROVE Obj(t) \in Objects /\ call[t].d \in Payloads
    BY <1>8 DEF PutObject, At, TypeInv, CallsWellFormed, Obj, Objects
  <1>9. ASSUME NEW t \in Threads, DeleteObject(t) PROVE Obj(t) \in Objects
    BY <1>9 DEF DeleteObject, At, TypeInv, CallsWellFormed, Obj, Objects
  <1> QED
    BY RowSteps, <1>2, <1>3, <1>4, <1>5, <1>6, <1>7, <1>8, <1>9 DEF Abstract!Next, Abstract!Persist, Abstract!vars

(* The threads of storage.cpp, interleaving at every RocksDB call, implement   *)
(* the store that changes one whole object at a time.                          *)
THEOREM StoreImplementsBlobStore == Spec => ImplementsBlobStore
  BY TypeInvAlways, InitRefines, NextRefines, PTL DEF Spec, ImplementsBlobStore, Abstract!Spec

-----------------------------------------------------------------------------
(* The gateway as a whole. *)

(* The operations that may be at each place of storage.cpp. *)
OpsAt ==
    [exists |-> {"bucket_exists", "delete_bucket", "head_object", "delete_object"},
     get_marker |-> {"create_bucket"}, put_marker |-> {"create_bucket"},
     seek_meta |-> {"delete_bucket"}, drop_marker |-> {"delete_bucket"},
     write_object |-> {"put_object"}, get_meta |-> {"head_object"},
     get_data |-> {"get_object_data"}, erase_object |-> {"delete_object"}]

(* A session inside an operation serves the request it read, has not answered  *)
(* it, and is where the operation of that request leads.                       *)
Serving(t) ==
    /\ request[t] \in Requests
    /\ response[t] = None
    /\ Refusal(request[t]) = 0
    /\ TargetOf(request[t]).bucket # NoBucket
    /\ call[t].op = StoreOp(request[t])
    /\ call[t].b = TargetOf(request[t]).bucket
    /\ call[t].k = IF TargetOf(request[t]).key = <<>> THEN None ELSE TargetOf(request[t]).key
    /\ call[t].reply = "none"
    /\ call[t].at \in DOMAIN OpsAt
    /\ call[t].op \in OpsAt[call[t].at]

SessionInv ==
    /\ request \in [Threads -> Requests \union {None}]
    /\ response = [t \in Threads |-> response[t]]
    /\ held = [t \in Threads |-> held[t]]
    /\ \A t \in Threads :
          /\ request[t] = None => response[t] = None /\ call[t].reply = "none"
          /\ call[t].at # "idle" => Serving(t)

GatewayInv == TypeInv /\ SessionInv
-----------------------------------------------------------------------------
(* The operations of a request that is not refused. *)
LEMMA StoreOps ==
    ASSUME NEW req, Refusal(req) = 0
    PROVE  /\ TargetOf(req).bucket = NoBucket => StoreOp(req) = "list_buckets" /\ req.method = "GET"
           /\ TargetOf(req).bucket # NoBucket /\ TargetOf(req).key = <<>> =>
                 \/ req.method = "PUT" /\ StoreOp(req) = "create_bucket"
                 \/ req.method = "HEAD" /\ StoreOp(req) = "bucket_exists"
                 \/ req.method = "DELETE" /\ StoreOp(req) = "delete_bucket"
                 \/ req.method = "GET" /\ StoreOp(req) = "list_objects_v2"
           /\ TargetOf(req).bucket # NoBucket /\ TargetOf(req).key # <<>> =>
                 \/ req.method = "PUT" /\ StoreOp(req) = "put_object"
                 \/ req.method = "HEAD" /\ StoreOp(req) = "head_object"
                 \/ req.method = "DELETE" /\ StoreOp(req) = "delete_object"
                 \/ req.method = "GET" /\ StoreOp(req) = "get_object_data"
<1> DEFINE pt == TargetOf(req)
<1> HIDE DEF pt
<1>1. req.method \in (IF pt.bucket = NoBucket THEN {"GET"} ELSE DOMAIN BucketOps)
  BY DEF Refusal, pt
<1>2. DOMAIN BucketOps = {"PUT", "HEAD", "DELETE", "GET"}
  BY DEF BucketOps
<1>3. StoreOp(req) = IF pt.bucket = NoBucket THEN "list_buckets"
                     ELSE IF pt.key = <<>> THEN BucketOps[req.method]
                     ELSE ObjectOps[req.method]
  BY DEF StoreOp, pt
<1>4. /\ pt.bucket = NoBucket => StoreOp(req) = "list_buckets" /\ req.method = "GET"
      /\ pt.bucket # NoBucket /\ pt.key = <<>> =>
            \/ req.method = "PUT" /\ StoreOp(req) = "create_bucket"
            \/ req.method = "HEAD" /\ StoreOp(req) = "bucket_exists"
            \/ req.method = "DELETE" /\ StoreOp(req) = "delete_bucket"
            \/ req.method = "GET" /\ StoreOp(req) = "list_objects_v2"
      /\ pt.bucket # NoBucket /\ pt.key # <<>> =>
            \/ req.method = "PUT" /\ StoreOp(req) = "put_object"
            \/ req.method = "HEAD" /\ StoreOp(req) = "head_object"
            \/ req.method = "DELETE" /\ StoreOp(req) = "delete_object"
            \/ req.method = "GET" /\ StoreOp(req) = "get_object_data"
  BY <1>1, <1>2, <1>3 DEF BucketOps, ObjectOps
<1> QED BY <1>4 DEF pt

(* handle's call is one of the calls ObjectStore describes. *)
LEMMA CallIsRequest ==
    ASSUME GatewayInv, NEW t \in Threads, Call(t)
    PROVE  /\ BucketRequest(t) \/ ObjectRequest(t) \/ PutRequest(t)
           /\ request[t] \in Requests
           /\ TargetOf(request[t]).bucket # NoBucket
<1> DEFINE req == request[t]
           op == StoreOp(req)
           pt == TargetOf(req)
<1>1. /\ req \in Requests /\ Refusal(req) = 0 /\ op \in DOMAIN FirstCall
      /\ Begin(t, op, pt.bucket, IF pt.key = <<>> THEN None ELSE pt.key,
               IF op = "put_object" THEN req.body ELSE None)
  BY DEF Call, Waiting, GatewayInv, SessionInv
<1> HIDE DEF req, op, pt
<1>2. op # "list_buckets" /\ op # "list_objects_v2"
  BY <1>1 DEF FirstCall
<1>3. pt.bucket # NoBucket
  BY <1>1, <1>2, StoreOps DEF op, pt
<1>4. /\ pt.bucket \in Buckets /\ pt.key \in Keys \union {<<>>}
      /\ op = "put_object" => req.body \in Payloads
  BY <1>1, <1>3, RequestsAssumption DEF op, pt
<1>5. CASE pt.key = <<>>
  <2>1. op \in {"create_bucket", "bucket_exists", "delete_bucket"}
    BY <1>1, <1>2, <1>3, <1>5, StoreOps DEF op, pt
  <2> QED BY <1>1, <1>4, <1>5, <2>1, <1>3 DEF BucketRequest, req, pt
<1>6. CASE pt.key # <<>>
  <2>1. op \in {"put_object", "head_object", "delete_object", "get_object_data"}
    BY <1>1, <1>3, <1>6, StoreOps DEF op, pt
  <2>2. pt.key \in Keys
    BY <1>4, <1>6
  <2>3. CASE op = "put_object"
    BY <1>1, <1>3, <1>4, <1>6, <2>2, <2>3 DEF PutRequest, req, pt
  <2>4. CASE op # "put_object"
    BY <1>1, <1>3, <1>4, <1>6, <2>1, <2>2, <2>4 DEF ObjectRequest, req, pt
  <2> QED BY <2>3, <2>4
<1> QED BY <1>5, <1>6

-----------------------------------------------------------------------------
(* A RocksDB call ends the operation or leads to its next call. *)
LEMMA StepShape ==
    ASSUME GatewayInv, NEW t \in Threads, Step(t)
    PROVE  /\ call[t].at # "idle"
           /\ \/ \E r \in Replies \ {"none"} : Return(t, r)
              \/ \E place \in {"put_marker", "seek_meta", "drop_marker", "get_meta", "erase_object"} :
                    /\ Goto(t, place)
                    /\ call[t].op \in OpsAt[place]
<1>1. call[t].at # "idle"
  BY DEF Step, BucketExists, CreateBucketGet, CreateBucketPut, DeleteBucketSeek, DeleteBucketDrop,
         PutObject, HeadObject, GetObjectData, DeleteObject, RocksError, At
<1>2. call[t].at \in DOMAIN OpsAt /\ call[t].op \in OpsAt[call[t].at]
  BY <1>1 DEF GatewayInv, SessionInv, Serving
<1>3. CASE BucketExists(t)
  <2>1. CASE Return(t, "ok") \/ Return(t, "NoSuchBucket")
    BY <1>1, <2>1 DEF Replies
  <2>2. CASE Goto(t, AfterExists[call[t].op]) /\ call[t].op # "bucket_exists"
    <3>1. call[t].op \in {"delete_bucket", "head_object", "delete_object"}
      BY <1>2, <1>3, <2>2 DEF BucketExists, At, OpsAt
    <3> QED BY <1>1, <2>2, <3>1 DEF AfterExists, OpsAt
  <2> QED BY <1>3, <2>1, <2>2 DEF BucketExists
<1>4. CASE CreateBucketGet(t)
  BY <1>1, <1>2, <1>4 DEF CreateBucketGet, At, OpsAt, Replies
<1>5. CASE DeleteBucketSeek(t)
  BY <1>1, <1>2, <1>5 DEF DeleteBucketSeek, At, OpsAt, Replies
<1>6. CASE \/ CreateBucketPut(t) \/ DeleteBucketDrop(t) \/ PutObject(t) \/ HeadObject(t)
           \/ GetObjectData(t) \/ DeleteObject(t) \/ RocksError(t)
  BY <1>1, <1>6 DEF CreateBucketPut, DeleteBucketDrop, PutObject, HeadObject, GetObjectData,
                    DeleteObject, RocksError, Replies
<1> QED BY <1>3, <1>4, <1>5, <1>6 DEF Step

(* A step of the gateway is one of the store, or the session's return to       *)
(* reading.                                                                    *)
LEMMA StoreStep ==
    ASSUME GatewayInv, [GatewayNext]_gatewayVars
    PROVE  [Next]_vars \/ \E t \in Threads : Return(t, "none") /\ ReadOnly
<1>1. ASSUME NEW t \in Threads, OnRead(t) \/ Refuse(t) \/ List(t) PROVE UNCHANGED vars
  BY <1>1 DEF OnRead, Refuse, List
<1>2. ASSUME NEW t \in Threads, Call(t) PROVE Next
  BY <1>2, CallIsRequest DEF Next
<1>3. ASSUME NEW t \in Threads, Work(t) PROVE Next
  BY <1>3 DEF Work, Next
<1>4. ASSUME NEW t \in Threads, OnWrite(t) PROVE Return(t, "none") /\ ReadOnly
  BY <1>4 DEF OnWrite, Return, ReadOnly
<1>5. CASE Restart
  BY <1>5 DEF Restart, Next
<1>6. CASE UNCHANGED gatewayVars
  BY <1>6 DEF gatewayVars, vars
<1> QED BY <1>1, <1>2, <1>3, <1>4, <1>5, <1>6 DEF GatewayNext

(* A step of the gateway keeps the types of the store. *)
LEMMA StepTypeInv == GatewayInv /\ [GatewayNext]_gatewayVars => TypeInv'
<1> SUFFICES ASSUME GatewayInv, [GatewayNext]_gatewayVars PROVE TypeInv'
  OBVIOUS
<1>1. CASE [Next]_vars
  BY <1>1, NextTypeInv DEF GatewayInv
<1>2. ASSUME NEW t \in Threads, Return(t, "none"), ReadOnly PROVE TypeInv'
  <2>1. call' \in [Threads -> Calls] /\ CallsWellFormed'
    BY <1>2, ReturnType DEF GatewayInv, Replies
  <2> QED BY <1>2, <2>1 DEF GatewayInv, TypeInv, TypeOK, ReadOnly
<1> QED BY <1>1, <1>2, StoreStep

(* The gateway starts in the invariant. *)
LEMMA InitGatewayInv == GatewayInit => GatewayInv
<1> SUFFICES ASSUME GatewayInit PROVE GatewayInv
  OBVIOUS
<1>1. TypeInv
  BY InitTypeInv DEF GatewayInit
<1>2. SessionInv
  BY DEF GatewayInit, Init, Idle, SessionInv
<1> QED BY <1>1, <1>2 DEF GatewayInv

(* A session that is idle, or is as it was, keeps SessionInv. *)
LEMMA SessionSteps == GatewayInv /\ [GatewayNext]_gatewayVars => SessionInv'
<1> SUFFICES ASSUME GatewayInv, [GatewayNext]_gatewayVars PROVE SessionInv'
  OBVIOUS
<1>0. /\ request \in [Threads -> Requests \union {None}]
      /\ response = [t \in Threads |-> response[t]]
      /\ held = [t \in Threads |-> held[t]]
      /\ call \in [Threads -> Calls]
      /\ \A t \in Threads : request[t] = None => response[t] = None /\ call[t].reply = "none"
      /\ \A t \in Threads : call[t].at # "idle" => Serving(t)
  BY DEF GatewayInv, SessionInv, TypeInv, TypeOK
<1>w. Watch => held' = [t \in Threads |-> held'[t]]
  BY DEF Watch
<1>s. ASSUME NEW s \in Threads, call'[s] = call[s], request'[s] = request[s], response'[s] = response[s],
             call[s].at # "idle"
      PROVE  Serving(s)'
  BY <1>0, <1>s DEF Serving
<1>1. ASSUME NEW t \in Threads, OnRead(t) PROVE SessionInv'
  <2>1. call[t].at = "idle"
    BY <1>0, <1>1, RequestsAssumption DEF OnRead, Serving
  <2> QED BY <1>0, <1>w, <1>s, <1>1, <2>1 DEF OnRead, SessionInv, vars
<1>2. ASSUME NEW t \in Threads, Refuse(t) \/ List(t) PROVE SessionInv'
  <2>1. /\ call[t].at = "idle" /\ request[t] # None
        /\ \E r : response' = [response EXCEPT ![t] = r]
        /\ Watch /\ UNCHANGED <<vars, request>>
    BY <1>2 DEF Refuse, List, Waiting, Respond, At
  <2> QED BY <1>0, <1>w, <1>s, <2>1 DEF SessionInv, vars
<1>3. ASSUME NEW t \in Threads, Call(t) PROVE SessionInv'
  <2> DEFINE req == request[t]
             op == StoreOp(req)
             pt == TargetOf(req)
             k == IF pt.key = <<>> THEN None ELSE pt.key
             d == IF op = "put_object" THEN req.body ELSE None
  <2>1. /\ Waiting(t) /\ Refusal(req) = 0 /\ op \in DOMAIN FirstCall
        /\ Begin(t, op, pt.bucket, k, d)
        /\ Watch /\ UNCHANGED <<request, response>>
    BY <1>3 DEF Call
  <2>2. req \in Requests /\ pt.bucket # NoBucket
    BY <1>3, CallIsRequest
  <2> HIDE DEF op, pt, k, d
  <2>3. call' = [call EXCEPT ![t] = [op |-> op, at |-> FirstCall[op], b |-> pt.bucket, k |-> k, d |-> d,
                                     reply |-> "none"]]
    BY <2>1 DEF Begin
  <2>4. call'[t] = [op |-> op, at |-> FirstCall[op], b |-> pt.bucket, k |-> k, d |-> d, reply |-> "none"]
    BY <1>0, <2>3
  <2>5. FirstCall[op] \in DOMAIN OpsAt /\ op \in OpsAt[FirstCall[op]]
    BY <2>1 DEF FirstCall, OpsAt
  <2>6. Serving(t)'
    <3>1. /\ call'[t].op = op /\ call'[t].b = pt.bucket /\ call'[t].k = k
          /\ call'[t].reply = "none" /\ call'[t].at = FirstCall[op]
      BY <2>4
    <3>2. request'[t] = req /\ response'[t] = None
      BY <2>1 DEF Waiting
    <3> QED BY <2>1, <2>2, <2>5, <3>1, <3>2 DEF Serving, op, pt, k
  <2>7. \A s \in Threads \ {t} : call'[s] = call[s]
    BY <1>0, <2>3
  <2>8. request'[t] # None
    BY <2>1 DEF Waiting
  <2> QED BY <1>0, <1>w, <1>s, <2>1, <2>6, <2>7, <2>8 DEF SessionInv
<1>4. ASSUME NEW t \in Threads, Work(t) PROVE SessionInv'
  <2>0. Step(t) /\ Watch /\ UNCHANGED request
    BY <1>4 DEF Work
  <2>1. call[t].at # "idle" /\ Serving(t)
    BY <1>0, <2>0, StepShape
  <2>2. request[t] # None
    BY <2>1, RequestsAssumption DEF Serving
  <2>3. CASE \E r \in Replies \ {"none"} : Return(t, r)
    <3>1. call'[t].at = "idle" /\ \A s \in Threads \ {t} : call'[s] = call[s]
      BY <1>0, <2>3 DEF Return, Idle
    <3>2. \E r : response' = [response EXCEPT ![t] = r]
      BY <1>4, <3>1 DEF Work, Respond
    <3> QED BY <1>0, <1>w, <1>s, <2>0, <2>2, <3>1, <3>2 DEF SessionInv
  <2>4. ASSUME NEW place \in {"put_marker", "seek_meta", "drop_marker", "get_meta", "erase_object"},
               Goto(t, place), call[t].op \in OpsAt[place]
        PROVE  SessionInv'
    <3>1. /\ call'[t] = [call[t] EXCEPT !.at = place]
          /\ \A s \in Threads \ {t} : call'[s] = call[s]
      BY <1>0, <2>4 DEF Goto
    <3>2. /\ call'[t].at = place /\ call'[t].op = call[t].op /\ call'[t].b = call[t].b
          /\ call'[t].k = call[t].k /\ call'[t].reply = call[t].reply
      BY <1>0, <3>1 DEF Calls
    <3>3. UNCHANGED response
      BY <1>4, <3>2 DEF Work
    <3>4. place \in DOMAIN OpsAt
      BY <2>4 DEF OpsAt
    <3>5. Serving(t)'
      BY <2>0, <2>1, <2>4, <3>2, <3>3, <3>4 DEF Serving
    <3> QED BY <1>0, <1>w, <1>s, <2>0, <2>2, <3>1, <3>3, <3>5 DEF SessionInv
  <2> QED BY <2>0, <2>3, <2>4, StepShape
<1>5. ASSUME NEW t \in Threads, OnWrite(t) PROVE SessionInv'
  <2>1. call'[t].at = "idle" /\ call'[t].reply = "none" /\ \A s \in Threads \ {t} : call'[s] = call[s]
    BY <1>0, <1>5 DEF OnWrite, Idle
  <2> QED BY <1>0, <1>s, <1>5, <2>1 DEF SessionInv, OnWrite
<1>6. CASE Restart
  BY <1>0, <1>6 DEF Restart, Crash, Idle, SessionInv
<1>7. CASE UNCHANGED gatewayVars
  BY <1>0, <1>s, <1>7 DEF gatewayVars, SessionInv
<1> QED BY <1>1, <1>2, <1>3, <1>4, <1>5, <1>6, <1>7 DEF GatewayNext

(* The types, and what a session in an operation is doing, hold throughout. *)
THEOREM SessionsServe == GatewaySpec => []GatewayInv
<1>1. GatewayInv /\ [GatewayNext]_gatewayVars => GatewayInv'
  BY StepTypeInv, SessionSteps DEF GatewayInv
<1> QED BY <1>1, InitGatewayInv, PTL DEF GatewaySpec

-----------------------------------------------------------------------------
(* The gateway's objects, whatever its sessions do and whenever it crashes,    *)
(* are those of BlobStore: each request that writes changes one object as a    *)
(* whole (put_object, delete_object of storage.cpp), the others none.          *)
THEOREM GatewayImplementsBlobStore == GatewaySpec => ImplementsBlobStore
<1>1. GatewayInit => Abstract!Init
  BY InitRefines DEF GatewayInit
<1>2. ReadOnly => [Abstract!Next]_(Abstract!vars)
  BY DEF ReadOnly, Abstract!vars, ObjectsOf
<1>3. GatewayInv /\ [GatewayNext]_gatewayVars => [Abstract!Next]_(Abstract!vars)
  BY <1>2, StoreStep, NextRefines DEF GatewayInv
<1> QED BY <1>1, <1>3, SessionsServe, PTL DEF GatewaySpec, ImplementsBlobStore, Abstract!Spec

(* What holds of the store holds of it behind the gateway. *)
LEMMA GatewayGuarded == GatewaySpec => []Guarded
<1>1. GatewayInit => Guarded
  BY InitGuarded DEF GatewayInit
<1>2. ASSUME GatewayInv, Guarded, NEW t \in Threads, Return(t, "none"), ReadOnly PROVE Guarded'
  <2>1. \A s \in Threads : call'[s].at = "drop_marker" =>
           call[s].at = "drop_marker" /\ call'[s].b = call[s].b
    BY <1>2 DEF Return, Idle, GatewayInv, TypeInv, TypeOK
  <2> QED BY <1>2, <2>1 DEF Guarded, ReadOnly, At, NoObjects
<1>3. GatewayInv /\ Guarded /\ [GatewayNext]_gatewayVars => Guarded'
  BY <1>2, StoreStep, NextGuarded DEF GatewayInv
<1> QED BY <1>1, <1>3, SessionsServe, PTL DEF GatewaySpec

-----------------------------------------------------------------------------
(* The inductive form of RepliesWereTrue for one session: between the calls of *)
(* an operation, either what the first one saw still holds, or the reply that  *)
(* is coming was the right one at some earlier moment.                         *)
WasTrue(t) ==
    LET c == call[t]
        spoilt == c.b \in unguarded
    IN  /\ c.at = "erase_object" => "ok" \in held[t]
        /\ c.at = "drop_marker" => "ok" \in held[t] \/ spoilt
        /\ c.at = "seek_meta" => c.b \in db.buckets \/ "ok" \in held[t] \/ spoilt
        /\ c.at = "get_meta" => c.b \in db.buckets \/ "NoSuchKey" \in held[t] \/ spoilt
        /\ c.at = "idle" => \/ c.reply \in {"none", "InternalError"} \union held[t]
                            \/ TargetOf(request[t]).bucket \in unguarded

(* A bucket marker goes only in the last call of a delete_bucket. *)
LEMMA MarkerSteps ==
    ASSUME GatewayInv, NEW t \in Threads, Step(t)
    PROVE  /\ unguarded \subseteq unguarded'
           /\ \A b \in db.buckets \ db'.buckets : call[t].at = "drop_marker" /\ call[t].b = b
<1>0. db \in Rows
  BY DEF GatewayInv, TypeInv, TypeOK
<1>1. CASE DeleteBucketDrop(t)
  BY <1>0, <1>1 DEF DeleteBucketDrop, Commit, At, Rows
<1>2. CASE CreateBucketPut(t)
  BY <1>0, <1>2 DEF CreateBucketPut, Commit, Rows
<1>3. CASE PutObject(t)
  BY <1>0, <1>3 DEF PutObject, Commit, Rows
<1>4. CASE DeleteObject(t)
  BY <1>0, <1>4 DEF DeleteObject, Commit, Rows
<1>5. CASE ReadOnly
  BY <1>5 DEF ReadOnly
<1> QED BY <1>1, <1>2, <1>3, <1>4, <1>5
        DEF Step, BucketExists, CreateBucketGet, DeleteBucketSeek, HeadObject, GetObjectData, RocksError

(* The other sessions.  When the marker of a bucket goes, a HEAD or a DELETE   *)
(* in progress there had its answer: the bucket was empty.                     *)
LEMMA OthersWereTrue ==
    ASSUME GatewayInv, Guarded, NEW s \in Threads, WasTrue(s),
           call'[s] = call[s], request'[s] = request[s],
           unguarded \subseteq unguarded', held[s] \subseteq held'[s],
           \A b \in db.buckets \ db'.buckets :
              /\ \E t \in Threads : call[t].at = "drop_marker" /\ call[t].b = b
              /\ call[s].at # "idle" => ReplyAlone(call[s]) \in held'[s]
    PROVE  WasTrue(s)'
<1>1. ASSUME call[s].at \in {"seek_meta", "get_meta"}, call[s].b \in db.buckets \ db'.buckets,
             call[s].b \notin unguarded
      PROVE  call[s].at = "seek_meta" => "ok" \in held'[s]
  <2>1. BucketEmpty(call[s].b)
    BY <1>1 DEF Guarded, At, NoObjects, BucketEmpty, GatewayInv, TypeInv, CallsWellFormed
  <2>2. call[s].at = "seek_meta" => call[s].op = "delete_bucket"
    BY DEF GatewayInv, SessionInv, Serving, OpsAt
  <2> QED BY <1>1, <2>1, <2>2 DEF ReplyAlone
<1>2. ASSUME call[s].at \in {"seek_meta", "get_meta"}, call[s].b \in db.buckets \ db'.buckets,
             call[s].b \notin unguarded
      PROVE  call[s].at = "get_meta" => "NoSuchKey" \in held'[s]
  <2>1. call[s].b \in Buckets /\ NoObjects(db, call[s].b)
    BY <1>2 DEF Guarded, At, GatewayInv, TypeInv, CallsWellFormed
  <2>2. call[s].at = "get_meta" =>
          call[s].op = "head_object" /\ db.meta[<<call[s].b, call[s].k>>] = None
    BY <2>1 DEF NoObjects, GatewayInv, SessionInv, Serving, OpsAt, TypeInv, CallsWellFormed
  <2> QED BY <1>2, <2>2 DEF ReplyAlone
<1> QED BY <1>1, <1>2 DEF WasTrue

(* The session that takes the step. *)
LEMMA ActorWasTrue ==
    ASSUME GatewayInv, Guarded, NEW t \in Threads, WasTrue(t), Step(t), Watch, UNCHANGED request
    PROVE  WasTrue(t)'
<1> DEFINE c == call[t]
<1>0. /\ c.at # "idle" /\ Serving(t) /\ call \in [Threads -> Calls] /\ c.b \in Buckets
      /\ c.op \in OpsAt[c.at]
  BY StepShape DEF GatewayInv, SessionInv, Serving, TypeInv, TypeOK, CallsWellFormed
<1>1. held'[t] = held[t] \union {ReplyAlone(c)}
  BY <1>0 DEF Watch, At
<1>2. unguarded \subseteq unguarded'
  BY MarkerSteps
<1>3. TargetOf(request'[t]).bucket = c.b
  BY <1>0 DEF Serving
<1>4. ASSUME NEW r, Return(t, r), r \in {"none", "InternalError"} \union held'[t] \/ c.b \in unguarded
      PROVE  WasTrue(t)'
  <2>1. call'[t] = Idle(r)
    BY <1>0, <1>4 DEF Return
  <2>2. call'[t].at = "idle" /\ call'[t].reply = r
    BY <2>1 DEF Idle
  <2> QED BY <1>2, <1>3, <1>4, <2>2 DEF WasTrue
<1>5. ASSUME NEW place, Goto(t, place) PROVE call'[t].at = place /\ call'[t].b = c.b
  BY <1>0, <1>5 DEF Goto, Calls
<1>o. /\ c.at = "exists" => c.op \in {"bucket_exists", "delete_bucket", "head_object", "delete_object"}
      /\ c.at = "get_marker" => c.op = "create_bucket"
      /\ c.at = "get_meta" => c.op = "head_object" /\ c.k \in Keys
      /\ c.at = "get_data" => c.op = "get_object_data"
  <2>1. c.at \in {"get_meta", "get_data"} => c.k \in Keys
    BY <1>0 DEF GatewayInv, TypeInv, CallsWellFormed
  <2> QED BY <1>0, <2>1 DEF OpsAt
<1>6. CASE BucketExists(t)
  <2>1. c.op \in {"bucket_exists", "delete_bucket", "head_object", "delete_object"} /\ UNCHANGED db
    BY <1>o, <1>6 DEF BucketExists, At, ReadOnly
  <2>2. CASE c.b \notin db.buckets
    BY <1>1, <1>4, <1>6, <2>1, <2>2 DEF BucketExists, ReplyAlone
  <2>3. CASE c.b \in db.buckets /\ c.op = "bucket_exists"
    BY <1>1, <1>4, <1>6, <2>3 DEF BucketExists, ReplyAlone
  <2>4. CASE c.b \in db.buckets /\ c.op # "bucket_exists"
    <3>1. call'[t].at = AfterExists[c.op] /\ call'[t].b = c.b
      BY <1>5, <1>6, <2>4 DEF BucketExists
    <3>2. c.op = "delete_object" => "ok" \in held'[t]
      BY <1>1, <2>4 DEF ReplyAlone
    <3>3. /\ call'[t].at = "erase_object" => "ok" \in held'[t]
          /\ call'[t].at \in {"erase_object", "seek_meta", "get_meta"} /\ c.b \in db'.buckets
      BY <2>1, <2>4, <3>1, <3>2 DEF AfterExists
    <3> QED BY <1>5, <3>1, <3>3 DEF WasTrue
  <2> QED BY <2>2, <2>3, <2>4
<1>7. CASE CreateBucketGet(t)
  <2>1. ReplyAlone(c) = "ok"
    BY <1>o, <1>7 DEF CreateBucketGet, At, ReplyAlone
  <2>2. CASE Return(t, "ok")
    BY <1>1, <1>4, <2>1, <2>2
  <2>3. CASE Goto(t, "put_marker")
    BY <1>5, <2>3 DEF WasTrue
  <2> QED BY <1>7, <2>2, <2>3 DEF CreateBucketGet
<1>8. CASE CreateBucketPut(t) \/ PutObject(t)
  <2>1. ReplyAlone(c) = "ok" /\ Return(t, "ok")
    BY <1>0, <1>8 DEF CreateBucketPut, PutObject, At, OpsAt, ReplyAlone
  <2> QED BY <1>1, <1>4, <2>1
<1>9. CASE DeleteBucketSeek(t)
  <2>1. c.op = "delete_bucket" /\ c.at = "seek_meta"
    BY <1>0, <1>9 DEF DeleteBucketSeek, At, OpsAt
  <2>2. CASE BucketEmpty(c.b)
    <3>1. call'[t].at = "drop_marker" /\ call'[t].b = c.b
      BY <1>5, <1>9, <2>2 DEF DeleteBucketSeek
    <3>2. c.b \in db.buckets => "ok" \in held'[t]
      BY <1>1, <2>1, <2>2 DEF ReplyAlone
    <3> QED BY <1>1, <1>2, <2>1, <3>1, <3>2 DEF WasTrue
  <2>3. CASE ~BucketEmpty(c.b)
    <3>1. c.b \in db.buckets \/ c.b \in unguarded
      BY <1>0, <2>3 DEF Guarded, NoObjects, BucketEmpty
    <3>2. c.b \in db.buckets => "BucketNotEmpty" \in held'[t]
      BY <1>1, <2>1, <2>3 DEF ReplyAlone
    <3> QED BY <1>4, <1>9, <2>3, <3>1, <3>2 DEF DeleteBucketSeek
  <2> QED BY <2>2, <2>3
<1>10. CASE DeleteBucketDrop(t) \/ DeleteObject(t)
  BY <1>1, <1>4, <1>10 DEF DeleteBucketDrop, DeleteObject, At, WasTrue
<1>11. CASE HeadObject(t)
  <2>1. /\ c.op = "head_object" /\ c.at = "get_meta" /\ c.k \in Keys
        /\ Return(t, IF db.meta[<<c.b, c.k>>] = None THEN "NoSuchKey" ELSE "ok")
    BY <1>o, <1>11 DEF HeadObject, At, Obj
  <2>2. CASE db.meta[<<c.b, c.k>>] = None
    <3>1. c.b \in db.buckets => "NoSuchKey" \in held'[t]
      BY <1>1, <2>1, <2>2 DEF ReplyAlone
    <3> QED BY <1>1, <1>4, <2>1, <2>2, <3>1 DEF WasTrue
  <2>3. CASE db.meta[<<c.b, c.k>>] # None
    <3>1. c.b \in db.buckets \/ c.b \in unguarded
      BY <1>0, <2>1, <2>3 DEF Guarded, NoObjects
    <3>2. c.b \in db.buckets => "ok" \in held'[t]
      BY <1>1, <2>1, <2>3 DEF ReplyAlone
    <3> QED BY <1>4, <2>1, <2>3, <3>1, <3>2
  <2> QED BY <2>2, <2>3
<1>12. CASE GetObjectData(t)
  <2>1. /\ c.op = "get_object_data" /\ c.at = "get_data"
        /\ Return(t, IF db.data[<<c.b, c.k>>] = None THEN "NoSuchKey" ELSE "ok")
    BY <1>o, <1>12 DEF GetObjectData, At, Obj
  <2>2. (IF db.data[<<c.b, c.k>>] = None THEN "NoSuchKey" ELSE "ok") \in held'[t]
    BY <1>1, <2>1 DEF ReplyAlone
  <2> QED BY <1>4, <2>1, <2>2
<1>13. CASE RocksError(t)
  BY <1>4, <1>13 DEF RocksError
<1> QED BY <1>6, <1>7, <1>8, <1>9, <1>10, <1>11, <1>12, <1>13 DEF Step

(* Every step keeps that what an operation saw, or will reply, was true. *)
LEMMA StepsWereTrue ==
    ASSUME GatewayInv, Guarded, \A t \in Threads : WasTrue(t), [GatewayNext]_gatewayVars, NEW s \in Threads
    PROVE  WasTrue(s)'
<1>0. /\ call \in [Threads -> Calls] /\ request \in [Threads -> Requests \union {None}]
      /\ held = [t \in Threads |-> held[t]]
      /\ \A t \in Threads : request[t] = None => call[t].reply = "none"
  BY DEF GatewayInv, SessionInv, TypeInv, TypeOK
<1>w. Watch => /\ held[s] \subseteq held'[s]
               /\ call[s].at # "idle" => ReplyAlone(call[s]) \in held'[s]
  BY DEF Watch, At
<1>1. ASSUME NEW t \in Threads, OnRead(t) PROVE WasTrue(s)'
  <2>1. UNCHANGED <<db, call, unguarded>> /\ Watch
    BY <1>1 DEF OnRead, vars
  <2>2. CASE s # t
    BY <1>0, <1>w, <1>1, <2>1, <2>2, OthersWereTrue DEF OnRead
  <2>3. CASE s = t
    <3>1. call'[s].reply = "none" /\ call[s].at = "idle"
      BY <1>0, <1>1, <2>1, <2>3, RequestsAssumption DEF OnRead, GatewayInv, SessionInv, Serving
    <3> QED BY <2>1, <3>1 DEF WasTrue
  <2> QED BY <2>2, <2>3
<1>2. ASSUME NEW t \in Threads, Refuse(t) \/ List(t) PROVE WasTrue(s)'
  <2>1. UNCHANGED <<db, call, unguarded, request>> /\ Watch
    BY <1>2 DEF Refuse, List, vars
  <2> QED BY <1>w, <2>1, OthersWereTrue
<1>3. ASSUME NEW t \in Threads, Call(t) PROVE WasTrue(s)'
  <2>1. BucketRequest(t) \/ ObjectRequest(t) \/ PutRequest(t)
    BY <1>3, CallIsRequest
  <2>2. PICK op \in DOMAIN FirstCall : \E b, k, d : Begin(t, op, b, k, d)
    BY <2>1 DEF BucketRequest, ObjectRequest, PutRequest, FirstCall
  <2>3. PICK b, k, d : Begin(t, op, b, k, d)
    BY <2>2
  <2>4. UNCHANGED <<db, unguarded, request>> /\ Watch
    BY <1>3, <2>3 DEF Call, Begin, ReadOnly
  <2>5. CASE s # t
    <3>1. call'[s] = call[s]
      BY <1>0, <2>3, <2>5 DEF Begin
    <3> QED BY <1>w, <2>4, <3>1, OthersWereTrue
  <2>6. CASE s = t
    <3>1. call'[t].at = FirstCall[op] /\ call'[t].reply = "none"
      BY <1>0, <2>3 DEF Begin
    <3>2. FirstCall[op] \in {"get_marker", "exists", "write_object", "get_data"}
      BY <2>3 DEF FirstCall
    <3> QED BY <2>6, <3>1, <3>2 DEF WasTrue
  <2> QED BY <2>5, <2>6
<1>4. ASSUME NEW t \in Threads, Work(t) PROVE WasTrue(s)'
  <2>1. Step(t) /\ Watch /\ UNCHANGED request
    BY <1>4 DEF Work
  <2>2. CASE s = t
    BY <2>1, <2>2, ActorWasTrue
  <2>3. CASE s # t
    <3>1. call'[s] = call[s]
      BY <1>0, <2>1, <2>3, StepShape DEF Return, Goto
    <3> QED BY <1>w, <2>1, <3>1, MarkerSteps, OthersWereTrue
  <2> QED BY <2>2, <2>3
<1>5. ASSUME NEW t \in Threads, OnWrite(t) PROVE WasTrue(s)'
  <2>1. UNCHANGED <<db, unguarded>>
    BY <1>5 DEF OnWrite
  <2>2. CASE s # t
    <3>1. call'[s] = call[s] /\ request'[s] = request[s] /\ held'[s] = held[s]
      BY <1>0, <1>5, <2>2 DEF OnWrite
    <3> QED BY <2>1, <3>1, OthersWereTrue
  <2>3. CASE s = t
    BY <1>0, <1>5, <2>3 DEF OnWrite, Idle, WasTrue
  <2> QED BY <2>2, <2>3
<1>6. CASE Restart
  BY <1>6 DEF Restart, Crash, Idle, WasTrue
<1>7. CASE UNCHANGED gatewayVars
  BY <1>7 DEF gatewayVars, WasTrue
<1> QED BY <1>1, <1>2, <1>3, <1>4, <1>5, <1>6, <1>7 DEF GatewayNext

(* Every reply of the store was right at some moment of its operation, for any *)
(* number of sessions, unless the bucket took an unguarded PUT: the race of    *)
(* the marker's check with a delete_bucket shows in no answer.                 *)
THEOREM RepliesWereTrueAlways == GatewaySpec => []RepliesWereTrue
<1> DEFINE Inv == \A t \in Threads : WasTrue(t)
<1>1. GatewayInit => Inv
  BY DEF GatewayInit, Init, Idle, WasTrue
<1>2. GatewayInv /\ Guarded /\ Inv /\ [GatewayNext]_gatewayVars => Inv'
  BY StepsWereTrue
<1>3. GatewayInv /\ Inv => RepliesWereTrue
  BY DEF GatewayInv, SessionInv, Serving, WasTrue, RepliesWereTrue
<1> HIDE DEF Inv
<1> QED BY <1>1, <1>2, <1>3, SessionsServe, GatewayGuarded, PTL DEF GatewaySpec
=============================================================================
