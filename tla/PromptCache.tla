----------------------------- MODULE PromptCache -----------------------------
(***************************************************************************)
(* The whole path: replicas of the index layer, each with its own          *)
(* PrefixIndex, store and load KV payloads over HTTP through S3Storage     *)
(* (index_layer/src/s3_storage.cc) on one gateway.  A replica is one       *)
(* calling thread with its thread_local curl handle.  The gateway is the   *)
(* BlobStore that ObjectStore implements, and answers range reads as       *)
(* ByteRange says.                                                         *)
(*                                                                         *)
(* A request that the client gave up on (timeout, lost connection) may     *)
(* still be carried out later: such PUTs are kept in late.  The gateway    *)
(* crashes and comes back; what it loses then depends on WritesSurvive.    *)
(***************************************************************************)
EXTENDS PrefixIndex, ByteRange

CONSTANTS
    Replicas,
    WritesSurvive,  \* the gateway's crashes lose no applied write
    SkipPuts,       \* values of Store's skip_put argument
    None,
    MaxStores       \* bound on version_clock_ of each replica

ASSUME ReplicaStoresAssumption == MaxStores \in Nat
ASSUME SkipAssumption == SkipPuts \subseteq BOOLEAN
ASSUME SurviveAssumption == WritesSurvive \in BOOLEAN
ASSUME NoneAssumption == None \notin Payloads /\ None \notin Nat

VARIABLES
    index,          \* per replica: its PrefixMap
    handle,         \* per replica: ThreadCurlHandle's curl
    call,           \* per replica: the Store or Load under way
    objects,        \* the gateway's objects
    stable,         \* ... that a crash leaves
    late,           \* abandoned PUTs that may yet be applied
    last,           \* per replica: what its last successful Load returned
    stored,         \* history, per replica: the Stores in its index
    excused         \* history: objects deleted or lost since they were put, or
                    \* indexed with skip_put while absent

vars == <<index, handle, call, objects, stable, late, last, stored, excused>>

Gateway == INSTANCE BlobStore WITH Objects <- ObjIds

NoResponse == [status |-> 0, data |-> None, start |-> 0, count |-> 0]

NoCall == [op |-> "none", at |-> "idle", tokens |-> <<>>, data |-> None, obj_id |-> None,
           prefix_tokens |-> 0, max_bytes |-> 0, response |-> NoResponse]

NoLoad == [tokens |-> <<>>, prefix_tokens |-> 0, data |-> None, start |-> 0, count |-> 0]

Init ==
    /\ index = [r \in Replicas |-> EmptyIndex]
    /\ handle = [r \in Replicas |-> "unset"]
    /\ call = [r \in Replicas |-> NoCall]
    /\ Gateway!Init
    /\ late = {}
    /\ last = [r \in Replicas |-> NoLoad]
    /\ stored = [r \in Replicas |-> {}]
    /\ excused = {}

-----------------------------------------------------------------------------
(* The replica's side. *)

At(r, place) == call[r].at = place

GatewayIdle == UNCHANGED <<objects, stable>>

(* Store after the PUT succeeded or was skipped: the index takes the payload in. *)
Indexed(r, tokens, data) ==
    /\ \E usable \in UsableLens(tokens, data) :
          index' = [index EXCEPT ![r] = StoreEffect(index[r], tokens, data, usable)]
    /\ stored' = [stored EXCEPT ![r] = @ \union {[tokens |-> tokens, data |-> data]}]

StoreSkippingPut(r, tokens, data) ==
    /\ At(r, "idle")
    /\ index[r].version_clock < MaxStores
    /\ Indexed(r, tokens, data)
    /\ excused' = IF objects[HashBytesHex(data)] = Gateway!Absent
                  THEN excused \union {HashBytesHex(data)} ELSE excused
    /\ GatewayIdle
    /\ UNCHANGED <<handle, call, late, last>>

(* Faulty variant: the payload is indexed before the PUT is made. *)
BeginStore_IndexFirst(r, tokens, data) ==
    /\ At(r, "idle")
    /\ index[r].version_clock < MaxStores
    /\ Indexed(r, tokens, data)
    /\ call' = [call EXCEPT ![r] =
                  [NoCall EXCEPT !.op = "store", !.at = "request", !.tokens = tokens,
                                 !.data = data, !.obj_id = HashBytesHex(data)]]
    /\ GatewayIdle
    /\ UNCHANGED <<handle, late, last, excused>>

BeginStore(r, tokens, data) ==
    /\ At(r, "idle")
    /\ index[r].version_clock < MaxStores
    /\ call' = [call EXCEPT ![r] =
                  [NoCall EXCEPT !.op = "store", !.at = "request", !.tokens = tokens,
                                 !.data = data, !.obj_id = HashBytesHex(data)]]
    /\ GatewayIdle
    /\ UNCHANGED <<index, handle, late, last, stored, excused>>

(* Lookup, and Load if it hits. *)
BeginLoad(r, tokens) ==
    LET res == Lookup(index[r].prefix_map, tokens, 0)
    IN  /\ At(r, "idle")
        /\ res.hit
        /\ call' = [call EXCEPT ![r] =
                      [NoCall EXCEPT !.op = "load", !.at = "request", !.tokens = tokens,
                                     !.obj_id = res.obj_id, !.prefix_tokens = res.prefix_tokens,
                                     !.max_bytes = res.usable_len_bytes]]
        /\ GatewayIdle
        /\ UNCHANGED <<index, handle, late, last, stored, excused>>

(* PerformRequest up to curl_easy_perform.  The handle is made on first use.   *)
(* Using a freed one is undefined: here the memory still serves.               *)
SendRequest(r) ==
    /\ At(r, "request")
    /\ handle[r] \in {"unset", "live", "freed"}
    /\ handle' = [handle EXCEPT ![r] = IF @ = "unset" THEN "live" ELSE @]
    /\ call' = [call EXCEPT ![r].at = "sent"]
    /\ GatewayIdle
    /\ UNCHANGED <<index, late, last, stored, excused>>

(* curl_easy_init returned null, now or before: PerformRequest returns false,  *)
(* and the Store or Load with it.                                              *)
NoHandle(r) ==
    /\ At(r, "request")
    /\ handle[r] \in {"unset", "null"}
    /\ handle' = [handle EXCEPT ![r] = "null"]
    /\ call' = [call EXCEPT ![r] = NoCall]
    /\ GatewayIdle
    /\ UNCHANGED <<index, late, last, stored, excused>>

(* Faulty variants: the status is not looked at. *)
ReceiveStored_AnyStatus(r) ==
    /\ At(r, "answered") /\ call[r].op = "store"
    /\ Indexed(r, call[r].tokens, call[r].data)
    /\ call' = [call EXCEPT ![r] = NoCall]
    /\ GatewayIdle
    /\ UNCHANGED <<handle, late, last, excused>>

ReceiveLoaded_AnyStatus(r) ==
    /\ At(r, "answered") /\ call[r].op = "load"
    /\ last' = [last EXCEPT ![r] =
                  [tokens |-> call[r].tokens, prefix_tokens |-> call[r].prefix_tokens,
                   data |-> call[r].response.data, start |-> call[r].response.start,
                   count |-> call[r].response.count]]
    /\ call' = [call EXCEPT ![r] = NoCall]
    /\ GatewayIdle
    /\ UNCHANGED <<index, handle, late, stored, excused>>

(* The answer arrives: Store indexes the payload if the status is 2xx, Load    *)
(* returns the bytes if it is 200 or 206.  Any other status is a failure that  *)
(* leaves the index as it was.                                                 *)
ReceiveStored(r) ==
    /\ At(r, "answered") /\ call[r].op = "store"
    /\ IF call[r].response.status \in 200 .. 299
       THEN Indexed(r, call[r].tokens, call[r].data)
       ELSE UNCHANGED <<index, stored>>
    /\ call' = [call EXCEPT ![r] = NoCall]
    /\ GatewayIdle
    /\ UNCHANGED <<handle, late, last, excused>>

ReceiveLoaded(r) ==
    /\ At(r, "answered") /\ call[r].op = "load"
    /\ LET res == call[r].response
       IN  last' = IF GetRangeAccepts(res.status)
                   THEN [last EXCEPT ![r] =
                           [tokens |-> call[r].tokens, prefix_tokens |-> call[r].prefix_tokens,
                            data |-> res.data, start |-> res.start, count |-> res.count]]
                   ELSE last
    /\ call' = [call EXCEPT ![r] = NoCall]
    /\ GatewayIdle
    /\ UNCHANGED <<index, handle, late, stored, excused>>

(* A request the gateway has and has not carried out may still be. *)
Abandoned(r) ==
    \/ late' = late
    \/ /\ At(r, "sent") /\ call[r].op = "store"
       /\ late' = late \union {[obj_id |-> call[r].obj_id, data |-> call[r].data]}

(* Faulty variant: no timeout, only a connection that breaks ends the wait. *)
TransportFail_NoTimeout(r) ==
    /\ At(r, "lost")
    /\ handle' = [handle EXCEPT ![r] = "freed"]
    /\ call' = [call EXCEPT ![r] = NoCall]
    /\ Abandoned(r)
    /\ GatewayIdle
    /\ UNCHANGED <<index, last, stored, excused>>

(* curl_easy_perform fails (timeout, refused or broken connection): the handle *)
(* is cleaned up, but curl keeps pointing to it.                               *)
TransportFail(r) ==
    /\ call[r].at \in {"sent", "answered", "lost"}
    /\ handle' = [handle EXCEPT ![r] = "freed"]
    /\ call' = [call EXCEPT ![r] = NoCall]
    /\ Abandoned(r)
    /\ GatewayIdle
    /\ UNCHANGED <<index, last, stored, excused>>

(* The process ends and a new one takes its place: killed at any moment, or by *)
(* the use of a freed handle.                                                  *)
Restart(r) ==
    /\ index' = [index EXCEPT ![r] = EmptyIndex]
    /\ handle' = [handle EXCEPT ![r] = "unset"]
    /\ call' = [call EXCEPT ![r] = NoCall]
    /\ Abandoned(r)
    /\ last' = [last EXCEPT ![r] = NoLoad]
    /\ stored' = [stored EXCEPT ![r] = {}]
    /\ GatewayIdle
    /\ UNCHANGED excused

-----------------------------------------------------------------------------
(* The gateway's side. *)

Answer(r, response) ==
    call' = [call EXCEPT ![r].at = "answered", ![r].response = response]

Status(code) == [NoResponse EXCEPT !.status = code]

PutBlob(obj_id, data) ==
    /\ Gateway!Put(obj_id, data)
    /\ excused' = excused \ {obj_id}

ServePut(r) ==
    /\ At(r, "sent") /\ call[r].op = "store"
    /\ PutBlob(call[r].obj_id, call[r].data)
    /\ Answer(r, Status(200))
    /\ UNCHANGED <<index, handle, late, last, stored>>

ServeGet(r) ==
    /\ At(r, "sent") /\ call[r].op = "load"
    /\ LET blob == objects[call[r].obj_id]
           reply == GetObject(GetRangeHeader(call[r].max_bytes), blob.size)
       IN  Answer(r, IF blob = Gateway!Absent THEN Status(404)
                     ELSE IF reply.status = 416 THEN Status(416)
                     ELSE [status |-> reply.status, data |-> blob.data,
                           start |-> reply.start, count |-> reply.count])
    /\ GatewayIdle
    /\ UNCHANGED <<index, handle, late, last, stored, excused>>

(* RocksDB failed. *)
ServeError(r) ==
    /\ At(r, "sent")
    /\ Answer(r, Status(500))
    /\ GatewayIdle
    /\ UNCHANGED <<index, handle, late, last, stored, excused>>

(* The gateway reads a PUT whose sender has given up, or drops it. *)
ServeLate ==
    \E p \in late :
        /\ late' = late \ {p}
        /\ PutBlob(p.obj_id, p.data) \/ (GatewayIdle /\ UNCHANGED excused)
        /\ UNCHANGED <<index, handle, call, last, stored>>

(* Some other S3 client deletes an object; the index layer never does. *)
DeleteBlob(obj_id) ==
    /\ Gateway!Delete(obj_id)
    /\ excused' = excused \union {obj_id}
    /\ UNCHANGED <<index, handle, call, late, last, stored>>

Flush ==
    /\ Gateway!Persist
    /\ UNCHANGED <<index, handle, call, late, last, stored, excused>>

GatewayCrash ==
    /\ Gateway!Crash
    /\ call' = [r \in Replicas |-> IF At(r, "sent") THEN [call[r] EXCEPT !.at = "lost"] ELSE call[r]]
    /\ late' = {}
    /\ excused' = excused \union {o \in ObjIds : objects[o] # Gateway!Absent
                                                 /\ stable[o] = Gateway!Absent}
    /\ UNCHANGED <<index, handle, last, stored>>

-----------------------------------------------------------------------------
Begin(r) ==
    \/ \E tokens \in Prompts, data \in Payloads :
          \/ TRUE \in SkipPuts /\ StoreSkippingPut(r, tokens, data)
          \/ FALSE \in SkipPuts /\ BeginStore(r, tokens, data)
    \/ \E tokens \in Prompts : BeginLoad(r, tokens)

Proceed(r) ==
    \/ SendRequest(r) \/ NoHandle(r) \/ ReceiveStored(r) \/ ReceiveLoaded(r) \/ TransportFail(r)

Next ==
    \/ \E r \in Replicas :
          Begin(r) \/ Proceed(r) \/ Restart(r) \/ ServePut(r) \/ ServeGet(r) \/ ServeError(r)
    \/ ServeLate
    \/ \E o \in ObjIds : DeleteBlob(o)
    \/ Flush
    \/ GatewayCrash

Spec == Init /\ [][Next]_vars

(* A thread that is in a call runs on, and curl gives up after timeout_ms.     *)
(* Nothing is assumed of the gateway.                                          *)
FairSpec == Spec /\ \A r \in Replicas : WF_vars(Proceed(r))
-----------------------------------------------------------------------------
Blobs == {Gateway!Absent} \union {Gateway!Blob(d) : d \in Payloads}

(* The state of both sides; an object is absent or a payload with its size. *)
TypeOK ==
    /\ \A r \in Replicas :
          /\ DOMAIN index[r].prefix_map \subseteq Hashes
          /\ DOMAIN index[r].obj_table \subseteq ObjIds
          /\ index[r].version_clock \in 0 .. MaxStores
          /\ handle[r] \in {"unset", "live", "null", "freed"}
          /\ call[r].op \in {"none", "store", "load"}
          /\ call[r].at \in {"idle", "request", "sent", "answered", "lost"}
          /\ last[r] = NoLoad \/ last[r].data \in Payloads
          /\ stored[r] \subseteq [tokens : Prompts, data : Payloads]
    /\ objects \in [ObjIds -> Blobs]
    /\ stable \in [ObjIds -> Blobs]
    /\ late \subseteq [obj_id : ObjIds, data : Payloads]
    /\ excused \subseteq ObjIds

(* What a Load after a hit returns, whatever other replicas, late PUTs and     *)
(* crashes did between the Lookup and the read: the first usable bytes of a    *)
(* payload that this replica stored for a prompt with the same first tokens.   *)
LoadExact ==
    \A r \in Replicas : last[r] # NoLoad =>
        \E s \in stored[r] :
            /\ last[r].prefix_tokens \in BlockLens(Len(s.tokens))
            /\ SubSeq(s.tokens, 1, last[r].prefix_tokens)
                  = SubSeq(last[r].tokens, 1, last[r].prefix_tokens)
            /\ s.data = last[r].data
            /\ last[r].start = 0
            /\ last[r].count \in
                  UsableBytes(last[r].prefix_tokens, Len(s.tokens), SizeOf[s.data])

(* A hit finds its object: what any index names is at the gateway, unless it   *)
(* was deleted or lost in a crash since it was last put, or was never put      *)
(* (skip_put).  Failed, timed-out and late PUTs never leave an entry without   *)
(* its object, because Store indexes only after a 2xx answer.                  *)
IndexedPresentUnlessLost ==
    \A r \in Replicas : \A h \in DOMAIN index[r].prefix_map :
        LET obj_id == index[r].prefix_map[h].obj_id
        IN  objects[obj_id] # Gateway!Absent \/ obj_id \in excused

(* No PUT, however late or repeated, changes what the entries of any replica   *)
(* refer to: an object that stays keeps its bytes, though the gateway would    *)
(* overwrite it, because its name is the hash of what it holds.                *)
ObjectsKeepTheirContent ==
    [][\A o \in ObjIds :
          objects[o] # Gateway!Absent /\ objects'[o] # Gateway!Absent => objects'[o] = objects[o]]_vars

(* Every Store and Load returns, even if the gateway never answers again: curl *)
(* is given timeout_ms.                                                        *)
CallsReturn == \A r \in Replicas : ~At(r, "idle") ~> At(r, "idle")

(* ARCHITECTURE.md: "Data-plane node loss: objects on that node are lost;      *)
(* cache refills from source."  The requests that refill it, like all others,  *)
(* are made with a curl handle that has not been freed.                        *)
RequestsUseLiveHandle ==
    \A r \in Replicas : call[r].at \in {"sent", "answered"} => handle[r] = "live"
=============================================================================
