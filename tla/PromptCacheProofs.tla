-------------------------- MODULE PromptCacheProofs --------------------------
(***************************************************************************)
(* Proofs about PromptCache for any number of replicas, any prompts and    *)
(* payloads and any hash functions: what depends on the absence of         *)
(* collisions says so.                                                     *)
(***************************************************************************)
EXTENDS PromptCache, PrefixIndexProofs

-----------------------------------------------------------------------------
Responses == [status : Nat, data : Payloads \union {None}, start : Int, count : Int]

Calls == [op : {"none", "store", "load"}, at : {"idle", "request", "sent", "answered", "lost"},
          tokens : Prompts \union {<<>>}, data : Payloads \union {None},
          obj_id : ObjIds \union {None}, prefix_tokens : Nat, max_bytes : Int,
          response : Responses]

Types ==
    /\ TypeOK
    /\ DOMAIN index = Replicas /\ DOMAIN last = Replicas
    /\ handle \in [Replicas -> {"unset", "live", "null", "freed"}]
    /\ call \in [Replicas -> Calls]
    /\ stored \in [Replicas -> SUBSET [tokens : Prompts, data : Payloads]]

(* The object is at the gateway, or has an excuse. *)
Present(o) == objects[o] # Gateway!Absent \/ o \in excused

(* Replica r stored a payload of this name under this hash, with this length. *)
FromStore(r, h, obj_id, len) ==
    \E s \in stored[r] : \E n \in BlockLens(Len(s.tokens)) :
        /\ HashTokens(s.tokens, n) = h
        /\ HashBytesHex(s.data) = obj_id
        /\ len \in UsableBytes(n, Len(s.tokens), SizeOf[s.data])

(* A Lookup of replica r may have hit n tokens, this object and this length. *)
Asked(r, tokens, n, obj_id, len) ==
    /\ tokens \in Prompts /\ n \in BlockLens(Len(tokens))
    /\ FromStore(r, HashTokens(tokens, n), obj_id, len)

(* What a GetRange of len bytes of the object reads, when it succeeds. *)
ReadOf(obj_id, len, res) ==
    /\ res.data \in Payloads
    /\ HashBytesHex(res.data) = obj_id
    /\ LET reply == GetObject(GetRangeHeader(len), SizeOf[res.data])
       IN  reply.status # 416 /\ res.start = reply.start /\ res.count = reply.count

IndexOK(r) ==
    \A h \in DOMAIN index[r].prefix_map :
        FromStore(r, h, index[r].prefix_map[h].obj_id, index[r].prefix_map[h].usable_len_bytes)

(* A Store under way names the object by its payload, fits under the bound of  *)
(* the clock, and has put the object if it was told so.                        *)
StoreOK(r) ==
    call[r].op = "store" =>
        /\ ~At(r, "idle") /\ index[r].version_clock < MaxStores
        /\ call[r].tokens \in Prompts /\ call[r].data \in Payloads
        /\ call[r].obj_id = HashBytesHex(call[r].data)
        /\ At(r, "answered") /\ call[r].response.status \in 200 .. 299 => Present(call[r].obj_id)

(* A Load under way asks for what a Lookup of the same replica hit. *)
LoadOK(r) ==
    call[r].op = "load" =>
        /\ Asked(r, call[r].tokens, call[r].prefix_tokens, call[r].obj_id, call[r].max_bytes)
        /\ At(r, "answered") /\ GetRangeAccepts(call[r].response.status) =>
              ReadOf(call[r].obj_id, call[r].max_bytes, call[r].response)

LastOK(r) ==
    last[r] # NoLoad =>
        \E obj_id, len :
            /\ Asked(r, last[r].tokens, last[r].prefix_tokens, obj_id, len)
            /\ ReadOf(obj_id, len, last[r])

Holds(blob, o) ==
    blob = Gateway!Absent \/ \E d \in Payloads : blob = Gateway!Blob(d) /\ HashBytesHex(d) = o

(* Every object, at the gateway, in its stable part or on the way to it, has   *)
(* the hash of its payload for a name.                                         *)
NamesAreHashes ==
    /\ \A o \in ObjIds : Holds(objects[o], o) /\ Holds(stable[o], o)
    /\ \A p \in late : HashBytesHex(p.data) = p.obj_id

(* The inductive invariant.  It holds whatever the hashes collide on. *)
CacheInv ==
    /\ Types
    /\ NamesAreHashes
    /\ IndexedPresentUnlessLost
    /\ \A r \in Replicas : IndexOK(r) /\ StoreOK(r) /\ LoadOK(r) /\ LastOK(r)

-----------------------------------------------------------------------------
(* A payload with its size is told apart from no object. *)
LEMMA BlobIsNotAbsent ==
    ASSUME NEW d \in Payloads
    PROVE  Gateway!Blob(d) # Gateway!Absent
BY NoneAssumption DEF Gateway!Blob, Gateway!Absent

(* A payload has a name and a size that fits in int. *)
LEMMA NameOfPayload ==
    ASSUME NEW d \in Payloads
    PROVE  HashBytesHex(d) \in ObjIds /\ SizeOf[d] \in 0 .. IntMax
BY ContentHashAssumption, SizeAssumption DEF HashBytesHex

(* A PrefixMap starts empty. *)
LEMMA EmptyIndexFacts ==
    /\ DOMAIN EmptyIndex.prefix_map = {} /\ DOMAIN EmptyIndex.obj_table = {}
    /\ EmptyIndex.version_clock = 0
BY DEF EmptyIndex

(* The keys Store writes are hashes. *)
LEMMA HashesOfBlocks == ASSUME NEW p \in Prompts PROVE BlockHashes(p) \subseteq Hashes
BY PromptFacts DEF BlockHashes

(* What a step does to the gateway. *)
GatewayStep ==
    \/ GatewayIdle /\ UNCHANGED <<late, excused>>
    \/ GatewayIdle /\ UNCHANGED late
       /\ \E d \in Payloads : excused' = IF objects[HashBytesHex(d)] = Gateway!Absent
                                         THEN excused \union {HashBytesHex(d)} ELSE excused
    \/ GatewayIdle /\ UNCHANGED excused
       /\ \E d \in Payloads : late' = late \union {[obj_id |-> HashBytesHex(d), data |-> d]}
    \/ \E d \in Payloads : PutBlob(HashBytesHex(d), d) /\ late' \subseteq late
    \/ GatewayIdle /\ UNCHANGED excused /\ late' \subseteq late
    \/ \E o \in ObjIds : Gateway!Delete(o) /\ excused' = excused \union {o} /\ UNCHANGED late
    \/ Gateway!Persist /\ UNCHANGED <<late, excused>>
    \/ /\ Gateway!Crash /\ late' = {}
       /\ excused' = excused \union {o \in ObjIds : objects[o] # Gateway!Absent
                                                    /\ stable[o] = Gateway!Absent}

(* Every step does one of these to the gateway. *)
LEMMA GatewaySteps ==
    ASSUME CacheInv, Next
    PROVE  GatewayStep
<1>1. ASSUME NEW r \in Replicas, Abandoned(r), GatewayIdle, UNCHANGED excused
      PROVE  GatewayStep
  <2>1. CASE late' = late
    BY <1>1, <2>1 DEF GatewayStep
  <2>2. CASE call[r].op = "store" /\ late' = late \union {[obj_id |-> call[r].obj_id, data |-> call[r].data]}
    <3>1. call[r].data \in Payloads /\ call[r].obj_id = HashBytesHex(call[r].data)
      BY <2>2 DEF CacheInv, StoreOK
    <3> QED BY <1>1, <2>2, <3>1 DEF GatewayStep
  <2> QED BY <1>1, <2>1, <2>2 DEF Abandoned
<1>2. ASSUME NEW r \in Replicas, Begin(r) PROVE GatewayStep
  <2>1. CASE \E tokens \in Prompts, data \in Payloads : StoreSkippingPut(r, tokens, data)
    BY <2>1, Zenon DEF StoreSkippingPut, GatewayStep
  <2>2. CASE \E tokens \in Prompts, data \in Payloads : BeginStore(r, tokens, data)
    BY <2>2 DEF BeginStore, GatewayStep
  <2>3. CASE \E tokens \in Prompts : BeginLoad(r, tokens)
    BY <2>3 DEF BeginLoad, GatewayStep
  <2> QED BY <1>2, <2>1, <2>2, <2>3, Zenon DEF Begin
<1>3. ASSUME NEW r \in Replicas, Proceed(r) PROVE GatewayStep
  <2>1. CASE TransportFail(r)
    BY <1>1, <2>1 DEF TransportFail
  <2>2. CASE SendRequest(r) \/ NoHandle(r) \/ ReceiveStored(r) \/ ReceiveLoaded(r)
    BY <2>2 DEF SendRequest, NoHandle, ReceiveStored, ReceiveLoaded, GatewayStep
  <2> QED BY <1>3, <2>1, <2>2 DEF Proceed
<1>4. ASSUME NEW r \in Replicas, Restart(r) PROVE GatewayStep
  BY <1>1, <1>4 DEF Restart
<1>5. ASSUME NEW r \in Replicas, ServePut(r) PROVE GatewayStep
  <2>1. call[r].data \in Payloads /\ call[r].obj_id = HashBytesHex(call[r].data)
    BY <1>5 DEF ServePut, CacheInv, StoreOK
  <2>2. PutBlob(HashBytesHex(call[r].data), call[r].data) /\ late' = late
    BY <1>5, <2>1 DEF ServePut
  <2> QED BY <2>1, <2>2 DEF GatewayStep
<1>6. ASSUME NEW r \in Replicas, ServeGet(r) \/ ServeError(r) PROVE GatewayStep
  BY <1>6 DEF ServeGet, ServeError, GatewayStep
<1>7. CASE ServeLate
  <2>1. PICK p \in late : /\ late' = late \ {p}
                          /\ PutBlob(p.obj_id, p.data) \/ (GatewayIdle /\ UNCHANGED excused)
    BY <1>7 DEF ServeLate
  <2>2. p.data \in Payloads /\ p.obj_id = HashBytesHex(p.data)
    BY DEF CacheInv, NamesAreHashes, Types, TypeOK
  <2>3. late' \subseteq late
    BY <2>1
  <2>4. CASE PutBlob(p.obj_id, p.data)
    <3>1. PutBlob(HashBytesHex(p.data), p.data)
      BY <2>2, <2>4
    <3> QED BY <2>2, <2>3, <3>1 DEF GatewayStep
  <2> QED BY <2>1, <2>3, <2>4 DEF GatewayStep
<1>8. ASSUME NEW o \in ObjIds, DeleteBlob(o) PROVE GatewayStep
  BY <1>8 DEF DeleteBlob, GatewayStep
<1>9. CASE Flush \/ GatewayCrash
  BY <1>9 DEF Flush, GatewayCrash, GatewayStep
<1> QED BY <1>2, <1>3, <1>4, <1>5, <1>6, <1>7, <1>8, <1>9 DEF Next

(* The gateway keeps its types, and names stay hashes. *)
LEMMA StepObjects ==
    ASSUME CacheInv, GatewayStep
    PROVE  /\ objects' \in [ObjIds -> Blobs] /\ stable' \in [ObjIds -> Blobs]
           /\ late' \subseteq [obj_id : ObjIds, data : Payloads]
           /\ excused' \subseteq ObjIds
           /\ NamesAreHashes'
<1> DEFINE Lates == [obj_id : ObjIds, data : Payloads]
<1>1. /\ objects \in [ObjIds -> Blobs] /\ stable \in [ObjIds -> Blobs]
      /\ late \subseteq Lates /\ excused \subseteq ObjIds
  BY DEF CacheInv, Types, TypeOK
<1>2. /\ \A o \in ObjIds : Holds(objects[o], o) /\ Holds(stable[o], o)
      /\ \A p \in late : HashBytesHex(p.data) = p.obj_id
  BY DEF CacheInv, NamesAreHashes
<1>3. Gateway!Absent \in Blobs /\ \A d \in Payloads : Gateway!Blob(d) \in Blobs
  BY DEF Blobs
<1>4. \A o \in ObjIds : Holds(Gateway!Absent, o)
  BY DEF Holds
<1>5. \A d \in Payloads : Holds(Gateway!Blob(d), HashBytesHex(d)) /\ HashBytesHex(d) \in ObjIds
  BY NameOfPayload DEF Holds
<1> HIDE DEF Lates
<1>6. ASSUME NEW o \in ObjIds, NEW b \in Blobs, Holds(b, o),
             Gateway!Apply([objects EXCEPT ![o] = b])
      PROVE  /\ objects' \in [ObjIds -> Blobs] /\ stable' \in [ObjIds -> Blobs]
             /\ \A i \in ObjIds : Holds(objects'[i], i) /\ Holds(stable'[i], i)
  <2> DEFINE new == [objects EXCEPT ![o] = b]
  <2>1. new \in [ObjIds -> Blobs] /\ \A i \in ObjIds : Holds(new[i], i)
    BY <1>1, <1>2, <1>6
  <2>2. objects' = new /\ (stable' = new \/ stable' = stable)
    BY <1>6 DEF Gateway!Apply
  <2> HIDE DEF new
  <2> QED BY <1>1, <1>2, <2>1, <2>2
<1>7. ASSUME objects' \in {objects, stable}, stable' \in {objects, stable}
      PROVE  /\ objects' \in [ObjIds -> Blobs] /\ stable' \in [ObjIds -> Blobs]
             /\ \A i \in ObjIds : Holds(objects'[i], i) /\ Holds(stable'[i], i)
  BY <1>1, <1>2, <1>7
<1>8. /\ objects' \in [ObjIds -> Blobs] /\ stable' \in [ObjIds -> Blobs]
      /\ \A i \in ObjIds : Holds(objects'[i], i) /\ Holds(stable'[i], i)
  <2>1. CASE GatewayIdle
    BY <1>7, <2>1 DEF GatewayIdle
  <2>2. CASE Gateway!Persist \/ Gateway!Crash
    BY <1>7, <2>2 DEF Gateway!Persist, Gateway!Crash
  <2>3. ASSUME NEW d \in Payloads, PutBlob(HashBytesHex(d), d)
        PROVE  /\ objects' \in [ObjIds -> Blobs] /\ stable' \in [ObjIds -> Blobs]
               /\ \A i \in ObjIds : Holds(objects'[i], i) /\ Holds(stable'[i], i)
    <3>1. Gateway!Apply([objects EXCEPT ![HashBytesHex(d)] = Gateway!Blob(d)])
      BY <2>3 DEF PutBlob, Gateway!Put
    <3>2. Holds(Gateway!Blob(d), HashBytesHex(d)) /\ HashBytesHex(d) \in ObjIds /\ Gateway!Blob(d) \in Blobs
      BY <1>3, <1>5
    <3> QED BY <1>6, <3>1, <3>2
  <2>4. ASSUME NEW o \in ObjIds, Gateway!Delete(o)
        PROVE  /\ objects' \in [ObjIds -> Blobs] /\ stable' \in [ObjIds -> Blobs]
               /\ \A i \in ObjIds : Holds(objects'[i], i) /\ Holds(stable'[i], i)
    BY <1>3, <1>4, <1>6, <2>4 DEF Gateway!Delete
  <2> QED BY <2>1, <2>2, <2>3, <2>4 DEF GatewayStep
<1>9. late' \subseteq Lates /\ \A p \in late' : HashBytesHex(p.data) = p.obj_id
  <2>1. CASE late' \subseteq late
    BY <1>1, <1>2, <2>1
  <2>2. ASSUME NEW d \in Payloads, late' = late \union {[obj_id |-> HashBytesHex(d), data |-> d]}
        PROVE  late' \subseteq Lates /\ \A p \in late' : HashBytesHex(p.data) = p.obj_id
    <3>1. [obj_id |-> HashBytesHex(d), data |-> d] \in Lates
      BY <1>5 DEF Lates
    <3> QED BY <1>1, <1>2, <2>2, <3>1
  <2> QED BY <2>1, <2>2 DEF GatewayStep
<1>10. excused' \subseteq ObjIds
  BY <1>1, <1>5 DEF GatewayStep, PutBlob
<1>11. NamesAreHashes'
  BY <1>8, <1>9 DEF NamesAreHashes
<1> QED BY <1>8, <1>9, <1>10, <1>11 DEF Lates

(* What is there stays there or gets an excuse. *)
LEMMA StepPresent ==
    ASSUME CacheInv, GatewayStep, NEW o \in ObjIds, Present(o)
    PROVE  Present(o)'
<1>1. /\ objects \in [ObjIds -> Blobs] /\ stable \in [ObjIds -> Blobs]
      /\ objects[o] # Gateway!Absent \/ o \in excused
  BY DEF CacheInv, Types, TypeOK, Present
<1>2. SUFFICES objects'[o] # Gateway!Absent \/ o \in excused'
  BY DEF Present, Gateway!Absent
<1>3. CASE GatewayIdle /\ excused \subseteq excused'
  BY <1>1, <1>3 DEF GatewayIdle
<1>4. ASSUME NEW d \in Payloads, PutBlob(HashBytesHex(d), d)
      PROVE  objects'[o] # Gateway!Absent \/ o \in excused'
  <2>1. objects' = [objects EXCEPT ![HashBytesHex(d)] = Gateway!Blob(d)] /\ excused' = excused \ {HashBytesHex(d)}
    BY <1>4 DEF PutBlob, Gateway!Put, Gateway!Apply
  <2>2. CASE o = HashBytesHex(d)
    BY <1>1, <2>1, <2>2, BlobIsNotAbsent
  <2>3. CASE o # HashBytesHex(d)
    BY <1>1, <2>1, <2>3
  <2> QED BY <2>2, <2>3
<1>5. ASSUME NEW i \in ObjIds, Gateway!Delete(i), excused' = excused \union {i}
      PROVE  objects'[o] # Gateway!Absent \/ o \in excused'
  <2>1. objects' = [objects EXCEPT ![i] = Gateway!Absent]
    BY <1>5 DEF Gateway!Delete, Gateway!Apply
  <2> QED BY <1>1, <1>5, <2>1
<1>6. CASE Gateway!Persist /\ UNCHANGED excused
  BY <1>1, <1>6 DEF Gateway!Persist
<1>7. CASE /\ Gateway!Crash
           /\ excused' = excused \union {i \in ObjIds : objects[i] # Gateway!Absent
                                                         /\ stable[i] = Gateway!Absent}
  BY <1>1, <1>7 DEF Gateway!Crash
<1> QED BY <1>3, <1>4, <1>5, <1>6, <1>7 DEF GatewayStep

-----------------------------------------------------------------------------
(* What a step, of whoever, does to replica r. *)
Keeps(r) == index'[r] = index[r] /\ stored'[r] = stored[r] /\ last'[r] = last[r]

Waits(r) == Keeps(r) /\ call'[r] = call[r]

GivesUp(r) == Keeps(r) /\ call'[r] = NoCall

Moves(r) ==
    /\ Keeps(r) /\ ~At(r, "idle")
    /\ \E place \in {"sent", "lost"} : call'[r] = [call[r] EXCEPT !.at = place]

Stores(r) ==
    /\ Keeps(r) /\ index[r].version_clock < MaxStores
    /\ \E p \in Prompts, d \in Payloads :
          call'[r] = [NoCall EXCEPT !.op = "store", !.at = "request", !.tokens = p,
                                    !.data = d, !.obj_id = HashBytesHex(d)]

Loads(r) ==
    /\ Keeps(r)
    /\ \E p \in Prompts :
          LET res == Lookup(index[r].prefix_map, p, 0)
          IN  /\ res.hit
              /\ call'[r] = [NoCall EXCEPT !.op = "load", !.at = "request", !.tokens = p,
                                           !.obj_id = res.obj_id,
                                           !.prefix_tokens = res.prefix_tokens,
                                           !.max_bytes = res.usable_len_bytes]

IsAnswered(r) ==
    /\ Keeps(r) /\ At(r, "sent")
    /\ \E res \in Responses :
          /\ call'[r] = [call[r] EXCEPT !.at = "answered", !.response = res]
          /\ call[r].op = "store" /\ res.status \in 200 .. 299 => Present(call[r].obj_id)'
          /\ call[r].op = "load" /\ GetRangeAccepts(res.status) =>
                ReadOf(call[r].obj_id, call[r].max_bytes, res)

TakesIn(r) ==
    /\ \E p \in Prompts, d \in Payloads :
          /\ \E usable \in UsableLens(p, d) : index'[r] = StoreEffect(index[r], p, d, usable)
          /\ stored'[r] = stored[r] \union {[tokens |-> p, data |-> d]}
          /\ Present(HashBytesHex(d))'
    /\ index[r].version_clock < MaxStores
    /\ last'[r] = last[r]
    /\ call'[r] = NoCall \/ (At(r, "idle") /\ call'[r] = call[r])

HasLoaded(r) ==
    /\ index'[r] = index[r] /\ stored'[r] = stored[r] /\ call'[r] = NoCall
    /\ call[r].op = "load" /\ At(r, "answered") /\ GetRangeAccepts(call[r].response.status)
    /\ last'[r] = [tokens |-> call[r].tokens, prefix_tokens |-> call[r].prefix_tokens,
                   data |-> call[r].response.data, start |-> call[r].response.start,
                   count |-> call[r].response.count]

Restarts(r) ==
    index'[r] = EmptyIndex /\ stored'[r] = {} /\ last'[r] = NoLoad /\ call'[r] = NoCall

ReplicaStep(r) ==
    \/ Waits(r) \/ GivesUp(r) \/ Moves(r) \/ Stores(r) \/ Loads(r) \/ IsAnswered(r)
    \/ TakesIn(r) \/ HasLoaded(r) \/ Restarts(r)

(* The gateway's answer to a GET is what ReadOf says. *)
LEMMA AnswerToGet ==
    ASSUME CacheInv, NEW r \in Replicas, ServeGet(r)
    PROVE  IsAnswered(r)
<1> DEFINE c == call[r]
           blob == objects[c.obj_id]
           reply == GetObject(GetRangeHeader(c.max_bytes), blob.size)
           res == IF blob = Gateway!Absent THEN Status(404)
                  ELSE IF reply.status = 416 THEN Status(416)
                  ELSE [status |-> reply.status, data |-> blob.data,
                        start |-> reply.start, count |-> reply.count]
<1>1. /\ call \in [Replicas -> Calls] /\ c \in Calls /\ c.op = "load" /\ c.at = "sent"
  BY DEF ServeGet, At, CacheInv, Types
<1>2. call'[r] = [c EXCEPT !.at = "answered", !.response = res] /\ Keeps(r)
  <2>1. call' = [call EXCEPT ![r].at = "answered", ![r].response = res] /\ Keeps(r)
    BY DEF ServeGet, Answer, Keeps
  <2> HIDE DEF res
  <2> QED BY <1>1, <2>1
<1>3. c.obj_id \in ObjIds /\ c.max_bytes \in Int
  <2>1. LoadOK(r)
    BY DEF CacheInv
  <2>2. PICK st \in stored[r] : HashBytesHex(st.data) = c.obj_id
    BY <1>1, <2>1 DEF LoadOK, Asked, FromStore
  <2>3. st.data \in Payloads
    BY DEF CacheInv, Types
  <2> QED BY <1>1, <2>2, <2>3, NameOfPayload DEF Calls
<1> HIDE DEF c, blob, reply, res
<1>4. ASSUME NEW code \in {404, 416}, res = Status(code) PROVE IsAnswered(r)
  <2>1. Status(code) \in Responses /\ ~GetRangeAccepts(Status(code).status)
    BY DEF Status, NoResponse, Responses, GetRangeAccepts
  <2>2. c.op # "store" /\ At(r, "sent")
    BY <1>1 DEF At, c
  <2> QED BY <1>2, <1>4, <2>1, <2>2, Zenon DEF IsAnswered, c
<1>5. CASE blob = Gateway!Absent
  <2>1. res = Status(404)
    BY <1>5 DEF res
  <2> QED BY <1>4, <2>1
<1>6. CASE blob # Gateway!Absent
  <2>1. PICK d \in Payloads : blob = Gateway!Blob(d) /\ HashBytesHex(d) = c.obj_id
    BY <1>3, <1>6 DEF CacheInv, NamesAreHashes, Holds, blob
  <2>2. blob.data = d /\ blob.size = SizeOf[d] /\ SizeOf[d] \in Nat
    BY <2>1, NameOfPayload, IntAssumption DEF Gateway!Blob
  <2>3. CASE reply.status = 416
    <3>1. res = Status(416)
      BY <1>6, <2>3 DEF res
    <3> QED BY <1>4, <3>1
  <2>4. CASE reply.status # 416
    <3>1. res = [status |-> reply.status, data |-> d, start |-> reply.start, count |-> reply.count]
      BY <1>6, <2>2, <2>4 DEF res
    <3>2. reply = GetObject(GetRangeHeader(c.max_bytes), SizeOf[d])
      BY <2>2 DEF reply
    <3>3. reply.status \in Nat /\ reply.start \in Int /\ reply.count \in Int
      <4>1. GetRangeHeader(c.max_bytes) \in Header
        BY <1>3 DEF GetRangeHeader, Header, Field, Fields, Number, NoHeader, Empty
      <4>2. PICK header \in Header : header = GetRangeHeader(c.max_bytes)
        BY <4>1
      <4>3. PICK size \in Nat : size = SizeOf[d]
        BY <2>2
      <4>4. parse_single_range(header, size).start \in Int /\ parse_single_range(header, size).end \in Int
        BY DEF Header, Field, parse_single_range, StartRange, SuffixRange, NoRange, Span
      <4>5. GetObject(header, size).status \in Nat /\ GetObject(header, size).start \in Int
            /\ GetObject(header, size).count \in Int
        BY <4>4 DEF GetObject
      <4> QED BY <3>2, <4>2, <4>3, <4>5
    <3>4. res \in Responses
      BY <3>1, <3>3 DEF Responses
    <3>5. ReadOf(c.obj_id, c.max_bytes, res)
      BY <2>1, <2>4, <3>1, <3>2 DEF ReadOf
    <3> QED BY <1>1, <1>2, <3>4, <3>5, Zenon DEF IsAnswered, At, c
  <2> QED BY <2>3, <2>4
<1> QED BY <1>5, <1>6

(* Every step does one of these to each replica. *)
LEMMA ReplicaSteps ==
    ASSUME CacheInv, Next, NEW t \in Replicas
    PROVE  ReplicaStep(t)
<1>0. /\ DOMAIN index = Replicas /\ DOMAIN last = Replicas /\ DOMAIN stored = Replicas
      /\ call \in [Replicas -> Calls]
      /\ StoreOK(t)
  BY DEF CacheInv, Types
<1>1. ASSUME NEW r \in Replicas, Begin(r) \/ Proceed(r) \/ Restart(r) \/ ServePut(r) \/ ServeGet(r) \/ ServeError(r),
             r # t
      PROVE  Waits(t)
  <2> USE <1>0, <1>1 DEF Waits, Keeps, Indexed
  <2>1. CASE Begin(r)
    BY <2>1, Zenon DEF Begin, StoreSkippingPut, BeginStore, BeginLoad
  <2>2. CASE SendRequest(r) \/ NoHandle(r) \/ TransportFail(r)
    BY <2>2 DEF SendRequest, NoHandle, TransportFail
  <2>3. CASE ReceiveStored(r) \/ ReceiveLoaded(r)
    BY <2>3 DEF ReceiveStored, ReceiveLoaded
  <2>4. CASE Restart(r)
    BY <2>4 DEF Restart
  <2>5. CASE ServePut(r) \/ ServeGet(r) \/ ServeError(r)
    BY <2>5 DEF ServePut, ServeGet, ServeError, Answer
  <2> QED BY <2>1, <2>2, <2>3, <2>4, <2>5 DEF Proceed
<1>2. CASE Begin(t)
  <2>1. ASSUME NEW p \in Prompts, NEW d \in Payloads, StoreSkippingPut(t, p, d) PROVE TakesIn(t)
    <3>1. PICK usable \in UsableLens(p, d) : index'[t] = StoreEffect(index[t], p, d, usable)
      BY <1>0, <2>1 DEF StoreSkippingPut, Indexed
    <3>2. stored'[t] = stored[t] \union {[tokens |-> p, data |-> d]}
      BY <1>0, <2>1 DEF StoreSkippingPut, Indexed
    <3>3. Present(HashBytesHex(d))'
      <4>1. objects' = objects
        BY <2>1 DEF StoreSkippingPut, GatewayIdle
      <4>2. objects[HashBytesHex(d)] # Gateway!Absent \/ HashBytesHex(d) \in excused'
        BY <2>1 DEF StoreSkippingPut
      <4> QED BY <4>1, <4>2 DEF Present, Gateway!Absent
    <3>4. /\ index[t].version_clock < MaxStores /\ last'[t] = last[t]
          /\ At(t, "idle") /\ call'[t] = call[t]
      BY <2>1 DEF StoreSkippingPut
    <3> QED BY <3>1, <3>2, <3>3, <3>4 DEF TakesIn
  <2>2. ASSUME NEW p \in Prompts, NEW d \in Payloads, BeginStore(t, p, d) PROVE Stores(t)
    BY <1>0, <2>2, Zenon DEF BeginStore, Stores, Keeps
  <2>3. ASSUME NEW p \in Prompts, BeginLoad(t, p) PROVE Loads(t)
    <3> DEFINE res == Lookup(index[t].prefix_map, p, 0)
               c == [NoCall EXCEPT !.op = "load", !.at = "request", !.tokens = p,
                                   !.obj_id = res.obj_id, !.prefix_tokens = res.prefix_tokens,
                                   !.max_bytes = res.usable_len_bytes]
    <3>1. res.hit /\ call' = [call EXCEPT ![t] = c] /\ Keeps(t)
      BY <2>3 DEF BeginLoad, Keeps
    <3>2. call'[t] = c
      <4> HIDE DEF c
      <4> QED BY <1>0, <3>1
    <3> QED BY <3>1, <3>2, Zenon DEF Loads
  <2> QED BY <1>2, <2>1, <2>2, <2>3, Zenon DEF Begin, ReplicaStep
<1>3. CASE SendRequest(t)
  BY <1>0, <1>3 DEF SendRequest, Moves, Keeps, At, ReplicaStep
<1>4. CASE NoHandle(t) \/ TransportFail(t)
  BY <1>0, <1>4 DEF NoHandle, TransportFail, GivesUp, Keeps, ReplicaStep
<1>5. CASE ReceiveStored(t)
  <2>1. At(t, "answered") /\ call[t].op = "store" /\ call'[t] = NoCall /\ last' = last
    BY <1>0, <1>5 DEF ReceiveStored
  <2>2. CASE call[t].response.status \notin 200 .. 299
    BY <1>5, <2>1, <2>2 DEF ReceiveStored, GivesUp, Keeps, ReplicaStep
  <2>3. CASE call[t].response.status \in 200 .. 299
    <3>1. PICK p \in Prompts, d \in Payloads : p = call[t].tokens /\ d = call[t].data
      BY <1>0, <2>1 DEF StoreOK
    <3>2. index[t].version_clock < MaxStores /\ Present(HashBytesHex(d))
      BY <1>0, <2>1, <2>3, <3>1 DEF StoreOK
    <3>3. Present(HashBytesHex(d))'
      BY <3>2, GatewaySteps, StepPresent, NameOfPayload
    <3>4. Indexed(t, p, d)
      BY <1>5, <2>3, <3>1 DEF ReceiveStored
    <3>5. PICK usable \in UsableLens(p, d) : index'[t] = StoreEffect(index[t], p, d, usable)
      BY <1>0, <3>4 DEF Indexed
    <3>6. stored'[t] = stored[t] \union {[tokens |-> p, data |-> d]}
      BY <1>0, <3>4 DEF Indexed
    <3>7. TakesIn(t)
      BY <2>1, <3>2, <3>3, <3>5, <3>6 DEF TakesIn
    <3> QED BY <3>7 DEF ReplicaStep
  <2> QED BY <2>2, <2>3
<1>6. CASE ReceiveLoaded(t)
  <2>1. /\ At(t, "answered") /\ call[t].op = "load" /\ call'[t] = NoCall
        /\ index' = index /\ stored' = stored
    BY <1>0, <1>6 DEF ReceiveLoaded
  <2>2. CASE GetRangeAccepts(call[t].response.status)
    BY <1>0, <1>6, <2>1, <2>2 DEF ReceiveLoaded, HasLoaded, ReplicaStep
  <2>3. CASE ~GetRangeAccepts(call[t].response.status)
    BY <1>6, <2>1, <2>3 DEF ReceiveLoaded, GivesUp, Keeps, ReplicaStep
  <2> QED BY <2>2, <2>3
<1>7. CASE Restart(t)
  BY <1>0, <1>7 DEF Restart, Restarts, ReplicaStep
<1>8. CASE ServePut(t)
  <2>1. /\ At(t, "sent") /\ call[t].op = "store" /\ Keeps(t)
        /\ PutBlob(call[t].obj_id, call[t].data)
        /\ call' = [call EXCEPT ![t].at = "answered", ![t].response = Status(200)]
    BY <1>8 DEF ServePut, Keeps, Answer
  <2>2. PICK d \in Payloads : d = call[t].data /\ call[t].obj_id = HashBytesHex(d)
    BY <1>0, <2>1 DEF StoreOK
  <2>3. objects \in [ObjIds -> Blobs] /\ HashBytesHex(d) \in ObjIds
    BY NameOfPayload DEF CacheInv, Types, TypeOK
  <2>4. objects'[HashBytesHex(d)] = Gateway!Blob(d)
    BY <2>1, <2>2, <2>3 DEF PutBlob, Gateway!Put, Gateway!Apply
  <2>5. Present(HashBytesHex(d))'
    BY <2>4, BlobIsNotAbsent DEF Present, Gateway!Absent
  <2>6. Status(200) \in Responses
    BY DEF Status, NoResponse, Responses
  <2>7. call'[t] = [call[t] EXCEPT !.at = "answered", !.response = Status(200)]
    BY <1>0, <2>1
  <2>8. Present(call[t].obj_id)'
    <3>1. objects'[call[t].obj_id] # Gateway!Absent
      BY <2>2, <2>4, BlobIsNotAbsent
    <3>2. call'[t].obj_id = call[t].obj_id
      BY <1>0, <2>7 DEF Calls
    <3> QED BY <3>1, <3>2 DEF Present, Gateway!Absent
  <2>9. IsAnswered(t)
    BY <2>1, <2>6, <2>7, <2>8, Zenon DEF IsAnswered
  <2> QED BY <2>9 DEF ReplicaStep
<1>9. CASE ServeError(t)
  <2>1. /\ Keeps(t) /\ At(t, "sent")
        /\ call'[t] = [call[t] EXCEPT !.at = "answered", !.response = Status(500)]
    BY <1>0, <1>9 DEF ServeError, Answer, Keeps
  <2>2. Status(500) \in Responses /\ Status(500).status = 500
    BY DEF Status, NoResponse, Responses
  <2>3. Status(500).status \notin 200 .. 299 /\ ~GetRangeAccepts(Status(500).status)
    BY <2>2 DEF GetRangeAccepts
  <2>4. PICK res :
           /\ res \in Responses
           /\ call'[t] = [call[t] EXCEPT !.at = "answered", !.response = res]
           /\ res.status \notin 200 .. 299 /\ ~GetRangeAccepts(res.status)
    <3>1. PICK res : res = Status(500)
      OBVIOUS
    <3>2. res \in Responses /\ res.status \notin 200 .. 299 /\ ~GetRangeAccepts(res.status)
      BY <2>2, <2>3, <3>1
    <3>3. call'[t] = [call[t] EXCEPT !.at = "answered", !.response = res]
      BY <2>1, <3>1, Zenon
    <3> QED BY <3>2, <3>3, Zenon
  <2>5. IsAnswered(t)
    BY <2>1, <2>4, Zenon DEF IsAnswered
  <2> QED BY <2>5 DEF ReplicaStep
<1>10. CASE ServeLate \/ Flush \/ \E o \in ObjIds : DeleteBlob(o)
  BY <1>10 DEF ServeLate, Flush, DeleteBlob, Waits, Keeps, ReplicaStep
<1>11. CASE GatewayCrash
  BY <1>11 DEF GatewayCrash, At, Waits, Moves, Keeps, ReplicaStep
<1> QED BY <1>1, <1>2, <1>3, <1>4, <1>5, <1>6, <1>7, <1>8, <1>9, <1>10, <1>11, AnswerToGet
        DEF Next, Proceed, ReplicaStep

-----------------------------------------------------------------------------
(* Stored payloads are prompts and payloads; what was stored stays a reason. *)
LEMMA StoredTypes ==
    ASSUME CacheInv, NEW r \in Replicas, NEW s \in stored[r]
    PROVE  s.tokens \in Prompts /\ s.data \in Payloads
BY DEF CacheInv, Types

(* An entry that came from a Store still does when more is stored. *)
LEMMA StoresAccumulate ==
    ASSUME NEW r \in Replicas, stored[r] \subseteq stored'[r],
           NEW h, NEW obj_id, NEW len, FromStore(r, h, obj_id, len)
    PROVE  FromStore(r, h, obj_id, len)'
BY DEF FromStore

(* Whatever a Lookup of replica r hits now, BeginLoad may ask for. *)
HitsAreAsked(r) ==
    \A p \in Prompts :
        LET res == Lookup(index[r].prefix_map, p, 0)
        IN  res.hit => /\ Asked(r, p, res.prefix_tokens, res.obj_id, res.usable_len_bytes)
                       /\ res.prefix_tokens \in Nat /\ res.obj_id \in ObjIds
                       /\ res.usable_len_bytes \in Int

(* The calls keep their types. *)
LEMMA StepCall ==
    ASSUME CacheInv, NEW r \in Replicas, HitsAreAsked(r), ReplicaStep(r)
    PROVE  call'[r] \in Calls
<1>1. call[r] \in Calls
  BY DEF CacheInv, Types
<1>2. NoCall \in Calls
  BY DEF NoCall, NoResponse, Calls, Responses
<1>3. CASE Moves(r)
  BY <1>1, <1>3 DEF Moves, Calls
<1>4. CASE Stores(r)
  <2>1. PICK p \in Prompts, d \in Payloads :
          call'[r] = [NoCall EXCEPT !.op = "store", !.at = "request", !.tokens = p,
                                    !.data = d, !.obj_id = HashBytesHex(d)]
    BY <1>4, Zenon DEF Stores
  <2>2. HashBytesHex(d) \in ObjIds
    BY NameOfPayload
  <2> QED BY <1>2, <2>1, <2>2, Zenon DEF Calls
<1>5. CASE Loads(r)
  <2>1. PICK p \in Prompts :
          /\ Lookup(index[r].prefix_map, p, 0).hit
          /\ call'[r] = [NoCall EXCEPT !.op = "load", !.at = "request", !.tokens = p,
                           !.obj_id = Lookup(index[r].prefix_map, p, 0).obj_id,
                           !.prefix_tokens = Lookup(index[r].prefix_map, p, 0).prefix_tokens,
                           !.max_bytes = Lookup(index[r].prefix_map, p, 0).usable_len_bytes]
    BY <1>5, Zenon DEF Loads
  <2>2. PICK res : res = Lookup(index[r].prefix_map, p, 0)
    OBVIOUS
  <2>3. res.prefix_tokens \in Nat /\ res.obj_id \in ObjIds /\ res.usable_len_bytes \in Int
    BY <2>1, <2>2 DEF HitsAreAsked
  <2>4. call'[r] = [NoCall EXCEPT !.op = "load", !.at = "request", !.tokens = p,
                      !.obj_id = res.obj_id, !.prefix_tokens = res.prefix_tokens,
                      !.max_bytes = res.usable_len_bytes]
    BY <2>1, <2>2
  <2> QED BY <1>2, <2>3, <2>4, Zenon DEF Calls
<1>6. CASE IsAnswered(r)
  <2>1. PICK res \in Responses : call'[r] = [call[r] EXCEPT !.at = "answered", !.response = res]
    BY <1>6, Zenon DEF IsAnswered
  <2> QED BY <1>1, <2>1, Zenon DEF Calls
<1> QED BY <1>1, <1>2, <1>3, <1>4, <1>5, <1>6
        DEF ReplicaStep, Waits, GivesUp, TakesIn, HasLoaded, Restarts

(* A Store under way keeps its justification. *)
LEMMA StepStore ==
    ASSUME CacheInv, GatewayStep, NEW r \in Replicas, ReplicaStep(r)
    PROVE  StoreOK(r)'
<1>0. StoreOK(r) /\ call[r] \in Calls
  BY DEF CacheInv, Types
<1>1. CASE call'[r] = NoCall
  BY <1>1 DEF StoreOK, NoCall
<1>2. CASE call[r].op = "store" /\ ~At(r, "idle") /\ index'[r] = index[r]
           /\ \/ call'[r] = call[r]
              \/ \E place \in {"sent", "lost"} : call'[r] = [call[r] EXCEPT !.at = place]
  <2>1. PICK o \in ObjIds : o = call[r].obj_id
    BY <1>0, <1>2, NameOfPayload DEF StoreOK
  <2>2. /\ call'[r].op = "store" /\ call'[r].at # "idle" /\ index'[r].version_clock < MaxStores
        /\ call'[r].tokens = call[r].tokens /\ call'[r].data = call[r].data
        /\ call'[r].obj_id = call[r].obj_id /\ call'[r].response = call[r].response
        /\ call'[r].at = "answered" => call[r].at = "answered"
    BY <1>0, <1>2, Zenon DEF StoreOK, At, Calls
  <2>3. call[r].at = "answered" /\ call[r].response.status \in 200 .. 299 => Present(o)'
    BY <1>0, <1>2, <2>1, StepPresent DEF StoreOK, At
  <2>4. At(r, "answered")' /\ call'[r].response.status \in 200 .. 299 => Present(call[r].obj_id)'
    BY <2>1, <2>2, <2>3 DEF At, Present
  <2>5. /\ call[r].tokens \in Prompts /\ call[r].data \in Payloads
        /\ call[r].obj_id = HashBytesHex(call[r].data)
    BY <1>0, <1>2 DEF StoreOK
  <2> QED BY <2>2, <2>4, <2>5 DEF StoreOK, At
<1>3. CASE call[r].op # "store" /\ call'[r].op = call[r].op
  BY <1>3 DEF StoreOK
<1>4. CASE Stores(r)
  <2>1. PICK p \in Prompts, d \in Payloads :
          call'[r] = [NoCall EXCEPT !.op = "store", !.at = "request", !.tokens = p,
                                    !.data = d, !.obj_id = HashBytesHex(d)]
    BY <1>4, Zenon DEF Stores
  <2>2. /\ call'[r].at = "request" /\ call'[r].tokens = p /\ call'[r].data = d
        /\ call'[r].obj_id = HashBytesHex(d)
    BY <2>1 DEF NoCall
  <2>3. index'[r].version_clock < MaxStores
    BY <1>4 DEF Stores, Keeps
  <2> QED BY <2>2, <2>3 DEF StoreOK, At
<1>5. CASE Loads(r)
  <2>1. call'[r].op = "load"
    BY <1>5 DEF Loads, NoCall
  <2> QED BY <2>1 DEF StoreOK
<1>6. CASE IsAnswered(r) /\ call[r].op = "store"
  <2>1. PICK res \in Responses :
          /\ call'[r] = [call[r] EXCEPT !.at = "answered", !.response = res]
          /\ res.status \in 200 .. 299 => Present(call[r].obj_id)'
    BY <1>6, Zenon DEF IsAnswered
  <2>2. /\ call'[r].op = "store" /\ call'[r].at = "answered" /\ call'[r].response = res
        /\ call'[r].tokens = call[r].tokens /\ call'[r].data = call[r].data
        /\ call'[r].obj_id = call[r].obj_id
    BY <1>0, <1>6, <2>1 DEF Calls
  <2>3. index'[r].version_clock < MaxStores
    BY <1>0, <1>6 DEF IsAnswered, Keeps, StoreOK
  <2>4. call'[r].response.status \in 200 .. 299 => Present(call[r].obj_id)'
    BY <2>1, <2>2
  <2> QED BY <1>0, <1>6, <2>2, <2>3, <2>4 DEF StoreOK, At
<1>7. CASE Waits(r) \/ Moves(r)
  <2>1. call'[r].op = call[r].op /\ index'[r] = index[r]
    BY <1>0, <1>7 DEF Waits, Moves, Keeps, Calls
  <2>2. CASE call[r].op = "store"
    <3>1. ~At(r, "idle")
      BY <1>0, <2>2 DEF StoreOK
    <3> QED BY <1>2, <1>7, <2>1, <2>2, <3>1 DEF Waits, Moves
  <2> QED BY <1>3, <2>1, <2>2
<1>8. CASE IsAnswered(r) /\ call[r].op # "store"
  <2>1. call'[r].op = call[r].op
    BY <1>0, <1>8 DEF IsAnswered, Calls
  <2> QED BY <1>3, <1>8, <2>1
<1>9. CASE TakesIn(r)
  <2>1. call'[r] = NoCall \/ (call[r].op # "store" /\ call'[r] = call[r])
    BY <1>0, <1>9 DEF TakesIn, StoreOK
  <2> QED BY <1>1, <1>3, <2>1
<1> QED BY <1>1, <1>4, <1>5, <1>6, <1>7, <1>8, <1>9 DEF ReplicaStep, GivesUp, HasLoaded, Restarts

(* So does a Load: the entry it follows may be overwritten and the object put  *)
(* again meanwhile, but the payload it was stored from stays the reason.       *)
LEMMA AskedStays ==
    ASSUME NEW r \in Replicas, stored[r] \subseteq stored'[r],
           NEW tokens, NEW n, NEW obj_id, NEW len, Asked(r, tokens, n, obj_id, len)
    PROVE  Asked(r, tokens, n, obj_id, len)'
<1>1. PICK h : h = HashTokens(tokens, n)
  OBVIOUS
<1>2. FromStore(r, h, obj_id, len)
  BY <1>1 DEF Asked
<1>3. FromStore(r, h, obj_id, len)'
  BY <1>2, StoresAccumulate
<1> QED BY <1>1, <1>3 DEF Asked

(* A Load under way keeps asking for an entry its replica had. *)
LEMMA StepLoad ==
    ASSUME CacheInv, NEW r \in Replicas, HitsAreAsked(r), ReplicaStep(r)
    PROVE  LoadOK(r)'
<1>0. LoadOK(r) /\ call[r] \in Calls
  BY DEF CacheInv, Types
<1>1. CASE call'[r].op # "load"
  BY <1>1 DEF LoadOK
<1>2. ASSUME call'[r].op = "load", call[r].op = "load", stored[r] \subseteq stored'[r],
             call'[r].tokens = call[r].tokens, call'[r].prefix_tokens = call[r].prefix_tokens,
             call'[r].obj_id = call[r].obj_id, call'[r].max_bytes = call[r].max_bytes,
             call'[r].at = "answered" /\ GetRangeAccepts(call'[r].response.status)
                => ReadOf(call[r].obj_id, call[r].max_bytes, call'[r].response)
      PROVE  LoadOK(r)'
  <2>1. PICK p, n, o, len : /\ p = call[r].tokens /\ n = call[r].prefix_tokens
                            /\ o = call[r].obj_id /\ len = call[r].max_bytes
    BY Zenon
  <2>2. Asked(r, p, n, o, len)
    BY <1>0, <1>2, <2>1 DEF LoadOK
  <2>3. Asked(r, p, n, o, len)'
    BY <1>2, <2>2, AskedStays
  <2>4. Asked(r, call[r].tokens, call[r].prefix_tokens, call[r].obj_id, call[r].max_bytes)'
    BY <1>2, <2>1, <2>3 DEF Asked, FromStore
  <2>5. ASSUME At(r, "answered")', GetRangeAccepts(call'[r].response.status)
        PROVE  ReadOf(call[r].obj_id, call[r].max_bytes, call[r].response)'
    <3>1. PICK res : res = call'[r].response
      OBVIOUS
    <3>2. ReadOf(o, len, res)
      BY <1>2, <2>1, <2>5, <3>1 DEF At
    <3>3. call'[r].obj_id = o /\ call'[r].max_bytes = len
      BY <1>2, <2>1
    <3> QED BY <3>1, <3>2, <3>3, Zenon DEF ReadOf
  <2> QED BY <2>4, <2>5 DEF LoadOK
<1>3. CASE Waits(r) \/ Moves(r)
  <2>1. /\ call'[r].op = call[r].op /\ stored'[r] = stored[r]
        /\ call'[r].tokens = call[r].tokens /\ call'[r].prefix_tokens = call[r].prefix_tokens
        /\ call'[r].obj_id = call[r].obj_id /\ call'[r].max_bytes = call[r].max_bytes
        /\ call'[r].response = call[r].response
        /\ call'[r].at = "answered" => call[r].at = "answered"
    BY <1>0, <1>3 DEF Waits, Moves, Keeps, Calls
  <2>2. CASE call[r].op = "load"
    BY <1>0, <1>2, <2>1, <2>2, Zenon DEF LoadOK, At
  <2> QED BY <1>1, <2>1, <2>2
<1>4. CASE IsAnswered(r)
  <2>1. PICK res \in Responses :
          /\ call'[r] = [call[r] EXCEPT !.at = "answered", !.response = res]
          /\ call[r].op = "load" /\ GetRangeAccepts(res.status) =>
                ReadOf(call[r].obj_id, call[r].max_bytes, res)
    BY <1>4, Zenon DEF IsAnswered
  <2>2. /\ call'[r].op = call[r].op /\ stored'[r] = stored[r]
        /\ call'[r].tokens = call[r].tokens /\ call'[r].prefix_tokens = call[r].prefix_tokens
        /\ call'[r].obj_id = call[r].obj_id /\ call'[r].max_bytes = call[r].max_bytes
        /\ call'[r].response = res
    BY <1>0, <1>4, <2>1, Zenon DEF IsAnswered, Keeps, Calls
  <2>3. CASE call[r].op = "load"
    BY <1>2, <2>1, <2>2, <2>3
  <2> QED BY <1>1, <2>2, <2>3
<1>5. CASE Stores(r)
  <2>1. call'[r].op = "store"
    BY <1>5 DEF Stores, NoCall
  <2> QED BY <1>1, <2>1
<1>6. CASE Loads(r)
  <2>1. PICK p \in Prompts :
          /\ Lookup(index[r].prefix_map, p, 0).hit
          /\ call'[r] = [NoCall EXCEPT !.op = "load", !.at = "request", !.tokens = p,
                           !.obj_id = Lookup(index[r].prefix_map, p, 0).obj_id,
                           !.prefix_tokens = Lookup(index[r].prefix_map, p, 0).prefix_tokens,
                           !.max_bytes = Lookup(index[r].prefix_map, p, 0).usable_len_bytes]
    BY <1>6, Zenon DEF Loads
  <2>2. PICK res : res = Lookup(index[r].prefix_map, p, 0)
    OBVIOUS
  <2>3. PICK n, o, len : n = res.prefix_tokens /\ o = res.obj_id /\ len = res.usable_len_bytes
    OBVIOUS
  <2>4. Asked(r, p, n, o, len)
    BY <2>1, <2>2, <2>3 DEF HitsAreAsked
  <2>5. Asked(r, p, n, o, len)'
    BY <1>6, <2>4, AskedStays DEF Loads, Keeps
  <2>6. /\ call'[r].tokens = p /\ call'[r].prefix_tokens = n /\ call'[r].obj_id = o
        /\ call'[r].max_bytes = len /\ call'[r].at = "request"
    BY <2>1, <2>2, <2>3 DEF NoCall
  <2>7. Asked(r, call[r].tokens, call[r].prefix_tokens, call[r].obj_id, call[r].max_bytes)'
    BY <2>5, <2>6, Zenon DEF Asked, FromStore
  <2> QED BY <2>6, <2>7 DEF LoadOK, At
<1>7. CASE call'[r] = NoCall
  BY <1>1, <1>7 DEF NoCall
<1>8. CASE TakesIn(r) /\ call'[r] = call[r]
  <2>1. stored[r] \subseteq stored'[r]
    BY <1>8 DEF TakesIn
  <2>2. CASE call[r].op = "load"
    BY <1>0, <1>2, <1>8, <2>1, <2>2 DEF LoadOK, At
  <2> QED BY <1>1, <1>8, <2>2
<1> QED BY <1>3, <1>4, <1>5, <1>6, <1>7, <1>8, Zenon DEF ReplicaStep, GivesUp, TakesIn, HasLoaded, Restarts

(* The last load stays what its replica asked for and the gateway had. *)
LEMMA StepLast ==
    ASSUME CacheInv, NEW r \in Replicas, ReplicaStep(r)
    PROVE  LastOK(r)' /\ (last'[r] = NoLoad \/ last'[r].data \in Payloads)
<1>0. LastOK(r) /\ LoadOK(r)
  BY DEF CacheInv
<1>1. ASSUME NEW p, NEW n, NEW o, NEW len, Asked(r, p, n, o, len)',
             last'[r].tokens = p, last'[r].prefix_tokens = n, ReadOf(o, len, last'[r])
      PROVE  LastOK(r)' /\ last'[r].data \in Payloads
  <2>1. Asked(r, last[r].tokens, last[r].prefix_tokens, o, len)'
    BY <1>1 DEF Asked, FromStore
  <2>2. ReadOf(o, len, last[r])'
    BY <1>1 DEF ReadOf
  <2> QED BY <1>1, <2>1, <2>2 DEF LastOK, ReadOf
<1>2. CASE last'[r] = NoLoad
  BY <1>2 DEF LastOK, NoLoad
<1>3. CASE last'[r] # NoLoad /\ last'[r] = last[r] /\ stored[r] \subseteq stored'[r]
  <2>1. PICK o, len : /\ Asked(r, last[r].tokens, last[r].prefix_tokens, o, len)
                      /\ ReadOf(o, len, last[r])
    BY <1>0, <1>3 DEF LastOK
  <2>2. PICK p, n : p = last[r].tokens /\ n = last[r].prefix_tokens
    OBVIOUS
  <2>3. Asked(r, p, n, o, len)'
    BY <1>3, <2>1, <2>2, AskedStays
  <2> QED BY <1>1, <1>3, <2>1, <2>2, <2>3
<1>4. CASE HasLoaded(r)
  <2>1. /\ Asked(r, call[r].tokens, call[r].prefix_tokens, call[r].obj_id, call[r].max_bytes)
        /\ ReadOf(call[r].obj_id, call[r].max_bytes, call[r].response)
    BY <1>0, <1>4 DEF HasLoaded, LoadOK
  <2>2. PICK p, n, o, len : /\ p = call[r].tokens /\ n = call[r].prefix_tokens
                            /\ o = call[r].obj_id /\ len = call[r].max_bytes
    BY Zenon
  <2>3. Asked(r, p, n, o, len)'
    BY <1>4, <2>1, <2>2, AskedStays DEF HasLoaded
  <2>4. PICK res : res = call[r].response
    OBVIOUS
  <2>5. last'[r] = [tokens |-> p, prefix_tokens |-> n, data |-> res.data, start |-> res.start,
                    count |-> res.count]
    BY <1>4, <2>2, <2>4, Zenon DEF HasLoaded
  <2>6. PICK l : l = last'[r]
    OBVIOUS
  <2>7. l.tokens = p /\ l.prefix_tokens = n /\ l.data = res.data /\ l.start = res.start /\ l.count = res.count
    BY <2>5, <2>6
  <2>8. ReadOf(o, len, res)
    BY <2>1, <2>2, <2>4
  <2>9. ReadOf(o, len, l)
    BY <2>7, <2>8 DEF ReadOf
  <2> QED BY <1>1, <2>3, <2>6, <2>7, <2>9
<1>5. CASE TakesIn(r)
  <2>1. last'[r] = last[r] /\ stored[r] \subseteq stored'[r]
    BY <1>5 DEF TakesIn
  <2> QED BY <1>2, <1>3, <2>1, Zenon DEF LastOK, ReadOf
<1>6. CASE Keeps(r)
  BY <1>2, <1>3, <1>6 DEF Keeps, LastOK, ReadOf
<1> QED BY <1>2, <1>4, <1>5, <1>6, Zenon
        DEF ReplicaStep, Waits, GivesUp, Moves, Stores, Loads, IsAnswered, Restarts

-----------------------------------------------------------------------------
(* Every replica keeps its own index, handle, call and history. *)
LEMMA StepDomains ==
    ASSUME CacheInv, Next
    PROVE  /\ DOMAIN index' = Replicas /\ DOMAIN last' = Replicas
           /\ handle' \in [Replicas -> {"unset", "live", "null", "freed"}]
           /\ call' = [t \in Replicas |-> call'[t]]
           /\ stored' = [t \in Replicas |-> stored'[t]]
<1>1. /\ DOMAIN index = Replicas /\ DOMAIN last = Replicas
      /\ handle \in [Replicas -> {"unset", "live", "null", "freed"}]
      /\ call = [t \in Replicas |-> call[t]]
      /\ stored = [t \in Replicas |-> stored[t]]
  BY DEF CacheInv, Types
<1>2. ASSUME NEW r \in Replicas, Begin(r)
      PROVE  /\ DOMAIN index' = DOMAIN index /\ DOMAIN last' = DOMAIN last /\ handle' = handle
             /\ call' = [t \in Replicas |-> call'[t]]
             /\ stored' = [t \in Replicas |-> stored'[t]]
  <2>1. CASE \E tokens \in Prompts, data \in Payloads : StoreSkippingPut(r, tokens, data)
    BY <1>1, <2>1, Zenon DEF StoreSkippingPut, Indexed
  <2>2. CASE \E tokens \in Prompts, data \in Payloads : BeginStore(r, tokens, data)
    BY <1>1, <2>2 DEF BeginStore
  <2>3. CASE \E tokens \in Prompts : BeginLoad(r, tokens)
    BY <1>1, <2>3 DEF BeginLoad
  <2> QED BY <1>2, <2>1, <2>2, <2>3, Zenon DEF Begin
<1>3. ASSUME NEW r \in Replicas, Proceed(r) \/ Restart(r)
      PROVE  /\ DOMAIN index' = DOMAIN index /\ DOMAIN last' = DOMAIN last
             /\ handle' \in [Replicas -> {"unset", "live", "null", "freed"}]
             /\ call' = [t \in Replicas |-> call'[t]]
             /\ stored' = [t \in Replicas |-> stored'[t]]
  <2>1. CASE SendRequest(r)
    BY <1>1, <2>1 DEF SendRequest
  <2>2. CASE NoHandle(r)
    BY <1>1, <2>2 DEF NoHandle
  <2>3. CASE ReceiveStored(r)
    BY <1>1, <2>3 DEF ReceiveStored, Indexed
  <2>4. CASE ReceiveLoaded(r)
    BY <1>1, <2>4 DEF ReceiveLoaded
  <2>5. CASE TransportFail(r)
    BY <1>1, <2>5 DEF TransportFail
  <2>6. CASE Restart(r)
    BY <1>1, <2>6, Zenon DEF Restart
  <2> QED BY <1>3, <2>1, <2>2, <2>3, <2>4, <2>5, <2>6 DEF Proceed
<1>4. ASSUME NEW r \in Replicas, ServePut(r) \/ ServeGet(r) \/ ServeError(r)
      PROVE  UNCHANGED <<index, handle, last, stored>> /\ call' = [t \in Replicas |-> call'[t]]
  BY <1>1, <1>4 DEF ServePut, ServeGet, ServeError, Answer
<1>5. CASE ServeLate \/ (\E o \in ObjIds : DeleteBlob(o)) \/ Flush
  BY <1>1, <1>5 DEF ServeLate, DeleteBlob, Flush
<1>6. CASE GatewayCrash
  BY <1>1, <1>6 DEF GatewayCrash
<1> QED BY <1>1, <1>2, <1>3, <1>4, <1>5, <1>6 DEF Next

(* The system starts in the invariant. *)
LEMMA InitCache == Init => CacheInv
<1> SUFFICES ASSUME Init PROVE CacheInv
  OBVIOUS
<1>1. objects = [o \in ObjIds |-> Gateway!Absent] /\ stable = objects
  BY DEF Init, Gateway!Init
<1>2. \A r \in Replicas : /\ index[r] = EmptyIndex /\ handle[r] = "unset" /\ call[r] = NoCall
                          /\ last[r] = NoLoad /\ stored[r] = {}
  BY DEF Init
<1>3. NoCall \in Calls /\ NoCall.op = "none" /\ NoCall.at = "idle"
  BY DEF NoCall, NoResponse, Calls, Responses
<1>4. /\ DOMAIN EmptyIndex.prefix_map = {} /\ DOMAIN EmptyIndex.obj_table = {}
      /\ EmptyIndex.version_clock = 0
  BY DEF EmptyIndex
<1>5. objects \in [ObjIds -> Blobs] /\ stable \in [ObjIds -> Blobs]
  BY <1>1 DEF Blobs
<1>6. TypeOK
  BY <1>2, <1>3, <1>4, <1>5, ReplicaStoresAssumption DEF TypeOK, Init
<1>7. Types
  BY <1>2, <1>3, <1>6 DEF Types, Init
<1>8. NamesAreHashes
  BY <1>1 DEF NamesAreHashes, Holds, Init
<1>9. IndexedPresentUnlessLost
  BY <1>2, <1>4 DEF IndexedPresentUnlessLost
<1>10. \A r \in Replicas : IndexOK(r) /\ StoreOK(r) /\ LoadOK(r) /\ LastOK(r)
  BY <1>2, <1>3, <1>4, Zenon DEF IndexOK, StoreOK, LoadOK, LastOK
<1> QED BY <1>7, <1>8, <1>9, <1>10 DEF CacheInv

-----------------------------------------------------------------------------
(* What a Store left in an index names an object and a length. *)
LEMMA NamedObjects ==
    ASSUME CacheInv, NEW r \in Replicas, NEW h, NEW obj_id, NEW len, FromStore(r, h, obj_id, len)
    PROVE  obj_id \in ObjIds /\ len \in Int
<1>1. PICK s \in stored[r] : \E n \in BlockLens(Len(s.tokens)) :
         /\ HashBytesHex(s.data) = obj_id
         /\ len \in UsableBytes(n, Len(s.tokens), SizeOf[s.data])
  BY DEF FromStore
<1>2. PICK n \in BlockLens(Len(s.tokens)) : len \in UsableBytes(n, Len(s.tokens), SizeOf[s.data])
  BY <1>1
<1>3. s.tokens \in Prompts /\ s.data \in Payloads
  BY StoredTypes
<1>4. Len(s.tokens) \in Nat /\ n \in 1 .. Len(s.tokens) /\ SizeOf[s.data] \in 0 .. IntMax
  BY <1>3, PromptFacts, NameOfPayload
<1> QED BY <1>1, <1>2, <1>3, <1>4, UsableBytesType, NameOfPayload

(* One Store's worth of entries. *)
LEMMA StepIndex ==
    ASSUME CacheInv, GatewayStep, NEW r \in Replicas, ReplicaStep(r)
    PROVE  /\ IndexOK(r)'
           /\ \A h \in DOMAIN index'[r].prefix_map : Present(index[r].prefix_map[h].obj_id)'
           /\ DOMAIN index'[r].prefix_map \subseteq Hashes
           /\ DOMAIN index'[r].obj_table \subseteq ObjIds
           /\ index'[r].version_clock \in 0 .. MaxStores
           /\ stored'[r] \in SUBSET [tokens : Prompts, data : Payloads]
<1>0. IndexOK(r) /\ \A h \in DOMAIN index[r].prefix_map : Present(index[r].prefix_map[h].obj_id)
  BY DEF CacheInv, IndexedPresentUnlessLost, Present
<1>1. DOMAIN index[r].prefix_map \subseteq Hashes /\ DOMAIN index[r].obj_table \subseteq ObjIds
  BY DEF CacheInv, Types, TypeOK
<1>2. index[r].version_clock \in 0 .. MaxStores
  BY DEF CacheInv, Types, TypeOK
<1>3. stored[r] \in SUBSET [tokens : Prompts, data : Payloads]
  BY DEF CacheInv, Types
<1>4. ASSUME NEW h \in DOMAIN index[r].prefix_map, index'[r].prefix_map[h] = index[r].prefix_map[h],
             stored[r] \subseteq stored'[r]
      PROVE  /\ FromStore(r, h, index[r].prefix_map[h].obj_id, index[r].prefix_map[h].usable_len_bytes)'
             /\ Present(index[r].prefix_map[h].obj_id)'
  <2>1. PICK e : e = index[r].prefix_map[h]
    OBVIOUS
  <2>2. PICK o, len : o = e.obj_id /\ len = e.usable_len_bytes
    OBVIOUS
  <2>3. FromStore(r, h, o, len) /\ Present(o)
    BY <1>0, <2>1, <2>2 DEF IndexOK
  <2>4. FromStore(r, h, o, len)' /\ o \in ObjIds
    BY <1>4, <2>3, StoresAccumulate, NamedObjects
  <2>5. Present(o)'
    BY <2>3, <2>4, StepPresent
  <2>6. index'[r].prefix_map[h].obj_id = o /\ index'[r].prefix_map[h].usable_len_bytes = len
    BY <1>4, <2>1, <2>2, Zenon
  <2> QED BY <2>4, <2>5, <2>6, Zenon DEF FromStore, Present
<1>5. CASE index'[r] = index[r] /\ stored'[r] = stored[r]
  BY <1>0, <1>1, <1>2, <1>3, <1>4, <1>5 DEF IndexOK
<1>6. CASE Restarts(r)
  <2>1. DOMAIN index'[r].prefix_map = {} /\ DOMAIN index'[r].obj_table = {}
        /\ index'[r].version_clock = 0 /\ stored'[r] = {}
    BY <1>6, EmptyIndexFacts, Zenon DEF Restarts
  <2>2. 0 \in 0 .. MaxStores
    BY ReplicaStoresAssumption
  <2> QED BY <2>1, <2>2 DEF IndexOK
<1>7. CASE TakesIn(r)
  <2>1. PICK p \in Prompts, d \in Payloads :
           /\ \E usable \in UsableLens(p, d) : index'[r] = StoreEffect(index[r], p, d, usable)
           /\ stored'[r] = stored[r] \union {[tokens |-> p, data |-> d]}
           /\ Present(HashBytesHex(d))'
    BY <1>7 DEF TakesIn
  <2>2. PICK usable \in UsableLens(p, d) : index'[r] = StoreEffect(index[r], p, d, usable)
    BY <2>1
  <2>3. TookIn(index[r], index'[r], p, d, usable)
    BY <2>2, StoreEffectFacts
  <2>4. stored[r] \subseteq stored'[r] /\ [tokens |-> p, data |-> d] \in stored'[r]
    BY <2>1
  <2>5. ASSUME NEW h \in BlockHashes(p)
        PROVE  /\ FromStore(r, h, index[r].prefix_map[h].obj_id, index[r].prefix_map[h].usable_len_bytes)'
               /\ Present(index[r].prefix_map[h].obj_id)'
    <3>1. PICK n \in BlockLens(Len(p)) :
             /\ HashTokens(p, n) = h
             /\ usable[n] \in UsableBytes(n, Len(p), SizeOf[d])
             /\ index'[r].prefix_map[h] = [obj_id |-> HashBytesHex(d), usable_len_bytes |-> usable[n],
                                           version |-> index[r].version_clock + 1]
      BY <2>3 DEF TookIn
    <3>2. index'[r].prefix_map[h].obj_id = HashBytesHex(d)
          /\ index'[r].prefix_map[h].usable_len_bytes = usable[n]
      BY <3>1
    <3>3. Present(index[r].prefix_map[h].obj_id)'
      BY <2>1, <3>2 DEF Present
    <3>4. PICK s \in stored'[r] : s = [tokens |-> p, data |-> d]
      BY <2>4
    <3>5. s.tokens = p /\ s.data = d
      BY <3>4
    <3> QED BY <3>1, <3>2, <3>3, <3>5, Zenon DEF FromStore
  <2>6. /\ DOMAIN index'[r].prefix_map = DOMAIN index[r].prefix_map \union BlockHashes(p)
        /\ \A h \in DOMAIN index[r].prefix_map \ BlockHashes(p) :
              index'[r].prefix_map[h] = index[r].prefix_map[h]
        /\ DOMAIN index'[r].obj_table = DOMAIN index[r].obj_table \union {HashBytesHex(d)}
        /\ index'[r].version_clock = index[r].version_clock + 1
    BY <2>3 DEF TookIn
  <2>7. HashBytesHex(d) \in ObjIds /\ BlockHashes(p) \subseteq Hashes
    BY NameOfPayload, HashesOfBlocks, Zenon
  <2>8. index'[r].version_clock \in 0 .. MaxStores
    <3>1. PICK v : v = index[r].version_clock
      OBVIOUS
    <3>2. v < MaxStores /\ v \in 0 .. MaxStores /\ index'[r].version_clock = v + 1
      BY <1>2, <1>7, <2>6, <3>1, Zenon DEF TakesIn
    <3> QED BY <3>2, ReplicaStoresAssumption
  <2>9. stored'[r] \in SUBSET [tokens : Prompts, data : Payloads]
    <3>1. PICK s \in [tokens : Prompts, data : Payloads] : s = [tokens |-> p, data |-> d]
      BY <2>1
    <3>2. PICK old : old = stored[r]
      OBVIOUS
    <3>3. stored'[r] = old \union {s} /\ old \subseteq [tokens : Prompts, data : Payloads]
      BY <1>3, <2>1, <3>1, <3>2, Zenon
    <3> QED BY <3>1, <3>3, Zenon
  <2>10. \A h \in DOMAIN index'[r].prefix_map :
           /\ FromStore(r, h, index[r].prefix_map[h].obj_id, index[r].prefix_map[h].usable_len_bytes)'
           /\ Present(index[r].prefix_map[h].obj_id)'
    BY <1>4, <2>4, <2>5, <2>6, Zenon
  <2> QED BY <1>1, <2>6, <2>7, <2>8, <2>9, <2>10 DEF IndexOK
<1> QED BY <1>5, <1>6, <1>7, Zenon
        DEF ReplicaStep, Waits, GivesUp, Moves, Stores, Loads, IsAnswered, HasLoaded, Keeps

(* What BeginLoad keeps of a hit. *)
LEMMA HitIsAsked ==
    ASSUME CacheInv, NEW r \in Replicas, NEW p \in Prompts, Lookup(index[r].prefix_map, p, 0).hit
    PROVE  LET res == Lookup(index[r].prefix_map, p, 0)
           IN  /\ Asked(r, p, res.prefix_tokens, res.obj_id, res.usable_len_bytes)
               /\ res.prefix_tokens \in Nat /\ res.obj_id \in ObjIds /\ res.usable_len_bytes \in Int
<1> DEFINE res == Lookup(index[r].prefix_map, p, 0)
<1>1. PICK pm : pm = index[r].prefix_map
  OBVIOUS
<1>2. PICK zero \in Int : zero = 0
  OBVIOUS
<1>3. /\ res.prefix_tokens \in Passed(pm, p, MaxLen(p, 0)) /\ MaxLen(p, 0) \in 0 .. Len(p)
      /\ res.obj_id = pm[HashTokens(p, res.prefix_tokens)].obj_id
      /\ res.usable_len_bytes = pm[HashTokens(p, res.prefix_tokens)].usable_len_bytes
  BY <1>1, <1>2, LookupFacts, Zenon
<1>4. PICK n : n = res.prefix_tokens
  OBVIOUS
<1>5. n \in BlockLens(Len(p)) /\ HashTokens(p, n) \in DOMAIN pm /\ n \in Nat
  <2>1. n \in BlockLens(MaxLen(p, 0)) /\ \A m \in BlockLens(n) : HashTokens(p, m) \in DOMAIN pm
    BY <1>3, <1>4 DEF Passed
  <2>2. Len(p) \in Nat
    BY PromptFacts
  <2> QED BY <1>3, <2>1, <2>2 DEF BlockLens
<1>6. FromStore(r, HashTokens(p, n), pm[HashTokens(p, n)].obj_id, pm[HashTokens(p, n)].usable_len_bytes)
  BY <1>1, <1>5 DEF CacheInv, IndexOK
<1> HIDE DEF res
<1>7. FromStore(r, HashTokens(p, n), res.obj_id, res.usable_len_bytes)
  BY <1>3, <1>4, <1>6
<1>8. res.obj_id \in ObjIds /\ res.usable_len_bytes \in Int
  BY <1>7, NamedObjects
<1>9. Asked(r, p, res.prefix_tokens, res.obj_id, res.usable_len_bytes)
  BY <1>4, <1>5, <1>7 DEF Asked
<1> QED BY <1>4, <1>5, <1>8, <1>9 DEF res

(* BeginLoad asks for an entry of its own index. *)
LEMMA HitAsks ==
    ASSUME CacheInv, NEW r \in Replicas
    PROVE  HitsAreAsked(r)
BY HitIsAsked DEF HitsAreAsked

(* The invariant is inductive: the steps of the gateway and of each replica    *)
(* together, and the step that changes nothing.                                *)
LEMMA StepCache ==
    ASSUME CacheInv, Next
    PROVE  CacheInv'
<1>1. GatewayStep /\ \A r \in Replicas : ReplicaStep(r)
  BY GatewaySteps, ReplicaSteps
<1>2. /\ objects' \in [ObjIds -> Blobs] /\ stable' \in [ObjIds -> Blobs]
      /\ late' \subseteq [obj_id : ObjIds, data : Payloads]
      /\ excused' \subseteq ObjIds
      /\ NamesAreHashes'
  BY <1>1, StepObjects
<1>3. ASSUME NEW r \in Replicas
      PROVE  /\ IndexOK(r)'
             /\ \A h \in DOMAIN index'[r].prefix_map : Present(index[r].prefix_map[h].obj_id)'
             /\ DOMAIN index'[r].prefix_map \subseteq Hashes
             /\ DOMAIN index'[r].obj_table \subseteq ObjIds
             /\ index'[r].version_clock \in 0 .. MaxStores
             /\ stored'[r] \in SUBSET [tokens : Prompts, data : Payloads]
  BY <1>1, StepIndex
<1>4. ASSUME NEW r \in Replicas
      PROVE  /\ call'[r] \in Calls /\ StoreOK(r)' /\ LoadOK(r)' /\ LastOK(r)'
             /\ last'[r] = NoLoad \/ last'[r].data \in Payloads
  BY <1>1, HitAsks, StepCall, StepStore, StepLoad, StepLast
<1>5. /\ DOMAIN index' = Replicas /\ DOMAIN last' = Replicas
      /\ handle' \in [Replicas -> {"unset", "live", "null", "freed"}]
      /\ call' = [t \in Replicas |-> call'[t]]
      /\ stored' = [t \in Replicas |-> stored'[t]]
  BY StepDomains
<1>6. call' \in [Replicas -> Calls]
  BY <1>4, <1>5
<1>7. stored' \in [Replicas -> SUBSET [tokens : Prompts, data : Payloads]]
  <2> DEFINE Stored == SUBSET [tokens : Prompts, data : Payloads]
  <2>1. \A r \in Replicas : stored'[r] \in Stored
    BY <1>3
  <2> HIDE DEF Stored
  <2>2. stored' \in [Replicas -> Stored]
    BY <1>5, <2>1
  <2> QED BY <2>2 DEF Stored
<1>8. \A r \in Replicas : /\ call'[r].op \in {"none", "store", "load"}
                          /\ call'[r].at \in {"idle", "request", "sent", "answered", "lost"}
  BY <1>4 DEF Calls
<1>9. \A r \in Replicas : stored'[r] \subseteq [tokens : Prompts, data : Payloads]
  BY <1>3
<1>10. \A r \in Replicas : last'[r] = NoLoad \/ last'[r].data \in Payloads
  BY <1>4
<1>11. TypeOK'
  <2>1. Blobs' = Blobs /\ NoLoad' = NoLoad
    BY DEF Blobs, NoLoad, Gateway!Blob, Gateway!Absent
  <2> QED BY <1>2, <1>3, <1>5, <1>8, <1>9, <1>10 DEF TypeOK
<1>12. Types'
  BY <1>5, <1>6, <1>7, <1>11 DEF Types, Calls, Responses
<1>13. IndexedPresentUnlessLost'
  BY <1>3 DEF IndexedPresentUnlessLost, Present
<1> QED BY <1>2, <1>3, <1>4, <1>12, <1>13 DEF CacheInv

(* Nothing changes, nothing breaks. *)
LEMMA IdleCache ==
    ASSUME CacheInv, UNCHANGED vars
    PROVE  CacheInv'
<1>1. UNCHANGED <<index, handle, call, objects, stable, late, last, stored, excused>>
  BY DEF vars
<1>2. \A r \in Replicas : (IndexOK(r) /\ StoreOK(r) /\ LoadOK(r) /\ LastOK(r))'
  <2>1. GatewayStep /\ \A r \in Replicas : ReplicaStep(r)
    BY <1>1 DEF GatewayStep, GatewayIdle, ReplicaStep, Waits, Keeps
  <2> QED BY <2>1, HitAsks, StepIndex, StepStore, StepLoad, StepLast
<1>3. Types' /\ NamesAreHashes' /\ IndexedPresentUnlessLost'
  BY <1>1, Zenon DEF CacheInv, Types, TypeOK, NamesAreHashes, Holds, IndexedPresentUnlessLost
<1> QED BY <1>2, <1>3 DEF CacheInv

(* The invariant of the whole path, over all interleavings of the replicas'    *)
(* Stores and Loads with the gateway's answers, late PUTs, deletes and crashes. *)
THEOREM CacheInvariant == Spec => []CacheInv
<1>1. CacheInv /\ [Next]_vars => CacheInv'
  BY StepCache, IdleCache
<1> QED BY <1>1, InitCache, PTL DEF Spec

(* What replicas rely on is what the gateway is shown to implement: together   *)
(* they are a store of whole objects, with PUTs that arrive late, crashes that *)
(* lose writes and other clients' deletions among its steps.                   *)
THEOREM ReplicasUseBlobStore == Spec => Gateway!Spec
<1>1. Init => Gateway!Init
  BY DEF Init
<1>2. ASSUME CacheInv, GatewayStep PROVE [Gateway!Next]_(Gateway!vars)
  <2>1. CASE GatewayIdle
    BY <2>1, Zenon DEF GatewayIdle, Gateway!vars
  <2>2. ASSUME NEW d \in Payloads, PutBlob(HashBytesHex(d), d) PROVE Gateway!Next
    BY <2>2, NameOfPayload, Zenon DEF PutBlob, Gateway!Next
  <2>3. CASE (\E o \in ObjIds : Gateway!Delete(o)) \/ Gateway!Persist \/ Gateway!Crash
    BY <2>3, Zenon DEF Gateway!Next
  <2> QED BY <1>2, <2>1, <2>2, <2>3, Zenon DEF GatewayStep
<1>3. CacheInv /\ [Next]_vars => [Gateway!Next]_(Gateway!vars)
  <2>1. UNCHANGED vars => UNCHANGED Gateway!vars
    BY DEF vars, Gateway!vars
  <2> QED BY <1>2, <2>1, GatewaySteps, Zenon
<1> QED BY <1>1, <1>3, CacheInvariant, PTL DEF Spec, Gateway!Spec

(* The state of the replicas and of the gateway is always of its type. *)
THEOREM CacheTypes == Spec => []TypeOK
<1>1. CacheInv => TypeOK
  BY DEF CacheInv, Types
<1> QED BY <1>1, CacheInvariant, PTL

(* A hit finds its object: PrefixMap::Store indexes a payload only after the   *)
(* PUT has been answered 2xx, so an entry whose object was neither deleted nor *)
(* lost, nor indexed with skip_put, names an object that is at the gateway.    *)
THEOREM HitsFindTheirObject == Spec => []IndexedPresentUnlessLost
<1>1. CacheInv => IndexedPresentUnlessLost
  BY DEF CacheInv
<1> QED BY <1>1, CacheInvariant, PTL

(* Content addressing: while HashBytesHex tells payloads apart, no PUT,        *)
(* however late or repeated, changes the bytes of an object that stays.        *)
THEOREM OverwritesAreIdempotent ==
    ASSUME NoContentCollision
    PROVE  Spec => ObjectsKeepTheirContent
<1>1. ASSUME NEW o \in ObjIds, NEW b, NEW c, Holds(b, o), Holds(c, o),
             b # Gateway!Absent, c # Gateway!Absent
      PROVE  b = c
  <2>1. PICK d \in Payloads : b = Gateway!Blob(d) /\ HashBytesHex(d) = o
    BY <1>1 DEF Holds
  <2>2. PICK e \in Payloads : c = Gateway!Blob(e) /\ HashBytesHex(e) = o
    BY <1>1 DEF Holds
  <2>3. d = e
    BY <2>1, <2>2, NoContentCollision DEF NoContentCollision, HashBytesHex
  <2> QED BY <2>1, <2>2, <2>3
<1>2. CacheInv /\ CacheInv' =>
        \A o \in ObjIds :
          objects[o] # Gateway!Absent /\ objects'[o] # Gateway!Absent => objects'[o] = objects[o]
  <2> SUFFICES ASSUME CacheInv, CacheInv', NEW o \in ObjIds,
                      objects[o] # Gateway!Absent, objects'[o] # Gateway!Absent
               PROVE  objects'[o] = objects[o]
    OBVIOUS
  <2>1. Holds(objects[o], o)
    BY DEF CacheInv, NamesAreHashes
  <2>2. Holds(objects'[o], o)
    BY DEF CacheInv, NamesAreHashes, Holds
  <2> QED BY <1>1, <2>1, <2>2
<1> QED BY <1>2, CacheInvariant, PTL DEF ObjectsKeepTheirContent

-----------------------------------------------------------------------------
(* Payloads of one name are one payload, as long as the content hash is not    *)
(* fooled.                                                                     *)
LEMMA SameHashSameData ==
    ASSUME NoContentCollision, NEW d \in Payloads, NEW e \in Payloads,
           HashBytesHex(d) = HashBytesHex(e)
    PROVE  e = d
BY DEF NoContentCollision, HashBytesHex

(* A GetRange of no bytes sends no Range header and is answered the whole.     *)
LEMMA GetWhole ==
    ASSUME NEW size, NEW len, len = 0
    PROVE  GetObject(GetRangeHeader(len), size) = [status |-> 200, start |-> 0, count |-> size]
BY DEF GetRangeHeader, GetObject, NoHeader

(* The client and the gateway agree: a GetRange of 1..size bytes is answered   *)
(* 206 with exactly the first max_bytes bytes of the object.                   *)
THEOREM GetRangeIsExact ==
    ASSUME NEW size \in Nat, NEW max_bytes \in 1..size
    PROVE  GetObject(GetRangeHeader(max_bytes), size)
              = [status |-> 206, start |-> 0, count |-> max_bytes]
<1>1. GetRangeHeader(max_bytes) = Fields(Number(0), Number(max_bytes - 1))
  BY DEF GetRangeHeader
<1>2. parse_single_range(GetRangeHeader(max_bytes), size) = Span(0, max_bytes - 1)
  BY <1>1 DEF parse_single_range, StartRange, Fields, Number
<1> QED BY <1>1, <1>2 DEF GetObject, Fields, Span

(* Whatever happened between the Lookup and the read, a Load returns the first *)
(* usable bytes of a payload its replica stored for the same first tokens: as  *)
(* long as no hashes collide and prefix_len * bytes_per_token_ stays in int.   *)
THEOREM LoadsAreExact ==
    ASSUME NoTokenCollision, NoContentCollision, NoOverflow
    PROVE  Spec => []LoadExact
<1>1. ASSUME CacheInv PROVE LoadExact
  <2> SUFFICES ASSUME NEW r \in Replicas, last[r] # NoLoad
               PROVE  \E s \in stored[r] :
                        /\ last[r].prefix_tokens \in BlockLens(Len(s.tokens))
                        /\ SubSeq(s.tokens, 1, last[r].prefix_tokens)
                              = SubSeq(last[r].tokens, 1, last[r].prefix_tokens)
                        /\ s.data = last[r].data
                        /\ last[r].start = 0
                        /\ last[r].count \in
                              UsableBytes(last[r].prefix_tokens, Len(s.tokens), SizeOf[s.data])
    BY Zenon DEF LoadExact
  <2>1. PICK o, len : /\ Asked(r, last[r].tokens, last[r].prefix_tokens, o, len)
                      /\ ReadOf(o, len, last[r])
    BY <1>1 DEF CacheInv, LastOK
  <2>2. PICK q \in Prompts : q = last[r].tokens
    BY <2>1 DEF Asked
  <2>3. PICK k \in BlockLens(Len(q)) : k = last[r].prefix_tokens
    BY <2>1, <2>2 DEF Asked
  <2>4. PICK s \in stored[r] : \E n \in BlockLens(Len(s.tokens)) :
          /\ HashTokens(s.tokens, n) = HashTokens(q, k)
          /\ HashBytesHex(s.data) = o
          /\ len \in UsableBytes(n, Len(s.tokens), SizeOf[s.data])
    BY <2>1, <2>2, <2>3, Zenon DEF Asked, FromStore
  <2>5. s.tokens \in Prompts /\ s.data \in Payloads
    BY <1>1, StoredTypes
  <2>6. PICK p \in Prompts : p = s.tokens
    BY <2>5
  <2>7. PICK n \in BlockLens(Len(p)) :
          /\ HashTokens(p, n) = HashTokens(q, k)
          /\ len \in UsableBytes(n, Len(p), SizeOf[s.data])
    BY <2>4, <2>6
  <2>8. n = k /\ FirstTokens(p, n) = FirstTokens(q, n)
    BY <2>7, NoTokenCollision, SameHashSamePrefix
  <2>9. SubSeq(p, 1, k) = SubSeq(q, 1, k)
    BY <2>8, Zenon DEF FirstTokens
  <2>10. s.data = last[r].data
    <3>1. last[r].data \in Payloads /\ HashBytesHex(last[r].data) = HashBytesHex(s.data)
      BY <2>1, <2>4, Zenon DEF ReadOf
    <3> QED BY <2>5, <3>1, NoContentCollision, SameHashSameData, Zenon
  <2>11. PICK size \in 0 .. IntMax : size = SizeOf[s.data]
    BY <2>5, SizeAssumption
  <2>12. /\ Len(p) \in Nat /\ k \in 1 .. Len(p) /\ Len(p) * BytesPerToken <= IntMax
         /\ len \in UsableBytes(k, Len(p), size)
    BY <2>7, <2>8, <2>11, PromptFacts, NoOverflow DEF NoOverflow
  <2>13. len \in 0 .. size /\ (len = 0 => size = 0) /\ size \in Nat
    BY <2>12, IntAssumption, UsableBytesBounds
  <2>14. last[r].start = GetObject(GetRangeHeader(len), size).start
         /\ last[r].count = GetObject(GetRangeHeader(len), size).count
    BY <2>1, <2>10, <2>11 DEF ReadOf
  <2>15. last[r].start = 0 /\ last[r].count = len
    <3>1. CASE len = 0
      <4>1. GetObject(GetRangeHeader(len), size) = [status |-> 200, start |-> 0, count |-> size]
        BY <3>1, GetWhole, Zenon
      <4> QED BY <2>13, <2>14, <3>1, <4>1
    <3>2. CASE len \in 1 .. size
      <4>1. GetObject(GetRangeHeader(len), size) = [status |-> 206, start |-> 0, count |-> len]
        BY <2>13, <3>2, GetRangeIsExact
      <4> QED BY <2>14, <4>1
    <3>3. len = 0 \/ len \in 1 .. size
      BY <2>13
    <3> QED BY <3>1, <3>2, <3>3
  <2>16. last[r].prefix_tokens \in BlockLens(Len(s.tokens))
    BY <2>3, <2>6, <2>8
  <2>17. SubSeq(s.tokens, 1, last[r].prefix_tokens)
            = SubSeq(last[r].tokens, 1, last[r].prefix_tokens)
    BY <2>2, <2>3, <2>6, <2>9, Zenon
  <2>18. last[r].count \in UsableBytes(last[r].prefix_tokens, Len(s.tokens), SizeOf[s.data])
    BY <2>3, <2>6, <2>11, <2>12, <2>15
  <2> QED BY <2>10, <2>15, <2>16, <2>17, <2>18, Zenon
<1> QED BY <1>1, CacheInvariant, PTL
=============================================================================
