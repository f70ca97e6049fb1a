----------------------------- MODULE S3Gateway -----------------------------
(***************************************************************************)
(* The gateway as its HTTP clients see it: sessions (http_server.cpp) that *)
(* hand each request to Api::handle, which calls the object store, all of  *)
(* it over one RocksDB.  ObjectStore's threads are the sessions: each runs *)
(* one request at a time and reads the next one only after its response is *)
(* written, and any number of them interleave between RocksDB calls.       *)
(*                                                                         *)
(* Names are the decoded texts of Target.  The pages of list_objects_v2    *)
(* are in ListObjects and the metrics in HttpServer; here a listing is one *)
(* read, of which the status is kept.                                      *)
(***************************************************************************)
EXTENDS ObjectStore, Api

CONSTANT Requests       \* what clients send

(* Buckets and Keys are the names that requests handle does not refuse reach. *)
ASSUME RequestsAssumption ==
    \A req \in Requests :
        /\ req # None
        /\ req.range \in Header
        /\ Refusal(req) = 0 /\ TargetOf(req).bucket # NoBucket =>
              /\ TargetOf(req).bucket \in Buckets
              /\ TargetOf(req).key \in Keys \union {<<>>}
              /\ StoreOp(req) = "put_object" => req.body \in Payloads

VARIABLES
    request,            \* per session: the request being served, or None
    response,           \* per session: its response, until the client has it
    held                \* history, per session: the replies its operation would
                        \* have had at the moments since it began

gatewayVars == <<db, disk, call, unguarded, request, response, held>>

GatewayInit ==
    /\ Init
    /\ request = [t \in Threads |-> None]
    /\ response = [t \in Threads |-> None]
    /\ held = [t \in Threads |-> {}]

-----------------------------------------------------------------------------
(* What the operation of c answers when it runs alone, as one step. *)
ReplyAlone(c) ==
    IF c.op \in {"create_bucket", "put_object"} THEN "ok"
    ELSE IF c.op = "get_object_data"
         THEN IF db.data[<<c.b, c.k>>] = None THEN "NoSuchKey" ELSE "ok"
    ELSE IF c.b \notin db.buckets THEN "NoSuchBucket"
    ELSE IF c.op = "head_object" /\ db.meta[<<c.b, c.k>>] = None THEN "NoSuchKey"
    ELSE IF c.op = "delete_bucket" /\ ~BucketEmpty(c.b) THEN "BucketNotEmpty"
    ELSE "ok"

Watch ==
    held' = [t \in Threads |->
               IF At(t, "idle") THEN held[t] ELSE held[t] \union {ReplyAlone(call[t])}]

(* The session reads a request off its connection.  The parser drops one whose *)
(* body exceeds body_limit, so handle never sees it.                           *)
OnRead(t) ==
    /\ request[t] = None
    /\ \E req \in Requests :
          /\ req.size <= MaxObjectBytes
          /\ request' = [request EXCEPT ![t] = req]
    /\ Watch
    /\ UNCHANGED <<vars, response>>

Waiting(t) == request[t] # None /\ response[t] = None /\ At(t, "idle")

Respond(t, responses) == \E r \in responses : response' = [response EXCEPT ![t] = r]

(* handle answers without a call of the store. *)
Refuse(t) ==
    /\ Waiting(t)
    /\ Refusal(request[t]) # 0
    /\ Respond(t, {s3_error(Refusal(request[t]))})
    /\ Watch
    /\ UNCHANGED <<vars, request>>

(* handle calls the operation the target and the method name. *)
Call(t) ==
    LET op == StoreOp(request[t])
        pt == TargetOf(request[t])
    IN  /\ Waiting(t)
        /\ Refusal(request[t]) = 0
        /\ op \in DOMAIN FirstCall
        /\ Begin(t, op, pt.bucket, IF pt.key = <<>> THEN None ELSE pt.key,
                 IF op = "put_object" THEN request[t].body ELSE None)
        /\ Watch
        /\ UNCHANGED <<request, response>>

(* One RocksDB call of the operation; after the last one handle responds. *)
Work(t) ==
    LET o == Obj(t)
        size == IF At(t, "get_meta") THEN db.meta[o]
                ELSE IF At(t, "get_data") /\ db.data[o] # None THEN SizeOf[db.data[o]]
                ELSE 0
    IN  /\ Step(t)
        /\ IF call'[t].at = "idle"
           THEN Respond(t, ResponsesTo(request[t], call[t].op, call'[t].reply, size))
           ELSE UNCHANGED response
        /\ Watch
        /\ UNCHANGED request

(* list_buckets, and the part of list_objects_v2 that decides the status. *)
List(t) ==
    LET op == StoreOp(request[t])
        missing == op = "list_objects_v2" /\ TargetOf(request[t]).bucket \notin db.buckets
    IN  /\ Waiting(t)
        /\ Refusal(request[t]) = 0
        /\ op \in {"list_buckets", "list_objects_v2"}
        /\ \E reply \in {IF missing THEN "NoSuchBucket" ELSE "ok", "InternalError"} :
              Respond(t, ResponsesTo(request[t], op, reply, 0))
        /\ Watch
        /\ UNCHANGED <<vars, request>>

(* The response is written; the session goes on to the next request. *)
OnWrite(t) ==
    /\ response[t] # None
    /\ request' = [request EXCEPT ![t] = None]
    /\ response' = [response EXCEPT ![t] = None]
    /\ call' = [call EXCEPT ![t] = Idle("none")]
    /\ held' = [held EXCEPT ![t] = {}]
    /\ UNCHANGED <<db, disk, unguarded>>

(* A crash of the gateway takes the connections with it. *)
Restart ==
    /\ Crash
    /\ request' = [t \in Threads |-> None]
    /\ response' = [t \in Threads |-> None]
    /\ held' = [t \in Threads |-> {}]

GatewayNext ==
    \/ \E t \in Threads :
          OnRead(t) \/ Refuse(t) \/ Call(t) \/ Work(t) \/ List(t) \/ OnWrite(t)
    \/ Restart

GatewaySpec == GatewayInit /\ [][GatewayNext]_gatewayVars

-----------------------------------------------------------------------------
(* A client that escapes a name, as path segments or behind a virtual host, in *)
(* any spelling, reaches the bucket and the key it meant: parse_target splits  *)
(* the path before it resolves escapes, and resolves one layer of them.        *)
RoutedAsMeant ==
    \A t \in Threads :
        ~At(t, "idle") =>
            /\ call[t].b = request[t].meant.bucket
            /\ call[t].k = IF request[t].meant.key = <<>> THEN None ELSE request[t].meant.key

(* verify_sigv4 lets through exactly what the owner of the key signed, in the  *)
(* header or in the query, over any spelling of the path and any spacing of    *)
(* the headers; everyone else gets 403 and no operation of the store runs.     *)
OwnerAndOnlyOwner ==
    \A t \in Threads :
        /\ response[t] # None => (response[t].status = 403 <=> ~request[t].signed)
        /\ ~At(t, "idle") => request[t].signed

(* Bytes a client takes off the connection after the header. *)
Expected(req, res) ==
    IF req.method = "HEAD" \/ res.status = 204 THEN 0 ELSE res.length

(* On a connection that is kept open the next response begins where the client *)
(* expects it: as many bytes of body are written as the method and the header  *)
(* announce.  The exception is a HEAD that fails, whose error document         *)
(* s3_error writes though the client will not read it.                         *)
FramedUnlessHeadFails ==
    \A t \in Threads :
        response[t] # None =>
            \/ response[t].written = Expected(request[t], response[t])
            \/ request[t].method = "HEAD" /\ response[t].status >= 400

(* A GET answers with bytes of the object its client meant, as it is at the    *)
(* moment of the read: 206 carries exactly the bytes the Range header asks     *)
(* for, 200 everything, 416 means it asked for no byte that exists.            *)
ServesMeantBytes ==
    [][\A t \in Threads :
          LET req == request[t]
              res == response'[t]
              meant == <<req.meant.bucket, req.meant.key>>
              size == SizeOf[db.data[meant]]
              body == res.start..(res.start + res.written - 1)
          IN  At(t, "get_data") /\ res # None /\ res.status \in {200, 206, 416} =>
                  /\ db.data[meant] # None
                  /\ res.status = 206 => body = Requested(req.range, size) /\ res.written > 0
                  /\ res.status = 416 => req.range.form # "absent" /\ Requested(req.range, size) = {}
                  /\ res.status = 200 => req.range.form = "absent" /\ body = 0..(size - 1)]_gatewayVars

(* Each reply was the right one at some moment while its operation ran, though *)
(* head_object, delete_object and delete_bucket look at the marker and at the  *)
(* object in separate calls.  Only a bucket that took an unguarded PUT can get *)
(* an answer that was never true.                                              *)
RepliesWereTrue ==
    \A t \in Threads :
        call[t].reply \in {"none", "InternalError"} \union held[t]
            \/ TargetOf(request[t]).bucket \in unguarded
=============================================================================
