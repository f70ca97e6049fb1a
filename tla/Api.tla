-------------------------------- MODULE Api --------------------------------
(***************************************************************************)
(* Api::handle (s3_api.cpp) around its one call of the object store: which *)
(* requests are answered without it, which operation the others become,    *)
(* and the response to each outcome.                                       *)
(*                                                                         *)
(* Of a response the model keeps what a client can tell apart: the status, *)
(* the Content-Length, the bytes of body that follow the header, and which *)
(* byte of the object the body begins with.  An XML document is XmlBytes   *)
(* bytes, whatever it says.                                                *)
(***************************************************************************)
EXTENDS SigV4, ByteRange

CONSTANTS
    VhostSuffix,    \* cfg_.virtual_host_suffix
    MaxObjectBytes, \* cfg_.max_object_bytes
    XmlBytes        \* length of an XML document

ASSUME XmlAssumption == XmlBytes \in Nat \ {0} /\ MaxObjectBytes \in Nat

TargetOf(req) == parse_target(req.path, req.host, VhostSuffix)

BucketOps ==
    [PUT |-> "create_bucket", HEAD |-> "bucket_exists", DELETE |-> "delete_bucket",
     GET |-> "list_objects_v2"]

ObjectOps ==
    [PUT |-> "put_object", HEAD |-> "head_object", DELETE |-> "delete_object",
     GET |-> "get_object_data"]

(* The status of the error sent before the store does anything; 0 for none.    *)
(* The last one comes from the contains_nul checks of storage.cpp.             *)
Refusal(req) ==
    LET pt == TargetOf(req)
    IN  IF verify_sigv4(req) # "ok" THEN 403
        ELSE IF req.method = "PUT" /\ req.size > MaxObjectBytes THEN 413
        ELSE IF req.method \notin (IF pt.bucket = NoBucket THEN {"GET"} ELSE DOMAIN BucketOps)
             THEN 405
        ELSE IF contains_nul(pt.bucket) \/ contains_nul(pt.key) THEN 400
        ELSE 0

(* The store operation a request that is not refused becomes. *)
StoreOp(req) ==
    LET pt == TargetOf(req)
    IN  IF pt.bucket = NoBucket THEN "list_buckets"
        ELSE IF pt.key = <<>> THEN BucketOps[req.method]
        ELSE ObjectOps[req.method]

-----------------------------------------------------------------------------
Response(status, length, written, start) ==
    [status |-> status, length |-> length, written |-> written, start |-> start]

make_xml_response(status) == Response(status, XmlBytes, XmlBytes, 0)
make_empty_response(status) == Response(status, 0, 0, 0)

(* An error is an XML document, also when it answers a HEAD. *)
s3_error(status) == make_xml_response(status)

(* The error text of a failed RocksDB call is its status; the one that reads   *)
(* "Invalid argument: ..." is taken for a bad request.                         *)
map_storage_error(err) ==
    CASE err \in {"NoSuchBucket", "NoSuchKey"} -> {404}
      [] err = "BucketNotEmpty" -> {409}
      [] err = "InternalError" -> {400, 500}

(* GET of an object: the whole of it, the range asked for, or 416. *)
get_response(req, size) ==
    LET r == GetObject(req.range, size)
    IN  IF r.status = 416 THEN s3_error(416)
        ELSE Response(r.status, r.count, r.count, r.start)

(* Faulty variant: HEAD is answered like GET, with the bytes. *)
head_response_WithBody(size) == Response(200, size, size, 0)

(* HEAD of an object: the size as Content-Length, and no body. *)
head_response(size) == Response(200, size, 0, 0)

(* The response to an operation that succeeded; size is that of the object     *)
(* read, where one was.                                                        *)
Success(req, op, size) ==
    CASE op \in {"list_buckets", "list_objects_v2"} -> make_xml_response(200)
      [] op \in {"create_bucket", "bucket_exists", "put_object"} -> make_empty_response(200)
      [] op \in {"delete_bucket", "delete_object"} -> make_empty_response(204)
      [] op = "head_object" -> head_response(size)
      [] op = "get_object_data" -> get_response(req, size)

(* The responses to a request whose operation came back with this reply. *)
ResponsesTo(req, op, reply, size) ==
    IF reply = "ok" THEN {Success(req, op, size)}
    ELSE {s3_error(status) : status \in map_storage_error(reply)}
=============================================================================
