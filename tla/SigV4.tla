------------------------------- MODULE SigV4 -------------------------------
(***************************************************************************)
(* verify_sigv4 (sigv4.cpp): is a request signed with the gateway's key?   *)
(*                                                                         *)
(* A request has method, path, headers, params (its query parameters as    *)
(* they are spelled), body, and what it says of its signature: credential  *)
(* is the content of the Authorization header and presign that of the      *)
(* X-Amz-* parameters, each with complete = FALSE when a part is missing.  *)
(* Hashes are ideal: a digest is the tuple of what it was computed over.   *)
(* Headers and parameters are functions of their names, which is what      *)
(* sorting and joining them by name amounts to.  A header value is its     *)
(* text, and whether it has runs of blanks in place of single ones.        *)
(***************************************************************************)
EXTENDS Target

CONSTANTS
    AuthMode,       \* "none" or "sigv4": Mode
    AccessKey,      \* creds.access_key
    SecretKey       \* creds.secret_key

(* External: the digests.  Hmac stands for the chain of derive_signing_key and *)
(* the last hmac_sha256 over the string to sign.                               *)
Sha256(data) == <<"sha256", data>>
Hmac(secret_key, scope, amz_date, canonical) == <<"hmac", secret_key, scope, amz_date, canonical>>

(* The two values of x-amz-content-sha256 that are not a digest. *)
UnsignedPayload == <<"text", "UNSIGNED-PAYLOAD">>
StreamingPayload == <<"text", "STREAMING-AWS4-HMAC-SHA256-PAYLOAD">>

(* header_value, and what trim_and_collapse_ws makes of it. *)
Raw(value) == IF value.padded THEN <<"padded", value.text>> ELSE value.text
Trimmed(value) == value.text

(* Signed headers the request does not have are left out. *)
canonical_headers(headers, signed) ==
    [h \in signed \intersect DOMAIN headers |-> Trimmed(headers[h])]

(* parse_query resolves the escapes of names and values, canonical_query_string *)
(* escapes every byte again that is not unreserved.                             *)
canonical_query_string(req, exclude) ==
    [params |-> [k \in DOMAIN req.params |-> percent_encode(percent_decode(req.params[k]), TRUE)],
     presign |-> [f \in DOMAIN req.presign \ exclude |-> req.presign[f]]]

verify_with_parts(req, parts, payload_hash, exclude) ==
    LET canonical ==
            [method |-> req.method, uri |-> canonical_uri(req.path),
             query |-> canonical_query_string(req, exclude),
             headers |-> canonical_headers(req.headers, parts.signed), payload |-> payload_hash]
    IN  IF parts.scope.service # "s3" THEN "InvalidRequest"
        ELSE IF \/ parts.access_key # AccessKey
                \/ parts.signature # Hmac(SecretKey, parts.scope, parts.amz_date, canonical)
             THEN "SignatureDoesNotMatch"
             ELSE "ok"

(* parse_authorization_sigv4 returns a value. *)
HasAuthorization(req) == req.credential.complete /\ "x-amz-date" \in DOMAIN req.headers

PayloadHash(req) ==
    IF "x-amz-content-sha256" \in DOMAIN req.headers
    THEN Raw(req.headers["x-amz-content-sha256"])
    ELSE Sha256(req.body)

verify_authorization(req) ==
    IF PayloadHash(req) = StreamingPayload THEN "NotImplemented"
    ELSE LET c == req.credential
             parts == [access_key |-> c.access_key, scope |-> c.scope, signed |-> c.signed,
                       signature |-> c.signature, amz_date |-> Raw(req.headers["x-amz-date"])]
         IN  verify_with_parts(req, parts, PayloadHash(req), {})

(* parse_presigned returns a value. *)
HasPresigned(req) == req.presign.complete

verify_presigned(req) == verify_with_parts(req, req.presign, UnsignedPayload, {"signature"})

(* "ok", or the code of the 403 response. *)
verify_sigv4(req) ==
    IF AuthMode = "none" THEN "ok"
    ELSE IF HasAuthorization(req) THEN verify_authorization(req)
    ELSE IF HasPresigned(req) THEN verify_presigned(req)
    ELSE "AccessDenied"
=============================================================================
