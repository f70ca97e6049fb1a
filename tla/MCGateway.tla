------------------------------ MODULE MCGateway ------------------------------
(* S3Gateway with two sessions on a bucket with one key that is written, and   *)
(* a second bucket and key that are only read.  Clients spell names in several *)
(* ways and sign as AWS clients do: over what they mean, not how they spell it.*)
EXTENDS S3Gateway, TLC

CONSTANTS a, u, v, sep, percent, nul, d1, d2, t1, t2

MCChars == {a, u, v, sep, percent, nul}
MCUnreserved == {a, u}
MCThreads == {t1, t2}
MCPayloads == {d1, d2}
MCSizeOf == (d1 :> 0) @@ (d2 :> 3)
Symmetry == Permutations(MCThreads)

Suffix == <<"text", "suffix">>

(* Bucket "a" and key "%uv", whose first three bytes look like an escape.  The *)
(* others have a "/" in the bucket name, and a "%" that no escape begins with. *)
Bucket == <<Lit(a)>>
SlashBucket == <<Lit(a), Lit(sep)>>
Key == <<<<u, 1>>, Lit(v)>>
PercentKey == <<Lit(percent), <<u, 1>>>>
MCBuckets == {Bucket, SlashBucket}
(* The last key is where a path cut at the "/" of SlashBucket would lead. *)
MCKeys == {Key, PercentKey, <<Lit(sep)>> \o PercentKey}

-----------------------------------------------------------------------------
(* What a client means to send. *)
Draft(method, bucket, key) ==
    [method |-> method, bucket |-> bucket, key |-> key, style |-> "path", escape |-> "needed",
     range |-> NoHeader, body |-> None, size |-> 0, params |-> <<>>]

Spelled(draft, text) ==
    CASE draft.escape = "needed" -> percent_encode(text, TRUE)
      [] draft.escape = "all" -> [i \in DOMAIN text |-> <<text[i][1], text[i][2] + 1>>]
      [] draft.escape = "none" -> text

(* The path of a draft, each name written by Spell. *)
PathOf(draft, Spell(_)) ==
    <<Lit(sep)>>
      \o (IF draft.style = "vhost" THEN <<>> ELSE Spell(draft.bucket))
      \o (IF draft.style = "vhost" \/ draft.key = <<>> THEN <<>> ELSE <<Lit(sep)>>)
      \o Spell(draft.key)

Scope == [date |-> "d", region |-> "r", service |-> "s3"]
Date == <<"text", "date">>
PlainHeader(text) == [text |-> text, padded |-> FALSE]
Signed == {"host", "x-amz-date", "content-type"}
Headers(padded) ==
    ("host" :> PlainHeader(<<"text", "host">>)) @@ ("x-amz-date" :> PlainHeader(Date))
      @@ ("content-type" :> [text |-> <<"text", "type">>, padded |-> padded])

NotSigned == [complete |-> FALSE]

(* A signature as the AWS documentation defines it. *)
Signature(draft, presign, payload, secret, scope) ==
    Hmac(secret, scope, Date,
         [method |-> draft.method,
          uri |-> PathOf(draft, LAMBDA text : percent_encode(text, FALSE)),
          query |-> [params |-> [k \in DOMAIN draft.params |-> percent_encode(draft.params[k], TRUE)],
                     presign |-> presign],
          headers |-> [h \in Signed |-> Trimmed(Headers(FALSE)[h])],
          payload |-> payload])

(* The request, but for its authentication. *)
Unsigned(draft) ==
    [method |-> draft.method, path |-> PathOf(draft, LAMBDA text : Spelled(draft, text)),
     host |-> [label |-> IF draft.style = "vhost" THEN draft.bucket ELSE <<>>,
               suffix |-> IF draft.style = "path" THEN <<>> ELSE Suffix],
     params |-> [k \in DOMAIN draft.params |-> Spelled(draft, draft.params[k])],
     headers |-> Headers(FALSE), body |-> draft.body, size |-> draft.size, range |-> draft.range,
     credential |-> NotSigned, presign |-> NotSigned, signed |-> FALSE,
     meant |-> [bucket |-> draft.bucket, key |-> draft.key]]

(* Signed in the Authorization header, or in the query. *)
InHeader(draft, payload, key, secret, scope) ==
    [Unsigned(draft) EXCEPT !.credential =
        [complete |-> TRUE, access_key |-> key, scope |-> scope, signed |-> Signed,
         signature |-> Signature(draft, NotSigned, payload, secret, scope)]]

InQuery(draft, secret) ==
    LET presign == [complete |-> TRUE, access_key |-> AccessKey, scope |-> Scope,
                    amz_date |-> Date, signed |-> Signed]
    IN  [Unsigned(draft) EXCEPT !.presign = presign @@
            [signature |-> Signature(draft, presign, UnsignedPayload, secret, Scope)]]

(* The owner of the key signs, for this service and the whole body. *)
Owner(req) == [req EXCEPT !.signed = TRUE]
Honest(draft) == Owner(InHeader(draft, Sha256(draft.body), AccessKey, SecretKey, Scope))
DeclaresPayload(req, text) ==
    [req EXCEPT !.headers = @ @@ ("x-amz-content-sha256" :> PlainHeader(text))]

-----------------------------------------------------------------------------
Get == Draft("GET", Bucket, Key)
Put(d) == [Draft("PUT", Bucket, Key) EXCEPT !.body = d, !.size = MCSizeOf[d]]

(* Every operation; the object's also in other spellings. *)
Operations ==
    {Draft(m, Bucket, <<>>) : m \in {"PUT", "HEAD", "DELETE", "GET", "POST"}}
      \union {Draft(m, Bucket, Key) : m \in {"HEAD", "DELETE", "POST"}}
      \union {Put(d) : d \in MCPayloads}
      \union {Draft(m, <<>>, <<>>) : m \in {"GET", "PUT"}}

Spellings ==
    {[Get EXCEPT !.escape = "all"],
     [Get EXCEPT !.style = "vhost"],
     [Put(d2) EXCEPT !.style = "other host", !.escape = "all"],
     [Draft("HEAD", Bucket, <<>>) EXCEPT !.style = "vhost"],
     [Draft("HEAD", Bucket, PercentKey) EXCEPT !.escape = "none"],
     Draft("HEAD", SlashBucket, <<>>),
     Draft("GET", SlashBucket, PercentKey),
     [Draft("GET", Bucket, <<>>) EXCEPT !.params = [prefix |-> Key], !.escape = "all"]}

Ranges ==
    {NoHeader, Malformed, Fields(Number(0), Number(1)), Fields(Number(1), Number(9)),
     Fields(Number(3), Empty), Fields(Number(2), Number(1)), Fields(Empty, Number(2)),
     Fields(Empty, Number(0)), Fields(Number(0), NotANumber)}

Refused ==
    {[Put(d2) EXCEPT !.size = MaxObjectBytes + 1], Draft("PUT", Bucket, <<Lit(nul)>>)}

MCRequests ==
    {Honest(draft) : draft \in Operations \union Spellings \union Refused
                                 \union {[Get EXCEPT !.range = r] : r \in Ranges}}
      \union
        {Owner(DeclaresPayload(InHeader(Put(d1), UnsignedPayload, AccessKey, SecretKey, Scope),
                               UnsignedPayload)),
         [Honest(Get) EXCEPT !.headers = Headers(TRUE)],
         Owner(InQuery([Get EXCEPT !.escape = "all"], SecretKey)),
         InQuery(Get, "guess"),
         InHeader(Get, Sha256(None), AccessKey, "guess", Scope),
         InHeader(Get, Sha256(None), "other", "guess", Scope),
         InHeader(Get, Sha256(None), AccessKey, SecretKey, [Scope EXCEPT !.service = "ec2"]),
         DeclaresPayload(InHeader(Put(d2), StreamingPayload, AccessKey, SecretKey, Scope),
                         StreamingPayload),
         Unsigned(Draft("DELETE", Bucket, Key))}
=============================================================================
