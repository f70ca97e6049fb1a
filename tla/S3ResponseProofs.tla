-------------------------- MODULE S3ResponseProofs --------------------------
(***************************************************************************)
(* Proofs about what the gateway's clients get back.  First the parts of a *)
(* request: escaping, unescaping and routing for names of any length and   *)
(* any bytes, and range reads for objects of every size and headers with   *)
(* any numbers.  Then that responses end where their header says, and that *)
(* operations and bytes are those of the object a request means.           *)
(***************************************************************************)
EXTENDS S3GatewayProofs, Target

-----------------------------------------------------------------------------
(* Names and paths. *)

(* A byte that percent_encode did not escape is not a "%", and one layer of    *)
(* escapes taken off an encoded element gives the element back.                *)
LEMMA EncodedElement ==
    ASSUME NEW text \in Text, NEW encode_slash \in BOOLEAN, NEW i \in DOMAIN text
    PROVE  LET e == percent_encode(text, encode_slash)[i]
           IN  e \in Element /\ e # Lit(Percent) /\ Unescape(e) = text[i]
<1> DEFINE e == percent_encode(text, encode_slash)[i]
<1>1. text[i] \in Element /\ text[i] = <<text[i][1], text[i][2]>>
      /\ text[i][1] \in Chars /\ text[i][2] \in Nat
  BY DEF Text, Element
<1>2. CASE text[i] \in Plain(encode_slash)
  <2>1. e = text[i]
    BY <1>2 DEF percent_encode
  <2>2. PICK c \in Unreserved \union {Slash} : text[i] = <<c, 0>>
    BY <1>2 DEF Plain, Lit
  <2>3. c # Percent
    BY CharsAssumption
  <2> QED BY <1>1, <2>1, <2>2, <2>3 DEF Lit, Unescape
<1>3. CASE text[i] \notin Plain(encode_slash)
  <2>1. e = <<text[i][1], text[i][2] + 1>>
    BY <1>3 DEF percent_encode
  <2>2. e \in Element
    BY <1>1, <2>1 DEF Element
  <2>3. e[2] # 0
    BY <1>1, <2>1
  <2>4. Unescape(e) = <<text[i][1], text[i][2]>>
    BY <1>1, <2>1 DEF Unescape
  <2> QED BY <1>1, <2>2, <2>3, <2>4 DEF Lit
<1> QED BY <1>2, <1>3

(* percent_encode keeps the number of elements. *)
LEMMA EncodedText ==
    ASSUME NEW text \in Text, NEW encode_slash \in BOOLEAN
    PROVE  /\ percent_encode(text, encode_slash) \in Text
           /\ Len(percent_encode(text, encode_slash)) = Len(text)
           /\ DOMAIN percent_encode(text, encode_slash) = DOMAIN text
<1> DEFINE enc == percent_encode(text, encode_slash)
<1>1. DOMAIN enc = 1..Len(text) /\ DOMAIN text = 1..Len(text) /\ Len(text) \in Nat
  BY DEF percent_encode, Text
<1>2. \A i \in 1..Len(text) : enc[i] \in Element
  BY EncodedElement, <1>1
<1>3. enc = [i \in 1..Len(text) |-> enc[i]]
  BY <1>1 DEF percent_encode
<1>4. enc \in Seq(Element)
  BY <1>1, <1>2, <1>3
<1> QED BY <1>1, <1>4 DEF Text

(* Decoding undoes encoding, for every text and both treatments of "/": what   *)
(* a client escapes with the same rules reaches the gateway as it was meant.   *)
THEOREM DecodeUndoesEncode ==
    ASSUME NEW text \in Text, NEW encode_slash \in BOOLEAN
    PROVE  percent_decode(percent_encode(text, encode_slash)) = text
<1> DEFINE enc == percent_encode(text, encode_slash)
<1>1. DOMAIN enc = DOMAIN text
  BY EncodedText
<1>2. ~Undecodable(enc)
  BY <1>1, EncodedElement DEF Undecodable
<1>3. percent_decode(enc) = [i \in DOMAIN text |-> Unescape(enc[i])]
  BY <1>1, <1>2 DEF percent_decode
<1>4. \A i \in DOMAIN text : Unescape(enc[i]) = text[i]
  BY EncodedElement
<1>5. text = [i \in DOMAIN text |-> text[i]]
  BY DEF Text
<1> QED BY <1>3, <1>4, <1>5

(* Every spelling a signer may choose has one canonical path: all paths that   *)
(* decode to the same text are signed and verified as that text's encoding,    *)
(* and the canonical path is its own canonical path.                           *)
THEOREM CanonicalPathIsUnique ==
    ASSUME NEW text \in Text, NEW encode_slash \in BOOLEAN
    PROVE  canonical_uri(percent_encode(text, encode_slash)) = percent_encode(text, FALSE)
BY DecodeUndoesEncode DEF canonical_uri

-----------------------------------------------------------------------------
(* The two halves of a concatenation. *)
LEMMA Halves ==
    ASSUME NEW S, NEW s \in Seq(S), NEW t \in Seq(S)
    PROVE  /\ SubSeq(s \o t, 1, Len(s)) = s
           /\ SubSeq(s \o t, Len(s) + 1, Len(s) + Len(t)) = t
<1>1. /\ s \o t \in Seq(S) /\ Len(s \o t) = Len(s) + Len(t)
      /\ Len(s) \in Nat /\ Len(t) \in Nat
      /\ \A i \in 1..Len(s) : (s \o t)[i] = s[i]
      /\ \A i \in 1..Len(t) : (s \o t)[Len(s) + i] = t[i]
  OBVIOUS
<1>2. SubSeq(s \o t, 1, Len(s)) = s
  <2>1. /\ SubSeq(s \o t, 1, Len(s)) \in Seq(S)
        /\ Len(SubSeq(s \o t, 1, Len(s))) = Len(s)
        /\ \A i \in 1..Len(s) : SubSeq(s \o t, 1, Len(s))[i] = s[i]
    BY <1>1
  <2> QED BY <2>1
<1>3. SubSeq(s \o t, Len(s) + 1, Len(s) + Len(t)) = t
  <2> DEFINE u == SubSeq(s \o t, Len(s) + 1, Len(s) + Len(t))
  <2>1. u \in Seq(S) /\ Len(u) = Len(t) /\ \A i \in 1..Len(t) : u[i] = t[i]
    BY <1>1
  <2> QED BY <2>1
<1> QED BY <1>2, <1>3

(* A raw "/" of an encoded text is one that percent_encode copied. *)
LEMMA RawSlashWasCopied ==
    ASSUME NEW text \in Text, NEW encode_slash \in BOOLEAN, NEW i \in DOMAIN text
    PROVE  percent_encode(text, encode_slash)[i] = Lit(Slash)
             => Lit(Slash) \in Plain(encode_slash)
<1> DEFINE e == percent_encode(text, encode_slash)[i]
<1>1. text[i] \in Element /\ text[i] = <<text[i][1], text[i][2]>>
      /\ text[i][1] \in Chars /\ text[i][2] \in Nat
  BY DEF Text, Element
<1>2. CASE text[i] \in Plain(encode_slash)
  BY <1>2 DEF percent_encode
<1>3. CASE text[i] \notin Plain(encode_slash)
  <2>1. e = <<text[i][1], text[i][2] + 1>>
    BY <1>3 DEF percent_encode
  <2>2. e \in Element
    BY <1>1, <2>1 DEF Element
  <2>3. e[2] # 0
    BY <1>1, <2>1
  <2> QED BY <1>1, <2>2, <2>3 DEF Lit
<1> QED BY <1>2, <1>3

(* A name in which "/" was escaped has no raw "/". *)
LEMMA NoRawSlash ==
    ASSUME NEW text \in Text, NEW i \in DOMAIN text
    PROVE  percent_encode(text, TRUE)[i] # Lit(Slash)
<1>1. Lit(Slash) \notin Plain(TRUE)
  <2> SUFFICES ASSUME NEW c \in Unreserved, Lit(Slash) = Lit(c) PROVE FALSE
    BY DEF Plain
  <2>1. Lit(Slash)[1] = Slash /\ Lit(c)[1] = c
    BY DEF Lit
  <2> QED BY <2>1, CharsAssumption
<1> QED BY <1>1, RawSlashWasCopied

(* The first "/" after a name without one is the one that ends it. *)
LEMMA FirstSlashEndsName ==
    ASSUME NEW name \in Text, NEW rest \in Text,
           \A i \in DOMAIN name : name[i] # Lit(Slash)
    PROVE  FirstSlash(name \o <<Lit(Slash)>> \o rest) = Len(name) + 1
<1> DEFINE q == name \o <<Lit(Slash)>> \o rest
           n == Len(name) + 1
           Is(m) == /\ \A i \in 1..(m - 1) : q[i] # Lit(Slash)
                    /\ m <= Len(q) => q[m] = Lit(Slash)
<1>1. /\ Len(name) \in Nat /\ DOMAIN name = 1..Len(name) /\ Len(rest) \in Nat
      /\ Len(q) = Len(name) + 1 + Len(rest)
  BY CharsAssumption DEF Text, Element, Lit
<1>2. \A i \in 1..Len(name) : q[i] = name[i]
  BY CharsAssumption DEF Text, Element, Lit
<1>3. q[n] = Lit(Slash)
  BY CharsAssumption DEF Text, Element, Lit
<1>4. n \in 1..(Len(q) + 1) /\ Is(n)
  BY <1>1, <1>2, <1>3
<1>5. \A m \in 1..(Len(q) + 1) : Is(m) => m = n
  <2> SUFFICES ASSUME NEW m \in 1..(Len(q) + 1), Is(m), m # n PROVE FALSE
    OBVIOUS
  <2>1. CASE m < n
    BY <1>1, <1>2, <2>1
  <2>2. CASE m > n
    BY <1>1, <1>3, <2>2
  <2> QED BY <1>1, <2>1, <2>2
<1>6. FirstSlash(q) = CHOOSE m \in 1..(Len(q) + 1) : Is(m)
  BY DEF FirstSlash
<1> HIDE DEF Is, q, n
<1> QED BY <1>4, <1>5, <1>6 DEF q, n

(* The paths a client writes for names it escapes.  Behind a virtual host the  *)
(* path is the key's.                                                          *)
ObjectPath(bucket, key, encode_slash) ==
    <<Lit(Slash)>> \o (percent_encode(bucket, TRUE) \o <<Lit(Slash)>> \o percent_encode(key, encode_slash))
BucketPath(bucket) == <<Lit(Slash)>> \o percent_encode(bucket, TRUE)
KeyPath(key, encode_slash) == <<Lit(Slash)>> \o percent_encode(key, encode_slash)

(* Routing: a client that escapes bucket and key, "/" in the bucket included,  *)
(* reaches exactly that bucket and key, whatever bytes the names hold.         *)
THEOREM PathStyleRoutesAsMeant ==
    ASSUME NEW bucket \in Text, NEW key \in Text, NEW encode_slash \in BOOLEAN,
           NEW host, NEW suffix, bucket_from_host(host, suffix) = NoBucket
    PROVE  parse_target(ObjectPath(bucket, key, encode_slash), host, suffix)
             = [bucket |-> bucket, key |-> key]
<1> DEFINE B == percent_encode(bucket, TRUE)
           K == percent_encode(key, encode_slash)
           q == B \o <<Lit(Slash)>> \o K
           path == <<Lit(Slash)>> \o q
<1>1. B \in Text /\ K \in Text /\ DOMAIN B = DOMAIN bucket
  BY EncodedText
<1>2. <<Lit(Slash)>> \in Text /\ Lit(Slash) \in Element
  BY CharsAssumption DEF Text, Element, Lit
<1> HIDE DEF B, K
<1>3. B \o <<Lit(Slash)>> \in Text /\ Len(B \o <<Lit(Slash)>>) = Len(B) + 1 /\ Len(B) \in Nat
  BY <1>1, <1>2 DEF Text
<1>4. q \in Text /\ Len(q) = Len(B) + 1 + Len(K) /\ Len(K) \in Nat
  BY <1>1, <1>2, <1>3 DEF Text
<1>5. SkipSlash(path) = q
  <2>1. path # <<>> /\ path[1] = Lit(Slash) /\ Len(path) = 1 + Len(q)
    BY <1>2, <1>4 DEF Text
  <2>2. SubSeq(path, 2, 1 + Len(q)) = q
    BY <1>2, <1>4, Halves DEF Text
  <2> QED BY <2>1, <2>2 DEF SkipSlash
<1>6. FirstSlash(q) = Len(B) + 1
  <2>1. \A i \in DOMAIN B : B[i] # Lit(Slash)
    BY <1>1, NoRawSlash DEF B
  <2> QED BY <1>1, <2>1, FirstSlashEndsName
<1>7. SubSeq(q, 1, Len(B)) = B
  <2>1. SubSeq(q, 1, Len(B)) \in Seq(Element) /\ Len(SubSeq(q, 1, Len(B))) = Len(B)
        /\ \A i \in 1..Len(B) : SubSeq(q, 1, Len(B))[i] = B[i]
    BY <1>1, <1>2, <1>3, <1>4 DEF Text
  <2> QED BY <1>1, <2>1 DEF Text
<1>8. SubSeq(q, Len(B) + 2, Len(q)) = K
  BY <1>1, <1>3, <1>4, Halves DEF Text
<1>9. percent_decode(B) = bucket /\ percent_decode(K) = key
  BY DecodeUndoesEncode DEF B, K
<1>10. parse_target(path, host, suffix)
         = [bucket |-> percent_decode(SubSeq(q, 1, Len(B) + 1 - 1)),
            key |-> percent_decode(SubSeq(q, Len(B) + 1 + 1, Len(q)))]
  <2> HIDE DEF q, path
  <2> QED BY <1>5, <1>6 DEF parse_target
<1>11. Len(B) + 1 - 1 = Len(B) /\ Len(B) + 1 + 1 = Len(B) + 2
  BY <1>3
<1> QED BY <1>7, <1>8, <1>9, <1>10, <1>11 DEF B, K, ObjectPath

(* The same behind a virtual host: all of the path is the key, "/" included,   *)
(* escaped or not.                                                             *)
THEOREM VirtualHostRoutesAsMeant ==
    ASSUME NEW key \in Text, NEW encode_slash \in BOOLEAN,
           NEW host, NEW suffix, bucket_from_host(host, suffix) # NoBucket
    PROVE  parse_target(KeyPath(key, encode_slash), host, suffix)
             = [bucket |-> bucket_from_host(host, suffix), key |-> key]
<1> DEFINE K == percent_encode(key, encode_slash)
           path == <<Lit(Slash)>> \o K
<1>1. K \in Text /\ <<Lit(Slash)>> \in Text
  BY EncodedText, CharsAssumption DEF Text, Element, Lit
<1>2. percent_decode(K) = key
  BY DecodeUndoesEncode
<1> HIDE DEF K
<1>3. SkipSlash(path) = K
  <2>1. path # <<>> /\ path[1] = Lit(Slash) /\ Len(path) = 1 + Len(K) /\ Len(K) \in Nat
    BY <1>1 DEF Text
  <2>2. SubSeq(path, 2, 1 + Len(K)) = K
    BY <1>1, Halves DEF Text
  <2> QED BY <2>1, <2>2 DEF SkipSlash
<1> HIDE DEF path
<1>4. parse_target(path, host, suffix) = [bucket |-> bucket_from_host(host, suffix), key |-> key]
  BY <1>2, <1>3 DEF parse_target
<1> QED BY <1>4 DEF path, K, KeyPath

(* A path of one escaped segment names the bucket and no key. *)
THEOREM BucketPathRoutesAsMeant ==
    ASSUME NEW bucket \in Text, NEW host, NEW suffix, bucket_from_host(host, suffix) = NoBucket
    PROVE  parse_target(BucketPath(bucket), host, suffix)
             = [bucket |-> bucket, key |-> <<>>]
<1> DEFINE B == percent_encode(bucket, TRUE)
           path == <<Lit(Slash)>> \o B
           n == Len(B) + 1
           Is(m) == /\ \A i \in 1..(m - 1) : B[i] # Lit(Slash)
                    /\ m <= Len(B) => B[m] = Lit(Slash)
<1>1. B \in Text /\ <<Lit(Slash)>> \in Text /\ DOMAIN B = DOMAIN bucket
  <2>1. B \in Text /\ DOMAIN B = DOMAIN bucket
    BY EncodedText
  <2>2. <<Lit(Slash)>> \in Text
    BY CharsAssumption DEF Text, Element, Lit
  <2> QED BY <2>1, <2>2
<1>2. percent_decode(B) = bucket
  BY DecodeUndoesEncode
<1>3. \A i \in DOMAIN B : B[i] # Lit(Slash)
  BY <1>1, NoRawSlash
<1> HIDE DEF B
<1>4. Len(B) \in Nat /\ DOMAIN B = 1..Len(B)
  BY <1>1 DEF Text
<1>5. SkipSlash(path) = B
  <2>1. path # <<>> /\ path[1] = Lit(Slash) /\ Len(path) = 1 + Len(B)
    BY <1>1 DEF Text
  <2>2. SubSeq(path, 2, 1 + Len(B)) = B
    BY <1>1, Halves DEF Text
  <2> QED BY <2>1, <2>2 DEF SkipSlash
<1>6. FirstSlash(B) = n
  <2>1. n \in 1..(Len(B) + 1) /\ Is(n)
    BY <1>3, <1>4
  <2>2. \A m \in 1..(Len(B) + 1) : Is(m) => m = n
    BY <1>3, <1>4
  <2>3. FirstSlash(B) = CHOOSE m \in 1..(Len(B) + 1) : Is(m)
    BY DEF FirstSlash
  <2> HIDE DEF Is, n
  <2> QED BY <2>1, <2>2, <2>3
<1>7. SubSeq(B, 1, n - 1) = B /\ SubSeq(B, n + 1, Len(B)) = <<>>
  <2>1. n - 1 = Len(B) /\ n + 1 = Len(B) + 2
    BY <1>4
  <2>2. SubSeq(B, 1, Len(B)) = B
    BY <1>1 DEF Text
  <2>3. SubSeq(B, Len(B) + 2, Len(B)) = <<>>
    BY <1>1, <1>4 DEF Text
  <2> QED BY <2>1, <2>2, <2>3
<1>8. percent_decode(<<>>) = <<>>
  BY DEF percent_decode, Undecodable
<1> HIDE DEF path, n
<1>9. parse_target(path, host, suffix) = [bucket |-> bucket, key |-> <<>>]
  BY <1>2, <1>5, <1>6, <1>7, <1>8 DEF parse_target
<1> QED BY <1>9 DEF path, B, BucketPath

-----------------------------------------------------------------------------
(* Range reads. *)

(* A range the parser accepts lies inside the object and is not empty, so the  *)
(* body.assign of the GET branch stays within data.                            *)
THEOREM RangeInsideObject ==
    ASSUME NEW header \in Header, NEW size \in Nat, parse_single_range(header, size).ok
    PROVE  LET r == parse_single_range(header, size)
           IN  /\ r.start \in 0..(size - 1)
               /\ r.end \in r.start..(size - 1)
<1> USE DEF Header, Field
<1>1. size > 0 /\ header.form = "fields"
  BY DEF parse_single_range, NoRange
<1>2. CASE header.left.kind = "empty"
  BY <1>1, <1>2 DEF parse_single_range, SuffixRange, NoRange, Span
<1>3. CASE header.left.kind # "empty"
  BY <1>1, <1>3 DEF parse_single_range, StartRange, NoRange, Span
<1> QED BY <1>2, <1>3

(* parse_single_range accepts exactly the headers that ask for some existing   *)
(* byte, and the positions from start to end are exactly the bytes asked for.  *)
THEOREM RangeIsRequested ==
    ASSUME NEW header \in Header, NEW size \in Nat
    PROVE  LET r == parse_single_range(header, size)
           IN  /\ r.ok <=> Requested(header, size) # {}
               /\ r.ok => \A i \in Int : i \in Requested(header, size) <=> i \in r.start..r.end
<1> USE DEF Header, Field
<1> DEFINE r == parse_single_range(header, size)
<1>1. CASE size = 0 \/ header.form # "fields"
  BY <1>1 DEF parse_single_range, Requested, NoRange
<1>2. CASE size > 0 /\ header.form = "fields" /\ header.left.kind = "empty"
  <2>1. CASE header.right.kind # "int" \/ header.right.val <= 0
    BY <1>2, <2>1 DEF parse_single_range, SuffixRange, NoRange, Requested
  <2>2. CASE header.right.kind = "int" /\ header.right.val > 0
    <3>1. size - 1 \in Requested(header, size)
      BY <1>2, <2>2 DEF Requested
    <3>2. r.ok /\ \A i \in Int : i \in Requested(header, size) <=> i \in r.start..r.end
      BY <1>2, <2>2 DEF parse_single_range, SuffixRange, Span, Requested
    <3> QED BY <3>1, <3>2
  <2> QED BY <2>1, <2>2
<1>3. CASE size > 0 /\ header.form = "fields" /\ header.left.kind # "empty"
  <2> DEFINE end == IF header.right.kind = "empty" THEN size - 1 ELSE header.right.val
             rejected == \/ header.left.kind # "int" \/ header.right.kind = "bad"
                         \/ header.left.val < 0 \/ header.left.val >= size
                         \/ end < header.left.val
  <2>1. CASE rejected
    BY <1>3, <2>1 DEF parse_single_range, StartRange, NoRange, Requested
  <2>2. CASE ~rejected
    <3>1. header.left.val \in Requested(header, size)
      BY <1>3, <2>2 DEF Requested
    <3>2. r = Span(header.left.val, IF end >= size THEN size - 1 ELSE end)
      BY <1>3, <2>2 DEF parse_single_range, StartRange
    <3>3. r.ok /\ \A i \in Int : i \in Requested(header, size) <=> i \in r.start..r.end
      BY <1>3, <2>2, <3>2 DEF Span, Requested
    <3> QED BY <3>1, <3>3
  <2> QED BY <2>1, <2>2
<1> QED BY <1>1, <1>2, <1>3

-----------------------------------------------------------------------------
(* Responses. *)

(* What the client takes off the connection is what the response puts there. *)
Framed(req, res) ==
    \/ res.written = Expected(req, res)
    \/ req.method = "HEAD" /\ res.status >= 400

(* ... and it is a 403 if verify_sigv4 said no, and only then. *)
Fits(req, res) == Framed(req, res) /\ (res.status = 403 <=> verify_sigv4(req) # "ok")

(* An error document fits the request it answers. *)
LEMMA ErrorFits ==
    ASSUME NEW req, NEW status \in {400, 403, 404, 405, 409, 413, 416, 500},
           status = 403 <=> verify_sigv4(req) # "ok"
    PROVE  Fits(req, s3_error(status))
BY DEF Fits, Framed, Expected, s3_error, make_xml_response, Response

(* So does every response after a call of the store. *)
LEMMA ResponsesFit ==
    ASSUME NEW req, Refusal(req) = 0, NEW reply \in Replies \ {"none"}, NEW size,
           NEW res \in ResponsesTo(req, StoreOp(req), reply, size)
    PROVE  Fits(req, res)
<1> DEFINE op == StoreOp(req)
<1>1. /\ op \in {"list_buckets", "create_bucket", "bucket_exists", "delete_bucket", "list_objects_v2",
                 "put_object", "head_object", "delete_object", "get_object_data"}
      /\ op \in {"bucket_exists", "head_object"} => req.method = "HEAD"
      /\ op \notin {"bucket_exists", "head_object"} => req.method # "HEAD"
  BY StoreOps
<1>a. verify_sigv4(req) = "ok"
  BY DEF Refusal
<1> HIDE DEF op
<1>2. CASE reply # "ok"
  <2>1. PICK status \in map_storage_error(reply) : res = s3_error(status)
    BY <1>2 DEF ResponsesTo
  <2>2. status \in {400, 404, 409, 500}
    BY <1>2, <2>1 DEF map_storage_error, Replies
  <2> QED BY <1>a, <2>1, <2>2, ErrorFits
<1>3. CASE reply = "ok"
  <2>1. res = Success(req, op, size)
    BY <1>3 DEF ResponsesTo, op
  <2>2. CASE op \in {"list_buckets", "list_objects_v2"}
    BY <1>a, <1>1, <2>1, <2>2 DEF Success, make_xml_response, Response, Fits, Framed, Expected
  <2>3. CASE op \in {"create_bucket", "bucket_exists", "put_object", "delete_bucket", "delete_object"}
    BY <1>a, <1>1, <2>1, <2>3 DEF Success, make_empty_response, Response, Fits, Framed, Expected
  <2>4. CASE op = "head_object"
    BY <1>a, <1>1, <2>1, <2>4 DEF Success, head_response, Response, Fits, Framed, Expected
  <2>5. CASE op = "get_object_data"
    <3>1. res = get_response(req, size)
      BY <2>1, <2>5 DEF Success
    <3>2. GetObject(req.range, size).status \in {200, 206, 416}
      BY DEF GetObject
    <3> QED BY <1>a, <1>1, <2>5, <3>1, <3>2, ErrorFits DEF get_response, Response, Fits, Framed, Expected
  <2> QED BY <1>1, <2>2, <2>3, <2>4, <2>5
<1> QED BY <1>2, <1>3

(* Every response fits its request, for any outcome of the RocksDB calls. *)
AnswersFit == \A t \in Threads : response[t] # None => Fits(request[t], response[t])

(* No step leaves a session with a response that does not fit. *)
LEMMA AnswersAlwaysFit == GatewaySpec => []AnswersFit
<1>1. GatewayInit => AnswersFit
  BY DEF GatewayInit, AnswersFit
<1>2. ASSUME GatewayInv, AnswersFit, [GatewayNext]_gatewayVars
      PROVE  AnswersFit'
  <2>0. /\ request \in [Threads -> Requests \union {None}]
        /\ response = [t \in Threads |-> response[t]]
        /\ \A t \in Threads : request[t] = None => response[t] = None
        /\ \A t \in Threads : response[t] # None => Fits(request[t], response[t])
    BY <1>2 DEF GatewayInv, SessionInv, AnswersFit
  <2>g. SUFFICES \A t \in Threads : response'[t] # None => Fits(request'[t], response'[t])
    BY DEF AnswersFit, Fits, Framed, Expected
  <2>r. ASSUME NEW t \in Threads, NEW S, Respond(t, S), UNCHANGED request,
               \A res \in S : Fits(request[t], res)
        PROVE  \A s \in Threads : response'[s] # None => Fits(request'[s], response'[s])
    BY <2>0, <2>r DEF Respond
  <2>1. ASSUME NEW t \in Threads, OnRead(t)
        PROVE  \A s \in Threads : response'[s] # None => Fits(request'[s], response'[s])
    BY <2>0, <2>1 DEF OnRead
  <2>2. ASSUME NEW t \in Threads, Refuse(t)
        PROVE  \A s \in Threads : response'[s] # None => Fits(request'[s], response'[s])
    <3>1. /\ Refusal(request[t]) \in {400, 403, 405, 413}
          /\ Refusal(request[t]) = 403 <=> verify_sigv4(request[t]) # "ok"
      BY <2>2 DEF Refuse, Refusal
    <3> QED BY <2>r, <2>2, <3>1, ErrorFits DEF Refuse
  <2>3. ASSUME NEW t \in Threads, Work(t)
        PROVE  \A s \in Threads : response'[s] # None => Fits(request'[s], response'[s])
    <3>1. /\ Step(t) /\ UNCHANGED request
          /\ \/ UNCHANGED response
             \/ \E size : /\ call'[t].at = "idle"
                          /\ Respond(t, ResponsesTo(request[t], call[t].op, call'[t].reply, size))
      BY <2>3 DEF Work
    <3>2. CASE UNCHANGED response
      BY <2>0, <3>1, <3>2
    <3>3. CASE call'[t].at = "idle"
      <4>1. call[t].at # "idle"
        BY <1>2, <3>1, StepShape
      <4>2. Refusal(request[t]) = 0 /\ call[t].op = StoreOp(request[t]) /\ call \in [Threads -> Calls]
        BY <1>2, <4>1 DEF GatewayInv, SessionInv, Serving, TypeInv, TypeOK
      <4>3. \A place : Goto(t, place) => call'[t].at = place
        BY <4>2 DEF Goto, Calls
      <4>4. PICK r \in Replies \ {"none"} : Return(t, r)
        BY <1>2, <3>1, <3>3, <4>3, StepShape
      <4>5. call'[t].reply = r
        BY <4>2, <4>4 DEF Return, Idle
      <4> QED BY <2>r, <3>1, <3>2, <4>2, <4>4, <4>5, ResponsesFit
    <3> QED BY <3>1, <3>2, <3>3
  <2>4. ASSUME NEW t \in Threads, List(t)
        PROVE  \A s \in Threads : response'[s] # None => Fits(request'[s], response'[s])
    <3>1. PICK reply \in {"ok", "NoSuchBucket", "InternalError"} :
             Respond(t, ResponsesTo(request[t], StoreOp(request[t]), reply, 0))
      BY <2>4 DEF List
    <3>2. Refusal(request[t]) = 0 /\ UNCHANGED request
      BY <2>4 DEF List
    <3> QED BY <2>r, <3>1, <3>2, ResponsesFit DEF Replies
  <2>5. ASSUME NEW t \in Threads, OnWrite(t)
        PROVE  \A s \in Threads : response'[s] # None => Fits(request'[s], response'[s])
    BY <2>0, <2>5 DEF OnWrite
  <2>6. ASSUME NEW t \in Threads, Call(t)
        PROVE  \A s \in Threads : response'[s] # None => Fits(request'[s], response'[s])
    BY <2>0, <2>6 DEF Call
  <2>7. CASE Restart
    BY <2>7 DEF Restart
  <2>8. CASE UNCHANGED gatewayVars
    BY <2>0, <2>8 DEF gatewayVars
  <2> QED BY <1>2, <2>1, <2>2, <2>3, <2>4, <2>5, <2>6, <2>7, <2>8 DEF GatewayNext
<1> QED BY <1>1, <1>2, SessionsServe, PTL DEF GatewaySpec

(* On every connection, for any sequence of requests and any outcome of their  *)
(* RocksDB calls, a response has the body its method and its Content-Length    *)
(* announce; only the error that answers a HEAD has one too many.              *)
THEOREM ResponsesAreFramed == GatewaySpec => []FramedUnlessHeadFails
<1>1. AnswersFit => FramedUnlessHeadFails
  BY DEF AnswersFit, Fits, FramedUnlessHeadFails, Framed
<1> QED BY <1>1, AnswersAlwaysFit, PTL

-----------------------------------------------------------------------------
(* The canonical request of AWS's signing process, for a request whose path    *)
(* spells path and whose query parameters spell params.                        *)
CanonicalRequest(req, path, params, presign, signed, payload) ==
    [method |-> req.method,
     uri |-> percent_encode(path, FALSE),
     query |-> [params |-> [k \in DOMAIN req.params |-> percent_encode(params[k], TRUE)],
                presign |-> presign],
     headers |-> [h \in signed \intersect DOMAIN req.headers |-> req.headers[h].text],
     payload |-> payload]

(* The credential names the gateway's key and service, and the secret that     *)
(* goes with the key signed the canonical request.                             *)
Signs(req, credential, date, presign, payload) ==
    /\ credential.scope.service = "s3"
    /\ credential.access_key = AccessKey
    /\ \E path, params :
          /\ path = percent_decode(req.path)
          /\ \A k \in DOMAIN req.params : params[k] = percent_decode(req.params[k])
          /\ credential.signature =
                Hmac(SecretKey, credential.scope, date,
                     CanonicalRequest(req, path, params, presign, credential.signed, payload))

(* The owner of the key signed the request: in the Authorization header, over  *)
(* a payload that is sent in one piece, or, when it has no such header, in its *)
(* query.                                                                      *)
SignedByOwner(req) ==
    \/ /\ HasAuthorization(req)
       /\ PayloadHash(req) # StreamingPayload
       /\ Signs(req, req.credential, Raw(req.headers["x-amz-date"]),
                [f \in DOMAIN req.presign |-> req.presign[f]], PayloadHash(req))
    \/ /\ ~HasAuthorization(req) /\ HasPresigned(req)
       /\ Signs(req, req.presign, req.presign.amz_date,
                [f \in DOMAIN req.presign \ {"signature"} |-> req.presign[f]], UnsignedPayload)

(* verify_with_parts says ok to what Signs describes, whatever the spelling of *)
(* the path and the parameters, and to nothing else.                           *)
LEMMA VerifiesSigned ==
    ASSUME NEW req, NEW parts, NEW credential, NEW payload, NEW exclude,
           parts.scope = credential.scope, parts.access_key = credential.access_key,
           parts.signed = credential.signed, parts.signature = credential.signature
    PROVE  verify_with_parts(req, parts, payload, exclude) = "ok" <=>
              Signs(req, credential, parts.amz_date,
                    [f \in DOMAIN req.presign \ exclude |-> req.presign[f]], payload)
<1> DEFINE presign == [f \in DOMAIN req.presign \ exclude |-> req.presign[f]]
           canonical == [method |-> req.method, uri |-> canonical_uri(req.path),
                         query |-> canonical_query_string(req, exclude),
                         headers |-> canonical_headers(req.headers, parts.signed), payload |-> payload]
           decoded == [k \in DOMAIN req.params |-> percent_decode(req.params[k])]
<1>1. verify_with_parts(req, parts, payload, exclude) = "ok" <=>
         /\ parts.scope.service = "s3" /\ parts.access_key = AccessKey
         /\ parts.signature = Hmac(SecretKey, parts.scope, parts.amz_date, canonical)
  BY DEF verify_with_parts
<1>2. ASSUME NEW path, NEW params, path = percent_decode(req.path),
             \A k \in DOMAIN req.params : params[k] = percent_decode(req.params[k])
      PROVE  CanonicalRequest(req, path, params, presign, credential.signed, payload) = canonical
  <2>1. canonical_uri(req.path) = percent_encode(path, FALSE)
    BY <1>2 DEF canonical_uri
  <2>2. [k \in DOMAIN req.params |-> percent_encode(params[k], TRUE)]
          = [k \in DOMAIN req.params |-> percent_encode(percent_decode(req.params[k]), TRUE)]
    BY <1>2, Zenon
  <2>3. canonical_headers(req.headers, parts.signed)
          = [h \in credential.signed \intersect DOMAIN req.headers |-> req.headers[h].text]
    BY DEF canonical_headers, Trimmed
  <2> QED BY <2>1, <2>2, <2>3, Zenon DEF CanonicalRequest, canonical_query_string
<1>3. /\ percent_decode(req.path) = percent_decode(req.path)
      /\ \A k \in DOMAIN req.params : decoded[k] = percent_decode(req.params[k])
  OBVIOUS
<1> HIDE DEF presign, canonical, decoded
<1>4. Signs(req, credential, parts.amz_date, presign, payload) <=>
         /\ parts.scope.service = "s3" /\ parts.access_key = AccessKey
         /\ parts.signature = Hmac(SecretKey, parts.scope, parts.amz_date, canonical)
  BY <1>2, <1>3, Zenon DEF Signs
<1> QED BY <1>1, <1>4 DEF presign

(* verify_sigv4 says ok to what the owner signed and to nothing else. *)
LEMMA VerifiesOwner ==
    ASSUME AuthMode # "none", NEW req
    PROVE  verify_sigv4(req) = "ok" <=> SignedByOwner(req)
<1> DEFINE date == Raw(req.headers["x-amz-date"])
           c == req.credential
           parts == [access_key |-> c.access_key, scope |-> c.scope, signed |-> c.signed,
                     signature |-> c.signature, amz_date |-> date]
<1>1. CASE HasAuthorization(req)
  <2>1. verify_sigv4(req) = "ok" <=>
           /\ PayloadHash(req) # StreamingPayload
           /\ verify_with_parts(req, parts, PayloadHash(req), {}) = "ok"
    BY <1>1 DEF verify_sigv4, verify_authorization
  <2>2. /\ parts.scope = req.credential.scope /\ parts.access_key = req.credential.access_key
        /\ parts.signed = req.credential.signed /\ parts.signature = req.credential.signature
        /\ parts.amz_date = date
    OBVIOUS
  <2>3. [f \in DOMAIN req.presign \ {} |-> req.presign[f]] = [f \in DOMAIN req.presign |-> req.presign[f]]
    OBVIOUS
  <2> HIDE DEF parts, date
  <2>4. verify_with_parts(req, parts, PayloadHash(req), {}) = "ok" <=>
           Signs(req, req.credential, date, [f \in DOMAIN req.presign |-> req.presign[f]], PayloadHash(req))
    BY <2>2, <2>3, VerifiesSigned
  <2> QED BY <1>1, <2>1, <2>4, Zenon DEF SignedByOwner, date
<1>2. CASE ~HasAuthorization(req) /\ HasPresigned(req)
  <2>1. verify_sigv4(req) = verify_with_parts(req, req.presign, UnsignedPayload, {"signature"})
    BY <1>2 DEF verify_sigv4, verify_presigned
  <2>2. verify_with_parts(req, req.presign, UnsignedPayload, {"signature"}) = "ok" <=>
           Signs(req, req.presign, req.presign.amz_date,
                 [f \in DOMAIN req.presign \ {"signature"} |-> req.presign[f]], UnsignedPayload)
    BY VerifiesSigned, Zenon
  <2> QED BY <1>2, <2>1, <2>2, Zenon DEF SignedByOwner
<1>3. CASE ~HasAuthorization(req) /\ ~HasPresigned(req)
  <2>1. verify_sigv4(req) = "AccessDenied"
    BY <1>3 DEF verify_sigv4
  <2> QED BY <1>3, <2>1 DEF SignedByOwner
<1> QED BY <1>1, <1>2, <1>3

(* With authentication on, and requests marked as signed when the owner of the *)
(* key signed them, a session answers 403 exactly to those that are not, and   *)
(* runs an operation of the store only for those that are: for any number of   *)
(* sessions, any spelling of paths and parameters, any outcome in RocksDB.     *)
THEOREM OwnersAndOnlyOwnersAreServed ==
    ASSUME AuthMode # "none", \A req \in Requests : req.signed <=> SignedByOwner(req)
    PROVE  GatewaySpec => []OwnerAndOnlyOwner
<1>1. \A req \in Requests : verify_sigv4(req) = "ok" <=> req.signed
  BY VerifiesOwner
<1>2. GatewayInv /\ AnswersFit => OwnerAndOnlyOwner
  <2> SUFFICES ASSUME GatewayInv, AnswersFit, NEW t \in Threads
               PROVE  /\ response[t] # None => (response[t].status = 403 <=> ~request[t].signed)
                      /\ ~At(t, "idle") => request[t].signed
    BY DEF OwnerAndOnlyOwner
  <2>1. response[t] # None => request[t] \in Requests
    BY DEF GatewayInv, SessionInv
  <2>2. response[t] # None => (response[t].status = 403 <=> ~request[t].signed)
    BY <1>1, <2>1 DEF AnswersFit, Fits
  <2>3. ~At(t, "idle") => request[t] \in Requests /\ Refusal(request[t]) = 0
    BY DEF GatewayInv, SessionInv, Serving, At
  <2>4. Refusal(request[t]) = 0 => verify_sigv4(request[t]) = "ok"
    BY DEF Refusal
  <2> QED BY <1>1, <2>2, <2>3, <2>4
<1> QED BY <1>2, SessionsServe, AnswersAlwaysFit, PTL

-----------------------------------------------------------------------------
(* A client escapes the names it means, "/" in a bucket name included, and     *)
(* leaves the key's "/" as they are or escapes them; for the bucket itself it  *)
(* stops after the bucket's name; the bucket may be in the Host header.        *)
EscapesItsNames(req) ==
    LET vhost == bucket_from_host(req.host, VhostSuffix)
        bucket == req.meant.bucket
        key == req.meant.key
    IN  /\ bucket \in Text /\ key \in Text
        /\ \E encode_slash \in BOOLEAN :
              \/ vhost = NoBucket /\ req.path = ObjectPath(bucket, key, encode_slash)
              \/ vhost = NoBucket /\ req.path = BucketPath(bucket) /\ key = <<>>
              \/ vhost # NoBucket /\ req.path = KeyPath(key, encode_slash) /\ bucket = vhost

(* parse_target finds the names such a client means. *)
LEMMA TargetIsMeant ==
    ASSUME NEW req, EscapesItsNames(req)
    PROVE  TargetOf(req).bucket = req.meant.bucket /\ TargetOf(req).key = req.meant.key
<1> DEFINE bucket == req.meant.bucket
           key == req.meant.key
           vhost == bucket_from_host(req.host, VhostSuffix)
<1>1. bucket \in Text /\ key \in Text
  BY DEF EscapesItsNames
<1>2. PICK encode_slash \in BOOLEAN :
              \/ vhost = NoBucket /\ req.path = ObjectPath(bucket, key, encode_slash)
              \/ vhost = NoBucket /\ req.path = BucketPath(bucket) /\ key = <<>>
              \/ vhost # NoBucket /\ req.path = KeyPath(key, encode_slash) /\ bucket = vhost
  BY DEF EscapesItsNames
<1> HIDE DEF bucket, key
<1>3. parse_target(req.path, req.host, VhostSuffix) = [bucket |-> bucket, key |-> key]
  BY <1>1, <1>2, PathStyleRoutesAsMeant, BucketPathRoutesAsMeant, VirtualHostRoutesAsMeant
<1> QED BY <1>3 DEF TargetOf, bucket, key

(* Every operation works on the bucket and the key its client meant, whatever  *)
(* bytes the names hold and in whichever of these ways they are escaped.       *)
THEOREM OperationsRoutedAsMeant ==
    ASSUME \A req \in Requests : EscapesItsNames(req)
    PROVE  GatewaySpec => []RoutedAsMeant
<1>1. GatewayInv => RoutedAsMeant
  BY TargetIsMeant DEF GatewayInv, SessionInv, Serving, RoutedAsMeant, At
<1> QED BY <1>1, SessionsServe, PTL

(* The response to a GET has the bytes of an object of this size that the      *)
(* header asks for.                                                            *)
HasBytes(res, header, size) ==
    LET body == res.start..(res.start + res.written - 1)
    IN  /\ res.status = 206 => body = Requested(header, size) /\ res.written > 0
        /\ res.status = 416 => header.form # "absent" /\ Requested(header, size) = {}
        /\ res.status = 200 => header.form = "absent" /\ body = 0..(size - 1)

(* The response to a GET has the bytes its Range header asks for. *)
LEMMA GetResponseExact ==
    ASSUME NEW req, req.range \in Header, NEW size \in Nat
    PROVE  HasBytes(get_response(req, size), req.range, size)
<1> DEFINE header == req.range
           r == parse_single_range(header, size)
           res == get_response(req, size)
           asked == Requested(header, size)
<1>1. /\ r.ok <=> asked # {}
      /\ r.ok => \A i \in Int : i \in asked <=> i \in r.start..r.end
  BY RangeIsRequested
<1>2. r.ok => r.start \in 0..(size - 1) /\ r.end \in r.start..(size - 1)
  BY RangeInsideObject
<1>3. asked \subseteq Int
  BY DEF Requested
<1>4. /\ header.form = "absent" => GetObject(header, size) = [status |-> 200, start |-> 0, count |-> size]
      /\ header.form # "absent" /\ ~r.ok => GetObject(header, size) = [status |-> 416, start |-> 0, count |-> 0]
      /\ header.form # "absent" /\ r.ok =>
            GetObject(header, size) = [status |-> 206, start |-> r.start, count |-> r.end + 1 - r.start]
  BY DEF GetObject
<1> HIDE DEF header, r, asked
<1>5. /\ header.form = "absent" => res.status = 200 /\ res.start = 0 /\ res.written = size
      /\ header.form # "absent" /\ ~r.ok => res.status = 416
      /\ header.form # "absent" /\ r.ok =>
            res.status = 206 /\ res.start = r.start /\ res.written = r.end + 1 - r.start
  BY <1>4 DEF get_response, s3_error, make_xml_response, Response, header
<1> HIDE DEF res
<1>6. CASE header.form = "absent"
  BY <1>5, <1>6 DEF HasBytes, res, header, asked
<1>7. CASE header.form # "absent" /\ ~r.ok
  BY <1>1, <1>5, <1>7 DEF HasBytes, res, header, asked
<1>8. CASE header.form # "absent" /\ r.ok
  <2>1. r.start + (r.end + 1 - r.start) - 1 = r.end /\ r.end + 1 - r.start > 0 /\ r.start..r.end \subseteq Int
    BY <1>2, <1>8
  <2>2. asked = r.start..r.end
    BY <1>1, <1>3, <1>8, <2>1
  <2> QED BY <1>5, <1>8, <2>1, <2>2 DEF HasBytes, res, header, asked
<1> QED BY <1>6, <1>7, <1>8

(* The response of a session at the Get of the data row. *)
LEMMA GetAnswers ==
    ASSUME GatewayInv, [GatewayNext]_gatewayVars, NEW t \in Threads,
           call[t].at = "get_data", response'[t] # None
    PROVE  /\ Serving(t)
           /\ \/ response'[t].status \in {400, 404, 500}
              \/ /\ db.data[Obj(t)] # None
                 /\ response'[t] = get_response(request[t], SizeOf[db.data[Obj(t)]])
<1>1. /\ Serving(t) /\ response[t] = None /\ call[t].op = "get_object_data"
      /\ response = [s \in Threads |-> response[s]] /\ call \in [Threads -> Calls]
  BY DEF GatewayInv, SessionInv, Serving, OpsAt, TypeInv, TypeOK
<1>2. \A s \in Threads : Waiting(s) => s # t
  BY DEF Waiting, At
<1>3. ASSUME NEW s \in Threads, s # t PROVE ~Work(s) /\ ~Refuse(s) /\ ~List(s)
  BY <1>1, <1>3 DEF Work, Refuse, List, Respond
<1>4. ~UNCHANGED response /\ ~Restart
  BY <1>1 DEF Restart
<1>5. \A s \in Threads : ~OnWrite(s)
  BY <1>1 DEF OnWrite
<1>6. Work(t)
  <2>1. PICK s \in Threads : OnRead(s) \/ Refuse(s) \/ Call(s) \/ Work(s) \/ List(s) \/ OnWrite(s)
    BY <1>4 DEF GatewayNext, gatewayVars
  <2>2. ~OnRead(s) /\ ~Call(s)
    BY <1>4 DEF OnRead, Call
  <2>3. s = t => ~Refuse(s) /\ ~List(s)
    BY <1>2 DEF Refuse, List
  <2> QED BY <1>3, <1>5, <2>1, <2>2, <2>3
<1> DEFINE o == Obj(t)
           size == IF db.data[o] # None THEN SizeOf[db.data[o]] ELSE 0
<1>7. GetObjectData(t) \/ RocksError(t)
  BY <1>6 DEF Work, Step, BucketExists, CreateBucketGet, CreateBucketPut, DeleteBucketSeek,
              DeleteBucketDrop, PutObject, HeadObject, DeleteObject, At
<1>8. PICK r \in {"InternalError", "NoSuchKey", "ok"} :
         Return(t, r) /\ (r = "ok" => db.data[o] # None)
  BY <1>7 DEF GetObjectData, RocksError
<1>9. call'[t].at = "idle" /\ call'[t].reply = r
  BY <1>1, <1>8 DEF Return, Idle
<1>10. Respond(t, ResponsesTo(request[t], "get_object_data", r, size))
  BY <1>1, <1>6, <1>9 DEF Work, At
<1>11. response'[t] \in ResponsesTo(request[t], "get_object_data", r, size)
  BY <1>1, <1>10 DEF Respond
<1>12. CASE r = "ok"
  <2>1. response'[t] = Success(request[t], "get_object_data", size)
    BY <1>11, <1>12 DEF ResponsesTo
  <2>2. Success(request[t], "get_object_data", size) = get_response(request[t], size)
    BY DEF Success
  <2> QED BY <1>1, <1>8, <1>12, <2>1, <2>2
<1>13. CASE r # "ok"
  <2>1. PICK status \in map_storage_error(r) : response'[t] = s3_error(status)
    BY <1>11, <1>13 DEF ResponsesTo
  <2>2. status \in {400, 404, 500}
    BY <1>8, <1>13, <2>1 DEF map_storage_error
  <2> QED BY <1>1, <2>1, <2>2 DEF s3_error, make_xml_response, Response
<1> QED BY <1>12, <1>13

(* The row a session reads has a size. *)
LEMMA RowsHaveSizes ==
    ASSUME GatewayInv, NEW t \in Threads, call[t].at = "get_data", db.data[Obj(t)] # None
    PROVE  SizeOf[db.data[Obj(t)]] \in Nat
<1>1. Obj(t) \in Objects
  BY DEF GatewayInv, TypeInv, CallsWellFormed, Obj, Objects
<1>2. db.data \in [Objects -> Payloads \union {None}]
  BY DEF GatewayInv, TypeInv, TypeOK, Rows
<1> QED BY <1>1, <1>2, SizeAssumption

(* What a session that read a row answers, in terms of what its client meant. *)
LEMMA GetAnswersAsMeant ==
    ASSUME \A req \in Requests : EscapesItsNames(req), GatewayInv, [GatewayNext]_gatewayVars,
           NEW t \in Threads, call[t].at = "get_data",
           response'[t] # None, response'[t].status \in {200, 206, 416}
    PROVE  LET o == <<request[t].meant.bucket, request[t].meant.key>>
           IN  /\ db.data[o] # None
               /\ HasBytes(response'[t], request[t].range, SizeOf[db.data[o]])
<1> DEFINE req == request[t]
           o == <<req.meant.bucket, req.meant.key>>
<1>1. Serving(t) /\ db.data[Obj(t)] # None /\ response'[t] = get_response(req, SizeOf[db.data[Obj(t)]])
  BY GetAnswers
<1>2. req \in Requests /\ req.range \in Header
  BY <1>1, RequestsAssumption DEF Serving
<1>3. TargetOf(req).bucket = req.meant.bucket /\ TargetOf(req).key = req.meant.key
  BY <1>2, TargetIsMeant
<1>4. TargetOf(req).key # <<>>
  <2>1. OpsAt[call[t].at] = {"get_object_data"}
    BY DEF OpsAt
  <2>2. StoreOp(req) = "get_object_data" /\ Refusal(req) = 0 /\ TargetOf(req).bucket # NoBucket
    BY <1>1, <2>1 DEF Serving
  <2> QED BY <2>2, StoreOps
<1>5. Obj(t) = o
  <2>1. call[t].b = TargetOf(req).bucket /\ call[t].k = TargetOf(req).key
    BY <1>1, <1>4 DEF Serving
  <2>2. call[t].b = req.meant.bucket /\ call[t].k = req.meant.key
    <3> HIDE DEF req
    <3> QED BY <1>3, <2>1
  <2> QED BY <2>2 DEF Obj
<1>6. SizeOf[db.data[Obj(t)]] \in Nat
  BY <1>1, RowsHaveSizes
<1>7. SizeOf[db.data[o]] \in Nat
  <2> HIDE DEF o
  <2> QED BY <1>5, <1>6
<1> DEFINE size == SizeOf[db.data[o]]
<1>8. HasBytes(get_response(req, size), req.range, size)
  BY <1>2, <1>7, GetResponseExact
<1>9. response'[t] = get_response(req, size) /\ db.data[o] # None
  <2> HIDE DEF req, o
  <2> QED BY <1>1, <1>5
<1>10. HasBytes(response'[t], req.range, size)
  <2> HIDE DEF req, size
  <2> QED BY <1>8, <1>9, Zenon
<1> QED BY <1>9, <1>10

(* A GET never answers with bytes of another object or of another range: the   *)
(* target, the read of the row and parse_single_range fit together, whatever   *)
(* the other sessions write and delete meanwhile.                              *)
THEOREM GetServesMeantBytes ==
    ASSUME \A req \in Requests : EscapesItsNames(req)
    PROVE  GatewaySpec => ServesMeantBytes
<1> DEFINE Served(t) ==
             LET req == request[t]
                 res == response'[t]
                 meant == <<req.meant.bucket, req.meant.key>>
                 size == SizeOf[db.data[meant]]
                 body == res.start..(res.start + res.written - 1)
             IN  At(t, "get_data") /\ res # None /\ res.status \in {200, 206, 416} =>
                     /\ db.data[meant] # None
                     /\ res.status = 206 => body = Requested(req.range, size) /\ res.written > 0
                     /\ res.status = 416 => req.range.form # "absent" /\ Requested(req.range, size) = {}
                     /\ res.status = 200 => req.range.form = "absent" /\ body = 0..(size - 1)
<1>1. ASSUME GatewayInv, [GatewayNext]_gatewayVars, NEW t \in Threads PROVE Served(t)
  <2> SUFFICES ASSUME call[t].at = "get_data", response'[t] # None, response'[t].status \in {200, 206, 416}
               PROVE  Served(t)
    BY DEF At
  <2> QED BY <1>1, GetAnswersAsMeant DEF HasBytes, Served
<1>2. GatewayInv /\ [GatewayNext]_gatewayVars => [\A t \in Threads : Served(t)]_gatewayVars
  BY <1>1
<1> QED BY <1>2, SessionsServe, PTL DEF GatewaySpec, ServesMeantBytes
=============================================================================
