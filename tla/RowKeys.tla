------------------------------ MODULE RowKeys ------------------------------
(***************************************************************************)
(* The bytes of RocksDB's rows (storage.cpp): the keys of the three        *)
(* families, the order in which an iterator meets them, the metadata row,  *)
(* and the continuation token, which is a row key in base64 (util.cpp).    *)
(* A string is a sequence of bytes.                                        *)
(***************************************************************************)
EXTENDS Naturals, Sequences

Byte == 0 .. 255
Bytes == Seq(Byte)

(* Names without NUL, as the contains_nul checks demand. *)
Name == Seq(Byte \ {0})

bucket_key(bucket) == <<66, 0>> \o bucket

(* Faulty variant: nothing ends the bucket's name. *)
meta_prefix_Open(bucket) == <<77, 0>> \o bucket

meta_prefix(bucket) == <<77, 0>> \o bucket \o <<0>>
meta_key(bucket, key) == meta_prefix(bucket) \o key
data_key(bucket, key) == <<68, 0>> \o bucket \o <<0>> \o key

(* s.rfind(p, 0) == 0 *)
StartsWith(s, p) == Len(p) <= Len(s) /\ \A i \in 1 .. Len(p) : s[i] = p[i]

(* RocksDB's order of keys: by the first byte that differs, a prefix first. *)
Before(s, t) ==
    \E n \in 0 .. Len(s) :
        /\ n < Len(t)
        /\ \A i \in 1 .. n : s[i] = t[i]
        /\ n < Len(s) => s[n + 1] < t[n + 1]

-----------------------------------------------------------------------------
(* The rows list_objects_v2's first iterator would list if no page were full:  *)
(* from the token's row, but not that row, or else from the prefix, up to the  *)
(* first row that does not match.                                              *)
Walked(rows, bucket, prefix, token) ==
    LET wanted == meta_prefix(bucket) \o prefix
        seek_key == IF token = <<>> THEN wanted ELSE token
        from == {r \in rows : ~Before(r, seek_key) /\ (token # <<>> => r # seek_key)}
    IN  {r \in from : \A q \in from : Before(q, r) \/ q = r => StartsWith(q, wanted)}

(* delete_bucket: the row that Seek finds belongs to the bucket. *)
SeekFindsObject(rows, bucket) ==
    \E r \in rows :
        /\ ~Before(r, meta_prefix(bucket))
        /\ \A q \in rows : ~Before(q, meta_prefix(bucket)) => ~Before(q, r)
        /\ StartsWith(r, meta_prefix(bucket))

-----------------------------------------------------------------------------
Pad == 64           \* "=", after the 64 digits

(* base64_encode: groups of three bytes become four digits; EVP_EncodeBlock    *)
(* fills the last group up.                                                    *)
base64_encode(in) ==
    LET n == Len(in)
        b(i) == IF i <= n THEN in[i] ELSE 0
        Digit(j) ==
            LET g == 3 * ((j - 1) \div 4)
                r == (j - 1) % 4
            IN  IF r = 0 THEN b(g + 1) \div 4
                ELSE IF r = 1 THEN 16 * (b(g + 1) % 4) + b(g + 2) \div 16
                ELSE IF r = 2 THEN IF g + 2 > n THEN Pad ELSE 4 * (b(g + 2) % 16) + b(g + 3) \div 64
                ELSE IF g + 3 > n THEN Pad ELSE b(g + 3) % 64
    IN  [j \in 1 .. 4 * ((n + 2) \div 3) |-> Digit(j)]

(* base64_decode of what base64_encode wrote: EVP_DecodeBlock reads "=" as a   *)
(* digit 0, and the bytes it stands for are dropped afterwards.                *)
base64_decode(in) ==
    LET d(j) == IF in[j] = Pad THEN 0 ELSE in[j]
        Octet(i) ==
            LET g == 4 * ((i - 1) \div 3)
                r == (i - 1) % 3
            IN  IF r = 0 THEN 4 * d(g + 1) + d(g + 2) \div 16
                ELSE IF r = 1 THEN 16 * (d(g + 2) % 16) + d(g + 3) \div 4
                ELSE 64 * (d(g + 3) % 4) + d(g + 4)
        n == Len(in)
        pad == (IF n >= 1 /\ in[n] = Pad THEN 1 ELSE 0) + (IF n >= 2 /\ in[n - 1] = Pad THEN 1 ELSE 0)
    IN  [i \in 1 .. (3 * (n \div 4) - pad) |-> Octet(i)]
=============================================================================
