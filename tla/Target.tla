------------------------------- MODULE Target -------------------------------
(***************************************************************************)
(* The request target: percent encoding (util.cpp) and the split into      *)
(* bucket and key (parse_target of s3_api.cpp), path-style or virtual-host *)
(* style.                                                                  *)
(*                                                                         *)
(* A text is a sequence of elements <<c, n>>: the byte c behind n layers   *)
(* of percent escapes.  <<c, 0>> is the byte itself, <<c, 1>> the three    *)
(* bytes "%XX" that stand for it, <<c, 2>> the five bytes "%25XX", and so  *)
(* on; <<Percent, 0>> is a "%" no two hex digits follow.  The bytes in     *)
(* Chars leave the hex digits out, so that a text has one such reading.    *)
(***************************************************************************)
EXTENDS Naturals, Sequences

CONSTANTS
    Chars,          \* bytes
    Slash,          \* "/"
    Percent,        \* "%"
    Nul,            \* the NUL byte
    Unreserved      \* letters, "-", ".", "_", "~"

ASSUME CharsAssumption ==
    /\ {Slash, Percent, Nul} \union Unreserved \subseteq Chars
    /\ {Slash, Percent, Nul} \cap Unreserved = {}
    /\ Slash # Percent /\ Slash # Nul /\ Percent # Nul

Element == Chars \X Nat
Text == Seq(Element)

Lit(c) == <<c, 0>>

Undecodable(text) == \E i \in DOMAIN text : text[i] = Lit(Percent)

(* One layer of escapes comes off. *)
Unescape(e) == IF e[2] = 0 THEN e ELSE <<e[1], e[2] - 1>>

(* percent_decode with the fallback all its callers have: the raw text. *)
percent_decode(text) ==
    IF Undecodable(text) THEN text ELSE [i \in DOMAIN text |-> Unescape(text[i])]

(* The elements percent_encode copies. *)
Plain(encode_slash) ==
    {Lit(c) : c \in Unreserved} \union IF encode_slash THEN {} ELSE {Lit(Slash)}

percent_encode(text, encode_slash) ==
    [i \in DOMAIN text |->
        IF text[i] \in Plain(encode_slash) THEN text[i] ELSE <<text[i][1], text[i][2] + 1>>]

(* Faulty variant: a path that is escaped already is escaped again. *)
canonical_uri_Again(path) == percent_encode(path, FALSE)

(* SigV4's canonical path. *)
canonical_uri(path) == percent_encode(percent_decode(path), FALSE)

-----------------------------------------------------------------------------
SkipSlash(path) ==
    IF path # <<>> /\ path[1] = Lit(Slash) THEN SubSeq(path, 2, Len(path)) ELSE path

(* Position of the first raw "/" of a text, or one past its end. *)
FirstSlash(text) ==
    CHOOSE n \in 1..(Len(text) + 1) :
        /\ \A i \in 1..(n - 1) : text[i] # Lit(Slash)
        /\ n <= Len(text) => text[n] = Lit(Slash)

NoBucket == <<>>

(* The label in front of ".suffix"; NoBucket when virtual hosts are off, when   *)
(* the host does not end in the suffix, or when nothing is in front of it.      *)
bucket_from_host(host, suffix) ==
    IF suffix # <<>> /\ host.suffix = suffix THEN host.label ELSE NoBucket

(* Faulty variant: escapes are resolved before the path is split. *)
parse_target_DecodeFirst(path, host, suffix) ==
    LET vhost == bucket_from_host(host, suffix)
        p == percent_decode(SkipSlash(path))
        slash == FirstSlash(p)
    IN  IF vhost # NoBucket
        THEN [bucket |-> vhost, key |-> p]
        ELSE [bucket |-> SubSeq(p, 1, slash - 1), key |-> SubSeq(p, slash + 1, Len(p))]

(* Bucket and key of a request.  A path-style path is cut at its first raw "/"  *)
(* and each part decoded on its own; NoBucket and an empty key stand for "/".   *)
parse_target(path, host, suffix) ==
    LET vhost == bucket_from_host(host, suffix)
        p == SkipSlash(path)
        slash == FirstSlash(p)
    IN  IF vhost # NoBucket
        THEN [bucket |-> vhost, key |-> percent_decode(p)]
        ELSE [bucket |-> percent_decode(SubSeq(p, 1, slash - 1)),
              key |-> percent_decode(SubSeq(p, slash + 1, Len(p)))]

contains_nul(text) == \E i \in DOMAIN text : text[i] = Lit(Nul)
=============================================================================
