------------------------------ MODULE ByteRange ------------------------------
(***************************************************************************)
(* Range reads: the Range header S3Storage::GetRange sends, and what the   *)
(* gateway's GET handler answers (s3_api.cpp, parse_single_range and the   *)
(* object GET branch of Api::handle).                                      *)
(*                                                                         *)
(* A header is abstracted to what the parser tells apart: absent, without  *)
(* the form "bytes=l-r" (wrong unit, a comma, no dash), or two fields.  A  *)
(* field is empty, not a 64-bit integer, or the integer std::from_chars    *)
(* reads from its front.  The first dash separates the fields, so only the *)
(* right one can be negative.                                              *)
(***************************************************************************)
EXTENDS Integers

Empty == [kind |-> "empty", val |-> 0]
NotANumber == [kind |-> "bad", val |-> 0]
Number(n) == [kind |-> "int", val |-> n]

NoHeader == [form |-> "absent", left |-> Empty, right |-> Empty]
Malformed == [form |-> "malformed", left |-> Empty, right |-> Empty]
Fields(l, r) == [form |-> "fields", left |-> l, right |-> r]

Field == [kind : {"empty", "bad", "int"}, val : Int]
Header == [form : {"absent", "malformed", "fields"}, left : Field, right : Field]

NoRange == [ok |-> FALSE, start |-> 0, end |-> 0]
Span(start, end) == [ok |-> TRUE, start |-> start, end |-> end]

(* bytes=-suffix *)
SuffixRange(suffix, size) ==
    IF suffix.kind # "int" \/ suffix.val <= 0 THEN NoRange
    ELSE IF suffix.val >= size THEN Span(0, size - 1)
    ELSE Span(size - suffix.val, size - 1)

(* Faulty variant: the end is not cut to the object. *)
StartRange_NoClamp(left, right, size) ==
    LET end == IF right.kind = "empty" THEN size - 1 ELSE right.val
    IN  IF \/ left.kind # "int" \/ right.kind = "bad"
           \/ left.val < 0 \/ left.val >= size \/ end < left.val
        THEN NoRange
        ELSE Span(left.val, end)

(* bytes=start-end and bytes=start- *)
StartRange(left, right, size) ==
    LET end == IF right.kind = "empty" THEN size - 1 ELSE right.val
    IN  IF \/ left.kind # "int" \/ right.kind = "bad"
           \/ left.val < 0 \/ left.val >= size \/ end < left.val
        THEN NoRange
        ELSE Span(left.val, IF end >= size THEN size - 1 ELSE end)

parse_single_range(header, size) ==
    IF size <= 0 \/ header.form # "fields" THEN NoRange
    ELSE IF header.left.kind = "empty" THEN SuffixRange(header.right, size)
    ELSE StartRange(header.left, header.right, size)

(* The GET branch for an object of the given size: status, first byte and      *)
(* number of bytes of the body.                                                *)
GetObject(header, size) ==
    LET range == parse_single_range(header, size)
    IN  IF header.form = "absent" THEN [status |-> 200, start |-> 0, count |-> size]
        ELSE IF ~range.ok THEN [status |-> 416, start |-> 0, count |-> 0]
        ELSE [status |-> 206, start |-> range.start, count |-> range.end + 1 - range.start]

(* Faulty variant: the last byte's position is the count. *)
GetRangeHeader_Inclusive(max_bytes) ==
    IF max_bytes > 0 THEN Fields(Number(0), Number(max_bytes)) ELSE NoHeader

(* The header S3Storage::GetRange sends for max_bytes. *)
GetRangeHeader(max_bytes) ==
    IF max_bytes > 0 THEN Fields(Number(0), Number(max_bytes - 1)) ELSE NoHeader

(* GetRange returns true. *)
GetRangeAccepts(status) == status \in {200, 206}

-----------------------------------------------------------------------------
(* The bytes of an object of this size that a header asks for, by position. *)
Requested(header, size) ==
    {i \in 0..(size - 1) :
        /\ header.form = "fields"
        /\ IF header.left.kind = "empty"
           THEN /\ header.right.kind = "int" /\ header.right.val > 0
                /\ i >= size - header.right.val
           ELSE /\ header.left.kind = "int" /\ header.left.val >= 0 /\ i >= header.left.val
                /\ \/ header.right.kind = "empty"
                   \/ header.right.kind = "int" /\ i <= header.right.val}
=============================================================================
