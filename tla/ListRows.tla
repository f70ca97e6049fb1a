------------------------------ MODULE ListRows ------------------------------
(***************************************************************************)
(* The listing of ListObjects over the rows that hold it: key k of the     *)
(* bucket is NameOf[k], and its rows lie among those of the other families *)
(* and of other buckets.                                                   *)
(***************************************************************************)
EXTENDS ListObjects, RowKeys

CONSTANTS
    Bucket,         \* the bucket listed
    Prefix,         \* the prefix asked for
    NameOf,         \* names of the keys, in order
    OtherBuckets,   \* buckets there are besides
    OtherObjects    \* pairs of an other bucket and a key in it

ASSUME NamesAssumption ==
    /\ NameOf \in [Keys -> Name] /\ Bucket \in Name /\ Prefix \in Name
    /\ \A j, k \in Keys : j < k => Before(NameOf[j], NameOf[k])
    /\ Matching = {k \in Keys : StartsWith(NameOf[k], Prefix)}
    /\ OtherBuckets \subseteq Name
    /\ OtherObjects \subseteq (Name \ {Bucket}) \X Name

MetaRows(S) == {meta_key(Bucket, NameOf[k]) : k \in S}

AllRows ==
    MetaRows(rows)
      \union {data_key(Bucket, NameOf[k]) : k \in rows}
      \union {bucket_key(b) : b \in OtherBuckets \union IF bucket THEN {Bucket} ELSE {}}
      \union {meta_key(o[1], o[2]) : o \in OtherObjects}
      \union {data_key(o[1], o[2]) : o \in OtherObjects}

(* The token the client sends back, as list_objects_v2 reads it. *)
TokenRow ==
    IF token = NoToken THEN <<>> ELSE base64_decode(base64_encode(meta_key(Bucket, NameOf[token])))

(* The iterators see this bucket's objects and no others: the walk from the    *)
(* prefix or from the token meets exactly the keys that match beyond it,       *)
(* before the first row that ends it, and delete_bucket's Seek finds a row     *)
(* exactly when the bucket has an object, though other buckets' names begin    *)
(* with this one's and rows of all families share one order.                   *)
IteratorsSeeTheBucket ==
    /\ at = "scan" => Walked(AllRows, Bucket, Prefix, TokenRow) = MetaRows(Candidates)
    /\ SeekFindsObject(AllRows, Bucket) <=> rows # {}
=============================================================================
