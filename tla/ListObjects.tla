----------------------------- MODULE ListObjects -----------------------------
(***************************************************************************)
(* A client pages through a bucket with ListObjectsV2 (the GET branch of   *)
(* Api::handle over RocksObjectStore::list_objects_v2) while other         *)
(* requests put and delete objects.  One page is three steps, as the call  *)
(* reads RocksDB three times: bucket_exists; an iterator, which sees the   *)
(* rows as they were when it was made; and, when the page is full, a       *)
(* second iterator made later, which decides whether there is more.        *)
(*                                                                         *)
(* Keys are their positions in key order; the keys that begin with the     *)
(* prefix are consecutive in it.  A continuation token is the last key of  *)
(* the page before (its base64 form decodes to the same key).              *)
(***************************************************************************)
EXTENDS Integers, FiniteSets

CONSTANTS
    LastKey,        \* keys are 1 .. LastKey
    Matching,       \* the keys that begin with the prefix asked for
    PageCap,        \* the largest page (1000 in the code)
    Asked           \* values of max-keys clients ask for

ASSUME KeysAssumption == LastKey \in Nat /\ Matching \subseteq 1 .. LastKey
ASSUME ConvexAssumption ==
    \A i, j \in Matching : \A k \in 1 .. LastKey : i <= k /\ k <= j => k \in Matching
ASSUME PageAssumption == PageCap \in Nat \ {0} /\ Asked \subseteq Int

Keys == 1 .. LastKey
NoToken == 0

VARIABLES
    rows,           \* keys with a metadata row in the bucket
    bucket,         \* the bucket marker is there
    at,             \* where the listing is
    token,          \* continuation token of the page asked for, or NoToken
    max_keys,       \* page size in force
    last,           \* last key of the page being built
    listed,         \* keys the client was given so far
    stable,         \* history: matching keys there since the listing began
    blind           \* history: what befell the second iterators: "gone", the key
                    \* to start from was deleted; "error", the read failed

vars == <<rows, bucket, at, token, max_keys, last, listed, stable, blind>>

Init ==
    /\ rows \in SUBSET Keys
    /\ bucket = TRUE
    /\ at = "start"
    /\ token = NoToken
    /\ max_keys = PageCap
    /\ last = NoToken
    /\ listed = {}
    /\ stable = {}
    /\ blind = {}

-----------------------------------------------------------------------------
(* Faulty variant: only the upper bound is enforced. *)
ClampMaxKeys_UpperOnly(m) == IF m > PageCap THEN PageCap ELSE m

ClampMaxKeys(m) == IF m <= 0 \/ m > PageCap THEN PageCap ELSE m

(* Faulty variants: the token's own key is not skipped; the first row found    *)
(* is skipped whether it is the token's or not.                                *)
Candidates_FromToken == {k \in rows : k >= token /\ k \in Matching}

Candidates_SkipAny ==
    {k \in rows : k \in Matching /\ (token = NoToken \/ \E j \in rows : token <= j /\ j < k)}

(* The rows the first iterator walks: matching ones beyond the token. *)
Candidates == {k \in rows : k > token /\ k \in Matching}

(* The first n of a set of keys. *)
FirstOf(S, n) == {k \in S : Cardinality({j \in S : j < k}) < n}

Largest(S) == CHOOSE k \in S : \A j \in S : j <= k

(* Faulty variant: one Next too many. *)
SecondFrom_Third(k) ==
    {j \in rows : j >= k /\ Cardinality({i \in rows : k <= i /\ i < j}) = 2}

(* it2->Seek(last_meta_key), then Next: the second row from last on, whatever  *)
(* its prefix.                                                                 *)
SecondFrom(k) ==
    {j \in rows : j >= k /\ Cardinality({i \in rows : k <= i /\ i < j}) = 1}

(* The client asks for the first page. *)
StartListing ==
    /\ at \in {"start", "complete", "failed"}
    /\ at' = "exists"
    /\ token' = NoToken
    /\ \E m \in Asked : max_keys' = ClampMaxKeys(m)
    /\ last' = NoToken
    /\ listed' = {}
    /\ stable' = rows \intersect Matching
    /\ blind' = {}
    /\ UNCHANGED <<rows, bucket>>

(* bucket_exists: NoSuchBucket, or on. *)
ListExists ==
    /\ at = "exists"
    /\ at' = IF bucket THEN "scan" ELSE "failed"
    /\ UNCHANGED <<rows, bucket, token, max_keys, last, listed, stable, blind>>

(* The first iterator.  A page that is not full is the last one. *)
ListScan ==
    /\ at = "scan"
    /\ LET page == FirstOf(Candidates, max_keys)
       IN  /\ listed' = listed \union page
           /\ last' = IF page = {} THEN last ELSE Largest(page)
           /\ at' = IF Cardinality(page) >= max_keys THEN "probe" ELSE "complete"
    /\ UNCHANGED <<rows, bucket, token, max_keys, stable, blind>>

(* The second iterator, and the reply; the client follows the token, with any  *)
(* max-keys.                                                                   *)
ListProbe ==
    /\ at = "probe"
    /\ \/ /\ SecondFrom(last) \intersect Matching # {}
          /\ at' = "exists"
          /\ token' = last
          /\ \E m \in Asked : max_keys' = ClampMaxKeys(m)
       \/ /\ SecondFrom(last) \intersect Matching = {}
          /\ at' = "complete"
          /\ UNCHANGED <<token, max_keys>>
    /\ blind' = IF last \in rows THEN blind ELSE blind \union {"gone"}
    /\ UNCHANGED <<rows, bucket, last, listed, stable>>

(* The second iterator fails: it2->status() is not looked at, and an iterator  *)
(* that is not Valid reads as the end.                                         *)
ListProbeError ==
    /\ at = "probe"
    /\ at' = "complete"
    /\ blind' = blind \union {"error"}
    /\ UNCHANGED <<rows, bucket, token, max_keys, last, listed, stable>>

(* The other two reads fail: 500 InternalError. *)
ListError ==
    /\ at \in {"exists", "scan"}
    /\ at' = "failed"
    /\ UNCHANGED <<rows, bucket, token, max_keys, last, listed, stable, blind>>

Listing == StartListing \/ ListExists \/ ListScan \/ ListProbe \/ ListProbeError \/ ListError

-----------------------------------------------------------------------------
Quiet == UNCHANGED <<bucket, at, token, max_keys, last, listed, blind>>

(* Other requests: put_object and delete_object of one key, and the marker     *)
(* coming and going (objects may outlive it, see ObjectStore).                 *)
PutKey(k) ==
    /\ rows' = rows \union {k}
    /\ Quiet
    /\ UNCHANGED stable

DeleteKey(k) ==
    /\ rows' = rows \ {k}
    /\ stable' = stable \ {k}
    /\ Quiet

MarkerChange ==
    /\ bucket' = ~bucket
    /\ UNCHANGED <<rows, at, token, max_keys, last, listed, stable, blind>>

Next == Listing \/ (\E k \in Keys : PutKey(k) \/ DeleteKey(k)) \/ MarkerChange

Spec == Init /\ [][Next]_vars

(* The gateway answers every list request it was sent. *)
InListing == ListExists \/ ListScan \/ ListProbe \/ ListProbeError \/ ListError

FairSpec == Spec /\ WF_vars(InListing)
-----------------------------------------------------------------------------
(* The listing's own state, and the rows it reads. *)
TypeOK ==
    /\ rows \subseteq Keys
    /\ bucket \in BOOLEAN
    /\ at \in {"start", "exists", "scan", "probe", "complete", "failed"}
    /\ token \in Keys \union {NoToken}
    /\ max_keys \in 1 .. PageCap
    /\ last \in Keys \union {NoToken}
    /\ listed \subseteq Matching
    /\ stable \subseteq Matching
    /\ blind \subseteq {"gone", "error"}

(* Following continuation tokens never goes back: the page about to be read    *)
(* has at most max-keys keys, all beyond those of the pages before, so nothing *)
(* is listed twice, however rows change between the pages.                     *)
NothingListedTwice ==
    at = "scan" =>
        LET page == FirstOf(Candidates, max_keys)
        IN  /\ \A k \in page : \A j \in listed : j < k
            /\ Cardinality(page) <= max_keys

(* A listing that ended is complete: a matching key that was there from its    *)
(* beginning to its end was listed, unless the key that ended a page was gone  *)
(* when the second iterator looked for it, or that iterator failed.            *)
CompleteUnlessBlind == at = "complete" /\ blind = {} => stable \subseteq listed

(* No stable key is passed over: even a listing with a blind probe omits only  *)
(* keys after the last one it returned, never one in between.                  *)
NoGaps == \A k \in stable : k <= last => k \in listed

(* A client that follows the tokens comes to the end of the listing (or to an  *)
(* error), even if others keep writing.                                        *)
ListingEnds == at = "exists" ~> at \in {"complete", "failed"}

(* storage.cpp, at the second iterator: "see if there is another matching      *)
(* key".  With no read failing, a listing is reported as not truncated only if *)
(* every matching key that was there throughout is in it.                      *)
NotTruncatedMeansComplete == at = "complete" /\ "error" \notin blind => stable \subseteq listed
=============================================================================
