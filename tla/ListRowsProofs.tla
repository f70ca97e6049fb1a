--------------------------- MODULE ListRowsProofs ---------------------------
(***************************************************************************)
(* Proofs about listings.  First the paging through a bucket, for any      *)
(* number of keys, any consecutive set of keys that match, any page size   *)
(* and any writes and deletes in between.  Then that RocksDB's rows do     *)
(* what ListObjects and ObjectStore take for granted, for any names        *)
(* without NUL: the rows of a bucket are consecutive and its own, a walk   *)
(* from a token goes on behind it, and base64 gives a row key back.        *)
(***************************************************************************)
EXTENDS ListRows, FiniteSetTheorems, WellFoundedInduction, TLAPS

(* The first row that an iterator meets. *)
LEMMA LeastKey ==
    ASSUME NEW S \in SUBSET Nat, S # {}
    PROVE  \E m \in S : \A k \in S : m <= k
<1>1. PICK m \in S : \A k \in S : ~(<<k, m>> \in OpToRel(<, Nat))
  BY WFMin, NatLessThanWellFounded
<1>2. \A k \in S : ~(k < m)
  BY <1>1 DEF OpToRel
<1> QED BY <1>2

(* A page that is not empty has a last key. *)
LEMMA GreatestKey ==
    ASSUME NEW n \in Nat, NEW S \in SUBSET (1 .. n), S # {}
    PROVE  \E m \in S : \A k \in S : k <= m
<1> DEFINE R == {n - k : k \in S}
<1>1. R \in SUBSET Nat /\ R # {}
  <2>1. \A k \in S : k \in 1 .. n
    OBVIOUS
  <2>2. \A k \in S : n - k \in Nat
    BY <2>1
  <2> QED BY <2>2
<1>2. PICK r \in R : \A q \in R : r <= q
  BY <1>1, LeastKey
<1>3. PICK m \in S : r = n - m
  BY <1>2
<1>4. \A k \in S : n - m <= n - k
  BY <1>2, <1>3
<1> QED BY <1>4

(* Keys are positions in key order. *)
LEMMA KeysAreNumbers ==
    ASSUME NEW S \in SUBSET Keys
    PROVE  S \in SUBSET Nat /\ \A k \in S : k \in Nat /\ k \in 1 .. LastKey
<1>1. \A k \in S : k \in 1 .. LastKey
  BY DEF Keys
<1>2. \A k \in S : k \in Nat
  BY <1>1, KeysAssumption
<1> QED BY <1>1, <1>2

(* A bucket has finitely many keys. *)
LEMMA FiniteKeys ==
    ASSUME NEW S \in SUBSET Keys
    PROVE  IsFiniteSet(S) /\ Cardinality(S) \in Nat
<1>1. IsFiniteSet(Keys)
  BY KeysAssumption, FS_Interval DEF Keys
<1> QED BY <1>1, FS_Subset, FS_CardinalityType

(* The first n of a set are all of it up to the last of them. *)
LEMMA FirstOfHasNoGap ==
    ASSUME NEW S \in SUBSET Keys, NEW n \in Nat, NEW m \in FirstOf(S, n), NEW k \in S, k <= m
    PROVE  k \in FirstOf(S, n)
<1> DEFINE Below(x) == {j \in S : j < x}
<1>0. m \in S /\ k \in Nat /\ m \in Nat /\ \A j \in S : j \in Nat
  BY KeysAreNumbers DEF FirstOf
<1>1. Below(k) \in SUBSET Below(m) /\ Below(m) \in SUBSET Keys
  <2>1. \A j \in S : j < k => j < m
    BY <1>0
  <2> QED BY <2>1
<1>2. /\ IsFiniteSet(Below(m)) /\ Cardinality(Below(m)) \in Nat
      /\ Cardinality(Below(k)) \in Nat
  BY <1>1, FiniteKeys
<1>3. Cardinality(Below(k)) <= Cardinality(Below(m))
  BY <1>1, <1>2, FS_Subset
<1>4. Cardinality(Below(m)) < n
  BY DEF FirstOf
<1> QED BY <1>2, <1>3, <1>4 DEF FirstOf

(* They are at most n, and all of the set if they are fewer. *)
LEMMA FirstOfSize ==
    ASSUME NEW S \in SUBSET Keys, NEW n \in Nat
    PROVE  /\ Cardinality(FirstOf(S, n)) <= n
           /\ Cardinality(FirstOf(S, n)) < n => FirstOf(S, n) = S
<1> DEFINE P == FirstOf(S, n)
           Below(x) == {j \in S : j < x}
<1>0. P \in SUBSET S /\ P \in SUBSET Keys /\ \A x \in P : Cardinality(Below(x)) < n
  BY DEF FirstOf
<1>1. IsFiniteSet(P) /\ Cardinality(P) \in Nat
  BY <1>0, FiniteKeys
<1>2. \A x : Below(x) \in SUBSET Keys /\ IsFiniteSet(Below(x)) /\ Cardinality(Below(x)) \in Nat
  BY FiniteKeys
<1>p. \A x \in S : x \notin P => ~(Cardinality(Below(x)) < n)
  BY DEF FirstOf
<1> HIDE DEF P
<1>3. Cardinality(P) <= n
  <2>1. CASE P = {}
    BY <2>1, FS_EmptySet
  <2>2. CASE P # {}
    <3>1. PICK m \in P : \A k \in P : k <= m
      BY <1>0, <2>2, GreatestKey, KeysAssumption DEF Keys
    <3>2. P \ {m} \in SUBSET Below(m)
      <4>1. \A k \in P : k \in S /\ k \in Nat
        BY <1>0, KeysAreNumbers
      <4>2. \A k \in P : k # m => k < m
        BY <3>1, <4>1
      <4> QED BY <4>1, <4>2
    <3>3. Cardinality(P \ {m}) = Cardinality(P) - 1
      BY <1>1, <3>1, FS_RemoveElement
    <3>4. Cardinality(P \ {m}) <= Cardinality(Below(m))
      BY <1>2, <3>2, FS_Subset
    <3>5. Cardinality(Below(m)) \in Nat /\ Cardinality(Below(m)) < n
      BY <1>0, <1>2, <3>1
    <3>6. Cardinality(P) - 1 <= Cardinality(Below(m))
      BY <3>3, <3>4
    <3> HIDE DEF Below
    <3> QED BY <1>1, <3>5, <3>6
  <2> QED BY <2>1, <2>2
<1>4. ASSUME Cardinality(P) < n, P # S PROVE FALSE
  <2>0. \A j \in S : j \in Nat
    BY KeysAreNumbers
  <2>1. S \ P \in SUBSET Nat /\ S \ P # {}
    BY <1>0, <1>4, <2>0
  <2>2. PICK k \in S \ P : \A j \in S \ P : k <= j
    BY <2>1, LeastKey
  <2>3. Below(k) \in SUBSET P
    <3>1. \A j \in S : j < k => j \in P
      BY <2>0, <2>2
    <3> QED BY <3>1
  <2>4. Cardinality(Below(k)) <= Cardinality(P)
    BY <1>1, <2>3, FS_Subset
  <2> QED BY <1>1, <1>2, <1>4, <1>p, <2>2, <2>4
<1> QED BY <1>3, <1>4 DEF P

(* The second iterator: a row it starts from, and any other matching row       *)
(* beyond it, make it find a matching one.                                     *)
LEMMA SecondFromFinds ==
    ASSUME NEW R \in SUBSET Keys, R = rows, NEW m \in R, m \in Matching, NEW k \in R, k \in Matching, m < k
    PROVE  SecondFrom(m) \intersect Matching # {}
<1> DEFINE Beyond == {j \in R : m < j}
<1>0. \A j \in R : j \in Nat /\ j \in 1 .. LastKey
  BY KeysAreNumbers
<1>1. Beyond \in SUBSET Nat /\ Beyond # {}
  BY <1>0
<1>2. PICK j \in Beyond : \A i \in Beyond : j <= i
  BY <1>1, LeastKey
<1>3. j \in R /\ m < j /\ \A i \in R : m < i => j <= i
  BY <1>2
<1>4. {i \in R : m <= i /\ i < j} = {m}
  <2>1. \A i \in R : m <= i /\ i < j <=> i = m
    BY <1>0, <1>3
  <2> QED BY <2>1
<1>5. Cardinality({i \in R : m <= i /\ i < j}) = 1
  BY <1>4, FS_Singleton
<1>6. j \in SecondFrom(m)
  BY <1>0, <1>3, <1>5 DEF SecondFrom
<1>7. j <= k
  BY <1>3
<1>8. j \in Matching
  BY <1>0, <1>3, <1>7, ConvexAssumption
<1> QED BY <1>6, <1>8

-----------------------------------------------------------------------------
(* What a listing has done at each of its steps. *)
ListInv ==
    /\ TypeOK
    /\ stable \subseteq rows
    /\ \A k \in listed : k <= last
    /\ at \in {"start", "exists", "scan"} => last = token
    /\ at = "probe" => last \in Matching
    /\ NoGaps
    /\ CompleteUnlessBlind

(* A listing starts in the invariant. *)
LEMMA InitListInv == Init => ListInv
BY PageAssumption DEF Init, ListInv, TypeOK, NoGaps, CompleteUnlessBlind, Keys, NoToken

(* max-keys is clamped to 1 .. PageCap, whatever the client asks for. *)
LEMMA ClampType == \A m \in Int : ClampMaxKeys(m) \in 1 .. PageCap
BY PageAssumption DEF ClampMaxKeys

(* One page: its keys lie beyond those listed, and nothing that is there lies  *)
(* between them unlisted.                                                      *)
LEMMA ScanKeeps == ListInv /\ ListScan => ListInv'
<1> SUFFICES ASSUME ListInv, ListScan PROVE ListInv'
  OBVIOUS
<1> DEFINE page == FirstOf(Candidates, max_keys)
<1>0. /\ rows \subseteq Keys /\ max_keys \in Nat \ {0} /\ token \in Nat /\ last = token
      /\ listed \subseteq Matching /\ stable \subseteq Matching /\ stable \subseteq rows
      /\ \A k \in listed : k <= last
      /\ \A k \in stable : k <= last => k \in listed
      /\ TypeOK
  BY PageAssumption, KeysAssumption DEF ListInv, TypeOK, ListScan, NoGaps, Keys, NoToken
<1>1. Candidates \in SUBSET Keys /\ \A k \in stable : k > token => k \in Candidates
  BY <1>0 DEF Candidates
<1>2. page \subseteq Candidates
  BY DEF FirstOf
<1>3. /\ \A k \in Candidates : k \in Nat /\ k \in Keys /\ k \in Matching /\ k > token
      /\ \A k \in stable : k \in Nat
      /\ \A k \in listed : k \in Nat
  <2>1. \A k \in Matching : k \in Nat /\ k \in Keys
    BY KeysAssumption DEF Keys
  <2> QED BY <1>0, <2>1 DEF Candidates
<1>4. /\ listed' = listed \union page
      /\ last' = IF page = {} THEN last ELSE Largest(page)
      /\ at' = IF Cardinality(page) >= max_keys THEN "probe" ELSE "complete"
      /\ UNCHANGED <<rows, bucket, token, max_keys, stable, blind>>
  BY DEF ListScan
<1>5. /\ \A m \in page, k \in Candidates : k <= m => k \in page
      /\ Cardinality(page) \in Nat
      /\ Cardinality(page) < max_keys => page = Candidates
  BY <1>0, <1>1, <1>2, FirstOfHasNoGap, FirstOfSize, FiniteKeys
<1>6. page # {} => last' \in page /\ \A k \in page : k <= last'
  <2>1. page # {} => \E m \in page : \A k \in page : k <= m
    BY <1>1, <1>2, GreatestKey, KeysAssumption DEF Keys
  <2> QED BY <1>4, <2>1 DEF Largest
<1>7. page = {} => last' = last /\ at' = "complete"
  <2>1. page = {} => Cardinality(page) = 0
    BY FS_EmptySet
  <2> QED BY <1>0, <1>4, <2>1
<1> HIDE DEF page
<1>8. TypeOK'
  <2>1. last' \in Keys \union {NoToken}
    BY <1>0, <1>2, <1>3, <1>6, <1>7 DEF TypeOK
  <2>2. listed' \subseteq Matching
    BY <1>0, <1>2, <1>3, <1>4
  <2> QED BY <1>0, <1>4, <2>1, <2>2 DEF TypeOK
<1>9. last <= last' /\ last' \in Nat
  <2>1. CASE page = {}
    BY <1>0, <1>7, <2>1
  <2>2. CASE page # {}
    <3>1. last' \in Candidates
      BY <1>2, <1>6, <2>2
    <3> QED BY <1>0, <1>3, <3>1
  <2> QED BY <2>1, <2>2
<1>10. \A k \in listed' : k <= last'
  <2>1. \A k \in listed : k <= last'
    BY <1>0, <1>3, <1>9
  <2>2. \A k \in page : k <= last'
    BY <1>6
  <2> QED BY <1>4, <2>1, <2>2
<1>11. NoGaps'
  <2> SUFFICES ASSUME NEW k \in stable, k <= last' PROVE k \in listed'
    BY <1>4 DEF NoGaps
  <2>1. CASE k <= token
    BY <1>0, <1>4, <2>1
  <2>2. CASE k > token
    <3>1. k \in Candidates
      BY <1>1, <2>2
    <3>2. page # {}
      BY <1>0, <1>3, <1>7, <2>2
    <3> QED BY <1>4, <1>5, <1>6, <3>1, <3>2
  <2> QED BY <1>0, <1>3, <2>1, <2>2
<1>12. CompleteUnlessBlind'
  <2> SUFFICES ASSUME at' = "complete", NEW k \in stable PROVE k \in listed'
    BY <1>4 DEF CompleteUnlessBlind
  <2>1. page = Candidates
    BY <1>0, <1>4, <1>5
  <2>2. CASE k <= token
    BY <1>0, <1>4, <2>2
  <2>3. CASE k > token
    BY <1>1, <1>4, <2>1, <2>3
  <2> QED BY <1>0, <1>3, <2>2, <2>3
<1>13. at' = "probe" => last' \in Matching
  BY <1>2, <1>3, <1>6, <1>7
<1> QED BY <1>0, <1>4, <1>8, <1>10, <1>11, <1>12, <1>13 DEF ListInv

(* The end of a page: the client goes on, or nothing that stayed is left. *)
LEMMA ProbeKeeps == ListInv /\ ListProbe => ListInv'
<1> SUFFICES ASSUME ListInv, ListProbe PROVE ListInv'
  OBVIOUS
<1>1. /\ TypeOK /\ stable \subseteq rows /\ last \in Matching /\ NoGaps
      /\ \A k \in listed : k <= last
      /\ at = "probe" /\ UNCHANGED <<rows, bucket, last, listed, stable>>
  BY DEF ListInv, ListProbe
<1>2. NoGaps' /\ (\A k \in listed' : k <= last') /\ stable' \subseteq rows'
  BY <1>1 DEF NoGaps
<1>3. TypeOK'
  BY <1>1, ClampType, PageAssumption DEF TypeOK, ListProbe
<1>4. CompleteUnlessBlind'
  <2> SUFFICES ASSUME at' = "complete", blind' = {}, NEW k \in stable PROVE k \in listed
    BY <1>1 DEF CompleteUnlessBlind
  <2>1. last \in rows
    BY DEF ListProbe
  <2>2. SecondFrom(last) \intersect Matching = {}
    BY DEF ListProbe
  <2>3. k \in rows /\ k \in Matching /\ rows \in SUBSET Keys
    BY <1>1 DEF TypeOK
  <2>4. ~(last < k)
    BY <1>1, <2>1, <2>2, <2>3, SecondFromFinds
  <2>5. k \in Nat /\ last \in Nat
    BY <2>1, <2>3, KeysAreNumbers
  <2> QED BY <1>1, <2>4, <2>5 DEF NoGaps
<1>5. at' \in {"start", "exists", "scan"} => last' = token'
  BY <1>1 DEF ListProbe
<1>6. at' # "probe"
  BY DEF ListProbe
<1> QED BY <1>2, <1>3, <1>4, <1>5, <1>6 DEF ListInv

(* Every step of the listing and of the writers keeps the invariant. *)
LEMMA NextListInv == ListInv /\ [Next]_vars => ListInv'
<1> SUFFICES ASSUME ListInv, [Next]_vars PROVE ListInv'
  OBVIOUS
<1>1. CASE StartListing
  <2>1. TypeOK' /\ last' = 0 /\ token' = 0 /\ listed' = {} /\ stable' = rows \intersect Matching
        /\ rows' = rows /\ at' = "exists"
    BY <1>1, ClampType, PageAssumption DEF StartListing, ListInv, TypeOK, NoToken
  <2>2. \A k \in Matching : ~(k <= 0)
    BY KeysAssumption
  <2> QED BY <2>1, <2>2 DEF ListInv, NoGaps, CompleteUnlessBlind
<1>2. CASE ListExists \/ ListError
  BY <1>2 DEF ListExists, ListError, ListInv, TypeOK, NoGaps, CompleteUnlessBlind
<1>3. CASE ListProbeError
  BY <1>3 DEF ListProbeError, ListInv, TypeOK, NoGaps, CompleteUnlessBlind
<1>4. ASSUME NEW k \in Keys, PutKey(k) PROVE ListInv'
  BY <1>4 DEF PutKey, Quiet, ListInv, TypeOK, NoGaps, CompleteUnlessBlind
<1>5. ASSUME NEW k \in Keys, DeleteKey(k) PROVE ListInv'
  BY <1>5 DEF DeleteKey, Quiet, ListInv, TypeOK, NoGaps, CompleteUnlessBlind
<1>6. CASE MarkerChange
  BY <1>6 DEF MarkerChange, ListInv, TypeOK, NoGaps, CompleteUnlessBlind
<1>7. CASE UNCHANGED vars
  BY <1>7 DEF vars, ListInv, TypeOK, NoGaps, CompleteUnlessBlind
<1> QED BY <1>1, <1>2, <1>3, <1>4, <1>5, <1>6, <1>7, ScanKeeps, ProbeKeeps DEF Next, Listing

(* The invariant holds throughout. *)
LEMMA ListInvAlways == Spec => []ListInv
BY InitListInv, NextListInv, PTL DEF Spec

(* A listing stays in its types: page sizes between 1 and the cap whatever a   *)
(* client asks for, and only keys with the prefix are listed.                  *)
THEOREM ListingTypes == Spec => []TypeOK
<1>1. ListInv => TypeOK
  BY DEF ListInv
<1> QED BY <1>1, ListInvAlways, PTL

(* Following the tokens of list_objects_v2 never passes over a key that stays, *)
(* nor goes back, for any page sizes and any number of keys.                   *)
THEOREM PagesHaveNoGaps == Spec => []NoGaps
<1>1. ListInv => NoGaps
  BY DEF ListInv
<1> QED BY <1>1, ListInvAlways, PTL

(* Each page lies beyond all keys listed before, and has at most max-keys keys. *)
THEOREM PagesNeverRepeat == Spec => []NothingListedTwice
<1>1. ListInv => NothingListedTwice
  <2> SUFFICES ASSUME ListInv, at = "scan"
               PROVE  /\ \A k \in FirstOf(Candidates, max_keys) : \A j \in listed : j < k
                      /\ Cardinality(FirstOf(Candidates, max_keys)) <= max_keys
    BY DEF NothingListedTwice
  <2>1. Candidates \in SUBSET Keys /\ max_keys \in Nat
    BY PageAssumption DEF ListInv, TypeOK, Candidates
  <2>2. Cardinality(FirstOf(Candidates, max_keys)) <= max_keys
    BY <2>1, FirstOfSize
  <2>3. last = token /\ \A j \in listed : j <= last /\ j \in Nat
    BY KeysAssumption DEF ListInv, TypeOK
  <2>4. \A k \in FirstOf(Candidates, max_keys) : k > token /\ k \in Nat
    BY <2>1, KeysAreNumbers DEF FirstOf, Candidates
  <2>5. token \in Nat
    BY KeysAssumption DEF ListInv, TypeOK, Keys, NoToken
  <2> QED BY <2>2, <2>3, <2>4, <2>5
<1> QED BY <1>1, ListInvAlways, PTL

(* A listing that ends without a blind second iterator has every key that      *)
(* matched and stayed.                                                         *)
THEOREM ListingIsComplete == Spec => []CompleteUnlessBlind
<1>1. ListInv => CompleteUnlessBlind
  BY DEF ListInv
<1> QED BY <1>1, ListInvAlways, PTL

-----------------------------------------------------------------------------
(* The order of rows. *)
LEMMA BytesAreNumbers ==
    ASSUME NEW s \in Bytes
    PROVE  Len(s) \in Nat /\ \A i \in 1 .. Len(s) : s[i] \in Byte /\ s[i] \in Nat
<1>1. Len(s) \in Nat /\ \A i \in 1 .. Len(s) : s[i] \in Byte
  BY DEF Bytes
<1>2. \A b \in Byte : b \in Nat
  BY DEF Byte
<1> QED BY <1>1, <1>2

(* The order of row keys is strict ... *)
LEMMA NeverBeforeItself == ASSUME NEW s \in Bytes PROVE ~Before(s, s)
BY BytesAreNumbers DEF Before

(* ... and asymmetric. *)
LEMMA BeforeOneWay == ASSUME NEW s \in Bytes, NEW t \in Bytes, Before(s, t) PROVE ~Before(t, s)
<1> SUFFICES ASSUME Before(t, s) PROVE FALSE
  OBVIOUS
<1>0. Len(s) \in Nat /\ Len(t) \in Nat /\ (\A i \in 1 .. Len(s) : s[i] \in Nat) /\ (\A i \in 1 .. Len(t) : t[i] \in Nat)
  BY BytesAreNumbers
<1>1. PICK n \in 0 .. Len(s) : n < Len(t) /\ (\A i \in 1 .. n : s[i] = t[i]) /\ (n < Len(s) => s[n + 1] < t[n + 1])
  BY DEF Before
<1>2. PICK m \in 0 .. Len(t) : m < Len(s) /\ (\A i \in 1 .. m : t[i] = s[i]) /\ (m < Len(t) => t[m + 1] < s[m + 1])
  BY DEF Before
<1>3. CASE n < m
  BY <1>0, <1>1, <1>2, <1>3
<1>4. CASE m < n
  BY <1>0, <1>1, <1>2, <1>4
<1>5. CASE m = n
  BY <1>0, <1>1, <1>2, <1>5
<1> QED BY <1>0, <1>1, <1>2, <1>3, <1>4, <1>5

(* A row that begins with p does not come before p. *)
LEMMA NotBeforePrefix ==
    ASSUME NEW r \in Bytes, NEW p \in Bytes, StartsWith(r, p)
    PROVE  ~Before(r, p)
<1>0. Len(r) \in Nat /\ Len(p) \in Nat /\ (\A i \in 1 .. Len(p) : p[i] \in Nat)
  BY BytesAreNumbers
<1> QED BY <1>0 DEF StartsWith, Before

(* Between a start that begins with p, or p itself, and a row that begins with *)
(* p there are only rows that begin with p.                                    *)
LEMMA OnlyPrefixBetween ==
    ASSUME NEW q \in Bytes, NEW r \in Bytes, NEW p \in Bytes, NEW start \in Bytes,
           StartsWith(start, p), ~Before(q, start), Before(q, r), StartsWith(r, p)
    PROVE  StartsWith(q, p)
<1>0. Len(q) \in Nat /\ Len(r) \in Nat /\ Len(p) \in Nat /\ Len(start) \in Nat
  BY DEF Bytes
<1>1. PICK n \in 0 .. Len(q) : n < Len(r) /\ (\A i \in 1 .. n : q[i] = r[i]) /\ (n < Len(q) => q[n + 1] < r[n + 1])
  BY DEF Before
<1>2. /\ Len(p) <= Len(r) /\ \A i \in 1 .. Len(p) : r[i] = p[i]
      /\ Len(p) <= Len(start) /\ \A i \in 1 .. Len(p) : start[i] = p[i]
  BY DEF StartsWith
<1>3. CASE n >= Len(p)
  BY <1>0, <1>1, <1>2, <1>3 DEF StartsWith
<1>4. CASE n < Len(p)
  <2>1. n < Len(start) /\ \A i \in 1 .. n : q[i] = start[i]
    BY <1>0, <1>1, <1>2, <1>4
  <2>2. n < Len(q) => q[n + 1] < start[n + 1]
    BY <1>0, <1>1, <1>2, <1>4
  <2> QED BY <2>1, <2>2 DEF Before
<1> QED BY <1>0, <1>3, <1>4

(* The same bytes in front keep the order. *)
LEMMA BeforeBehindPrefix ==
    ASSUME NEW p \in Bytes, NEW s \in Bytes, NEW t \in Bytes, Before(s, t)
    PROVE  Before(p \o s, p \o t)
<1>0. /\ Len(p) \in Nat /\ Len(s) \in Nat /\ Len(t) \in Nat
      /\ Len(p \o s) = Len(p) + Len(s) /\ Len(p \o t) = Len(p) + Len(t)
      /\ \A i \in 1 .. Len(p) : (p \o s)[i] = p[i] /\ (p \o t)[i] = p[i]
      /\ \A i \in 1 .. Len(s) : (p \o s)[Len(p) + i] = s[i]
      /\ \A i \in 1 .. Len(t) : (p \o t)[Len(p) + i] = t[i]
  BY DEF Bytes
<1>1. PICK n \in 0 .. Len(s) : n < Len(t) /\ (\A i \in 1 .. n : s[i] = t[i]) /\ (n < Len(s) => s[n + 1] < t[n + 1])
  BY DEF Before
<1> DEFINE u == p \o s
           v == p \o t
           m == Len(p) + n
<1> HIDE DEF u, v
<1>2. \A i \in 1 .. m : u[i] = v[i]
  <2> SUFFICES ASSUME NEW i \in 1 .. m PROVE u[i] = v[i]
    OBVIOUS
  <2>1. CASE i <= Len(p)
    BY <1>0, <2>1 DEF u, v
  <2>2. CASE i > Len(p)
    <3>1. i - Len(p) \in 1 .. n /\ Len(p) + (i - Len(p)) = i
      BY <1>0, <1>1, <2>2
    <3>2. (i - Len(p)) \in 1 .. Len(s) /\ (i - Len(p)) \in 1 .. Len(t)
      BY <1>0, <1>1, <3>1
    <3>3. u[Len(p) + (i - Len(p))] = s[i - Len(p)] /\ v[Len(p) + (i - Len(p))] = t[i - Len(p)]
      BY <1>0, <3>2 DEF u, v
    <3> QED BY <1>1, <3>1, <3>3
  <2> QED BY <1>0, <1>1, <2>1, <2>2
<1>3. m \in 0 .. Len(u) /\ m < Len(v)
  BY <1>0, <1>1 DEF u, v
<1>4. m < Len(u) => u[m + 1] < v[m + 1]
  <2> SUFFICES ASSUME m < Len(u) PROVE u[m + 1] < v[m + 1]
    OBVIOUS
  <2>1. n < Len(s) /\ n + 1 \in 1 .. Len(s) /\ n + 1 \in 1 .. Len(t) /\ m + 1 = Len(p) + (n + 1)
    BY <1>0, <1>1 DEF u
  <2>2. u[Len(p) + (n + 1)] = s[n + 1] /\ v[Len(p) + (n + 1)] = t[n + 1]
    BY <1>0, <2>1 DEF u, v
  <2> QED BY <1>1, <2>1, <2>2
<1>5. Before(u, v)
  BY <1>2, <1>3, <1>4 DEF Before
<1> QED BY <1>5 DEF u, v

-----------------------------------------------------------------------------
(* The families of rows. *)
LEMMA NamesAreBytes ==
    ASSUME NEW b \in Name
    PROVE  b \in Bytes /\ Len(b) \in Nat /\ \A i \in 1 .. Len(b) : b[i] # 0
<1>1. Len(b) \in Nat /\ \A i \in 1 .. Len(b) : b[i] \in Byte /\ b[i] # 0
  BY DEF Name
<1>2. b \in Bytes
  BY <1>1 DEF Bytes, Name
<1> QED BY <1>1, <1>2

(* The prefix of a bucket's metadata rows is a byte string. *)
LEMMA MetaPrefixBytes ==
    ASSUME NEW b \in Name
    PROVE  /\ meta_prefix(b) \in Bytes
           /\ Len(meta_prefix(b)) = Len(b) + 3
           /\ meta_prefix(b)[1] = 77
           /\ \A i \in 1 .. Len(b) : meta_prefix(b)[i + 2] = b[i]
           /\ meta_prefix(b)[Len(b) + 3] = 0
<1>0. b \in Bytes /\ Len(b) \in Nat
  BY NamesAreBytes
<1>1. <<77, 0>> \in Bytes /\ <<0>> \in Bytes
  BY DEF Bytes, Byte
<1> QED BY <1>0, <1>1 DEF meta_prefix, Bytes

(* A row begins with a bucket's prefix only if it is that bucket's: no name    *)
(* has a NUL, so the NUL behind the bucket's name ends it.                     *)
LEMMA OwnPrefix ==
    ASSUME NEW b \in Name, NEW c \in Name, NEW key \in Bytes,
           StartsWith(meta_key(c, key), meta_prefix(b))
    PROVE  c = b
<1> DEFINE p == meta_prefix(b)
           o == meta_prefix(c)
           r == meta_key(c, key)
<1>0. /\ Len(b) \in Nat /\ \A i \in 1 .. Len(b) : b[i] # 0
      /\ Len(c) \in Nat /\ \A i \in 1 .. Len(c) : c[i] # 0
  BY NamesAreBytes
<1>1. /\ Len(p) = Len(b) + 3 /\ (\A i \in 1 .. Len(b) : p[i + 2] = b[i]) /\ p[Len(b) + 3] = 0
      /\ Len(o) = Len(c) + 3 /\ (\A i \in 1 .. Len(c) : o[i + 2] = c[i]) /\ o[Len(c) + 3] = 0
  BY MetaPrefixBytes
<1>2. \A i \in 1 .. Len(o) : r[i] = o[i]
  BY MetaPrefixBytes DEF meta_key, Bytes
<1>3. Len(p) <= Len(r) /\ \A i \in 1 .. Len(p) : r[i] = p[i]
  BY DEF StartsWith
<1> HIDE DEF p, o, r
<1>4. \A i \in 1 .. Len(b) + 3 : i <= Len(c) + 3 => o[i] = p[i]
  BY <1>0, <1>1, <1>2, <1>3
<1>5. ~(Len(c) < Len(b))
  <2> SUFFICES ASSUME Len(c) < Len(b) PROVE FALSE
    OBVIOUS
  <2>1. o[Len(c) + 3] = p[Len(c) + 3]
    BY <1>0, <1>4
  <2>2. Len(c) + 1 \in 1 .. Len(b) /\ (Len(c) + 1) + 2 = Len(c) + 3
    BY <1>0
  <2>3. p[(Len(c) + 1) + 2] = b[Len(c) + 1]
    BY <1>1, <2>2
  <2> QED BY <1>0, <1>1, <2>1, <2>2, <2>3
<1>6. ~(Len(b) < Len(c))
  <2> SUFFICES ASSUME Len(b) < Len(c) PROVE FALSE
    OBVIOUS
  <2>1. o[Len(b) + 3] = p[Len(b) + 3]
    BY <1>0, <1>4
  <2>2. Len(b) + 1 \in 1 .. Len(c) /\ (Len(b) + 1) + 2 = Len(b) + 3
    BY <1>0
  <2>3. o[(Len(b) + 1) + 2] = c[Len(b) + 1]
    BY <1>1, <2>2
  <2> QED BY <1>0, <1>1, <2>1, <2>2, <2>3
<1>7. Len(b) = Len(c)
  BY <1>0, <1>5, <1>6
<1>8. \A i \in 1 .. Len(b) : b[i] = c[i]
  <2> SUFFICES ASSUME NEW i \in 1 .. Len(b) PROVE b[i] = c[i]
    OBVIOUS
  <2>1. o[i + 2] = p[i + 2]
    BY <1>0, <1>4, <1>7
  <2> QED BY <1>1, <1>7, <2>1
<1> QED BY <1>7, <1>8 DEF Name

(* Rows of the other families begin with another byte. *)
LEMMA OtherFamilies ==
    ASSUME NEW b \in Name, NEW c \in Name, NEW key \in Bytes
    PROVE  /\ bucket_key(c) \in Bytes /\ ~StartsWith(bucket_key(c), meta_prefix(b))
           /\ data_key(c, key) \in Bytes /\ ~StartsWith(data_key(c, key), meta_prefix(b))
<1>0. c \in Bytes /\ Len(meta_prefix(b)) \in Nat \ {0} /\ meta_prefix(b)[1] = 77
  BY NamesAreBytes, MetaPrefixBytes
<1>1. <<66, 0>> \in Bytes /\ <<68, 0>> \in Bytes /\ <<0>> \in Bytes
  BY DEF Bytes, Byte
<1>2. bucket_key(c) \in Bytes /\ bucket_key(c)[1] = 66
  BY <1>0, <1>1 DEF bucket_key, Bytes
<1>3. data_key(c, key) \in Bytes /\ data_key(c, key)[1] = 68
  BY <1>0, <1>1 DEF data_key, Bytes
<1> QED BY <1>0, <1>2, <1>3 DEF StartsWith

(* A row of the bucket matches the prefix looked for when its key does. *)
LEMMA PrefixOfKey ==
    ASSUME NEW p \in Bytes, NEW s \in Bytes, NEW t \in Bytes
    PROVE  /\ StartsWith(p \o s, p)
           /\ StartsWith(p \o s, p \o t) <=> StartsWith(s, t)
<1> DEFINE u == p \o s
           v == p \o t
<1>0. /\ Len(p) \in Nat /\ Len(s) \in Nat /\ Len(t) \in Nat
      /\ Len(u) = Len(p) + Len(s) /\ Len(v) = Len(p) + Len(t)
      /\ \A i \in 1 .. Len(p) : u[i] = p[i] /\ v[i] = p[i]
      /\ \A i \in 1 .. Len(s) : u[Len(p) + i] = s[i]
      /\ \A i \in 1 .. Len(t) : v[Len(p) + i] = t[i]
  BY DEF Bytes
<1> HIDE DEF u, v
<1>1. StartsWith(u, p)
  BY <1>0 DEF StartsWith
<1>2. ASSUME StartsWith(s, t) PROVE StartsWith(u, v)
  <2>1. Len(t) <= Len(s) /\ \A i \in 1 .. Len(t) : s[i] = t[i]
    BY <1>2 DEF StartsWith
  <2>2. ASSUME NEW i \in 1 .. Len(v) PROVE u[i] = v[i]
    <3>1. CASE i <= Len(p)
      BY <1>0, <3>1
    <3>2. CASE i > Len(p)
      <4>1. i - Len(p) \in 1 .. Len(t) /\ i - Len(p) \in 1 .. Len(s) /\ Len(p) + (i - Len(p)) = i
        BY <1>0, <2>1, <3>2
      <4>2. u[Len(p) + (i - Len(p))] = s[i - Len(p)] /\ v[Len(p) + (i - Len(p))] = t[i - Len(p)]
        BY <1>0, <4>1
      <4> QED BY <2>1, <4>1, <4>2
    <3> QED BY <1>0, <3>1, <3>2
  <2> QED BY <1>0, <2>1, <2>2 DEF StartsWith
<1>3. ASSUME StartsWith(u, v) PROVE StartsWith(s, t)
  <2>1. Len(v) <= Len(u) /\ \A i \in 1 .. Len(v) : u[i] = v[i]
    BY <1>3 DEF StartsWith
  <2>2. ASSUME NEW i \in 1 .. Len(t) PROVE s[i] = t[i]
    <3>1. Len(p) + i \in 1 .. Len(v) /\ i \in 1 .. Len(s)
      BY <1>0, <2>1
    <3> QED BY <1>0, <2>1, <3>1
  <2> QED BY <1>0, <2>1, <2>2 DEF StartsWith
<1> QED BY <1>1, <1>2, <1>3 DEF u, v

-----------------------------------------------------------------------------
(* The continuation token. *)
(* Byte i of s, or the 0 the last group is filled up with. *)
Filled(s, i) == IF i <= Len(s) THEN s[i] ELSE 0

(* The four digits of group q. *)
LEMMA GroupDigits ==
    ASSUME NEW s \in Bytes, NEW q \in Nat, 3 * q < Len(s)
    PROVE  /\ Len(base64_encode(s)) = 4 * ((Len(s) + 2) \div 3)
           /\ base64_encode(s)[4 * q + 1] = Filled(s, 3 * q + 1) \div 4
           /\ base64_encode(s)[4 * q + 2] = 16 * (Filled(s, 3 * q + 1) % 4) + Filled(s, 3 * q + 2) \div 16
           /\ base64_encode(s)[4 * q + 3] =
                IF 3 * q + 2 > Len(s) THEN Pad ELSE 4 * (Filled(s, 3 * q + 2) % 16) + Filled(s, 3 * q + 3) \div 64
           /\ base64_encode(s)[4 * q + 4] = IF 3 * q + 3 > Len(s) THEN Pad ELSE Filled(s, 3 * q + 3) % 64
<1>0. Len(s) \in Nat
  BY BytesAreNumbers
<1> DEFINE n == Len(s)
           M == 4 * ((n + 2) \div 3)
           e == base64_encode(s)
           D(j) == LET g == 3 * ((j - 1) \div 4)
                       r == (j - 1) % 4
                   IN  IF r = 0 THEN Filled(s, g + 1) \div 4
                       ELSE IF r = 1 THEN 16 * (Filled(s, g + 1) % 4) + Filled(s, g + 2) \div 16
                       ELSE IF r = 2 THEN IF g + 2 > n THEN Pad ELSE 4 * (Filled(s, g + 2) % 16) + Filled(s, g + 3) \div 64
                       ELSE IF g + 3 > n THEN Pad ELSE Filled(s, g + 3) % 64
<1>1. e = [j \in 1 .. M |-> D(j)]
  BY DEF base64_encode, Filled
<1>2. M \in Nat /\ 4 * q + 4 <= M
  BY <1>0
<1>3. Len(e) = M
  <2> HIDE DEF M, D
  <2> QED BY <1>1, <1>2
<1>4. /\ 4 * q + 1 \in 1 .. M /\ 4 * q + 2 \in 1 .. M
      /\ 4 * q + 3 \in 1 .. M /\ 4 * q + 4 \in 1 .. M
  <2> HIDE DEF M
  <2> QED BY <1>2
<1>5. e[4 * q + 1] = D(4 * q + 1) /\ e[4 * q + 2] = D(4 * q + 2) /\ e[4 * q + 3] = D(4 * q + 3) /\ e[4 * q + 4] = D(4 * q + 4)
  <2> HIDE DEF M, D, e
  <2> QED BY <1>1, <1>4
<1>6. /\ (4 * q + 1 - 1) \div 4 = q /\ (4 * q + 1 - 1) % 4 = 0
      /\ (4 * q + 2 - 1) \div 4 = q /\ (4 * q + 2 - 1) % 4 = 1
      /\ (4 * q + 3 - 1) \div 4 = q /\ (4 * q + 3 - 1) % 4 = 2
      /\ (4 * q + 4 - 1) \div 4 = q /\ (4 * q + 4 - 1) % 4 = 3
  OBVIOUS
<1>7. D(4 * q + 1) = Filled(s, 3 * q + 1) \div 4
  BY <1>6
<1>8. D(4 * q + 2) = 16 * (Filled(s, 3 * q + 1) % 4) + Filled(s, 3 * q + 2) \div 16
  BY <1>6
<1>9. D(4 * q + 3) = IF 3 * q + 2 > n THEN Pad ELSE 4 * (Filled(s, 3 * q + 2) % 16) + Filled(s, 3 * q + 3) \div 64
  BY <1>6
<1>10. D(4 * q + 4) = IF 3 * q + 3 > n THEN Pad ELSE Filled(s, 3 * q + 3) % 64
  BY <1>6
<1> HIDE DEF D
<1> QED BY <1>3, <1>5, <1>7, <1>8, <1>9, <1>10

(* The digits of a group give its bytes back. *)
LEMMA DigitsAreBytes ==
    ASSUME NEW a \in Byte, NEW b \in Byte, NEW c \in Byte
    PROVE  LET d1 == a \div 4
               d2 == 16 * (a % 4) + b \div 16
               d3 == 4 * (b % 16) + c \div 64
               d4 == c % 64
           IN  /\ 4 * d1 + d2 \div 16 = a
               /\ 16 * (d2 % 16) + d3 \div 4 = b
               /\ 64 * (d3 % 4) + d4 = c
               /\ d1 \in 0 .. 63 /\ d2 \in 0 .. 63 /\ d3 \in 0 .. 63 /\ d4 \in 0 .. 63
<1>0. a \in 0 .. 255 /\ b \in 0 .. 255 /\ c \in 0 .. 255
  BY DEF Byte
<1>1. a \div 4 \in 0 .. 63 /\ a % 4 \in 0 .. 3 /\ a = 4 * (a \div 4) + (a % 4)
  BY <1>0
<1>2. b \div 16 \in 0 .. 15 /\ b % 16 \in 0 .. 15 /\ b = 16 * (b \div 16) + (b % 16)
  BY <1>0
<1>3. c \div 64 \in 0 .. 3 /\ c % 64 \in 0 .. 63 /\ c = 64 * (c \div 64) + (c % 64)
  BY <1>0
<1> DEFINE a1 == a \div 4
           a2 == a % 4
           b1 == b \div 16
           b2 == b % 16
           c1 == c \div 64
           c2 == c % 64
<1>4. a1 \in 0 .. 63 /\ a2 \in 0 .. 3 /\ b1 \in 0 .. 15 /\ b2 \in 0 .. 15 /\ c1 \in 0 .. 3 /\ c2 \in 0 .. 63
  BY <1>1, <1>2, <1>3
<1>5. a = 4 * a1 + a2 /\ b = 16 * b1 + b2 /\ c = 64 * c1 + c2
  BY <1>1, <1>2, <1>3
<1> HIDE DEF a1, a2, b1, b2, c1, c2
<1>6. (16 * a2 + b1) \div 16 = a2 /\ (16 * a2 + b1) % 16 = b1 /\ 16 * a2 + b1 \in 0 .. 63
  BY <1>4
<1>7. (4 * b2 + c1) \div 4 = b2 /\ (4 * b2 + c1) % 4 = c1 /\ 4 * b2 + c1 \in 0 .. 63
  BY <1>4
<1>8. /\ 4 * a1 + (16 * a2 + b1) \div 16 = a
      /\ 16 * ((16 * a2 + b1) % 16) + (4 * b2 + c1) \div 4 = b
      /\ 64 * ((4 * b2 + c1) % 4) + c2 = c
  BY <1>4, <1>5, <1>6, <1>7
<1> QED BY <1>4, <1>6, <1>7, <1>8 DEF a1, a2, b1, b2, c1, c2

(* base64 makes four characters of three bytes. *)
LEMMA EncodedLength ==
    ASSUME NEW s \in Bytes
    PROVE  Len(base64_encode(s)) = 4 * ((Len(s) + 2) \div 3)
<1>1. 4 * ((Len(s) + 2) \div 3) \in Nat
  BY BytesAreNumbers
<1> QED BY <1>1 DEF base64_encode

(* What base64_encode reads, the zeroes that fill the last group included. *)
LEMMA FilledIsByte ==
    ASSUME NEW s \in Bytes, NEW i \in Nat \ {0}
    PROVE  Filled(s, i) \in Byte
BY BytesAreNumbers DEF Filled, Byte

(* A digit as base64_decode reads it. *)
Value(e, j) == IF e[j] = Pad THEN 0 ELSE e[j]

(* A base64 character stands for the six bits it was made from. *)
LEMMA DigitValue ==
    ASSUME NEW e, NEW j, e[j] \in 0 .. 63
    PROVE  Value(e, j) = e[j] /\ e[j] # Pad
<1>1. \A v \in 0 .. 63 : v # 64
  OBVIOUS
<1> QED BY <1>1 DEF Value, Pad

(* "=" reads as the digit of the bytes filled up. *)
LEMMA GroupValues ==
    ASSUME NEW s \in Bytes, NEW q \in Nat, 3 * q < Len(s)
    PROVE  LET e == base64_encode(s)
               a == Filled(s, 3 * q + 1)
               b == Filled(s, 3 * q + 2)
               c == Filled(s, 3 * q + 3)
           IN  /\ Value(e, 4 * q + 1) = a \div 4
               /\ Value(e, 4 * q + 2) = 16 * (a % 4) + b \div 16
               /\ Value(e, 4 * q + 3) = 4 * (b % 16) + c \div 64
               /\ Value(e, 4 * q + 4) = c % 64
               /\ e[4 * q + 3] = Pad <=> 3 * q + 2 > Len(s)
               /\ e[4 * q + 4] = Pad <=> 3 * q + 3 > Len(s)
<1> DEFINE e == base64_encode(s)
           a == Filled(s, 3 * q + 1)
           b == Filled(s, 3 * q + 2)
           c == Filled(s, 3 * q + 3)
           n == Len(s)
<1>0. n \in Nat /\ a \in Byte /\ b \in Byte /\ c \in Byte
  BY BytesAreNumbers, FilledIsByte
<1>1. /\ e[4 * q + 1] = a \div 4
      /\ e[4 * q + 2] = 16 * (a % 4) + b \div 16
      /\ e[4 * q + 3] = IF 3 * q + 2 > n THEN Pad ELSE 4 * (b % 16) + c \div 64
      /\ e[4 * q + 4] = IF 3 * q + 3 > n THEN Pad ELSE c % 64
  BY GroupDigits
<1>2. /\ 3 * q + 2 > n => b = 0 /\ c = 0
      /\ 3 * q + 3 > n => c = 0
  BY <1>0 DEF Filled
<1> HIDE DEF e, a, b, c, n
<1>3. /\ a \div 4 \in 0 .. 63 /\ 16 * (a % 4) + b \div 16 \in 0 .. 63
      /\ 4 * (b % 16) + c \div 64 \in 0 .. 63 /\ c % 64 \in 0 .. 63
  BY <1>0, DigitsAreBytes
<1> DEFINE d1 == a \div 4
           d2 == 16 * (a % 4) + b \div 16
           d3 == 4 * (b % 16) + c \div 64
           d4 == c % 64
<1>4. d1 \in 0 .. 63 /\ d2 \in 0 .. 63 /\ d3 \in 0 .. 63 /\ d4 \in 0 .. 63
  BY <1>3
<1>5. /\ e[4 * q + 1] = d1 /\ e[4 * q + 2] = d2
      /\ e[4 * q + 3] = IF 3 * q + 2 > n THEN Pad ELSE d3
      /\ e[4 * q + 4] = IF 3 * q + 3 > n THEN Pad ELSE d4
  BY <1>1
<1>6. (3 * q + 2 > n => d3 = 0) /\ (3 * q + 3 > n => d4 = 0)
  BY <1>2
<1> HIDE DEF d1, d2, d3, d4
<1>7. Value(e, 4 * q + 1) = d1 /\ Value(e, 4 * q + 2) = d2
  BY <1>4, <1>5, DigitValue
<1>8. Value(e, 4 * q + 3) = d3 /\ (e[4 * q + 3] = Pad <=> 3 * q + 2 > n)
  <2>1. CASE 3 * q + 2 > n
    BY <1>5, <1>6, <2>1 DEF Value
  <2>2. CASE ~(3 * q + 2 > n)
    BY <1>4, <1>5, <2>2, DigitValue
  <2> QED BY <2>1, <2>2
<1>9. Value(e, 4 * q + 4) = d4 /\ (e[4 * q + 4] = Pad <=> 3 * q + 3 > n)
  <2>1. CASE 3 * q + 3 > n
    BY <1>5, <1>6, <2>1 DEF Value
  <2>2. CASE ~(3 * q + 3 > n)
    BY <1>4, <1>5, <2>2, DigitValue
  <2> QED BY <2>1, <2>2
<1> QED BY <1>7, <1>8, <1>9 DEF e, a, b, c, n, d1, d2, d3, d4

(* The length that base64_decode gives back. *)
DecodedLength(in) ==
    LET n == Len(in)
        pad == (IF n >= 1 /\ in[n] = Pad THEN 1 ELSE 0) + (IF n >= 2 /\ in[n - 1] = Pad THEN 1 ELSE 0)
    IN  3 * (n \div 4) - pad

(* Decoding drops as many bytes as were filled in. *)
LEMMA LengthComesBack == ASSUME NEW s \in Bytes PROVE DecodedLength(base64_encode(s)) = Len(s)
<1> DEFINE e == base64_encode(s)
           n == Len(s)
           q == (n - 1) \div 3
<1>0. n \in Nat
  BY BytesAreNumbers
<1>3. Len(e) = 4 * ((n + 2) \div 3)
  BY EncodedLength
<1> HIDE DEF e, n
<1>1. CASE n = 0
  <2>1. Len(e) = 0
    BY <1>3, <1>1
  <2>2. DecodedLength(e) = 0
    BY <2>1 DEF DecodedLength
  <2> QED BY <1>1, <2>2 DEF e, n
<1>2. CASE n > 0
  <2>1. q \in Nat /\ 3 * q < n /\ n <= 3 * q + 3 /\ (n + 2) \div 3 = q + 1
    BY <1>0, <1>2
  <2>5. Len(e) = 4 * q + 4
    BY <1>3, <2>1
  <2>2. (e[4 * q + 3] = Pad <=> 3 * q + 2 > n) /\ (e[4 * q + 4] = Pad <=> 3 * q + 3 > n)
    <3> HIDE DEF q
    <3> QED BY <2>1, GroupValues DEF e, n
  <2> HIDE DEF q
  <2>3. Len(e) - 1 = 4 * q + 3 /\ Len(e) >= 2 /\ Len(e) \div 4 = q + 1
    BY <2>1, <2>5
  <2>4. DecodedLength(e) = n
    BY <1>0, <2>1, <2>5, <2>2, <2>3 DEF DecodedLength
  <2> QED BY <2>4 DEF e, n
<1> QED BY <1>0, <1>1, <1>2

(* The row key list_objects_v2 reads back from its own token is the one it     *)
(* made the token from, whatever its length.                                   *)
THEOREM TokensComeBack == ASSUME NEW s \in Bytes PROVE base64_decode(base64_encode(s)) = s
<1> DEFINE e == base64_encode(s)
           n == Len(s)
           O(i) == LET g == 4 * ((i - 1) \div 3)
                       r == (i - 1) % 3
                   IN  IF r = 0 THEN 4 * Value(e, g + 1) + Value(e, g + 2) \div 16
                       ELSE IF r = 1 THEN 16 * (Value(e, g + 2) % 16) + Value(e, g + 3) \div 4
                       ELSE 64 * (Value(e, g + 3) % 4) + Value(e, g + 4)
<1>0. n \in Nat /\ \A i \in 1 .. n : s[i] \in Byte
  BY BytesAreNumbers
<1>1. base64_decode(e) = [i \in 1 .. DecodedLength(e) |-> O(i)]
  <2> HIDE DEF e
  <2> QED BY DEF base64_decode, DecodedLength, Value
<1>2. DecodedLength(e) = n
  BY LengthComesBack
<1>3. ASSUME NEW i \in 1 .. n PROVE O(i) = s[i]
  <2> DEFINE q == (i - 1) \div 3
             r == (i - 1) % 3
             a == Filled(s, 3 * q + 1)
             b == Filled(s, 3 * q + 2)
             c == Filled(s, 3 * q + 3)
  <2>1. q \in Nat /\ r \in 0 .. 2 /\ i = 3 * q + r + 1 /\ 3 * q < n
    BY <1>0
  <2>2. a \in Byte /\ b \in Byte /\ c \in Byte
    <3> HIDE DEF q
    <3> QED BY <2>1, FilledIsByte
  <2>3. /\ Value(e, 4 * q + 1) = a \div 4
        /\ Value(e, 4 * q + 2) = 16 * (a % 4) + b \div 16
        /\ Value(e, 4 * q + 3) = 4 * (b % 16) + c \div 64
        /\ Value(e, 4 * q + 4) = c % 64
    <3> HIDE DEF q
    <3> QED BY <2>1, GroupValues
  <2>4. Filled(s, i) = s[i]
    BY <1>0 DEF Filled
  <2>5. O(i) = IF r = 0 THEN 4 * Value(e, 4 * q + 1) + Value(e, 4 * q + 2) \div 16
               ELSE IF r = 1 THEN 16 * (Value(e, 4 * q + 2) % 16) + Value(e, 4 * q + 3) \div 4
               ELSE 64 * (Value(e, 4 * q + 3) % 4) + Value(e, 4 * q + 4)
    OBVIOUS
  <2> HIDE DEF O, q, r, e, n
  <2>6. CASE r = 0
    <3>1. i = 3 * q + 1
      BY <2>1, <2>6
    <3>2. O(i) = 4 * (a \div 4) + (16 * (a % 4) + b \div 16) \div 16
      BY <2>3, <2>5, <2>6
    <3>3. O(i) = a
      <4> HIDE DEF a, b, c
      <4> QED BY <2>2, <3>2, DigitsAreBytes
    <3> QED BY <2>4, <3>1, <3>3
  <2>7. CASE r = 1
    <3>1. i = 3 * q + 2
      BY <2>1, <2>7
    <3>2. O(i) = 16 * ((16 * (a % 4) + b \div 16) % 16) + (4 * (b % 16) + c \div 64) \div 4
      BY <2>3, <2>5, <2>7
    <3>3. O(i) = b
      <4> HIDE DEF a, b, c
      <4> QED BY <2>2, <3>2, DigitsAreBytes
    <3> QED BY <2>4, <3>1, <3>3
  <2>8. CASE r = 2
    <3>1. i = 3 * q + 3
      BY <2>1, <2>8
    <3>2. O(i) = 64 * ((4 * (b % 16) + c \div 64) % 4) + (c % 64)
      BY <2>3, <2>5, <2>8
    <3>3. O(i) = c
      <4> HIDE DEF a, b, c
      <4> QED BY <2>2, <3>2, DigitsAreBytes
    <3> QED BY <2>4, <3>1, <3>3
  <2> QED BY <2>1, <2>6, <2>7, <2>8
<1>4. base64_decode(e) = [i \in 1 .. n |-> s[i]]
  <2> HIDE DEF O, e, n
  <2> QED BY <1>1, <1>2, <1>3
<1>5. s = [i \in 1 .. n |-> s[i]]
  BY DEF Bytes
<1> QED BY <1>4, <1>5

-----------------------------------------------------------------------------
(* The row of key k of the bucket listed. *)
Row(k) == meta_key(Bucket, NameOf[k])

(* What the iterators look for. *)
Wanted == meta_prefix(Bucket) \o Prefix

(* A key's row begins with its bucket's prefix, and with mp + prefix if the key matches. *)
LEMMA KeyNames ==
    ASSUME NEW k \in Keys
    PROVE  /\ NameOf[k] \in Name /\ NameOf[k] \in Bytes /\ Row(k) \in Bytes
           /\ StartsWith(Row(k), meta_prefix(Bucket))
           /\ StartsWith(Row(k), Wanted) <=> k \in Matching
           /\ Row(k) # <<>>
<1>1. NameOf[k] \in Name /\ NameOf[k] \in Bytes
  BY NamesAssumption, NamesAreBytes
<1>2. /\ meta_prefix(Bucket) \in Bytes /\ Prefix \in Bytes
      /\ Len(meta_prefix(Bucket)) = Len(Bucket) + 3 /\ Len(Bucket) \in Nat
  BY NamesAssumption, NamesAreBytes, MetaPrefixBytes
<1>3. Row(k) \in Bytes /\ Len(Row(k)) = Len(meta_prefix(Bucket)) + Len(NameOf[k])
  <2> DEFINE p == meta_prefix(Bucket)
             s == NameOf[k]
  <2>1. p \in Bytes /\ s \in Bytes
    BY <1>1, <1>2
  <2> HIDE DEF p, s
  <2>2. p \o s \in Bytes /\ Len(p \o s) = Len(p) + Len(s)
    BY <2>1 DEF Bytes
  <2> QED BY <2>2 DEF p, s, Row, meta_key
<1>4. StartsWith(Row(k), meta_prefix(Bucket))
  BY <1>1, <1>2, PrefixOfKey DEF Row, meta_key
<1>5. StartsWith(Row(k), Wanted) <=> StartsWith(NameOf[k], Prefix)
  BY <1>1, <1>2, PrefixOfKey DEF Row, meta_key, Wanted
<1>6. Len(NameOf[k]) \in Nat
  BY <1>1, BytesAreNumbers
<1> QED BY <1>1, <1>2, <1>3, <1>4, <1>5, <1>6, NamesAssumption

(* Where a walk starts, mp + prefix, begins with the bucket's prefix mp. *)
LEMMA WantedBytes ==
    /\ meta_prefix(Bucket) \in Bytes /\ Wanted \in Bytes
    /\ StartsWith(Wanted, meta_prefix(Bucket))
    /\ StartsWith(Wanted, Wanted) /\ StartsWith(meta_prefix(Bucket), meta_prefix(Bucket))
<1>1. meta_prefix(Bucket) \in Bytes /\ Prefix \in Bytes
  BY NamesAssumption, NamesAreBytes, MetaPrefixBytes
<1>2. Wanted \in Bytes
  BY <1>1 DEF Wanted, Bytes
<1>3. StartsWith(Wanted, meta_prefix(Bucket))
  BY <1>1, PrefixOfKey DEF Wanted
<1>4. Len(Wanted) \in Nat /\ Len(meta_prefix(Bucket)) \in Nat
  BY <1>1, <1>2, BytesAreNumbers
<1> QED BY <1>1, <1>2, <1>3, <1>4 DEF StartsWith

(* What begins with the longer prefix begins with the shorter one. *)
LEMMA WantedIsInBucket ==
    ASSUME NEW r \in Bytes, StartsWith(r, Wanted)
    PROVE  StartsWith(r, meta_prefix(Bucket))
<1>1. Len(r) \in Nat /\ Len(Wanted) \in Nat /\ Len(meta_prefix(Bucket)) \in Nat
  BY WantedBytes, BytesAreNumbers
<1> QED BY <1>1, WantedBytes DEF StartsWith

(* Rows are in the order of their keys. *)
LEMMA RowsInOrder ==
    ASSUME NEW j \in Keys, NEW k \in Keys, j < k
    PROVE  Before(Row(j), Row(k)) /\ ~Before(Row(k), Row(j)) /\ Row(j) # Row(k)
<1>1. Before(NameOf[j], NameOf[k])
  BY NamesAssumption
<1>2. NameOf[j] \in Bytes /\ NameOf[k] \in Bytes /\ Row(j) \in Bytes /\ Row(k) \in Bytes
  BY KeyNames
<1>3. Before(Row(j), Row(k))
  BY <1>1, <1>2, WantedBytes, BeforeBehindPrefix DEF Row, meta_key
<1> QED BY <1>2, <1>3, BeforeOneWay, NeverBeforeItself

(* Of all the rows, those that begin with the bucket's prefix are its objects. *)
LEMMA RowsOfBucket ==
    ASSUME rows \subseteq Keys, NEW r \in AllRows
    PROVE  /\ r \in Bytes
           /\ StartsWith(r, meta_prefix(Bucket)) => \E k \in rows : r = Row(k)
<1>0. Bucket \in Name /\ \A k \in rows : k \in Keys /\ NameOf[k] \in Bytes
  BY NamesAssumption, KeyNames
<1>1. CASE r \in MetaRows(rows)
  <2>1. PICK k \in rows : r = Row(k)
    BY <1>1 DEF MetaRows, Row
  <2> QED BY <1>0, <2>1, KeyNames
<1>2. CASE \E k \in rows : r = data_key(Bucket, NameOf[k])
  BY <1>0, <1>2, OtherFamilies
<1>3. CASE \E b \in OtherBuckets \union IF bucket THEN {Bucket} ELSE {} : r = bucket_key(b)
  <2>1. PICK b \in Name : r = bucket_key(b)
    BY <1>3, NamesAssumption
  <2>2. <<>> \in Bytes
    BY DEF Bytes
  <2> QED BY <1>0, <2>1, <2>2, OtherFamilies
<1>4. \A o \in OtherObjects : o[1] \in Name /\ o[1] # Bucket /\ o[2] \in Name /\ o[2] \in Bytes
  BY NamesAssumption, NamesAreBytes
<1>5. CASE \E o \in OtherObjects : r = meta_key(o[1], o[2])
  <2>1. PICK o \in OtherObjects : r = meta_key(o[1], o[2])
    BY <1>5
  <2>2. r \in Bytes
    BY <1>4, <2>1, MetaPrefixBytes DEF meta_key, Bytes
  <2>3. ~StartsWith(r, meta_prefix(Bucket))
    BY <1>0, <1>4, <2>1, OwnPrefix
  <2> QED BY <2>2, <2>3
<1>6. CASE \E o \in OtherObjects : r = data_key(o[1], o[2])
  BY <1>0, <1>4, <1>6, OtherFamilies
<1> QED BY <1>1, <1>2, <1>3, <1>5, <1>6 DEF AllRows

(* The keys of the bucket have their rows among those of the database. *)
LEMMA OwnRows ==
    ASSUME rows \subseteq Keys, NEW k \in rows
    PROVE  Row(k) \in AllRows
BY DEF AllRows, MetaRows, Row

-----------------------------------------------------------------------------
(* delete_bucket's Seek. *)
LEMMA SeekIsExact ==
    ASSUME rows \subseteq Keys
    PROVE  SeekFindsObject(AllRows, Bucket) <=> rows # {}
<1>1. ASSUME SeekFindsObject(AllRows, Bucket) PROVE rows # {}
  BY <1>1, RowsOfBucket DEF SeekFindsObject
<1>2. ASSUME rows # {} PROVE SeekFindsObject(AllRows, Bucket)
  <2>0. rows \in SUBSET Nat /\ \A j \in rows : j \in Nat /\ j \in Keys
    BY KeysAreNumbers
  <2>1. PICK k \in rows : \A j \in rows : k <= j
    BY <1>2, <2>0, LeastKey
  <2>2. Row(k) \in AllRows /\ Row(k) \in Bytes /\ StartsWith(Row(k), meta_prefix(Bucket))
    BY <2>0, OwnRows, KeyNames
  <2>3. ~Before(Row(k), meta_prefix(Bucket))
    BY <2>2, WantedBytes, NotBeforePrefix
  <2>4. ASSUME NEW q \in AllRows, ~Before(q, meta_prefix(Bucket)), Before(q, Row(k)) PROVE FALSE
    <3>1. q \in Bytes
      BY RowsOfBucket
    <3>2. StartsWith(q, meta_prefix(Bucket))
      BY <2>2, <2>4, <3>1, WantedBytes, OnlyPrefixBetween
    <3>3. PICK j \in rows : q = Row(j)
      BY <3>2, RowsOfBucket
    <3>4. CASE j = k
      BY <2>2, <2>4, <3>3, <3>4, NeverBeforeItself
    <3>5. CASE k < j
      BY <2>0, <2>4, <3>3, <3>5, RowsInOrder
    <3> QED BY <2>0, <2>1, <3>4, <3>5
  <2> QED BY <2>2, <2>3, <2>4 DEF SeekFindsObject
<1> QED BY <1>1, <1>2

(* list_objects_v2's first iterator, from where it seeks. *)
LEMMA WalkIsExact ==
    ASSUME rows \subseteq Keys, token \in Matching \union {NoToken}
    PROVE  Walked(AllRows, Bucket, Prefix, TokenRow) = MetaRows(Candidates)
<1> DEFINE start == IF TokenRow = <<>> THEN Wanted ELSE TokenRow
           from == {r \in AllRows : ~Before(r, start) /\ (TokenRow # <<>> => r # start)}
           walk == {r \in from : \A q \in from : Before(q, r) \/ q = r => StartsWith(q, Wanted)}
<1>1. Walked(AllRows, Bucket, Prefix, TokenRow) = walk
  BY DEF Walked, Wanted
<1>2. /\ \A k \in rows : k \in Nat /\ k \in Keys
      /\ Matching \subseteq Keys /\ token \in Nat
  BY KeysAreNumbers, KeysAssumption DEF Keys, NoToken
<1>3. /\ token = NoToken => TokenRow = <<>> /\ start = Wanted
      /\ token # NoToken => token \in Matching /\ token \in Keys /\ TokenRow # <<>> /\ start = Row(token)
  BY <1>2, KeyNames, TokensComeBack DEF TokenRow, Row
<1>4. start \in Bytes /\ StartsWith(start, Wanted)
  BY <1>3, WantedBytes, KeyNames
<1> HIDE DEF start
(* The keys behind the start are those beyond the token. *)
<1>5. ASSUME NEW k \in rows, k \in Matching
      PROVE  Row(k) \in from <=> k > token
  <2>1. Row(k) \in AllRows /\ Row(k) \in Bytes /\ StartsWith(Row(k), Wanted)
    BY <1>2, <1>5, OwnRows, KeyNames
  <2>2. CASE token = NoToken
    <3>1. k > token
      BY <1>2, <2>2 DEF Keys, NoToken
    <3> QED BY <1>3, <2>1, <2>2, <3>1, WantedBytes, NotBeforePrefix
  <2>3. CASE token # NoToken
    <3>1. CASE k > token
      BY <1>2, <1>3, <2>1, <2>3, <3>1, RowsInOrder
    <3>2. CASE k < token
      BY <1>2, <1>3, <2>3, <3>2, RowsInOrder
    <3>3. CASE k = token
      BY <1>2, <1>3, <2>3, <3>3
    <3> QED BY <1>2, <3>1, <3>2, <3>3
  <2> QED BY <2>2, <2>3
<1>6. ASSUME NEW r \in walk PROVE r \in MetaRows(Candidates)
  <2>1. r \in AllRows /\ r \in from /\ StartsWith(r, Wanted) /\ r \in Bytes
    BY <1>6, RowsOfBucket
  <2>2. PICK k \in rows : r = Row(k)
    BY <2>1, RowsOfBucket, WantedIsInBucket
  <2>3. k \in Matching
    BY <1>2, <2>1, <2>2, KeyNames
  <2>4. k > token
    BY <1>5, <2>1, <2>2, <2>3
  <2> QED BY <2>2, <2>3, <2>4 DEF MetaRows, Candidates, Row
<1>7. ASSUME NEW r \in MetaRows(Candidates) PROVE r \in walk
  <2>1. PICK k \in Candidates : r = Row(k)
    BY <1>7 DEF MetaRows, Row
  <2>2. k \in rows /\ k \in Keys /\ k \in Matching /\ k > token
    BY <1>2, <2>1 DEF Candidates
  <2>3. r \in from /\ r \in Bytes /\ StartsWith(r, Wanted)
    BY <1>5, <2>1, <2>2, KeyNames
  <2>4. ASSUME NEW q \in from, Before(q, r) PROVE StartsWith(q, Wanted)
    BY <1>4, <2>3, <2>4, RowsOfBucket, WantedBytes, OnlyPrefixBetween
  <2> QED BY <2>3, <2>4
<1>8. walk = MetaRows(Candidates)
  BY <1>6, <1>7
<1> QED BY <1>1, <1>8

(* A token names a key that matched. *)
TokenMatches == ListInv /\ token \in Matching \union {NoToken}

(* Every token names a key that matched. *)
LEMMA TokenMatchesAlways == Spec => []TokenMatches
<1>1. Init => TokenMatches
  BY InitListInv DEF Init, TokenMatches
<1>2. TokenMatches /\ [Next]_vars => TokenMatches'
  <2> SUFFICES ASSUME TokenMatches, [Next]_vars PROVE TokenMatches'
    OBVIOUS
  <2>1. ListInv'
    BY NextListInv DEF TokenMatches
  <2>2. token' \in {token, NoToken} \/ (at = "probe" /\ token' = last)
    BY DEF Next, Listing, StartListing, ListExists, ListScan, ListProbe, ListProbeError, ListError,
           PutKey, DeleteKey, Quiet, MarkerChange, vars
  <2> QED BY <2>1, <2>2 DEF TokenMatches, ListInv
<1> QED BY <1>1, <1>2, PTL DEF Spec

(* Whatever the names of buckets and keys, list_objects_v2's iterator meets    *)
(* exactly the keys of the bucket that match beyond the token it decoded, and  *)
(* delete_bucket's Seek finds a row exactly when the bucket has an object.     *)
THEOREM IteratorsAlwaysSeeTheBucket == Spec => []IteratorsSeeTheBucket
<1>1. TokenMatches => IteratorsSeeTheBucket
  <2> SUFFICES ASSUME TokenMatches PROVE IteratorsSeeTheBucket
    OBVIOUS
  <2>1. rows \subseteq Keys /\ token \in Matching \union {NoToken}
    BY DEF TokenMatches, ListInv, TypeOK
  <2> QED BY <2>1, SeekIsExact, WalkIsExact DEF IteratorsSeeTheBucket
<1> QED BY <1>1, TokenMatchesAlways, PTL
=============================================================================
