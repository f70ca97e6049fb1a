-------------------------- MODULE PrefixIndexProofs --------------------------
(***************************************************************************)
(* Lemmas about the operators of PrefixIndex, for every set of prompts,    *)
(* payloads, hash functions, block size and bytes-per-token.  The proofs   *)
(* about one index (PrefixMapProofs) and about replicas of it over the     *)
(* network (PromptCacheProofs) rest on them.                               *)
(***************************************************************************)
EXTENDS PrefixIndex, TLAPS, WellFoundedInduction

-----------------------------------------------------------------------------
(* A non-empty set of naturals with an upper bound has a greatest element,     *)
(* which is what Max picks: the last block boundary of the loops of Store and  *)
(* Lookup exists.                                                              *)
LEMMA MaxOfBounded ==
    ASSUME NEW S \in SUBSET Nat, S # {}, NEW limit \in Nat, \A x \in S : x <= limit
    PROVE  Max(S) \in S /\ \A y \in S : y <= Max(S)
<1> DEFINE T == {limit - x : x \in S}
           R == {ss \in Nat \X Nat : ss[1] < ss[2]}
<1>1. IsWellFoundedOn(R, Nat)
  BY NatLessThanWellFounded DEF OpToRel
<1>2. T \subseteq Nat /\ T # {}
  <2>1. \A x \in S : limit - x \in Nat
    OBVIOUS
  <2>2. PICK x \in S : TRUE
    OBVIOUS
  <2>3. limit - x \in T
    OBVIOUS
  <2> QED BY <2>1, <2>3
<1>3. PICK t \in T : \A u \in T : <<u, t>> \notin R
  <2> HIDE DEF R, T
  <2> QED BY <1>1, <1>2, WFMin
<1>4. PICK x \in S : t = limit - x
  OBVIOUS
<1>5. \A y \in S : x >= y
  <2> SUFFICES ASSUME NEW y \in S PROVE x >= y
    OBVIOUS
  <2>1. limit - y \in T /\ limit - y \in Nat /\ t \in Nat
    BY <1>2
  <2>2. ~(limit - y < t)
    BY <2>1, <1>3
  <2> QED BY <2>2, <1>4
<1> QED BY <1>5 DEF Max

-----------------------------------------------------------------------------
(* The typing of Store's inputs: prompts are sequences, a block boundary of a  *)
(* prompt is a length of it, and every prefix has a hash.                      *)
LEMMA PromptFacts ==
    ASSUME NEW p \in Prompts
    PROVE  /\ Len(p) \in Nat
           /\ \A n \in BlockLens(Len(p)) : n \in 1..Len(p) /\ n \in Nat
           /\ \A n \in BlockLens(Len(p)) : HashTokens(p, n) \in Hashes
<1>1. Len(p) \in Nat
  BY PromptsAssumption
<1>2. \A n \in BlockLens(Len(p)) : n \in 1..Len(p) /\ n \in Nat
  BY <1>1 DEF BlockLens
<1>3. \A n \in 1..Len(p) : SubSeq(p, 1, n) \in UNION {PrefixesOf(q) : q \in Prompts}
  BY DEF PrefixesOf
<1> QED BY <1>1, <1>2, <1>3, TokenHashAssumption DEF HashTokens

(* UsableBytes returns an int for every boundary of a prompt. *)
LEMMA UsableBytesType ==
    ASSUME NEW total_tokens \in Nat, NEW prefix_len \in 1..total_tokens,
           NEW total_bytes \in 0..IntMax
    PROVE  UsableBytes(prefix_len, total_tokens, total_bytes) \subseteq Int
<1>1. AsInt(prefix_len * BytesPerToken) \in Int
  BY IntAssumption, BytesPerTokenAssumption DEF AsInt
<1>2. FracBytes(prefix_len, total_tokens, total_bytes) \subseteq Int
  BY IntAssumption DEF FracBytes
<1> QED BY <1>1, <1>2, IntAssumption DEF UsableBytes, AtMost, AtLeast

(* Without overflow, UsableBytes stays within the object and is 0 only for an  *)
(* empty object.                                                               *)
LEMMA UsableBytesBounds ==
    ASSUME NEW total_tokens \in Nat, NEW prefix_len \in 1..total_tokens,
           NEW total_bytes \in 0..IntMax, total_tokens * BytesPerToken <= IntMax,
           NEW u \in UsableBytes(prefix_len, total_tokens, total_bytes)
    PROVE  u \in 0..total_bytes /\ (u = 0 => total_bytes = 0)
<1>1. CASE BytesPerToken > 0
  <2>1. prefix_len * BytesPerToken \in 1..IntMax
    BY <1>1, IntAssumption, BytesPerTokenAssumption
  <2>2. AsInt(prefix_len * BytesPerToken) = prefix_len * BytesPerToken
    BY <2>1, IntAssumption DEF AsInt
  <2>3. u = AtMost(prefix_len * BytesPerToken, total_bytes)
    BY <1>1, <2>2 DEF UsableBytes
  <2> QED BY <2>1, <2>3, IntAssumption DEF AtMost
<1>2. CASE BytesPerToken = 0
  <2>1. FracBytes(prefix_len, total_tokens, total_bytes) \subseteq Int
    BY IntAssumption DEF FracBytes
  <2> QED BY <1>2, <2>1, IntAssumption DEF UsableBytes, AtMost, AtLeast
<1> QED BY <1>1, <1>2, BytesPerTokenAssumption

-----------------------------------------------------------------------------
(* What one successful Store leaves behind: the hashes of the prompt's         *)
(* boundaries get this call's object, version and a length computed for some   *)
(* boundary with that hash; every other entry, and every other object, stays.  *)
TookIn(old, new, p, d, usable) ==
    /\ new.version_clock = old.version_clock + 1
    /\ DOMAIN new.obj_table = DOMAIN old.obj_table \union {HashBytesHex(d)}
    /\ new.obj_table[HashBytesHex(d)] = SizeOf[d]
    /\ \A o \in DOMAIN old.obj_table :
          o # HashBytesHex(d) => new.obj_table[o] = old.obj_table[o]
    /\ DOMAIN new.prefix_map = DOMAIN old.prefix_map \union BlockHashes(p)
    /\ \A h \in DOMAIN old.prefix_map \ BlockHashes(p) :
          new.prefix_map[h] = old.prefix_map[h]
    /\ \A h \in BlockHashes(p) : \E n \in BlockLens(Len(p)) :
          /\ HashTokens(p, n) = h
          /\ usable[n] \in UsableBytes(n, Len(p), SizeOf[d])
          /\ new.prefix_map[h] = [obj_id |-> HashBytesHex(d), usable_len_bytes |-> usable[n],
                                  version |-> old.version_clock + 1]

(* StoreEffect does what TookIn says: the Max in WithEntries always exists. *)
LEMMA StoreEffectFacts ==
    ASSUME NEW old, NEW new, NEW p \in Prompts, NEW d \in Payloads,
           NEW usable \in UsableLens(p, d), new = StoreEffect(old, p, d, usable)
    PROVE  TookIn(old, new, p, d, usable)
<1> DEFINE hashed(h) == {n \in BlockLens(Len(p)) : HashTokens(p, n) = h}
           entry(n) == [obj_id |-> HashBytesHex(d), usable_len_bytes |-> usable[n],
                        version |-> old.version_clock + 1]
<1>1. \A h \in BlockHashes(p) : Max(hashed(h)) \in hashed(h)
  <2> SUFFICES ASSUME NEW h \in BlockHashes(p) PROVE Max(hashed(h)) \in hashed(h)
    OBVIOUS
  <2>1. hashed(h) \in SUBSET Nat /\ hashed(h) # {} /\ \A x \in hashed(h) : x <= Len(p)
    BY PromptFacts DEF BlockHashes
  <2>2. Len(p) \in Nat
    BY PromptFacts
  <2> HIDE DEF hashed
  <2> QED BY <2>1, <2>2, MaxOfBounded
<1>2. \A n \in BlockLens(Len(p)) : usable[n] \in UsableBytes(n, Len(p), SizeOf[d])
  BY DEF UsableLens
<1>3. new.prefix_map = [h \in DOMAIN old.prefix_map \union BlockHashes(p) |->
                              IF h \in BlockHashes(p) THEN entry(Max(hashed(h)))
                              ELSE old.prefix_map[h]]
  BY DEF StoreEffect, WithEntries
<1>4. ASSUME NEW h \in BlockHashes(p)
      PROVE  \E n \in BlockLens(Len(p)) :
                /\ HashTokens(p, n) = h
                /\ usable[n] \in UsableBytes(n, Len(p), SizeOf[d])
                /\ new.prefix_map[h] = entry(n)
  <2>1. Max(hashed(h)) \in BlockLens(Len(p)) /\ HashTokens(p, Max(hashed(h))) = h
    BY <1>1
  <2>2. new.prefix_map[h] = entry(Max(hashed(h)))
    BY <1>3
  <2> QED BY <1>2, <2>1, <2>2
<1>5. /\ DOMAIN new.prefix_map = DOMAIN old.prefix_map \union BlockHashes(p)
      /\ \A h \in DOMAIN old.prefix_map \ BlockHashes(p) :
            new.prefix_map[h] = old.prefix_map[h]
  BY <1>3
<1>6. /\ new.version_clock = old.version_clock + 1
      /\ DOMAIN new.obj_table = DOMAIN old.obj_table \union {HashBytesHex(d)}
      /\ new.obj_table[HashBytesHex(d)] = SizeOf[d]
      /\ \A o \in DOMAIN old.obj_table :
            o # HashBytesHex(d) => new.obj_table[o] = old.obj_table[o]
  BY DEF StoreEffect
<1> QED BY <1>4, <1>5, <1>6 DEF TookIn

-----------------------------------------------------------------------------
(* Prompts that agree on their first n tokens agree on every shorter prefix,   *)
(* and a prefix determines its length.                                         *)
LEMMA PrefixAgreement ==
    ASSUME NEW s \in Seq(Tokens), NEW t \in Seq(Tokens),
           NEW n \in 1..Len(s), NEW k \in 1..Len(t), SubSeq(s, 1, n) = SubSeq(t, 1, k)
    PROVE  /\ n = k
           /\ \A m \in 1..n : SubSeq(s, 1, m) = SubSeq(t, 1, m)
<1>1. /\ SubSeq(s, 1, n) \in Seq(Tokens) /\ Len(SubSeq(s, 1, n)) = n
      /\ \A i \in 1..n : SubSeq(s, 1, n)[i] = s[i]
  OBVIOUS
<1>2. /\ SubSeq(t, 1, k) \in Seq(Tokens) /\ Len(SubSeq(t, 1, k)) = k
      /\ \A i \in 1..k : SubSeq(t, 1, k)[i] = t[i]
  OBVIOUS
<1>3. n = k /\ \A i \in 1..n : s[i] = t[i]
  BY <1>1, <1>2
<1>4. ASSUME NEW m \in 1..n PROVE SubSeq(s, 1, m) = SubSeq(t, 1, m)
  <2>1. SubSeq(s, 1, m) \in Seq(Tokens) /\ SubSeq(t, 1, m) \in Seq(Tokens)
    BY <1>3
  <2>2. Len(SubSeq(s, 1, m)) = m /\ Len(SubSeq(t, 1, m)) = m
    BY <1>3
  <2>3. \A i \in 1..m : SubSeq(s, 1, m)[i] = SubSeq(t, 1, m)[i]
    BY <1>3
  <2>4. PICK u \in Seq(Tokens), v \in Seq(Tokens) : u = SubSeq(s, 1, m) /\ v = SubSeq(t, 1, m)
    BY <2>1
  <2>5. u = v
    BY <2>2, <2>3, <2>4
  <2> QED BY <2>4, <2>5
<1> QED BY <1>3, <1>4

FirstTokens(tokens, n) == SubSeq(tokens, 1, n)

(* Without collisions, boundaries of prompts with the same hash are the same   *)
(* prefix.                                                                     *)
LEMMA SameHashSamePrefix ==
    ASSUME NoTokenCollision, NEW p \in Prompts, NEW q \in Prompts,
           NEW n \in BlockLens(Len(p)), NEW m \in BlockLens(Len(q)),
           HashTokens(p, n) = HashTokens(q, m)
    PROVE  n = m /\ FirstTokens(p, n) = FirstTokens(q, n)
<1>1. /\ p \in Seq(Tokens) /\ q \in Seq(Tokens)
      /\ n \in 1..Len(p) /\ m \in 1..Len(q)
  BY PromptsAssumption, PromptFacts
<1>2. SubSeq(p, 1, n) \in PrefixesOf(p) /\ SubSeq(q, 1, m) \in PrefixesOf(q)
  BY <1>1 DEF PrefixesOf
<1>3. SubSeq(p, 1, n) \in DOMAIN TokenHash /\ SubSeq(q, 1, m) \in DOMAIN TokenHash
  BY <1>2, TokenHashAssumption
<1>4. SubSeq(p, 1, n) = SubSeq(q, 1, m)
  BY <1>3 DEF HashTokens, NoTokenCollision
<1> QED BY <1>1, <1>4, PrefixAgreement DEF FirstTokens

(* What Lookup answers, in terms of the boundaries its loop passes. *)
LEMMA LookupFacts ==
    ASSUME NEW pm, NEW p \in Prompts, NEW max_len \in Int
    PROVE  LET passed == Passed(pm, p, MaxLen(p, max_len))
               r == Lookup(pm, p, max_len)
           IN  /\ MaxLen(p, max_len) \in 0..Len(p)
               /\ r.prefix_tokens \in Nat
               /\ passed = {} => ~r.hit /\ r.prefix_tokens = 0
               /\ passed # {} =>
                     /\ r.hit
                     /\ r.prefix_tokens \in passed
                     /\ \A n \in passed : n <= r.prefix_tokens
                     /\ r.obj_id = pm[HashTokens(p, r.prefix_tokens)].obj_id
                     /\ r.usable_len_bytes
                           = pm[HashTokens(p, r.prefix_tokens)].usable_len_bytes
<1> DEFINE limit == MaxLen(p, max_len)
           passed == Passed(pm, p, limit)
           r == Lookup(pm, p, max_len)
<1>1. limit \in 0..Len(p) /\ Len(p) \in Nat
  BY PromptFacts DEF MaxLen
<1>2. passed \in SUBSET Nat /\ \A n \in passed : n <= Len(p)
  <2>1. passed \subseteq 1..limit
    BY Zenon DEF Passed, BlockLens
  <2> HIDE DEF passed, limit
  <2> QED BY <1>1, <2>1
<1>3. CASE passed = {}
  BY <1>1, <1>3 DEF Lookup, Miss
<1>4. CASE passed # {}
  <2>1. Max(passed) \in passed /\ \A n \in passed : n <= Max(passed)
    <3> HIDE DEF passed
    <3> QED BY <1>1, <1>2, <1>4, MaxOfBounded
  <2>2. r = [hit |-> TRUE, obj_id |-> pm[HashTokens(p, Max(passed))].obj_id,
             usable_len_bytes |-> pm[HashTokens(p, Max(passed))].usable_len_bytes,
             prefix_tokens |-> Max(passed)]
    BY <1>4 DEF Lookup
  <2> QED BY <1>1, <1>2, <1>4, <2>1, <2>2
<1> QED BY <1>3, <1>4
=============================================================================
