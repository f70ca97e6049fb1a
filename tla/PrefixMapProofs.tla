--------------------------- MODULE PrefixMapProofs ---------------------------
(***************************************************************************)
(* Proofs about PrefixMap for every set of prompts, payloads, hash         *)
(* functions, block size and bytes-per-token.                              *)
(***************************************************************************)
EXTENDS PrefixMap, PrefixIndexProofs

-----------------------------------------------------------------------------
(* StoreEffectFacts for the index of this module. *)
LEMMA StoreFacts ==
    ASSUME NEW p \in Prompts, NEW d \in Payloads, NEW usable \in UsableLens(p, d),
           index' = StoreEffect(index, p, d, usable)
    PROVE  /\ index'.version_clock = index.version_clock + 1
           /\ DOMAIN index'.obj_table = DOMAIN index.obj_table \union {HashBytesHex(d)}
           /\ index'.obj_table[HashBytesHex(d)] = SizeOf[d]
           /\ \A o \in DOMAIN index.obj_table :
                 o # HashBytesHex(d) => index'.obj_table[o] = index.obj_table[o]
           /\ DOMAIN index'.prefix_map = DOMAIN index.prefix_map \union BlockHashes(p)
           /\ \A h \in DOMAIN index.prefix_map \ BlockHashes(p) :
                 index'.prefix_map[h] = index.prefix_map[h]
           /\ \A h \in BlockHashes(p) : \E n \in BlockLens(Len(p)) :
                 /\ HashTokens(p, n) = h
                 /\ usable[n] \in UsableBytes(n, Len(p), SizeOf[d])
                 /\ index'.prefix_map[h] = [obj_id |-> HashBytesHex(d),
                                            usable_len_bytes |-> usable[n],
                                            version |-> index.version_clock + 1]
<1>1. TookIn(index, index', p, d, usable)
  BY StoreEffectFacts
<1> QED BY <1>1 DEF TookIn

(* The index stays well-typed under one successful Store. *)
LEMMA StoreEffectType ==
    ASSUME TypeOK, NEW p \in Prompts, NEW d \in Payloads, NEW usable \in UsableLens(p, d),
           index' = StoreEffect(index, p, d, usable),
           log' = Append(log, [tokens |-> p, data |-> d])
    PROVE  TypeOK'
<1>1. /\ HashBytesHex(d) \in ObjIds
      /\ index.version_clock + 1 \in Nat
      /\ BlockHashes(p) \subseteq Hashes
      /\ SizeOf[d] \in Nat
  BY PromptFacts, ContentHashAssumption, SizeAssumption DEF HashBytesHex, TypeOK, BlockHashes
<1>2. \A n \in BlockLens(Len(p)) : UsableBytes(n, Len(p), SizeOf[d]) \subseteq Int
  BY PromptFacts, UsableBytesType, SizeAssumption
<1>3. ASSUME NEW h \in BlockHashes(p) PROVE index'.prefix_map[h] \in Entry
  <2>1. PICK n \in BlockLens(Len(p)) :
           /\ usable[n] \in UsableBytes(n, Len(p), SizeOf[d])
           /\ index'.prefix_map[h] = [obj_id |-> HashBytesHex(d), usable_len_bytes |-> usable[n],
                                      version |-> index.version_clock + 1]
    BY StoreFacts
  <2>2. usable[n] \in Int
    BY <1>2, <2>1
  <2> QED BY <1>1, <2>1, <2>2 DEF Entry
<1>4. /\ DOMAIN index'.prefix_map \subseteq Hashes
      /\ \A h \in DOMAIN index'.prefix_map : index'.prefix_map[h] \in Entry
  <2>1. /\ DOMAIN index'.prefix_map = DOMAIN index.prefix_map \union BlockHashes(p)
        /\ \A h \in DOMAIN index.prefix_map \ BlockHashes(p) :
              index'.prefix_map[h] = index.prefix_map[h]
    BY StoreFacts
  <2>2. /\ DOMAIN index.prefix_map \subseteq Hashes
        /\ \A h \in DOMAIN index.prefix_map : index.prefix_map[h] \in Entry
    BY DEF TypeOK
  <2> QED BY <1>1, <1>3, <2>1, <2>2
<1>5. /\ DOMAIN index'.obj_table \subseteq ObjIds
      /\ \A o \in DOMAIN index'.obj_table : index'.obj_table[o] \in Nat
  <2>1. /\ DOMAIN index'.obj_table = DOMAIN index.obj_table \union {HashBytesHex(d)}
        /\ index'.obj_table[HashBytesHex(d)] = SizeOf[d]
        /\ \A o \in DOMAIN index.obj_table :
              o # HashBytesHex(d) => index'.obj_table[o] = index.obj_table[o]
    BY StoreFacts
  <2>2. /\ DOMAIN index.obj_table \subseteq ObjIds
        /\ \A o \in DOMAIN index.obj_table : index.obj_table[o] \in Nat
    BY DEF TypeOK
  <2>3. ASSUME NEW o \in DOMAIN index'.obj_table PROVE index'.obj_table[o] \in Nat
    <3>1. CASE o = HashBytesHex(d)
      BY <1>1, <2>1, <3>1
    <3>2. CASE o # HashBytesHex(d)
      BY <2>1, <2>2, <3>2
    <3> QED BY <3>1, <3>2
  <2> QED BY <1>1, <2>1, <2>2, <2>3
<1>6. index'.version_clock \in Nat
  BY <1>1, StoreFacts
<1>7. log' \in Seq([tokens : Prompts, data : Payloads])
  BY DEF TypeOK
<1> QED BY <1>4, <1>5, <1>6, <1>7 DEF TypeOK

(* Whatever sequence of Store calls is made, failing Puts included, the index  *)
(* and its clock keep their types.                                             *)
THEOREM TypeCorrect == Spec => []TypeOK
<1>1. Init => TypeOK
  BY DEF Init, EmptyIndex, TypeOK
<1>2. TypeOK /\ [Next]_vars => TypeOK'
  <2> SUFFICES ASSUME TypeOK, [Next]_vars PROVE TypeOK'
    OBVIOUS
  <2>1. CASE Next
    <3>1. PICK p \in Prompts, d \in Payloads, skip_put \in BOOLEAN, put_ok \in BOOLEAN :
             Store(p, d, skip_put, put_ok)
      BY <2>1 DEF Next
    <3>2. CASE ~skip_put /\ ~put_ok
      BY <3>1, <3>2 DEF Store, vars, TypeOK, EntryFromLog
    <3>3. CASE skip_put \/ put_ok
      BY <3>1, <3>3, StoreEffectType DEF Store
    <3> QED BY <3>2, <3>3
  <2>2. CASE UNCHANGED vars
    BY <2>2 DEF vars, TypeOK
  <2> QED BY <2>1, <2>2
<1> QED BY <1>1, <1>2, PTL DEF Spec

-----------------------------------------------------------------------------
(* One successful Store keeps the index a function of the calls made. *)
LEMMA StoreEffectReflects ==
    ASSUME TypeOK, IndexReflectsLog,
           NEW p \in Prompts, NEW d \in Payloads, NEW usable \in UsableLens(p, d),
           index' = StoreEffect(index, p, d, usable),
           log' = Append(log, [tokens |-> p, data |-> d])
    PROVE  IndexReflectsLog'
<1> DEFINE last == Len(log) + 1
<1>1. /\ Len(log) \in Nat /\ Len(log) = index.version_clock
      /\ Len(log') = last
      /\ DOMAIN log = 1..Len(log) /\ DOMAIN log' = 1..last
      /\ \A i \in DOMAIN log : i \in DOMAIN log' /\ log'[i] = log[i]
      /\ last \in DOMAIN log' /\ log'[last].tokens = p /\ log'[last].data = d
      /\ \A i \in DOMAIN log' : i \in DOMAIN log \/ i = last
  BY DEF TypeOK, IndexReflectsLog
<1>2. Len(log') = index'.version_clock
  BY <1>1, StoreFacts
<1>3. /\ DOMAIN index'.prefix_map = DOMAIN index.prefix_map \union BlockHashes(p)
      /\ \A h \in DOMAIN index.prefix_map \ BlockHashes(p) :
            index'.prefix_map[h] = index.prefix_map[h]
  BY StoreFacts
<1>4. /\ DOMAIN index'.obj_table = DOMAIN index.obj_table \union {HashBytesHex(d)}
      /\ index'.obj_table[HashBytesHex(d)] = SizeOf[d]
      /\ \A o \in DOMAIN index.obj_table :
            o # HashBytesHex(d) => index'.obj_table[o] = index.obj_table[o]
  BY StoreFacts
<1>5. ASSUME NEW h \in DOMAIN index'.prefix_map PROVE EntryFromLog(h)'
  <2>1. CASE h \in BlockHashes(p)
    <3>1. PICK n \in BlockLens(Len(p)) :
             /\ HashTokens(p, n) = h
             /\ usable[n] \in UsableBytes(n, Len(p), SizeOf[d])
             /\ index'.prefix_map[h] = [obj_id |-> HashBytesHex(d), usable_len_bytes |-> usable[n],
                                        version |-> index.version_clock + 1]
      BY <2>1, StoreFacts
    <3>2. /\ index'.prefix_map[h].version = last
          /\ index'.prefix_map[h].obj_id = HashBytesHex(d)
          /\ index'.prefix_map[h].usable_len_bytes = usable[n]
      BY <3>1, <1>1
    <3>3. \A j \in DOMAIN log' : ~(j > last)
      BY <1>1
    <3> QED BY <1>1, <3>1, <3>2, <3>3 DEF EntryFromLog
  <2>2. CASE h \notin BlockHashes(p)
    <3>1. h \in DOMAIN index.prefix_map /\ index'.prefix_map[h] = index.prefix_map[h]
      BY <1>3, <2>2
    <3>2. EntryFromLog(h)
      BY <3>1 DEF IndexReflectsLog
    <3>3. \A n \in BlockLens(Len(p)) : HashTokens(p, n) # h
      BY <2>2 DEF BlockHashes
    <3>4. index.prefix_map[h].version \in DOMAIN log
      BY <3>2 DEF EntryFromLog
    <3>5. \A j \in DOMAIN log' : j > index.prefix_map[h].version =>
             \A n \in BlockLens(Len(log'[j].tokens)) : HashTokens(log'[j].tokens, n) # h
      <4>1. ASSUME NEW j \in DOMAIN log', j > index.prefix_map[h].version,
                   NEW n \in BlockLens(Len(log'[j].tokens))
            PROVE  HashTokens(log'[j].tokens, n) # h
        <5>1. CASE j = last
          BY <1>1, <3>3, <4>1, <5>1
        <5>2. CASE j \in DOMAIN log
          <6>1. log'[j] = log[j]
            BY <1>1, <5>2
          <6> QED BY <3>2, <4>1, <5>2, <6>1 DEF EntryFromLog
        <5> QED BY <1>1, <5>1, <5>2
      <4> QED BY <4>1
    <3>6. /\ index.prefix_map[h].version \in DOMAIN log'
          /\ log'[index.prefix_map[h].version] = log[index.prefix_map[h].version]
      BY <1>1, <3>4
    <3> QED BY <3>1, <3>2, <3>5, <3>6 DEF EntryFromLog
  <2> QED BY <2>1, <2>2
<1>6. ASSUME NEW i \in DOMAIN log', NEW n \in BlockLens(Len(log'[i].tokens))
      PROVE  HashTokens(log'[i].tokens, n) \in DOMAIN index'.prefix_map
  <2>1. CASE i \in DOMAIN log
    <3>1. log'[i] = log[i]
      BY <1>1, <2>1
    <3>2. HashTokens(log[i].tokens, n) \in DOMAIN index.prefix_map
      BY <2>1, <3>1 DEF IndexReflectsLog
    <3> QED BY <1>3, <3>1, <3>2
  <2>2. CASE i = last
    <3>1. HashTokens(p, n) \in BlockHashes(p)
      BY <1>1, <2>2 DEF BlockHashes
    <3> QED BY <1>1, <1>3, <2>2, <3>1
  <2> QED BY <1>1, <2>1, <2>2
<1>7. \A i \in DOMAIN log' : HashBytesHex(log'[i].data) \in DOMAIN index'.obj_table
  BY <1>1, <1>4 DEF IndexReflectsLog
<1>8. ASSUME NEW o \in DOMAIN index'.obj_table
      PROVE  \E i \in DOMAIN log' :
                HashBytesHex(log'[i].data) = o /\ index'.obj_table[o] = SizeOf[log'[i].data]
  <2>1. CASE o = HashBytesHex(d)
    BY <1>1, <1>4, <2>1
  <2>2. CASE o # HashBytesHex(d)
    <3>1. o \in DOMAIN index.obj_table /\ index'.obj_table[o] = index.obj_table[o]
      BY <1>4, <2>2
    <3> QED BY <1>1, <3>1 DEF IndexReflectsLog
  <2> QED BY <2>1, <2>2
<1> QED BY <1>2, <1>5, <1>6, <1>7, <1>8 DEF IndexReflectsLog

(* The index is at all times the function of the Store calls that              *)
(* IndexReflectsLog spells out, even where token or payload hashes collide:    *)
(* the last call to reach a hash owns its entry whole.                         *)
THEOREM IndexIsLastWriterWins == Spec => []IndexReflectsLog
<1>1. Init => IndexReflectsLog
  BY DEF Init, EmptyIndex, IndexReflectsLog
<1>2. TypeOK /\ IndexReflectsLog /\ [Next]_vars => IndexReflectsLog'
  <2> SUFFICES ASSUME TypeOK, IndexReflectsLog, [Next]_vars PROVE IndexReflectsLog'
    OBVIOUS
  <2>1. CASE UNCHANGED vars
    BY <2>1 DEF vars, IndexReflectsLog, EntryFromLog
  <2>2. CASE Next
    <3>1. PICK p \in Prompts, d \in Payloads, skip_put \in BOOLEAN, put_ok \in BOOLEAN :
             Store(p, d, skip_put, put_ok)
      BY <2>2 DEF Next
    <3>2. CASE ~skip_put /\ ~put_ok
      BY <2>1, <3>1, <3>2 DEF Store
    <3>3. CASE skip_put \/ put_ok
      BY <3>1, <3>3, StoreEffectReflects DEF Store
    <3> QED BY <3>2, <3>3
  <2> QED BY <2>1, <2>2
<1> QED BY <1>1, <1>2, TypeCorrect, PTL DEF Spec

-----------------------------------------------------------------------------
(* The recorded Store calls are calls with a prompt and a payload. *)
LEMMA LogTypes ==
    ASSUME TypeOK
    PROVE  \A i \in DOMAIN log : log[i].tokens \in Prompts /\ log[i].data \in Payloads
<1> DEFINE Call == [tokens : Prompts, data : Payloads]
<1>1. log \in Seq(Call)
  BY DEF TypeOK
<1>2. \A i \in DOMAIN log : log[i] \in Call
  <2> HIDE DEF Call
  <2>1. DOMAIN log = 1..Len(log)
    BY <1>1
  <2> QED BY <1>1, <2>1
<1> QED BY <1>2

(* Without collisions, the boundaries Lookup passes are exactly those some     *)
(* Store covered: Store never leaves a gap for Lookup to stop at.              *)
LEMMA PassedIsCovered ==
    ASSUME TypeOK, IndexReflectsLog, NoTokenCollision,
           NEW p \in Prompts, NEW limit \in 0..Len(p)
    PROVE  Passed(index.prefix_map, p, limit)
              = {n \in BlockLens(limit) : \E i \in DOMAIN log : Covers(i, p, n)}
<1> DEFINE pm == index.prefix_map
<1>1. p \in Seq(Tokens) /\ Len(p) \in Nat /\ limit \in Nat
  BY PromptsAssumption
<1>2. \A i \in DOMAIN log : /\ log[i].tokens \in Prompts
                             /\ log[i].tokens \in Seq(Tokens)
                             /\ Len(log[i].tokens) \in Nat
  BY LogTypes, PromptsAssumption
<1>3. ASSUME NEW n \in BlockLens(limit), NEW i \in DOMAIN log, Covers(i, p, n)
      PROVE  n \in Passed(pm, p, limit)
  <2> SUFFICES ASSUME NEW m \in BlockLens(n) PROVE HashTokens(p, m) \in DOMAIN pm
    BY DEF Passed
  <2>1. /\ n \in 1..Len(log[i].tokens) /\ n \in 1..Len(p) /\ n \in Nat
        /\ m \in 1..n /\ m \in BlockLens(Len(log[i].tokens))
    BY <1>1, <1>2, <1>3 DEF BlockLens, Covers
  <2>2. SubSeq(log[i].tokens, 1, m) = SubSeq(p, 1, m)
    BY <1>1, <1>2, <1>3, <2>1, PrefixAgreement DEF Covers
  <2>3. HashTokens(log[i].tokens, m) \in DOMAIN pm
    BY <2>1 DEF IndexReflectsLog
  <2> QED BY <2>2, <2>3 DEF HashTokens
<1>4. ASSUME NEW n \in Passed(pm, p, limit)
      PROVE  \E i \in DOMAIN log : Covers(i, p, n)
  <2>1. n \in BlockLens(limit) /\ n \in BlockLens(n) /\ n \in 1..Len(p) /\ n \in Nat
    BY <1>1 DEF Passed, BlockLens
  <2>2. HashTokens(p, n) \in DOMAIN pm
    BY <2>1 DEF Passed
  <2>3. EntryFromLog(HashTokens(p, n))
    BY <2>2 DEF IndexReflectsLog
  <2>4. PICK i \in DOMAIN log : \E m \in BlockLens(Len(log[i].tokens)) :
           HashTokens(log[i].tokens, m) = HashTokens(p, n)
    BY <2>3 DEF EntryFromLog
  <2>5. PICK m \in BlockLens(Len(log[i].tokens)) :
           HashTokens(log[i].tokens, m) = HashTokens(p, n)
    BY <2>4
  <2>6. log[i].tokens \in Prompts /\ n \in BlockLens(Len(p))
    BY <1>1, <1>2, <2>1 DEF BlockLens
  <2>7. m = n /\ SubSeq(log[i].tokens, 1, m) = SubSeq(p, 1, m)
    <3>1. PICK q \in Prompts : q = log[i].tokens
      BY <2>6
    <3>2. /\ q \in Prompts /\ p \in Prompts /\ HashTokens(q, m) = HashTokens(p, n)
          /\ m \in BlockLens(Len(q)) /\ n \in BlockLens(Len(p))
      BY <2>5, <2>6, <3>1
    <3>3. m = n /\ FirstTokens(q, m) = FirstTokens(p, m)
      BY <3>2, SameHashSamePrefix
    <3> QED BY <3>1, <3>3 DEF FirstTokens
  <2> QED BY <2>7 DEF Covers
<1> QED BY <1>3, <1>4 DEF Passed

(* With collision-free token hashes, Lookup answers with the longest           *)
(* block-aligned prefix that any Store covered.                                *)
THEOREM LookupIsLongest ==
    ASSUME NoTokenCollision
    PROVE  Spec => []LookupFindsLongest
<1>1. TypeOK /\ IndexReflectsLog => LookupFindsLongest
  <2> SUFFICES ASSUME TypeOK, IndexReflectsLog, NEW p \in Prompts, NEW max_len \in 0..Len(p)
               PROVE  LET r == Lookup(index.prefix_map, p, max_len)
                          covered == {n \in BlockLens(MaxLen(p, max_len)) :
                                         \E i \in DOMAIN log : Covers(i, p, n)}
                      IN  /\ r.hit <=> covered # {}
                          /\ r.hit => /\ r.prefix_tokens \in covered
                                      /\ \A n \in covered : n <= r.prefix_tokens
    BY DEF LookupFindsLongest
  <2>1. max_len \in Int /\ MaxLen(p, max_len) \in 0..Len(p)
    BY LookupFacts, PromptFacts
  <2>2. Passed(index.prefix_map, p, MaxLen(p, max_len))
           = {n \in BlockLens(MaxLen(p, max_len)) : \E i \in DOMAIN log : Covers(i, p, n)}
    BY <2>1, PassedIsCovered
  <2> QED BY <2>1, <2>2, LookupFacts
<1> QED BY <1>1, TypeCorrect, IndexIsLastWriterWins, PTL

(* With collision-free token hashes, a hit names the object and a length of    *)
(* the last Store that covered the tokens it answers for.                      *)
THEOREM LookupIsLatest ==
    ASSUME NoTokenCollision
    PROVE  Spec => []LookupFindsLatest
<1>1. TypeOK /\ IndexReflectsLog => LookupFindsLatest
  <2> DEFINE r(p, max_len) == Lookup(index.prefix_map, p, max_len)
  <2> SUFFICES ASSUME TypeOK, IndexReflectsLog, NEW p \in Prompts, NEW max_len \in 0..Len(p),
                      r(p, max_len).hit
               PROVE  \E i \in DOMAIN log :
                 /\ Covers(i, p, r(p, max_len).prefix_tokens)
                 /\ r(p, max_len).obj_id = HashBytesHex(log[i].data)
                 /\ r(p, max_len).usable_len_bytes \in
                       UsableBytes(r(p, max_len).prefix_tokens, Len(log[i].tokens),
                                   SizeOf[log[i].data])
                 /\ \A j \in DOMAIN log : j > i => ~Covers(j, p, r(p, max_len).prefix_tokens)
    BY DEF LookupFindsLatest
  <2>1. PICK n : n = r(p, max_len).prefix_tokens
    OBVIOUS
  <2>2. max_len \in Int /\ p \in Seq(Tokens) /\ Len(p) \in Nat
    BY PromptFacts, PromptsAssumption
  <2>3. n \in Passed(index.prefix_map, p, MaxLen(p, max_len)) /\ MaxLen(p, max_len) \in 0..Len(p)
    BY <2>1, <2>2, LookupFacts
  <2>4. n \in 1..Len(p) /\ HashTokens(p, n) \in DOMAIN index.prefix_map
    BY <2>2, <2>3 DEF Passed, BlockLens
  <2>5. PICK e : e = index.prefix_map[HashTokens(p, n)]
    OBVIOUS
  <2>6. r(p, max_len).obj_id = e.obj_id /\ r(p, max_len).usable_len_bytes = e.usable_len_bytes
    BY <2>1, <2>2, <2>3, <2>5, LookupFacts, ZenonT(30)
  <2>7. EntryFromLog(HashTokens(p, n))
    BY <2>4 DEF IndexReflectsLog
  <2>8. PICK m \in BlockLens(Len(log[e.version].tokens)) :
           /\ HashTokens(log[e.version].tokens, m) = HashTokens(p, n)
           /\ e.usable_len_bytes \in
                 UsableBytes(m, Len(log[e.version].tokens), SizeOf[log[e.version].data])
    BY <2>5, <2>7 DEF EntryFromLog
  <2>9. e.version \in DOMAIN log /\ e.obj_id = HashBytesHex(log[e.version].data)
    BY <2>5, <2>7 DEF EntryFromLog
  <2>10. log[e.version].tokens \in Prompts /\ log[e.version].tokens \in Seq(Tokens)
    BY <2>9, LogTypes, PromptsAssumption
  <2>11. n \in BlockLens(Len(p))
    BY <2>2, <2>3 DEF Passed, BlockLens
  <2>12. m = n /\ SubSeq(log[e.version].tokens, 1, m) = SubSeq(p, 1, m)
    <3>1. PICK q \in Prompts : q = log[e.version].tokens
      BY <2>10
    <3>2. /\ q \in Prompts /\ p \in Prompts /\ HashTokens(q, m) = HashTokens(p, n)
          /\ m \in BlockLens(Len(q)) /\ n \in BlockLens(Len(p))
      BY <2>8, <2>11, <3>1
    <3>3. m = n /\ FirstTokens(q, m) = FirstTokens(p, m)
      BY <3>2, SameHashSamePrefix
    <3> QED BY <3>1, <3>3 DEF FirstTokens
  <2>13. Covers(e.version, p, n)
    BY <2>12 DEF Covers
  <2>14. ASSUME NEW j \in DOMAIN log, j > e.version PROVE ~Covers(j, p, n)
    <3>1. \A k \in BlockLens(Len(log[j].tokens)) : HashTokens(log[j].tokens, k) # HashTokens(p, n)
      BY <2>5, <2>7, <2>14 DEF EntryFromLog
    <3> QED BY <3>1 DEF Covers, HashTokens
  <2> QED BY <2>1, <2>6, <2>8, <2>9, <2>12, <2>13, <2>14
<1> QED BY <1>1, TypeCorrect, IndexIsLastWriterWins, PTL

(* With collision-free payload hashes and no int overflow, every entry's       *)
(* length fits the object it names, and is 0 only for an empty object.         *)
THEOREM EntriesAreBacked ==
    ASSUME NoContentCollision, NoOverflow
    PROVE  Spec => []EntriesBacked
<1>1. TypeOK /\ IndexReflectsLog => EntriesBacked
  <2> SUFFICES ASSUME TypeOK, IndexReflectsLog, NEW h \in DOMAIN index.prefix_map,
                      NEW e, e = index.prefix_map[h]
               PROVE  /\ e.obj_id \in DOMAIN index.obj_table
                      /\ e.usable_len_bytes \in 0..index.obj_table[e.obj_id]
                      /\ e.usable_len_bytes = 0 => index.obj_table[e.obj_id] = 0
    BY DEF EntriesBacked
  <2>1. EntryFromLog(h)
    BY DEF IndexReflectsLog
  <2>2. PICK v \in DOMAIN log : v = e.version
    BY <2>1 DEF EntryFromLog
  <2>3. e.obj_id = HashBytesHex(log[v].data)
    BY <2>1, <2>2 DEF EntryFromLog
  <2>4. PICK n \in BlockLens(Len(log[v].tokens)) :
           e.usable_len_bytes \in UsableBytes(n, Len(log[v].tokens), SizeOf[log[v].data])
    BY <2>1, <2>2 DEF EntryFromLog
  <2>5. log[v].tokens \in Prompts /\ log[v].data \in Payloads
    BY LogTypes
  <2>6. /\ Len(log[v].tokens) \in Nat /\ n \in 1..Len(log[v].tokens)
        /\ SizeOf[log[v].data] \in 0..IntMax
        /\ Len(log[v].tokens) * BytesPerToken <= IntMax
    BY <2>5, PromptFacts, SizeAssumption DEF NoOverflow
  <2>7. /\ e.usable_len_bytes \in 0..SizeOf[log[v].data]
        /\ e.usable_len_bytes = 0 => SizeOf[log[v].data] = 0
    BY <2>4, <2>6, UsableBytesBounds
  <2>8. e.obj_id \in DOMAIN index.obj_table
    BY <2>3 DEF IndexReflectsLog
  <2>9. PICK i \in DOMAIN log :
           HashBytesHex(log[i].data) = e.obj_id /\ index.obj_table[e.obj_id] = SizeOf[log[i].data]
    BY <2>8 DEF IndexReflectsLog
  <2>10. log[i].data = log[v].data
    BY <2>3, <2>5, <2>9, LogTypes DEF HashBytesHex, NoContentCollision
  <2> QED BY <2>7, <2>8, <2>9, <2>10
<1> QED BY <1>1, TypeCorrect, IndexIsLastWriterWins, PTL

(* No step makes any prompt hit a shorter prefix, whatever collides: entries   *)
(* are overwritten but never removed.                                          *)
THEOREM NothingIsEvicted == Spec => HitsNeverShrink
<1> DEFINE len(pm, p) == Lookup(pm, p, 0).prefix_tokens
<1>1. ASSUME NEW p \in Prompts,
             DOMAIN index.prefix_map \subseteq DOMAIN index'.prefix_map
      PROVE  len(index'.prefix_map, p) >= len(index.prefix_map, p)
  <2> DEFINE old == Passed(index.prefix_map, p, MaxLen(p, 0))
             new == Passed(index'.prefix_map, p, MaxLen(p, 0))
  <2>1. old \subseteq new
    BY <1>1 DEF Passed
  <2>2. PICK zero \in Int : zero = 0
    OBVIOUS
  <2>3. /\ len(index.prefix_map, p) \in Nat
        /\ old = {} => len(index.prefix_map, p) = 0
        /\ old # {} => len(index.prefix_map, p) \in old
    BY <2>2, LookupFacts
  <2>4. /\ len(index'.prefix_map, p) \in Nat
        /\ new # {} => \A n \in new : n <= len(index'.prefix_map, p)
    BY <2>2, LookupFacts
  <2> HIDE DEF old, new, len
  <2> QED BY <2>1, <2>3, <2>4
<1>2. [Next]_vars => (\A p \in Prompts : len(index'.prefix_map, p) >= len(index.prefix_map, p))
  <2> SUFFICES ASSUME [Next]_vars, NEW p \in Prompts
               PROVE  DOMAIN index.prefix_map \subseteq DOMAIN index'.prefix_map
    BY <1>1
  <2>1. CASE UNCHANGED vars
    BY <2>1 DEF vars
  <2>2. CASE Next
    <3>1. PICK q \in Prompts, d \in Payloads, skip_put \in BOOLEAN, put_ok \in BOOLEAN :
             Store(q, d, skip_put, put_ok)
      BY <2>2 DEF Next
    <3>2. CASE UNCHANGED vars
      BY <2>1, <3>2
    <3>3. CASE \E usable \in UsableLens(q, d) : index' = StoreEffect(index, q, d, usable)
      BY <3>3, StoreFacts
    <3> QED BY <3>1, <3>2, <3>3 DEF Store
  <2> QED BY <2>1, <2>2
<1>3. [Next]_vars => [\A p \in Prompts : Lookup(index'.prefix_map, p, 0).prefix_tokens
                         >= Lookup(index.prefix_map, p, 0).prefix_tokens]_vars
  BY <1>2
<1> QED BY <1>3, PTL DEF Spec, HitsNeverShrink
=============================================================================
