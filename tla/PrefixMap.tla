------------------------------ MODULE PrefixMap ------------------------------
(***************************************************************************)
(* One PrefixMap object driven by one caller, as the CLI and the prefill   *)
(* phase of stress_e2e drive it.  Lookup is const and is the operator of   *)
(* PrefixIndex; the properties ask about its answer in every state.        *)
(***************************************************************************)
EXTENDS PrefixIndex

CONSTANT MaxStores      \* bound on successful Store calls

ASSUME MaxStoresAssumption == MaxStores \in Nat

VARIABLES
    index,              \* prefix_map_, obj_table_, version_clock_
    log                 \* history: the Store calls that returned an obj_id, in order

vars == <<index, log>>

Init ==
    /\ index = EmptyIndex
    /\ log = <<>>

(* Store: with skip_put, or when storage_->Put succeeds, the index takes the   *)
(* payload in; when Put fails, "" is returned and nothing has changed.         *)
Store(tokens, data, skip_put, put_ok) ==
    \/ /\ skip_put \/ put_ok
       /\ index.version_clock < MaxStores
       /\ \E usable \in UsableLens(tokens, data) :
             index' = StoreEffect(index, tokens, data, usable)
       /\ log' = Append(log, [tokens |-> tokens, data |-> data])
    \/ /\ ~skip_put /\ ~put_ok
       /\ UNCHANGED vars

Next ==
    \E tokens \in Prompts, data \in Payloads, skip_put, put_ok \in BOOLEAN :
        Store(tokens, data, skip_put, put_ok)

Spec == Init /\ [][Next]_vars

-----------------------------------------------------------------------------
Entry == [obj_id : ObjIds, usable_len_bytes : Int, version : Nat]

(* The index holds entries, sizes and a clock of the declared types. *)
TypeOK ==
    /\ DOMAIN index.prefix_map \subseteq Hashes
    /\ \A h \in DOMAIN index.prefix_map : index.prefix_map[h] \in Entry
    /\ DOMAIN index.obj_table \subseteq ObjIds
    /\ \A o \in DOMAIN index.obj_table : index.obj_table[o] \in Nat
    /\ index.version_clock \in Nat
    /\ log \in Seq([tokens : Prompts, data : Payloads])

(* Store call i wrote an entry for the first n tokens of the given prompt. *)
Covers(i, tokens, n) ==
    /\ n \in BlockLens(Len(log[i].tokens))
    /\ SubSeq(log[i].tokens, 1, n) = SubSeq(tokens, 1, n)

(* Entry h is what Store call e.version wrote for one of its block boundaries, *)
(* and no later call wrote to h.                                               *)
EntryFromLog(h) ==
    LET e == index.prefix_map[h]
        call == log[e.version]
    IN  /\ e.version \in DOMAIN log
        /\ e.obj_id = HashBytesHex(call.data)
        /\ \E n \in BlockLens(Len(call.tokens)) :
              /\ HashTokens(call.tokens, n) = h
              /\ e.usable_len_bytes \in UsableBytes(n, Len(call.tokens), SizeOf[call.data])
        /\ \A j \in DOMAIN log : j > e.version =>
              \A n \in BlockLens(Len(log[j].tokens)) : HashTokens(log[j].tokens, n) # h

(* The index is a function of the successful Store calls, whatever the hashes  *)
(* collide on: each entry is the work of one call, the last to reach its hash; *)
(* each boundary of each call has an entry; obj_table_ lists the payloads      *)
(* stored; version_clock_ counts the calls.                                    *)
IndexReflectsLog ==
    /\ Len(log) = index.version_clock
    /\ \A h \in DOMAIN index.prefix_map : EntryFromLog(h)
    /\ \A i \in DOMAIN log : \A n \in BlockLens(Len(log[i].tokens)) :
          HashTokens(log[i].tokens, n) \in DOMAIN index.prefix_map
    /\ \A i \in DOMAIN log : HashBytesHex(log[i].data) \in DOMAIN index.obj_table
    /\ \A o \in DOMAIN index.obj_table : \E i \in DOMAIN log :
          HashBytesHex(log[i].data) = o /\ index.obj_table[o] = SizeOf[log[i].data]

(* Every entry can be served by the object it names: the object is in          *)
(* obj_table_, the usable length does not exceed its size, and it is 0 (which  *)
(* GetRange would turn into a read of the whole object) only when it is empty. *)
EntriesBacked ==
    \A h \in DOMAIN index.prefix_map :
        LET e == index.prefix_map[h]
        IN  /\ e.obj_id \in DOMAIN index.obj_table
            /\ e.usable_len_bytes \in 0..index.obj_table[e.obj_id]
            /\ e.usable_len_bytes = 0 => index.obj_table[e.obj_id] = 0

(* Lookup walks block by block and stops at the first hash it does not find;   *)
(* its answer is nevertheless the longest block-aligned prefix of the prompt,  *)
(* up to max_len_tokens, that some Store ever covered: no gap hides an entry.  *)
LookupFindsLongest ==
    \A p \in Prompts : \A max_len \in 0..Len(p) :
        LET r == Lookup(index.prefix_map, p, max_len)
            covered == {n \in BlockLens(MaxLen(p, max_len)) :
                           \E i \in DOMAIN log : Covers(i, p, n)}
        IN  /\ r.hit <=> covered # {}
            /\ r.hit => r.prefix_tokens \in covered /\ \A n \in covered : n <= r.prefix_tokens

(* A hit names the object, and a length computed for the prompt, of the LAST   *)
(* Store that covered those tokens: never another prompt's object and never a  *)
(* mix of one call's object with another call's length.                        *)
LookupFindsLatest ==
    \A p \in Prompts : \A max_len \in 0..Len(p) :
        LET r == Lookup(index.prefix_map, p, max_len)
        IN  r.hit =>
              \E i \in DOMAIN log :
                 /\ Covers(i, p, r.prefix_tokens)
                 /\ r.obj_id = HashBytesHex(log[i].data)
                 /\ r.usable_len_bytes \in
                       UsableBytes(r.prefix_tokens, Len(log[i].tokens), SizeOf[log[i].data])
                 /\ \A j \in DOMAIN log : j > i => ~Covers(j, p, r.prefix_tokens)

(* Nothing is ever evicted: a step never shortens what a prompt hits.          *)
HitsNeverShrink ==
    [][\A p \in Prompts :
          Lookup(index'.prefix_map, p, 0).prefix_tokens
             >= Lookup(index.prefix_map, p, 0).prefix_tokens]_vars

(* ARCHITECTURE.md: the adapter "GETs using a single Range:                    *)
(* bytes=0-(usable_len-1) header".  GetRange sends that header only for a      *)
(* positive length, so every entry for a payload with bytes in it has one.     *)
HitsAreRangeReads ==
    \A h \in DOMAIN index.prefix_map :
        LET e == index.prefix_map[h]
        IN  index.obj_table[e.obj_id] > 0 => e.usable_len_bytes > 0
=============================================================================
