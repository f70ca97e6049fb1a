----------------------------- MODULE PrefixIndex -----------------------------
(***************************************************************************)
(* The in-memory index of one index-layer process: class PrefixMap of      *)
(* index_layer/src/cache.{h,cc} as operators on a value                    *)
(*    [prefix_map, obj_table, version_clock]                               *)
(* so that PrefixMap.tla (one index) and PromptCache.tla (one index per    *)
(* replica, over the network) use the same definitions.                    *)
(*                                                                         *)
(* Abstractions.  A payload is a value with a size.  std::hash over the    *)
(* "\x1f"-joined tokens and std::hash over the payload are the constant    *)
(* functions TokenHash and ContentHash: nothing but the hashes is compared *)
(* by the code, so whether they collide is up to these constants.          *)
(* owner_id, priority and last_access are written and never read.          *)
(***************************************************************************)
EXTENDS Integers, Sequences, FiniteSetsExt

CONSTANTS
    Tokens,         \* token strings
    Prompts,        \* token sequences callers pass to Store and Lookup
    Payloads,       \* KV byte strings callers pass to Store
    SizeOf,         \* [Payloads -> bytes]
    Hashes,         \* values of HashTokens
    TokenHash,      \* prefix of a prompt -> Hashes
    ObjIds,         \* values of HashBytesHex
    ContentHash,    \* [Payloads -> ObjIds]
    BlockSize,      \* block_size_
    BytesPerToken,  \* bytes_per_token_; 0 asks for proportional lengths
    IntMax          \* largest int: 2^31 - 1 in the build

PrefixesOf(tokens) == {SubSeq(tokens, 1, n) : n \in 1..Len(tokens)}

ASSUME PromptsAssumption == Prompts \subseteq Seq(Tokens)
ASSUME IntAssumption == IntMax \in Nat \ {0}
ASSUME SizeAssumption == SizeOf \in [Payloads -> 0..IntMax]
ASSUME TokenHashAssumption == TokenHash \in [UNION {PrefixesOf(p) : p \in Prompts} -> Hashes]
ASSUME ContentHashAssumption == ContentHash \in [Payloads -> ObjIds]
ASSUME BlockSizeAssumption == BlockSize \in Nat \ {0}
ASSUME BytesPerTokenAssumption == BytesPerToken \in Nat

(* No two different prefixes, of whatever prompts and lengths, hash alike. *)
NoTokenCollision ==
    \A s, t \in DOMAIN TokenHash : TokenHash[s] = TokenHash[t] => s = t

(* No two different payloads hash alike. *)
NoContentCollision ==
    \A d, e \in Payloads : ContentHash[d] = ContentHash[e] => d = e

(* prefix_len * bytes_per_token_ never leaves int. *)
NoOverflow == \A p \in Prompts : Len(p) * BytesPerToken <= IntMax

-----------------------------------------------------------------------------
HashTokens(tokens, count) == TokenHash[SubSeq(tokens, 1, count)]

(* Faulty variant: the hash tells no payloads apart. *)
HashBytesHex_Constant(data) == CHOOSE o \in ObjIds : TRUE

HashBytesHex(data) == ContentHash[data]

(* A product that leaves int wraps, as the multiply instruction of the build does. *)
AsInt(n) == ((n + IntMax + 1) % (2 * (IntMax + 1))) - (IntMax + 1)

AtMost(n, limit) == IF n > limit THEN limit ELSE n
AtLeast(n, limit) == IF n < limit THEN limit ELSE n

(* static_cast<int>(frac * total_bytes) in doubles.  Both operations round, so   *)
(* a product that is a whole number may come out just below it: 29 of 100 tokens *)
(* of a 100-byte object give 28.  frac is exactly 1.0 for the whole prompt.      *)
FracBytes(prefix_len, total_tokens, total_bytes) ==
    LET exact == prefix_len * total_bytes
        whole == exact \div total_tokens
    IN  IF exact % total_tokens = 0 /\ prefix_len < total_tokens
        THEN {whole - 1, whole}
        ELSE {whole}

(* Faulty variant: the lower bound of one byte is forgotten. *)
UsableBytes_NoMinimum(prefix_len, total_tokens, total_bytes) ==
    IF BytesPerToken > 0
    THEN {AtMost(AsInt(prefix_len * BytesPerToken), total_bytes)}
    ELSE IF total_tokens = 0 \/ total_bytes = 0
         THEN {0}
         ELSE {AtMost(b, total_bytes) : b \in FracBytes(prefix_len, total_tokens, total_bytes)}

(* The lengths UsableBytes may return: one value, or the two that rounding allows. *)
UsableBytes(prefix_len, total_tokens, total_bytes) ==
    IF BytesPerToken > 0
    THEN {AtMost(AsInt(prefix_len * BytesPerToken), total_bytes)}
    ELSE IF total_tokens = 0 \/ total_bytes = 0
         THEN {0}
         ELSE {AtMost(AtLeast(b, 1), total_bytes) :
                 b \in FracBytes(prefix_len, total_tokens, total_bytes)}

(* The values prefix_len takes in the loops of Store and Lookup. *)
BlockLens(limit) == {n \in 1..limit : n % BlockSize = 0}

(* The hashes Store writes entries for. *)
BlockHashes(tokens) == {HashTokens(tokens, n) : n \in BlockLens(Len(tokens))}

-----------------------------------------------------------------------------
EmptyIndex ==
    [prefix_map |-> [h \in {} |-> 0], obj_table |-> [o \in {} |-> 0], version_clock |-> 0]

(* What UsableBytes may return for each block boundary of the prompt. *)
UsableLens(tokens, data) ==
    LET lens == BlockLens(Len(tokens))
        at(n) == UsableBytes(n, Len(tokens), SizeOf[data])
    IN  {usable \in [lens -> UNION {at(n) : n \in lens}] : \A n \in lens : usable[n] \in at(n)}

(* Faulty variants: an entry that is there is kept; the map is replaced; every *)
(* entry gets the length of the whole prompt.                                  *)
WithEntries_FirstWins(prefix_map, tokens, obj_id, version, usable) ==
    [h \in DOMAIN prefix_map \union BlockHashes(tokens) |->
        IF h \in DOMAIN prefix_map THEN prefix_map[h]
        ELSE [obj_id |-> obj_id, version |-> version,
              usable_len_bytes |->
                 usable[Max({n \in BlockLens(Len(tokens)) : HashTokens(tokens, n) = h})]]]

WithEntries_Replaced(prefix_map, tokens, obj_id, version, usable) ==
    [h \in BlockHashes(tokens) |->
        [obj_id |-> obj_id, version |-> version,
         usable_len_bytes |->
            usable[Max({n \in BlockLens(Len(tokens)) : HashTokens(tokens, n) = h})]]]

WithEntries_WholeLength(prefix_map, tokens, obj_id, version, usable) ==
    [h \in DOMAIN prefix_map \union BlockHashes(tokens) |->
        IF h \in BlockHashes(tokens)
        THEN [obj_id |-> obj_id, usable_len_bytes |-> usable[Max(BlockLens(Len(tokens)))],
              version |-> version]
        ELSE prefix_map[h]]

(* prefix_map_ after the loop of Store: a later boundary overwrites an earlier *)
(* one with the same hash, and every boundary overwrites the previous entry.   *)
WithEntries(prefix_map, tokens, obj_id, version, usable) ==
    LET hashed(h) == {n \in BlockLens(Len(tokens)) : HashTokens(tokens, n) = h}
    IN  [h \in DOMAIN prefix_map \union BlockHashes(tokens) |->
            IF h \in BlockHashes(tokens)
            THEN [obj_id |-> obj_id, usable_len_bytes |-> usable[Max(hashed(h))],
                  version |-> version]
            ELSE prefix_map[h]]

(* Faulty variant: the size recorded is one short. *)
StoreEffect_SizeMinusOne(index, tokens, data, usable) ==
    LET obj_id == HashBytesHex(data)
        version == index.version_clock + 1
    IN  [version_clock |-> version,
         obj_table |-> [o \in DOMAIN index.obj_table \union {obj_id} |->
                           IF o = obj_id THEN SizeOf[data] - 1 ELSE index.obj_table[o]],
         prefix_map |-> WithEntries(index.prefix_map, tokens, obj_id, version, usable)]

(* Everything Store does after storage_->Put has succeeded or was skipped. *)
StoreEffect(index, tokens, data, usable) ==
    LET obj_id == HashBytesHex(data)
        version == index.version_clock + 1
    IN  [version_clock |-> version,
         obj_table |-> [o \in DOMAIN index.obj_table \union {obj_id} |->
                           IF o = obj_id THEN SizeOf[data] ELSE index.obj_table[o]],
         prefix_map |-> WithEntries(index.prefix_map, tokens, obj_id, version, usable)]

-----------------------------------------------------------------------------
(* max_len_tokens as Lookup normalises it. *)
MaxLen(tokens, max_len_tokens) ==
    IF max_len_tokens <= 0 \/ max_len_tokens > Len(tokens)
    THEN Len(tokens) ELSE max_len_tokens

(* Faulty variant: the loop ends one block early. *)
Passed_OffByOne(prefix_map, tokens, limit) ==
    {n \in BlockLens(limit - 1) :
        \A m \in BlockLens(n) : HashTokens(tokens, m) \in DOMAIN prefix_map}

(* The boundaries the loop of Lookup passes before it breaks at the first one *)
(* whose hash is not in the map.                                              *)
Passed(prefix_map, tokens, limit) ==
    {n \in BlockLens(limit) :
        \A m \in BlockLens(n) : HashTokens(tokens, m) \in DOMAIN prefix_map}

Miss == [hit |-> FALSE, obj_id |-> "", usable_len_bytes |-> 0, prefix_tokens |-> 0]

(* Faulty variant: the entry of the first block is returned for the last. *)
Lookup_FirstEntry(prefix_map, tokens, max_len_tokens) ==
    LET passed == Passed(prefix_map, tokens, MaxLen(tokens, max_len_tokens))
    IN  IF passed = {}
        THEN Miss
        ELSE LET first_entry == prefix_map[HashTokens(tokens, BlockSize)]
             IN  [hit |-> TRUE, obj_id |-> first_entry.obj_id,
                  usable_len_bytes |-> first_entry.usable_len_bytes,
                  prefix_tokens |-> Max(passed)]

Lookup(prefix_map, tokens, max_len_tokens) ==
    LET passed == Passed(prefix_map, tokens, MaxLen(tokens, max_len_tokens))
    IN  IF passed = {}
        THEN Miss
        ELSE LET last_prefix == Max(passed)
                 last_entry == prefix_map[HashTokens(tokens, last_prefix)]
             IN  [hit |-> TRUE, obj_id |-> last_entry.obj_id,
                  usable_len_bytes |-> last_entry.usable_len_bytes,
                  prefix_tokens |-> last_prefix]
=============================================================================
