----------------------------- MODULE MCPrefixMap -----------------------------
(* PrefixMap on four prompts over two tokens with blocks of two tokens: one    *)
(* prompt is a prefix of another, two diverge in their second block, one is    *)
(* shorter than a block and one has a tail that fills no block.                *)
EXTENDS PrefixMap, TLC

CONSTANTS a, b, empty, small, large

MCTokens == {a, b}
MCPrompts == {<<b>>, <<a, b>>, <<a, b, a>>, <<a, b, b, b>>, <<a, b, a, a>>}
MCPayloads == {empty, small, large}
MCSizeOf == (empty :> 0) @@ (small :> 1) @@ (large :> 8)
AllPrefixes == UNION {PrefixesOf(p) : p \in MCPrompts}
(* Collision-free hashes: every prefix and every payload is its own hash. *)
MCTokenHash == [s \in AllPrefixes |-> s]
MCContentHash == [d \in MCPayloads |-> d]
=============================================================================
