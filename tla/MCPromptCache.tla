---------------------------- MODULE MCPromptCache ----------------------------
(* Blocks of one token of two bytes, a prompt and its extension, and two       *)
(* payloads, one of them shorter than two tokens ask for.  Either two replicas *)
(* with one Store each, or one replica with two Stores of either prompt.       *)
EXTENDS PromptCache, TLC

CONSTANTS a, b, d1, d2, r1, r2

MCTokens == {a, b}
OnePrompt == {<<a, b>>}
TwoPrompts == {<<a>>, <<a, b>>}
MCPayloads == {d1, d2}
MCSizeOf == (d1 :> 3) @@ (d2 :> 5)
(* Collision-free hashes: every prefix and every payload is its own hash. *)
AllPrefixes == UNION {PrefixesOf(p) : p \in TwoPrompts}
MCTokenHash == [s \in AllPrefixes |-> s]
MCContentHash == [d \in MCPayloads |-> d]
OneReplica == {r1}
TwoReplicas == {r1, r2}

Symmetry == Permutations(TwoReplicas)
=============================================================================
