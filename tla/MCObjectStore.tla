---------------------------- MODULE MCObjectStore ----------------------------
(* ObjectStore on two buckets, one key and two payloads of different sizes,    *)
(* one of them empty.                                                          *)
EXTENDS ObjectStore, TLC

CONSTANTS b1, b2, k1, d1, d2, t1, t2

MCBuckets == {b1, b2}
MCKeys == {k1}
MCPayloads == {d1, d2}
MCSizeOf == (d1 :> 0) @@ (d2 :> 3)
MCThreads == {t1, t2}

Symmetry == Permutations(MCBuckets) \union Permutations(MCThreads)
=============================================================================
