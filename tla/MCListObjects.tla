---------------------------- MODULE MCListObjects ----------------------------
(* ListRows on six keys, the middle four of which match the prefix, and pages  *)
(* of one or two keys; a negative max-keys and one above the cap are asked for *)
(* too.  The bucket is "a"; there are also buckets "A", "a!" and "ab".         *)
EXTENDS ListRows

MCMatching == 2 .. 5
MCAsked == {-1, 1, 3}

MCBucket == <<97>>
MCPrefix == <<112>>
MCNameOf == <<<<111, 255>>, <<112>>, <<112, 1>>, <<112, 47, 112>>, <<112, 255>>, <<113>>>>

MCOtherBuckets == {<<65>>, <<97, 33>>, <<97, 98>>}
MCOtherObjects == {<<b, <<112>>>> : b \in MCOtherBuckets}
=============================================================================
