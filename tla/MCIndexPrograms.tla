--------------------------- MODULE MCIndexPrograms ---------------------------
(* IndexPrograms with two workers and two objects of two tokens, and block     *)
(* sizes on both sides of 0 and of the prompt's length.  create_bucket and     *)
(* skip_prefill act at different points, so each is tried without the other.   *)
EXTENDS IndexPrograms

MCOptions ==
    {o \in [block_size : {-1, 0, 1, 2, 3}, max_len : {0, 1}, create_bucket : BOOLEAN,
            skip_prefill : BOOLEAN] :
        o.create_bucket # o.skip_prefill}
=============================================================================
