------------------------------ MODULE BlobStore ------------------------------
(***************************************************************************)
(* What the gateway's storage promises about objects, whatever the number  *)
(* of worker threads: an object is absent, or it is a payload together     *)
(* with that payload's size; it changes as a whole; and a crash takes all  *)
(* objects back to one earlier moment, the present one if writes survive.  *)
(***************************************************************************)
CONSTANTS
    Objects,        \* (bucket, key) pairs
    Payloads,
    SizeOf,         \* [Payloads -> bytes]
    WritesSurvive,  \* an applied write survives the crashes considered
    None

VARIABLES
    objects,        \* what reads see
    stable          \* what a crash leaves

vars == <<objects, stable>>

Absent == [data |-> None, size |-> None]
Blob(d) == [data |-> d, size |-> SizeOf[d]]

Init ==
    /\ objects = [o \in Objects |-> Absent]
    /\ stable = objects

Apply(new) ==
    /\ objects' = new
    /\ stable' = IF WritesSurvive THEN new ELSE stable

Put(o, d) == Apply([objects EXCEPT ![o] = Blob(d)])

Delete(o) == Apply([objects EXCEPT ![o] = Absent])

Persist ==
    /\ stable' = objects
    /\ UNCHANGED objects

Crash ==
    /\ objects' = stable
    /\ UNCHANGED stable

Next ==
    \/ \E o \in Objects, d \in Payloads : Put(o, d)
    \/ \E o \in Objects : Delete(o)
    \/ Persist
    \/ Crash

Spec == Init /\ [][Next]_vars
=============================================================================
