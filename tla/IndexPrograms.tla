--------------------------- MODULE IndexPrograms ---------------------------
(***************************************************************************)
(* The two programs built on the index layer: the command line             *)
(* (index_layer/src/main.cpp) and the stress tool                          *)
(* (index_layer/tools/stress_e2e.cpp), from the parsed options to the exit *)
(* code.  Both make a bucket if asked to, then Store, Lookup and Load;     *)
(* the stress tool does so from worker threads that share the index.       *)
(*                                                                         *)
(* The loops of Store and Lookup over block boundaries are one step per    *)
(* round, for every block size an option can give.  A request is one step  *)
(* with one of three outcomes: done, refused by status, or failed in       *)
(* transport, which frees the thread's curl handle.  Prompt i of the       *)
(* stress tool shares no prefix with the others ("tok<i>_<t>"), so its     *)
(* entries are kept apart by i.  The command line has the one prompt 0.    *)
(***************************************************************************)
EXTENDS Integers, FiniteSets, FiniteSetsExt

CONSTANTS
    Main, Workers,  \* threads
    Objects,        \* --objects
    PromptLen,      \* --prompt-len, or the number of --tokens
    ObjectBytes,    \* --object-bytes
    Options,        \* [block_size, max_len, create_bucket, skip_prefill]
    Programs,       \* subset of {"stress", "store", "lookup", "load", "stats"}
    MaxPicks        \* bound on the requests a worker makes before the deadline

ASSUME ObjectsAssumption == Objects \in Nat \ {0} /\ PromptLen \in Nat /\ ObjectBytes \in Nat
ASSUME ThreadsAssumption == IsFiniteSet(Workers) /\ Main \notin Workers
ASSUME ProgramsAssumption == Programs \subseteq {"stress", "store", "lookup", "load", "stats"}
ASSUME OptionsAssumption ==
    Options \subseteq [block_size : Int, max_len : Int, create_bucket : BOOLEAN,
                       skip_prefill : BOOLEAN]

Threads == {Main} \union Workers
Prompts == 0..(Objects - 1)

VARIABLES
    program, cfg,
    at,             \* per thread: where it is
    local,          \* per thread: [i, prefix_len, hit, ok, out]
    handle,         \* per thread: ThreadCurlHandle's curl
    entries,        \* per prompt: the prefix lengths indexed
    metrics,        \* requests, errors, bytes_read
    deadline,       \* duration_sec is over
    output,         \* what was printed, or nothing yet
    exit,           \* exit code, "running" or "crashed"
    taken,          \* history: prompts whose PUT the gateway acknowledged
    seen,           \* history, per worker: the requests it made and how they ended
    faults          \* history: some request failed

vars == <<program, cfg, at, local, handle, entries, metrics, deadline, output, exit, taken,
          seen, faults>>

NoCounts == [requests |-> 0, errors |-> 0, bytes_read |-> 0]
Nothing == [id |-> "nothing", counts |-> NoCounts]

Init ==
    /\ program \in Programs
    /\ cfg \in Options
    /\ at = [t \in Threads |-> IF t = Main THEN "create" ELSE "unborn"]
    /\ local = [t \in Threads |-> [i |-> 0, prefix_len |-> 0, hit |-> 0, ok |-> FALSE, out |-> 0]]
    /\ handle = [t \in Threads |-> "live"]
    /\ entries = [i \in Prompts |-> {}]
    /\ metrics = NoCounts
    /\ deadline = FALSE
    /\ output = Nothing
    /\ exit = "running"
    /\ taken = {}
    /\ seen = [w \in Workers |-> NoCounts]
    /\ faults = FALSE

-----------------------------------------------------------------------------
Running(t, place) == exit = "running" /\ at[t] = place

Goto(t, place) == at' = [at EXCEPT ![t] = place]

(* PerformRequest and the check of the status. *)
Request(t, ok) ==
    \/ ok /\ UNCHANGED <<handle, faults>>
    \/ ~ok /\ faults' = TRUE /\ UNCHANGED handle
    \/ ~ok /\ faults' = TRUE /\ handle' = [handle EXCEPT ![t] = "freed"]

(* tokens.size() < static_cast<size_t>(block_size_): a negative size is huge. *)
TooShort == cfg.block_size < 0 \/ PromptLen < cfg.block_size

(* Where the command goes once there is a PrefixMap. *)
Started == IF program = "stress" THEN "store" ELSE program

(* Faulty variant: a bucket that could not be made is no reason to stop. *)
CreateBucket_GoOn ==
    /\ Running(Main, "create")
    /\ \E ok \in BOOLEAN : Request(Main, ok)
    /\ Goto(Main, Started)
    /\ UNCHANGED <<program, cfg, local, entries, metrics, deadline, output, exit, taken, seen>>

CreateBucket ==
    /\ Running(Main, "create")
    /\ \/ /\ ~cfg.create_bucket
          /\ Goto(Main, Started)
          /\ UNCHANGED <<handle, faults, exit>>
       \/ /\ cfg.create_bucket
          /\ Request(Main, TRUE)
          /\ Goto(Main, Started)
          /\ UNCHANGED exit
       \/ /\ cfg.create_bucket
          /\ Request(Main, FALSE)
          /\ exit' = "1"
          /\ UNCHANGED at
    /\ UNCHANGED <<program, cfg, local, entries, metrics, deadline, output, taken, seen>>

(* The command line finds its arguments incomplete or a file unreadable. *)
BadArguments ==
    /\ program \in {"store", "lookup", "load"} /\ Running(Main, program)
    /\ exit' = "1"
    /\ UNCHANGED <<program, cfg, at, local, handle, entries, metrics, deadline, output, taken,
                   seen, faults>>

(* Store up to its loop. *)
Store ==
    LET i == local[Main].i
    IN  /\ Running(Main, "store")
        /\ \E ok \in BOOLEAN :
              /\ IF program = "stress" /\ cfg.skip_prefill
                 THEN ok /\ UNCHANGED <<handle, faults, taken>>
                 ELSE Request(Main, ok) /\ taken' = IF ok THEN taken \union {i} ELSE taken
              /\ local' = [local EXCEPT ![Main].ok = ok, ![Main].prefix_len = cfg.block_size]
              /\ Goto(Main, IF ok /\ ~TooShort THEN "index" ELSE "stored")
        /\ UNCHANGED <<program, cfg, entries, metrics, deadline, output, exit, seen>>

(* Faulty variant: the loop does not go on to the next block. *)
StoreLoop_NoStep ==
    LET n == local[Main].prefix_len
    IN  /\ Running(Main, "index")
        /\ IF n <= PromptLen
           THEN /\ entries' = [entries EXCEPT ![local[Main].i] = @ \union {n}]
                /\ UNCHANGED <<at, local>>
           ELSE /\ Goto(Main, "stored")
                /\ UNCHANGED <<entries, local>>
        /\ UNCHANGED <<program, cfg, handle, metrics, deadline, output, exit, taken, seen, faults>>

StoreLoop ==
    LET n == local[Main].prefix_len
    IN  /\ Running(Main, "index")
        /\ IF n <= PromptLen
           THEN /\ entries' = [entries EXCEPT ![local[Main].i] = @ \union {n}]
                /\ local' = [local EXCEPT ![Main].prefix_len = n + cfg.block_size]
                /\ UNCHANGED at
           ELSE /\ Goto(Main, "stored")
                /\ UNCHANGED <<entries, local>>
        /\ UNCHANGED <<program, cfg, handle, metrics, deadline, output, exit, taken, seen, faults>>

(* After the prefill of one object: the next, or the workers start. *)
Prefilled ==
    /\ program = "stress" /\ Running(Main, "stored")
    /\ IF local[Main].i + 1 < Objects
       THEN /\ local' = [local EXCEPT ![Main].i = @ + 1]
            /\ Goto(Main, "store")
       ELSE /\ at' = [t \in Threads |-> IF t = Main THEN "join" ELSE "pick"]
            /\ UNCHANGED local
    /\ UNCHANGED <<program, cfg, handle, entries, metrics, deadline, output, exit, taken, seen,
                   faults>>

(* The store command prints what Store returned: an empty id if it failed. *)
PrintId ==
    /\ program = "store" /\ Running(Main, "stored")
    /\ output' = [output EXCEPT !.id = IF local[Main].ok THEN "obj_id" ELSE ""]
    /\ exit' = "0"
    /\ UNCHANGED <<program, cfg, at, local, handle, entries, metrics, deadline, taken, seen, faults>>

-----------------------------------------------------------------------------
(* Lookup of the prompt of local[t].i, by a worker or by the lookup command. *)
BeginLookup(t) ==
    /\ Running(t, "lookup")
    /\ local' = [local EXCEPT ![t].prefix_len = cfg.block_size, ![t].hit = 0]
    /\ Goto(t, IF TooShort THEN "looked" ELSE "probe")
    /\ UNCHANGED <<program, cfg, handle, entries, metrics, deadline, output, exit, taken, seen,
                   faults>>

Limit == IF cfg.max_len <= 0 \/ cfg.max_len > PromptLen THEN PromptLen ELSE cfg.max_len

(* Faulty variant: the last block is left out. *)
Covered_Exclusive(t, n) == n < Limit /\ n \in entries[local[t].i]

(* The loop goes on past the block that ends at n. *)
Covered(t, n) == n <= Limit /\ n \in entries[local[t].i]

Probe(t) ==
    LET n == local[t].prefix_len
    IN  /\ Running(t, "probe")
        /\ IF Covered(t, n)
           THEN /\ local' = [local EXCEPT ![t].hit = n, ![t].prefix_len = n + cfg.block_size]
                /\ UNCHANGED at
           ELSE Goto(t, "looked") /\ UNCHANGED local
        /\ UNCHANGED <<program, cfg, handle, entries, metrics, deadline, output, exit, taken,
                       seen, faults>>

(* One more request with this outcome. *)
Plus(counts, ok, bytes) ==
    [requests |-> counts.requests + 1, errors |-> counts.errors + (IF ok THEN 0 ELSE 1),
     bytes_read |-> counts.bytes_read + bytes]

(* A miss is an error of the worker's request; a hit is loaded. *)
Looked(w) ==
    LET miss == local[w].hit = 0
    IN  /\ w \in Workers /\ Running(w, "looked")
        /\ local' = [local EXCEPT ![w].ok = FALSE, ![w].out = 0]
        /\ Goto(w, IF miss THEN "count" ELSE "load")
        /\ seen' = IF miss THEN [seen EXCEPT ![w] = Plus(@, FALSE, 0)] ELSE seen
        /\ UNCHANGED <<program, cfg, handle, entries, metrics, deadline, output, exit, taken,
                       faults>>

(* UsableBytes with the bytes_per_token main chooses. *)
Usable(prefix_len) ==
    LET bytes_per_token == IF PromptLen > 0 THEN Max({1, ObjectBytes \div PromptLen}) ELSE 0
    IN  Min({prefix_len * bytes_per_token, ObjectBytes})

Load(w) ==
    /\ w \in Workers /\ Running(w, "load")
    /\ \E ok \in BOOLEAN :
          LET out == IF ok THEN Usable(local[w].hit) ELSE 0
          IN  /\ Request(w, ok)
              /\ local' = [local EXCEPT ![w].ok = ok, ![w].out = out]
              /\ seen' = [seen EXCEPT ![w] = Plus(@, ok, out)]
    /\ Goto(w, "count")
    /\ UNCHANGED <<program, cfg, entries, metrics, deadline, output, exit, taken>>

(* The lookup, load and stats commands end; only a failed load is an error. *)
PrintLookup ==
    /\ \/ program = "lookup" /\ Running(Main, "looked")
       \/ program = "stats" /\ Running(Main, "stats")
    /\ exit' = "0"
    /\ UNCHANGED <<program, cfg, at, local, handle, entries, metrics, deadline, output, taken,
                   seen, faults>>

LoadCommand ==
    /\ Running(Main, "load")
    /\ \E ok, written \in BOOLEAN :
          /\ Request(Main, ok)
          /\ local' = [local EXCEPT ![Main].ok = ok]
          /\ exit' = IF ok /\ written THEN "0" ELSE "1"
    /\ UNCHANGED <<program, cfg, at, entries, metrics, deadline, output, taken, seen>>

-----------------------------------------------------------------------------
(* A worker of the stress tool: another request until the deadline. *)
Pick(w) ==
    /\ Running(w, "pick")
    /\ \/ /\ deadline
          /\ Goto(w, "done")
          /\ UNCHANGED local
       \/ /\ ~deadline /\ seen[w].requests < MaxPicks
          /\ \E i \in Prompts : local' = [local EXCEPT ![w].i = i]
          /\ Goto(w, "lookup")
    /\ UNCHANGED <<program, cfg, handle, entries, metrics, deadline, output, exit, taken, seen,
                   faults>>

(* The request is counted ... *)
CountRequest(w) ==
    /\ Running(w, "count")
    /\ metrics' = [metrics EXCEPT !.requests = @ + 1]
    /\ Goto(w, "outcome")
    /\ UNCHANGED <<program, cfg, local, handle, entries, deadline, output, exit, taken, seen,
                   faults>>

(* ... and then, by a second atomic, the error or the bytes. *)
CountOutcome(w) ==
    /\ Running(w, "outcome")
    /\ metrics' = IF local[w].ok THEN [metrics EXCEPT !.bytes_read = @ + local[w].out]
                                 ELSE [metrics EXCEPT !.errors = @ + 1]
    /\ Goto(w, "pick")
    /\ UNCHANGED <<program, cfg, local, handle, entries, deadline, output, exit, taken, seen,
                   faults>>

Deadline ==
    /\ Running(Main, "join") /\ ~deadline
    /\ deadline' = TRUE
    /\ UNCHANGED <<program, cfg, at, local, handle, entries, metrics, output, exit, taken, seen,
                   faults>>

(* Faulty variant: the totals are printed once the time is over. *)
Joined_AtDeadline == deadline

(* Every worker has been joined. *)
Joined == \A w \in Workers : at[w] = "done"

(* The report.  FetchGatewayMetrics, on a handle of its own, changes nothing. *)
Report ==
    /\ Running(Main, "join")
    /\ Joined
    /\ output' = [output EXCEPT !.counts = metrics]
    /\ exit' = "0"
    /\ UNCHANGED <<program, cfg, at, local, handle, entries, metrics, deadline, taken, seen, faults>>

(* A request on a freed handle: what it does is undefined, here it is fatal.   *)
(* The other actions have the case that it is not.                             *)
FreedHandle(t) ==
    /\ exit = "running" /\ handle[t] = "freed"
    /\ at[t] \in {"store", "load"}
    /\ exit' = "crashed"
    /\ UNCHANGED <<program, cfg, at, local, handle, entries, metrics, deadline, output, taken,
                   seen, faults>>

MainStep ==
    \/ CreateBucket \/ BadArguments \/ Store \/ StoreLoop \/ Prefilled \/ PrintId
    \/ PrintLookup \/ LoadCommand \/ Report

ThreadStep(t) ==
    \/ BeginLookup(t) \/ Probe(t) \/ Looked(t) \/ Load(t) \/ Pick(t) \/ CountRequest(t)
    \/ CountOutcome(t) \/ FreedHandle(t)

Next == MainStep \/ Deadline \/ \E t \in Threads : ThreadStep(t)

(* Threads run on, a request comes to an end by timeout_ms, and time passes. *)
Spec ==
    /\ Init /\ [][Next]_vars
    /\ WF_vars(MainStep) /\ WF_vars(Deadline) /\ \A t \in Threads : WF_vars(ThreadStep(t))

-----------------------------------------------------------------------------
Total(field) == MapThenSumSet(LAMBDA w : seen[w][field], Workers)

(* What the stress tool prints is what its workers met: every Lookup and Load  *)
(* is in the totals once, as an error or with its bytes, because main reads    *)
(* the three counters only after join, when no outcome is still uncounted.     *)
ReportAddsUp ==
    program = "stress" /\ exit = "0" =>
        output.counts = [f \in DOMAIN NoCounts |-> Total(f)]

(* If no request failed, the error count depends on the options alone: none if *)
(* a block fits in what a Lookup may look at, and otherwise all requests,      *)
(* since Store indexed nothing or Lookup sees too little to hit.               *)
ErrorsHaveACause ==
    program = "stress" /\ exit = "0" /\ ~faults =>
        output.counts.errors =
            IF cfg.block_size \in 1..Limit THEN 0 ELSE output.counts.requests

(* The command line tells its user what happened, by the id it prints or by    *)
(* its exit code (a failed store exits with 0 and an empty id), and gives up   *)
(* before it makes a request on a handle a failed request freed.               *)
CliTellsTheTruth ==
    /\ program = "store" /\ exit = "0" => (output.id # "" <=> 0 \in taken)
    /\ program = "load" /\ exit = "0" => local[Main].ok
    /\ program # "stress" => exit # "crashed"

(* Both programs come to an end, whatever requests fail, for every block size  *)
(* but 0: with 0 the loop of Store never passes the end of the prompt.         *)
ProgramsEnd ==
    (cfg.block_size # 0 \/ program \notin {"store", "stress"}) ~> exit # "running"
=============================================================================
