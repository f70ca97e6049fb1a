------------------------------ MODULE HttpServer ------------------------------
(***************************************************************************)
(* The gateway's sessions (http_server.cpp) on the io_context's threads,   *)
(* and the metrics they share (metrics.cpp).  A session is a chain of      *)
(* callbacks: on_read runs a request and starts the write, on_write counts *)
(* it and starts the next read.  A callback holds a thread; any number of  *)
(* sessions wait for the network in between, for as long as their clients  *)
(* like: the code sets no timeout.                                         *)
(*                                                                         *)
(* Every counter is an atomic of its own: an action changes or reads one.  *)
(* The increments are relaxed, and taken here in program order, which is   *)
(* what the locked instructions of the x86-64 build give.  The counts per  *)
(* method or operation are one sum; byte and microsecond sums are left     *)
(* out.                                                                    *)
(***************************************************************************)
EXTENDS Naturals, FiniteSets

CONSTANTS
    Sessions,
    Threads,            \* number of threads in ioc.run()
    Slots,              \* buckets_ms_ has this many limits
    Bodies,             \* sizes of the request bodies clients send
    max_body,           \* Session::max_body_
    max_object_bytes,   \* Api's limit for PUT; main.cpp makes the two equal
    MaxRequests,        \* bound on requests read
    MaxCalls            \* no RocksDB call begins once this many are counted

ASSUME SessionsAssumption == IsFiniteSet(Sessions)
ASSUME SlotsAssumption == Slots \in Nat \ {0}
ASSUME ThreadsAssumption == Threads \in Nat \ {0}
ASSUME BodiesAssumption == Bodies \subseteq Nat
ASSUME LimitsAssumption == max_body \in Nat /\ max_object_bytes = max_body
ASSUME MaxRequestsAssumption == MaxRequests \in Nat
ASSUME MaxCallsAssumption == MaxCalls \in Nat

Families == {"http", "rocksdb"}
OverLimit == Slots + 1      \* a latency above every limit: no bucket counts it

VARIABLES
    phase,      \* per session
    body,       \* per session: size of the request's body
    status,     \* per session: status of the response
    obs,        \* per session: the next atomic of Observe or ObserveRocksdb
    slot,       \* per session: the bucket of the latency being observed
    inflight,   \* inflight_
    ops,        \* [Families -> Nat]: req_counts_, rdb_counts_
    errs,       \* [Families -> Nat]: err_counts_, rdb_err_counts_
    latency_count,  \* [Families -> Nat]
    bucket_counts,  \* [Families -> [1 .. Slots -> Nat]]
    pos,        \* per session: RenderPrometheus' next load
    page,       \* per session: what it has loaded
    received    \* history: requests read

metrics == <<inflight, ops, errs, latency_count, bucket_counts>>
vars == <<phase, body, status, obs, slot, metrics, pos, page, received>>

EmptyPage == [inflight |-> 0, cumulative |-> [f \in Families |-> 0], count |-> [f \in Families |-> 0]]

Init ==
    /\ phase = [s \in Sessions |-> "closed"]
    /\ body = [s \in Sessions |-> 0]
    /\ status = [s \in Sessions |-> 0]
    /\ obs = [s \in Sessions |-> "done"]
    /\ slot = [s \in Sessions |-> 1]
    /\ inflight = 0
    /\ ops = [f \in Families |-> 0]
    /\ errs = [f \in Families |-> 0]
    /\ latency_count = [f \in Families |-> 0]
    /\ bucket_counts = [f \in Families |-> [i \in 1 .. Slots |-> 0]]
    /\ pos = [s \in Sessions |-> 0]
    /\ page = [s \in Sessions |-> EmptyPage]
    /\ received = 0

-----------------------------------------------------------------------------
InCallback(s) == phase[s] \in {"handling", "rendering", "written"}

ThreadFree == Cardinality({s \in Sessions : InCallback(s)}) < Threads

(* Which metrics a session in a callback observes. *)
Family(s) == IF phase[s] = "handling" THEN "rocksdb" ELSE "http"

Set(f, s, v) == [f EXCEPT ![s] = v]

(* on_accept: a new session, and its first do_read. *)
Accept(s) ==
    /\ phase[s] = "closed"
    /\ phase' = Set(phase, s, "reading")
    /\ UNCHANGED <<body, status, obs, slot, metrics, pos, page, received>>

(* on_read with an error: end of stream closes, anything else, a body over the *)
(* limit included, drops the connection without a response.                    *)
OnReadError(s) ==
    /\ phase[s] = "reading" /\ ThreadFree
    /\ phase' = Set(phase, s, "closed")
    /\ UNCHANGED <<body, status, obs, slot, metrics, pos, page, received>>

(* Faulty variants: no IncInFlight; no body limit. *)
OnRead_NoInc(s, size) ==
    /\ phase[s] = "reading" /\ ThreadFree
    /\ received < MaxRequests
    /\ size <= max_body
    /\ received' = received + 1
    /\ body' = Set(body, s, size)
    /\ phase' = Set(phase, s, "rendering")
    /\ pos' = Set(pos, s, 0)
    /\ UNCHANGED <<status, obs, slot, metrics, page>>

OnRead_NoLimit(s, size) ==
    /\ phase[s] = "reading" /\ ThreadFree
    /\ received < MaxRequests
    /\ inflight' = inflight + 1
    /\ received' = received + 1
    /\ body' = Set(body, s, size)
    /\ phase' = Set(phase, s, "handling")
    /\ UNCHANGED <<status, obs, slot, ops, errs, latency_count, bucket_counts, pos, page>>

(* on_read with a request: IncInFlight, then /metrics or Api::handle. *)
OnRead(s, size) ==
    /\ phase[s] = "reading" /\ ThreadFree
    /\ received < MaxRequests
    /\ size <= max_body
    /\ inflight' = inflight + 1
    /\ received' = received + 1
    /\ body' = Set(body, s, size)
    /\ \/ /\ phase' = Set(phase, s, "rendering")
          /\ pos' = Set(pos, s, 0)
       \/ /\ phase' = Set(phase, s, "handling")
          /\ UNCHANGED pos
    /\ UNCHANGED <<status, obs, slot, ops, errs, latency_count, bucket_counts, page>>

(* The handler makes its next RocksDB call, with some latency to observe.  A   *)
(* request that is refused (auth, size, method) makes none.                    *)
CallRocksdb(s) ==
    /\ phase[s] = "handling" /\ obs[s] = "done"
    /\ body[s] <= max_object_bytes
    /\ ops["rocksdb"] < MaxCalls
    /\ obs' = Set(obs, s, "ops")
    /\ \E i \in 1 .. OverLimit : slot' = Set(slot, s, i)
    /\ UNCHANGED <<phase, body, status, metrics, pos, page, received>>

(* Observe and ObserveRocksdb: the operation and its failure, the latency's    *)
(* count, the latency's bucket.                                                *)
ObserveOp(s) ==
    /\ obs[s] = "ops"
    /\ ops' = [ops EXCEPT ![Family(s)] = @ + 1]
    /\ obs' = Set(obs, s, "errs")
    /\ UNCHANGED <<phase, body, status, slot, inflight, errs, latency_count, bucket_counts, pos, page, received>>

ObserveErr(s) ==
    /\ obs[s] = "errs"
    /\ \E failed \in IF phase[s] = "handling" THEN BOOLEAN ELSE {status[s] >= 400} :
          errs' = IF failed THEN [errs EXCEPT ![Family(s)] = @ + 1] ELSE errs
    /\ obs' = Set(obs, s, "count")
    /\ UNCHANGED <<phase, body, status, slot, inflight, ops, latency_count, bucket_counts, pos, page, received>>

ObserveCount(s) ==
    /\ obs[s] = "count"
    /\ latency_count' = [latency_count EXCEPT ![Family(s)] = @ + 1]
    /\ obs' = Set(obs, s, "bucket")
    /\ UNCHANGED <<phase, body, status, slot, inflight, ops, errs, bucket_counts, pos, page, received>>

(* Faulty variant: the search for the bucket does not end at the last one. *)
ObserveBucket_NoEnd(s) ==
    /\ obs[s] = "bucket" /\ slot[s] # OverLimit
    /\ bucket_counts' = [bucket_counts EXCEPT ![Family(s)][slot[s]] = @ + 1]
    /\ obs' = Set(obs, s, "done")
    /\ UNCHANGED <<phase, body, status, slot, inflight, ops, errs, latency_count, pos, page, received>>

ObserveBucket(s) ==
    /\ obs[s] = "bucket"
    /\ bucket_counts' = IF slot[s] = OverLimit THEN bucket_counts
                        ELSE [bucket_counts EXCEPT ![Family(s)][slot[s]] = @ + 1]
    /\ obs' = Set(obs, s, "done")
    /\ slot' = Set(slot, s, 1)
    /\ UNCHANGED <<phase, body, status, inflight, ops, errs, latency_count, pos, page, received>>

(* Api::handle returns, and the write is started. *)
Respond(s) ==
    /\ phase[s] = "handling" /\ obs[s] = "done"
    /\ \E code \in IF body[s] > max_object_bytes THEN {413} ELSE {200, 404} :
          status' = Set(status, s, code)
    /\ phase' = Set(phase, s, "writing")
    /\ UNCHANGED <<body, obs, slot, metrics, pos, page, received>>

(* Faulty variant: the count is read before the buckets. *)
RenderLoad_CountFirst(s, f, p) ==
    page' = IF p > 1
            THEN [page EXCEPT ![s].cumulative[f] = @ + bucket_counts[f][p - 1]]
            ELSE [page EXCEPT ![s].count[f] = latency_count[f]]

(* RenderPrometheus: inflight_, then for each family its buckets in order and, *)
(* last, its latency_count_.  Load p of Slots + 1 per family.                  *)
RenderLoad(s, f, p) ==
    page' = IF p <= Slots
            THEN [page EXCEPT ![s].cumulative[f] = @ + bucket_counts[f][p]]
            ELSE [page EXCEPT ![s].count[f] = latency_count[f]]

Render(s) ==
    /\ phase[s] = "rendering" /\ pos[s] <= 2 * (Slots + 1)
    /\ \/ /\ pos[s] = 0
          /\ page' = [page EXCEPT ![s] = [EmptyPage EXCEPT !.inflight = inflight]]
       \/ pos[s] \in 1 .. Slots + 1 /\ RenderLoad(s, "http", pos[s])
       \/ pos[s] > Slots + 1 /\ RenderLoad(s, "rocksdb", pos[s] - (Slots + 1))
    /\ pos' = Set(pos, s, pos[s] + 1)
    /\ UNCHANGED <<phase, body, status, obs, slot, metrics, received>>

Rendered(s) ==
    /\ phase[s] = "rendering" /\ pos[s] = 2 * (Slots + 1) + 1
    /\ phase' = Set(phase, s, "writing")
    /\ status' = Set(status, s, 200)
    /\ UNCHANGED <<body, obs, slot, metrics, pos, page, received>>

(* Faulty variant: a failed write returns before the metrics. *)
OnWrite_ReturnOnError(s) ==
    /\ phase[s] = "writing" /\ ThreadFree
    /\ \/ /\ phase' = Set(phase, s, "written")
          /\ obs' = Set(obs, s, "ops")
          /\ \E i \in 1 .. OverLimit : slot' = Set(slot, s, i)
       \/ phase' = Set(phase, s, "closed") /\ UNCHANGED <<obs, slot>>
    /\ UNCHANGED <<body, status, metrics, pos, page, received>>

(* on_write, with or without an error: Observe, DecInFlight, and then the next *)
(* read, or the end of the session (an error, or a response that needs it).    *)
OnWrite(s) ==
    /\ phase[s] = "writing" /\ ThreadFree
    /\ phase' = Set(phase, s, "written")
    /\ obs' = Set(obs, s, "ops")
    /\ \E i \in 1 .. OverLimit : slot' = Set(slot, s, i)
    /\ UNCHANGED <<body, status, metrics, pos, page, received>>

(* What the session holds of the request is not used again. *)
Forget(s) ==
    /\ body' = Set(body, s, 0)
    /\ status' = Set(status, s, 0)
    /\ pos' = Set(pos, s, 0)
    /\ page' = Set(page, s, EmptyPage)

Leave(s) ==
    /\ phase[s] = "written" /\ obs[s] = "done"
    /\ inflight' = inflight - 1
    /\ \E next \in {"reading", "closed"} : phase' = Set(phase, s, next)
    /\ Forget(s)
    /\ UNCHANGED <<obs, slot, ops, errs, latency_count, bucket_counts, received>>

(* The steps of a thread that is inside one of the callbacks. *)
Callback(s) ==
    \/ ObserveOp(s) \/ ObserveErr(s) \/ ObserveCount(s) \/ ObserveBucket(s)
    \/ CallRocksdb(s) \/ Respond(s) \/ Render(s) \/ Rendered(s) \/ Leave(s)

Next ==
    \E s \in Sessions :
        \/ Accept(s) \/ OnReadError(s) \/ OnWrite(s) \/ Callback(s)
        \/ \E size \in Bodies : OnRead(s, size)

Spec == Init /\ [][Next]_vars

(* A thread inside a callback runs on. *)
FairSpec == Spec /\ \A s \in Sessions : WF_vars(Callback(s))
-----------------------------------------------------------------------------
Open(s) == phase[s] \in {"handling", "rendering", "writing", "written"}

(* Sessions, metrics and pages. *)
TypeOK ==
    /\ phase \in [Sessions -> {"closed", "reading", "handling", "rendering", "writing", "written"}]
    /\ body \in [Sessions -> Nat]
    /\ status \in [Sessions -> {0, 200, 404, 413}]
    /\ obs \in [Sessions -> {"done", "ops", "errs", "count", "bucket"}]
    /\ slot \in [Sessions -> 1 .. OverLimit]
    /\ inflight \in Nat
    /\ ops \in [Families -> Nat] /\ errs \in [Families -> Nat]
    /\ latency_count \in [Families -> Nat]
    /\ bucket_counts \in [Families -> [1 .. Slots -> Nat]]
    /\ pos \in [Sessions -> 0 .. 2 * (Slots + 1) + 1]
    /\ page \in [Sessions -> [inflight : Nat, cumulative : [Families -> Nat], count : [Families -> Nat]]]
    /\ received \in Nat

(* Every request read is counted once, however its write ends, and the gauge   *)
(* is the number of requests between on_read and the end of on_write: no path  *)
(* out of a session leaks an increment.                                        *)
RequestsAddUp ==
    /\ inflight = Cardinality({s \in Sessions : Open(s)})
    /\ received = ops["http"] + Cardinality({s \in Sessions :
                      Open(s) /\ (phase[s] = "written" => obs[s] = "ops")})

(* A scrape taken while other threads observe is a well-formed histogram: the  *)
(* cumulative bucket counts never exceed the +Inf count that follows.  Observe *)
(* counts before it picks a bucket; RenderPrometheus reads in the other order. *)
ScrapeWellFormed ==
    \A s \in Sessions : \A f \in Families :
        LET loads == IF f = "http" THEN Slots + 1 ELSE 2 * (Slots + 1)
        IN  pos[s] > loads => page[s].cumulative[f] <= page[s].count[f]

(* A scrape sees itself in flight, and never more requests than sessions.      *)
ScrapeSeesItself ==
    \A s \in Sessions : pos[s] > 0 => page[s].inflight \in 1 .. Cardinality(Sessions)

(* The size guard of Api::handle never answers: the parser's limit is the same *)
(* number, so an oversized PUT is dropped before it, without a response.       *)
EntityTooLargeNeverSent == \A s \in Sessions : status[s] # 413

(* A callback comes to its end and gives its thread back.                      *)
CallbacksReturn == \A s \in Sessions : InCallback(s) ~> ~InCallback(s)
==============================================================================
