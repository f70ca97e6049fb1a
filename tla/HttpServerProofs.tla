-------------------------- MODULE HttpServerProofs --------------------------
(***************************************************************************)
(* Proofs about HttpServer for any number of sessions and threads, any     *)
(* limits of the histogram and any bounds.                                 *)
(***************************************************************************)
EXTENDS HttpServer, FiniteSetTheorems, TLAPS

-----------------------------------------------------------------------------
(* What one session's variables say of each other: metrics are observed only   *)
(* by a handler or by on_write, a page is empty until its first load, and no   *)
(* body is above the parser's limit.                                           *)
SessionOK(s) ==
    /\ obs[s] # "done" => phase[s] \in {"handling", "written"}
    /\ phase[s] \in {"closed", "reading"} => pos[s] = 0
    /\ pos[s] = 0 => page[s] = EmptyPage
    /\ body[s] <= max_body
    /\ status[s] # 413

SessionsOK == \A s \in Sessions : SessionOK(s)

InFlight == {s \in Sessions : Open(s)}

(* The requests read whose on_write has not counted them yet. *)
Uncounted == {s \in Sessions : Open(s) /\ (phase[s] = "written" => obs[s] = "ops")}

(* The sessions that have counted a latency but not put it in its bucket. *)
Unplaced(f) == {s \in Sessions : obs[s] = "bucket" /\ Family(s) = f}

(* How many buckets of family f the page of s has loaded. *)
Loaded(s, f) ==
    LET p == IF f = "http" THEN pos[s] ELSE pos[s] - (Slots + 1)
    IN  IF p <= 0 THEN 0 ELSE IF p > Slots THEN Slots ELSE p - 1

(* sum[i] is the number of latencies in the first i buckets of family f. *)
IsPrefixSum(sum, f) ==
    /\ sum \in [0 .. Slots -> Nat]
    /\ sum[0] = 0
    /\ \A i \in 1 .. Slots : sum[i] = sum[i - 1] + bucket_counts[f][i]

(* Every latency in a bucket was counted before, and what a page has added up  *)
(* of the buckets it loaded one by one is no more than they hold by now.       *)
Histogram(f) ==
    \E sum \in [0 .. Slots -> Nat] :
        /\ IsPrefixSum(sum, f)
        /\ sum[Slots] + Cardinality(Unplaced(f)) <= latency_count[f]
        /\ \A s \in Sessions : page[s].cumulative[f] <= sum[Loaded(s, f)]

(* The inductive invariant. *)
ServerInv ==
    /\ TypeOK
    /\ SessionsOK
    /\ RequestsAddUp
    /\ \A f \in Families : Histogram(f)
    /\ ScrapeWellFormed
    /\ ScrapeSeesItself

-----------------------------------------------------------------------------
(* Sets of sessions can be counted. *)
LEMMA SomeSessions ==
    ASSUME NEW S \in SUBSET Sessions
    PROVE  /\ IsFiniteSet(S)
           /\ Cardinality(Sessions) \in Nat
           /\ Cardinality(S) \in 0 .. Cardinality(Sessions)
BY SessionsAssumption, FS_Subset, FS_CardinalityType

(* One session more in a set counts one more. *)
LEMMA OneMore ==
    ASSUME NEW S \in SUBSET Sessions, NEW s \in Sessions \ S
    PROVE  Cardinality(S \union {s}) = Cardinality(S) + 1
BY SomeSessions, FS_AddElement

(* One session less in a set counts one less. *)
LEMMA OneLess ==
    ASSUME NEW S \in SUBSET Sessions, NEW s \in S
    PROVE  Cardinality(S \ {s}) = Cardinality(S) - 1 /\ Cardinality(S) >= 1
<1>1. Cardinality(S \ {s}) = Cardinality(S) - 1
  BY SomeSessions, FS_RemoveElement
<1>2. Cardinality(S \ {s}) \in Nat /\ Cardinality(S) \in Nat
  BY SomeSessions
<1> QED BY <1>1, <1>2

(* What session s can do. *)
StepOf(s) ==
    \/ Accept(s) \/ OnReadError(s) \/ OnWrite(s) \/ Callback(s)
    \/ \E size \in Bodies : OnRead(s, size)

(* Of all sessions, a step of s changes the state of s alone. *)
LEMMA OthersWait ==
    ASSUME TypeOK, NEW s \in Sessions, StepOf(s)
    PROVE  \A t \in Sessions \ {s} :
              /\ phase'[t] = phase[t] /\ body'[t] = body[t] /\ status'[t] = status[t]
              /\ obs'[t] = obs[t] /\ slot'[t] = slot[t] /\ pos'[t] = pos[t] /\ page'[t] = page[t]
<1> USE DEF Set, TypeOK
<1>1. CASE Accept(s) \/ OnReadError(s) \/ OnWrite(s)
  BY <1>1 DEF Accept, OnReadError, OnWrite
<1>2. CASE \E size \in Bodies : OnRead(s, size)
  BY <1>2 DEF OnRead
<1>3. CASE ObserveOp(s) \/ ObserveErr(s) \/ ObserveCount(s) \/ ObserveBucket(s)
  BY <1>3 DEF ObserveOp, ObserveErr, ObserveCount, ObserveBucket
<1>4. CASE CallRocksdb(s) \/ Respond(s) \/ Rendered(s)
  BY <1>4 DEF CallRocksdb, Respond, Rendered
<1>5. CASE Render(s)
  BY <1>5 DEF Render, RenderLoad
<1>6. CASE Leave(s)
  BY <1>6 DEF Leave, Forget
<1> QED BY <1>1, <1>2, <1>3, <1>4, <1>5, <1>6 DEF Callback, StepOf

-----------------------------------------------------------------------------
(* fetch_add(1) on one counter of several. *)
LEMMA OneUp ==
    ASSUME NEW S, NEW counts \in [S -> Nat], NEW i \in S
    PROVE  [counts EXCEPT ![i] = @ + 1] \in [S -> Nat]
OBVIOUS

(* Types.  DecInFlight needs that the session itself is in the gauge. *)
LEMMA StepTypes ==
    ASSUME ServerInv, NEW s \in Sessions, StepOf(s)
    PROVE  TypeOK'
<1> DEFINE Phases == {"closed", "reading", "handling", "rendering", "writing", "written"}
           Codes == {0, 200, 404, 413}
           Places == {"done", "ops", "errs", "count", "bucket"}
           Ranges == 1 .. OverLimit
           Positions == 0 .. 2 * (Slots + 1) + 1
           Buckets == [1 .. Slots -> Nat]
           Pages == [inflight : Nat, cumulative : [Families -> Nat], count : [Families -> Nat]]
           SessionTypes ==
             /\ phase \in [Sessions -> Phases] /\ body \in [Sessions -> Nat]
             /\ status \in [Sessions -> Codes] /\ obs \in [Sessions -> Places]
             /\ slot \in [Sessions -> Ranges]
             /\ pos \in [Sessions -> Positions] /\ page \in [Sessions -> Pages]
           MetricTypes ==
             /\ inflight \in Nat /\ ops \in [Families -> Nat] /\ errs \in [Families -> Nat]
             /\ latency_count \in [Families -> Nat] /\ bucket_counts \in [Families -> Buckets]
             /\ received \in Nat
<1>0. SessionTypes /\ MetricTypes /\ Family(s) \in Families
  BY DEF ServerInv, TypeOK, Family, Families
<1>a. Pages = [inflight : Nat, cumulative : [Families -> Nat], count : [Families -> Nat]]
  OBVIOUS
<1>b. /\ {"closed", "reading", "handling", "rendering", "writing", "written"} \subseteq Phases
      /\ {0, 200, 404, 413} \subseteq Codes
      /\ {"done", "ops", "errs", "count", "bucket"} \subseteq Places
      /\ 1 \in Ranges /\ 0 \in Positions /\ EmptyPage \in Pages
  BY SlotsAssumption DEF OverLimit, EmptyPage
<1>c. SUFFICES SessionTypes' /\ MetricTypes'
  BY <1>c DEF TypeOK
<1> HIDE DEF Phases, Codes, Places, Ranges, Positions, Buckets, Pages
<1> USE DEF Set
<1>1. CASE Accept(s) \/ OnReadError(s)
  BY <1>0, <1>b, <1>1 DEF Accept, OnReadError, metrics
<1>3. ASSUME NEW size \in Bodies, OnRead(s, size) PROVE SessionTypes' /\ MetricTypes'
  BY <1>0, <1>b, <1>3, BodiesAssumption DEF OnRead
<1>4. CASE OnWrite(s)
  BY <1>0, <1>b, <1>4 DEF OnWrite, metrics, Ranges
<1>5. CASE CallRocksdb(s)
  BY <1>0, <1>b, <1>5 DEF CallRocksdb, metrics, Ranges
<1>6. CASE ObserveOp(s)
  BY <1>0, <1>b, <1>6 DEF ObserveOp
<1>7. CASE ObserveErr(s)
  BY <1>0, <1>b, <1>7 DEF ObserveErr
<1>8. CASE ObserveCount(s)
  BY <1>0, <1>b, <1>8 DEF ObserveCount
<1>9. CASE ObserveBucket(s)
  <2>1. bucket_counts' \in [Families -> Buckets]
    <3>1. CASE slot[s] = OverLimit
      BY <1>0, <1>9, <3>1 DEF ObserveBucket
    <3>2. CASE slot[s] # OverLimit
      <4>1. slot[s] \in 1 .. Slots
        BY <1>0, <3>2, SlotsAssumption DEF OverLimit, Ranges
      <4>2. bucket_counts' = [bucket_counts EXCEPT ![Family(s)][slot[s]] = @ + 1]
        BY <1>9, <3>2 DEF ObserveBucket
      <4>3. [bucket_counts[Family(s)] EXCEPT ![slot[s]] = @ + 1] \in Buckets
        <5>1. bucket_counts[Family(s)] \in Buckets
          BY <1>0
        <5> QED BY <4>1, <5>1, OneUp DEF Buckets
      <4> QED BY <1>0, <4>2, <4>3
    <3> QED BY <3>1, <3>2
  <2> QED BY <1>0, <1>b, <1>9, <2>1 DEF ObserveBucket
<1>10. CASE Respond(s)
  BY <1>0, <1>b, <1>10 DEF Respond, metrics
<1>11. CASE Render(s)
  <2>1. pos[s] + 1 \in Positions
    BY <1>0, <1>11, SlotsAssumption DEF Render, Positions
  <2>2. page' \in [Sessions -> Pages]
    <3>1. CASE page' = [page EXCEPT ![s] = [EmptyPage EXCEPT !.inflight = inflight]]
      <4>1. [EmptyPage EXCEPT !.inflight = inflight] \in Pages
        BY <1>0 DEF EmptyPage, Pages
      <4> QED BY <1>0, <3>1, <4>1
    <3>2. ASSUME NEW f \in Families, NEW p \in 1 .. (Slots + 1), RenderLoad(s, f, p)
          PROVE  page' \in [Sessions -> Pages]
      <4>1. p <= Slots => bucket_counts[f][p] \in Nat
        BY <1>0, SlotsAssumption DEF Buckets
      <4>2. page[s] \in Pages /\ latency_count[f] \in Nat
        BY <1>0
      <4>3. CASE p <= Slots
        <5>1. [page[s] EXCEPT !.cumulative[f] = @ + bucket_counts[f][p]] \in Pages
          BY <4>1, <4>2, <4>3 DEF Pages
        <5> QED BY <1>0, <3>2, <4>3, <5>1 DEF RenderLoad
      <4>4. CASE ~(p <= Slots)
        <5>1. [page[s] EXCEPT !.count[f] = latency_count[f]] \in Pages
          BY <4>2 DEF Pages
        <5> QED BY <1>0, <3>2, <4>4, <5>1 DEF RenderLoad
      <4> QED BY <4>3, <4>4
    <3>3. pos[s] > Slots + 1 /\ pos[s] <= 2 * (Slots + 1) => pos[s] - (Slots + 1) \in 1 .. (Slots + 1)
      BY <1>0, SlotsAssumption DEF Positions
    <3> QED BY <1>11, <3>1, <3>2, <3>3 DEF Render, Families
  <2> QED BY <1>0, <1>b, <1>11, <2>1, <2>2 DEF Render, metrics
<1>12. CASE Rendered(s)
  BY <1>0, <1>b, <1>12 DEF Rendered, metrics
<1>13. CASE Leave(s)
  <2>1. s \in InFlight
    BY <1>13 DEF Leave, InFlight, Open
  <2>2. inflight = Cardinality(InFlight) /\ InFlight \in SUBSET Sessions
    BY DEF ServerInv, RequestsAddUp, InFlight
  <2>3. inflight - 1 \in Nat
    <3>1. inflight >= 1 /\ inflight \in Nat
      BY <1>0, <2>1, <2>2, OneLess
    <3> QED BY <3>1
  <2> QED BY <1>0, <1>b, <1>13, <2>3 DEF Leave, Forget
<1> QED BY <1>1, <1>3, <1>4, <1>5, <1>6, <1>7, <1>8, <1>9, <1>10, <1>11, <1>12, <1>13
        DEF StepOf, Callback

(* What a session's variables say of each other stays so. *)
LEMMA StepSessions ==
    ASSUME ServerInv, NEW s \in Sessions, StepOf(s)
    PROVE  SessionsOK'
<1>0. TypeOK /\ SessionsOK /\ SessionOK(s)
  BY DEF ServerInv, SessionsOK
<1>1. SUFFICES SessionOK(s)'
  <2>1. ASSUME NEW t \in Sessions \ {s} PROVE SessionOK(t)'
    <3>1. /\ phase'[t] = phase[t] /\ body'[t] = body[t] /\ status'[t] = status[t]
          /\ obs'[t] = obs[t] /\ pos'[t] = pos[t] /\ page'[t] = page[t]
      BY <1>0, OthersWait
    <3> QED BY <1>0, <3>1 DEF SessionsOK, SessionOK
  <2> QED BY <1>1, <2>1 DEF SessionsOK
<1> USE <1>0 DEF Set, TypeOK, SessionOK
<1>2. CASE Accept(s) \/ OnReadError(s) \/ OnWrite(s)
  BY <1>2 DEF Accept, OnReadError, OnWrite
<1>3. ASSUME NEW size \in Bodies, OnRead(s, size) PROVE SessionOK(s)'
  BY <1>3 DEF OnRead
<1>4. CASE CallRocksdb(s) \/ ObserveOp(s) \/ ObserveErr(s) \/ ObserveCount(s) \/ ObserveBucket(s)
  BY <1>4 DEF CallRocksdb, ObserveOp, ObserveErr, ObserveCount, ObserveBucket
<1>5. CASE Respond(s)
  BY <1>5, LimitsAssumption DEF Respond
<1>6. CASE Render(s) \/ Rendered(s)
  BY <1>6 DEF Render, Rendered
<1>7. CASE Leave(s)
  BY <1>7, LimitsAssumption DEF Leave, Forget
<1> QED BY <1>2, <1>3, <1>4, <1>5, <1>6, <1>7 DEF StepOf, Callback

-----------------------------------------------------------------------------
(* Membership in Uncounted. *)
IsUncounted(s) == Open(s) /\ (phase[s] = "written" => obs[s] = "ops")

(* A step moves its session alone into or out of the two sets, by one at most. *)
LEMMA StepSets ==
    ASSUME TypeOK, NEW s \in Sessions, StepOf(s)
    PROVE  /\ InFlight' = IF Open(s)' THEN InFlight \union {s} ELSE InFlight \ {s}
           /\ Uncounted' = IF IsUncounted(s)' THEN Uncounted \union {s} ELSE Uncounted \ {s}
<1>1. \A t \in Sessions \ {s} : phase'[t] = phase[t] /\ obs'[t] = obs[t]
  BY OthersWait
<1>2. \A t \in Sessions \ {s} : (Open(t)' <=> Open(t)) /\ (IsUncounted(t)' <=> IsUncounted(t))
  BY <1>1 DEF Open, IsUncounted
<1>3. /\ InFlight = {t \in Sessions : Open(t)} /\ InFlight' = {t \in Sessions : Open(t)'}
      /\ Uncounted = {t \in Sessions : IsUncounted(t)}
      /\ Uncounted' = {t \in Sessions : IsUncounted(t)'}
  BY DEF InFlight, Uncounted, IsUncounted
<1> QED BY <1>2, <1>3

(* The gauge and the counts of requests. *)
LEMMA StepRequests ==
    ASSUME ServerInv, NEW s \in Sessions, StepOf(s)
    PROVE  RequestsAddUp'
<1>0. /\ TypeOK /\ SessionOK(s)
      /\ inflight = Cardinality(InFlight)
      /\ received = ops["http"] + Cardinality(Uncounted)
  BY DEF ServerInv, SessionsOK, RequestsAddUp, InFlight, Uncounted
<1>1. SUFFICES /\ inflight' = Cardinality(InFlight')
               /\ received' = ops'["http"] + Cardinality(Uncounted')
  BY <1>1 DEF RequestsAddUp, InFlight, Uncounted
<1>2. /\ InFlight \in SUBSET Sessions /\ (s \in InFlight <=> Open(s))
      /\ Uncounted \in SUBSET Sessions /\ (s \in Uncounted <=> IsUncounted(s))
  BY DEF InFlight, Uncounted, IsUncounted
<1>3. /\ InFlight' = IF Open(s)' THEN InFlight \union {s} ELSE InFlight \ {s}
      /\ Uncounted' = IF IsUncounted(s)' THEN Uncounted \union {s} ELSE Uncounted \ {s}
  BY <1>0, StepSets
<1>4. /\ Cardinality(InFlight) \in Nat /\ Cardinality(Uncounted) \in Nat
      /\ inflight \in Nat /\ received \in Nat /\ ops \in [Families -> Nat]
      /\ ops["http"] \in Nat
      /\ phase \in [Sessions -> {"closed", "reading", "handling", "rendering", "writing", "written"}]
      /\ obs \in [Sessions -> {"done", "ops", "errs", "count", "bucket"}]
  <2>1. Cardinality(InFlight) \in Nat /\ Cardinality(Uncounted) \in Nat
    BY <1>2, SomeSessions
  <2> QED BY <1>0, <2>1 DEF TypeOK, Families
<1>5. ASSUME Open(s)' <=> Open(s), IsUncounted(s)' <=> IsUncounted(s)
      PROVE  InFlight' = InFlight /\ Uncounted' = Uncounted
  BY <1>2, <1>3, <1>5
<1> DEFINE Quiet == /\ inflight' = inflight /\ received' = received /\ ops'["http"] = ops["http"]
                    /\ (Open(s)' <=> Open(s)) /\ (IsUncounted(s)' <=> IsUncounted(s))
<1>6. ASSUME Quiet PROVE /\ inflight' = Cardinality(InFlight')
                         /\ received' = ops'["http"] + Cardinality(Uncounted')
  BY <1>0, <1>5, <1>6
<1> USE DEF Set, Open, IsUncounted
<1>7. CASE Accept(s) \/ OnReadError(s) \/ OnWrite(s)
  <2>1. Quiet
    BY <1>4, <1>7 DEF Accept, OnReadError, OnWrite, metrics
  <2> QED BY <1>6, <2>1
<1>8. ASSUME NEW size \in Bodies, OnRead(s, size)
      PROVE  /\ inflight' = Cardinality(InFlight')
             /\ received' = ops'["http"] + Cardinality(Uncounted')
  <2>1. /\ ~Open(s) /\ ~IsUncounted(s) /\ Open(s)' /\ IsUncounted(s)'
        /\ inflight' = inflight + 1 /\ received' = received + 1 /\ ops' = ops
    BY <1>4, <1>8 DEF OnRead
  <2>2. Cardinality(InFlight') = Cardinality(InFlight) + 1
    BY <1>2, <1>3, <2>1, OneMore
  <2>3. Cardinality(Uncounted') = Cardinality(Uncounted) + 1
    BY <1>2, <1>3, <2>1, OneMore
  <2> QED BY <1>0, <1>4, <2>1, <2>2, <2>3
<1>9. CASE CallRocksdb(s) \/ Respond(s) \/ Render(s) \/ Rendered(s)
  <2>1. Quiet
    BY <1>4, <1>9 DEF CallRocksdb, Respond, Render, Rendered, metrics
  <2> QED BY <1>6, <2>1
<1>10. CASE ObserveErr(s) \/ ObserveCount(s) \/ ObserveBucket(s)
  <2>1. Quiet
    BY <1>4, <1>10 DEF ObserveErr, ObserveCount, ObserveBucket
  <2> QED BY <1>6, <2>1
<1>11. CASE ObserveOp(s)
  <2>1. phase[s] \in {"handling", "written"}
    BY <1>0, <1>11 DEF ObserveOp, SessionOK
  <2>2. CASE phase[s] = "handling"
    <3>1. Quiet
      BY <1>4, <1>11, <2>2 DEF ObserveOp, Family
    <3> QED BY <1>6, <3>1
  <2>3. CASE phase[s] = "written"
    <3>1. /\ IsUncounted(s) /\ ~IsUncounted(s)' /\ Open(s) /\ Open(s)'
          /\ inflight' = inflight /\ received' = received
      BY <1>4, <1>11, <2>3 DEF ObserveOp
    <3>2. ops'["http"] = ops["http"] + 1
      BY <1>4, <1>11, <2>3 DEF ObserveOp, Family, Families
    <3>3. Cardinality(Uncounted') = Cardinality(Uncounted) - 1
      BY <1>2, <1>3, <3>1, OneLess
    <3>4. InFlight' = InFlight
      BY <1>2, <1>3, <3>1
    <3> QED BY <1>0, <1>4, <3>1, <3>2, <3>3, <3>4
  <2> QED BY <2>1, <2>2, <2>3
<1>12. CASE Leave(s)
  <2>1. /\ Open(s) /\ ~Open(s)' /\ ~IsUncounted(s) /\ ~IsUncounted(s)'
        /\ inflight' = inflight - 1 /\ received' = received /\ ops' = ops
    BY <1>4, <1>12 DEF Leave
  <2>2. Cardinality(InFlight') = Cardinality(InFlight) - 1
    BY <1>2, <1>3, <2>1, OneLess
  <2>3. Uncounted' = Uncounted
    BY <1>2, <1>3, <2>1
  <2> QED BY <1>0, <1>4, <2>1, <2>2, <2>3
<1> QED BY <1>7, <1>8, <1>9, <1>10, <1>11, <1>12 DEF StepOf, Callback

-----------------------------------------------------------------------------
(* A page has loaded between no and all buckets. *)
LEMMA LoadedType ==
    ASSUME NEW s \in Sessions, NEW f \in Families, pos[s] \in Nat
    PROVE  Loaded(s, f) \in 0 .. Slots
BY SlotsAssumption DEF Loaded

(* One load of RenderPrometheus, seen from one family: it starts the page, it  *)
(* belongs to the other family, it adds the family's next bucket, or it reads  *)
(* the family's count when all buckets are in.                                 *)
LEMMA OneLoad ==
    ASSUME TypeOK, NEW s \in Sessions, Render(s), NEW f \in Families
    PROVE  \/ /\ page'[s].cumulative[f] = 0 /\ pos[s] = 0
              /\ Loaded(s, f)' = 0
           \/ /\ page'[s].cumulative[f] = page[s].cumulative[f]
              /\ page'[s].count[f] = page[s].count[f]
              /\ Loaded(s, f)' = Loaded(s, f)
              /\ pos[s] # (IF f = "http" THEN Slots + 1 ELSE 2 * (Slots + 1))
           \/ /\ Loaded(s, f) \in 0 .. Slots - 1
              /\ Loaded(s, f)' = Loaded(s, f) + 1
              /\ page'[s].cumulative[f] = page[s].cumulative[f] + bucket_counts[f][Loaded(s, f) + 1]
              /\ pos[s] < (IF f = "http" THEN Slots + 1 ELSE 2 * (Slots + 1))
           \/ /\ page'[s].cumulative[f] = page[s].cumulative[f]
              /\ page'[s].count[f] = latency_count[f]
              /\ Loaded(s, f) = Slots /\ Loaded(s, f)' = Slots
<1> USE SlotsAssumption
<1>1. /\ pos'[s] = pos[s] + 1 /\ pos[s] \in 0 .. 2 * (Slots + 1)
      /\ page \in [Sessions -> [inflight : Nat, cumulative : [Families -> Nat],
                               count : [Families -> Nat]]]
  <2>1. /\ pos \in [Sessions -> 0 .. 2 * (Slots + 1) + 1]
        /\ page \in [Sessions -> [inflight : Nat, cumulative : [Families -> Nat],
                                 count : [Families -> Nat]]]
    BY DEF TypeOK
  <2>2. pos' = [pos EXCEPT ![s] = pos[s] + 1] /\ pos[s] <= 2 * (Slots + 1)
    BY DEF Render, Set
  <2> QED BY <2>1, <2>2
<1>2. CASE pos[s] = 0
  <2>1. page'[s] = [EmptyPage EXCEPT !.inflight = inflight]
    BY <1>1, <1>2 DEF Render
  <2>2. page'[s].cumulative[f] = 0
    BY <2>1 DEF EmptyPage
  <2>3. Loaded(s, f)' = 0
    BY <1>1, <1>2 DEF Loaded, Families
  <2> QED BY <1>2, <2>2, <2>3
<1>3. ASSUME NEW g \in Families, NEW p \in 1 .. (Slots + 1), RenderLoad(s, g, p)
      PROVE  /\ g # f => /\ page'[s].cumulative[f] = page[s].cumulative[f]
                         /\ page'[s].count[f] = page[s].count[f]
             /\ g = f /\ p <= Slots =>
                   page'[s].cumulative[f] = page[s].cumulative[f] + bucket_counts[f][p]
             /\ g = f /\ p = Slots + 1 => /\ page'[s].cumulative[f] = page[s].cumulative[f]
                                          /\ page'[s].count[f] = latency_count[f]
  <2>1. /\ p <= Slots => page'[s] = [page[s] EXCEPT !.cumulative[g] = @ + bucket_counts[g][p]]
        /\ p = Slots + 1 => page'[s] = [page[s] EXCEPT !.count[g] = latency_count[g]]
    BY <1>1, <1>3 DEF RenderLoad
  <2>2. page[s] \in [inflight : Nat, cumulative : [Families -> Nat], count : [Families -> Nat]]
    BY <1>1
  <2>3. CASE p <= Slots
    BY <2>1, <2>2, <2>3
  <2>4. CASE p = Slots + 1
    <3>1. page'[s] = [page[s] EXCEPT !.count[g] = latency_count[g]]
      BY <2>1, <2>4
    <3>2. page'[s].cumulative[f] = page[s].cumulative[f]
      BY <2>2, <3>1
    <3>3. g # f => page'[s].count[f] = page[s].count[f]
      BY <2>2, <3>1
    <3>4. g = f => page'[s].count[f] = latency_count[f]
      BY <2>2, <3>1
    <3> QED BY <2>4, <3>2, <3>3, <3>4
  <2> QED BY <2>3, <2>4
<1>4. CASE pos[s] \in 1 .. (Slots + 1)
  <2>1. RenderLoad(s, "http", pos[s])
    BY <1>1, <1>4 DEF Render
  <2>2. CASE f = "http"
    <3>1. /\ Loaded(s, f) = pos[s] - 1
          /\ Loaded(s, f)' = IF pos[s] <= Slots THEN pos[s] ELSE Slots
      BY <1>1, <1>4, <2>2 DEF Loaded
    <3> QED BY <1>3, <1>4, <2>1, <2>2, <3>1
  <2>3. CASE f = "rocksdb"
    <3>1. Loaded(s, f) = 0 /\ Loaded(s, f)' = 0 /\ pos[s] # 2 * (Slots + 1)
      BY <1>1, <1>4, <2>3 DEF Loaded
    <3>2. "http" \in Families /\ "http" # f
      BY <2>3 DEF Families
    <3> QED BY <1>3, <1>4, <2>1, <2>3, <3>1, <3>2
  <2> QED BY <2>2, <2>3 DEF Families
<1>5. CASE pos[s] > Slots + 1
  <2>1. RenderLoad(s, "rocksdb", pos[s] - (Slots + 1)) /\ pos[s] - (Slots + 1) \in 1 .. (Slots + 1)
    BY <1>1, <1>5 DEF Render
  <2>2. CASE f = "rocksdb"
    <3>1. /\ Loaded(s, f) = pos[s] - (Slots + 1) - 1
          /\ Loaded(s, f)' = IF pos[s] - (Slots + 1) <= Slots THEN pos[s] - (Slots + 1) ELSE Slots
      <4>1. pos[s] \in Int /\ pos'[s] = pos[s] + 1 /\ pos[s] > Slots + 1
            /\ pos[s] <= 2 * (Slots + 1)
        BY <1>1, <1>5
      <4>2. Loaded(s, f) = pos[s] - (Slots + 1) - 1
        BY <2>2, <4>1 DEF Loaded
      <4>3. Loaded(s, f)' = IF pos[s] - (Slots + 1) <= Slots THEN pos[s] - (Slots + 1) ELSE Slots
        BY <2>2, <4>1 DEF Loaded
      <4> QED BY <4>2, <4>3
    <3> QED BY <1>1, <1>3, <1>5, <2>1, <2>2, <3>1
  <2>3. CASE f = "http"
    <3>1. Loaded(s, f) = Slots /\ Loaded(s, f)' = Slots /\ pos[s] # Slots + 1
      BY <1>1, <1>5, <2>3 DEF Loaded
    <3>2. "rocksdb" \in Families /\ "rocksdb" # f
      BY <2>3 DEF Families
    <3> QED BY <1>3, <2>1, <2>3, <3>1, <3>2
  <2> QED BY <2>2, <2>3 DEF Families
<1>6. pos[s] = 0 \/ pos[s] \in 1 .. (Slots + 1) \/ pos[s] > Slots + 1
  BY <1>1
<1> QED BY <1>2, <1>4, <1>5, <1>6

(* A step moves its session alone into or out of Unplaced. *)
LEMMA StepUnplaced ==
    ASSUME TypeOK, NEW s \in Sessions, StepOf(s), NEW f \in Families
    PROVE  /\ Unplaced(f) \in SUBSET Sessions /\ Unplaced(f)' \in SUBSET Sessions
           /\ Cardinality(Unplaced(f)) \in Nat /\ Cardinality(Unplaced(f)') \in Nat
           /\ s \in Unplaced(f) <=> obs[s] = "bucket" /\ Family(s) = f
           /\ Unplaced(f)' = IF obs'[s] = "bucket" /\ Family(s)' = f
                             THEN Unplaced(f) \union {s} ELSE Unplaced(f) \ {s}
<1>1. \A t \in Sessions \ {s} : phase'[t] = phase[t] /\ obs'[t] = obs[t]
  BY OthersWait
<1>2. \A t \in Sessions \ {s} : Family(t)' = Family(t)
  BY <1>1 DEF Family
<1>3. Unplaced(f) \in SUBSET Sessions /\ Unplaced(f)' \in SUBSET Sessions
  BY DEF Unplaced
<1>4. Cardinality(Unplaced(f)) \in Nat /\ Cardinality(Unplaced(f)') \in Nat
  BY <1>3, SomeSessions
<1> QED BY <1>1, <1>2, <1>3, <1>4 DEF Unplaced

(* What a page has added up stays below what the buckets hold, which only      *)
(* grows.                                                                      *)
LEMMA StepCumulative ==
    ASSUME ServerInv, NEW s \in Sessions, StepOf(s), NEW f \in Families, NEW sum,
           IsPrefixSum(sum, f), \A t \in Sessions : page[t].cumulative[f] <= sum[Loaded(t, f)]
    PROVE  \A t \in Sessions : page'[t].cumulative[f] <= sum[Loaded(t, f)']
<1>0. TypeOK /\ SessionOK(s)
  BY DEF ServerInv, SessionsOK
<1>1. /\ sum \in [0 .. Slots -> Nat] /\ sum[0] = 0
      /\ \A i \in 1 .. Slots : sum[i] = sum[i - 1] + bucket_counts[f][i]
  BY DEF IsPrefixSum
<1>2. ASSUME NEW t \in Sessions, page'[t] = page[t], pos'[t] = pos[t]
      PROVE  page'[t].cumulative[f] <= sum[Loaded(t, f)']
  <2>1. Loaded(t, f)' = Loaded(t, f)
    BY <1>2 DEF Loaded
  <2> QED BY <1>2, <2>1
<1>3. \A t \in Sessions \ {s} : page'[t] = page[t] /\ pos'[t] = pos[t]
  BY <1>0, OthersWait
<1>4. SUFFICES page'[s].cumulative[f] <= sum[Loaded(s, f)']
  BY <1>2, <1>3, <1>4
<1>5. CASE \/ Accept(s) \/ OnReadError(s) \/ OnWrite(s) \/ CallRocksdb(s) \/ Respond(s) \/ Rendered(s)
           \/ ObserveOp(s) \/ ObserveErr(s) \/ ObserveCount(s) \/ ObserveBucket(s)
  <2>1. page'[s] = page[s] /\ pos'[s] = pos[s]
    BY <1>5 DEF Accept, OnReadError, OnWrite, CallRocksdb, Respond, Rendered,
                ObserveOp, ObserveErr, ObserveCount, ObserveBucket
  <2> QED BY <1>2, <2>1
<1>6. ASSUME NEW size \in Bodies, OnRead(s, size) PROVE page'[s].cumulative[f] <= sum[Loaded(s, f)']
  <2>1. pos[s] = 0 /\ page' = page
    BY <1>0, <1>6 DEF OnRead, SessionOK
  <2>2. pos'[s] = 0
    BY <1>0, <1>6, <2>1 DEF OnRead, Set, TypeOK
  <2> QED BY <1>2, <2>1, <2>2
<1>7. CASE Render(s)
  <2>1. page[s].cumulative[f] \in Nat /\ page[s].cumulative[f] <= sum[Loaded(s, f)]
    BY <1>0 DEF TypeOK
  <2>2. pos[s] \in Nat
    BY <1>0, SlotsAssumption DEF TypeOK
  <2>3. Loaded(s, f) \in 0 .. Slots
    BY <2>2, LoadedType
  <2>4. bucket_counts[f] \in [1 .. Slots -> Nat]
    BY <1>0 DEF TypeOK
  <2>5. CASE Loaded(s, f) \in 0 .. Slots - 1 /\ Loaded(s, f)' = Loaded(s, f) + 1
             /\ page'[s].cumulative[f] = page[s].cumulative[f] + bucket_counts[f][Loaded(s, f) + 1]
    <3> DEFINE n == Loaded(s, f)
    <3>1. sum[n + 1] = sum[n] + bucket_counts[f][n + 1] /\ sum[n] \in Nat
          /\ bucket_counts[f][n + 1] \in Nat
      <4>1. n \in 0 .. Slots /\ n + 1 \in 1 .. Slots /\ (n + 1) - 1 = n
        BY <2>5, SlotsAssumption
      <4> HIDE DEF n
      <4> QED BY <1>1, <2>4, <4>1
    <3> HIDE DEF n
    <3>2. page[s].cumulative[f] + bucket_counts[f][n + 1] <= sum[n + 1]
      BY <2>1, <3>1 DEF n
    <3> QED BY <2>5, <3>2 DEF n
  <2>6. \/ page'[s].cumulative[f] = 0 /\ Loaded(s, f)' = 0
        \/ page'[s].cumulative[f] = page[s].cumulative[f] /\ Loaded(s, f)' = Loaded(s, f)
        \/ /\ Loaded(s, f) \in 0 .. Slots - 1 /\ Loaded(s, f)' = Loaded(s, f) + 1
           /\ page'[s].cumulative[f] = page[s].cumulative[f] + bucket_counts[f][Loaded(s, f) + 1]
    BY <1>0, <1>7, OneLoad
  <2>7. sum[0] = 0
    BY <1>1
  <2> QED BY <2>1, <2>5, <2>6, <2>7
<1>8. CASE Leave(s)
  <2>1. page'[s] = EmptyPage /\ pos'[s] = 0
    BY <1>0, <1>8 DEF Leave, Forget, Set, TypeOK
  <2>2. Loaded(s, f)' = 0 /\ page'[s].cumulative[f] = 0
    BY <2>1, SlotsAssumption DEF Loaded, EmptyPage
  <2> QED BY <1>1, <2>2
<1> QED BY <1>5, <1>6, <1>7, <1>8 DEF StepOf, Callback

(* Counting before placing: a latency is in its bucket only after it is in     *)
(* latency_count.                                                              *)
LEMMA StepHistogram ==
    ASSUME ServerInv, NEW s \in Sessions, StepOf(s), NEW f \in Families
    PROVE  Histogram(f)'
<1>0. TypeOK /\ SessionOK(s) /\ Histogram(f)
  BY DEF ServerInv, SessionsOK
<1>1. PICK sum \in [0 .. Slots -> Nat] :
         /\ IsPrefixSum(sum, f)
         /\ sum[Slots] + Cardinality(Unplaced(f)) <= latency_count[f]
         /\ \A t \in Sessions : page[t].cumulative[f] <= sum[Loaded(t, f)]
  BY <1>0 DEF Histogram
<1>2. \A t \in Sessions : page'[t].cumulative[f] <= sum[Loaded(t, f)']
  BY <1>1, StepCumulative
<1>3. /\ Unplaced(f) \in SUBSET Sessions /\ Unplaced(f)' \in SUBSET Sessions
      /\ Cardinality(Unplaced(f)) \in Nat /\ Cardinality(Unplaced(f)') \in Nat
      /\ s \in Unplaced(f) <=> obs[s] = "bucket" /\ Family(s) = f
      /\ Unplaced(f)' = IF obs'[s] = "bucket" /\ Family(s)' = f
                        THEN Unplaced(f) \union {s} ELSE Unplaced(f) \ {s}
  BY <1>0, StepUnplaced
<1>4. /\ sum[Slots] \in Nat /\ latency_count[f] \in Nat /\ Family(s) \in Families
      /\ latency_count \in [Families -> Nat]
      /\ phase \in [Sessions -> {"closed", "reading", "handling", "rendering", "writing", "written"}]
      /\ obs \in [Sessions -> {"done", "ops", "errs", "count", "bucket"}]
  <2>1. Slots \in 0 .. Slots
    BY SlotsAssumption
  <2>2. Family(s) \in Families
    BY DEF Family, Families
  <2> QED BY <1>0, <1>1, <2>1, <2>2 DEF TypeOK
<1>5. ASSUME bucket_counts' = bucket_counts,
             sum[Slots] + Cardinality(Unplaced(f)') <= latency_count'[f]
      PROVE  Histogram(f)'
  <2>1. IsPrefixSum(sum, f)'
    BY <1>1, <1>5 DEF IsPrefixSum
  <2> QED BY <1>1, <1>2, <1>5, <2>1 DEF Histogram
<1>6. ASSUME bucket_counts' = bucket_counts, latency_count' = latency_count,
             obs'[s] = "bucket" => obs[s] = "bucket" /\ phase'[s] = phase[s]
      PROVE  Histogram(f)'
  <2>1. Family(s)' = Family(s) \/ obs'[s] # "bucket"
    BY <1>6 DEF Family
  <2>2. Unplaced(f)' = Unplaced(f) \/ (s \in Unplaced(f) /\ Unplaced(f)' = Unplaced(f) \ {s})
    BY <1>3, <1>6, <2>1
  <2>3. Cardinality(Unplaced(f)') <= Cardinality(Unplaced(f))
    <3>1. CASE s \in Unplaced(f) /\ Unplaced(f)' = Unplaced(f) \ {s}
      <4>1. Cardinality(Unplaced(f)') = Cardinality(Unplaced(f)) - 1
        BY <1>3, <3>1, OneLess
      <4> QED BY <1>3, <4>1
    <3>2. CASE Unplaced(f)' = Unplaced(f)
      <4>1. Cardinality(Unplaced(f)') = Cardinality(Unplaced(f))
        BY <3>2
      <4> QED BY <1>3, <4>1
    <3> QED BY <2>2, <3>1, <3>2
  <2>4. sum[Slots] + Cardinality(Unplaced(f)') <= latency_count'[f]
    BY <1>1, <1>3, <1>4, <1>6, <2>3
  <2> QED BY <1>5, <1>6, <2>4
<1> USE DEF Set
<1>7. CASE Accept(s) \/ OnReadError(s) \/ OnWrite(s) \/ CallRocksdb(s) \/ Respond(s)
  <2>1. SessionOK(s)
    BY <1>0
  <2> QED BY <1>4, <1>6, <1>7, <2>1
          DEF Accept, OnReadError, OnWrite, CallRocksdb, Respond, metrics, SessionOK
<1>8. ASSUME NEW size \in Bodies, OnRead(s, size) PROVE Histogram(f)'
  BY <1>0, <1>4, <1>6, <1>8 DEF OnRead, SessionOK
<1>9. CASE Render(s) \/ Rendered(s) \/ Leave(s) \/ ObserveOp(s) \/ ObserveErr(s)
  BY <1>0, <1>4, <1>6, <1>9 DEF Render, Rendered, Leave, ObserveOp, ObserveErr, metrics, SessionOK
<1>10. CASE ObserveCount(s)
  <2>1. /\ bucket_counts' = bucket_counts /\ Family(s)' = Family(s)
        /\ obs[s] = "count" /\ obs'[s] = "bucket"
        /\ latency_count' = [latency_count EXCEPT ![Family(s)] = @ + 1]
    BY <1>4, <1>10 DEF ObserveCount, Family
  <2>2. CASE Family(s) = f
    <3>1. Cardinality(Unplaced(f)') = Cardinality(Unplaced(f)) + 1
      BY <1>3, <2>1, <2>2, OneMore
    <3>2. latency_count'[f] = latency_count[f] + 1
      BY <1>4, <2>1, <2>2
    <3>3. sum[Slots] + Cardinality(Unplaced(f)') <= latency_count'[f]
      BY <1>1, <1>3, <1>4, <3>1, <3>2
    <3> QED BY <1>5, <2>1, <3>3
  <2>3. CASE Family(s) # f
    <3>1. Unplaced(f)' = Unplaced(f) /\ latency_count'[f] = latency_count[f]
      BY <1>3, <1>4, <2>1, <2>3
    <3> QED BY <1>1, <1>5, <2>1, <3>1
  <2> QED BY <2>2, <2>3
<1>11. CASE ObserveBucket(s)
  <2>1. obs[s] = "bucket" /\ obs'[s] = "done" /\ latency_count' = latency_count
    BY <1>4, <1>11 DEF ObserveBucket
  <2>2. CASE slot[s] = OverLimit
    BY <1>6, <1>11, <2>1, <2>2 DEF ObserveBucket
  <2>3. CASE slot[s] # OverLimit
    <3>1. /\ slot[s] \in 1 .. Slots
          /\ bucket_counts \in [Families -> [1 .. Slots -> Nat]]
          /\ bucket_counts' = [bucket_counts EXCEPT ![Family(s)][slot[s]] = @ + 1]
      <4>1. slot[s] \in 1 .. Slots + 1 /\ slot[s] # Slots + 1
        BY <1>0, <2>3 DEF TypeOK, OverLimit
      <4>2. slot[s] \in 1 .. Slots
        BY <4>1, SlotsAssumption
      <4>3. bucket_counts \in [Families -> [1 .. Slots -> Nat]]
        BY <1>0 DEF TypeOK
      <4> QED BY <1>11, <2>3, <4>2, <4>3 DEF ObserveBucket
    <3>2. CASE Family(s) # f
      <4>1. Unplaced(f)' = Unplaced(f) /\ bucket_counts'[f] = bucket_counts[f]
        BY <1>3, <1>4, <2>1, <3>1, <3>2
      <4>2. IsPrefixSum(sum, f)'
        BY <1>1, <4>1 DEF IsPrefixSum
      <4> QED BY <1>1, <1>2, <2>1, <4>1, <4>2 DEF Histogram
    <3>3. CASE Family(s) = f
      <4>0. PICK k \in 1 .. Slots : k = slot[s]
        BY <3>1
      <4> DEFINE more == [i \in 0 .. Slots |-> IF i >= k THEN sum[i] + 1 ELSE sum[i]]
      <4>1. /\ \A i \in 1 .. Slots : bucket_counts'[f][i] =
                   IF i = k THEN bucket_counts[f][i] + 1 ELSE bucket_counts[f][i]
            /\ bucket_counts[f] \in [1 .. Slots -> Nat] /\ k \in 1 .. Slots
        BY <1>4, <3>1, <3>3, <4>0
      <4>2. /\ sum[0] = 0
            /\ \A i \in 1 .. Slots : sum[i] = sum[i - 1] + bucket_counts[f][i]
        BY <1>1 DEF IsPrefixSum
      <4>3. more \in [0 .. Slots -> Nat]
        BY <1>1, <4>1
      <4>4. more[0] = 0 /\ \A i \in 1 .. Slots : more[i] = more[i - 1] + bucket_counts'[f][i]
        <5>1. more[0] = 0
          BY <4>1, <4>2, SlotsAssumption
        <5>2. ASSUME NEW i \in 1 .. Slots PROVE more[i] = more[i - 1] + bucket_counts'[f][i]
          <6>1. /\ i \in 0 .. Slots /\ i - 1 \in 0 .. Slots
                /\ sum[i - 1] \in Nat /\ bucket_counts[f][i] \in Nat
            BY <1>1, <4>1, SlotsAssumption
          <6>2. sum[i] = sum[i - 1] + bucket_counts[f][i]
            BY <4>2
          <6>3. /\ more[i] = (IF i >= k THEN sum[i] + 1 ELSE sum[i])
                /\ more[i - 1] = (IF i - 1 >= k THEN sum[i - 1] + 1 ELSE sum[i - 1])
            BY <6>1
          <6>4. bucket_counts'[f][i] = IF i = k THEN bucket_counts[f][i] + 1 ELSE bucket_counts[f][i]
            BY <4>1
          <6> HIDE DEF more
          <6>5. k \in Int /\ i \in Int
            OBVIOUS
          <6>6. i > k \/ i = k \/ i < k
            BY <6>5
          <6>7. CASE i > k
            BY <6>1, <6>2, <6>3, <6>4, <6>5, <6>7
          <6>8. CASE i = k
            BY <6>1, <6>2, <6>3, <6>4, <6>5, <6>8
          <6>9. CASE i < k
            BY <6>1, <6>2, <6>3, <6>4, <6>5, <6>9
          <6> QED BY <6>6, <6>7, <6>8, <6>9
        <5> QED BY <5>1, <5>2
      <4>5. IsPrefixSum(more, f)'
        BY <4>3, <4>4 DEF IsPrefixSum
      <4>6. more[Slots] = sum[Slots] + 1
        BY <4>1, SlotsAssumption
      <4>7. Cardinality(Unplaced(f)') = Cardinality(Unplaced(f)) - 1
        BY <1>3, <2>1, <3>3, OneLess
      <4>8. more[Slots] + Cardinality(Unplaced(f)') <= latency_count'[f]
        BY <1>1, <1>3, <1>4, <2>1, <4>6, <4>7
      <4>9. ASSUME NEW t \in Sessions PROVE page'[t].cumulative[f] <= more[Loaded(t, f)']
        <5>1. Loaded(t, f)' \in 0 .. Slots
          <6>1. pos' = pos /\ pos[t] \in Nat
            BY <1>0, <1>11, SlotsAssumption DEF ObserveBucket, TypeOK
          <6>2. Loaded(t, f)' = Loaded(t, f)
            BY <6>1 DEF Loaded
          <6> QED BY <6>1, <6>2, LoadedType
        <5>2. page'[t].cumulative[f] \in Nat
          BY <1>0, <1>11 DEF ObserveBucket, TypeOK
        <5>3. sum[Loaded(t, f)'] \in Nat /\ more[Loaded(t, f)'] >= sum[Loaded(t, f)']
          BY <1>1, <4>1, <5>1
        <5> HIDE DEF more
        <5>4. more[Loaded(t, f)'] \in Nat
          BY <4>3, <5>1
        <5> QED BY <1>2, <5>2, <5>3, <5>4
      <4> HIDE DEF more
      <4> QED BY <4>3, <4>5, <4>8, <4>9 DEF Histogram
    <3> QED BY <3>2, <3>3
  <2> QED BY <2>2, <2>3
<1> QED BY <1>7, <1>8, <1>9, <1>10, <1>11 DEF StepOf, Callback

(* What a page's first load is worth, and what its loads of a count find.      *)
LEMMA StepScrape ==
    ASSUME ServerInv, NEW s \in Sessions, StepOf(s)
    PROVE  ScrapeWellFormed' /\ ScrapeSeesItself'
<1> DEFINE Last(f) == IF f = "http" THEN Slots + 1 ELSE 2 * (Slots + 1)
           Good(t, f) == pos[t] > Last(f) => page[t].cumulative[f] <= page[t].count[f]
           Seen(t) == pos[t] > 0 => page[t].inflight \in 1 .. Cardinality(Sessions)
<1>0. TypeOK /\ SessionOK(s) /\ TypeOK'
  BY StepTypes DEF ServerInv, SessionsOK
<1>1. \A t \in Sessions : Seen(t) /\ \A f \in Families : Good(t, f)
  BY DEF ServerInv, ScrapeWellFormed, ScrapeSeesItself
<1>2. SUFFICES \A t \in Sessions : Seen(t)' /\ \A f \in Families : Good(t, f)'
  BY DEF ScrapeWellFormed, ScrapeSeesItself
<1>3. \A f \in Families : Last(f) \in Nat \ {0}
  BY SlotsAssumption
<1> HIDE DEF Last
<1>4. ASSUME NEW t \in Sessions, pos'[t] = pos[t], page'[t] = page[t]
      PROVE  Seen(t)' /\ \A f \in Families : Good(t, f)'
  BY <1>1, <1>4 DEF Last
<1>5. ASSUME pos'[s] = 0 PROVE Seen(s)' /\ \A f \in Families : Good(s, f)'
  BY <1>3, <1>5 DEF Last
<1>6. ASSUME Render(s) PROVE Seen(s)'
  <2>1. pos[s] \in Nat /\ pos'[s] = pos[s] + 1 /\ phase[s] = "rendering"
    BY <1>0, <1>6, SlotsAssumption DEF Render, Set, TypeOK
  <2>2. CASE pos[s] = 0
    <3>1. page'[s].inflight = inflight
      BY <1>0, <1>6, <2>2, SlotsAssumption DEF Render, TypeOK, EmptyPage
    <3>2. s \in InFlight /\ InFlight \in SUBSET Sessions
      BY <2>1 DEF InFlight, Open
    <3>3. inflight = Cardinality(InFlight)
      BY DEF ServerInv, RequestsAddUp, InFlight
    <3>4. Cardinality(InFlight) >= 1
      BY <3>2, OneLess
    <3>5. Cardinality(InFlight) \in 0 .. Cardinality(Sessions) /\ Cardinality(Sessions) \in Nat
      BY <3>2, SomeSessions
    <3> QED BY <3>1, <3>3, <3>4, <3>5
  <2>3. CASE pos[s] > 0
    <3>1. page'[s].inflight = page[s].inflight
      BY <1>0, <1>6, <2>1, <2>3 DEF Render, RenderLoad, TypeOK
    <3> QED BY <1>1, <2>1, <2>3, <3>1
  <2> QED BY <2>1, <2>2, <2>3
<1>7. ASSUME Render(s), NEW f \in Families PROVE Good(s, f)'
  <2>1. pos[s] \in Nat /\ pos'[s] = pos[s] + 1
    BY <1>0, <1>7, SlotsAssumption DEF Render, Set, TypeOK
  <2>2. SUFFICES ASSUME pos[s] + 1 > Last(f)
                 PROVE  page'[s].cumulative[f] <= page'[s].count[f]
    BY <2>1 DEF Last
  <2>3. CASE /\ page'[s].cumulative[f] = page[s].cumulative[f]
             /\ page'[s].count[f] = latency_count[f] /\ Loaded(s, f) = Slots
    <3>1. PICK sum \in [0 .. Slots -> Nat] :
             /\ sum[Slots] + Cardinality(Unplaced(f)) <= latency_count[f]
             /\ \A t \in Sessions : page[t].cumulative[f] <= sum[Loaded(t, f)]
      BY DEF ServerInv, Histogram
    <3>2. page[s].cumulative[f] <= sum[Slots]
      BY <2>3, <3>1
    <3>3. /\ sum[Slots] \in Nat /\ page[s].cumulative[f] \in Nat /\ latency_count[f] \in Nat
          /\ Cardinality(Unplaced(f)) \in Nat
      <4>1. Slots \in 0 .. Slots /\ Unplaced(f) \in SUBSET Sessions
        BY SlotsAssumption DEF Unplaced
      <4>2. Cardinality(Unplaced(f)) \in Nat
        BY <4>1, SomeSessions
      <4>3. page[s].cumulative[f] \in Nat /\ latency_count[f] \in Nat
        BY <1>0 DEF TypeOK
      <4> QED BY <4>1, <4>2, <4>3
    <3> QED BY <2>3, <3>1, <3>2, <3>3
  <2>4. CASE /\ page'[s].cumulative[f] = page[s].cumulative[f]
             /\ page'[s].count[f] = page[s].count[f] /\ pos[s] # Last(f)
    BY <1>1, <1>3, <2>1, <2>2, <2>4
  <2>5. pos[s] # 0 /\ ~(pos[s] < Last(f))
    BY <1>3, <2>1, <2>2
  <2>6. \/ pos[s] = 0 \/ pos[s] < Last(f)
        \/ /\ page'[s].cumulative[f] = page[s].cumulative[f]
           /\ page'[s].count[f] = page[s].count[f] /\ pos[s] # Last(f)
        \/ /\ page'[s].cumulative[f] = page[s].cumulative[f]
           /\ page'[s].count[f] = latency_count[f] /\ Loaded(s, f) = Slots
    BY <1>0, <1>7, OneLoad DEF Last
  <2> QED BY <2>3, <2>4, <2>5, <2>6
<1>8. \A t \in Sessions \ {s} : pos'[t] = pos[t] /\ page'[t] = page[t]
  BY <1>0, OthersWait
<1>9. Seen(s)' /\ \A f \in Families : Good(s, f)'
  <2>1. CASE Render(s)
    BY <1>6, <1>7, <2>1
  <2>2. CASE Leave(s)
    BY <1>0, <1>5, <2>2 DEF Leave, Forget, Set, TypeOK
  <2>3. CASE \E size \in Bodies : OnRead(s, size)
    <3>1. pos'[s] = 0
      BY <1>0, <2>3 DEF OnRead, Set, TypeOK, SessionOK
    <3> QED BY <1>5, <3>1
  <2>4. CASE Accept(s) \/ OnReadError(s) \/ OnWrite(s) \/ CallRocksdb(s) \/ Respond(s) \/ Rendered(s)
    BY <1>4, <2>4 DEF Accept, OnReadError, OnWrite, CallRocksdb, Respond, Rendered
  <2>5. CASE ObserveOp(s) \/ ObserveErr(s) \/ ObserveCount(s) \/ ObserveBucket(s)
    BY <1>4, <2>5 DEF ObserveOp, ObserveErr, ObserveCount, ObserveBucket
  <2> QED BY <2>1, <2>2, <2>3, <2>4, <2>5 DEF StepOf, Callback
<1> HIDE DEF Seen, Good
<1> QED BY <1>4, <1>8, <1>9

(* The server starts in the invariant. *)
LEMMA InitServer == Init => ServerInv
<1> SUFFICES ASSUME Init PROVE ServerInv
  OBVIOUS
<1>1. TypeOK
  BY SlotsAssumption DEF Init, TypeOK, EmptyPage, OverLimit
<1>2. SessionsOK
  BY LimitsAssumption DEF Init, SessionsOK, SessionOK, EmptyPage
<1>3. RequestsAddUp
  <2>1. InFlight = {} /\ Uncounted = {}
    BY DEF Init, InFlight, Uncounted, Open
  <2>2. ops["http"] = 0 /\ inflight = 0 /\ received = 0
    BY DEF Init, Families
  <2> QED BY <2>1, <2>2, FS_EmptySet DEF RequestsAddUp, InFlight, Uncounted
<1>4. ASSUME NEW f \in Families PROVE Histogram(f)
  <2> DEFINE none == [i \in 0 .. Slots |-> 0]
  <2>1. Unplaced(f) = {} /\ latency_count[f] = 0
    BY DEF Init, Unplaced
  <2>2. Cardinality(Unplaced(f)) = 0
    BY <2>1, FS_EmptySet
  <2>3. IsPrefixSum(none, f)
    BY SlotsAssumption DEF Init, IsPrefixSum
  <2>4. none[Slots] = 0 /\ none \in [0 .. Slots -> Nat]
    BY SlotsAssumption
  <2>5. ASSUME NEW t \in Sessions PROVE page[t].cumulative[f] <= none[Loaded(t, f)]
    <3>1. page[t].cumulative[f] = 0 /\ pos[t] = 0
      BY DEF Init, EmptyPage
    <3>2. Loaded(t, f) \in 0 .. Slots
      BY <3>1, LoadedType
    <3> QED BY <3>1, <3>2
  <2>6. none[Slots] + Cardinality(Unplaced(f)) <= latency_count[f]
    BY <2>1, <2>2, <2>4
  <2> HIDE DEF none
  <2> QED BY <2>3, <2>4, <2>5, <2>6 DEF Histogram
<1>5. ScrapeWellFormed /\ ScrapeSeesItself
  <2>1. \A t \in Sessions : pos[t] = 0
    BY DEF Init
  <2>2. Slots + 1 > 0 /\ 2 * (Slots + 1) > 0
    BY SlotsAssumption
  <2> QED BY <2>1, <2>2, SlotsAssumption DEF ScrapeWellFormed, ScrapeSeesItself
<1> QED BY <1>1, <1>2, <1>3, <1>4, <1>5 DEF ServerInv

(* Nothing changes, nothing breaks. *)
LEMMA IdleServer ==
    ASSUME ServerInv, UNCHANGED vars
    PROVE  ServerInv'
<1> USE DEF vars, metrics
<1>1. TypeOK' /\ SessionsOK'
  BY DEF ServerInv, TypeOK, SessionsOK, SessionOK
<1>2. RequestsAddUp'
  BY DEF ServerInv, RequestsAddUp, Open
<1>3. ScrapeWellFormed' /\ ScrapeSeesItself'
  BY DEF ServerInv, ScrapeWellFormed, ScrapeSeesItself
<1>4. ASSUME NEW f \in Families PROVE Histogram(f)'
  <2>1. Histogram(f)
    BY DEF ServerInv
  <2>2. Unplaced(f)' = Unplaced(f)
    BY DEF Unplaced, Family
  <2>3. \A t \in Sessions : Loaded(t, f)' = Loaded(t, f)
    BY DEF Loaded
  <2> QED BY <2>1, <2>2, <2>3 DEF Histogram, IsPrefixSum
<1> QED BY <1>1, <1>2, <1>3, <1>4 DEF ServerInv

(* However the callbacks of any number of sessions interleave on the threads,  *)
(* the sessions, the metrics and the pages keep the inductive invariant.       *)
THEOREM ServerInvariant == Spec => []ServerInv
<1>1. ASSUME ServerInv, [Next]_vars PROVE ServerInv'
  <2>1. CASE UNCHANGED vars
    BY <1>1, <2>1, IdleServer
  <2>2. CASE Next
    <3>1. PICK s \in Sessions : StepOf(s)
      BY <2>2 DEF Next, StepOf
    <3>2. ServerInv
      BY <1>1
    <3>3. TypeOK' /\ SessionsOK' /\ RequestsAddUp'
      BY <3>1, <3>2, StepTypes, StepSessions, StepRequests
    <3>4. \A f \in Families : Histogram(f)'
      BY <3>1, <3>2, StepHistogram
    <3>5. ScrapeWellFormed' /\ ScrapeSeesItself'
      BY <3>1, <3>2, StepScrape
    <3> QED BY <3>3, <3>4, <3>5 DEF ServerInv
  <2> QED BY <1>1, <2>1, <2>2
<1> QED BY <1>1, InitServer, PTL DEF Spec

(* Types: the gauge, an unsigned counter in the code, never goes below zero.   *)
THEOREM ServerTypes == Spec => []TypeOK
<1>1. ServerInv => TypeOK
  BY DEF ServerInv
<1> QED BY <1>1, ServerInvariant, PTL

(* No path out of a session (a failed write, a response that closes, a         *)
(* pipelined next read) leaks an IncInFlight or counts a request twice.        *)
THEOREM RequestsCountedOnce == Spec => []RequestsAddUp
<1>1. ServerInv => RequestsAddUp
  BY DEF ServerInv
<1> QED BY <1>1, ServerInvariant, PTL

(* RenderPrometheus, running beside any number of Observe calls and without a  *)
(* lock, still gives a histogram whose buckets do not exceed its +Inf count.   *)
THEOREM ScrapesAreHistograms == Spec => []ScrapeWellFormed
<1>1. ServerInv => ScrapeWellFormed
  BY DEF ServerInv
<1> QED BY <1>1, ServerInvariant, PTL

(* The in-flight gauge on a page counts the scrape itself and no more requests *)
(* than there are sessions.                                                    *)
THEOREM ScrapesSeeThemselves == Spec => []ScrapeSeesItself
<1>1. ServerInv => ScrapeSeesItself
  BY DEF ServerInv
<1> QED BY <1>1, ServerInvariant, PTL

(* With the parser's limit equal to the handler's, as main.cpp sets them, the  *)
(* handler's EntityTooLarge is never the answer.                               *)
THEOREM TooLargeIsDropped == Spec => []EntityTooLargeNeverSent
<1>1. ServerInv => EntityTooLargeNeverSent
  BY DEF ServerInv, SessionsOK, SessionOK, EntityTooLargeNeverSent
<1> QED BY <1>1, ServerInvariant, PTL
=============================================================================
