------------------------- MODULE IndexProgramsProofs -------------------------
(***************************************************************************)
(* Proofs about IndexPrograms for any number of worker threads, objects    *)
(* and tokens and any options.                                             *)
(***************************************************************************)
EXTENDS IndexPrograms, TLAPS, WellFoundedInduction, FiniteSetTheorems

-----------------------------------------------------------------------------
(* Sums over the workers, by the recursion that MapThenSumSet is defined by. *)
OneOf(s) == CHOOSE x \in s : TRUE

Step(f, g, s) == IF s = {} THEN 0 ELSE f[OneOf(s)] + g[s \ {OneOf(s)}]

Sums(f, g) == g = [s \in SUBSET Workers |-> Step(f, g, s)]

Sum(f) == (CHOOSE g : Sums(f, g))[Workers]

(* A set of numbers has a smallest one. *)
LEMMA SmallestNat ==
    ASSUME NEW S \in SUBSET Nat, S # {}
    PROVE  \E m \in S : \A n \in S : m <= n
<1> DEFINE R == {ss \in Nat \X Nat : ss[1] < ss[2]}
<1>1. IsWellFoundedOn(R, Nat)
  BY NatLessThanWellFounded DEF OpToRel
<1> HIDE DEF R
<1>2. PICK m \in S : \A n \in S : ~(<<n, m>> \in R)
  BY <1>1, WFMin, Zenon
<1>3. ASSUME NEW n \in S PROVE m <= n
  <2>1. ~(n < m)
    BY <1>2, Zenon DEF R
  <2> QED BY <2>1
<1> QED BY <1>3

(* The workers are finitely many, and so are those of any part. *)
LEMMA SubsetsAreFinite ==
    ASSUME NEW s \in SUBSET Workers
    PROVE  /\ IsFiniteSet(s) /\ Cardinality(s) \in Nat
           /\ s # {} => /\ OneOf(s) \in s
                        /\ s \ {OneOf(s)} \in SUBSET Workers
                        /\ Cardinality(s \ {OneOf(s)}) = Cardinality(s) - 1
                        /\ Cardinality(s) >= 1
           /\ Cardinality(s) = 0 <=> s = {}
<1>1. IsFiniteSet(s) /\ Cardinality(s) \in Nat
  BY ThreadsAssumption, FS_Subset, FS_CardinalityType
<1>2. Cardinality(s) = 0 <=> s = {}
  BY <1>1, FS_EmptySet
<1>3. s # {} => OneOf(s) \in s
  BY DEF OneOf
<1>4. s # {} => Cardinality(s \ {OneOf(s)}) = Cardinality(s) - 1
  BY <1>1, <1>3, FS_RemoveElement, Zenon
<1> QED BY <1>1, <1>2, <1>3, <1>4

(* The recursion has a solution: approximations that are right on ever larger  *)
(* sets of workers.                                                            *)
LEMMA SumsExist ==
    ASSUME NEW f
    PROVE  \E g : Sums(f, g)
<1> DEFINE Right(g, n) == \A s \in SUBSET Workers : Cardinality(s) <= n => g[s] = Step(f, g, s)
           Bad == {n \in Nat : ~\E g : Right(g, n)}
           Next1(g) == [s \in SUBSET Workers |-> Step(f, g, s)]
<1>1. Right([s \in SUBSET Workers |-> 0], 0)
  <2> SUFFICES ASSUME NEW s \in SUBSET Workers, Cardinality(s) <= 0
               PROVE  0 = Step(f, [t \in SUBSET Workers |-> 0], s)
    OBVIOUS
  <2>1. Cardinality(s) \in Nat /\ (Cardinality(s) = 0 <=> s = {})
    BY SubsetsAreFinite, Zenon
  <2>2. s = {}
    BY <2>1
  <2> QED BY <2>2 DEF Step
<1>2. ASSUME NEW n \in Nat, NEW g, Right(g, n)
      PROVE  Right(Next1(g), n + 1)
  <2> DEFINE h == Next1(g)
  <2>1. \A s \in SUBSET Workers : h[s] = Step(f, g, s)
    OBVIOUS
  <2>2. \A s \in SUBSET Workers : Cardinality(s) <= n => h[s] = g[s]
    BY <1>2, <2>1
  <2> HIDE DEF h
  <2>3. ASSUME NEW s \in SUBSET Workers, Cardinality(s) <= n + 1
        PROVE  h[s] = Step(f, h, s)
    <3>1. CASE s = {}
      BY <2>1, <3>1 DEF Step
    <3>2. CASE s # {}
      <4>1. /\ s \ {OneOf(s)} \in SUBSET Workers
            /\ Cardinality(s \ {OneOf(s)}) <= n
        BY <2>3, <3>2, SubsetsAreFinite
      <4>2. h[s \ {OneOf(s)}] = g[s \ {OneOf(s)}]
        BY <2>2, <4>1
      <4> QED BY <2>1, <3>2, <4>2 DEF Step
    <3> QED BY <3>1, <3>2
  <2> QED BY <2>3 DEF h
<1> HIDE DEF Right, Next1
<1>3. Bad = {}
  <2> SUFFICES ASSUME Bad # {} PROVE FALSE
    OBVIOUS
  <2>1. PICK m \in Bad : \A n \in Bad : m <= n
    BY SmallestNat, Zenon
  <2>2. m # 0 /\ m \in Nat
    BY <1>1
  <2>3. m - 1 \in Nat /\ m - 1 \notin Bad
    BY <2>1, <2>2
  <2>4. PICK g : Right(g, m - 1)
    BY <2>3
  <2>5. Right(Next1(g), (m - 1) + 1)
    BY <1>2, <2>3, <2>4
  <2>6. (m - 1) + 1 = m
    BY <2>2
  <2> QED BY <2>5, <2>6
<1>4. Workers \in SUBSET Workers /\ Cardinality(Workers) \in Nat
  BY SubsetsAreFinite, Zenon
<1>5. PICK g : Right(g, Cardinality(Workers))
  BY <1>3, <1>4
<1>6. \A s \in SUBSET Workers : Cardinality(s) <= Cardinality(Workers)
  BY ThreadsAssumption, FS_Subset
<1>7. \A s \in SUBSET Workers : g[s] = Step(f, g, s)
  BY <1>5, <1>6 DEF Right
<1> DEFINE h == Next1(g)
<1>8. \A s \in SUBSET Workers : h[s] = g[s] /\ h[s] = Step(f, g, s)
  BY <1>7 DEF Next1
<1>9. \A s \in SUBSET Workers : Step(f, g, s) = Step(f, h, s)
  BY <1>8, SubsetsAreFinite, Zenon DEF Step
<1>10. h = [s \in SUBSET Workers |-> Step(f, h, s)]
  <2>1. h = [s \in SUBSET Workers |-> Step(f, g, s)]
    BY DEF Next1
  <2> HIDE DEF h
  <2> QED BY <1>9, <2>1, Zenon
<1> QED BY <1>10 DEF Sums

(* Two functions that differ by d at w only, and sums of sets that do. *)
Shifted(f, k, w, d) == \A x \in Workers : k[x] = f[x] + (IF x = w THEN d ELSE 0)

Off(g, h, w, d, s) == g[s] \in Int /\ h[s] = g[s] + (IF w \in s THEN d ELSE 0)

(* Sums that differ in what one worker adds differ by that. *)
LEMMA SumsDiffer ==
    ASSUME NEW f \in [Workers -> Int], NEW k \in [Workers -> Int], NEW w, NEW d \in Int,
           Shifted(f, k, w, d), NEW g, Sums(f, g), NEW h, Sums(k, h), NEW s \in SUBSET Workers
    PROVE  Off(g, h, w, d, s)
<1> DEFINE Fine(t) == g[t] \in Int /\ h[t] = g[t] + (IF w \in t THEN d ELSE 0)
           Bad == {n \in Nat : \E t \in SUBSET Workers : Cardinality(t) = n /\ ~Fine(t)}
<1>1. \A t \in SUBSET Workers : g[t] = Step(f, g, t) /\ h[t] = Step(k, h, t)
  BY DEF Sums
<1>2. SUFFICES ASSUME Bad # {} PROVE FALSE
  <2>0. SUFFICES Fine(s)
    BY DEF Off
  <2>1. ASSUME ~Fine(s) PROVE Cardinality(s) \in Bad
    <3>1. Cardinality(s) \in Nat
      BY SubsetsAreFinite, Zenon
    <3> QED BY <2>1, <3>1
  <2> QED BY <2>1
<1>3. PICK m \in Bad : \A n \in Bad : m <= n
  BY <1>2, SmallestNat, Zenon
<1>4. PICK t \in SUBSET Workers : Cardinality(t) = m /\ ~Fine(t)
  OBVIOUS
<1>5. t # {}
  <2> SUFFICES ASSUME t = {} PROVE FALSE
    OBVIOUS
  <2>1. g[t] = 0 /\ h[t] = 0
    BY <1>1, Zenon DEF Step
  <2>2. ~(w \in t)
    OBVIOUS
  <2> QED BY <1>4, <2>1, <2>2
<1> DEFINE x == OneOf(t)
           r == t \ {x}
<1>6. x \in t /\ x \in Workers /\ r \in SUBSET Workers /\ Cardinality(r) = m - 1 /\ Cardinality(t) \in Nat
  BY <1>4, <1>5, SubsetsAreFinite
<1>7. Cardinality(r) \in Nat
  BY <1>6, SubsetsAreFinite
<1>8. g[t] = f[x] + g[r] /\ h[t] = k[x] + h[r]
  BY <1>1, <1>5, Zenon DEF Step
<1>9. w \in t <=> w \in r \/ w = x
  BY <1>6
<1>10. x \notin r
  OBVIOUS
<1> HIDE DEF x, r
<1>11. Fine(r)
  <2>1. m \in Nat /\ m - 1 \notin Bad
    BY <1>3
  <2>2. m - 1 \in Nat
    BY <1>6, <1>7
  <2> QED BY <1>6, <2>1, <2>2
<1>12. f[x] \in Int /\ k[x] = f[x] + (IF x = w THEN d ELSE 0)
  BY <1>6 DEF Shifted
<1> QED BY <1>4, <1>8, <1>9, <1>10, <1>11, <1>12

(* Workers that add the same have the same sum. *)
LEMMA SumsAgree ==
    ASSUME NEW f \in [Workers -> Int], NEW g, Sums(f, g), NEW h, Sums(f, h)
    PROVE  g[Workers] \in Int /\ h[Workers] = g[Workers]
<1>1. PICK w, d, s : w = Main /\ d = 0 /\ s = Workers
  OBVIOUS
<1>2. d \in Int /\ s \in SUBSET Workers /\ Shifted(f, f, w, d)
  BY <1>1 DEF Shifted
<1>3. Off(g, h, w, d, s)
  BY <1>2, SumsDiffer
<1> QED BY <1>1, <1>3 DEF Off

(* A sum of integers over the workers is one integer, found worker by worker. *)
LEMMA SumFacts ==
    ASSUME NEW f \in [Workers -> Int]
    PROVE  Sum(f) \in Int /\ \E g : Sums(f, g) /\ Sum(f) = g[Workers]
<1> DEFINE g == CHOOSE g : Sums(f, g)
<1>1. Sums(f, g)
  BY SumsExist
<1>2. Sum(f) = g[Workers]
  BY DEF Sum
<1> HIDE DEF g
<1> QED BY <1>1, <1>2, SumsAgree

(* The sum changes by what one worker's number changes by. *)
LEMMA SumOfChanged ==
    ASSUME NEW f \in [Workers -> Int], NEW k \in [Workers -> Int], NEW w \in Workers, NEW d \in Int,
           k[w] = f[w] + d, \A x \in Workers : x # w => k[x] = f[x]
    PROVE  Sum(k) = Sum(f) + d
<1>1. PICK g : Sums(f, g) /\ Sum(f) = g[Workers]
  BY SumFacts
<1>2. PICK h : Sums(k, h) /\ Sum(k) = h[Workers]
  BY SumFacts
<1>3. Shifted(f, k, w, d)
  BY DEF Shifted
<1>4. PICK s \in SUBSET Workers : s = Workers
  OBVIOUS
<1>5. Off(g, h, w, d, s)
  BY <1>1, <1>2, <1>3, SumsDiffer
<1> QED BY <1>1, <1>2, <1>4, <1>5 DEF Off

(* Before anyone counted, the sum is 0. *)
LEMMA SumOfZeros ==
    ASSUME NEW f \in [Workers -> Int], \A x \in Workers : f[x] = 0
    PROVE  Sum(f) = 0
<1> DEFINE zero == [s \in SUBSET Workers |-> 0]
<1>1. ASSUME NEW s \in SUBSET Workers PROVE Step(f, zero, s) = 0
  <2>1. s # {} => OneOf(s) \in Workers /\ s \ {OneOf(s)} \in SUBSET Workers
    BY SubsetsAreFinite, Zenon
  <2>2. s # {} => f[OneOf(s)] = 0 /\ zero[s \ {OneOf(s)}] = 0
    BY <2>1
  <2> QED BY <2>2 DEF Step
<1>2. Sums(f, zero)
  BY <1>1 DEF Sums
<1>3. zero[Workers] = 0
  OBVIOUS
<1> HIDE DEF zero
<1>4. PICK g : Sums(f, g) /\ Sum(f) = g[Workers]
  BY SumFacts
<1> QED BY <1>2, <1>3, <1>4, SumsAgree

SeenBy(field) == [w \in Workers |-> seen[w][field]]

(* Total, as MapThenSumSet computes it, is the sum. *)
LEMMA TotalIsSum ==
    ASSUME NEW field, SeenBy(field) \in [Workers -> Int]
    PROVE  Total(field) = Sum(SeenBy(field))
<1> DEFINE f == SeenBy(field)
           Rec(g) == g = [s \in SUBSET Workers |->
                            IF s = {} THEN 0
                            ELSE seen[CHOOSE x \in s : TRUE][field]
                                 + g[s \ {CHOOSE x \in s : TRUE}]]
<1>1. Total(field) = (CHOOSE g : Rec(g))[Workers]
  BY DEF Total, MapThenSumSet, MapThenFoldSet
<1>2. ASSUME NEW g PROVE Rec(g) <=> Sums(f, g)
  <2>1. \A s \in SUBSET Workers :
          Step(f, g, s) = IF s = {} THEN 0
                          ELSE seen[CHOOSE x \in s : TRUE][field]
                               + g[s \ {CHOOSE x \in s : TRUE}]
    BY SubsetsAreFinite DEF Step, OneOf, SeenBy
  <2> QED BY <2>1, Zenon DEF Sums
<1> HIDE DEF Rec
<1>3. PICK g : g = CHOOSE h : Rec(h)
  OBVIOUS
<1>4. Sums(f, g)
  BY <1>2, <1>3, SumsExist
<1>5. PICK h : Sums(f, h) /\ Sum(f) = h[Workers]
  BY SumFacts
<1>6. PICK k \in [Workers -> Int] : k = f
  OBVIOUS
<1>7. h[Workers] = g[Workers]
  BY <1>4, <1>5, <1>6, SumsAgree
<1> QED BY <1>1, <1>3, <1>5, <1>7

-----------------------------------------------------------------------------
Commands == {"stress", "store", "lookup", "load", "stats"}

Places == {"create", "index", "stored", "probe", "looked", "join", "unborn", "pick", "count",
           "outcome", "done"} \union Commands

Counts == [requests : Int, errors : Int, bytes_read : Int]

Locals == [i : Prompts, prefix_len : Int, hit : Int, ok : BOOLEAN, out : Int]

Types ==
    /\ program \in Commands /\ cfg \in Options
    /\ at \in [Threads -> Places]
    /\ local \in [Threads -> Locals]
    /\ handle \in [Threads -> {"live", "freed"}]
    /\ entries \in [Prompts -> SUBSET Int]
    /\ metrics \in Counts /\ seen \in [Workers -> Counts]
    /\ output \in [id : {"nothing", "obj_id", ""}, counts : Counts]
    /\ exit \in {"running", "0", "1", "crashed"}
    /\ taken \subseteq Prompts /\ faults \in BOOLEAN

(* Where the threads can be: workers start once the prefill is over, and the   *)
(* main thread follows its command.                                            *)
WorkerPlaces == {"unborn", "pick", "lookup", "probe", "looked", "load", "count", "outcome", "done"}

Placed ==
    /\ \A w \in Workers : at[w] \in WorkerPlaces /\ (at[Main] # "join" => at[w] = "unborn")
    /\ program = "stress" => at[Main] \in {"create", "store", "index", "stored", "join"}
    /\ program = "store" => at[Main] \in {"create", "store", "index", "stored"}
    /\ program = "lookup" => at[Main] \in {"create", "lookup", "probe", "looked"}
    /\ program = "load" => at[Main] \in {"create", "load"}
    /\ program = "stats" => at[Main] \in {"create", "stats"}

(* The command line: no request after a failed one, and what it remembers of   *)
(* its one Store or Load is what happened.                                     *)
CommandOK ==
    program # "stress" =>
        /\ exit # "crashed"
        /\ exit = "running" /\ at[Main] \in {"create", "store", "load"} => handle[Main] = "live"
        /\ program = "load" /\ exit = "0" => local[Main].ok
        /\ program = "store" =>
              /\ local[Main].i = 0
              /\ at[Main] \in {"create", "store"} => taken = {}
              /\ at[Main] \in {"index", "stored"} => (local[Main].ok <=> 0 \in taken)
              /\ exit = "0" => at[Main] = "stored" /\ (output.id # "" <=> local[Main].ok)

(* What the workers met and have added to the shared counters already. *)
CountedRequests == [w \in Workers |-> seen[w].requests - (IF at[w] = "count" THEN 1 ELSE 0)]

CountedErrors ==
    [w \in Workers |->
        seen[w].errors - (IF at[w] \in {"count", "outcome"} /\ ~local[w].ok THEN 1 ELSE 0)]

CountedBytes ==
    [w \in Workers |->
        seen[w].bytes_read
           - (IF at[w] \in {"count", "outcome"} /\ local[w].ok THEN local[w].out ELSE 0)]

CountsOK ==
    /\ metrics.requests = Sum(CountedRequests)
    /\ metrics.errors = Sum(CountedErrors)
    /\ metrics.bytes_read = Sum(CountedBytes)

Reported == program = "stress" /\ exit = "0" => Joined /\ output.counts = metrics

(* A block fits in what a Lookup may look at. *)
Fits == cfg.block_size \in 1 .. Limit

(* Then every prompt that has been stored has its first block indexed ... *)
PrefillOK ==
    program = "stress" /\ ~faults /\ Fits =>
        /\ \A j \in Prompts : j < local[Main].i \/ at[Main] = "join" => cfg.block_size \in entries[j]
        /\ at[Main] = "index" => local[Main].prefix_len = cfg.block_size
                                 \/ cfg.block_size \in entries[local[Main].i]
        /\ at[Main] = "stored" => cfg.block_size \in entries[local[Main].i]

(* ... and every Lookup of a worker hits; otherwise none does. *)
WorkerOK(w) ==
    program = "stress" /\ ~faults =>
        /\ Fits =>
              /\ at[w] = "probe" => /\ local[w].prefix_len >= 1
                                    /\ local[w].hit = 0 => local[w].prefix_len = cfg.block_size
              /\ at[w] = "looked" => local[w].hit # 0
              /\ at[w] \in {"count", "outcome"} => local[w].ok
              /\ seen[w].errors = 0
        /\ ~Fits =>
              /\ at[w] = "probe" => /\ local[w].prefix_len = cfg.block_size /\ local[w].hit = 0
                                    /\ cfg.block_size >= 0
              /\ at[w] = "looked" => local[w].hit = 0
              /\ at[w] # "load"
              /\ at[w] \in {"count", "outcome"} => ~local[w].ok
              /\ seen[w].errors = seen[w].requests

(* The inductive invariant. *)
ProgramInv ==
    /\ Types /\ Placed /\ CommandOK /\ CountsOK /\ Reported /\ PrefillOK
    /\ \A w \in Workers : WorkerOK(w)

-----------------------------------------------------------------------------
(* The types of the options the command line parses. *)
LEMMA OptionFacts ==
    ASSUME NEW o \in Options
    PROVE  /\ o.block_size \in Int /\ o.max_len \in Int
           /\ o.create_bucket \in BOOLEAN /\ o.skip_prefill \in BOOLEAN
BY OptionsAssumption

(* UsableBytes returns an int. *)
LEMMA UsableType ==
    ASSUME NEW n \in Int
    PROVE  Usable(n) \in Int
<1>1. \A a, b \in Int : Max({a, b}) \in Int /\ Min({a, b}) \in Int
  <2> SUFFICES ASSUME NEW a \in Int, NEW b \in Int PROVE Max({a, b}) \in Int /\ Min({a, b}) \in Int
    OBVIOUS
  <2>1. \E x \in {a, b} : \A y \in {a, b} : x >= y
    OBVIOUS
  <2>2. \E x \in {a, b} : \A y \in {a, b} : x <= y
    OBVIOUS
  <2> QED BY <2>1, <2>2 DEF Max, Min
<1>2. PromptLen > 0 => ObjectBytes \div PromptLen \in Int
  BY ObjectsAssumption
<1> DEFINE bytes_per_token == IF PromptLen > 0 THEN Max({1, ObjectBytes \div PromptLen}) ELSE 0
<1>3. bytes_per_token \in Int
  BY <1>1, <1>2
<1>4. n * bytes_per_token \in Int /\ ObjectBytes \in Int
  BY <1>3, ObjectsAssumption
<1>5. Usable(n) = Min({n * bytes_per_token, ObjectBytes})
  BY DEF Usable
<1> HIDE DEF bytes_per_token
<1> QED BY <1>1, <1>4, <1>5, Zenon

(* A request changes the thread's handle and the history of faults alone. *)
LEMMA RequestTypes ==
    ASSUME Types, NEW t \in Threads, NEW ok, Request(t, ok)
    PROVE  /\ handle' \in [Threads -> {"live", "freed"}] /\ faults' \in BOOLEAN
           /\ \A u \in Threads : u # t => handle'[u] = handle[u]
           /\ faults => faults'
           /\ ~faults' => ok
           /\ ok => UNCHANGED <<handle, faults>>
BY DEF Types, Request

(* A step of the main thread keeps the types. *)
LEMMA MainTypes ==
    ASSUME Types, MainStep \/ Deadline
    PROVE  Types'
<1>0. /\ program \in Commands /\ cfg \in Options
      /\ at \in [Threads -> Places]
      /\ local \in [Threads -> Locals]
      /\ handle \in [Threads -> {"live", "freed"}]
      /\ entries \in [Prompts -> SUBSET Int]
      /\ metrics \in Counts /\ seen \in [Workers -> Counts]
      /\ output \in [id : {"nothing", "obj_id", ""}, counts : Counts]
      /\ exit \in {"running", "0", "1", "crashed"}
      /\ taken \subseteq Prompts /\ faults \in BOOLEAN
      /\ Main \in Threads
  BY DEF Types, Threads
<1>1. /\ cfg.block_size \in Int /\ local[Main] \in Locals /\ local[Main].i \in Prompts
      /\ local[Main].prefix_len \in Int
  BY <1>0, OptionFacts DEF Locals
<1>2. ASSUME NEW place \in Places, Goto(Main, place) PROVE at' \in [Threads -> Places]
  BY <1>0, <1>2 DEF Goto
<1>3. {"create", "store", "index", "stored", "join", "pick"} \subseteq Places /\ Started \in Places
  BY <1>0 DEF Places, Commands, Started
<1>4. ASSUME NEW l \in Locals, local' = [local EXCEPT ![Main] = l]
      PROVE  local' \in [Threads -> Locals]
  BY <1>0, <1>4
<1>5. CASE CreateBucket
  <2>1. handle' \in [Threads -> {"live", "freed"}] /\ faults' \in BOOLEAN
    BY <1>0, <1>5, RequestTypes DEF CreateBucket
  <2>2. at' \in [Threads -> Places]
    BY <1>0, <1>2, <1>3, <1>5 DEF CreateBucket
  <2> QED BY <1>0, <1>5, <2>1, <2>2 DEF CreateBucket, Types
<1>6. CASE BadArguments \/ PrintLookup \/ Deadline
  BY <1>0, <1>6 DEF BadArguments, PrintLookup, Deadline, Types
<1>7. CASE Store
  <2>1. PICK ok \in BOOLEAN :
          /\ IF program = "stress" /\ cfg.skip_prefill
             THEN ok /\ UNCHANGED <<handle, faults, taken>>
             ELSE Request(Main, ok) /\ taken' = IF ok THEN taken \union {local[Main].i} ELSE taken
          /\ local' = [local EXCEPT ![Main].ok = ok, ![Main].prefix_len = cfg.block_size]
          /\ Goto(Main, IF ok /\ ~TooShort THEN "index" ELSE "stored")
    BY <1>7, Zenon DEF Store
  <2>2. /\ handle' \in [Threads -> {"live", "freed"}] /\ faults' \in BOOLEAN
        /\ taken' \subseteq Prompts
    BY <1>0, <1>1, <2>1, RequestTypes
  <2>3. at' \in [Threads -> Places]
    BY <1>2, <1>3, <2>1
  <2>4. [local[Main] EXCEPT !.ok = ok, !.prefix_len = cfg.block_size] \in Locals
    BY <1>1, Zenon DEF Locals
  <2>5. local' = [local EXCEPT ![Main] = [local[Main] EXCEPT !.ok = ok, !.prefix_len = cfg.block_size]]
    BY <1>0, <2>1
  <2>6. local' \in [Threads -> Locals]
    BY <1>4, <2>4, <2>5, Zenon
  <2> QED BY <1>0, <1>7, <2>2, <2>3, <2>6 DEF Store, Types
<1>8. CASE StoreLoop
  <2>1. /\ \/ /\ entries' = [entries EXCEPT ![local[Main].i] = @ \union {local[Main].prefix_len}]
              /\ local' = [local EXCEPT ![Main] =
                             [local[Main] EXCEPT !.prefix_len = local[Main].prefix_len + cfg.block_size]]
              /\ UNCHANGED at
           \/ Goto(Main, "stored") /\ UNCHANGED <<entries, local>>
        /\ UNCHANGED <<program, cfg, handle, metrics, deadline, output, exit, taken, seen, faults>>
    BY <1>8 DEF StoreLoop
  <2>2. entries' \in [Prompts -> SUBSET Int]
    <3>1. PICK more \in SUBSET Int : more = entries[local[Main].i] \union {local[Main].prefix_len}
      BY <1>0, <1>1
    <3>2. entries' = [entries EXCEPT ![local[Main].i] = more] \/ entries' = entries
      BY <2>1, <3>1
    <3> QED BY <1>0, <1>1, <3>2
  <2>3. [local[Main] EXCEPT !.prefix_len = local[Main].prefix_len + cfg.block_size] \in Locals
    BY <1>1 DEF Locals
  <2>4. local' \in [Threads -> Locals]
    BY <1>0, <1>4, <2>1, <2>3
  <2>5. at' \in [Threads -> Places]
    BY <1>0, <1>2, <1>3, <2>1
  <2> QED BY <1>0, <2>1, <2>2, <2>4, <2>5 DEF Types
<1>9. CASE Prefilled
  <2>1. local' \in [Threads -> Locals]
    <3>1. CASE local[Main].i + 1 < Objects
      <4>1. local[Main].i + 1 \in Prompts
        BY <1>1, <3>1, ObjectsAssumption DEF Prompts
      <4>2. local' = [local EXCEPT ![Main] = [local[Main] EXCEPT !.i = local[Main].i + 1]]
        BY <1>0, <1>9, <3>1 DEF Prefilled
      <4>3. [local[Main] EXCEPT !.i = local[Main].i + 1] \in Locals
        BY <1>1, <4>1 DEF Locals
      <4> QED BY <1>4, <4>2, <4>3, Zenon
    <3> QED BY <1>0, <1>9, <3>1 DEF Prefilled
  <2>2. at' \in [Threads -> Places]
    BY <1>0, <1>2, <1>3, <1>9 DEF Prefilled
  <2> QED BY <1>0, <1>9, <2>1, <2>2 DEF Prefilled, Types
<1>10. CASE PrintId \/ Report
  <2>1. output' \in [id : {"nothing", "obj_id", ""}, counts : Counts]
    BY <1>0, <1>10 DEF PrintId, Report
  <2> QED BY <1>0, <1>10, <2>1 DEF PrintId, Report, Types
<1>11. CASE LoadCommand
  <2>1. PICK ok \in BOOLEAN : Request(Main, ok) /\ local' = [local EXCEPT ![Main].ok = ok]
    BY <1>11, Zenon DEF LoadCommand
  <2>2. local' = [local EXCEPT ![Main] = [local[Main] EXCEPT !.ok = ok]]
    BY <1>0, <2>1
  <2>3. [local[Main] EXCEPT !.ok = ok] \in Locals
    BY <1>1 DEF Locals
  <2>4. local' \in [Threads -> Locals]
    BY <1>4, <2>2, <2>3, Zenon
  <2>5. handle' \in [Threads -> {"live", "freed"}] /\ faults' \in BOOLEAN
    BY <1>0, <2>1, RequestTypes
  <2> QED BY <1>0, <1>11, <2>4, <2>5 DEF LoadCommand, Types
<1> QED BY <1>5, <1>6, <1>7, <1>8, <1>9, <1>10, <1>11 DEF MainStep

(* A counter with something added is a counter. *)
LEMMA PlusType ==
    ASSUME NEW c \in Counts, NEW ok \in BOOLEAN, NEW n \in Int
    PROVE  Plus(c, ok, n) \in Counts
BY DEF Counts, Plus

(* A step of Store, Lookup or Load keeps the types. *)
LEMMA ThreadTypes ==
    ASSUME Types, NEW t \in Threads, ThreadStep(t)
    PROVE  Types'
<1>0. /\ program \in Commands /\ cfg \in Options
      /\ at \in [Threads -> Places]
      /\ local \in [Threads -> Locals]
      /\ handle \in [Threads -> {"live", "freed"}]
      /\ entries \in [Prompts -> SUBSET Int]
      /\ metrics \in Counts /\ seen \in [Workers -> Counts]
      /\ output \in [id : {"nothing", "obj_id", ""}, counts : Counts]
      /\ exit \in {"running", "0", "1", "crashed"}
      /\ taken \subseteq Prompts /\ faults \in BOOLEAN
  BY DEF Types
<1>1. /\ cfg.block_size \in Int /\ local[t] \in Locals
      /\ local[t].prefix_len \in Int /\ local[t].hit \in Int /\ local[t].out \in Int
      /\ local[t].ok \in BOOLEAN
  BY <1>0, OptionFacts DEF Locals
<1> PICK l \in Locals, size \in Int : l = local[t] /\ size = cfg.block_size
  BY <1>1
<1> PICK zero \in Int : zero = 0
  OBVIOUS
<1> PICK no \in BOOLEAN : no = FALSE
  BY Zenon
<1>2. ASSUME NEW place \in Places, Goto(t, place) PROVE at' \in [Threads -> Places]
  BY <1>0, <1>2 DEF Goto
<1>3. {"looked", "probe", "count", "load", "done", "lookup", "outcome", "pick"} \subseteq Places
  BY DEF Places, Commands
<1>4. ASSUME NEW m \in Locals, local' = [local EXCEPT ![t] = m]
      PROVE  local' \in [Threads -> Locals]
  BY <1>0, <1>4
<1>5. CASE BeginLookup(t)
  <2>1. local' = [local EXCEPT ![t] = [l EXCEPT !.prefix_len = size, !.hit = zero]]
    BY <1>0, <1>5 DEF BeginLookup
  <2>2. [l EXCEPT !.prefix_len = size, !.hit = zero] \in Locals
    BY Zenon DEF Locals
  <2>3. at' \in [Threads -> Places] /\ local' \in [Threads -> Locals]
    BY <1>2, <1>3, <1>4, <1>5, <2>1, <2>2, Zenon DEF BeginLookup
  <2> QED BY <1>0, <1>5, <2>3 DEF BeginLookup, Types
<1>6. CASE Probe(t)
  <2> PICK n \in Int, next \in Int : n = local[t].prefix_len /\ next = n + size
    BY <1>1
  <2>1. \/ /\ local' = [local EXCEPT ![t] = [l EXCEPT !.hit = n, !.prefix_len = next]]
           /\ UNCHANGED at
        \/ Goto(t, "looked") /\ UNCHANGED local
    BY <1>0, <1>6 DEF Probe
  <2>2. [l EXCEPT !.hit = n, !.prefix_len = next] \in Locals
    BY Zenon DEF Locals
  <2>3. at' \in [Threads -> Places] /\ local' \in [Threads -> Locals]
    BY <1>0, <1>2, <1>3, <1>4, <2>1, <2>2
  <2> QED BY <1>0, <1>6, <2>3 DEF Probe, Types
<1>7. CASE Looked(t)
  <2>1. local' = [local EXCEPT ![t] = [l EXCEPT !.ok = no, !.out = zero]]
    BY <1>0, <1>7 DEF Looked
  <2>2. [l EXCEPT !.ok = no, !.out = zero] \in Locals
    BY Zenon DEF Locals
  <2>3. at' \in [Threads -> Places] /\ local' \in [Threads -> Locals]
    BY <1>2, <1>3, <1>4, <1>7, <2>1, <2>2, Zenon DEF Looked
  <2>4. t \in Workers /\ Plus(seen[t], no, zero) \in Counts
    BY <1>0, <1>7, PlusType DEF Looked
  <2>5. seen' = [seen EXCEPT ![t] = Plus(seen[t], no, zero)] \/ seen' = seen
    BY <1>7, Zenon DEF Looked
  <2>6. seen' \in [Workers -> Counts]
    BY <1>0, <2>4, <2>5
  <2> QED BY <1>0, <1>7, <2>3, <2>6 DEF Looked, Types
<1>8. CASE Load(t)
  <2>1. PICK ok \in BOOLEAN :
          LET out == IF ok THEN Usable(local[t].hit) ELSE 0
          IN  /\ Request(t, ok)
              /\ local' = [local EXCEPT ![t].ok = ok, ![t].out = out]
              /\ seen' = [seen EXCEPT ![t] = Plus(@, ok, out)]
    BY <1>8, Zenon DEF Load
  <2>2. PICK out \in Int : out = IF ok THEN Usable(local[t].hit) ELSE 0
    BY <1>1, UsableType
  <2>3. local' = [local EXCEPT ![t] = [l EXCEPT !.ok = ok, !.out = out]]
    BY <1>0, <2>1, <2>2
  <2>4. [l EXCEPT !.ok = ok, !.out = out] \in Locals
    BY Zenon DEF Locals
  <2>5. at' \in [Threads -> Places] /\ local' \in [Threads -> Locals]
    BY <1>2, <1>3, <1>4, <1>8, <2>3, <2>4, Zenon DEF Load
  <2>6. t \in Workers /\ Plus(seen[t], ok, out) \in Counts
    BY <1>0, <1>8, PlusType DEF Load
  <2>7. seen' \in [Workers -> Counts]
    BY <1>0, <2>1, <2>2, <2>6
  <2>8. handle' \in [Threads -> {"live", "freed"}] /\ faults' \in BOOLEAN
    BY <2>1, RequestTypes
  <2> QED BY <1>0, <1>8, <2>5, <2>7, <2>8 DEF Load, Types
<1>9. CASE Pick(t)
  <2>1. \/ Goto(t, "done") /\ UNCHANGED local
        \/ Goto(t, "lookup") /\ \E i \in Prompts : local' = [local EXCEPT ![t] = [l EXCEPT !.i = i]]
    BY <1>0, <1>9 DEF Pick
  <2>2. \A i \in Prompts : [l EXCEPT !.i = i] \in Locals
    BY DEF Locals
  <2>3. at' \in [Threads -> Places] /\ local' \in [Threads -> Locals]
    BY <1>0, <1>2, <1>3, <1>4, <2>1, <2>2
  <2> QED BY <1>0, <1>9, <2>3 DEF Pick, Types
<1>10. CASE CountRequest(t) \/ CountOutcome(t)
  <2>1. PICK c \in Counts, n \in Int : c = metrics /\ n = local[t].out
    BY <1>0, <1>1
  <2>3. /\ [c EXCEPT !.requests = @ + 1] \in Counts /\ [c EXCEPT !.errors = @ + 1] \in Counts
        /\ [c EXCEPT !.bytes_read = @ + n] \in Counts
    BY DEF Counts
  <2>4. metrics' \in Counts
    BY <1>10, <2>1, <2>3 DEF CountRequest, CountOutcome
  <2>2. at' \in [Threads -> Places]
    BY <1>2, <1>3, <1>10 DEF CountRequest, CountOutcome
  <2> QED BY <1>0, <1>10, <2>2, <2>4 DEF CountRequest, CountOutcome, Types
<1>11. CASE FreedHandle(t)
  BY <1>0, <1>11 DEF FreedHandle, Types
<1> QED BY <1>5, <1>6, <1>7, <1>8, <1>9, <1>10, <1>11 DEF ThreadStep

-----------------------------------------------------------------------------
(* The steps of a worker, once it runs. *)
WorkerStep(w) ==
    \/ BeginLookup(w) \/ Probe(w) \/ Looked(w) \/ Load(w) \/ Pick(w) \/ CountRequest(w)
    \/ CountOutcome(w)

(* Who can be at which step of Store, Lookup and Load. *)
LEMMA PlacedFacts ==
    ASSUME Types, Placed
    PROVE  /\ Main \in Threads /\ Main \notin Workers
           /\ \A w \in Workers : w \in Threads /\ w # Main /\ at[w] \in WorkerPlaces
           /\ \A w \in Workers : at[w] # "unborn" => at[Main] = "join"
           /\ at[Main] = "join" => program = "stress"
           /\ at[Main] \in {"lookup", "probe", "looked"} => program = "lookup"
           /\ at[Main] = "load" => program = "load"
           /\ at[Main] \in {"index", "stored", "store"} => program \in {"store", "stress"}
           /\ at[Main] \notin {"pick", "count", "outcome"}
           /\ program = "lookup" => at[Main] \in {"create", "lookup", "probe", "looked"}
BY ThreadsAssumption DEF Types, Placed, Threads, Commands

(* What a worker's step leaves alone. *)
LEMMA WorkerFrame ==
    ASSUME Types, NEW w \in Workers, WorkerStep(w)
    PROVE  /\ UNCHANGED <<program, cfg, entries, deadline, output, exit, taken>>
           /\ exit = "running"
           /\ at[w] \in {"lookup", "probe", "looked", "load", "pick", "count", "outcome"}
           /\ at'[w] \in WorkerPlaces \ {"unborn"}
           /\ \A x \in Threads : x # w => at'[x] = at[x] /\ local'[x] = local[x] /\ handle'[x] = handle[x]
           /\ \A x \in Workers : x # w => seen'[x] = seen[x]
           /\ faults => faults'
<1>0. w \in Threads /\ at \in [Threads -> Places] /\ local \in [Threads -> Locals]
      /\ seen \in [Workers -> Counts]
  BY DEF Types, Threads
<1>1. CASE BeginLookup(w)
  BY <1>0, <1>1 DEF BeginLookup, Running, Goto, WorkerPlaces
<1>2. CASE Probe(w)
  BY <1>0, <1>2 DEF Probe, Running, Goto, WorkerPlaces
<1>3. CASE Looked(w)
  BY <1>0, <1>3 DEF Looked, Running, Goto, WorkerPlaces
<1>4. CASE Load(w)
  <2>1. PICK ok \in BOOLEAN : Request(w, ok)
    BY <1>4 DEF Load
  <2>2. (faults => faults') /\ \A x \in Threads : x # w => handle'[x] = handle[x]
    BY <1>0, <2>1, RequestTypes
  <2>3. /\ UNCHANGED <<program, cfg, entries, deadline, output, exit, taken>>
        /\ exit = "running" /\ at[w] = "load" /\ at' = [at EXCEPT ![w] = "count"]
    BY <1>4 DEF Load, Running, Goto
  <2>4. \A x \in Threads : x # w => local'[x] = local[x]
    BY <1>0, <1>4 DEF Load
  <2>5. \A x \in Workers : x # w => seen'[x] = seen[x]
    BY <1>0, <1>4 DEF Load
  <2> QED BY <1>0, <2>2, <2>3, <2>4, <2>5 DEF WorkerPlaces
<1>5. CASE Pick(w)
  BY <1>0, <1>5 DEF Pick, Running, Goto, WorkerPlaces
<1>6. CASE CountRequest(w) \/ CountOutcome(w)
  BY <1>0, <1>6 DEF CountRequest, CountOutcome, Running, Goto, WorkerPlaces
<1> QED BY <1>1, <1>2, <1>3, <1>4, <1>5, <1>6 DEF WorkerStep

(* The steps of the main thread. *)
MainActs == MainStep \/ Deadline \/ FreedHandle(Main) \/ BeginLookup(Main) \/ Probe(Main)

WorkerActs(w) == program = "stress" /\ at[Main] = "join" /\ (WorkerStep(w) \/ FreedHandle(w))

(* Every step is one of the main thread, the clock or one worker. *)
LEMMA Steps ==
    ASSUME Types, Placed, Next
    PROVE  MainActs \/ \E w \in Workers : WorkerActs(w)
<1>1. ASSUME NEW t \in Threads, ThreadStep(t)
      PROVE  MainActs \/ \E w \in Workers : WorkerActs(w)
  <2>1. CASE t = Main
    <3>1. ~Looked(t) /\ ~Load(t)
      BY <2>1, ThreadsAssumption, Zenon DEF Looked, Load
    <3>2. ~Pick(t) /\ ~CountRequest(t) /\ ~CountOutcome(t)
      BY <2>1, PlacedFacts DEF Pick, CountRequest, CountOutcome, Running
    <3> QED BY <1>1, <2>1, <3>1, <3>2 DEF ThreadStep, MainActs
  <2>2. CASE t \in Workers
    <3>1. at[t] # "unborn"
      BY <1>1, Zenon DEF ThreadStep, BeginLookup, Probe, Looked, Load, Pick, CountRequest, CountOutcome,
             FreedHandle, Running
    <3>2. at[Main] = "join" /\ program = "stress" /\ t # Main
      BY <2>2, <3>1, PlacedFacts
    <3> QED BY <1>1, <2>2, <3>2 DEF ThreadStep, WorkerStep, WorkerActs
  <2> QED BY <2>1, <2>2 DEF Threads
<1> QED BY <1>1 DEF Next, MainActs

(* What a step of the main thread leaves alone. *)
LEMMA MainFrame ==
    ASSUME Types, Placed,
           MainActs
    PROVE  /\ UNCHANGED <<program, cfg, metrics, seen>>
           /\ exit = "running"
           /\ \A w \in Workers : local'[w] = local[w] /\ handle'[w] = handle[w]
           /\ \/ \A w \in Workers : at'[w] = at[w]
              \/ Prefilled /\ at'[Main] = "join" /\ \A w \in Workers : at'[w] = "pick"
           /\ at[Main] = "join" => at'[Main] = "join"
           /\ faults => faults'
<1>0. /\ Main \in Threads /\ Main \notin Workers /\ Workers \subseteq Threads
      /\ at \in [Threads -> Places] /\ local \in [Threads -> Locals]
  BY ThreadsAssumption DEF Types, Threads
<1>1. CASE CreateBucket
  <2>1. (faults => faults') /\ \A x \in Workers : handle'[x] = handle[x]
    <3>1. UNCHANGED <<handle, faults>> \/ \E ok \in BOOLEAN : Request(Main, ok)
      BY <1>1, Zenon DEF CreateBucket
    <3> QED BY <1>0, <3>1, RequestTypes
  <2> QED BY <1>0, <1>1, <2>1, Zenon DEF CreateBucket, Running, Goto
<1>2. CASE BadArguments \/ PrintLookup \/ PrintId \/ Report \/ Deadline \/ FreedHandle(Main)
  <2>1. UNCHANGED <<program, cfg, metrics, seen, local, handle, at, faults>> /\ exit = "running"
    BY <1>2 DEF BadArguments, PrintLookup, PrintId, Report, Deadline, FreedHandle, Running
  <2> QED BY <2>1
<1>3. CASE Store
  <2>1. (faults => faults') /\ \A x \in Workers : handle'[x] = handle[x]
    <3>1. UNCHANGED <<handle, faults>> \/ \E ok \in BOOLEAN : Request(Main, ok)
      BY <1>3 DEF Store
    <3> QED BY <1>0, <3>1, RequestTypes
  <2>2. \A x \in Workers : local'[x] = local[x] /\ at'[x] = at[x]
    BY <1>0, <1>3 DEF Store, Goto
  <2> QED BY <1>0, <1>3, <2>1, <2>2 DEF Store, Running
<1>4. CASE StoreLoop
  <2>1. \A x \in Workers : local'[x] = local[x] /\ at'[x] = at[x]
    BY <1>0, <1>4 DEF StoreLoop, Goto
  <2> QED BY <1>0, <1>4, <2>1 DEF StoreLoop, Running
<1>5. CASE Prefilled
  <2>1. \A x \in Workers : local'[x] = local[x]
    BY <1>0, <1>5 DEF Prefilled
  <2>2. \/ \A x \in Workers : at'[x] = at[x]
        \/ at'[Main] = "join" /\ \A x \in Workers : at'[x] = "pick"
    BY <1>0, <1>5 DEF Prefilled, Goto
  <2> QED BY <1>0, <1>5, <2>1, <2>2 DEF Prefilled, Running
<1>6. CASE LoadCommand
  <2>1. (faults => faults') /\ \A x \in Workers : handle'[x] = handle[x]
    BY <1>0, <1>6, RequestTypes DEF LoadCommand
  <2> QED BY <1>0, <1>6, <2>1 DEF LoadCommand, Running
<1>7. CASE BeginLookup(Main)
  BY <1>0, <1>7 DEF BeginLookup, Running, Goto
<1>8. CASE Probe(Main)
  BY <1>0, <1>8 DEF Probe, Running, Goto
<1> QED BY <1>1, <1>2, <1>3, <1>4, <1>5, <1>6, <1>7, <1>8 DEF MainActs, MainStep

(* Threads move along their program. *)
LEMMA StepPlaced ==
    ASSUME Types, Placed, MainActs \/ \E w \in Workers : WorkerActs(w)
    PROVE  Placed'
<1>0. Main \in Threads /\ at \in [Threads -> Places]
  BY DEF Types, Threads
<1>1. ASSUME NEW w \in Workers, WorkerActs(w) PROVE Placed'
  <2>1. CASE FreedHandle(w)
    BY <2>1 DEF FreedHandle, Placed, WorkerPlaces
  <2>2. CASE WorkerStep(w)
    <3>1. /\ program' = program /\ at'[w] \in WorkerPlaces
          /\ \A x \in Threads : x # w => at'[x] = at[x]
      BY <2>2, WorkerFrame
    <3>2. /\ at'[Main] = at[Main] /\ \A x \in Workers : x # w => at'[x] = at[x]
      BY <3>1, PlacedFacts
    <3>3. \A x \in Workers : at'[x] \in WorkerPlaces
      BY <3>1, <3>2, PlacedFacts
    <3> QED BY <1>1, <3>1, <3>2, <3>3 DEF Placed, WorkerActs, WorkerPlaces
  <2> QED BY <1>1, <2>1, <2>2 DEF WorkerActs
<1>2. CASE MainActs
  <2>1. /\ program' = program
        /\ \/ \A w \in Workers : at'[w] = at[w]
           \/ at'[Main] = "join" /\ \A w \in Workers : at'[w] = "pick"
        /\ at[Main] = "join" => at'[Main] = "join"
    BY <1>2, MainFrame
  <2>2. \A w \in Workers : at'[w] \in WorkerPlaces /\ (at'[Main] # "join" => at'[w] = "unborn")
    BY <2>1 DEF Placed, WorkerPlaces
  <2> DEFINE Allowed(place) ==
        /\ program = "stress" => place \in {"create", "store", "index", "stored", "join"}
        /\ program = "store" => place \in {"create", "store", "index", "stored"}
        /\ program = "lookup" => place \in {"create", "lookup", "probe", "looked"}
        /\ program = "load" => place \in {"create", "load"}
        /\ program = "stats" => place \in {"create", "stats"}
  <2>3. Allowed(at[Main]) /\ program \in Commands
    BY DEF Placed, Types
  <2>4. Allowed(at'[Main])
    <3>1. CASE at'[Main] = at[Main]
      BY <2>3, <3>1
    <3>2. CASE CreateBucket
      BY <1>0, <2>3, <3>1, <3>2, Zenon DEF CreateBucket, Goto, Started, Commands
    <3>3. CASE Store
      BY <1>0, <2>3, <3>3 DEF Store, Running, Goto
    <3>4. CASE StoreLoop
      BY <1>0, <2>3, <3>1, <3>4 DEF StoreLoop, Running, Goto
    <3>5. CASE Prefilled
      BY <1>0, <2>3, <3>5 DEF Prefilled, Running, Goto
    <3>6. CASE BeginLookup(Main)
      BY <1>0, <2>3, <3>6 DEF BeginLookup, Running, Goto
    <3>7. CASE Probe(Main)
      BY <1>0, <2>3, <3>1, <3>7 DEF Probe, Running, Goto
    <3>8. CASE BadArguments \/ PrintLookup \/ PrintId \/ Report \/ Deadline \/ FreedHandle(Main)
               \/ LoadCommand
      BY <3>1, <3>8 DEF BadArguments, PrintLookup, PrintId, Report, Deadline, FreedHandle, LoadCommand
    <3> QED BY <1>2, <3>2, <3>3, <3>4, <3>5, <3>6, <3>7, <3>8 DEF MainActs, MainStep
  <2> QED BY <2>1, <2>2, <2>4 DEF Placed, WorkerPlaces
<1> QED BY <1>1, <1>2

(* The command line tells the truth about its one request. *)
LEMMA StepCommand ==
    ASSUME Types, Placed, CommandOK, MainActs \/ \E w \in Workers : WorkerActs(w)
    PROVE  CommandOK'
<1>0. Main \in Threads /\ at \in [Threads -> Places] /\ local \in [Threads -> Locals]
      /\ program \in Commands /\ handle \in [Threads -> {"live", "freed"}]
  BY DEF Types, Threads
<1>1. ASSUME NEW w \in Workers, WorkerActs(w) PROVE CommandOK'
  <2>1. program = "stress" /\ program' = program
    BY <1>1, WorkerFrame DEF WorkerActs, FreedHandle
  <2> QED BY <2>1 DEF CommandOK
<1>2. CASE MainActs
  <2>1. program' = program /\ exit = "running"
    BY <1>2, MainFrame
  <2> SUFFICES ASSUME program # "stress" PROVE CommandOK'
    BY <2>1 DEF CommandOK
  <2>2. /\ at[Main] \in {"create", "store", "load"} => handle[Main] = "live"
        /\ program = "store" =>
              /\ local[Main].i = 0
              /\ at[Main] \in {"create", "store"} => taken = {}
              /\ at[Main] \in {"index", "stored"} => (local[Main].ok <=> 0 \in taken)
    BY <2>1 DEF CommandOK
  <2>3. CASE CreateBucket
    <3>1. /\ UNCHANGED <<local, taken, output>> /\ at[Main] = "create"
          /\ \/ exit' = "running" /\ handle' = handle /\ at'[Main] = program
             \/ exit' = "1" /\ at' = at
      BY <1>0, <2>1, <2>3, RequestTypes, Zenon DEF CreateBucket, Running, Goto, Started
    <3> QED BY <2>1, <2>2, <3>1 DEF CommandOK
  <2>4. CASE BadArguments
    BY <2>1, <2>2, <2>4 DEF BadArguments, CommandOK
  <2>5. CASE Store
    <3>1. PICK ok \in BOOLEAN :
            /\ Request(Main, ok) /\ taken' = IF ok THEN taken \union {local[Main].i} ELSE taken
            /\ local' = [local EXCEPT ![Main].ok = ok, ![Main].prefix_len = cfg.block_size]
            /\ at'[Main] \in {"index", "stored"}
      BY <1>0, <2>5, Zenon DEF Store, Goto
    <3>2. local'[Main].i = local[Main].i /\ local'[Main].ok = ok
      BY <1>0, <3>1 DEF Locals
    <3>3. exit' = "running" /\ output' = output /\ at[Main] = "store"
      BY <2>1, <2>5 DEF Store, Running
    <3>4. program = "store"
      BY <3>3, PlacedFacts
    <3> QED BY <2>1, <2>2, <3>1, <3>2, <3>3, <3>4 DEF CommandOK
  <2>6. CASE StoreLoop
    <3>1. at[Main] = "index" /\ at'[Main] \in {"index", "stored"} /\ UNCHANGED <<handle, output, exit, taken>>
      BY <1>0, <2>6 DEF StoreLoop, Running, Goto
    <3>2. local'[Main].i = local[Main].i /\ local'[Main].ok = local[Main].ok
      BY <1>0, <2>6 DEF StoreLoop, Locals
    <3>3. program = "store"
      BY <3>1, PlacedFacts
    <3> QED BY <2>1, <2>2, <3>1, <3>2, <3>3 DEF CommandOK
  <2>7. CASE Prefilled
    BY <2>7 DEF Prefilled
  <2>8. CASE PrintId
    <3>1. /\ program = "store" /\ at[Main] = "stored" /\ UNCHANGED <<at, local, handle, taken>>
          /\ exit' = "0" /\ output'.id = IF local[Main].ok THEN "obj_id" ELSE ""
      BY <2>8 DEF PrintId, Running, Types
    <3> QED BY <2>1, <2>2, <3>1 DEF CommandOK
  <2>9. CASE PrintLookup
    BY <2>1, <2>2, <2>9 DEF PrintLookup, CommandOK
  <2>10. CASE LoadCommand
    <3>1. at[Main] = "load" /\ program = "load"
      BY <2>10, PlacedFacts DEF LoadCommand, Running
    <3>2. PICK ok, written \in BOOLEAN : local' = [local EXCEPT ![Main].ok = ok]
                                         /\ exit' = IF ok /\ written THEN "0" ELSE "1"
      BY <2>10, Zenon DEF LoadCommand
    <3>3. local'[Main].ok = ok
      BY <1>0, <3>2 DEF Locals
    <3> QED BY <2>1, <3>1, <3>2, <3>3 DEF CommandOK
  <2>11. CASE Report
    BY <2>11, PlacedFacts DEF Report, Running
  <2>12. CASE Deadline
    BY <2>12, PlacedFacts DEF Deadline, Running
  <2>13. CASE FreedHandle(Main)
    BY <2>2, <2>13 DEF FreedHandle
  <2>14. CASE BeginLookup(Main) \/ Probe(Main)
    <3>1. program = "lookup" /\ UNCHANGED <<exit, handle>> /\ at'[Main] \notin {"create", "store", "load"}
      BY <1>0, <2>14, PlacedFacts DEF BeginLookup, Probe, Running, Goto
    <3> QED BY <2>1, <3>1 DEF CommandOK
  <2> QED BY <1>2, <2>3, <2>4, <2>5, <2>6, <2>7, <2>8, <2>9, <2>10, <2>11, <2>12, <2>13, <2>14
          DEF MainActs, MainStep
<1> QED BY <1>1, <1>2

(* Main reports after the join, when the counters are final. *)
LEMMA StepReported ==
    ASSUME Types, Placed, Reported, MainActs \/ \E w \in Workers : WorkerActs(w)
    PROVE  Reported'
<1>1. ASSUME NEW w \in Workers, WorkerActs(w) PROVE Reported'
  <2>1. exit' # "0"
    BY <1>1, WorkerFrame DEF WorkerActs, FreedHandle
  <2> QED BY <2>1 DEF Reported
<1>2. CASE MainActs
  <2>1. program' = program /\ exit = "running"
    BY <1>2, MainFrame
  <2> SUFFICES ASSUME program = "stress", exit' = "0" PROVE Reported'
    BY <2>1 DEF Reported
  <2>2. at[Main] \in {"create", "store", "index", "stored", "join"}
    BY DEF Placed
  <2>3. Report
    BY <1>2, <2>1, <2>2, Zenon DEF MainActs, MainStep, CreateBucket, BadArguments, Store, StoreLoop, Prefilled,
          PrintId, PrintLookup, LoadCommand, Deadline, FreedHandle, BeginLookup, Probe, Running
  <2>4. Joined /\ at' = at /\ metrics' = metrics /\ output' = [output EXCEPT !.counts = metrics]
    BY <2>3 DEF Report
  <2>5. output'.counts = metrics'
    BY <2>4 DEF Types
  <2> QED BY <2>4, <2>5 DEF Reported, Joined
<1> QED BY <1>1, <1>2

(* Fits depends on the options alone. *)
LEMMA FitsFacts ==
    ASSUME Types
    PROVE  /\ Limit \in Int /\ Limit <= PromptLen /\ PromptLen \in Nat /\ cfg.block_size \in Int
           /\ Fits => cfg.block_size >= 1 /\ cfg.block_size <= Limit /\ ~TooShort
           /\ ~Fits => cfg.block_size <= 0 \/ cfg.block_size > Limit
<1>1. cfg.block_size \in Int /\ cfg.max_len \in Int /\ PromptLen \in Nat
  BY OptionFacts, ObjectsAssumption DEF Types
<1>2. Limit \in Int /\ Limit <= PromptLen
  BY <1>1 DEF Limit
<1> QED BY <1>1, <1>2 DEF Fits, TooShort

(* The prefill indexes the first block of each prompt it stores. *)
LEMMA StepPrefill ==
    ASSUME Types, Placed, PrefillOK, MainActs \/ \E w \in Workers : WorkerActs(w)
    PROVE  PrefillOK'
<1>0. /\ Main \in Threads /\ at \in [Threads -> Places] /\ local \in [Threads -> Locals]
      /\ entries \in [Prompts -> SUBSET Int] /\ local[Main].i \in Prompts
      /\ local[Main].prefix_len \in Int
  BY DEF Types, Threads, Locals
<1>1. ASSUME NEW w \in Workers, WorkerActs(w) PROVE PrefillOK'
  <2>1. w # Main
    BY ThreadsAssumption
  <2>2. /\ UNCHANGED <<program, cfg, entries>> /\ at'[Main] = at[Main] /\ local'[Main] = local[Main]
        /\ faults => faults'
    BY <1>0, <1>1, <2>1, WorkerFrame DEF WorkerActs, FreedHandle
  <2> QED BY <2>2 DEF PrefillOK, Fits, Limit
<1>2. CASE MainActs
  <2>1. program' = program /\ cfg' = cfg /\ (faults => faults')
    BY <1>2, MainFrame
  <2> SUFFICES ASSUME program = "stress", ~faults', Fits PROVE PrefillOK'
    BY <2>1 DEF PrefillOK, Fits, Limit
  <2>2. /\ \A j \in Prompts : j < local[Main].i \/ at[Main] = "join" => cfg.block_size \in entries[j]
        /\ at[Main] = "index" => local[Main].prefix_len = cfg.block_size
                                 \/ cfg.block_size \in entries[local[Main].i]
        /\ at[Main] = "stored" => cfg.block_size \in entries[local[Main].i]
    BY <2>1 DEF PrefillOK
  <2>3. at[Main] \in {"create", "store", "index", "stored", "join"}
    BY DEF Placed
  <2>4. CASE entries' = entries /\ local' = local /\ at'[Main] = at[Main]
    BY <2>1, <2>2, <2>4 DEF PrefillOK
  <2>5. CASE CreateBucket
    <3>1. entries' = entries /\ local' = local /\ at'[Main] \in {"store", at[Main]}
      BY <1>0, <2>5, Zenon DEF CreateBucket, Goto, Started
    <3> QED BY <2>1, <2>2, <2>4, <3>1 DEF PrefillOK
  <2>6. CASE Store
    <3>1. PICK ok \in BOOLEAN :
            /\ ok \/ Request(Main, ok)
            /\ local' = [local EXCEPT ![Main].ok = ok, ![Main].prefix_len = cfg.block_size]
            /\ Goto(Main, IF ok /\ ~TooShort THEN "index" ELSE "stored")
      BY <2>6, Zenon DEF Store
    <3>2. ok
      BY <1>0, <3>1, RequestTypes
    <3>3. at'[Main] = "index"
      BY <1>0, <3>1, <3>2, FitsFacts DEF Goto
    <3>4. local'[Main].i = local[Main].i /\ local'[Main].prefix_len = cfg.block_size
      BY <1>0, <3>1 DEF Locals
    <3>5. entries' = entries /\ at[Main] = "store"
      BY <2>6 DEF Store, Running
    <3> QED BY <2>1, <2>2, <3>3, <3>4, <3>5 DEF PrefillOK
  <2>7. CASE StoreLoop
    <3> PICK i \in Prompts, n \in Int : i = local[Main].i /\ n = local[Main].prefix_len
      BY <1>0
    <3>1. at[Main] = "index"
      BY <2>7 DEF StoreLoop, Running
    <3>2. CASE n <= PromptLen
      <4>1. /\ entries' = [entries EXCEPT ![i] = @ \union {n}] /\ at' = at
            /\ local' = [local EXCEPT ![Main].prefix_len = n + cfg.block_size]
        BY <2>7, <3>2 DEF StoreLoop
      <4>2. local'[Main].i = i
        BY <1>0, <4>1 DEF Locals
      <4>3. \A j \in Prompts : entries[j] \subseteq entries'[j]
        BY <1>0, <4>1
      <4>4. n \in entries'[i]
        BY <1>0, <4>1
      <4>5. cfg.block_size \in entries'[i]
        BY <2>2, <3>1, <4>3, <4>4
      <4> QED BY <2>1, <2>2, <3>1, <4>1, <4>2, <4>3, <4>5 DEF PrefillOK
    <3>3. CASE ~(n <= PromptLen)
      <4>1. entries' = entries /\ local' = local /\ at'[Main] = "stored"
        BY <1>0, <2>7, <3>3 DEF StoreLoop, Goto
      <4>2. n # cfg.block_size
        BY <3>3, FitsFacts
      <4>3. cfg.block_size \in entries[i]
        BY <2>2, <3>1, <4>2
      <4> QED BY <2>1, <2>2, <4>1, <4>3 DEF PrefillOK
    <3> QED BY <3>2, <3>3
  <2>8. CASE Prefilled
    <3> PICK i \in Prompts : i = local[Main].i
      BY <1>0
    <3>1. at[Main] = "stored" /\ entries' = entries
      BY <2>8 DEF Prefilled, Running
    <3>2. i \in Int /\ Objects \in Nat /\ \A j \in Prompts : j \in Int /\ j <= Objects - 1
      BY ObjectsAssumption DEF Prompts
    <3>3. \A j \in Prompts : j <= i => cfg.block_size \in entries[j]
      BY <2>2, <3>1, <3>2
    <3>4. CASE i + 1 < Objects
      <4>1. at'[Main] = "store" /\ local' = [local EXCEPT ![Main].i = i + 1]
        BY <1>0, <2>8, <3>4 DEF Prefilled, Goto
      <4>2. local'[Main].i = i + 1
        BY <1>0, <4>1 DEF Locals
      <4>3. \A j \in Prompts : j < i + 1 => cfg.block_size \in entries[j]
        BY <3>2, <3>3
      <4> QED BY <2>1, <3>1, <4>1, <4>2, <4>3 DEF PrefillOK
    <3>5. CASE ~(i + 1 < Objects)
      <4>1. at'[Main] = "join" /\ local' = local
        BY <1>0, <2>8, <3>5 DEF Prefilled
      <4>2. \A j \in Prompts : cfg.block_size \in entries[j]
        BY <3>2, <3>3, <3>5
      <4> QED BY <2>1, <3>1, <4>1, <4>2 DEF PrefillOK
    <3> QED BY <3>4, <3>5
  <2>9. CASE Report \/ Deadline \/ FreedHandle(Main)
    BY <2>4, <2>9 DEF Report, Deadline, FreedHandle
  <2>10. ~BadArguments /\ ~PrintId /\ ~PrintLookup /\ ~LoadCommand /\ ~BeginLookup(Main) /\ ~Probe(Main)
    BY <2>3 DEF BadArguments, PrintId, PrintLookup, LoadCommand, BeginLookup, Probe, Running
  <2> QED BY <1>2, <2>5, <2>6, <2>7, <2>8, <2>9, <2>10 DEF MainActs, MainStep
<1> QED BY <1>1, <1>2

(* Without a failed request, the Lookups of a worker all hit or all miss. *)
LEMMA StepWorker ==
    ASSUME Types, Placed, PrefillOK, NEW x \in Workers, WorkerOK(x),
           MainActs \/ \E w \in Workers : WorkerActs(w)
    PROVE  WorkerOK(x)'
<1>0. /\ x \in Threads /\ at \in [Threads -> Places] /\ local \in [Threads -> Locals]
      /\ seen \in [Workers -> Counts] /\ local[x] \in Locals /\ seen[x] \in Counts
  BY DEF Types, Threads
<1>1. ASSUME UNCHANGED <<program, cfg>>, faults => faults', local'[x] = local[x], seen'[x] = seen[x],
             at'[x] \in {at[x], "pick"}
      PROVE  WorkerOK(x)'
  BY <1>1 DEF WorkerOK, Fits, Limit
<1>2. CASE MainActs
  <2>1. /\ UNCHANGED <<program, cfg>> /\ (faults => faults')
        /\ local'[x] = local[x] /\ seen'[x] = seen[x] /\ at'[x] \in {at[x], "pick"}
    BY <1>2, MainFrame
  <2> QED BY <1>1, <2>1
<1>3. ASSUME NEW w \in Workers, WorkerActs(w), w # x PROVE WorkerOK(x)'
  BY <1>0, <1>1, <1>3, WorkerFrame DEF WorkerActs, FreedHandle
<1>4. CASE WorkerActs(x)
  <2>1. CASE FreedHandle(x)
    BY <1>1, <2>1 DEF FreedHandle
  <2>2. CASE WorkerStep(x)
    <3>1. UNCHANGED <<program, cfg, entries>> /\ (faults => faults')
      BY <2>2, WorkerFrame
    <3>2. Fits' <=> Fits
      BY <3>1 DEF Fits, Limit
    <3> SUFFICES ASSUME ~faults' PROVE WorkerOK(x)'
      BY DEF WorkerOK
    <3>3. /\ program = "stress" /\ at[Main] = "join" /\ ~faults
      BY <1>4, <3>1 DEF WorkerActs
    <3>4. CASE BeginLookup(x)
      <4>1. /\ at'[x] = IF TooShort THEN "looked" ELSE "probe"
            /\ seen' = seen
        BY <1>0, <3>4 DEF BeginLookup, Goto
      <4>2. local'[x].prefix_len = cfg.block_size /\ local'[x].hit = 0
        BY <1>0, <3>4 DEF BeginLookup, Locals
      <4>3. ~TooShort => cfg.block_size >= 0
        BY FitsFacts DEF TooShort
      <4>4. Fits => cfg.block_size >= 1 /\ ~TooShort
        BY FitsFacts
      <4> QED BY <3>1, <3>2, <3>3, <4>1, <4>2, <4>3, <4>4 DEF WorkerOK
    <3>5. CASE Probe(x)
      <4> PICK n \in Int, i \in Prompts : n = local[x].prefix_len /\ i = local[x].i
        BY <1>0 DEF Locals
      <4>0. at[x] = "probe" /\ seen' = seen
        BY <3>5 DEF Probe, Running
      <4>1. CASE Covered(x, n)
        <5>1. at' = at /\ local' = [local EXCEPT ![x].hit = n, ![x].prefix_len = n + cfg.block_size]
          BY <3>5, <4>1 DEF Probe
        <5>2. local'[x].hit = n /\ local'[x].prefix_len = n + cfg.block_size
          BY <1>0, <5>1 DEF Locals
        <5>3. n <= Limit
          BY <4>1 DEF Covered
        <5>4. Fits => n >= 1 /\ n + cfg.block_size >= 1
          BY <3>3, <4>0, FitsFacts DEF WorkerOK
        <5>5. ~Fits => n = 0 /\ cfg.block_size = 0
          BY <3>3, <4>0, <5>3, FitsFacts DEF WorkerOK
        <5> QED BY <3>1, <3>2, <3>3, <4>0, <5>1, <5>2, <5>4, <5>5 DEF WorkerOK
      <4>2. CASE ~Covered(x, n)
        <5>1. at'[x] = "looked" /\ local' = local
          BY <1>0, <3>5, <4>2 DEF Probe, Goto
        <5>2. Fits => local[x].hit # 0
          <6> SUFFICES ASSUME Fits, local[x].hit = 0 PROVE FALSE
            OBVIOUS
          <6>1. n = cfg.block_size
            BY <3>3, <4>0 DEF WorkerOK
          <6>2. n \in entries[i]
            BY <3>3, <6>1 DEF PrefillOK
          <6>3. n <= Limit
            BY <6>1, FitsFacts
          <6> QED BY <4>2, <6>2, <6>3 DEF Covered
        <5>3. ~Fits => local[x].hit = 0
          BY <3>3, <4>0 DEF WorkerOK
        <5> QED BY <3>1, <3>2, <3>3, <4>0, <5>1, <5>2, <5>3 DEF WorkerOK
      <4> QED BY <4>1, <4>2
    <3>6. CASE Looked(x)
      <4>0. at[x] = "looked"
        BY <3>6 DEF Looked, Running
      <4>1. CASE Fits
        <5>1. local[x].hit # 0 /\ seen[x].errors = 0
          BY <3>3, <4>0, <4>1 DEF WorkerOK
        <5>2. at'[x] = "load" /\ seen' = seen
          BY <1>0, <3>6, <5>1 DEF Looked, Goto
        <5> QED BY <3>1, <3>2, <4>1, <5>1, <5>2 DEF WorkerOK
      <4>2. CASE ~Fits
        <5>1. local[x].hit = 0 /\ seen[x].errors = seen[x].requests
          BY <3>3, <4>0, <4>2 DEF WorkerOK
        <5>2. at'[x] = "count" /\ seen'[x] = Plus(seen[x], FALSE, 0)
          BY <1>0, <3>6, <5>1 DEF Looked, Goto
        <5>3. ~local'[x].ok
          BY <1>0, <3>6 DEF Looked, Locals
        <5>4. seen'[x].errors = seen'[x].requests
          BY <5>1, <5>2 DEF Plus
        <5> QED BY <3>1, <3>2, <4>2, <5>2, <5>3, <5>4, Zenon DEF WorkerOK
      <4> QED BY <4>1, <4>2
    <3>7. CASE Load(x)
      <4>0. PICK ok \in BOOLEAN : \E n :
              /\ Request(x, ok)
              /\ local' = [local EXCEPT ![x].ok = ok, ![x].out = n]
              /\ seen' = [seen EXCEPT ![x] = Plus(@, ok, n)]
        BY <3>7, Zenon DEF Load
      <4>1. PICK out :
              /\ Request(x, ok)
              /\ local' = [local EXCEPT ![x].ok = ok, ![x].out = out]
              /\ seen' = [seen EXCEPT ![x] = Plus(@, ok, out)]
        BY <4>0, Zenon
      <4>2. ok
        BY <1>0, <4>1, RequestTypes
      <4>3. at[x] = "load" /\ at'[x] = "count"
        BY <1>0, <3>7 DEF Load, Running, Goto
      <4>4. Fits /\ seen[x].errors = 0
        BY <3>3, <4>3 DEF WorkerOK
      <4>5. local'[x].ok
        BY <1>0, <4>1, <4>2 DEF Locals
      <4>6. seen'[x].errors = 0
        BY <1>0, <4>1, <4>2, <4>4 DEF Plus
      <4> QED BY <3>1, <3>2, <4>3, <4>4, <4>5, <4>6 DEF WorkerOK
    <3>8. CASE Pick(x)
      <4>1. at'[x] \in {"done", "lookup"} /\ seen' = seen
        BY <1>0, <3>8 DEF Pick, Goto
      <4> QED BY <3>1, <3>2, <3>3, <4>1 DEF WorkerOK
    <3>9. CASE CountRequest(x)
      <4>1. at[x] = "count" /\ at'[x] = "outcome" /\ seen' = seen /\ local' = local
        BY <1>0, <3>9 DEF CountRequest, Running, Goto
      <4> QED BY <3>1, <3>2, <3>3, <4>1 DEF WorkerOK
    <3>10. CASE CountOutcome(x)
      <4>1. at'[x] = "pick" /\ seen' = seen
        BY <1>0, <3>10 DEF CountOutcome, Goto
      <4> QED BY <3>1, <3>2, <3>3, <4>1 DEF WorkerOK
    <3> QED BY <2>2, <3>4, <3>5, <3>6, <3>7, <3>8, <3>9, <3>10 DEF WorkerStep
  <2> QED BY <1>4, <2>1, <2>2 DEF WorkerActs
<1> QED BY <1>2, <1>3, <1>4

-----------------------------------------------------------------------------
(* What the workers have counted are integers ... *)
LEMMA CountedTypes ==
    ASSUME Types
    PROVE  /\ CountedRequests \in [Workers -> Int]
           /\ CountedErrors \in [Workers -> Int]
           /\ CountedBytes \in [Workers -> Int]
<1>1. \A w \in Workers : /\ seen[w].requests \in Int /\ seen[w].errors \in Int
                         /\ seen[w].bytes_read \in Int /\ local[w].out \in Int
  BY DEF Types, Counts, Locals, Threads
<1>2. CountedRequests \in [Workers -> Int] /\ CountedErrors \in [Workers -> Int]
  BY <1>1 DEF CountedRequests, CountedErrors
<1>3. CountedBytes \in [Workers -> Int]
  BY <1>1 DEF CountedBytes
<1> QED BY <1>2, <1>3

(* ... and stay integers. *)
LEMMA CountedTypesAfter ==
    ASSUME Types'
    PROVE  /\ CountedRequests' \in [Workers -> Int]
           /\ CountedErrors' \in [Workers -> Int]
           /\ CountedBytes' \in [Workers -> Int]
<1>1. \A w \in Workers : /\ seen'[w].requests \in Int /\ seen'[w].errors \in Int
                         /\ seen'[w].bytes_read \in Int /\ local'[w].out \in Int
  BY DEF Types, Counts, Locals, Threads
<1>2. CountedRequests' \in [Workers -> Int] /\ CountedErrors' \in [Workers -> Int]
  BY <1>1 DEF CountedRequests, CountedErrors
<1>3. CountedBytes' \in [Workers -> Int]
  BY <1>1 DEF CountedBytes
<1> QED BY <1>2, <1>3

(* What one worker adds to the counters is what its share of them grows by. *)
LEMMA CountsChange ==
    ASSUME Types, Types', CountsOK, NEW w \in Workers, NEW dr \in Int, NEW de \in Int, NEW db \in Int,
           /\ metrics'.requests = metrics.requests + dr
           /\ metrics'.errors = metrics.errors + de
           /\ metrics'.bytes_read = metrics.bytes_read + db,
           /\ CountedRequests'[w] = CountedRequests[w] + dr
           /\ CountedErrors'[w] = CountedErrors[w] + de
           /\ CountedBytes'[w] = CountedBytes[w] + db,
           \A x \in Workers : x # w => /\ CountedRequests'[x] = CountedRequests[x]
                                       /\ CountedErrors'[x] = CountedErrors[x]
                                       /\ CountedBytes'[x] = CountedBytes[x]
    PROVE  CountsOK'
<1>1. /\ CountedRequests \in [Workers -> Int] /\ CountedRequests' \in [Workers -> Int]
      /\ CountedErrors \in [Workers -> Int] /\ CountedErrors' \in [Workers -> Int]
      /\ CountedBytes \in [Workers -> Int] /\ CountedBytes' \in [Workers -> Int]
  BY CountedTypes, CountedTypesAfter
<1>2. Sum(CountedRequests') = Sum(CountedRequests) + dr
  <2>1. PICK f \in [Workers -> Int], k \in [Workers -> Int] : f = CountedRequests /\ k = CountedRequests'
    BY <1>1
  <2>2. k[w] = f[w] + dr /\ \A x \in Workers : x # w => k[x] = f[x]
    BY <2>1
  <2>3. Sum(k) = Sum(f) + dr
    BY <2>2, SumOfChanged
  <2> QED BY <2>1, <2>3
<1>3. Sum(CountedErrors') = Sum(CountedErrors) + de
  <2>1. PICK f \in [Workers -> Int], k \in [Workers -> Int] : f = CountedErrors /\ k = CountedErrors'
    BY <1>1
  <2>2. k[w] = f[w] + de /\ \A x \in Workers : x # w => k[x] = f[x]
    BY <2>1
  <2>3. Sum(k) = Sum(f) + de
    BY <2>2, SumOfChanged
  <2> QED BY <2>1, <2>3
<1>4. Sum(CountedBytes') = Sum(CountedBytes) + db
  <2>1. PICK f \in [Workers -> Int], k \in [Workers -> Int] : f = CountedBytes /\ k = CountedBytes'
    BY <1>1
  <2>2. k[w] = f[w] + db /\ \A x \in Workers : x # w => k[x] = f[x]
    BY <2>1
  <2>3. Sum(k) = Sum(f) + db
    BY <2>2, SumOfChanged
  <2> QED BY <2>1, <2>3
<1> QED BY <1>2, <1>3, <1>4 DEF CountsOK

(* fetch_add of one worker moves the sums by what it met. *)
LEMMA StepCounts ==
    ASSUME Types, Types', Placed, CountsOK, MainActs \/ \E w \in Workers : WorkerActs(w)
    PROVE  CountsOK'
<1> DEFINE Same(x) == /\ CountedRequests'[x] = CountedRequests[x]
                      /\ CountedErrors'[x] = CountedErrors[x]
                      /\ CountedBytes'[x] = CountedBytes[x]
<1>0. /\ Workers \subseteq Threads /\ at \in [Threads -> Places] /\ local \in [Threads -> Locals]
      /\ seen \in [Workers -> Counts] /\ metrics \in Counts
  BY DEF Types, Threads
<1>1. ASSUME NEW x \in Workers, at'[x] = at[x], local'[x] = local[x], seen'[x] = seen[x] PROVE Same(x)
  BY <1>1 DEF CountedRequests, CountedErrors, CountedBytes
<1>2. ASSUME NEW x \in Workers, seen'[x] = seen[x],
             at[x] \notin {"count", "outcome"}, at'[x] \notin {"count", "outcome"}
      PROVE  Same(x)
  BY <1>2 DEF CountedRequests, CountedErrors, CountedBytes
<1>3. ASSUME metrics' = metrics, \A x \in Workers : Same(x) PROVE CountsOK'
  <2>1. /\ CountedRequests' = CountedRequests /\ CountedErrors' = CountedErrors
        /\ CountedBytes' = CountedBytes
    BY <1>3, CountedTypes, CountedTypesAfter
  <2> QED BY <1>3, <2>1 DEF CountsOK
<1>4. CASE MainActs
  <2>1. /\ UNCHANGED <<metrics, seen>> /\ \A x \in Workers : local'[x] = local[x]
        /\ \/ \A x \in Workers : at'[x] = at[x]
           \/ Prefilled /\ \A x \in Workers : at'[x] = "pick"
    BY <1>4, MainFrame
  <2>2. Prefilled => \A x \in Workers : at[x] = "unborn"
    BY DEF Prefilled, Running, Placed
  <2>3. \A x \in Workers : Same(x)
    BY <1>1, <1>2, <2>1, <2>2
  <2> QED BY <1>3, <2>1, <2>3
<1>5. ASSUME NEW w \in Workers, WorkerActs(w) PROVE CountsOK'
  <2>1. CASE FreedHandle(w)
    <3>1. UNCHANGED <<at, local, seen, metrics>>
      BY <2>1 DEF FreedHandle
    <3> QED BY <1>1, <1>3, <3>1
  <2>2. CASE WorkerStep(w)
    <3>0. \A x \in Workers : x # w => Same(x)
      BY <1>0, <1>1, <2>2, WorkerFrame
    <3>1. ASSUME metrics' = metrics, Same(w) PROVE CountsOK'
      BY <1>3, <3>0, <3>1
    <3>2. /\ local[w] \in Locals /\ seen[w] \in Counts
          /\ seen[w].requests \in Int /\ seen[w].errors \in Int /\ seen[w].bytes_read \in Int
          /\ metrics.requests \in Int /\ metrics.errors \in Int /\ metrics.bytes_read \in Int
          /\ local[w].out \in Int /\ local[w].ok \in BOOLEAN
      BY <1>0 DEF Locals, Counts
    <3>3. CASE BeginLookup(w) \/ Probe(w) \/ Pick(w)
      <4>1. /\ UNCHANGED <<metrics, seen>>
            /\ at[w] \notin {"count", "outcome"} /\ at'[w] \notin {"count", "outcome"}
        BY <1>0, <3>3 DEF BeginLookup, Probe, Pick, Running, Goto
      <4> QED BY <1>2, <3>1, <4>1
    <3>4. CASE Looked(w)
      <4>0. at[w] = "looked" /\ metrics' = metrics
        BY <3>4 DEF Looked, Running
      <4>1. CASE local[w].hit # 0
        <5>1. seen' = seen /\ at'[w] = "load"
          BY <1>0, <3>4, <4>1 DEF Looked, Goto
        <5> QED BY <1>2, <3>1, <4>0, <5>1
      <4>2. CASE local[w].hit = 0
        <5>1. seen'[w] = Plus(seen[w], FALSE, 0) /\ at'[w] = "count"
          BY <1>0, <3>4, <4>2 DEF Looked, Goto
        <5>2. ~local'[w].ok
          BY <1>0, <3>4 DEF Looked, Locals
        <5>3. /\ seen'[w].requests = seen[w].requests + 1 /\ seen'[w].errors = seen[w].errors + 1
              /\ seen'[w].bytes_read = seen[w].bytes_read
          BY <3>2, <5>1 DEF Plus
        <5>4. /\ CountedRequests'[w] = seen'[w].requests - 1 /\ CountedRequests[w] = seen[w].requests - 0
              /\ CountedErrors'[w] = seen'[w].errors - 1 /\ CountedErrors[w] = seen[w].errors - 0
              /\ CountedBytes'[w] = seen'[w].bytes_read - 0 /\ CountedBytes[w] = seen[w].bytes_read - 0
          BY <4>0, <5>1, <5>2, Zenon DEF CountedRequests, CountedErrors, CountedBytes
        <5>5. Same(w)
          BY <3>2, <5>3, <5>4
        <5> QED BY <3>1, <4>0, <5>5
      <4> QED BY <4>1, <4>2
    <3>5. CASE Load(w)
      <4>0. at[w] = "load" /\ metrics' = metrics /\ at'[w] = "count"
        BY <1>0, <3>5 DEF Load, Running, Goto
      <4>1. PICK ok \in BOOLEAN :
              LET out == IF ok THEN Usable(local[w].hit) ELSE 0
              IN  /\ local' = [local EXCEPT ![w].ok = ok, ![w].out = out]
                  /\ seen' = [seen EXCEPT ![w] = Plus(@, ok, out)]
        BY <3>5, Zenon DEF Load
      <4>2. local[w].hit \in Int
        BY <1>0 DEF Locals
      <4>3. PICK out \in Int : out = IF ok THEN Usable(local[w].hit) ELSE 0
        BY <4>2, UsableType
      <4>4. local'[w].ok = ok /\ local'[w].out = out
        BY <1>0, <4>1, <4>3 DEF Locals
      <4>5. seen'[w] = Plus(seen[w], ok, out)
        BY <1>0, <4>1, <4>3
      <4>6. /\ seen'[w].requests = seen[w].requests + 1
            /\ seen'[w].errors = seen[w].errors + (IF ok THEN 0 ELSE 1)
            /\ seen'[w].bytes_read = seen[w].bytes_read + out
        BY <4>5 DEF Plus
      <4>7. Same(w)
        <5>1. /\ CountedRequests'[w] = seen'[w].requests - 1 /\ CountedRequests[w] = seen[w].requests - 0
              /\ CountedErrors'[w] = seen'[w].errors - (IF ok THEN 0 ELSE 1)
              /\ CountedErrors[w] = seen[w].errors - 0
              /\ CountedBytes'[w] = seen'[w].bytes_read - (IF ok THEN out ELSE 0)
              /\ CountedBytes[w] = seen[w].bytes_read - 0
          BY <4>0, <4>4 DEF CountedRequests, CountedErrors, CountedBytes
        <5>2. ~ok => out = 0
          BY <4>3
        <5> QED BY <3>2, <4>6, <5>1, <5>2
      <4> QED BY <3>1, <4>0, <4>7
    <3>6. CASE CountRequest(w)
      <4>1. /\ at[w] = "count" /\ at'[w] = "outcome" /\ seen' = seen /\ local' = local
            /\ metrics' = [metrics EXCEPT !.requests = @ + 1]
        BY <1>0, <3>6 DEF CountRequest, Running, Goto
      <4>2. /\ metrics'.requests = metrics.requests + 1 /\ metrics'.errors = metrics.errors + 0
            /\ metrics'.bytes_read = metrics.bytes_read + 0
        BY <1>0, <3>2, <4>1 DEF Counts
      <4>3. /\ CountedRequests'[w] = CountedRequests[w] + 1
            /\ CountedErrors'[w] = CountedErrors[w] + 0
            /\ CountedBytes'[w] = CountedBytes[w] + 0
        BY <3>2, <4>1 DEF CountedRequests, CountedErrors, CountedBytes
      <4> QED BY <3>0, <4>2, <4>3, CountsChange
    <3>7. CASE CountOutcome(w)
      <4>0. at[w] = "outcome" /\ at'[w] = "pick" /\ seen' = seen /\ local' = local
        BY <1>0, <3>7 DEF CountOutcome, Running, Goto
      <4>1. CASE local[w].ok
        <5>0. PICK out \in Int : out = local[w].out
          BY <3>2
        <5>1. metrics' = [metrics EXCEPT !.bytes_read = @ + out]
          BY <3>7, <4>1, <5>0 DEF CountOutcome
        <5>2. /\ metrics'.requests = metrics.requests + 0 /\ metrics'.errors = metrics.errors + 0
              /\ metrics'.bytes_read = metrics.bytes_read + out
          BY <1>0, <3>2, <5>1 DEF Counts
        <5>3. /\ CountedRequests'[w] = CountedRequests[w] + 0
              /\ CountedErrors'[w] = CountedErrors[w] + 0
              /\ CountedBytes'[w] = CountedBytes[w] + out
          BY <3>2, <4>0, <4>1, <5>0 DEF CountedRequests, CountedErrors, CountedBytes
        <5> QED BY <3>0, <5>2, <5>3, CountsChange
      <4>2. CASE ~local[w].ok
        <5>1. metrics' = [metrics EXCEPT !.errors = @ + 1]
          BY <3>7, <4>2 DEF CountOutcome
        <5>2. /\ metrics'.requests = metrics.requests + 0 /\ metrics'.errors = metrics.errors + 1
              /\ metrics'.bytes_read = metrics.bytes_read + 0
          BY <1>0, <3>2, <5>1 DEF Counts
        <5>3. /\ CountedRequests'[w] = CountedRequests[w] + 0
              /\ CountedErrors'[w] = CountedErrors[w] + 1
              /\ CountedBytes'[w] = CountedBytes[w] + 0
          BY <3>2, <4>0, <4>2 DEF CountedRequests, CountedErrors, CountedBytes
        <5> QED BY <3>0, <5>2, <5>3, CountsChange
      <4> QED BY <4>1, <4>2
    <3> QED BY <2>2, <3>3, <3>4, <3>5, <3>6, <3>7 DEF WorkerStep
  <2> QED BY <1>5, <2>1, <2>2 DEF WorkerActs
<1> QED BY <1>4, <1>5

-----------------------------------------------------------------------------
(* The programs start in the invariant. *)
LEMMA InitProgram == Init => ProgramInv
<1> SUFFICES ASSUME Init PROVE ProgramInv
  OBVIOUS
<1>0. 0 \in Prompts /\ Main \in Threads /\ Main \notin Workers /\ Workers \subseteq Threads
  BY ObjectsAssumption, ThreadsAssumption DEF Prompts, Threads
<1>1. /\ program \in Commands /\ cfg \in Options /\ handle = [t \in Threads |-> "live"]
      /\ at = [t \in Threads |-> IF t = Main THEN "create" ELSE "unborn"]
      /\ metrics = NoCounts /\ output = Nothing /\ exit = "running" /\ taken = {} /\ faults = FALSE
      /\ entries = [i \in Prompts |-> {}] /\ seen = [w \in Workers |-> NoCounts]
  BY ProgramsAssumption DEF Init, Commands
<1>2. /\ local = [t \in Threads |-> [i |-> 0, prefix_len |-> 0, hit |-> 0, ok |-> FALSE, out |-> 0]]
      /\ [i |-> 0, prefix_len |-> 0, hit |-> 0, ok |-> FALSE, out |-> 0] \in Locals
  BY <1>0 DEF Init, Locals
<1>3. local \in [Threads -> Locals]
  BY <1>2
<1>4. NoCounts \in Counts /\ Nothing \in [id : {"nothing", "obj_id", ""}, counts : Counts]
  BY DEF NoCounts, Counts, Nothing
<1>5. at \in [Threads -> Places] /\ handle \in [Threads -> {"live", "freed"}]
  BY <1>1 DEF Places
<1>6. Types
  BY <1>1, <1>3, <1>4, <1>5 DEF Types
<1>7. at[Main] = "create" /\ \A w \in Workers : at[w] = "unborn" /\ seen[w] = NoCounts
  BY <1>0, <1>1
<1>8. Placed
  BY <1>1, <1>7 DEF Placed, WorkerPlaces, Commands
<1>9. CommandOK
  <2>1. local[Main].i = 0
    BY <1>0, <1>2
  <2>2. handle[Main] = "live"
    BY <1>0, <1>1
  <2> QED BY <1>1, <1>7, <2>1, <2>2 DEF CommandOK
<1>10. CountsOK
  <2>1. NoCounts.requests = 0 /\ NoCounts.errors = 0 /\ NoCounts.bytes_read = 0
    BY DEF NoCounts
  <2>2. \A w \in Workers : CountedRequests[w] = 0 /\ CountedErrors[w] = 0 /\ CountedBytes[w] = 0
    BY <1>7, <2>1 DEF CountedRequests, CountedErrors, CountedBytes
  <2>3. Sum(CountedRequests) = 0 /\ Sum(CountedErrors) = 0 /\ Sum(CountedBytes) = 0
    <3>1. PICK f \in [Workers -> Int], g \in [Workers -> Int], h \in [Workers -> Int] :
            f = CountedRequests /\ g = CountedErrors /\ h = CountedBytes
      BY <1>6, CountedTypes
    <3>2. Sum(f) = 0 /\ Sum(g) = 0 /\ Sum(h) = 0
      BY <2>2, <3>1, SumOfZeros
    <3> QED BY <3>1, <3>2
  <2> QED BY <1>1, <2>1, <2>3 DEF CountsOK
<1>11. Reported
  BY <1>1 DEF Reported
<1>12. PrefillOK
  <2>1. local[Main].i = 0 /\ \A j \in Prompts : ~(j < 0)
    BY <1>0, <1>2 DEF Prompts
  <2> QED BY <1>7, <2>1 DEF PrefillOK
<1>13. \A w \in Workers : WorkerOK(w)
  BY <1>7 DEF WorkerOK, NoCounts
<1> QED BY <1>6, <1>8, <1>9, <1>10, <1>11, <1>12, <1>13 DEF ProgramInv

(* Every step keeps the invariant. *)
LEMMA StepProgram ==
    ASSUME ProgramInv, Next
    PROVE  ProgramInv'
<1>1. Types /\ Placed /\ CommandOK /\ CountsOK /\ Reported /\ PrefillOK /\ \A w \in Workers : WorkerOK(w)
  BY DEF ProgramInv
<1>2. MainActs \/ \E w \in Workers : WorkerActs(w)
  BY <1>1, Steps
<1>3. Types'
  BY <1>1, MainTypes, ThreadTypes DEF Next
<1>4. Placed' /\ CommandOK' /\ Reported' /\ PrefillOK'
  BY <1>1, <1>2, StepPlaced, StepCommand, StepReported, StepPrefill
<1>5. CountsOK'
  BY <1>1, <1>2, <1>3, StepCounts
<1>6. \A w \in Workers : WorkerOK(w)'
  BY <1>1, <1>2, StepWorker
<1> QED BY <1>3, <1>4, <1>5, <1>6 DEF ProgramInv

(* Nothing changes, nothing breaks. *)
LEMMA IdleProgram ==
    ASSUME ProgramInv, UNCHANGED vars
    PROVE  ProgramInv'
<1>1. UNCHANGED <<program, cfg, at, local, handle, entries, metrics, deadline, output, exit, taken,
                  seen, faults>>
  BY DEF vars
<1>2. Types' /\ Placed'
  BY <1>1 DEF ProgramInv, Types, Placed, Threads, Counts, Locals, Places, Commands, WorkerPlaces
<1>3. CommandOK' /\ Reported'
  BY <1>1 DEF ProgramInv, CommandOK, Reported, Joined
<1>4. PrefillOK' /\ \A w \in Workers : WorkerOK(w)'
  BY <1>1 DEF ProgramInv, PrefillOK, WorkerOK, Fits, Limit
<1>5. CountedRequests' = CountedRequests /\ CountedErrors' = CountedErrors /\ CountedBytes' = CountedBytes
  BY <1>1 DEF CountedRequests, CountedErrors, CountedBytes
<1>6. CountsOK'
  BY <1>1, <1>5 DEF ProgramInv, CountsOK
<1> QED BY <1>2, <1>3, <1>4, <1>6 DEF ProgramInv

(* The invariant of both programs, for every interleaving of the workers. *)
THEOREM ProgramsInvariant == Spec => []ProgramInv
<1>1. ProgramInv /\ [Next]_vars => ProgramInv'
  BY StepProgram, IdleProgram
<1> QED BY <1>1, InitProgram, PTL DEF Spec

(* With every worker joined, the counters are the totals of what they met. *)
LEMMA MetricsAreTotals ==
    ASSUME ProgramInv, Joined
    PROVE  /\ metrics.requests = Total("requests") /\ metrics.errors = Total("errors")
           /\ metrics.bytes_read = Total("bytes_read")
           /\ CountedRequests = SeenBy("requests") /\ CountedErrors = SeenBy("errors")
<1>0. Types /\ CountsOK
  BY DEF ProgramInv
<1>1. \A w \in Workers : /\ seen[w].requests \in Int /\ seen[w].errors \in Int
                         /\ seen[w].bytes_read \in Int /\ at[w] = "done"
  BY <1>0 DEF Types, Counts, Joined
<1>2. /\ CountedRequests = SeenBy("requests") /\ CountedErrors = SeenBy("errors")
      /\ CountedBytes = SeenBy("bytes_read")
  BY <1>1 DEF CountedRequests, CountedErrors, CountedBytes, SeenBy
<1>3. /\ SeenBy("requests") \in [Workers -> Int] /\ SeenBy("errors") \in [Workers -> Int]
      /\ SeenBy("bytes_read") \in [Workers -> Int]
  BY <1>0, <1>2, CountedTypes
<1>4. /\ Total("requests") = Sum(SeenBy("requests")) /\ Total("errors") = Sum(SeenBy("errors"))
      /\ Total("bytes_read") = Sum(SeenBy("bytes_read"))
  <2>1. Total("requests") = Sum(SeenBy("requests"))
    BY <1>3, TotalIsSum
  <2>2. Total("errors") = Sum(SeenBy("errors"))
    BY <1>3, TotalIsSum
  <2>3. Total("bytes_read") = Sum(SeenBy("bytes_read"))
    BY <1>3, TotalIsSum
  <2> QED BY <2>1, <2>2, <2>3
<1> QED BY <1>0, <1>2, <1>4 DEF CountsOK

(* The stress tool's report adds up: every request of every worker is in the   *)
(* totals once, since main reads the three atomics only after join.            *)
THEOREM ReportIsComplete == Spec => []ReportAddsUp
<1>1. ASSUME ProgramInv PROVE ReportAddsUp
  <2> SUFFICES ASSUME program = "stress", exit = "0"
               PROVE  output.counts = [f \in DOMAIN NoCounts |-> Total(f)]
    BY DEF ReportAddsUp
  <2>1. Joined /\ output.counts = metrics /\ metrics \in Counts
    BY <1>1 DEF ProgramInv, Reported, Types
  <2>2. /\ metrics.requests = Total("requests") /\ metrics.errors = Total("errors")
        /\ metrics.bytes_read = Total("bytes_read")
    BY <1>1, <2>1, MetricsAreTotals
  <2>3. DOMAIN NoCounts = {"requests", "errors", "bytes_read"}
    BY DEF NoCounts
  <2>4. metrics = [f \in {"requests", "errors", "bytes_read"} |-> metrics[f]]
    BY <2>1 DEF Counts
  <2>5. \A f \in {"requests", "errors", "bytes_read"} : metrics[f] = Total(f)
    BY <2>2
  <2> HIDE DEF Total
  <2> QED BY <2>1, <2>3, <2>4, <2>5
<1> QED BY <1>1, ProgramsInvariant, PTL

(* Without a failed request, the stress tool reports errors if and only if the *)
(* options make every Lookup miss, and then for every request.                 *)
THEOREM ErrorsComeFromOptions == Spec => []ErrorsHaveACause
<1>1. ASSUME ProgramInv PROVE ErrorsHaveACause
  <2> SUFFICES ASSUME program = "stress", exit = "0", ~faults
               PROVE  output.counts.errors =
                         IF cfg.block_size \in 1..Limit THEN 0 ELSE output.counts.requests
    BY DEF ErrorsHaveACause
  <2>1. Joined /\ output.counts = metrics /\ Types /\ CountsOK
    BY <1>1 DEF ProgramInv, Reported
  <2>2. CountedRequests = SeenBy("requests") /\ CountedErrors = SeenBy("errors")
    BY <1>1, <2>1, MetricsAreTotals
  <2>3. CASE Fits
    <3>1. \A w \in Workers : seen[w].errors = 0
      BY <1>1, <2>3 DEF ProgramInv, WorkerOK
    <3>2. \A w \in Workers : CountedErrors[w] = 0
      BY <2>2, <3>1 DEF SeenBy
    <3>3. PICK f \in [Workers -> Int] : f = CountedErrors
      BY <2>1, CountedTypes
    <3>4. Sum(f) = 0
      BY <3>2, <3>3, SumOfZeros
    <3> QED BY <2>1, <2>3, <3>3, <3>4 DEF CountsOK, Fits
  <2>4. CASE ~Fits
    <3>1. \A w \in Workers : seen[w].errors = seen[w].requests
      BY <1>1, <2>4 DEF ProgramInv, WorkerOK
    <3>2. CountedErrors = CountedRequests
      BY <2>2, <3>1 DEF SeenBy
    <3> QED BY <2>1, <2>4, <3>2 DEF CountsOK, Fits
  <2> QED BY <2>3, <2>4
<1> QED BY <1>1, ProgramsInvariant, PTL

(* The command line's output and exit code tell what happened, and it makes no *)
(* request on a handle that a failed one freed.                                *)
THEOREM CommandsTellTheTruth == Spec => []CliTellsTheTruth
<1>1. ASSUME ProgramInv PROVE CliTellsTheTruth
  <2>1. Types /\ Placed /\ CommandOK
    BY <1>1 DEF ProgramInv
  <2> QED BY <2>1 DEF CommandOK, CliTellsTheTruth
<1> QED BY <1>1, ProgramsInvariant, PTL
=============================================================================
