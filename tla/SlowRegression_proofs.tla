----------------------- MODULE SlowRegression_proofs -----------------------
(***************************************************************************)
(* What a slow run reports is true, its fixtures are released and its      *)
(* seeds are explored, for any topology, scenarios, router and evaluator.  *)
(***************************************************************************)
EXTENDS SlowRegression, SequenceTheorems, FiniteSetTheorems, WellFoundedInduction, TLAPS

----------------------------------------------------------------------------
(* Numbers, ranks and recursion *)

\* A non-empty set of naturals has a least element.
LEMMA LeastElement ==
  ASSUME NEW T \in SUBSET Nat, T # {}
  PROVE  \E x \in T : \A y \in T : x <= y
<1>1. PICK R : R = OpToRel(<, Nat)
  OBVIOUS
<1>2. IsWellFoundedOn(R, Nat)
  BY <1>1, NatLessThanWellFounded
<1>3. PICK x \in T : \A y \in T : ~ (<<y, x>> \in R)
  BY <1>2, WFMin
<1>4. \A y \in T : y < x => <<y, x>> \in R
  BY <1>1 DEF OpToRel
<1>5. \A y \in T : ~(y < x) /\ x \in Nat /\ y \in Nat
  BY <1>3, <1>4
<1>6. \A y \in T : x <= y
  BY <1>5, SMT
<1>. QED
  BY <1>6

GoesOn(f, a, n, next) == f[0] = a /\ \A k \in 1..n : f[k] = next[<<k, f[k - 1]>>]

Closed(A, n, next) == \A k \in 1..n, x \in A : next[<<k, x>>] \in A

\* Recursion along an interval: there is a function that starts with a and goes
\* on as next says.
LEMMA RecursionExists ==
  ASSUME NEW A, NEW a \in A, NEW n \in Nat, NEW next,
         Closed(A, n, next)
  PROVE  \E f \in [0..n -> A] : GoesOn(f, a, n, next)
<1>. USE DEF GoesOn
<1>. DEFINE Upto(m) == {f \in [0..m -> A] : GoesOn(f, a, m, next)}
            Bad     == {m \in 0..n : Upto(m) = {}}
<1>1. SUFFICES ASSUME Bad # {} PROVE FALSE
  <2>1. Upto(n) # {}
    BY <1>1
  <2>. QED
    BY <2>1
<1>2. PICK m \in Bad : \A y \in Bad : m <= y
  <2>1. Bad \in SUBSET Nat
    OBVIOUS
  <2>. QED
    BY <1>1, <2>1, LeastElement
<1>3. m # 0
  <2>1. [k \in 0..0 |-> a] \in Upto(0)
    OBVIOUS
  <2>. QED
    BY <1>2, <2>1
<1>4. m \in 1..n /\ m - 1 \in 0..n /\ m - 1 \notin Bad
  BY <1>2, <1>3
<1>5. PICK f \in Upto(m - 1) : TRUE
  BY <1>4
<1>. DEFINE g == [k \in 0..m |-> IF k = m THEN next[<<m, f[m - 1]>>] ELSE f[k]]
<1>6. f[m - 1] \in A
  BY <1>4, <1>5
<1>7. next[<<m, f[m - 1]>>] \in A
  BY <1>4, <1>6 DEF Closed
<1>8. g \in [0..m -> A] /\ g[0] = a
  BY <1>4, <1>5, <1>7
<1>9. \A k \in 1..m : g[k] = next[<<k, g[k - 1]>>]
  <2>. TAKE k \in 1..m
  <2>1. k - 1 \in 0..m /\ k - 1 # m /\ g[k - 1] = f[k - 1]
    BY <1>4
  <2>2. CASE k = m
    BY <2>1, <2>2
  <2>3. CASE k # m
    <3>1. k \in 1..(m - 1) /\ g[k] = f[k]
      BY <1>4, <2>3
    <3>. QED
      BY <1>5, <2>1, <3>1
  <2>. QED
    BY <2>2, <2>3
<1>. QED
  BY <1>2, <1>8, <1>9

\* n * d + r is divided by d with n and r as quotient and remainder.
LEMMA Division ==
  ASSUME NEW d \in Nat \ {0}, NEW n \in Nat, NEW r \in 0..(d - 1)
  PROVE  (n * d + r) \div d = n /\ (n * d + r) % d = r
<1>. DEFINE x == n * d + r
            q == x \div d
<1>1. x \in Nat /\ q \in Nat /\ d * q <= x /\ x < d * (q + 1)
  BY SMT
<1>2. d * q <= d * n + r /\ d * n + r < d * q + d /\ r < d
  BY <1>1, SMT
<1>3. ~(q > n)
  <2>1. q > n => d * (n + 1) <= d * q
    BY <1>1, SMT
  <2>. QED
    BY <1>1, <1>2, <2>1, SMT
<1>4. ~(q < n)
  <2>1. q < n => d * (q + 1) <= d * n
    BY <1>1, SMT
  <2>. QED
    BY <1>1, <1>2, <2>1, SMT
<1>5. q = n
  BY <1>1, <1>3, <1>4, SMT
<1>. QED
  BY <1>5, SMT

\* Every element of a finite set of numbers has a rank, and every rank an element.
LEMMA Ranks ==
  ASSUME NEW S \in SUBSET Nat, IsFiniteSet(S)
  PROVE  /\ Cardinality(S) \in Nat
         /\ \A k \in 1..Cardinality(S) : Nth(S, k) \in S
         /\ \A t \in S : \E k \in 1..Cardinality(S) : Nth(S, k) = t
<1>. DEFINE Below(t) == {u \in S : u <= t}
            rank     == [t \in S |-> Cardinality(Below(t))]
            N        == Cardinality(S)
<1>0. N \in Nat
  BY FS_CardinalityType
<1>1. \A t \in S : IsFiniteSet(Below(t)) /\ Cardinality(Below(t)) \in 1..N
  <2>. TAKE t \in S
  <2>1. IsFiniteSet(Below(t)) /\ Cardinality(Below(t)) <= N
    BY FS_Subset, Below(t) \in SUBSET S
  <2>2. t \in Below(t)
    OBVIOUS
  <2>3. Cardinality(Below(t)) \in Nat /\ Cardinality(Below(t)) # 0
    BY <2>1, <2>2, FS_CardinalityType, FS_EmptySet
  <2>. QED
    BY <1>0, <2>1, <2>3
<1>2. \A s, t \in S : s < t => rank[s] # rank[t]
  <2>. SUFFICES ASSUME NEW s \in S, NEW t \in S, s < t PROVE rank[s] # rank[t]
    OBVIOUS
  <2>1. s \in Nat /\ t \in Nat /\ \A u \in S : u \in Nat
    OBVIOUS
  <2>2. t \in Below(t) /\ ~(t <= s)
    BY <2>1, SMT
  <2>3. t \notin Below(s)
    BY <2>2
  <2>4. \A u \in Nat : u <= s => u <= t
    BY <2>1, SMT
  <2>5. Below(s) \in SUBSET Below(t)
    BY <2>1, <2>4
  <2>6. IsFiniteSet(Below(t))
    BY <1>1
  <2>7. Cardinality(Below(s)) # Cardinality(Below(t))
    BY <2>2, <2>3, <2>5, <2>6, FS_Subset
  <2>. QED
    BY <2>7
<1>3. \A s, t \in S : rank[s] = rank[t] => s = t
  BY <1>2
<1>4. rank \in Injection(S, 1..N)
  BY <1>1, <1>3 DEF Injection, IsInjective
<1>5. IsFiniteSet(1..N) /\ Cardinality(1..N) = N
  BY <1>0, FS_Interval
<1>6. rank \in Surjection(S, 1..N)
  BY <1>4, <1>5, FS_Injection
<1>7. \A k \in 1..N : \E t \in S : rank[t] = k
  BY <1>6 DEF Surjection
<1>8. \A k \in 1..N : Nth(S, k) \in S /\ rank[Nth(S, k)] = k
  <2>. TAKE k \in 1..N
  <2>1. \E t \in S : Cardinality({u \in S : u <= t}) = k
    BY <1>7
  <2>2. Nth(S, k) \in S /\ Cardinality({u \in S : u <= Nth(S, k)}) = k
    BY <2>1 DEF Nth
  <2>. QED
    BY <2>2
<1>9. \A t \in S : Nth(S, rank[t]) = t
  BY <1>1, <1>3, <1>8
<1>. QED
  BY <1>0, <1>1, <1>8, <1>9

----------------------------------------------------------------------------
(* Expansion plans *)

LEMMA ExtendedIsPart ==
  ASSUME NEW baseline, NEW t
  PROVE  Extended(baseline, t) \subseteq baseline \cup {t}
BY DEF Extended, FirstOf

\* A plan is made set by set.
LEMMA PlansAreRecursive ==
  ASSUME NEW D \in SUBSET Nat, NEW baseline \in SUBSET D, NEW siblings \in SUBSET D,
         IsFiniteSet(siblings)
  PROVE  LET N == Cardinality(siblings)
             plan == Plans(baseline, siblings)
         IN  /\ N \in Nat
             /\ plan \in [0..N -> Seq(SUBSET D)]
             /\ plan[0] = <<baseline>>
             /\ \A k \in 1..N :
                  plan[k] = Widened(plan[k - 1], Extended(baseline, Nth(siblings, k)))
<1>. DEFINE N    == Cardinality(siblings)
            A    == Seq(SUBSET D)
            next == [x \in (1..N) \X A |-> Widened(x[2], Extended(baseline, Nth(siblings, x[1])))]
            Is(f) == f = [k \in 0..N |->
                            IF k = 0 THEN <<baseline>>
                            ELSE Widened(f[k - 1], Extended(baseline, Nth(siblings, k)))]
<1>1. N \in Nat /\ \A k \in 1..N : Nth(siblings, k) \in siblings
  BY Ranks
<1>2. \A k \in 1..N : Extended(baseline, Nth(siblings, k)) \in SUBSET D
  BY <1>1, ExtendedIsPart
<1>3. \A k \in 1..N, sets \in A : Widened(sets, Extended(baseline, Nth(siblings, k))) \in A
  BY <1>2 DEF Widened
<1>4. \A k \in 1..N, x \in A : next[<<k, x>>] \in A
  BY <1>3
<1>5. <<baseline>> \in A
  OBVIOUS
<1>6. PICK f \in [0..N -> A] : f[0] = <<baseline>> /\ \A k \in 1..N : f[k] = next[<<k, f[k - 1]>>]
  <2>1. N \in Nat
    BY <1>1
  <2>. DEFINE start == <<baseline>>
  <2>2. start \in A
    BY <1>5
  <2>3. Closed(A, N, next)
    BY <1>4 DEF Closed
  <2>. HIDE DEF next, A, N, start
  <2>4. \E g \in [0..N -> A] : GoesOn(g, start, N, next)
    BY <2>1, <2>2, <2>3, RecursionExists
  <2>. QED
    BY <2>4 DEF start, GoesOn
<1>7. \A k \in 1..N : f[k] = Widened(f[k - 1], Extended(baseline, Nth(siblings, k)))
  <2>. TAKE k \in 1..N
  <2>1. k - 1 \in 0..N
    BY <1>1
  <2>2. <<k, f[k - 1]>> \in (1..N) \X A
    BY <1>6, <2>1
  <2>. QED
    BY <1>6, <2>2
<1>8. Is(f)
  <2>. DEFINE F(k) == IF k = 0 THEN <<baseline>>
                      ELSE Widened(f[k - 1], Extended(baseline, Nth(siblings, k)))
  <2>0. N \in Nat /\ f[0] = F(0) /\ \A k \in 1..N : k # 0 /\ f[k] = F(k)
    BY <1>1, <1>6, <1>7
  <2>. HIDE DEF F, A, N
  <2>1. \A k \in 0..N : f[k] = F(k)
    BY <2>0
  <2>2. f = [k \in 0..N |-> F(k)]
    BY <1>6, <2>1
  <2>. QED
    BY <2>2 DEF F
<1>9. Is(Plans(baseline, siblings))
  <2>1. Plans(baseline, siblings) = CHOOSE p : Is(p)
    BY DEF Plans
  <2>. QED
    BY <1>8, <2>1
<1>. DEFINE plan == Plans(baseline, siblings)
<1>10. plan[0] = <<baseline>>
  BY <1>1, <1>9
<1>11. \A k \in 1..N : plan[k] = Widened(plan[k - 1], Extended(baseline, Nth(siblings, k)))
  BY <1>1, <1>9
<1>12. \A k \in 0..N : plan[k] \in A
  <2>. DEFINE Bad == {k \in 0..N : plan[k] \notin A}
  <2>1. SUFFICES ASSUME Bad # {} PROVE FALSE
    OBVIOUS
  <2>2. PICK k \in Bad : \A y \in Bad : k <= y
    <3>1. Bad \in SUBSET Nat
      OBVIOUS
    <3>. QED
      BY <2>1, <3>1, LeastElement
  <2>a. N \in Nat /\ k \in 0..N
    BY <1>1, <2>2
  <2>b. k # 0
    BY <1>5, <1>10, <2>2
  <2>c. k \in 1..N /\ k - 1 \in 0..N /\ ~(k <= k - 1)
    <3>. HIDE DEF N
    <3>. QED
      BY <2>a, <2>b
  <2>3. k \in 1..N /\ k - 1 \in 0..N /\ k - 1 \notin Bad
    BY <2>2, <2>c
  <2>4. plan[k - 1] \in A
    BY <2>3
  <2>. QED
    BY <1>3, <1>11, <2>2, <2>3, <2>4
<1>. QED
  BY <1>1, <1>9, <1>10, <1>11, <1>12

\* After k siblings a plan has up to k + 1 sets, the first of them is the seed's, and
\* each of the k siblings is in one.
LEMMA PlansAreComplete ==
  ASSUME NEW D \in SUBSET Nat, NEW baseline \in SUBSET D, NEW siblings \in SUBSET D,
         IsFiniteSet(siblings)
  PROVE  \A k \in 0..Cardinality(siblings) :
           LET sets == Plans(baseline, siblings)[k] IN
           /\ sets \in Seq(SUBSET D)
           /\ Len(sets) \in 1..(k + 1)
           /\ sets[1] = baseline
           /\ \A j \in 1..k : Has(sets, Extended(baseline, Nth(siblings, j)))
<1>. DEFINE N        == Cardinality(siblings)
            A        == Seq(SUBSET D)
            plan     == Plans(baseline, siblings)
            extra(j) == Extended(baseline, Nth(siblings, j))
            Good(k)  == /\ Len(plan[k]) \in 1..(k + 1)
                        /\ plan[k][1] = baseline
                        /\ \A j \in 1..k : Has(plan[k], extra(j))
            Bad      == {k \in 0..N : ~Good(k)}
<1>1. /\ N \in Nat
      /\ plan \in [0..N -> A]
      /\ plan[0] = <<baseline>>
      /\ \A k \in 1..N : plan[k] = Widened(plan[k - 1], extra(k))
  BY PlansAreRecursive
<1>2. SUFFICES ASSUME Bad # {} PROVE FALSE
  BY <1>1
<1>3. PICK k \in Bad : \A y \in Bad : k <= y
  <2>1. Bad \in SUBSET Nat
    OBVIOUS
  <2>. QED
    BY <1>2, <2>1, LeastElement
<1>4. Good(0)
  BY <1>1
<1>5. k \in 1..N /\ k - 1 \in 0..N /\ Good(k - 1)
  <2>1. N \in Nat /\ k \in 0..N /\ k # 0
    BY <1>1, <1>3, <1>4
  <2>2. k \in 1..N /\ k - 1 \in 0..N /\ ~(k <= k - 1)
    <3>. HIDE DEF N
    <3>. QED
      BY <2>1
  <2>3. k - 1 \notin Bad
    BY <1>3, <2>2
  <2>. QED
    BY <2>2, <2>3
<1>. DEFINE before == plan[k - 1]
<1>6. before \in A /\ Len(before) \in 1..k /\ before[1] = baseline
  <2>1. Len(before) \in 1..((k - 1) + 1) /\ (k - 1) + 1 = k /\ before[1] = baseline
    BY <1>5
  <2>. HIDE DEF A, plan, N
  <2>2. before \in A
    BY <1>1, <1>5
  <2>. QED
    BY <2>1, <2>2
<1>7. \A j \in 1..(k - 1) : Has(before, extra(j))
  BY <1>5
<1>8. plan[k] = IF Has(before, extra(k)) THEN before ELSE Append(before, extra(k))
  BY <1>1, <1>5 DEF Widened
<1>. HIDE DEF before, extra, plan, A
<1>9. CASE Has(before, extra(k))
  BY <1>3, <1>5, <1>6, <1>7, <1>8, <1>9
<1>10. CASE ~Has(before, extra(k))
  <2>1. plan[k] = Append(before, extra(k))
    BY <1>8, <1>10
  <2>2. /\ Len(plan[k]) = Len(before) + 1
        /\ \A p \in 1..Len(before) : plan[k][p] = before[p]
        /\ plan[k][Len(before) + 1] = extra(k)
    BY <1>6, <2>1 DEF A
  <2>3. Len(plan[k]) \in 1..(k + 1) /\ plan[k][1] = baseline
    BY <1>5, <1>6, <2>2
  <2>4. \A j \in 1..k : Has(plan[k], extra(j))
    <3>. TAKE j \in 1..k
    <3>1. CASE j = k
      BY <1>6, <2>2, <3>1 DEF Has
    <3>2. CASE j # k
      <4>0. j \in 1..(k - 1)
        <5>. HIDE DEF N
        <5>. QED
          BY <1>5, <3>2
      <4>1. PICK p \in 1..Len(before) : before[p] = extra(j)
        BY <1>7, <4>0 DEF Has
      <4>. QED
        BY <1>6, <2>2, <4>1 DEF Has
    <3>. QED
      BY <3>1, <3>2
  <2>. QED
    BY <1>3, <2>3, <2>4
<1>. QED
  BY <1>9, <1>10

\* The sets of a plan are made of what is available, the first one is what the seed
\* has of that, there is at most one for each sibling, and each sibling that
\* the limit leaves room for is in one.
LEMMA CandidateSetsExplore ==
  ASSUME NEW available \in SUBSET Nat, IsFiniteSet(available), NEW seed
  PROVE  LET sets == CandidateSets(available, seed) IN
         /\ sets \in Seq(SUBSET available)
         /\ Len(sets) \in 1..(Cardinality(available \ seed) + 1)
         /\ sets[1] = seed \cap available
         /\ \A t \in available \ seed :
              Has(sets, Extended(seed \cap available, t))
<1>. DEFINE baseline == seed \cap available
            siblings == available \ baseline
            N        == Cardinality(siblings)
<1>1. siblings \in SUBSET Nat /\ IsFiniteSet(siblings) /\ siblings = available \ seed
  BY FS_Subset
<1>2. /\ N \in Nat
      /\ \A t \in siblings : \E k \in 1..N : Nth(siblings, k) = t
  BY <1>1, Ranks
<1>3. CandidateSets(available, seed) = Plans(baseline, siblings)[N]
  BY DEF CandidateSets
<1>4. \A k \in 0..N : LET sets == Plans(baseline, siblings)[k] IN
           /\ sets \in Seq(SUBSET available)
           /\ Len(sets) \in 1..(k + 1)
           /\ sets[1] = baseline
           /\ \A j \in 1..k : Has(sets, Extended(baseline, Nth(siblings, j)))
  BY <1>1, PlansAreComplete
<1>5. N \in 0..N
  BY <1>2
<1>. HIDE DEF baseline, siblings, N
<1>6. LET sets == Plans(baseline, siblings)[N] IN
           /\ sets \in Seq(SUBSET available)
           /\ Len(sets) \in 1..(N + 1)
           /\ sets[1] = baseline
           /\ \A t \in siblings : Has(sets, Extended(baseline, t))
  BY <1>2, <1>4, <1>5
<1>. QED
  BY <1>1, <1>3, <1>6 DEF baseline, N

\* A trial runs tools that are available, and the first one runs the seed's.
LEMMA SetOfTrialIsAvailable ==
  ASSUME NEW available \in SUBSET Nat, IsFiniteSet(available), NEW seed, NEW index \in Nat
  PROVE  /\ SetOfTrial(available, seed, index) \subseteq available
         /\ SetOfTrial(available, seed, 0) = seed \cap available
<1>. DEFINE sets == CandidateSets(available, seed)
<1>1. sets \in Seq(SUBSET available) /\ Len(sets) \in Nat \ {0} /\ sets[1] = seed \cap available
  <2>1. IsFiniteSet(available \ seed)
    BY FS_Subset
  <2>2. Cardinality(available \ seed) \in Nat
    BY <2>1, FS_CardinalityType
  <2>. DEFINE m == Cardinality(available \ seed)
  <2>3. Len(sets) \in 1..(m + 1) /\ sets \in Seq(SUBSET available) /\ sets[1] = seed \cap available
    BY CandidateSetsExplore
  <2>. HIDE DEF m, sets
  <2>. QED
    BY <2>2, <2>3 DEF m
<1>. HIDE DEF sets
<1>2. (index % Len(sets)) + 1 \in 1..Len(sets) /\ (0 % Len(sets)) + 1 = 1
  BY <1>1, SMT
<1>. QED
  BY <1>1, <1>2 DEF SetOfTrial, sets

----------------------------------------------------------------------------
(* The inductive invariant *)

Underway == {"route", "layer"}

Between == {"setup", "done", "aborted"}

\* One result.
ResultType == [trial: Nat, status: Status, category: FailureCategory \cup {None},
               trace: Seq(LayerRecord), criteria: {None} \cup [DOMAIN Components -> BOOLEAN]]

\* The results are those of the trials so far.
Counted ==
  /\ setting \in Settings
  /\ results \in Seq(ResultType)
  /\ \A i \in DOMAIN results : results[i].trial = i
  /\ trace \in Seq(LayerRecord)
  /\ at \in 1..(Trials + 1)
  /\ phase \in Underway \cup Between \cup {"teardown", "evaluate"}
  /\ phase = "done" <=> at = Trials + 1
  /\ IF phase = "aborted" THEN results = <<>> ELSE Len(results) = at - 1
  /\ raised \subseteq 1..(at - 1)

\* What succeeded was selected, and what was selected follows the edges.
Walk(tr) == RouteFollows(tr) /\ \A k \in DOMAIN tr : tr[k].ok \subseteq tr[k].selected

\* How a trial may end with such a trace.
Fits(how, why, tr) ==
  /\ \A k \in 1..(Len(tr) - 1) : tr[k].ok # {}
  /\ how \in {"completed", "layer_error", "routing_error", "tool_error"}
  /\ how = "completed" => why = None /\ WalkedToTheEnd(tr)
  /\ how = "layer_error" => why = None /\ tr # <<>> /\ AllFailed(tr[Len(tr)])
  /\ how = "tool_error" => why = None
  /\ how = "routing_error" => why \in {None, "tool_selection", "missing_tool"}
  /\ how \in {"routing_error", "tool_error"} =>
       Len(tr) < Depth /\ \A k \in DOMAIN tr : tr[k].ok # {}

\* The trial under way.
TrialFits ==
  /\ Len(trace) <= Depth
  /\ Walk(trace)
  /\ board = Facts(trace)
  /\ phase \in Between =>
       status = "completed" /\ category = None /\ trace = <<>> /\ previous = {}
  /\ phase \in Underway =>
       /\ status = "completed" /\ category = None
       /\ Len(trace) < Depth
       /\ \A k \in DOMAIN trace : trace[k].ok # {}
       /\ previous = IF trace = <<>> THEN {} ELSE trace[Len(trace)].selected
  /\ phase = "layer" => chosen # {} /\ chosen \subseteq Available(Layer)
  /\ phase # "layer" => chosen = {}
  /\ phase \in {"teardown", "evaluate"} => Fits(status, category, trace)
  /\ phase = "evaluate" => status = "completed"
  /\ previous \subseteq Tool

\* The tools that a trial without a router runs in its first layer.
FirstLayer == {t \in Layers[1] : Consumes[t] = {}}

\* What a seed has to do with a layer of a trial: the first trial of a scenario runs
\* it as long as everything succeeds, the others depart from it in the first layer.
SeedGuides(i, tr, k, selected) ==
  LET seed == Seed[ScenarioAt(i)] IN
  seed # None =>
    /\ /\ IndexAt(i) = 0 /\ IsRoute(seed)
       /\ \A j \in 1..(k - 1) : tr[j].ok = tr[j].selected
       => selected = seed[k]
    /\ k = 1 => selected = SetOfTrial(FirstLayer, seed[1], IndexAt(i))

SeedsGuide ==
  ~setting.router =>
    /\ \A i \in DOMAIN results : \A k \in DOMAIN results[i].trace :
         SeedGuides(i, results[i].trace, k, results[i].trace[k].selected)
    /\ \A k \in DOMAIN trace : SeedGuides(at, trace, k, trace[k].selected)
    /\ phase = "layer" => SeedGuides(at, trace, Layer, chosen)

IInv == Counted /\ TrialFits /\ ResultsAreTrue /\ FixturesAreReleased /\ SeedsGuide

----------------------------------------------------------------------------
(* Facts about layers, settings and traces *)

LEMMA LayersAreTyped ==
  /\ Depth \in Nat \ {0}
  /\ \A k \in 1..Depth : /\ Layers[k] \subseteq Nat /\ IsFiniteSet(Layers[k])
                         /\ Layers[k] \subseteq Tool
<1>1. Layers \in Seq(SUBSET Nat) /\ Depth > 0 /\ \A k \in 1..Depth : IsFiniteSet(Layers[k])
  BY SlowRegressionAssumption
<1>2. Depth \in Nat \ {0} /\ \A k \in 1..Depth : Layers[k] \in SUBSET Nat
  BY <1>1 DEF Depth
<1>. QED
  BY <1>1, <1>2 DEF Tool

LEMMA SettingIsTyped ==
  ASSUME setting \in Settings
  PROVE  /\ setting.scenarios \in Seq(Scenario)
         /\ Len(setting.scenarios) \in Nat \ {0}
         /\ setting.trials \in Nat \ {0}
         /\ Trials \in Nat \ {0}
<1>1. /\ setting.scenarios \in Seq(Scenario) /\ setting.scenarios # <<>>
      /\ setting.trials \in Nat \ {0}
  BY SlowRegressionAssumption
<1>2. Len(setting.scenarios) \in Nat \ {0}
  BY <1>1
<1>3. \A m, n \in Nat \ {0} : m * n \in Nat \ {0}
  BY SMT
<1>. QED
  BY <1>1, <1>2, <1>3 DEF Trials

LEMMA TrialsAreNamed ==
  ASSUME setting \in Settings, NEW n \in 1..Trials
  PROVE  IndexAt(n) \in Nat /\ ScenarioAt(n) \in Scenario
<1>. DEFINE len == Len(setting.scenarios)
            per == setting.trials
            q   == (n - 1) \div per
<1>1. /\ setting.scenarios \in Seq(Scenario)
      /\ len \in Nat \ {0} /\ per \in Nat \ {0} /\ Trials = len * per
  BY SettingIsTyped DEF Trials
<1>2. n \in Nat /\ 1 <= n /\ n <= len * per
  BY <1>1, SettingIsTyped
<1>. HIDE DEF len, per
<1>3. q \in Nat /\ per * q <= n - 1 /\ (n - 1) % per \in Nat
  BY <1>1, <1>2, SMT
<1>4. q < len
  <2>1. q >= len => per * len <= per * q
    BY <1>1, <1>3, SMT
  <2>. QED
    BY <1>1, <1>2, <1>3, <2>1, SMT
<1>5. q + 1 \in 1..len
  BY <1>1, <1>3, <1>4, SMT
<1>6. setting.scenarios[q + 1] \in Scenario
  BY <1>1, <1>5 DEF len
<1>. QED
  BY <1>3, <1>6 DEF IndexAt, ScenarioAt, per

LEMMA AvailableIsTyped ==
  ASSUME NEW k \in 1..Depth
  PROVE  /\ Available(k) \subseteq Layers[k] /\ Available(k) \subseteq Tool
         /\ Available(k) \in SUBSET Nat /\ IsFiniteSet(Available(k))
<1>1. Available(k) \subseteq Layers[k]
  BY DEF Available
<1>. QED
  BY <1>1, LayersAreTyped, FS_Subset

\* What is selected without a router is available.
LEMMA SelectionIsAvailable ==
  ASSUME setting \in Settings, at \in 1..Trials, NEW k \in 1..Depth
  PROVE  Selection(k) \subseteq Available(k)
<1>1. FirstOf(Available(k), MaxTools) \subseteq Available(k)
  BY DEF FirstOf
<1>2. IndexAt(at) \in Nat
  BY TrialsAreNamed
<1>3. SetOfTrial(Available(k), Seed[ScenarioAt(at)][k], IndexAt(at)) \subseteq Available(k)
  BY <1>2, AvailableIsTyped, SetOfTrialIsAvailable
<1>. QED
  BY <1>1, <1>3 DEF Selection

\* One more record in a trace.
LEMMA Appended ==
  ASSUME NEW tr \in Seq(LayerRecord), NEW l \in LayerRecord
  PROVE  LET longer == Append(tr, l) IN
         /\ longer \in Seq(LayerRecord) /\ longer # <<>>
         /\ Len(tr) \in Nat /\ Len(longer) = Len(tr) + 1
         /\ DOMAIN tr = 1..Len(tr) /\ DOMAIN longer = 1..(Len(tr) + 1)
         /\ \A k \in 1..Len(tr) : longer[k] = tr[k]
         /\ longer[Len(tr) + 1] = l
OBVIOUS

LEMMA FactsAppended ==
  ASSUME NEW tr \in Seq(LayerRecord), NEW l \in LayerRecord
  PROVE  Facts(Append(tr, l)) = Facts(tr) \cup UNION {Produces[t] : t \in l.ok}
<1>. DEFINE longer == Append(tr, l)
            Of(m) == UNION {Produces[t] : t \in m.ok}
<1>1. /\ Len(tr) \in Nat
      /\ DOMAIN tr = 1..Len(tr) /\ DOMAIN longer = 1..(Len(tr) + 1)
      /\ \A k \in 1..Len(tr) : longer[k] = tr[k]
      /\ longer[Len(tr) + 1] = l
  BY Appended
<1>. HIDE DEF longer, Of
<1>2. ASSUME NEW x
      PROVE  (\E k \in DOMAIN longer : x \in Of(longer[k]))
               <=> (\E k \in DOMAIN tr : x \in Of(tr[k])) \/ x \in Of(l)
  <2>1. \A k \in DOMAIN longer : k \in DOMAIN tr \/ k = Len(tr) + 1
    BY <1>1
  <2>2. (DOMAIN tr) \cup {Len(tr) + 1} \subseteq DOMAIN longer
    BY <1>1
  <2>3. \A k \in DOMAIN tr : longer[k] = tr[k]
    BY <1>1
  <2>4. ASSUME NEW k \in DOMAIN longer, x \in Of(longer[k])
        PROVE  (\E j \in DOMAIN tr : x \in Of(tr[j])) \/ x \in Of(l)
    <3>1. CASE k \in DOMAIN tr
      BY <2>3, <2>4, <3>1
    <3>2. CASE k = Len(tr) + 1
      BY <1>1, <2>4, <3>2
    <3>. QED
      BY <2>1, <3>1, <3>2
  <2>5. ASSUME NEW k \in DOMAIN tr, x \in Of(tr[k])
        PROVE  \E j \in DOMAIN longer : x \in Of(longer[j])
    BY <2>2, <2>3, <2>5
  <2>6. x \in Of(l) => \E j \in DOMAIN longer : x \in Of(longer[j])
    BY <1>1, <2>2
  <2>. QED
    BY <2>4, <2>5, <2>6
<1>3. UNION {Of(longer[k]) : k \in DOMAIN longer} = (UNION {Of(tr[k]) : k \in DOMAIN tr}) \cup Of(l)
  BY <1>2
<1>. QED
  BY <1>3 DEF Facts, Of, longer

\* What the first layers of a trace left is on the blackboard of the next one.
LEMMA FactsBefore ==
  ASSUME NEW tr \in Seq(LayerRecord)
  PROVE  Facts(tr) = UNION {UNION {Produces[s] : s \in tr[j].ok} : j \in 1..(Len(tr) + 1 - 1)}
<1>1. DOMAIN tr = 1..(Len(tr) + 1 - 1)
  OBVIOUS
<1>. QED
  BY <1>1 DEF Facts

\* A layer whose selection was available extends a walk.
LEMMA WalkAppended ==
  ASSUME Walk(trace), trace \in Seq(LayerRecord), board = Facts(trace), Len(trace) < Depth,
         previous = IF trace = <<>> THEN {} ELSE trace[Len(trace)].selected,
         trace = <<>> \/ previous # {},
         NEW l \in LayerRecord, l.selected \subseteq Available(Layer), l.ok \subseteq l.selected
  PROVE  Walk(Append(trace, l))
<1>. DEFINE longer == Append(trace, l)
            n      == Len(trace)
<1>1. /\ n \in Nat /\ Layer = n + 1
      /\ DOMAIN trace = 1..n /\ DOMAIN longer = 1..(n + 1)
      /\ \A k \in 1..n : longer[k] = trace[k]
      /\ longer[n + 1] = l
  BY Appended DEF Layer
<1>2. \A k \in DOMAIN longer : longer[k].ok \subseteq longer[k].selected
  <2>. TAKE k \in DOMAIN longer
  <2>1. CASE k = n + 1
    BY <1>1, <2>1
  <2>2. CASE k # n + 1
    BY <1>1, <2>2 DEF Walk
  <2>. QED
    BY <2>1, <2>2
<1>3. ASSUME NEW k \in DOMAIN longer, NEW t \in longer[k].selected
      PROVE  /\ t \in Layers[k]
             /\ k > 1 => \E s \in longer[k - 1].selected : <<s, t>> \in Edges
             /\ Consumes[t] \subseteq
                  UNION {UNION {Produces[s] : s \in longer[j].ok} : j \in 1..(k - 1)}
  <2>. DEFINE Left(tr, j) == UNION {Produces[s] : s \in tr[j].ok}
  <2>1. \A j \in 1..(k - 1) : j \in 1..n /\ longer[j] = trace[j]
    BY <1>1
  <2>2. UNION {Left(longer, j) : j \in 1..(k - 1)} = UNION {Left(trace, j) : j \in 1..(k - 1)}
    <3>1. \A j \in 1..(k - 1) : Left(longer, j) = Left(trace, j)
      BY <2>1
    <3>. HIDE DEF Left
    <3>. QED
      BY <3>1
  <2>3. CASE k \in 1..n
    <3>1. longer[k] = trace[k] /\ k \in DOMAIN trace
      BY <1>1, <2>3
    <3>2. /\ t \in Layers[k]
          /\ k > 1 => \E s \in trace[k - 1].selected : <<s, t>> \in Edges
          /\ Consumes[t] \subseteq UNION {Left(trace, j) : j \in 1..(k - 1)}
      BY <3>1 DEF Walk, RouteFollows
    <3>3. k > 1 => longer[k - 1] = trace[k - 1]
      BY <1>1, <2>3
    <3>. QED
      BY <2>2, <3>2, <3>3
  <2>4. CASE k = n + 1
    <3>1. t \in Available(n + 1)
      BY <1>1, <2>4
    <3>2. t \in Layers[k] /\ Consumes[t] \subseteq board
      BY <2>4, <3>1 DEF Available
    <3>3. k > 1 => \E s \in longer[k - 1].selected : <<s, t>> \in Edges
      <4>. SUFFICES ASSUME k > 1 PROVE \E s \in longer[k - 1].selected : <<s, t>> \in Edges
        OBVIOUS
      <4>1. trace # <<>> /\ k - 1 = n /\ n \in 1..n
        BY <1>1, <2>4
      <4>2. previous # {} /\ previous = longer[k - 1].selected
        BY <1>1, <4>1
      <4>. QED
        BY <3>1, <4>2 DEF Available
    <3>4. board = UNION {Left(trace, j) : j \in 1..(k - 1)}
      BY <2>4, FactsBefore
    <3>. QED
      BY <2>2, <3>2, <3>3, <3>4
  <2>5. k \in 1..n \/ k = n + 1
    <3>1. n \in Nat /\ k \in 1..(n + 1)
      BY <1>1
    <3>. HIDE DEF n, longer
    <3>. QED
      BY <3>1
  <2>. QED
    BY <2>3, <2>4, <2>5
<1>. QED
  BY <1>2, <1>3 DEF Walk, RouteFollows

----------------------------------------------------------------------------
(* Beginnings and ends of trials *)

LEMMA NoTrace ==
  /\ <<>> \in Seq(LayerRecord) /\ Len(<<>>) = 0 /\ DOMAIN <<>> = {}
  /\ Walk(<<>>) /\ Facts(<<>>) = {}
  /\ ~WalkedToTheEnd(<<>>)
<1>1. <<>> \in Seq(LayerRecord) /\ Len(<<>>) = 0 /\ DOMAIN <<>> = {}
  OBVIOUS
<1>. QED
  BY <1>1 DEF Walk, RouteFollows, Facts, WalkedToTheEnd

LEMMA InitIsGood ==
  ASSUME Init
  PROVE  IInv
<1>. USE NoTrace
<1>1. /\ Trials \in Nat \ {0} /\ 1..(1 - 1) = {}
      /\ 1 \in 1..(Trials + 1) /\ 1 # Trials + 1
  BY SettingIsTyped DEF Init
<1>2. Counted
  BY <1>1 DEF Init, Counted, Underway, Between
<1>3. TrialFits
  BY LayersAreTyped DEF Init, TrialFits, Underway, Between
<1>4. ResultsAreTrue
  BY DEF Init, ResultsAreTrue, RoutesFollowEdges, Traces, StatusTellsTrace, VerdictsTellTrials, Walk
<1>5. FixturesAreReleased
  BY DEF Init, FixturesAreReleased
<1>6. SeedsGuide
  BY DEF Init, SeedsGuide
<1>. QED
  BY <1>2, <1>3, <1>4, <1>5, <1>6 DEF IInv

\* What a trial that begins looks like, wherever it begins.
LEMMA FreshTrialFits ==
  ASSUME FreshTrial, phase' \in Between
  PROVE  TrialFits'
<1>1. board' = {} /\ trace' = <<>> /\ previous' = {} /\ chosen' = {} /\ status' = "completed" /\ category' = None
  BY DEF FreshTrial
<1>2. phase' \notin Underway \cup {"teardown", "evaluate"}
  BY DEF Between, Underway
<1>3. phase' # "layer" /\ phase' # "evaluate"
  BY <1>2 DEF Underway
<1>4. Walk(trace') /\ Facts(trace') = {} /\ Len(trace') = 0
  BY <1>1, NoTrace
<1>5. (Walk(trace))' /\ (Facts(trace))' = {}
  BY <1>4 DEF Walk, RouteFollows, Facts
<1>. QED
  BY <1>1, <1>2, <1>3, <1>4, <1>5, LayersAreTyped DEF TrialFits

\* Which trial is the n-th does not change while the setting does not.
LEMMA SettingKeepsGuides ==
  ASSUME setting' = setting
  PROVE  \A i, tr, k, selected : SeedGuides(i, tr, k, selected) = SeedGuides(i, tr, k, selected)'
<1>1. \A i : ScenarioAt(i)' = ScenarioAt(i) /\ IndexAt(i)' = IndexAt(i)
  BY DEF ScenarioAt, IndexAt
<1>. QED
  BY <1>1 DEF SeedGuides

\* A trial that ends with a result that is true of it leaves the results true.
LEMMA RecordKeeps ==
  ASSUME IInv, phase \notin {"done", "aborted"},
         NEW how \in Status, NEW why \in FailureCategory \cup {None},
         NEW criteria \in {None} \cup [DOMAIN Components -> BOOLEAN],
         RecordJudged(how, why, criteria), setting' = setting,
         raised \subseteq raised', raised' \subseteq raised \cup {at},
         LET r == [trial |-> at, status |-> how, category |-> why, trace |-> trace,
                   criteria |-> criteria]
         IN  StatusTells(r) /\ VerdictTells(r, raised')
  PROVE  Counted' /\ TrialFits' /\ ResultsAreTrue' /\ SeedsGuide'
<1>. DEFINE r == [trial |-> at, status |-> how, category |-> why, trace |-> trace,
                  criteria |-> criteria]
<1>0. Counted /\ TrialFits /\ ResultsAreTrue /\ SeedsGuide
  BY DEF IInv
<1>1. /\ results' = Append(results, r)
      /\ at' = at + 1
      /\ phase' = IF at = Trials THEN "done" ELSE "setup"
      /\ FreshTrial
  BY DEF RecordJudged
<1>2. /\ Trials \in Nat \ {0} /\ Trials' = Trials
      /\ at \in 1..Trials /\ at \in Nat
      /\ Len(results) = at - 1
  <2>1. Trials \in Nat \ {0} /\ Trials' = Trials
    BY <1>0, SettingIsTyped DEF Counted, Trials
  <2>2. at \in 1..(Trials + 1) /\ at # Trials + 1 /\ Len(results) = at - 1
    BY <1>0 DEF Counted
  <2>. QED
    BY <2>1, <2>2
<1>3. /\ r \in ResultType /\ results \in Seq(ResultType) /\ trace \in Seq(LayerRecord)
      /\ trace' = <<>>
  BY <1>0, <1>1, <1>2 DEF Counted, ResultType, FreshTrial
<1>4. /\ results' \in Seq(ResultType) /\ Len(results') = at
      /\ DOMAIN results = 1..(at - 1) /\ DOMAIN results' = 1..at
      /\ \A i \in 1..(at - 1) : results'[i] = results[i]
      /\ results'[at] = r
  <2>. HIDE DEF r
  <2>1. DOMAIN results = 1..Len(results)
    BY <1>3
  <2>. QED
    BY <1>1, <1>2, <1>3, <2>1
<1>5. \A i \in DOMAIN results' : i = at \/ (i \in DOMAIN results /\ i # at)
  BY <1>2, <1>4
<1>. HIDE DEF r
<1>6. Counted'
  <2>1. \A i \in DOMAIN results' : results'[i].trial = i
    <3>1. r.trial = at
      BY DEF r
    <3>. QED
      BY <1>0, <1>4, <1>5, <3>1 DEF Counted
  <2>2. raised' \subseteq 1..(at' - 1)
    <3>1. raised \subseteq 1..(at - 1)
      BY <1>0 DEF Counted
    <3>. QED
      BY <1>1, <1>2, <3>1
  <2>3. at' \in 1..(Trials' + 1) /\ (phase' = "done" <=> at' = Trials' + 1)
    BY <1>1, <1>2
  <2>4. Len(results') = at' - 1 /\ phase' # "aborted"
    BY <1>1, <1>2, <1>4
  <2>5. phase' \in Underway \cup Between \cup {"teardown", "evaluate"}
    BY <1>1 DEF Between
  <2>6. setting' \in Settings /\ trace' \in Seq(LayerRecord)
    BY <1>0, <1>3, NoTrace DEF Counted
  <2>. QED
    BY <1>4, <2>1, <2>2, <2>3, <2>4, <2>5, <2>6 DEF Counted
<1>7. TrialFits'
  BY <1>1, FreshTrialFits DEF Between
<1>8. ResultsAreTrue'
  <2>1. r.trace = trace /\ r.trial = at
    BY DEF r
  <2>2. \A tr \in Traces' : tr \in Traces \cup {<<>>}
    <3>1. Traces' = {results'[i].trace : i \in DOMAIN results'} \cup {trace'}
      BY DEF Traces
    <3>. QED
      BY <1>3, <1>4, <1>5, <2>1, <3>1 DEF Traces
  <2>3. \A tr : RouteFollows(tr) <=> RouteFollows(tr)'
    BY DEF RouteFollows
  <2>4. \A tr \in Traces' : RouteFollows(tr)
    BY <1>0, <2>2, NoTrace DEF ResultsAreTrue, RoutesFollowEdges, Walk
  <2>5. RoutesFollowEdges'
    BY <2>4 DEF RoutesFollowEdges, RouteFollows
  <2>6. StatusTellsTrace'
    <3>1. \A i \in DOMAIN results' : StatusTells(results'[i])
      BY <1>0, <1>4, <1>5 DEF ResultsAreTrue, StatusTellsTrace, r
    <3>. QED
      BY <3>1 DEF StatusTellsTrace, StatusTells, WalkedToTheEnd, AllFailed
  <2>7. VerdictsTellTrials'
    <3>1. ASSUME NEW i \in DOMAIN results' PROVE VerdictTells(results'[i], raised')
      <4>1. CASE i = at
        BY <1>4, <4>1 DEF r
      <4>2. CASE i \in DOMAIN results /\ i # at
        <5>1. VerdictTells(results[i], raised) /\ results[i].trial = i /\ results'[i] = results[i]
          BY <1>0, <1>4, <4>2 DEF ResultsAreTrue, VerdictsTellTrials, Counted
        <5>2. i \notin raised => i \notin raised'
          BY <4>2
        <5>. QED
          BY <5>1, <5>2 DEF VerdictTells
      <4>. QED
        BY <1>5, <4>1, <4>2
    <3>. QED
      BY <3>1 DEF VerdictsTellTrials, VerdictTells, Facts, Judges
  <2>. QED
    BY <2>5, <2>6, <2>7 DEF ResultsAreTrue
<1>9. SeedsGuide'
  <2>. SUFFICES ASSUME ~setting.router PROVE SeedsGuide'
    BY DEF SeedsGuide
  <2>1. ASSUME NEW i \in DOMAIN results', NEW k \in DOMAIN results'[i].trace
        PROVE  SeedGuides(i, results'[i].trace, k, results'[i].trace[k].selected)
    <3>1. CASE i = at
      BY <1>0, <1>4, <3>1 DEF SeedsGuide, r
    <3>2. CASE i \in DOMAIN results /\ i # at
      BY <1>0, <1>4, <3>2 DEF SeedsGuide
    <3>. QED
      BY <1>5, <3>1, <3>2
  <2>2. phase' # "layer"
    BY <1>1
  <2>3. DOMAIN trace' = {}
    BY <1>3, NoTrace
  <2>4. \A i \in DOMAIN results' : \A k \in DOMAIN results'[i].trace :
          SeedGuides(i, results[i].trace, k, results[i].trace[k].selected)'
    BY <2>1, SettingKeepsGuides
  <2>. QED
    BY <2>2, <2>3, <2>4 DEF SeedsGuide
<1>. QED
  BY <1>6, <1>7, <1>8, <1>9

\* A run that breaks leaves no results.
LEMMA AbortKeeps ==
  ASSUME IInv, phase \notin {"done", "aborted"}, Abort, setting' = setting, raised' = raised
  PROVE  Counted' /\ TrialFits' /\ ResultsAreTrue' /\ SeedsGuide'
<1>0. Counted
  BY DEF IInv
<1>1. /\ phase' = "aborted" /\ results' = <<>> /\ at' = at /\ FreshTrial /\ trace' = <<>>
  BY DEF Abort, FreshTrial
<1>2. Trials' = Trials
  BY DEF Trials
<1>3. Counted'
  <2>1. at # Trials + 1
    BY <1>0 DEF Counted
  <2>2. <<>> \in Seq(ResultType) /\ DOMAIN results' = {}
    BY <1>1
  <2>. QED
    BY <1>0, <1>1, <1>2, <2>1, <2>2, NoTrace DEF Counted, Between
<1>4. TrialFits'
  BY <1>1, FreshTrialFits DEF Between
<1>5. DOMAIN results' = {} /\ DOMAIN trace' = {}
  BY <1>1
<1>6. Traces' = {<<>>}
  BY <1>1, <1>5 DEF Traces
<1>7. ResultsAreTrue'
  <2>1. RoutesFollowEdges'
    BY <1>6 DEF RoutesFollowEdges, RouteFollows
  <2>. QED
    BY <1>5, <2>1 DEF ResultsAreTrue, StatusTellsTrace, VerdictsTellTrials
<1>8. SeedsGuide'
  BY <1>1, <1>5 DEF SeedsGuide
<1>. QED
  BY <1>3, <1>4, <1>7, <1>8

\* A step that ends no trial keeps the results, and they stay true.
LEMMA ContinueKeeps ==
  ASSUME IInv, UNCHANGED <<setting, at, results, raised>>, phase \notin {"done", "aborted"},
         phase' \in Underway \cup {"teardown", "evaluate"},
         trace' \in Seq(LayerRecord), RouteFollows(trace')
  PROVE  Counted' /\ ResultsAreTrue'
<1>0. Counted /\ ResultsAreTrue
  BY DEF IInv
<1>1. Trials' = Trials
  BY DEF Trials
<1>2. Counted'
  BY <1>0, <1>1 DEF Counted, Underway, Between
<1>3. RoutesFollowEdges'
  <2>1. \A tr \in Traces' : tr \in Traces \/ tr = trace'
    BY DEF Traces
  <2>2. \A tr \in Traces' : RouteFollows(tr)
    BY <1>0, <2>1 DEF ResultsAreTrue, RoutesFollowEdges
  <2>. QED
    BY <2>2 DEF RoutesFollowEdges, RouteFollows
<1>4. StatusTellsTrace'
  BY <1>0 DEF ResultsAreTrue, StatusTellsTrace, StatusTells, WalkedToTheEnd, AllFailed
<1>5. VerdictsTellTrials'
  BY <1>0 DEF ResultsAreTrue, VerdictsTellTrials, VerdictTells, Facts, Judges
<1>. QED
  BY <1>2, <1>3, <1>4, <1>5 DEF ResultsAreTrue

\* As long as the trace and the selection stay, the seed's part in them does.
LEMMA ContinueGuides ==
  ASSUME IInv, UNCHANGED <<setting, at, results, trace>>, phase' # "layer"
  PROVE  SeedsGuide'
<1>1. SeedsGuide
  BY DEF IInv
<1>. QED
  BY <1>1, SettingKeepsGuides DEF SeedsGuide

----------------------------------------------------------------------------
(* One lemma for each action *)

LEMMA SetupKeeps ==
  ASSUME IInv, Setup
  PROVE  IInv'
<1>0. /\ Counted /\ TrialFits /\ ResultsAreTrue /\ FixturesAreReleased /\ SeedsGuide
      /\ phase = "setup" /\ setting' = setting /\ runs' = runs /\ raised' = raised
  BY DEF IInv, Setup
<1>1. /\ trace = <<>> /\ board = {} /\ previous = {} /\ chosen = {}
      /\ status = "completed" /\ category = None
  BY <1>0, NoTrace DEF TrialFits, Between
<1>2. IdAt(at)' = IdAt(at) \/ at' # at
  BY <1>0 DEF IdAt, ScenarioAt, IndexAt
<1>3. setting.manager \in {"none", "default", "custom"}
  BY <1>0, SlowRegressionAssumption DEF Counted
<1>4. CASE /\ setting.manager # "default" \/ IdAt(at) \notin active
           /\ phase' = "route"
           /\ active' = IF setting.manager = "none" THEN active ELSE active \cup {IdAt(at)}
           /\ UNCHANGED <<at, trialVars, results, stranded>>
  <2>1. UNCHANGED <<at, status, category, previous, chosen, board, trace, results, stranded>>
    BY <1>4 DEF trialVars
  <2>2. Counted' /\ ResultsAreTrue'
    BY <1>0, <1>1, <1>4, <2>1, ContinueKeeps, NoTrace DEF Underway, Walk
  <2>3. TrialFits'
    <3>1. (Walk(trace))' /\ (Facts(trace))' = {}
      BY <1>1, <2>1, NoTrace DEF Walk, RouteFollows, Facts
    <3>2. phase' \notin Between
      BY <1>4 DEF Between
    <3>. QED
      BY <1>1, <1>4, <2>1, <3>1, <3>2, NoTrace, LayersAreTyped DEF TrialFits, Underway
  <2>4. FixturesAreReleased'
    <3>1. IdAt(at)' = IdAt(at) /\ \A i : IdAt(i)' = IdAt(i)
      BY <1>0, <2>1 DEF IdAt, ScenarioAt, IndexAt
    <3>. QED
      BY <1>0, <1>4, <2>1, <3>1 DEF FixturesAreReleased
  <2>5. SeedsGuide'
    BY <1>0, <1>4, <2>1, ContinueGuides
  <2>. QED
    BY <2>2, <2>3, <2>4, <2>5 DEF IInv
<1>5. CASE SetupRefused /\ Record("fixture_error", "fixture") /\ UNCHANGED <<active, stranded>>
  <2>. DEFINE r == [trial |-> at, status |-> "fixture_error", category |-> "fixture",
                    trace |-> trace, criteria |-> None]
  <2>1. StatusTells(r)
    BY <1>1, NoTrace DEF StatusTells
  <2>2. VerdictTells(r, raised')
    BY DEF VerdictTells
  <2>3. Counted' /\ TrialFits' /\ ResultsAreTrue' /\ SeedsGuide'
    BY <1>0, <1>5, <2>1, <2>2, RecordKeeps DEF Record, Status, FailureCategory
  <2>4. FixturesAreReleased'
    <3>. SUFFICES ASSUME setting.manager = "default" PROVE FixturesAreReleased'
      BY <1>0 DEF FixturesAreReleased
    <3>1. IdAt(at) \in stranded /\ active \subseteq stranded
      BY <1>0, <1>5 DEF SetupRefused, FixturesAreReleased
    <3>2. results' = Append(results, r) /\ results \in Seq(ResultType) /\ Len(results) = at - 1 /\ at \in Nat
      BY <1>0, <1>5 DEF Record, RecordJudged, Counted
    <3>3. \A i : IdAt(i)' = IdAt(i)
      BY <1>0 DEF IdAt, ScenarioAt, IndexAt
    <3>4. \A i \in DOMAIN results' : i = at \/ (i \in DOMAIN results /\ results'[i] = results[i])
      BY <3>2
    <3>5. \A i \in DOMAIN results' : results'[i].status = "fixture_error" => IdAt(i) \in stranded
      BY <1>0, <3>1, <3>4 DEF FixturesAreReleased
    <3>. QED
      BY <1>0, <1>5, <3>1, <3>3, <3>5 DEF FixturesAreReleased
  <2>. QED
    BY <2>3, <2>4 DEF IInv
<1>6. CASE /\ setting.manager # "none" /\ IdAt(at) \notin active
           /\ active' = active \cup {IdAt(at)}
           /\ stranded' = stranded \cup {IdAt(at)}
           /\ Abort
  <2>1. Counted' /\ TrialFits' /\ ResultsAreTrue' /\ SeedsGuide'
    BY <1>0, <1>6, AbortKeeps
  <2>2. FixturesAreReleased'
    <3>1. results' = <<>>
      BY <1>6 DEF Abort
    <3>. QED
      BY <1>0, <1>6, <3>1 DEF FixturesAreReleased
  <2>. QED
    BY <2>1, <2>2 DEF IInv
<1>. QED
  BY <1>4, <1>5, <1>6 DEF Setup

\* The layer to come, while a trial is under way.
LEMMA LayerToCome ==
  ASSUME IInv, phase \in Underway
  PROVE  /\ Layer \in 1..Depth /\ Layer = Len(trace) + 1 /\ Len(trace) \in Nat
         /\ at \in 1..Trials
         /\ Available(Layer) \subseteq Tool /\ Available(Layer) \subseteq Layers[Layer]
         /\ \A k \in DOMAIN trace : trace[k].ok # {} /\ trace[k].selected # {}
         /\ trace = <<>> \/ previous # {}
<1>1. Counted /\ TrialFits
  BY DEF IInv
<1>2. /\ Len(trace) \in Nat /\ Len(trace) < Depth /\ DOMAIN trace = 1..Len(trace)
      /\ \A k \in DOMAIN trace : trace[k].ok # {} /\ trace[k].ok \subseteq trace[k].selected
      /\ previous = IF trace = <<>> THEN {} ELSE trace[Len(trace)].selected
  BY <1>1 DEF Counted, TrialFits, Walk
<1>3. Layer \in 1..Depth
  BY <1>2, LayersAreTyped DEF Layer
<1>4. at \in 1..Trials
  <2>1. Trials \in Nat
    BY <1>1, SettingIsTyped DEF Counted
  <2>2. at \in 1..(Trials + 1) /\ at # Trials + 1
    BY <1>1 DEF Counted, Underway
  <2>. QED
    BY <2>1, <2>2
<1>5. trace # <<>> => Len(trace) \in DOMAIN trace
  BY <1>1, <1>2 DEF Counted
<1>. QED
  BY <1>2, <1>3, <1>4, <1>5, AvailableIsTyped DEF Layer

\* What is selected atop a seed is what the seed asks for.
LEMMA SelectionGuides ==
  ASSUME IInv, phase = "route", ~setting.router
  PROVE  SeedGuides(at, trace, Layer, Selection(Layer))
<1>. DEFINE seed == Seed[ScenarioAt(at)]
            n    == Len(trace)
<1>0. Counted /\ TrialFits /\ SeedsGuide
  BY DEF IInv
<1>1. /\ n \in Nat /\ Layer = n + 1 /\ Layer \in 1..Depth /\ DOMAIN trace = 1..n
      /\ board = Facts(trace)
      /\ previous = IF trace = <<>> THEN {} ELSE trace[n].selected
      /\ IndexAt(at) \in Nat /\ ScenarioAt(at) \in Scenario
  BY <1>0, LayerToCome, TrialsAreNamed DEF Counted, TrialFits, Underway
<1>. SUFFICES ASSUME seed # None PROVE SeedGuides(at, trace, Layer, Selection(Layer))
  BY DEF SeedGuides
<1>2. Selection(Layer) = SetOfTrial(Available(Layer), seed[Layer], IndexAt(at))
  BY DEF Selection
<1>3. ASSUME IndexAt(at) = 0, IsRoute(seed),
             \A j \in 1..(Layer - 1) : trace[j].ok = trace[j].selected
      PROVE  Selection(Layer) = seed[Layer]
  <2>1. \A j \in 1..n : trace[j].selected = seed[j] /\ trace[j].ok = seed[j]
    <3>. TAKE j \in 1..n
    <3>1. \A m \in 1..(j - 1) : trace[m].ok = trace[m].selected
      BY <1>1, <1>3
    <3>2. SeedGuides(at, trace, j, trace[j].selected)
      BY <1>0, <1>1 DEF SeedsGuide
    <3>3. trace[j].selected = seed[j]
      BY <1>3, <3>1, <3>2 DEF SeedGuides
    <3>. QED
      BY <1>1, <1>3, <3>3
  <2>2. board = UNION {UNION {Produces[s] : s \in seed[j]} : j \in 1..(Layer - 1)}
    <3>1. board = UNION {UNION {Produces[s] : s \in trace[j].ok} : j \in 1..n} /\ n = Layer - 1
      BY <1>1 DEF Facts
    <3>. QED
      BY <2>1, <3>1
  <2>3. ASSUME NEW t \in seed[Layer] PROVE t \in Available(Layer)
    <3>1. t \in Layers[Layer]
      BY <1>1, SlowRegressionAssumption
    <3>2. /\ Consumes[t] \subseteq board
          /\ Layer > 1 => \E s \in seed[Layer - 1] : <<s, t>> \in Edges
      BY <1>1, <1>3, <2>2 DEF IsRoute
    <3>3. previous = {} \/ \E s \in previous : <<s, t>> \in Edges
      <4>1. CASE trace = <<>>
        BY <1>1, <4>1
      <4>2. CASE trace # <<>>
        <5>1. n \in 1..n /\ Layer - 1 = n /\ Layer > 1
          BY <1>0, <1>1, <4>2 DEF Counted
        <5>2. previous = seed[Layer - 1]
          BY <1>1, <2>1, <4>2, <5>1
        <5>. QED
          BY <3>2, <5>1, <5>2
      <4>. QED
        BY <4>1, <4>2
    <3>. QED
      BY <3>1, <3>2, <3>3 DEF Available
  <2>4. Selection(Layer) = seed[Layer] \cap Available(Layer)
    BY <1>1, <1>2, <1>3, AvailableIsTyped, SetOfTrialIsAvailable
  <2>. QED
    BY <2>3, <2>4
<1>4. ASSUME Layer = 1 PROVE Selection(Layer) = SetOfTrial(FirstLayer, seed[1], IndexAt(at))
  <2>1. trace = <<>>
    BY <1>0, <1>1, <1>4 DEF Counted
  <2>2. board = {} /\ previous = {}
    BY <1>1, <2>1, NoTrace
  <2>3. Available(1) = FirstLayer
    BY <2>2 DEF Available, FirstLayer
  <2>. QED
    BY <1>2, <1>4, <2>3
<1>. QED
  BY <1>3, <1>4 DEF SeedGuides

LEMMA GuidesAppended ==
  ASSUME IInv, ~setting.router, trace \in Seq(LayerRecord), Layer = Len(trace) + 1,
         NEW l \in LayerRecord, SeedGuides(at, trace, Layer, l.selected)
  PROVE  LET longer == Append(trace, l) IN
         \A k \in DOMAIN longer : SeedGuides(at, longer, k, longer[k].selected)
<1>. DEFINE longer == Append(trace, l)
            n      == Len(trace)
<1>1. /\ n \in Nat /\ DOMAIN trace = 1..n /\ DOMAIN longer = 1..(n + 1)
      /\ \A k \in 1..n : longer[k] = trace[k]
      /\ longer[n + 1] = l
  BY Appended
<1>. HIDE DEF longer, n
<1>2. ASSUME NEW k \in DOMAIN longer PROVE SeedGuides(at, longer, k, longer[k].selected)
  <2>1. \A j \in 1..(k - 1) : longer[j] = trace[j]
    BY <1>1
  <2>2. CASE k \in 1..n
    <3>1. SeedGuides(at, trace, k, trace[k].selected) /\ longer[k] = trace[k]
      BY <1>1, <2>2 DEF IInv, SeedsGuide
    <3>. QED
      BY <2>1, <3>1 DEF SeedGuides
  <2>3. CASE k = n + 1
    <3>1. SeedGuides(at, trace, k, longer[k].selected)
      BY <1>1, <2>3 DEF n
    <3>. QED
      BY <2>1, <3>1 DEF SeedGuides
  <2>. QED
    BY <1>1, <2>2, <2>3
<1>. QED
  BY <1>2 DEF longer

\* A selection that is available and what the seed asks for is recorded, if empty,
\* or executed.
LEMMA ProceedKeeps ==
  ASSUME IInv, phase = "route", NEW selection, selection \subseteq Available(Layer),
         ~setting.router => SeedGuides(at, trace, Layer, selection),
         Proceed(selection), UNCHANGED <<setting, at, results, active, runs, stranded, raised>>
  PROVE  IInv'
<1>0. /\ Counted /\ TrialFits /\ ResultsAreTrue /\ FixturesAreReleased /\ SeedsGuide
      /\ phase \in Underway
  BY DEF IInv, Underway
<1>1. /\ Layer \in 1..Depth /\ Layer = Len(trace) + 1 /\ Len(trace) \in Nat
      /\ Available(Layer) \subseteq Tool /\ Available(Layer) \subseteq Layers[Layer]
      /\ \A k \in DOMAIN trace : trace[k].ok # {} /\ trace[k].selected # {}
      /\ trace = <<>> \/ previous # {}
  BY <1>0, LayerToCome
<1>2. /\ status = "completed" /\ category = None /\ chosen = {}
      /\ Len(trace) < Depth /\ Walk(trace) /\ board = Facts(trace)
      /\ previous = IF trace = <<>> THEN {} ELSE trace[Len(trace)].selected
      /\ previous \subseteq Tool /\ trace \in Seq(LayerRecord)
  BY <1>0 DEF Counted, TrialFits, Underway
<1>3. FixturesAreReleased' \/ phase' \notin {"route", "layer", "teardown"}
  <2>1. \A i : IdAt(i)' = IdAt(i)
    BY DEF IdAt, ScenarioAt, IndexAt
  <2>2. IdAt(at)' = IdAt(at)
    BY <2>1
  <2>. QED
    BY <1>0, <2>1, <2>2 DEF FixturesAreReleased
<1>4. CASE selection = {}
  <2>. DEFINE l == [available |-> Available(Layer), selected |-> {}, ok |-> {}]
              longer == Append(trace, l)
  <2>1. /\ trace' = longer /\ phase' = "teardown"
        /\ UNCHANGED <<status, category, previous, chosen, board>>
    BY <1>4 DEF Proceed
  <2>2. l \in LayerRecord /\ l.ok = {} /\ l.selected = {}
    BY <1>1 DEF LayerRecord
  <2>. HIDE DEF l
  <2>3. /\ longer \in Seq(LayerRecord) /\ longer # <<>> /\ Len(longer) = Len(trace) + 1
        /\ DOMAIN trace = 1..Len(trace) /\ DOMAIN longer = 1..(Len(trace) + 1)
        /\ \A k \in 1..Len(trace) : longer[k] = trace[k]
        /\ longer[Len(trace) + 1] = l
    BY <1>2, <2>2, Appended
  <2>4. Facts(longer) = Facts(trace)
    <3>1. Facts(longer) = Facts(trace) \cup UNION {Produces[t] : t \in l.ok}
      BY <1>2, <2>2, FactsAppended
    <3>2. UNION {Produces[t] : t \in l.ok} = {}
      BY <2>2
    <3>. QED
      BY <3>1, <3>2
  <2>5. Walk(longer)
    BY <1>1, <1>2, <2>2, WalkAppended
  <2>6. Fits(status, category, longer)
    BY <1>1, <1>2, <2>2, <2>3 DEF Fits, WalkedToTheEnd, AllFailed
  <2>. HIDE DEF longer
  <2>7. Counted' /\ ResultsAreTrue'
    BY <1>0, <2>1, <2>3, <2>5, ContinueKeeps DEF Walk, Underway
  <2>8. TrialFits'
    <3>1. Walk(trace)'
      BY <2>1, <2>5 DEF Walk, RouteFollows
    <3>a. Facts(trace)' = Facts(longer)
      BY <2>1 DEF Facts
    <3>b. Fits(status, category, trace)'
      BY <2>1, <2>6 DEF Fits, WalkedToTheEnd, AllFailed
    <3>2. Len(trace') <= Depth
      BY <1>1, <2>1, <2>3
    <3>. QED
      BY <1>2, <2>1, <2>4, <3>1, <3>a, <3>b, <3>2 DEF TrialFits, Underway, Between
  <2>9. SeedsGuide'
    <3>. SUFFICES ASSUME ~setting.router PROVE SeedsGuide'
      BY DEF SeedsGuide
    <3>1. \A k \in DOMAIN longer : SeedGuides(at, longer, k, longer[k].selected)
      BY <1>1, <1>2, <1>4, <2>2, GuidesAppended DEF longer
    <3>. QED
      BY <1>0, <2>1, <3>1, SettingKeepsGuides DEF SeedsGuide
  <2>. QED
    BY <1>3, <2>1, <2>7, <2>8, <2>9 DEF IInv
<1>5. CASE selection # {}
  <2>1. /\ chosen' = selection /\ phase' = "layer"
        /\ UNCHANGED <<status, category, previous, board, trace>>
    BY <1>5 DEF Proceed
  <2>2. Counted' /\ ResultsAreTrue'
    BY <1>0, <1>2, <2>1, ContinueKeeps DEF Walk, Underway
  <2>3. TrialFits'
    <3>1. (Walk(trace))' /\ (Facts(trace))' = Facts(trace)
      BY <1>2, <2>1 DEF Walk, RouteFollows, Facts
    <3>2. Available(Layer)' = Available(Layer)
      BY <2>1 DEF Available, Layer
    <3>. QED
      BY <1>0, <1>2, <1>5, <2>1, <3>1, <3>2 DEF TrialFits, Underway, Between
  <2>4. SeedsGuide'
    <3>1. Layer' = Layer
      BY <2>1 DEF Layer
    <3>. QED
      BY <1>0, <2>1, <3>1, SettingKeepsGuides DEF SeedsGuide
  <2>. QED
    BY <1>3, <2>1, <2>2, <2>3, <2>4 DEF IInv
<1>. QED
  BY <1>4, <1>5

LEMMA SelectToolsKeeps ==
  ASSUME IInv, SelectTools
  PROVE  IInv'
<1>1. /\ phase = "route" /\ ~setting.router /\ Proceed(Selection(Layer))
      /\ UNCHANGED <<setting, at, results, active, runs, stranded, raised>>
  BY DEF SelectTools
<1>2. setting \in Settings /\ at \in 1..Trials /\ Layer \in 1..Depth
  BY <1>1, LayerToCome DEF IInv, Counted, Underway
<1>3. Selection(Layer) \subseteq Available(Layer)
  BY <1>2, SelectionIsAvailable
<1>. QED
  BY <1>1, <1>3, SelectionGuides, ProceedKeeps

LEMMA EndingKeeps ==
  ASSUME IInv, phase = "route", NEW how, NEW why,
         \/ how = "routing_error" /\ why \in {None, "tool_selection", "missing_tool"}
         \/ how = "tool_error" /\ why = None,
         Ending(how, why),
         UNCHANGED <<setting, at, results, active, runs, stranded, raised>>
  PROVE  IInv'
<1>0. /\ Counted /\ TrialFits /\ ResultsAreTrue /\ FixturesAreReleased /\ SeedsGuide
  BY DEF IInv
<1>1. /\ phase' = "teardown" /\ status' = how /\ category' = why
      /\ UNCHANGED <<previous, chosen, board, trace>>
  BY DEF Ending
<1>2. /\ chosen = {} /\ Len(trace) < Depth /\ Walk(trace) /\ board = Facts(trace)
      /\ \A k \in DOMAIN trace : trace[k].ok # {}
      /\ trace \in Seq(LayerRecord) /\ Len(trace) <= Depth /\ previous \subseteq Tool
  BY <1>0 DEF Counted, TrialFits, Underway
<1>3. Counted' /\ ResultsAreTrue'
  BY <1>0, <1>1, <1>2, ContinueKeeps DEF Walk, Underway
<1>4. TrialFits'
  <2>1. Walk(trace)' /\ Facts(trace)' = Facts(trace)
    BY <1>1, <1>2 DEF Walk, RouteFollows, Facts
  <2>2. \A k \in 1..(Len(trace) - 1) : trace[k].ok # {}
    BY <1>2
  <2>3. Fits(status, category, trace)'
    BY <1>1, <1>2, <2>2 DEF Fits
  <2>. QED
    BY <1>1, <1>2, <2>1, <2>3 DEF TrialFits, Underway, Between
<1>5. FixturesAreReleased'
  BY <1>0, <1>1 DEF FixturesAreReleased, IdAt, ScenarioAt, IndexAt
<1>6. SeedsGuide'
  BY <1>0, <1>1, ContinueGuides
<1>. QED
  BY <1>3, <1>4, <1>5, <1>6 DEF IInv

LEMMA RouterDecidesKeeps ==
  ASSUME IInv, NEW d \in Decision, RouterDecides(d)
  PROVE  IInv'
<1>1. /\ phase = "route" /\ setting.router
      /\ UNCHANGED <<setting, at, results, active, runs, stranded, raised>>
  BY DEF RouterDecides
<1>2. CASE Verdict(d, Available(Layer)) = "valid" /\ Proceed(d.tools)
  <2>1. d.tools \subseteq Available(Layer)
    BY <1>2 DEF Verdict
  <2>. QED
    BY <1>1, <1>2, <2>1, ProceedKeeps
<1>3. CASE Ending("routing_error", "missing_tool") \/ Ending("routing_error", "tool_selection")
  BY <1>1, <1>3, EndingKeeps
<1>4. \/ Verdict(d, Available(Layer)) = "valid" /\ Proceed(d.tools)
      \/ Ending("routing_error", "missing_tool") \/ Ending("routing_error", "tool_selection")
  BY DEF RouterDecides
<1>. QED
  BY <1>2, <1>3, <1>4

\* A run that breaks while a trial is set up: the trial is noted as stranded.
LEMMA AbortReleases ==
  ASSUME IInv, phase \in {"route", "layer", "teardown"}, Abort, setting' = setting,
         setting.manager = "none" \/ stranded' = stranded \cup {IdAt(at)}, active' = active
  PROVE  FixturesAreReleased'
<1>1. FixturesAreReleased /\ results' = <<>> /\ phase' = "aborted"
  BY DEF IInv, Abort
<1>. QED
  BY <1>1 DEF FixturesAreReleased

LEMMA RouterFailsKeeps ==
  ASSUME IInv, RouterFails
  PROVE  IInv'
<1>1. /\ phase = "route" /\ UNCHANGED <<setting, active, runs, raised>>
  BY DEF RouterFails
<1>2. CASE /\ \E how \in {"routing_error", "tool_error"} : Ending(how, None)
           /\ UNCHANGED <<at, results, stranded>>
  BY <1>1, <1>2, EndingKeeps
<1>3. CASE /\ Abort
           /\ stranded' = IF setting.manager = "none" THEN stranded ELSE stranded \cup {IdAt(at)}
  BY <1>1, <1>3, AbortKeeps, AbortReleases DEF IInv
<1>. QED
  BY <1>2, <1>3 DEF RouterFails

LEMMA RunLayerKeeps ==
  ASSUME IInv, NEW ok \in SUBSET chosen, RunLayer(ok)
  PROVE  IInv'
<1>. DEFINE l == [available |-> Available(Layer), selected |-> chosen, ok |-> ok]
            longer == Append(trace, l)
<1>0. /\ Counted /\ TrialFits /\ ResultsAreTrue /\ FixturesAreReleased /\ SeedsGuide
      /\ phase = "layer" /\ phase \in Underway
      /\ trace' = longer
      /\ board' = board \cup UNION {Produces[t] : t \in ok}
      /\ chosen' = {}
      /\ UNCHANGED <<setting, at, category, results, active, runs, stranded, raised>>
  BY DEF IInv, RunLayer, Underway
<1>1. /\ Layer \in 1..Depth /\ Layer = Len(trace) + 1 /\ Len(trace) \in Nat
      /\ Available(Layer) \subseteq Tool
      /\ trace = <<>> \/ previous # {}
  BY <1>0, LayerToCome
<1>2. /\ status = "completed" /\ category = None /\ chosen # {} /\ chosen \subseteq Available(Layer)
      /\ Len(trace) < Depth /\ Walk(trace) /\ board = Facts(trace)
      /\ \A k \in DOMAIN trace : trace[k].ok # {}
      /\ previous = IF trace = <<>> THEN {} ELSE trace[Len(trace)].selected
      /\ previous \subseteq Tool /\ trace \in Seq(LayerRecord)
  BY <1>0 DEF Counted, TrialFits, Underway
<1>3. l \in LayerRecord /\ l.ok = ok /\ l.selected = chosen
  BY <1>1, <1>2 DEF LayerRecord
<1>. HIDE DEF l
<1>4. /\ longer \in Seq(LayerRecord) /\ longer # <<>> /\ Len(longer) = Len(trace) + 1
      /\ DOMAIN trace = 1..Len(trace) /\ DOMAIN longer = 1..(Len(trace) + 1)
      /\ \A k \in 1..Len(trace) : longer[k] = trace[k]
      /\ longer[Len(trace) + 1] = l
  BY <1>2, <1>3, Appended
<1>5. Walk(longer)
  BY <1>1, <1>2, <1>3, WalkAppended
<1>6. board' = Facts(longer)
  BY <1>0, <1>2, <1>3, FactsAppended
<1>7. ~setting.router => \A k \in DOMAIN longer : SeedGuides(at, longer, k, longer[k].selected)
  <2>1. ~setting.router => SeedGuides(at, trace, Layer, l.selected)
    BY <1>0, <1>3 DEF SeedsGuide
  <2>. QED
    BY <1>1, <1>2, <1>3, <2>1, GuidesAppended
<1>. HIDE DEF longer
<1>8. Walk(trace)' /\ board' = Facts(trace)'
  BY <1>0, <1>5, <1>6 DEF Walk, RouteFollows, Facts
<1>9. phase' \in {"teardown", "route"}
  BY DEF RunLayer
<1>10. Counted' /\ ResultsAreTrue'
  BY <1>0, <1>4, <1>5, <1>9, ContinueKeeps DEF Walk, Underway
<1>11. FixturesAreReleased'
  BY <1>0, <1>9 DEF FixturesAreReleased, IdAt, ScenarioAt, IndexAt
<1>12. SeedsGuide'
  BY <1>0, <1>7, <1>9, SettingKeepsGuides DEF SeedsGuide
<1>13. Len(longer) <= Depth /\ Len(longer) \in Nat /\ longer[Len(longer)] = l
  BY <1>1, <1>4
<1>14. \A k \in 1..(Len(longer) - 1) : longer[k].ok # {}
  BY <1>1, <1>2, <1>4
<1>15. chosen \subseteq Tool
  BY <1>1, <1>2
<1>16. CASE ok = {}
  <2>1. phase' = "teardown" /\ status' = "layer_error" /\ previous' = previous
    BY <1>16 DEF RunLayer
  <2>2. Fits("layer_error", None, longer)
    BY <1>2, <1>3, <1>4, <1>13, <1>14, <1>16 DEF Fits, AllFailed
  <2>3. Fits(status, category, trace)'
    BY <1>0, <1>2, <2>1, <2>2 DEF Fits, WalkedToTheEnd, AllFailed
  <2>4. TrialFits'
    BY <1>0, <1>2, <1>8, <1>13, <2>1, <2>3 DEF TrialFits, Underway, Between
  <2>. QED
    BY <1>10, <1>11, <1>12, <2>4 DEF IInv
<1>17. CASE ok # {}
  <2>1. /\ phase' = IF Layer = Depth THEN "teardown" ELSE "route"
        /\ previous' = chosen /\ status' = status
    BY <1>17 DEF RunLayer
  <2>2. \A k \in DOMAIN longer : longer[k].ok # {}
    BY <1>1, <1>3, <1>4, <1>14, <1>17
  <2>3. CASE Layer = Depth
    <3>1. Fits("completed", None, longer)
      BY <1>1, <1>3, <1>4, <1>13, <1>14, <1>17, <2>3 DEF Fits, WalkedToTheEnd, AllFailed
    <3>2. Fits(status, category, trace)'
      BY <1>0, <1>2, <2>1, <3>1 DEF Fits, WalkedToTheEnd, AllFailed
    <3>3. TrialFits'
      BY <1>0, <1>2, <1>8, <1>13, <1>15, <2>1, <2>3, <3>2 DEF TrialFits, Underway, Between
    <3>. QED
      BY <1>10, <1>11, <1>12, <3>3 DEF IInv
  <2>4. CASE Layer # Depth
    <3>1. Len(longer) < Depth /\ longer[Len(longer)].selected = chosen
      BY <1>1, <1>3, <1>4, <1>13, <2>4, LayersAreTyped
    <3>2. TrialFits'
      BY <1>0, <1>2, <1>4, <1>8, <1>13, <1>15, <2>1, <2>2, <2>4, <3>1 DEF TrialFits, Underway, Between
    <3>. QED
      BY <1>10, <1>11, <1>12, <3>2 DEF IInv
  <2>. QED
    BY <2>3, <2>4
<1>. QED
  BY <1>16, <1>17

\* A trial that was walked to its end can be recorded as completed, or as an error of
\* its fixture or its evaluation; another one as what it is.
LEMMA FitsTells ==
  ASSUME Fits(status, category, trace), Walk(trace), trace \in Seq(LayerRecord),
         NEW how, NEW why, NEW criteria,
         \/ status # "completed" /\ how = status /\ why = category
         \/ status = "completed" /\ \/ how = "completed" /\ why \in {None, "business"}
                                    \/ how = "evaluation_error" /\ why = "evaluation"
                                    \/ how = "fixture_error" /\ why = "fixture"
  PROVE  /\ StatusTells([trial |-> at, status |-> how, category |-> why, trace |-> trace,
                         criteria |-> criteria])
         /\ how \in Status /\ why \in FailureCategory \cup {None}
<1>. DEFINE r == [trial |-> at, status |-> how, category |-> why, trace |-> trace,
                  criteria |-> criteria]
<1>1. None \notin FailureCategory
  BY SlowRegressionAssumption
<1>2. /\ \A k \in 1..(Len(trace) - 1) : trace[k].ok # {}
      /\ trace # <<>> => Len(trace) \in DOMAIN trace
      /\ \A k \in DOMAIN trace : trace[k].ok \subseteq trace[k].selected
  <2>1. trace # <<>> => Len(trace) \in DOMAIN trace
    OBVIOUS
  <2>. QED
    BY <2>1 DEF Fits, Walk
<1>3. /\ r.trace = trace /\ r.status = how /\ r.category = why
  OBVIOUS
<1>. HIDE DEF r
<1>4. CASE status = "completed"
  <2>1. WalkedToTheEnd(trace)
    BY <1>4 DEF Fits
  <2>. QED
    BY <1>1, <1>2, <1>3, <1>4, <2>1 DEF StatusTells, WalkedToTheEnd, Status, FailureCategory, r
<1>5. CASE status = "layer_error"
  <2>1. why = None /\ how = "layer_error" /\ trace # <<>> /\ AllFailed(trace[Len(trace)])
    BY <1>5 DEF Fits
  <2>. QED
    BY <1>1, <1>2, <1>3, <1>5, <2>1 DEF StatusTells, Status, FailureCategory, r
<1>6. CASE status \in {"routing_error", "tool_error"}
  <2>1. /\ why \in {None, "tool_selection", "missing_tool"}
        /\ how = status /\ (how = "tool_error" => why = None)
        /\ Len(trace) # Depth /\ \A k \in DOMAIN trace : trace[k].ok # {}
    <3>1. Len(trace) < Depth /\ Len(trace) \in Nat
      BY <1>6 DEF Fits
    <3>. QED
      BY <1>6, <3>1, LayersAreTyped DEF Fits
  <2>2. trace # <<>> => trace[Len(trace)].ok # {} /\ trace[Len(trace)].selected # {}
    BY <1>2, <2>1
  <2>3. ~WalkedToTheEnd(trace) /\ ~(trace # <<>> /\ AllFailed(trace[Len(trace)]))
    BY <2>1, <2>2 DEF WalkedToTheEnd, AllFailed
  <2>. QED
    BY <1>1, <1>2, <1>3, <1>6, <2>1, <2>3 DEF StatusTells, Status, FailureCategory, r
<1>. QED
  BY <1>4, <1>5, <1>6 DEF Fits

\* A trial that was not completed, or not evaluated, is recorded without criteria.
LEMMA RecordWithout ==
  ASSUME IInv, phase \in {"teardown", "evaluate"},
         NEW how, NEW why,
         \/ status # "completed" /\ how = status /\ why = category
         \/ status = "completed" /\ \/ how = "evaluation_error" /\ why = "evaluation"
                                    \/ how = "fixture_error" /\ why = "fixture",
         Record(how, why), setting' = setting,
         raised \subseteq raised', raised' \subseteq raised \cup {at}
  PROVE  Counted' /\ TrialFits' /\ ResultsAreTrue' /\ SeedsGuide'
<1>. DEFINE r == [trial |-> at, status |-> how, category |-> why, trace |-> trace,
                  criteria |-> None]
<1>1. Fits(status, category, trace) /\ Walk(trace) /\ trace \in Seq(LayerRecord)
  BY DEF IInv, Counted, TrialFits
<1>2. StatusTells(r) /\ how \in Status /\ why \in FailureCategory \cup {None} /\ how # "completed"
  BY <1>1, FitsTells
<1>3. VerdictTells(r, raised')
  BY <1>2 DEF VerdictTells
<1>4. RecordJudged(how, why, None)
  BY DEF Record
<1>5. None \in {None} \cup [DOMAIN Components -> BOOLEAN]
  OBVIOUS
<1>. QED
  BY <1>2, <1>3, <1>4, <1>5, RecordKeeps

\* A result that is no error of the fixture, or whose fixture was stranded, keeps
\* the manager's account.
LEMMA RecordReleases ==
  ASSUME IInv, phase \in {"teardown", "evaluate"},
         NEW how, NEW why, NEW criteria, RecordJudged(how, why, criteria),
         setting' = setting, stranded' = stranded,
         setting.manager # "default" \/ how # "fixture_error",
         active' = IF phase = "teardown" THEN active \ {IdAt(at)} ELSE active
  PROVE  setting.manager = "default" => FixturesAreReleased'
<1>. SUFFICES ASSUME setting.manager = "default" PROVE FixturesAreReleased'
  OBVIOUS
<1>. DEFINE r == [trial |-> at, status |-> how, category |-> why, trace |-> trace,
                  criteria |-> criteria]
<1>1. Counted /\ FixturesAreReleased
  BY DEF IInv
<1>2. /\ results' = Append(results, r)
      /\ phase' \in {"setup", "done"}
  BY DEF RecordJudged
<1>3. results \in Seq(ResultType) /\ Len(results) = at - 1 /\ at \in Nat
  BY <1>1 DEF Counted
<1>4. active' \subseteq stranded
  BY <1>1 DEF FixturesAreReleased
<1>5. \A i : IdAt(i)' = IdAt(i)
  BY DEF IdAt, ScenarioAt, IndexAt
<1>6. r.status # "fixture_error"
  OBVIOUS
<1>. HIDE DEF r
<1>7. \A i \in DOMAIN results' : results'[i] = r \/ (i \in DOMAIN results /\ results'[i] = results[i])
  BY <1>2, <1>3
<1>8. \A i \in DOMAIN results' : results'[i].status = "fixture_error" => IdAt(i) \in stranded
  BY <1>1, <1>6, <1>7 DEF FixturesAreReleased
<1>. QED
  BY <1>2, <1>4, <1>5, <1>8 DEF FixturesAreReleased

LEMMA EvaluatedKeeps ==
  ASSUME IInv, phase = "teardown", Evaluated, setting' = setting, raised' = raised
  PROVE  Counted' /\ TrialFits' /\ ResultsAreTrue' /\ SeedsGuide'
<1>1. CASE status # "completed"
  <2>1. Record(status, category)
    BY <1>1 DEF Evaluated
  <2>. QED
    BY <1>1, <2>1, RecordWithout
<1>2. CASE status = "completed"
  <2>1. /\ phase' = "evaluate"
        /\ UNCHANGED <<at, results, status, category, previous, chosen, board, trace>>
    BY <1>2 DEF Evaluated, trialVars
  <2>2. TrialFits /\ trace \in Seq(LayerRecord)
    BY DEF IInv, Counted
  <2>3. Counted' /\ ResultsAreTrue'
    BY <2>1, <2>2, ContinueKeeps DEF TrialFits, Walk
  <2>4. TrialFits'
    <3>1. Walk(trace)'
      BY <2>1, <2>2 DEF TrialFits, Walk, RouteFollows
    <3>2. Facts(trace)' = Facts(trace)
      BY <2>1 DEF Facts
    <3>3. Fits(status, category, trace)'
      BY <2>1, <2>2 DEF TrialFits, Fits, WalkedToTheEnd, AllFailed
    <3>. QED
      BY <1>2, <2>1, <2>2, <3>1, <3>2, <3>3 DEF TrialFits, Underway, Between
  <2>5. SeedsGuide'
    BY <2>1, ContinueGuides
  <2>. QED
    BY <2>3, <2>4, <2>5
<1>. QED
  BY <1>1, <1>2

LEMMA TeardownKeeps ==
  ASSUME IInv, Teardown
  PROVE  IInv'
<1>1. phase = "teardown" /\ UNCHANGED <<setting, runs, raised>>
  BY DEF Teardown
<1>2. CASE Evaluated /\ active' = active \ {IdAt(at)} /\ UNCHANGED stranded
  <2>1. Counted' /\ TrialFits' /\ ResultsAreTrue' /\ SeedsGuide'
    BY <1>1, <1>2, EvaluatedKeeps
  <2>2. setting.manager = "default" => FixturesAreReleased'
    <3>1. CASE status = "completed"
      <4>1. phase' = "evaluate" /\ UNCHANGED <<at, results>>
        BY <1>2, <3>1 DEF Evaluated
      <4>2. FixturesAreReleased
        BY DEF IInv
      <4>. QED
        BY <1>1, <1>2, <4>1, <4>2 DEF FixturesAreReleased, IdAt, ScenarioAt, IndexAt
    <3>2. CASE status # "completed"
      <4>1. RecordJudged(status, category, None)
        BY <1>2, <3>2 DEF Evaluated, Record
      <4>2. status # "fixture_error"
        BY <1>1 DEF IInv, TrialFits, Fits
      <4>. QED
        BY <1>1, <1>2, <4>1, <4>2, RecordReleases
    <3>. QED
      BY <3>1, <3>2
  <2>3. FixturesAreReleased'
    BY <1>1, <2>2 DEF FixturesAreReleased
  <2>. QED
    BY <2>1, <2>3 DEF IInv
<1>3. CASE /\ setting.manager = "custom"
           /\ IF status = "completed" THEN Record("fixture_error", "fixture")
                                      ELSE Record(status, category)
           /\ UNCHANGED <<active, stranded>>
  <2>1. Counted' /\ TrialFits' /\ ResultsAreTrue' /\ SeedsGuide'
    BY <1>1, <1>3, RecordWithout
  <2>2. FixturesAreReleased'
    BY <1>1, <1>3 DEF FixturesAreReleased
  <2>. QED
    BY <2>1, <2>2 DEF IInv
<1>4. CASE /\ setting.manager = "custom" /\ Abort
           /\ stranded' = stranded \cup {IdAt(at)} /\ UNCHANGED active
  BY <1>1, <1>4, AbortKeeps, AbortReleases DEF IInv
<1>. QED
  BY <1>2, <1>3, <1>4 DEF Teardown

LEMMA EvaluateKeeps ==
  ASSUME IInv, Evaluate
  PROVE  IInv'
<1>0. /\ Counted /\ TrialFits /\ phase = "evaluate" /\ status = "completed"
      /\ UNCHANGED <<setting, active, runs, stranded>>
  BY DEF IInv, Evaluate, TrialFits
<1>. DEFINE weights == [i \in DOMAIN Components |-> Components[i].weight]
<1>1. PICK answers \in [Judges -> Answers] :
        LET verdicts == Verdicts(answers)
            verdict  == CompositeVerdict(weights, verdicts)
        IN
        /\ IF verdict = None THEN Record("evaluation_error", "evaluation")
           ELSE RecordJudged("completed", IF verdict.success THEN None ELSE "business",
                             verdict.criteria)
        /\ raised' = IF \E i \in DOMAIN verdicts : verdicts[i] = None
                     THEN raised \cup {at} ELSE raised
  BY DEF Evaluate
<1>. DEFINE verdicts == Verdicts(answers)
            verdict  == CompositeVerdict(weights, verdicts)
<1>2. raised \subseteq raised' /\ raised' \subseteq raised \cup {at}
  BY <1>1
<1>3. CASE verdict = None
  <2>1. Record("evaluation_error", "evaluation")
    BY <1>1, <1>3
  <2>2. Counted' /\ TrialFits' /\ ResultsAreTrue' /\ SeedsGuide'
    BY <1>0, <1>2, <2>1, RecordWithout
  <2>3. setting.manager = "default" => FixturesAreReleased'
    BY <1>0, <2>1, RecordReleases DEF Record
  <2>. QED
    BY <1>0, <2>2, <2>3 DEF IInv, FixturesAreReleased
<1>4. CASE verdict # None
  <2>. DEFINE how == "completed"
              why == IF verdict.success THEN None ELSE "business"
              r   == [trial |-> at, status |-> how, category |-> why, trace |-> trace,
                      criteria |-> verdict.criteria]
  <2>1. RecordJudged(how, why, verdict.criteria)
    BY <1>1, <1>4
  <2>2. /\ \A i \in DOMAIN verdicts : verdicts[i] # None
        /\ verdict = [success  |-> \A i \in DOMAIN verdicts : verdicts[i].success,
                      criteria |-> [i \in DOMAIN verdicts |-> verdicts[i].success]]
    BY <1>4 DEF CompositeVerdict
  <2>3. DOMAIN verdicts = DOMAIN Components
    BY DEF Verdicts
  <2>4. \A i \in (DOMAIN Components) \ Judges :
          verdicts[i].success = (Components[i].expected \subseteq board)
    BY DEF Verdicts, StructuredVerdict
  <2>5. \A i \in Judges : verdicts[i].success \in BOOLEAN
    <3>. TAKE i \in Judges
    <3>1. verdicts[i] = JudgeVerdict(answers[i]) /\ verdicts[i] # None
      BY <2>2, <2>3 DEF Verdicts, Judges
    <3>2. verdicts[i] = answers[i] /\ answers[i] \in Answers
      BY <1>1, <3>1 DEF JudgeVerdict
    <3>. QED
      BY <3>1, <3>2, SlowRegressionAssumption
  <2>6. raised' = raised /\ at \notin raised
    <3>1. raised' = raised
      BY <1>1, <2>2
    <3>2. raised \subseteq 1..(at - 1) /\ at \in Int
      BY <1>0 DEF Counted
    <3>3. at \notin 1..(at - 1)
      BY <3>2
    <3>. QED
      BY <3>1, <3>2, <3>3
  <2>. HIDE DEF verdicts, verdict
  <2>7. /\ verdict.criteria = [i \in DOMAIN Components |-> verdicts[i].success]
        /\ verdict.success <=> \A i \in DOMAIN Components : verdict.criteria[i]
    BY <2>2, <2>3
  <2>8. verdict.criteria \in [DOMAIN Components -> BOOLEAN]
    <3>1. \A i \in DOMAIN Components : verdicts[i].success \in BOOLEAN
      BY <2>4, <2>5
    <3>. QED
      BY <2>7, <3>1
  <2>9. why \in {None, "business"} /\ why \in FailureCategory \cup {None} /\ how \in Status
    BY DEF FailureCategory, Status
  <2>10. StatusTells(r)
    BY <1>0, <2>9, FitsTells DEF TrialFits, Counted
  <2>11. VerdictTells(r, raised')
    <3>1. None \notin FailureCategory /\ None \notin [DOMAIN Components -> BOOLEAN]
      BY SlowRegressionAssumption
    <3>2. r.criteria # None
      BY <2>8, <3>1
    <3>3. r.category = None <=> \A c \in DOMAIN Components : r.criteria[c]
      BY <2>7, <3>1 DEF FailureCategory
    <3>4. \A c \in (DOMAIN Components) \ Judges :
            r.criteria[c] <=> Components[c].expected \subseteq Facts(r.trace)
      BY <1>0, <2>4, <2>7 DEF TrialFits
    <3>. QED
      BY <2>6, <3>2, <3>3, <3>4 DEF VerdictTells
  <2>12. Counted' /\ TrialFits' /\ ResultsAreTrue' /\ SeedsGuide'
    <3>. HIDE DEF why
    <3>. QED
      BY <1>0, <1>2, <2>1, <2>8, <2>9, <2>10, <2>11, RecordKeeps
  <2>13. setting.manager = "default" => FixturesAreReleased'
    BY <1>0, <2>1, RecordReleases
  <2>. QED
    BY <1>0, <2>12, <2>13 DEF IInv, FixturesAreReleased
<1>. QED
  BY <1>3, <1>4

LEMMA RerunKeeps ==
  ASSUME IInv, Rerun
  PROVE  IInv'
<1>0. /\ Counted /\ TrialFits /\ FixturesAreReleased
      /\ phase \in {"done", "aborted"} /\ phase' = "setup"
      /\ at' = 1 /\ results' = <<>> /\ raised' = {}
      /\ UNCHANGED <<setting, status, category, previous, chosen, board, trace, active, stranded>>
  BY DEF IInv, Rerun, trialVars
<1>1. /\ trace = <<>> /\ board = {} /\ previous = {} /\ chosen = {}
      /\ status = "completed" /\ category = None
  BY <1>0, NoTrace DEF TrialFits, Between
<1>2. Trials' = Trials /\ Trials \in Nat \ {0}
  BY <1>0, SettingIsTyped DEF Counted, Trials
<1>3. Counted'
  <2>1. <<>> \in Seq(ResultType) /\ DOMAIN results' = {} /\ Len(results') = 0
    BY <1>0
  <2>. QED
    BY <1>0, <1>2, <2>1 DEF Counted, Between
<1>4. TrialFits'
  <2>1. Walk(trace)' /\ Facts(trace)' = {}
    BY <1>0, <1>1, NoTrace DEF Walk, RouteFollows, Facts
  <2>. QED
    BY <1>0, <1>1, <2>1, NoTrace, LayersAreTyped DEF TrialFits, Underway, Between
<1>5. ResultsAreTrue'
  <2>1. Traces' = {<<>>} /\ DOMAIN results' = {}
    BY <1>0, <1>1 DEF Traces
  <2>2. RoutesFollowEdges'
    BY <2>1 DEF RoutesFollowEdges, RouteFollows
  <2>. QED
    BY <2>1, <2>2 DEF ResultsAreTrue, StatusTellsTrace, VerdictsTellTrials
<1>6. FixturesAreReleased'
  BY <1>0 DEF FixturesAreReleased
<1>7. SeedsGuide'
  BY <1>0, <1>1 DEF SeedsGuide
<1>. QED
  BY <1>3, <1>4, <1>5, <1>6, <1>7 DEF IInv

LEMMA StepKeeps ==
  ASSUME IInv, [Next]_vars
  PROVE  IInv'
<1>1. CASE UNCHANGED vars
  <2>. USE <1>1 DEF vars, trialVars
  <2>1. Counted'
    BY DEF IInv, Counted, Trials
  <2>2. TrialFits'
    <3>0. TrialFits
      BY DEF IInv
    <3>1. Walk(trace)' = Walk(trace) /\ Facts(trace)' = Facts(trace)
      BY DEF Walk, RouteFollows, Facts
    <3>2. Fits(status, category, trace)' = Fits(status, category, trace)
      BY DEF Fits, WalkedToTheEnd, AllFailed
    <3>3. Available(Layer)' = Available(Layer)
      BY DEF Available, Layer
    <3>. QED
      BY <3>0, <3>1, <3>2, <3>3 DEF TrialFits
  <2>3. ResultsAreTrue'
    <3>0. ResultsAreTrue
      BY DEF IInv
    <3>1. RoutesFollowEdges' = RoutesFollowEdges
      BY DEF RoutesFollowEdges, Traces, RouteFollows
    <3>2. StatusTellsTrace' = StatusTellsTrace
      BY DEF StatusTellsTrace
    <3>3. VerdictsTellTrials' = VerdictsTellTrials
      BY DEF VerdictsTellTrials, VerdictTells, Facts, Judges
    <3>. QED
      BY <3>0, <3>1, <3>2, <3>3 DEF ResultsAreTrue
  <2>4. FixturesAreReleased'
    BY DEF IInv, FixturesAreReleased, IdAt, ScenarioAt, IndexAt
  <2>5. SeedsGuide'
    BY SettingKeepsGuides DEF IInv, SeedsGuide, Layer
  <2>. QED
    BY <2>1, <2>2, <2>3, <2>4, <2>5 DEF IInv
<1>2. CASE Next
  BY <1>2, SetupKeeps, SelectToolsKeeps, RouterDecidesKeeps, RouterFailsKeeps, RunLayerKeeps,
     TeardownKeeps, EvaluateKeeps, RerunKeeps DEF Next, Step
<1>. QED
  BY <1>1, <1>2

----------------------------------------------------------------------------
(* Theorems *)

\* The strengthened invariant holds of every run, whatever the router decides,
\* the evaluator says and the fixtures do.
THEOREM SlowRunIsGood == Spec => []IInv
<1>1. Init => IInv
  BY InitIsGood
<1>2. IInv /\ [Next]_vars => IInv'
  BY StepKeeps
<1>. QED
  BY <1>1, <1>2, PTL DEF Spec

\* What a recorded result holds, field by field.
LEMMA ResultsHaveTheirType ==
  ASSUME Counted
  PROVE  \A i \in DOMAIN results : /\ results[i].status \in Status
                                  /\ results[i].trace \in Seq(LayerRecord)
<1>1. results \in Seq(ResultType)
  BY DEF Counted
<1>2. ASSUME NEW i \in DOMAIN results PROVE results[i] \in ResultType
  <2>1. i \in 1..Len(results)
    BY <1>1
  <2>. QED
    BY <1>1, <2>1, ElementOfSeq
<1>. QED
  BY <1>2 DEF ResultType

\* Trials, phases, statuses and recorded layers keep their types.
THEOREM SlowRunIsTyped == Spec => []TypeOK
<1>1. IInv => TypeOK
  <2>. SUFFICES ASSUME IInv PROVE TypeOK
    OBVIOUS
  <2>1. Counted /\ TrialFits
    BY DEF IInv
  <2>2. status \in Status
    BY <2>1 DEF Counted, TrialFits, Fits, Underway, Between, Status
  <2>3. phase = "layer" =>
          chosen # {} /\ chosen \subseteq Layers[Layer] /\ chosen \subseteq Tool
    BY <2>1, LayerToCome DEF TrialFits, Underway
  <2>4. phase # "layer" => chosen = {}
    BY <2>1 DEF TrialFits
  <2>5. \A i \in DOMAIN results : results[i].status \in Status
    BY <2>1, ResultsHaveTheirType
  <2>6. phase = "done" => Len(results) = Trials
    <3>1. Trials \in Nat
      BY <2>1, SettingIsTyped DEF Counted
    <3>. QED
      BY <2>1, <3>1 DEF Counted
  <2>. QED
    BY <2>1, <2>2, <2>3, <2>4, <2>5, <2>6 DEF TypeOK, Counted, TrialFits, Underway, Between
<1>. QED
  BY <1>1, SlowRunIsGood, PTL

\* A result tells what its trial did, and the trial did what the topology admits:
\* routes follow edges and feed on what succeeded, status and verdict agree with
\* the trace, and an evaluator that failed is no business failure.
THEOREM ResultsAreTrueAlways == Spec => []ResultsAreTrue
<1>1. IInv => ResultsAreTrue
  BY DEF IInv
<1>. QED
  BY <1>1, SlowRunIsGood, PTL

\* The default fixture manager holds on to no trial but the one under way, and
\* refuses none but one that a broken run left set up.
THEOREM FixturesAreReleasedAlways == Spec => []FixturesAreReleased
<1>1. IInv => FixturesAreReleased
  BY DEF IInv
<1>. QED
  BY <1>1, SlowRunIsGood, PTL

\* The first trial of a scenario walks its seed as long as the tools succeed.
THEOREM SeedIsWalkedFirstAlways == Spec => []SeedIsWalkedFirst
<1>1. IInv => SeedIsWalkedFirst
  <2>. SUFFICES ASSUME IInv, ~setting.router, NEW i \in DOMAIN results, IndexAt(i) = 0,
                       Seed[ScenarioAt(i)] # None, IsRoute(Seed[ScenarioAt(i)]),
                       NEW k \in DOMAIN results[i].trace,
                       \A j \in 1..(k - 1) : results[i].trace[j].ok = results[i].trace[j].selected
                PROVE  results[i].trace[k].selected = Seed[ScenarioAt(i)][k]
    BY DEF SeedIsWalkedFirst
  <2>1. SeedGuides(i, results[i].trace, k, results[i].trace[k].selected)
    BY DEF IInv, SeedsGuide
  <2>. QED
    BY <2>1 DEF SeedGuides
<1>. QED
  BY <1>1, SlowRunIsGood, PTL

\* A sibling that the limit leaves room for is in the set made for it.
LEMMA ExtendedHoldsSibling ==
  ASSUME NEW baseline \in SUBSET Nat, IsFiniteSet(baseline), NEW t \in Nat,
         Cardinality(baseline) < MaxTools
  PROVE  t \in Extended(baseline, t)
<1>. DEFINE Below == {s \in baseline \cup {t} : s < t}
<1>1. Below \in SUBSET baseline
  BY SMT
<1>2. IsFiniteSet(Below) /\ Cardinality(Below) <= Cardinality(baseline)
  BY <1>1, FS_Subset
<1>3. Cardinality(Below) \in Nat /\ Cardinality(baseline) \in Nat /\ MaxTools \in Nat
  BY <1>2, FS_CardinalityType, SlowRegressionAssumption
<1>4. Cardinality(Below) < MaxTools
  <2>. HIDE DEF Below
  <2>. QED
    BY <1>2, <1>3
<1>. QED
  BY <1>4 DEF Extended, FirstOf

\* With enough trials each sibling of the seed in the first layer is tried.
THEOREM SiblingsAreExploredAlways == Spec => []SiblingsAreExplored
<1>1. IInv => SiblingsAreExplored
  <2>. SUFFICES ASSUME IInv, phase = "done", ~setting.router,
                       NEW n \in DOMAIN setting.scenarios,
                       Seed[setting.scenarios[n]] # None,
                       setting.trials > Cardinality(Layers[1] \ Seed[setting.scenarios[n]][1]),
                       \A i \in {j \in DOMAIN results : ScenarioAt(j) = setting.scenarios[n]} :
                         results[i].trace # <<>>,
                       Cardinality(Seed[setting.scenarios[n]][1]) < MaxTools,
                       NEW t \in FirstLayer
                PROVE  \E i \in {j \in DOMAIN results : ScenarioAt(j) = setting.scenarios[n]} :
                         t \in results[i].trace[1].selected
    BY DEF SiblingsAreExplored, FirstLayer
  <2>. DEFINE seed   == Seed[setting.scenarios[n]][1]
              sets   == CandidateSets(FirstLayer, seed)
              per    == setting.trials
              before == seed \cap FirstLayer
              others == FirstLayer \ seed
  <2>1. /\ Counted /\ SeedsGuide
        /\ setting.scenarios \in Seq(Scenario) /\ n \in 1..Len(setting.scenarios)
        /\ Len(setting.scenarios) \in Nat /\ per \in Nat \ {0}
        /\ Trials = Len(setting.scenarios) * per
    BY SettingIsTyped DEF IInv, Counted, Trials
  <2>2. DOMAIN results = 1..Trials
    <3>1. Trials \in Nat /\ Len(results) = at - 1 /\ at = Trials + 1 /\ results \in Seq(ResultType)
      BY <2>1, SettingIsTyped DEF Counted
    <3>2. Len(results) = Trials
      BY <3>1
    <3>. QED
      BY <3>1, <3>2
  <2>3. /\ seed \subseteq Layers[1] /\ FirstLayer \subseteq Layers[1]
        /\ Layers[1] \in SUBSET Nat /\ IsFiniteSet(Layers[1])
    <3>1. 1 \in 1..Depth
      BY LayersAreTyped
    <3>2. setting.scenarios[n] \in Scenario
      BY <2>1
    <3>. QED
      BY <3>1, <3>2, LayersAreTyped, SlowRegressionAssumption DEF FirstLayer
  <2>4. /\ FirstLayer \in SUBSET Nat /\ IsFiniteSet(FirstLayer)
        /\ IsFiniteSet(before) /\ Cardinality(before) <= Cardinality(seed)
        /\ Cardinality(before) \in Nat /\ Cardinality(seed) \in Nat
    <3>1. IsFiniteSet(FirstLayer) /\ IsFiniteSet(seed)
      BY <2>3, FS_Subset
    <3>2. IsFiniteSet(before) /\ Cardinality(before) <= Cardinality(seed)
      BY <3>1, FS_Subset, before \in SUBSET seed
    <3>. QED
      BY <2>3, <3>1, <3>2, FS_CardinalityType
  <2>5. /\ Cardinality(others) \in Nat
        /\ Cardinality(others) < per
    <3>1. IsFiniteSet(Layers[1] \ seed) /\ others \in SUBSET (Layers[1] \ seed)
      BY <2>3, FS_Subset
    <3>2. IsFiniteSet(others) /\ Cardinality(others) <= Cardinality(Layers[1] \ seed)
      BY <3>1, FS_Subset
    <3>3. Cardinality(others) \in Nat /\ Cardinality(Layers[1] \ seed) \in Nat
      BY <3>1, <3>2, FS_CardinalityType
    <3>4. Cardinality(Layers[1] \ seed) < per
      BY <3>3, <2>1
    <3>. HIDE DEF others, per
    <3>. QED
      BY <2>1, <3>2, <3>3, <3>4
  <2>6. /\ Len(sets) \in 1..(Cardinality(others) + 1)
        /\ sets[1] = before
        /\ \A u \in others : Has(sets, Extended(before, u))
    BY <2>4, CandidateSetsExplore
  <2>7. PICK p \in 1..Len(sets) : t \in sets[p]
    <3>1. CASE t \in seed
      BY <2>5, <2>6, <3>1
    <3>2. CASE t \notin seed
      <4>1. MaxTools \in Nat
        BY SlowRegressionAssumption
      <4>2. Cardinality(before) < MaxTools
        <5>. HIDE DEF before, seed
        <5>. QED
          BY <2>4, <4>1 DEF seed
      <4>3. t \in Extended(before, t)
        BY <2>4, <4>2, ExtendedHoldsSibling
      <4>. QED
        BY <2>6, <3>2, <4>3 DEF Has
    <3>. QED
      BY <3>1, <3>2
  <2>. DEFINE i == (n - 1) * per + p
  <2>8. p \in 1..per /\ Len(sets) \in Nat \ {0} /\ (p - 1) % Len(sets) = p - 1
    <3>. HIDE DEF sets, per, others
    <3>1. Len(sets) \in Nat \ {0} /\ p \in 1..Len(sets) /\ p \in 1..per
      BY <2>1, <2>5, <2>6
    <3>. QED
      BY <3>1
  <2>9. (i - 1) \div per = n - 1 /\ (i - 1) % per = p - 1 /\ i \in 1..Trials
    <3>1. n - 1 \in Nat /\ p - 1 \in 0..(per - 1) /\ per \in Nat \ {0}
      BY <2>1, <2>8
    <3>2. i - 1 = (n - 1) * per + (p - 1)
      <4>. HIDE DEF per
      <4>1. (n - 1) * per \in Int
        BY <3>1
      <4>. QED
        BY <3>1, <4>1
    <3>3. (i - 1) \div per = n - 1 /\ (i - 1) % per = p - 1
      BY <3>1, <3>2, Division
    <3>4. i \in 1..Trials
      <4>. HIDE DEF per
      <4>. DEFINE len == Len(setting.scenarios)
      <4>1. len \in Nat /\ n \in 1..len /\ Trials = len * per /\ per \in Nat /\ p \in 1..per
        BY <2>1, <2>8
      <4>. HIDE DEF len
      <4>2. n * per <= len * per
        BY <4>1, SMT
      <4>3. (n - 1) * per = n * per - per /\ (n - 1) * per \in Nat /\ n * per \in Nat
        BY <4>1, SMT
      <4>4. len * per \in Nat
        BY <4>1, SMT
      <4>. QED
        BY <4>1, <4>2, <4>3, <4>4
    <3>. QED
      BY <3>3, <3>4
  <2>10. ScenarioAt(i) = setting.scenarios[n] /\ IndexAt(i) = p - 1 /\ i \in DOMAIN results
    <3>1. (n - 1) + 1 = n
      BY <2>1
    <3>. QED
      BY <2>2, <2>9, <3>1 DEF ScenarioAt, IndexAt
  <2>. HIDE DEF i, sets, per
  <2>11. results[i].trace # <<>> /\ 1 \in DOMAIN results[i].trace
    <3>1. results[i].trace # <<>>
      BY <2>10
    <3>2. results[i].trace \in Seq(LayerRecord)
      BY <2>1, <2>10, ResultsHaveTheirType
    <3>. QED
      BY <3>1, <3>2
  <2>12. SeedGuides(i, results[i].trace, 1, results[i].trace[1].selected)
    BY <2>1, <2>10, <2>11 DEF SeedsGuide
  <2>13. results[i].trace[1].selected = SetOfTrial(FirstLayer, seed, p - 1)
    BY <2>10, <2>12 DEF SeedGuides
  <2>14. SetOfTrial(FirstLayer, seed, p - 1) = sets[p]
    <3>1. ((p - 1) % Len(sets)) + 1 = p
      BY <2>8
    <3>. QED
      BY <3>1 DEF SetOfTrial, sets
  <2>. QED
    BY <2>7, <2>10, <2>13, <2>14
<1>. QED
  BY <1>1, SlowRunIsGood, PTL

\* Both halves of exploring atop a seed.
THEOREM SeedIsExploredAlways == Spec => []SeedIsExplored
<1>. QED
  BY SeedIsWalkedFirstAlways, SiblingsAreExploredAlways, PTL DEF SeedIsExplored

=============================================================================
