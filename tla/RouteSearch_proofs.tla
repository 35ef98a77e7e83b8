------------------------- MODULE RouteSearch_proofs -------------------------
(***************************************************************************)
(* What a search promises for any topology, any distribution of            *)
(* capabilities, any limit and wherever the budget ends it.                *)
(***************************************************************************)
EXTENDS RouteSearch, WellFoundedInduction, FiniteSetTheorems, TLAPS

----------------------------------------------------------------------------
(* Spans *)

Spans == {s \in (1..Depth) \X (1..Depth) : s[1] <= s[2]}

\* The span s is considered before the span u.
Earlier(s, u) == s[1] < u[1] \/ (s[1] = u[1] /\ s[2] < u[2])

\* The route S has tools in exactly the layers of the span s.
Fills(S, s) == {Layer[t] : t \in S} = s[1]..s[2]

\* A set of numbers has a least one.
LEMMA LeastNatural ==
  ASSUME NEW T \in SUBSET Nat, T # {}
  PROVE  \E x \in T : \A y \in T : x <= y
<1>1. PICK R : R = OpToRel(<, Nat)
  OBVIOUS
<1>2. PICK x \in T : \A y \in T : ~ (<<y, x>> \in R)
  BY <1>1, NatLessThanWellFounded, WFMin
<1>3. \A y \in T : y < x => <<y, x>> \in R
  BY <1>1 DEF OpToRel
<1>4. \A y \in T : ~(y < x) /\ x \in Nat /\ y \in Nat
  BY <1>2, <1>3
<1>. QED
  BY <1>4, SMT

\* A set of layers has a greatest one.
LEMMA GreatestLayer ==
  ASSUME NEW T \in SUBSET (1..Depth), T # {}
  PROVE  \E x \in T : \A y \in T : y <= x
<1>. DEFINE U == {Depth - y : y \in T}
<1>1. Depth \in Nat
  BY SearchAssumption
<1>2. U \in SUBSET Nat /\ U # {}
  <2>1. \A y \in T : Depth - y \in Nat
    BY <1>1
  <2>. QED
    BY <2>1
<1>3. PICK u \in U : \A v \in U : u <= v
  BY <1>2, LeastNatural
<1>4. PICK x \in T : u = Depth - x
  BY <1>3
<1>5. \A y \in T : Depth - x <= Depth - y
  BY <1>3, <1>4
<1>. QED
  BY <1>1, <1>5

\* Every route fills a span.
LEMMA RoutesFillSpans ==
  ASSUME problem \in Problems, NEW S, IsRoute(S)
  PROVE  \E s \in Spans : Fills(S, s)
<1>. DEFINE used == {Layer[t] : t \in S}
<1>1. /\ used \in SUBSET (1..Depth) /\ used # {} /\ Depth \in Nat
      /\ \A i, j \in used : \A k \in i..j : k \in used
  <2>1. S # {} /\ \A i, j \in used : \A k \in i..j : k \in used
    BY DEF IsRoute
  <2>2. problem.nodes \subseteq Tool
    BY SearchAssumption DEF Problem
  <2>3. \A t \in S : Layer[t] \in 1..Depth
    BY <2>2, SearchAssumption DEF IsRoute
  <2>. QED
    BY <2>1, <2>3, SearchAssumption
<1>2. PICK lo \in used : \A y \in used : lo <= y
  <2>1. used \in SUBSET Nat
    BY <1>1
  <2>. QED
    BY <2>1, <1>1, LeastNatural
<1>3. PICK hi \in used : \A y \in used : y <= hi
  BY <1>1, GreatestLayer
<1>. HIDE DEF used
<1>4. used = lo..hi
  <2>1. \A k \in used : k \in lo..hi
    BY <1>1, <1>2, <1>3
  <2>2. \A k \in lo..hi : k \in used
    BY <1>1
  <2>. QED
    BY <2>1, <2>2
<1>5. <<lo, hi>> \in Spans
  BY <1>1, <1>2, <1>3 DEF Spans
<1>. QED
  BY <1>4, <1>5 DEF Fills, used

\* The order in which spans are considered.
LEMMA SpanOrder ==
  ASSUME span \in Spans
  PROVE  /\ First \in Spans
         /\ \A s \in Spans : ~Earlier(s, First)
         /\ span # Last => /\ Following \in Spans
                           /\ \A s \in Spans : Earlier(s, Following) => Earlier(s, span) \/ s = span
         /\ span = Last => \A s \in Spans : Earlier(s, span) \/ s = span
<1>1. Depth \in Nat \ {0}
  BY SearchAssumption
<1>2. PICK lo \in 1..Depth, hi \in 1..Depth : span = <<lo, hi>> /\ lo <= hi
  BY DEF Spans
<1>3. \A s \in Spans : \E a, b \in 1..Depth : s = <<a, b>> /\ a <= b
  BY DEF Spans
<1>4. \A a, b \in 1..Depth : a <= b => <<a, b>> \in Spans
  BY DEF Spans
<1>5. First \in Spans /\ \A s \in Spans : ~Earlier(s, First)
  <2>1. First \in Spans
    BY <1>1, <1>4 DEF First
  <2>. SUFFICES ASSUME NEW a \in 1..Depth, NEW b \in 1..Depth, a <= b
                PROVE  ~Earlier(<<a, b>>, First)
    BY <1>3, <2>1
  <2>. QED
    BY <1>1 DEF First, Earlier
<1>6. ASSUME span # Last
      PROVE  /\ Following \in Spans
             /\ \A s \in Spans : Earlier(s, Following) => Earlier(s, span) \/ s = span
  <2>1. Following = IF hi < Depth THEN <<lo, hi + 1>> ELSE <<lo + 1, lo + 1>>
    BY <1>2 DEF Following
  <2>2. hi < Depth \/ lo < Depth
    BY <1>1, <1>2, <1>6 DEF Last
  <2>3. Following \in Spans
    BY <1>1, <1>2, <1>4, <2>1, <2>2
  <2>. SUFFICES ASSUME NEW a \in 1..Depth, NEW b \in 1..Depth, a <= b,
                       Earlier(<<a, b>>, Following)
                PROVE  Earlier(<<a, b>>, span) \/ <<a, b>> = span
    BY <1>3, <2>3
  <2>. QED
    BY <1>1, <1>2, <2>1, <2>2 DEF Earlier
<1>7. ASSUME span = Last
      PROVE  \A s \in Spans : Earlier(s, span) \/ s = span
  <2>. SUFFICES ASSUME NEW a \in 1..Depth, NEW b \in 1..Depth, a <= b
                PROVE  Earlier(<<a, b>>, span) \/ <<a, b>> = span
    BY <1>3
  <2>. QED
    BY <1>1, <1>7 DEF Earlier, Last
<1>. QED
  BY <1>5, <1>6, <1>7

----------------------------------------------------------------------------
(* Maximal chains *)

\* What has not been deleted is in the span and holds all routes that fill it.
ChainHoldsRoutes ==
  /\ surviving \subseteq InSpan(span)
  /\ \A S : IsRoute(S) /\ Fills(S, span) => S \subseteq surviving

\* A comparison of two layers deletes no tool of a route.
LEMMA PassKeepsRoutes ==
  ASSUME problem \in Problems, span \in Spans, ChainHoldsRoutes,
         NEW i \in span[1]..(span[2] - 1), NEW S, IsRoute(S), Fills(S, span)
  PROVE  S \subseteq Shrunk(i)
<1>1. /\ S \subseteq surviving
      /\ \A t \in S : Layer[t] \in 1..Depth
      /\ Depth \in Nat
  BY SearchAssumption DEF ChainHoldsRoutes, IsRoute, Problem
<1>2. i \in {Layer[t] : t \in S} /\ i + 1 \in {Layer[t] : t \in S} /\ i \in Nat
  <2>1. span[1] \in 1..Depth /\ span[2] \in 1..Depth
    BY DEF Spans
  <2>2. i \in span[1]..span[2] /\ i + 1 \in span[1]..span[2] /\ i \in Nat
    BY <2>1
  <2>. QED
    BY <2>2 DEF Fills
<1>3. Interconnected(At(S, i), At(S, i + 1))
  BY <1>2 DEF IsRoute
<1>4. \A t \in S : Layer[t] = i + 1 => t \in KeepRight(i)
  BY <1>1, <1>3 DEF Interconnected, At, KeepRight
<1>5. \A t \in S : Layer[t] = i => t \in KeepLeft(i)
  BY <1>1, <1>3, <1>4 DEF Interconnected, At, KeepLeft
<1>. QED
  BY <1>1, <1>4, <1>5 DEF Shrunk

\* A chain that no comparison shrinks, and that is not empty, is a route.
LEMMA StableChainIsRoute ==
  ASSUME problem \in Problems, span \in Spans, surviving \subseteq InSpan(span),
         Stable, surviving # {}
  PROVE  IsRoute(surviving) /\ Fills(surviving, span)
<1>. DEFINE used == {Layer[t] : t \in surviving}
<1>1. PICK lo \in 1..Depth, hi \in 1..Depth : span = <<lo, hi>> /\ lo <= hi
  BY DEF Spans
<1>2. /\ surviving \subseteq problem.nodes
      /\ used \subseteq lo..hi /\ used # {} /\ Depth \in Nat
  BY <1>1, SearchAssumption DEF InSpan
<1>3. \A i \in lo..(hi - 1) : Interconnected(At(surviving, i), At(surviving, i + 1))
  <2>. SUFFICES ASSUME NEW i \in lo..(hi - 1)
                PROVE  Interconnected(At(surviving, i), At(surviving, i + 1))
    OBVIOUS
  <2>1. Shrunk(i) = surviving
    BY <1>1 DEF Stable
  <2>2. i # i + 1
    BY <1>1
  <2>3. \A t \in surviving : Layer[t] = i + 1 => t \in KeepRight(i)
    BY <2>1, <2>2 DEF Shrunk, KeepLeft, At
  <2>4. \A t \in surviving : Layer[t] = i => t \in KeepLeft(i)
    BY <2>1, <2>2 DEF Shrunk, KeepRight, At
  <2>. QED
    BY <2>3, <2>4 DEF Interconnected, KeepRight, KeepLeft, At
<1>4. \A i \in lo..(hi - 1) : i \in used <=> i + 1 \in used
  BY <1>3 DEF Interconnected, At
<1>. HIDE DEF used
<1>5. PICK j \in used : TRUE
  BY <1>2
<1>6. \A k \in j..hi : k \in used
  <2>. DEFINE gaps == {k \in j..hi : k \notin used}
  <2>1. SUFFICES ASSUME gaps # {} PROVE FALSE
    OBVIOUS
  <2>2. gaps \in SUBSET Nat
    BY <1>1, <1>2, <1>5
  <2>3. PICK g \in gaps : \A y \in gaps : g <= y
    BY <2>1, <2>2, LeastNatural
  <2>4. g - 1 \in lo..(hi - 1) /\ g - 1 \in j..hi
    BY <1>1, <1>2, <1>5, <2>3
  <2>5. g - 1 \in used
    BY <1>1, <1>2, <1>5, <2>3, <2>4
  <2>. QED
    BY <1>1, <1>4, <2>3, <2>4, <2>5
<1>7. \A k \in lo..j : k \in used
  <2>. DEFINE gaps == {k \in lo..j : k \notin used}
  <2>1. SUFFICES ASSUME gaps # {} PROVE FALSE
    OBVIOUS
  <2>2. gaps \in SUBSET (1..Depth)
    BY <1>1, <1>2, <1>5
  <2>3. PICK g \in gaps : \A y \in gaps : y <= g
    BY <2>1, <2>2, GreatestLayer
  <2>4. g \in lo..(hi - 1) /\ g + 1 \in lo..j
    BY <1>1, <1>2, <1>5, <2>3
  <2>5. g + 1 \in used
    BY <1>1, <1>2, <1>5, <2>3, <2>4
  <2>. QED
    BY <1>4, <2>3, <2>4, <2>5
<1>8. used = lo..hi
  <2>1. \A k \in lo..hi : k \in lo..j \/ k \in j..hi
    BY <1>1, <1>2, <1>5
  <2>. QED
    BY <1>2, <1>6, <1>7, <2>1
<1>9. \A i, j2 \in used : j2 = i + 1 => i \in lo..(hi - 1)
  BY <1>1, <1>8
<1>10. IsRoute(surviving)
  <2>1. \A i, k \in used : k = i + 1 => Interconnected(At(surviving, i), At(surviving, k))
    BY <1>3, <1>9
  <2>2. \A i, k \in used : \A m \in i..k : m \in used
    BY <1>1, <1>8
  <2>. QED
    BY <1>2, <2>1, <2>2 DEF IsRoute, used
<1>. QED
  BY <1>1, <1>8, <1>10 DEF Fills, used

----------------------------------------------------------------------------
(* Anchors and branches *)

\* What _complete reaches are solutions.
LEMMA BranchesAreSolutions ==
  ASSUME problem \in Problems, span \in Spans, surviving \subseteq InSpan(span), NEW forced
  PROVE  Completions(forced) \subseteq {S \in Solutions : Fills(S, span)}
<1>. SUFFICES ASSUME NEW S \in Completions(forced)
              PROVE  S \in Solutions /\ Fills(S, span)
  OBVIOUS
<1>. DEFINE used == {Layer[t] : t \in S}
<1>1. PICK lo \in 1..Depth, hi \in 1..Depth : span = <<lo, hi>> /\ lo <= hi
  BY DEF Spans
<1>2. /\ S \subseteq problem.nodes
      /\ used \subseteq lo..hi /\ Depth \in Nat
      /\ problem.required \subseteq Covered(S)
  BY <1>1, SearchAssumption DEF InSpan, Completions
<1>3. \A i \in lo..hi : At(S, i) # {} /\ (i > lo => Interconnected(At(S, i - 1), At(S, i)))
  BY <1>1 DEF Completions, Passes
<1>4. used = lo..hi
  BY <1>2, <1>3 DEF At
<1>5. \A i, j \in used : j = i + 1 => Interconnected(At(S, i), At(S, j))
  <2>. SUFFICES ASSUME NEW i \in used, i + 1 \in used
                PROVE  Interconnected(At(S, i), At(S, i + 1))
    OBVIOUS
  <2>1. i + 1 \in lo..hi /\ i + 1 > lo /\ (i + 1) - 1 = i
    BY <1>1, <1>4
  <2>. QED
    BY <1>3, <2>1
<1>6. S # {} /\ \A i, j \in used : \A k \in i..j : k \in used
  <2>1. \A i, j \in lo..hi : \A k \in i..j : k \in lo..hi
    BY <1>1
  <2>2. lo \in used
    BY <1>1, <1>4
  <2>. QED
    BY <1>4, <2>1, <2>2
<1>7. IsRoute(S)
  BY <1>2, <1>5, <1>6 DEF IsRoute
<1>. QED
  BY <1>1, <1>2, <1>4, <1>7 DEF Solutions, Fills

\* No pruning gives up a branch that leads to a solution with the forced tools.
LEMMA SolutionsAreBranches ==
  ASSUME problem \in Problems, span \in Spans, ChainHoldsRoutes,
         NEW S \in Solutions, Fills(S, span), NEW forced, forced \subseteq S
  PROVE  S \in Completions(forced)
<1>. DEFINE used == {Layer[t] : t \in S}
<1>1. PICK lo \in 1..Depth, hi \in 1..Depth : span = <<lo, hi>> /\ lo <= hi
  BY DEF Spans
<1>2. /\ IsRoute(S) /\ S \subseteq surviving /\ Depth \in Nat
      /\ problem.required \subseteq Covered(S)
      /\ used = lo..hi
  BY <1>1, SearchAssumption DEF ChainHoldsRoutes, Solutions, Fills
<1>. SUFFICES ASSUME NEW i \in lo..hi
              PROVE  Passes(S, forced, i)
  BY <1>1, <1>2 DEF Completions
<1>3. At(S, i) # {} /\ At(forced, i) \subseteq At(S, i)
  BY <1>2 DEF At
<1>4. i > lo => Interconnected(At(S, i - 1), At(S, i))
  <2>1. i > lo => i \in lo..hi /\ i - 1 \in lo..hi /\ i = (i - 1) + 1
    BY <1>1
  <2>2. \A j, k \in lo..hi : k = j + 1 => Interconnected(At(S, j), At(S, k))
    BY <1>2 DEF IsRoute
  <2>. QED
    BY <2>1, <2>2
<1>5. problem.required \ Covered(UpTo(S, i)) \subseteq Covered(From(surviving, i + 1))
  <2>. SUFFICES ASSUME NEW c \in problem.required, c \notin Covered(UpTo(S, i))
                PROVE  c \in Covered(From(surviving, i + 1))
    OBVIOUS
  <2>1. PICK t \in S : c \in problem.capabilities[t]
    BY <1>2 DEF Covered
  <2>2. ~(Layer[t] <= i)
    BY <2>1 DEF Covered, UpTo
  <2>3. Layer[t] \in Nat /\ i \in Nat
    BY <1>1, <1>2
  <2>4. Layer[t] >= i + 1
    BY <2>2, <2>3
  <2>. QED
    BY <1>2, <2>1, <2>4 DEF Covered, From
<1>. QED
  BY <1>1, <1>3, <1>4, <1>5 DEF Passes, Interconnected

\* Every solution in the chain contains the tools of an assignment.
LEMMA SolutionsHoldAssignments ==
  ASSUME problem \in Problems, NEW S \in Solutions, S \subseteq surviving
  PROVE  \E a \in Assignments : Forced(a) \subseteq S
<1>. DEFINE a == [c \in problem.required |-> CHOOSE t \in S : c \in problem.capabilities[t]]
<1>1. \A c \in problem.required : a[c] \in S /\ c \in problem.capabilities[a[c]]
  BY DEF Solutions, Covered
<1>. HIDE DEF a
<1>2. a \in [problem.required -> surviving]
  BY <1>1 DEF a
<1>3. a \in Assignments
  BY <1>1, <1>2 DEF Assignments, Providers
<1>4. Forced(a) \subseteq S
  BY <1>1 DEF Forced
<1>. QED
  BY <1>3, <1>4

----------------------------------------------------------------------------
(* The inductive invariant *)

Searching == phase \in {"spans", "anchors", "branches"}

Represented(S) == \E r \in routes : r \subseteq S

Typed == TypeOK /\ span \in Spans

Kept == IsFiniteSet(routes) /\ KeepsSolutions

\* What is not yet touched in a phase.
Untouched ==
  /\ phase = "start" => span = First
  /\ phase \notin {"start", "done"} => Missing = {}
  /\ phase # "done" => status = "open"
  /\ phase \in {"start", "witness", "gaps"} => routes = {}
  /\ phase \notin {"gaps", "done"} => best = {}
  /\ phase # "branches" => branches = {}

\* Spans that were passed in vain have no solution; the witness is one.
WitnessTells ==
  /\ phase \in {"start", "witness"} =>
       \A S \in Solutions : \A s \in Spans : Fills(S, s) => ~Earlier(s, span)
  /\ phase = "gaps" => Solutions = {}
  /\ Searching => witness \in Solutions

\* As long as nothing was cut, the solutions of the spans passed are represented.
SpansAreDone ==
  (Searching /\ ~cut) =>
    \A S \in Solutions : \A s \in Spans :
      Fills(S, s) /\ Earlier(s, span) => Represented(S)

\* Within a span, an assignment is either to come or covered by an anchor, and
\* the solutions with the tools of an anchor are represented or to come.
AnchorsAreDone ==
  phase \in {"anchors", "branches"} =>
    /\ pending \subseteq Assignments
    /\ \A a \in Assignments : a \in pending \/ \E f \in yielded : f \subseteq Forced(a)
    /\ branches \subseteq Solutions
    /\ ~cut => \A f \in yielded : \A S \in Solutions :
                 Fills(S, span) /\ f \subseteq S => Represented(S) \/ S \in branches

\* best is what some route covers, and no route of a span passed covers more.
GapIsBest ==
  phase = "gaps" =>
    /\ best = {} \/ \E S : IsRoute(S) /\ best = Covered(S) \cap problem.required
    /\ \A S : \A s \in Spans : IsRoute(S) /\ Fills(S, s) /\ Earlier(s, span) =>
         Cardinality(Covered(S) \cap problem.required) <= Cardinality(best)

IInv ==
  /\ Typed /\ ChainHoldsRoutes /\ Kept /\ Untouched /\ WitnessTells
  /\ SpansAreDone /\ AnchorsAreDone /\ GapIsBest
  /\ NothingIsLost /\ VerdictIsExact

\* What is said of the problem alone stays as it is.
LEMMA SameProblem ==
  ASSUME problem' = problem
  PROVE  /\ Solutions' = Solutions
         /\ Missing' = Missing
         /\ \A S : IsRoute(S)' = IsRoute(S)
         /\ \A S : Covered(S)' = Covered(S)
<1>1. \A S : Covered(S)' = Covered(S)
  BY DEF Covered
<1>2. \A S : IsRoute(S)' = IsRoute(S)
  BY DEF IsRoute, Interconnected, Edge
<1>3. Missing' = Missing
  BY DEF Missing, Covered
<1>4. Solutions' = Solutions
  BY DEF Solutions, IsRoute, Interconnected, Edge, Covered
<1>. QED
  BY <1>1, <1>2, <1>3, <1>4

\* What the constants say of a problem.
LEMMA ProblemIsTyped ==
  ASSUME problem \in Problems
  PROVE  /\ problem.nodes \subseteq Tool
         /\ problem.required \subseteq Capability /\ problem.required # {}
         /\ IsFiniteSet(problem.required)
<1>1. problem \in Problem
  BY SearchAssumption
<1>2. problem.nodes \subseteq Tool
  BY <1>1 DEF Problem
<1>3. problem.required \in (SUBSET Capability) \ {{}}
  BY <1>1 DEF Problem
<1>. QED
  BY <1>2, <1>3, SearchAssumption

\* A span newly considered, with all its tools, holds its routes.
LEMMA ConsideredHoldsRoutes ==
  ASSUME problem \in Problems, problem' = problem, NEW s \in Spans, Consider(s)
  PROVE  span' \in Spans /\ ChainHoldsRoutes' /\ surviving' \in SUBSET Tool
<1>1. span' = s /\ surviving' = InSpan(s) /\ InSpan(s) \subseteq problem.nodes
  BY DEF Consider, InSpan
<1>2. \A S : IsRoute(S) /\ Fills(S, s) => S \subseteq InSpan(s)
  BY DEF IsRoute, Fills, InSpan
<1>3. surviving' \subseteq InSpan(span)'
  BY <1>1 DEF InSpan
<1>4. \A S : IsRoute(S)' /\ Fills(S, span') => S \subseteq surviving'
  BY <1>1, <1>2, SameProblem
<1>5. ChainHoldsRoutes'
  BY <1>3, <1>4 DEF ChainHoldsRoutes, Fills
<1>. QED
  BY <1>1, <1>5, ProblemIsTyped

\* A step that leaves the span and its chain alone keeps its routes in it.
LEMMA SpanStays ==
  ASSUME ChainHoldsRoutes, problem' = problem, span' = span, surviving' = surviving
  PROVE  ChainHoldsRoutes'
<1>1. InSpan(span)' = InSpan(span)
  BY DEF InSpan
<1>. QED
  BY <1>1, SameProblem DEF ChainHoldsRoutes, Fills

\* The invariant holds when analyze is called.
LEMMA InitIsGood == Init => IInv
<1>. SUFFICES ASSUME Init PROVE IInv
  OBVIOUS
<1>1. problem \in Problems /\ Depth \in Nat \ {0} /\ Limit \in Nat \ {0}
  BY SearchAssumption DEF Init
<1>2. span = <<1, 1>> /\ span \in Spans /\ span = First
  BY <1>1 DEF Init, First, Spans
<1>3. surviving = InSpan(span) /\ InSpan(span) \subseteq problem.nodes
  BY DEF Init, InSpan
<1>4. ChainHoldsRoutes
  <2>1. \A S : IsRoute(S) /\ Fills(S, span) => S \subseteq InSpan(span)
    BY DEF IsRoute, Fills, InSpan
  <2>. QED
    BY <1>3, <2>1 DEF ChainHoldsRoutes
<1>5. Typed
  BY <1>1, <1>2, <1>3, ProblemIsTyped DEF Typed, TypeOK, Tools, Init, Spans
<1>6. Kept
  BY <1>1, FS_EmptySet DEF Kept, KeepsSolutions, Init
<1>7. WitnessTells
  BY <1>2, SpanOrder DEF WitnessTells, Init, Searching
<1>. QED
  BY <1>2, <1>4, <1>5, <1>6, <1>7
  DEF IInv, Untouched, SpansAreDone, AnchorsAreDone, GapIsBest, NothingIsLost,
      VerdictIsExact, Init, Searching

----------------------------------------------------------------------------
(* The steps *)

\* The question for providers: without one there is no solution.
LEMMA StartIsGood == IInv /\ Start => IInv'
<1>. SUFFICES ASSUME IInv, Start PROVE IInv'
  OBVIOUS
<1>. USE DEF Start
<1>1. problem \in Problems /\ problem' = problem
  BY DEF IInv, Typed, TypeOK
<1>2. ChainHoldsRoutes' /\ Kept'
  BY <1>1, SameProblem, SpanStays DEF IInv, Kept, KeepsSolutions
<1>5. Typed'
  BY <1>1, SpanStays DEF IInv, Typed, TypeOK, Tools, Spans
<1>3. CASE Missing = {}
  BY <1>1, <1>2, <1>3, <1>5, SameProblem
  DEF IInv, Untouched, WitnessTells, SpansAreDone, AnchorsAreDone, GapIsBest,
      NothingIsLost, VerdictIsExact, Searching
<1>4. CASE Missing # {}
  <2>1. Solutions = {}
    BY <1>4 DEF Solutions, Missing, Covered
  <2>2. phase' = "done" /\ status' = "missing" /\ routes' = {} /\ best' = {}
    BY <1>4 DEF IInv, Untouched
  <2>. QED
    BY <1>1, <1>2, <1>5, <2>1, <2>2, SameProblem
    DEF IInv, Untouched, WitnessTells, SpansAreDone, AnchorsAreDone, GapIsBest,
        NothingIsLost, VerdictIsExact, Searching
<1>. QED
  BY <1>3, <1>4

\* A pass of _max_chain.
LEMMA DeletePassIsGood == IInv /\ DeletePass => IInv'
<1>. SUFFICES ASSUME IInv, DeletePass PROVE IInv'
  OBVIOUS
<1>1. problem \in Problems /\ problem' = problem /\ span' = span /\ span \in Spans
  BY DEF IInv, Typed, TypeOK, DeletePass
<1>2. PICK i \in span[1]..(span[2] - 1) : surviving' = Shrunk(i)
  BY DEF DeletePass
<1>3. Shrunk(i) \subseteq surviving
  BY DEF Shrunk, KeepLeft, KeepRight, At
<1>4. ChainHoldsRoutes'
  <2>1. InSpan(span)' = InSpan(span)
    BY <1>1 DEF InSpan
  <2>2. \A S : IsRoute(S) /\ Fills(S, span) => S \subseteq Shrunk(i)
    BY <1>1, PassKeepsRoutes DEF IInv
  <2>. QED
    BY <1>1, <1>2, <1>3, <2>1, <2>2, SameProblem DEF ChainHoldsRoutes, IInv, Fills
<1>5. Typed'
  <2>1. surviving' \in SUBSET Tool
    BY <1>2, <1>3 DEF IInv, Typed, TypeOK, Tools
  <2>. QED
    BY <1>1, <2>1 DEF IInv, Typed, TypeOK, Tools, Spans, DeletePass
<1>6. Kept'
  BY <1>1, SameProblem DEF IInv, Kept, KeepsSolutions, DeletePass
<1>. QED
  BY <1>1, <1>4, <1>5, <1>6, SameProblem
  DEF IInv, Untouched, WitnessTells, SpansAreDone, AnchorsAreDone, GapIsBest,
      NothingIsLost, VerdictIsExact, Searching, Represented, DeletePass

\* The end of a chain in _feasible_witness: it is a solution, or the span has none.
LEMMA FindWitnessIsGood == IInv /\ FindWitness => IInv'
<1>. SUFFICES ASSUME IInv, FindWitness PROVE IInv'
  OBVIOUS
<1>1. /\ problem \in Problems /\ problem' = problem /\ span \in Spans
      /\ phase = "witness" /\ Stable /\ surviving \subseteq InSpan(span) /\ Missing = {}
      /\ routes' = {} /\ routes = {} /\ best' = {} /\ best = {} /\ status' = "open" /\ cut' = cut
      /\ branches' = {}
  BY DEF IInv, Typed, TypeOK, FindWitness, ChainHoldsRoutes, Untouched
<1>2. Kept'
  BY <1>1, SearchAssumption, FS_EmptySet DEF Kept, KeepsSolutions
<1>3. CASE Feasible
  <2>1. /\ witness' = surviving /\ phase' = "spans" /\ Consider(First)
    BY <1>3 DEF FindWitness
  <2>2. surviving # {}
    BY <1>1, <1>3, ProblemIsTyped DEF Feasible, Covered
  <2>3. surviving \in Solutions
    BY <1>1, <1>3, <2>2, StableChainIsRoute DEF Solutions, Feasible, IsRoute
  <2>4. span' \in Spans /\ ChainHoldsRoutes' /\ surviving' \in SUBSET Tool /\ span' = First
    BY <1>1, <2>1, SpanOrder, ConsideredHoldsRoutes DEF Consider
  <2>5. Typed'
    BY <1>1, <2>1, <2>4 DEF IInv, Typed, TypeOK, Tools, FindWitness, Spans
  <2>6. \A s \in Spans : ~Earlier(s, span')
    BY <1>1, <2>4, SpanOrder
  <2>7. SpansAreDone'
    BY <2>6 DEF SpansAreDone, Earlier
  <2>8. WitnessTells' /\ Untouched'
    BY <1>1, <2>1, <2>3, SameProblem DEF WitnessTells, Untouched, Searching
  <2>. QED
    BY <1>1, <1>2, <2>1, <2>4, <2>5, <2>7, <2>8
    DEF IInv, AnchorsAreDone, GapIsBest, NothingIsLost, VerdictIsExact
<1>4. CASE ~Feasible
  <2>1. \A S \in Solutions : ~Fills(S, span)
    BY <1>1, <1>4 DEF IInv, ChainHoldsRoutes, Solutions, Feasible, Covered
  <2>2. witness' = witness
    BY <1>4 DEF FindWitness
  <2>3. CASE span = Last
    <3>1. phase' = "gaps" /\ Consider(First)
      BY <1>4, <2>3 DEF FindWitness
    <3>2. span' \in Spans /\ ChainHoldsRoutes' /\ surviving' \in SUBSET Tool /\ span' = First
      BY <1>1, <3>1, SpanOrder, ConsideredHoldsRoutes DEF Consider
    <3>3. Typed'
      BY <1>1, <2>2, <3>1, <3>2 DEF IInv, Typed, TypeOK, Tools, FindWitness, Spans
    <3>4. Solutions = {}
      <4>1. SUFFICES ASSUME NEW S \in Solutions PROVE FALSE
        OBVIOUS
      <4>2. PICK s \in Spans : Fills(S, s)
        BY <1>1, RoutesFillSpans DEF Solutions
      <4>3. Earlier(s, span) \/ s = span
        BY <1>1, <2>3, SpanOrder
      <4>. QED
        BY <1>1, <2>1, <4>2, <4>3 DEF IInv, WitnessTells
    <3>5. \A s \in Spans : ~Earlier(s, span')
      BY <1>1, <3>2, SpanOrder
    <3>6. GapIsBest'
      BY <1>1, <3>5 DEF GapIsBest, Earlier
    <3>7. WitnessTells' /\ Untouched'
      BY <1>1, <3>1, <3>4, SameProblem DEF WitnessTells, Untouched, Searching
    <3>. QED
      BY <1>1, <1>2, <3>1, <3>2, <3>3, <3>6, <3>7
      DEF IInv, SpansAreDone, AnchorsAreDone, NothingIsLost, VerdictIsExact, Searching
  <2>4. CASE span # Last
    <3>1. phase' = "witness" /\ Consider(Following)
      BY <1>4, <2>4 DEF FindWitness
    <3>2. span' \in Spans /\ ChainHoldsRoutes' /\ surviving' \in SUBSET Tool /\ span' = Following
      BY <1>1, <2>4, <3>1, SpanOrder, ConsideredHoldsRoutes DEF Consider
    <3>3. Typed'
      BY <1>1, <2>2, <3>1, <3>2 DEF IInv, Typed, TypeOK, Tools, FindWitness, Spans
    <3>4. \A S \in Solutions : \A s \in Spans : Fills(S, s) => ~Earlier(s, span')
      BY <1>1, <2>1, <2>4, <3>2, SpanOrder DEF IInv, WitnessTells
    <3>5. WitnessTells' /\ Untouched'
      BY <1>1, <3>1, <3>4, SameProblem DEF WitnessTells, Untouched, Searching, Fills, Earlier
    <3>. QED
      BY <1>1, <1>2, <3>1, <3>2, <3>3, <3>5
      DEF IInv, SpansAreDone, AnchorsAreDone, GapIsBest, NothingIsLost, VerdictIsExact, Searching
  <2>. QED
    BY <2>3, <2>4
<1>. QED
  BY <1>3, <1>4

\* At least one route is wanted.
LEMMA LimitIsPositive == Limit \in Nat /\ 0 < Limit /\ 1 <= Limit
  BY SearchAssumption

\* The end of the search, if everything is represented that had to be.
LEMMA ConcludeIsGood ==
  ASSUME IInv, Searching, Conclude, problem' = problem, span' = span,
         surviving' = surviving, witness' = witness, best' = best, cut' \in BOOLEAN,
         pending' \subseteq pending, yielded' = yielded, branches' = {},
         (~cut' /\ Cardinality(routes) < Limit) => \A S \in Solutions : Represented(S)
  PROVE  IInv'
<1>1. /\ problem \in Problems /\ span \in Spans /\ witness \in Solutions
      /\ Limit \in Nat \ {0} /\ IsFiniteSet(routes)
      /\ phase' = "done" /\ status' \in {"covered", "ambiguous", "low confidence"}
  BY SearchAssumption DEF IInv, Typed, TypeOK, WitnessTells, Kept, Conclude
<1>2. Kept' /\ routes' # {} /\ (routes = {} \/ routes' = routes)
  <2>1. CASE routes = {}
    <3>1. routes' = {witness}
      BY <2>1 DEF Conclude
    <3>2. IsFiniteSet(routes') /\ Cardinality(routes') <= Limit
      <4>1. IsFiniteSet({witness}) /\ Cardinality({witness}) = 1
        BY FS_Singleton
      <4>. QED
        BY <3>1, <4>1, LimitIsPositive
    <3>. QED
      BY <1>1, <2>1, <3>1, <3>2, SameProblem DEF Kept, KeepsSolutions
  <2>2. CASE routes # {}
    BY <2>2, SameProblem DEF IInv, Kept, KeepsSolutions, Conclude
  <2>. QED
    BY <2>1, <2>2
<1>3. Typed'
  <2>1. Solutions \subseteq SUBSET problem.nodes
    BY DEF Solutions
  <2>2. routes' \subseteq SUBSET Tool
    BY <1>1, <1>2, <2>1, ProblemIsTyped, SameProblem DEF Kept, KeepsSolutions
  <2>3. pending' \subseteq [problem'.required -> Tool] /\ best' \subseteq problem'.required
    BY DEF IInv, Typed, TypeOK
  <2>4. TypeOK
    BY DEF IInv, Typed
  <2>5. /\ problem' \in Problems /\ span' \in Spans
        /\ surviving' \in SUBSET Tool /\ witness' \in SUBSET Tool
        /\ yielded' \subseteq SUBSET Tool /\ branches' \subseteq SUBSET Tool
    BY <1>1, <2>4 DEF TypeOK, Tools
  <2>. QED
    BY <1>1, <2>2, <2>3, <2>5 DEF Typed, TypeOK, Tools, Spans
<1>4. NothingIsLost'
  <2>1. routes = {} => Cardinality(routes) < Limit
    BY FS_EmptySet, LimitIsPositive
  <2>2. SUFFICES ASSUME ~cut', Cardinality(routes') < Limit, NEW S \in Solutions
                 PROVE  \E r \in routes' : r \subseteq S
    BY <1>1, SameProblem DEF NothingIsLost
  <2>3. Cardinality(routes) < Limit
    BY <1>2, <2>1, <2>2
  <2>. QED
    BY <1>2, <2>2, <2>3 DEF Represented
<1>5. VerdictIsExact'
  <2>1. Solutions' # {} /\ routes' # {}
    BY <1>1, <1>2, SameProblem
  <2>2. status' \notin {"disconnected", "missing"}
    BY <1>1
  <2>. QED
    BY <2>1, <2>2 DEF VerdictIsExact
<1>6. ChainHoldsRoutes'
  BY SpanStays DEF IInv
<1>. QED
  BY <1>1, <1>2, <1>3, <1>4, <1>5, <1>6
  DEF IInv, Untouched, WitnessTells, SpansAreDone, AnchorsAreDone, GapIsBest, Searching

\* The step to the next span, if the present one is done.
LEMMA LeaveSpanIsGood ==
  ASSUME IInv, Searching, LeaveSpan, UNCHANGED <<problem, witness, pending, yielded, branches,
                                                best, cut>>, branches = {},
         ~cut => \A S \in Solutions : Fills(S, span) => Represented(S)
  PROVE  IInv'
<1>1. problem \in Problems /\ span \in Spans /\ problem' = problem
  BY DEF IInv, Typed, TypeOK
<1>2. CASE span = Last
  <2>1. ~cut => \A S \in Solutions : Represented(S)
    <3>1. SUFFICES ASSUME ~cut, NEW S \in Solutions PROVE Represented(S)
      OBVIOUS
    <3>2. PICK s \in Spans : Fills(S, s)
      BY <1>1, RoutesFillSpans DEF Solutions
    <3>3. Earlier(s, span) \/ s = span
      BY <1>1, <1>2, SpanOrder
    <3>. QED
      BY <3>1, <3>2, <3>3 DEF IInv, SpansAreDone
  <2>2. Conclude /\ span' = span /\ surviving' = surviving /\ cut' \in BOOLEAN
    BY <1>2 DEF LeaveSpan, IInv, Typed, TypeOK
  <2>. QED
    BY <2>1, <2>2, ConcludeIsGood
<1>3. CASE span # Last
  <2>1. phase' = "spans" /\ Consider(Following) /\ routes' = routes /\ status' = status
    BY <1>3 DEF LeaveSpan
  <2>2. span' \in Spans /\ ChainHoldsRoutes' /\ surviving' \in SUBSET Tool /\ span' = Following
    BY <1>1, <1>3, <2>1, SpanOrder, ConsideredHoldsRoutes DEF Consider
  <2>3. Typed'
    BY <1>1, <2>1, <2>2 DEF IInv, Typed, TypeOK, Tools, Spans
  <2>4. ~cut => \A S \in Solutions : \A s \in Spans :
                  Fills(S, s) /\ Earlier(s, span') => Represented(S)
    BY <1>1, <1>3, <2>2, SpanOrder DEF IInv, SpansAreDone
  <2>5. SpansAreDone'
    BY <1>1, <2>1, <2>4, SameProblem DEF SpansAreDone, Represented, Fills, Earlier
  <2>6. WitnessTells' /\ Untouched' /\ Kept'
    BY <1>1, <2>1, SameProblem DEF IInv, WitnessTells, Untouched, Kept, KeepsSolutions, Searching
  <2>. QED
    BY <2>1, <2>2, <2>3, <2>5, <2>6
    DEF IInv, AnchorsAreDone, GapIsBest, NothingIsLost, VerdictIsExact
<1>. QED
  BY <1>2, <1>3

\* Assignments and anchors are made of tools.
LEMMA AssignmentsAreTyped ==
  ASSUME TypeOK
  PROVE  /\ Assignments \subseteq [problem.required -> Tool]
         /\ \A a \in Assignments : Forced(a) \in SUBSET Tool
<1>1. surviving \subseteq Tool
  BY DEF TypeOK, Tools
<1>2. \A a \in Assignments : a \in [problem.required -> surviving]
  BY DEF Assignments
<1>. QED
  BY <1>1, <1>2 DEF Forced

\* The opening of a span, or its rejection, which loses nothing.
LEMMA OpenSpanIsGood == IInv /\ OpenSpan => IInv'
<1>. SUFFICES ASSUME IInv, OpenSpan PROVE IInv'
  OBVIOUS
<1>. DEFINE open == Feasible /\ \A i \in span[1]..span[2] : At(surviving, i) # {}
<1>1. /\ problem \in Problems /\ problem' = problem /\ phase = "spans" /\ span \in Spans
      /\ witness' = witness /\ branches' = branches /\ best' = best /\ cut' = cut
  BY DEF OpenSpan, IInv, Typed, TypeOK
<1>2. CASE open
  <2>1. /\ pending' = Assignments /\ yielded' = {} /\ phase' = "anchors"
        /\ span' = span /\ surviving' = surviving /\ routes' = routes /\ status' = status
    BY <1>2 DEF OpenSpan
  <2>. HIDE DEF open
  <2>2. Assignments' = Assignments
    BY <1>1, <2>1 DEF Assignments, Providers
  <2>3. Typed'
    BY <1>1, <2>1, AssignmentsAreTyped DEF IInv, Typed, TypeOK, Tools, Spans
  <2>4. branches = {}
    BY <1>1 DEF IInv, Untouched
  <2>5. AnchorsAreDone'
    BY <1>1, <2>1, <2>2, <2>4 DEF AnchorsAreDone
  <2>6. SpansAreDone' /\ WitnessTells' /\ Untouched' /\ Kept' /\ ChainHoldsRoutes'
    BY <1>1, <2>1, SameProblem, SpanStays
    DEF IInv, SpansAreDone, WitnessTells, Untouched, Kept, KeepsSolutions, Searching,
        Represented
  <2>. QED
    BY <2>1, <2>3, <2>5, <2>6 DEF IInv, GapIsBest, NothingIsLost, VerdictIsExact
<1>3. CASE ~open
  <2>1. LeaveSpan /\ pending' = pending /\ yielded' = yielded
    BY <1>3 DEF OpenSpan
  <2>2. ASSUME NEW S \in Solutions, Fills(S, span) PROVE FALSE
    <3>1. S \subseteq surviving /\ problem.required \subseteq Covered(S)
      BY <2>2 DEF IInv, ChainHoldsRoutes, Solutions
    <3>2. Feasible
      BY <3>1 DEF Feasible, Covered
    <3>3. \A i \in span[1]..span[2] : At(surviving, i) # {}
      BY <2>2, <3>1 DEF Fills, At
    <3>. QED
      BY <1>3, <3>2, <3>3
  <2>. QED
    BY <1>1, <2>1, <2>2, LeaveSpanIsGood DEF Searching, IInv, Untouched
<1>. QED
  BY <1>2, <1>3

\* An anchor explored or skipped: its solutions are to come or covered already.
LEMMA NextAnchorIsGood == IInv /\ NextAnchor => IInv'
<1>. SUFFICES ASSUME IInv, NextAnchor PROVE IInv'
  OBVIOUS
<1>1. /\ problem \in Problems /\ problem' = problem /\ phase = "anchors" /\ span \in Spans
      /\ span' = span /\ surviving' = surviving /\ witness' = witness /\ routes' = routes
      /\ best' = best /\ status' = status /\ cut' = cut /\ TypeOK /\ branches = {}
  BY DEF NextAnchor, IInv, Typed, TypeOK, Untouched
<1>2. /\ pending \subseteq Assignments
      /\ \A a \in Assignments : a \in pending \/ \E f \in yielded : f \subseteq Forced(a)
      /\ ~cut => \A f \in yielded : \A S \in Solutions :
                   Fills(S, span) /\ f \subseteq S => Represented(S)
  BY <1>1 DEF IInv, AnchorsAreDone
<1>3. PICK a \in pending :
        /\ pending' = pending \ {a}
        /\ IF Subsumed(Forced(a))
           THEN UNCHANGED <<phase, yielded, branches>>
           ELSE /\ phase' = "branches"
                /\ yielded' = yielded \cup {Forced(a)}
                /\ branches' = Completions(Forced(a))
  BY DEF NextAnchor
<1>4. /\ Assignments' = Assignments
      /\ \A b \in Assignments : Forced(b)' = Forced(b)
  BY <1>1 DEF Assignments, Providers, Forced, StillForced, TriedBefore, Usefulness
<1>5. /\ SpansAreDone' /\ Kept' /\ ChainHoldsRoutes' /\ WitnessTells'
      /\ phase' \in {"anchors", "branches"}
  <2>1. phase' \in {"anchors", "branches"}
    BY <1>1, <1>3
  <2>. QED
    BY <1>1, <2>1, SameProblem, SpanStays
    DEF IInv, SpansAreDone, WitnessTells, Kept, KeepsSolutions, Searching, Represented
<1>6. \E f \in yielded' : f \subseteq Forced(a)
  BY <1>3 DEF Subsumed
<1>7. yielded \subseteq yielded'
  BY <1>3
<1>8. \A b \in Assignments : b \in pending' \/ \E f \in yielded' : f \subseteq Forced(b)
  BY <1>2, <1>3, <1>6, <1>7
<1>9. CASE Subsumed(Forced(a))
  <2>1. phase' = phase /\ yielded' = yielded /\ branches' = branches
    BY <1>3, <1>9
  <2>2. AnchorsAreDone'
    BY <1>1, <1>2, <1>3, <1>4, <1>8, <2>1, SameProblem DEF AnchorsAreDone, Represented, Fills
  <2>3. Typed' /\ Untouched'
    BY <1>1, <1>3, <2>1, SameProblem DEF IInv, Typed, TypeOK, Tools, Spans, Untouched
  <2>. QED
    BY <1>1, <1>5, <2>1, <2>2, <2>3 DEF IInv, GapIsBest, NothingIsLost, VerdictIsExact
<1>10. CASE ~Subsumed(Forced(a))
  <2>1. /\ phase' = "branches" /\ yielded' = yielded \cup {Forced(a)}
        /\ branches' = Completions(Forced(a))
    BY <1>3, <1>10
  <2>2. branches' \subseteq {S \in Solutions : Fills(S, span)}
    BY <1>1, <2>1, BranchesAreSolutions DEF IInv, ChainHoldsRoutes
  <2>3. \A S \in Solutions : Fills(S, span) /\ Forced(a) \subseteq S => S \in branches'
    BY <1>1, <2>1, SolutionsAreBranches DEF IInv
  <2>4. ~cut => \A f \in yielded' : \A S \in Solutions :
                  Fills(S, span) /\ f \subseteq S => Represented(S) \/ S \in branches'
    BY <1>2, <2>1, <2>3
  <2>5. AnchorsAreDone'
    <3>1. pending' \subseteq Assignments
      BY <1>2, <1>3
    <3>. QED
      BY <1>1, <1>4, <1>8, <2>2, <2>4, <3>1, SameProblem DEF AnchorsAreDone, Represented, Fills
  <2>6. Typed' /\ Untouched'
    <3>1. branches' \subseteq SUBSET Tool
      BY <1>1, <2>1 DEF Completions, TypeOK, Tools
    <3>2. yielded' \subseteq SUBSET Tool
      <4>1. a \in Assignments /\ yielded \subseteq SUBSET Tool
        BY <1>1, <1>2, <1>3 DEF TypeOK, Tools
      <4>2. Forced(a) \in SUBSET Tool
        BY <1>1, <4>1, AssignmentsAreTyped
      <4>. QED
        BY <2>1, <4>1, <4>2
    <3>. QED
      BY <1>1, <1>3, <2>1, <3>1, <3>2, SameProblem
      DEF IInv, Typed, TypeOK, Tools, Spans, Untouched
  <2>. QED
    BY <1>1, <1>5, <2>1, <2>5, <2>6 DEF IInv, GapIsBest, NothingIsLost, VerdictIsExact
<1>. QED
  BY <1>9, <1>10

\* A route put among the kept ones: they stay incomparable, what was represented
\* still is, and so is the new route.
LEMMA InsertRepresents ==
  ASSUME IsFiniteSet(routes), routes \subseteq Solutions, NEW b \in Solutions,
         \A r, s \in routes : r \subseteq s => r = s,
         Cardinality(routes) < Limit
  PROVE  LET new == ParetoInsert(routes, b)
         IN  /\ IsFiniteSet(new) /\ Cardinality(new) <= Limit
             /\ new \subseteq Solutions
             /\ \A r, s \in new : r \subseteq s => r = s
             /\ \A S : Represented(S) => \E r \in new : r \subseteq S
             /\ \E r \in new : r \subseteq b
<1>. DEFINE new == ParetoInsert(routes, b)
<1>1. CASE \E old \in routes : old \subseteq b /\ old # b
  <2>1. new = routes
    BY <1>1 DEF ParetoInsert
  <2>2. Cardinality(routes) <= Limit
    BY FS_CardinalityType, LimitIsPositive
  <2>. QED
    BY <1>1, <2>1, <2>2 DEF Represented
<1>2. CASE ~\E old \in routes : old \subseteq b /\ old # b
  <2>1. new = {old \in routes : ~(b \subseteq old /\ b # old)} \cup {b}
    BY <1>2 DEF ParetoInsert
  <2>2. new \subseteq routes \cup {b}
    BY <2>1
  <2>3. IsFiniteSet(routes \cup {b}) /\ Cardinality(routes \cup {b}) <= Limit
    <3>1. /\ IsFiniteSet(routes \cup {b})
          /\ Cardinality(routes \cup {b}) = IF b \in routes THEN Cardinality(routes)
                                             ELSE Cardinality(routes) + 1
      BY FS_AddElement
    <3>2. Cardinality(routes) \in Nat
      BY FS_CardinalityType
    <3>. QED
      BY <3>1, <3>2, LimitIsPositive
  <2>. HIDE DEF new
  <2>4. IsFiniteSet(new) /\ Cardinality(new) <= Cardinality(routes \cup {b})
    BY <2>2, <2>3, FS_Subset
  <2>5. Cardinality(new) <= Limit
    BY <2>3, <2>4, FS_CardinalityType, LimitIsPositive
  <2>6. \A r, s \in new : r \subseteq s => r = s
    BY <1>2, <2>1
  <2>7. \A S : Represented(S) => \E r \in new : r \subseteq S
    <3>1. SUFFICES ASSUME NEW S, NEW r \in routes, r \subseteq S
                   PROVE  \E x \in new : x \subseteq S
      BY DEF Represented
    <3>2. CASE b \subseteq r /\ b # r
      BY <2>1, <3>1, <3>2
    <3>3. CASE ~(b \subseteq r /\ b # r)
      BY <2>1, <3>1, <3>3
    <3>. QED
      BY <3>2, <3>3
  <2>. QED
    BY <2>1, <2>2, <2>4, <2>5, <2>6, <2>7 DEF new
<1>. QED
  BY <1>1, <1>2

\* The end of a branch, whichever it is.
LEMMA EndBranchIsGood == IInv /\ EndBranch => IInv'
<1>. SUFFICES ASSUME IInv, EndBranch PROVE IInv'
  OBVIOUS
<1>1. /\ problem \in Problems /\ problem' = problem /\ phase = "branches" /\ phase' = phase
      /\ span' = span /\ surviving' = surviving /\ witness' = witness
      /\ pending' = pending /\ yielded' = yielded
      /\ best' = best /\ status' = status /\ cut' = cut /\ TypeOK
      /\ branches \subseteq Solutions /\ Cardinality(routes) < Limit
  BY DEF EndBranch, IInv, Typed, TypeOK, AnchorsAreDone
<1>2. PICK b \in branches : branches' = branches \ {b} /\ routes' = ParetoInsert(routes, b)
  BY DEF EndBranch
<1>3. /\ IsFiniteSet(routes') /\ Cardinality(routes') <= Limit
      /\ routes' \subseteq Solutions
      /\ \A r, s \in routes' : r \subseteq s => r = s
      /\ \A S : Represented(S) => Represented(S)'
      /\ Represented(b)'
  <2>1. /\ IsFiniteSet(routes) /\ routes \subseteq Solutions
        /\ \A r, s \in routes : r \subseteq s => r = s
    BY DEF IInv, Kept, KeepsSolutions
  <2>. QED
    BY <1>1, <1>2, <2>1, InsertRepresents DEF Represented
<1>4. Kept'
  BY <1>1, <1>3, SameProblem DEF Kept, KeepsSolutions
<1>5. Typed'
  <2>1. Solutions \subseteq SUBSET problem.nodes
    BY DEF Solutions
  <2>2. routes' \subseteq SUBSET Tool
    BY <1>1, <1>3, <2>1, ProblemIsTyped
  <2>. QED
    BY <1>1, <1>2, <2>2 DEF IInv, Typed, TypeOK, Tools, Spans
<1>6. SpansAreDone' /\ WitnessTells' /\ Untouched' /\ ChainHoldsRoutes'
  BY <1>1, <1>3, SameProblem, SpanStays
  DEF IInv, SpansAreDone, WitnessTells, Untouched, Searching
<1>7. AnchorsAreDone'
  <2>1. /\ Assignments' = Assignments
        /\ \A a \in Assignments : Forced(a)' = Forced(a)
    BY <1>1 DEF Assignments, Providers, Forced, StillForced, TriedBefore, Usefulness
  <2>2. branches' \subseteq Solutions
    BY <1>1, <1>2
  <2>3. ~cut => \A f \in yielded : \A S \in Solutions :
                  Fills(S, span) /\ f \subseteq S => Represented(S)' \/ S \in branches'
    BY <1>1, <1>2, <1>3 DEF IInv, AnchorsAreDone
  <2>. QED
    BY <1>1, <2>1, <2>2, <2>3, SameProblem DEF IInv, AnchorsAreDone, Fills
<1>. QED
  BY <1>1, <1>4, <1>5, <1>6, <1>7 DEF IInv, GapIsBest, NothingIsLost, VerdictIsExact

\* The end of an anchor, which cuts what branches it leaves.
LEMMA LeaveAnchorIsGood == IInv /\ LeaveAnchor => IInv'
<1>. SUFFICES ASSUME IInv, LeaveAnchor PROVE IInv'
  OBVIOUS
<1>1. /\ problem \in Problems /\ problem' = problem /\ phase = "branches" /\ phase' = "anchors"
      /\ span' = span /\ surviving' = surviving /\ witness' = witness
      /\ pending' = pending /\ yielded' = yielded /\ branches' = {} /\ routes' = routes
      /\ best' = best /\ status' = status /\ cut' = (cut \/ branches # {}) /\ TypeOK
  BY DEF LeaveAnchor, IInv, Typed, TypeOK
<1>2. ~cut' => ~cut /\ branches = {}
  BY <1>1
<1>3. AnchorsAreDone'
  <2>1. /\ Assignments' = Assignments
        /\ \A a \in Assignments : Forced(a)' = Forced(a)
    BY <1>1 DEF Assignments, Providers, Forced, StillForced, TriedBefore, Usefulness
  <2>2. ~cut' => \A f \in yielded : \A S \in Solutions :
                  Fills(S, span) /\ f \subseteq S => Represented(S)
    BY <1>1, <1>2 DEF IInv, AnchorsAreDone
  <2>. QED
    BY <1>1, <2>1, <2>2, SameProblem DEF IInv, AnchorsAreDone, Fills, Represented
<1>4. SpansAreDone' /\ WitnessTells' /\ Untouched' /\ Kept' /\ ChainHoldsRoutes'
  BY <1>1, <1>2, SameProblem, SpanStays
  DEF IInv, SpansAreDone, WitnessTells, Untouched, Kept, KeepsSolutions, Searching, Represented
<1>5. Typed'
  BY <1>1 DEF IInv, Typed, TypeOK, Tools, Spans
<1>. QED
  BY <1>1, <1>3, <1>4, <1>5 DEF IInv, GapIsBest, NothingIsLost, VerdictIsExact

\* The end of a span: all its solutions are represented.
LEMMA CloseSpanIsGood == IInv /\ CloseSpan => IInv'
<1>. SUFFICES ASSUME IInv, CloseSpan PROVE IInv'
  OBVIOUS
<1>1. /\ problem \in Problems /\ phase = "anchors" /\ pending = {} /\ branches = {} /\ LeaveSpan
      /\ UNCHANGED <<problem, witness, pending, yielded, branches, best, cut>>
  BY DEF CloseSpan, IInv, Typed, TypeOK, Untouched
<1>2. ASSUME ~cut, NEW S \in Solutions, Fills(S, span) PROVE Represented(S)
  <2>1. S \subseteq surviving
    BY <1>2 DEF IInv, ChainHoldsRoutes, Solutions
  <2>2. PICK a \in Assignments : Forced(a) \subseteq S
    BY <1>1, <2>1, SolutionsHoldAssignments
  <2>3. PICK f \in yielded : f \subseteq Forced(a)
    BY <1>1, <2>2 DEF IInv, AnchorsAreDone
  <2>. QED
    BY <1>1, <1>2, <2>2, <2>3 DEF IInv, AnchorsAreDone
<1>. QED
  BY <1>1, <1>2, LeaveSpanIsGood DEF Searching

\* The end of the search before its time.
LEMMA StopEarlyIsGood == IInv /\ StopEarly => IInv'
<1>. SUFFICES ASSUME IInv, StopEarly PROVE IInv'
  OBVIOUS
<1>1. /\ Searching /\ Conclude /\ pending' = {} /\ branches' = {}
      /\ cut' = (cut \/ Cardinality(routes) < Limit) /\ cut \in BOOLEAN
      /\ UNCHANGED <<problem, span, surviving, witness, yielded, best>>
  BY DEF StopEarly, Searching, IInv, Typed, TypeOK
<1>2. cut' \in BOOLEAN /\ ~(~cut' /\ Cardinality(routes) < Limit)
  BY <1>1
<1>. QED
  BY <1>1, <1>2, ConcludeIsGood

\* What the tools cover of the required capabilities.
Reached(tools) == Covered(tools) \cap problem.required

\* What is reached of the required capabilities is finite.
LEMMA ReachedIsFinite ==
  ASSUME problem \in Problems, NEW S
  PROVE  IsFiniteSet(Reached(S)) /\ Cardinality(Reached(S)) \in Nat
<1>1. IsFiniteSet(problem.required) /\ Reached(S) \subseteq problem.required
  BY ProblemIsTyped DEF Reached
<1>. QED
  BY <1>1, FS_Subset, FS_CardinalityType

\* More tools reach no less.
LEMMA ReachedGrows ==
  ASSUME problem \in Problems, NEW S, NEW T, S \subseteq T
  PROVE  Cardinality(Reached(S)) <= Cardinality(Reached(T))
<1>1. Reached(S) \subseteq Reached(T)
  BY DEF Reached, Covered
<1>. QED
  BY <1>1, ReachedIsFinite, FS_Subset

\* A tool by itself is a route.
LEMMA OneToolIsRoute ==
  ASSUME problem \in Problems, NEW t \in problem.nodes
  PROVE  IsRoute({t})
<1>1. Layer[t] \in Nat
  <2>1. t \in Tool
    BY ProblemIsTyped
  <2>2. Layer \in [Tool -> 1..Depth]
    BY SearchAssumption
  <2>. QED
    BY <2>1, <2>2
<1>2. {Layer[u] : u \in {t}} = {Layer[t]}
  OBVIOUS
<1>. QED
  BY <1>1, <1>2 DEF IsRoute

\* A span weighed by covered_capabilities: its chain is a route and reaches most.
LEMMA WeighSpanIsGood == IInv /\ WeighSpan => IInv'
<1>. SUFFICES ASSUME IInv, WeighSpan PROVE IInv'
  OBVIOUS
<1>. DEFINE here == Reached(surviving)
<1>1. /\ problem \in Problems /\ problem' = problem /\ phase = "gaps" /\ Stable
      /\ span \in Spans /\ surviving \subseteq InSpan(span) /\ routes = {} /\ Missing = {}
      /\ witness' = witness /\ pending' = pending /\ yielded' = yielded
      /\ branches' = branches /\ branches = {} /\ routes' = routes /\ cut' = cut
      /\ Solutions = {} /\ TypeOK /\ status = "open"
  BY DEF WeighSpan, IInv, Typed, TypeOK, ChainHoldsRoutes, Untouched, WitnessTells
<1>2. best' = IF Better(here, best) THEN here ELSE best
  BY DEF WeighSpan, Reached
<1>3. /\ best \subseteq problem.required /\ IsFiniteSet(best) /\ Cardinality(best) \in Nat
      /\ here \subseteq problem.required /\ Cardinality(here) \in Nat
  <2>1. best \subseteq problem.required
    BY <1>1 DEF TypeOK
  <2>2. IsFiniteSet(best) /\ Cardinality(best) \in Nat
    BY <1>1, <2>1, ProblemIsTyped, FS_Subset, FS_CardinalityType
  <2>. QED
    BY <1>1, <2>1, <2>2, ReachedIsFinite DEF Reached
<1>4. /\ best' \subseteq problem.required /\ Cardinality(best') \in Nat
      /\ Cardinality(best) <= Cardinality(best')
      /\ Cardinality(here) <= Cardinality(best')
  <2>. HIDE DEF here
  <2>. QED
    BY <1>2, <1>3 DEF Better
<1>5. best' = {} \/ \E S : IsRoute(S) /\ best' = Reached(S)
  <2>1. CASE Better(here, best) /\ surviving = {}
    BY <1>2, <2>1 DEF Reached, Covered
  <2>2. CASE Better(here, best) /\ surviving # {}
    BY <1>1, <1>2, <2>2, StableChainIsRoute
  <2>3. CASE ~Better(here, best)
    BY <1>1, <1>2, <2>3 DEF IInv, GapIsBest, Reached
  <2>. QED
    BY <2>1, <2>2, <2>3
<1>6. ASSUME NEW S, NEW s \in Spans, IsRoute(S), Fills(S, s), Earlier(s, span) \/ s = span
      PROVE  Cardinality(Reached(S)) <= Cardinality(best')
  <2>1. Cardinality(Reached(S)) \in Nat
    BY <1>1, ReachedIsFinite
  <2>2. CASE Earlier(s, span)
    <3>1. Cardinality(Reached(S)) <= Cardinality(best)
      BY <1>1, <1>6, <2>2 DEF IInv, GapIsBest, Reached
    <3>. QED
      BY <1>3, <1>4, <2>1, <3>1
  <2>3. CASE s = span
    <3>1. S \subseteq surviving
      BY <1>6, <2>3 DEF IInv, ChainHoldsRoutes
    <3>2. Cardinality(Reached(S)) <= Cardinality(here)
      BY <1>1, <3>1, ReachedGrows
    <3>. QED
      BY <1>3, <1>4, <2>1, <3>2
  <2>. QED
    BY <1>6, <2>2, <2>3
<1>. HIDE DEF here
<1>7. Kept'
  BY <1>1, SameProblem DEF IInv, Kept, KeepsSolutions
<1>8. Reached(surviving)' = Covered(surviving)' \cap problem.required
  BY <1>1 DEF Reached
<1>9. CASE span # Last
  <2>1. phase' = phase /\ status' = status /\ Consider(Following)
    BY <1>9 DEF WeighSpan
  <2>2. span' \in Spans /\ ChainHoldsRoutes' /\ surviving' \in SUBSET Tool /\ span' = Following
    BY <1>1, <1>9, <2>1, SpanOrder, ConsideredHoldsRoutes DEF Consider
  <2>3. Typed'
    BY <1>1, <1>4, <2>1, <2>2 DEF Typed, TypeOK, Tools, Spans
  <2>4. \A S : \A s \in Spans : IsRoute(S) /\ Fills(S, s) /\ Earlier(s, span') =>
           Cardinality(Reached(S)) <= Cardinality(best')
    BY <1>1, <1>6, <1>9, <2>2, SpanOrder
  <2>5. GapIsBest'
    <3>1. \A S : Covered(S)' \cap problem.required' = Reached(S)
      BY <1>1, SameProblem DEF Reached
    <3>2. \A S, s : Fills(S, s)' = Fills(S, s) /\ \A u : Earlier(s, u)' = Earlier(s, u)
      BY DEF Fills, Earlier
    <3>. QED
      BY <1>1, <1>5, <2>4, <3>1, <3>2, SameProblem DEF GapIsBest, Reached, Earlier, Fills
  <2>6. WitnessTells' /\ Untouched'
    BY <1>1, <2>1, SameProblem DEF WitnessTells, Untouched, Searching
  <2>. QED
    BY <1>1, <1>7, <2>1, <2>2, <2>3, <2>5, <2>6
    DEF IInv, SpansAreDone, AnchorsAreDone, NothingIsLost, VerdictIsExact, Searching
<1>10. CASE span = Last
  <2>1. phase' = "done" /\ status' = "disconnected" /\ span' = span /\ surviving' = surviving
    BY <1>10 DEF WeighSpan
  <2>2. Typed' /\ ChainHoldsRoutes'
    BY <1>1, <1>4, <2>1, SpanStays DEF IInv, Typed, TypeOK, Tools, Spans
  <2>3. ASSUME NEW S, IsRoute(S) PROVE Cardinality(Reached(S)) <= Cardinality(best')
    <3>1. PICK s \in Spans : Fills(S, s)
      BY <1>1, <2>3, RoutesFillSpans
    <3>2. Earlier(s, span) \/ s = span
      BY <1>1, <1>10, SpanOrder
    <3>. QED
      BY <1>6, <2>3, <3>1, <3>2
  <2>4. best' # {}
    <3>1. PICK c \in problem.required : TRUE
      BY <1>1, ProblemIsTyped
    <3>2. PICK t \in problem.nodes : c \in problem.capabilities[t]
      BY <1>1 DEF Missing, Covered
    <3>3. c \in Reached({t})
      BY <3>2 DEF Reached, Covered
    <3>4. Cardinality(Reached({t})) # 0 /\ Cardinality(Reached({t})) \in Nat
      BY <1>1, <3>3, ReachedIsFinite, FS_EmptySet
    <3>5. Cardinality(Reached({t})) <= Cardinality(best')
      BY <1>1, <2>3, OneToolIsRoute
    <3>6. Cardinality(best') # 0
      BY <1>4, <3>4, <3>5
    <3>. QED
      BY <3>6, FS_EmptySet
  <2>5. PICK S : IsRoute(S) /\ best' = Reached(S)
    BY <1>5, <2>4
  <2>6. S \in SUBSET problem.nodes
    BY <2>5 DEF IsRoute
  <2>. DEFINE reach == {Reached(tools) : tools \in {x \in SUBSET problem.nodes : IsRoute(x)}}
  <2>7. best' \in reach /\ \A r \in reach : Cardinality(r) <= Cardinality(best')
    BY <2>3, <2>5, <2>6
  <2>8. {Covered(tools) \cap problem.required :
           tools \in {x \in SUBSET problem.nodes : IsRoute(x)}}' = reach
    BY <1>1, SameProblem DEF Reached, IsRoute, Interconnected, Edge, Covered
  <2>. HIDE DEF reach
  <2>9. VerdictIsExact'
    BY <1>1, <2>1, <2>7, <2>8, SameProblem DEF VerdictIsExact
  <2>. QED
    BY <1>1, <1>7, <2>1, <2>2, <2>9, SameProblem
    DEF IInv, Untouched, WitnessTells, SpansAreDone, AnchorsAreDone, GapIsBest,
        NothingIsLost, Searching
<1>. QED
  BY <1>9, <1>10

\* A step that changes nothing keeps everything.
LEMMA StutterIsGood == IInv /\ UNCHANGED vars => IInv'
<1>. SUFFICES ASSUME IInv, UNCHANGED vars PROVE IInv'
  OBVIOUS
<1>1. problem' = problem /\ span' = span /\ surviving' = surviving
  BY DEF vars
<1>2. /\ Assignments' = Assignments
      /\ \A a \in Assignments : Forced(a)' = Forced(a)
  BY <1>1 DEF Assignments, Providers, Forced, StillForced, TriedBefore, Usefulness
<1>3. AnchorsAreDone'
  BY <1>1, <1>2, SameProblem DEF IInv, AnchorsAreDone, Represented, Fills, vars
<1>4. VerdictIsExact'
  <2>1. {Covered(tools) \cap problem.required :
           tools \in {x \in SUBSET problem.nodes : IsRoute(x)}}'
        = {Covered(tools) \cap problem.required :
             tools \in {x \in SUBSET problem.nodes : IsRoute(x)}}
    BY <1>1 DEF IsRoute, Interconnected, Edge, Covered
  <2>. QED
    BY <1>1, <2>1, SameProblem DEF IInv, VerdictIsExact, vars
<1>5. GapIsBest'
  BY <1>1, SameProblem DEF IInv, GapIsBest, Fills, Earlier, vars
<1>6. WitnessTells' /\ Untouched' /\ SpansAreDone' /\ NothingIsLost'
  BY <1>1, SameProblem
  DEF IInv, WitnessTells, Untouched, SpansAreDone, NothingIsLost, Searching, Represented,
      Fills, Earlier, vars
<1>7. Typed' /\ Kept' /\ ChainHoldsRoutes'
  BY <1>1, SameProblem, SpanStays DEF IInv, Typed, TypeOK, Spans, Tools, Kept, KeepsSolutions, vars
<1>. QED
  BY <1>3, <1>4, <1>5, <1>6, <1>7 DEF IInv

\* Every step keeps the invariant.
LEMMA SearchStep == IInv /\ [Next]_vars => IInv'
BY StartIsGood, DeletePassIsGood, FindWitnessIsGood, OpenSpanIsGood, NextAnchorIsGood,
   EndBranchIsGood, LeaveAnchorIsGood, CloseSpanIsGood, StopEarlyIsGood, WeighSpanIsGood,
   StutterIsGood
DEF Next

\* The invariant holds throughout.
THEOREM SearchIsGood == Spec => []IInv
<1>1. Init => IInv
  BY InitIsGood
<1>2. IInv /\ [Next]_vars => IInv'
  BY SearchStep
<1>. QED
  BY <1>1, <1>2, PTL DEF Spec

\* The state of a search is of its types, for any topology and scenario.
THEOREM SearchIsTyped == Spec => []TypeOK
<1>1. IInv => TypeOK
  BY DEF IInv, Typed
<1>. QED
  BY <1>1, SearchIsGood, PTL

\* What a search keeps at any moment are solutions, none part of another, and no
\* more than the limit, in whatever order the branches end (_pareto_insert).
THEOREM KeepsSolutionsAlways == Spec => []KeepsSolutions
<1>1. IInv => KeepsSolutions
  BY DEF IInv, Kept
<1>. QED
  BY <1>1, SearchIsGood, PTL

\* A search that was not cut returns a part of every solution, for any topology:
\* neither the chains, nor the skipped anchors, nor the prunings of _complete
\* lose one (RouteSearch.search).
THEOREM NothingIsLostAlways == Spec => []NothingIsLost
<1>1. IInv => NothingIsLost
  BY DEF IInv
<1>. QED
  BY <1>1, SearchIsGood, PTL

\* Both halves: soundness at every moment, completeness at the end.
THEOREM SearchIsExactAlways == Spec => []SearchIsExact
<1>1. KeepsSolutions /\ NothingIsLost => SearchIsExact
  BY DEF SearchIsExact
<1>. QED
  BY <1>1, KeepsSolutionsAlways, NothingIsLostAlways, PTL

\* The verdict on a scenario is right, for any topology and wherever the budget
\* ended the search, and so is the gap that is reported (analyze,
\* covered_capabilities).
THEOREM VerdictIsExactAlways == Spec => []VerdictIsExact
<1>1. IInv => VerdictIsExact
  BY DEF IInv
<1>. QED
  BY <1>1, SearchIsGood, PTL

=============================================================================
