--------------------------- MODULE Pruning_proofs ---------------------------
(***************************************************************************)
(* The optimize pipeline up to its verdict, for any topology, suite, run   *)
(* results and patches: the evidence is of one run, what is proposed is    *)
(* backed by the trials as they ran, an idle verdict of a probe means that *)
(* the edge was out of reach, and what is accepted loses nothing.          *)
(***************************************************************************)
EXTENDS Pruning, SequenceTheorems, FunctionTheorems, FiniteSetTheorems, WellFoundedInduction, TLAPS

----------------------------------------------------------------------------
(* Numbers and recursion *)

\* A non-empty set of naturals has a least element.
LEMMA LeastElement ==
  ASSUME NEW T \in SUBSET Nat, T # {}
  PROVE  \E x \in T : \A y \in T : x <= y
<1>1. PICK R : R = OpToRel(<, Nat)
  OBVIOUS
<1>2. IsWellFoundedOn(R, Nat)
  BY <1>1, NatLessThanWellFounded
<1>3. PICK x \in T : \A y \in T : ~ (<<y, x>> \in R)
  BY <1>2, WFMin
<1>4. \A y \in T : y < x => <<y, x>> \in R
  BY <1>1 DEF OpToRel
<1>5. \A y \in T : ~(y < x) /\ x \in Nat /\ y \in Nat
  BY <1>3, <1>4
<1>6. \A y \in T : x <= y
  BY <1>5, SMT
<1>. QED
  BY <1>6

\* Of some finite sets one contains no other.
LEMMA MinimalSet ==
  ASSUME NEW U, IsFiniteSet(U), NEW S \in SUBSET SUBSET U, S # {}
  PROVE  \E m \in S : \A x \in S : x \subseteq m => x = m
<1>. DEFINE sizes == {Cardinality(x) : x \in S}
<1>1. \A x \in S : IsFiniteSet(x) /\ Cardinality(x) \in Nat
  BY FS_Subset, FS_CardinalityType
<1>2. PICK m \in S : \A x \in S : Cardinality(m) <= Cardinality(x)
  <2>1. sizes \in SUBSET Nat /\ sizes # {}
    BY <1>1
  <2>2. PICK c \in sizes : \A y \in sizes : c <= y
    BY <2>1, LeastElement
  <2>. QED
    BY <2>2
<1>3. ASSUME NEW x \in S, x \subseteq m PROVE x = m
  <2>1. Cardinality(x) <= Cardinality(m) /\ (Cardinality(m) = Cardinality(x) => m = x)
    BY <1>1, <1>3, FS_Subset
  <2>. QED
    BY <1>1, <1>2, <2>1
<1>. QED
  BY <1>3

----------------------------------------------------------------------------
(* Coverage under a patch *)

\* A view has no fewer routes than a part of it.
LEMMA SolutionsShrink ==
  ASSUME NEW view, NEW part, NEW required,
         part.nodes \subseteq view.nodes, part.edges \subseteq view.edges
  PROVE  Solutions(part, required) \subseteq Solutions(view, required)
<1>1. SUFFICES ASSUME NEW tools \in SUBSET part.nodes, IsRoute(part, tools)
               PROVE  IsRoute(view, tools)
  BY DEF Solutions
<1>. QED
  BY <1>1 DEF IsRoute

\* Where there is a route, there is one that contains no other.
LEMMA CandidatesExist ==
  ASSUME NEW view, view.nodes \subseteq Name, NEW required
  PROVE  Candidates(view, required) = {} <=> Solutions(view, required) = {}
<1>1. IsFiniteSet(view.nodes)
  BY RecordsAssumption, FS_Subset
<1>2. Solutions(view, required) \in SUBSET SUBSET view.nodes
  BY DEF Solutions
<1>3. Solutions(view, required) # {} => Candidates(view, required) # {}
  BY <1>1, <1>2, MinimalSet DEF Candidates
<1>. QED
  BY <1>3 DEF Candidates

\* A scenario without a resolver is covered if it expects capabilities that the
\* view provides and a route brings together.
LEMMA CoveredMeansRoute ==
  ASSUME NEW view, view.nodes \subseteq Name, NEW s \in DOMAIN Expected
  PROVE  AnalyseScenario(view, s, None).status = "covered"
           <=> /\ Expected[s] # {}
               /\ Expected[s] \subseteq Capabilities(view.nodes)
               /\ Solutions(view, Expected[s]) # {}
<1>1. CASE Expected[s] = {}
  BY <1>1 DEF AnalyseScenario, Outcome
<1>2. CASE Expected[s] # {}
  BY <1>2, CandidatesExist DEF AnalyseScenario, Analysed, Outcome
<1>. QED
  BY <1>1, <1>2

\* No patch makes anything covered.
LEMMA CoverageShrinks ==
  ASSUME NEW patch, NEW s \in DOMAIN Expected,
         AnalyseScenario(ApplyPatch(Declared, patch), s, None).status = "covered"
  PROVE  AnalyseScenario(Declared, s, None).status = "covered"
<1>. DEFINE part == ApplyPatch(Declared, patch)
<1>1. part.nodes \subseteq Declared.nodes /\ part.edges \subseteq Declared.edges
  BY DEF ApplyPatch
<1>2. part.nodes \subseteq Name /\ Declared.nodes \subseteq Name
  BY <1>1, PruningAssumption
<1>. HIDE DEF part
<1>3. Expected[s] # {} /\ Expected[s] \subseteq Capabilities(part.nodes) /\ Solutions(part, Expected[s]) # {}
  BY <1>2, CoveredMeansRoute DEF part
<1>4. Capabilities(part.nodes) \subseteq Capabilities(Declared.nodes)
  BY <1>1 DEF Capabilities
<1>5. Solutions(Declared, Expected[s]) # {}
  BY <1>1, <1>3, SolutionsShrink
<1>. QED
  BY <1>2, <1>3, <1>4, <1>5, CoveredMeansRoute

LEMMA GateIsOfTheSuite ==
  GateScenarios \subseteq DOMAIN Expected /\ IsFiniteSet(GateScenarios)
<1>1. GateScenarios \subseteq DOMAIN Expected
  BY DEF GateScenarios, InBucket
<1>. QED
  BY <1>1, PruningAssumption, FS_Subset

\* The fast gate compares numbers; still no covered scenario is lost.
LEMMA FastGateKeepsCoverage ==
  ASSUME NEW patch, FastGate(Counterfactual(Declared, patch, GateScenarios))
  PROVE  CoveredLost(Counterfactual(Declared, patch, GateScenarios)) = {}
<1>. DEFINE cf     == Counterfactual(Declared, patch, GateScenarios)
            before == WithStatus(cf.before, "covered")
            after  == WithStatus(cf.after, "covered")
<1>1. before = {s \in GateScenarios : AnalyseScenario(Declared, s, None).status = "covered"}
  BY GateIsOfTheSuite DEF WithStatus, Counterfactual, Report, NoResolver
<1>2. after = {s \in GateScenarios :
                 AnalyseScenario(ApplyPatch(Declared, patch), s, None).status = "covered"}
  BY GateIsOfTheSuite DEF WithStatus, Counterfactual, Report, NoResolver
<1>3. after \subseteq before
  BY <1>1, <1>2, CoverageShrinks, GateIsOfTheSuite
<1>4. Cardinality(before) <= Cardinality(after)
  BY DEF FastGate
<1>5. IsFiniteSet(before)
  BY <1>1, GateIsOfTheSuite, FS_Subset
<1>6. CoveredLost(cf) = before \ after
  BY DEF CoveredLost
<1>. HIDE DEF before, after, cf
<1>7. before = after
  <2>1. IsFiniteSet(after) /\ Cardinality(after) <= Cardinality(before)
    BY <1>3, <1>5, FS_Subset
  <2>2. Cardinality(after) \in Nat /\ Cardinality(before) \in Nat
    BY <2>1, <1>5, FS_CardinalityType
  <2>3. Cardinality(before) = Cardinality(after)
    BY <1>4, <2>1, <2>2
  <2>. QED
    BY <1>3, <1>5, <2>3, FS_Subset
<1>. QED
  BY <1>6, <1>7 DEF cf

----------------------------------------------------------------------------
(* Successes under the slow gate *)

\* A validation has one result of every trial, and asks the evaluator about
\* completed ones only.
LEMMA GateResultsAreTrials ==
  ASSUME NEW view, NEW results \in GateResults(view)
  PROVE  /\ IsFiniteSet(results)
         /\ Cardinality(results) = Cardinality(GateScenarios \X (1..GateTrials))
         /\ \A r \in results : /\ r.status \in {"completed", "layer_error"}
                               /\ r.verdict = "success" => r.status = "completed"
<1>. DEFINE D == GateScenarios \X (1..GateTrials)
<1>1. PICK ends \in [D -> TrialEnds(view)] :
        results = {[trial |-> i, status |-> ends[i].status, route |-> ends[i].route,
                    verdict |-> ends[i].verdict] : i \in DOMAIN ends}
  BY DEF GateResults
<1>2. IsFiniteSet(D)
  <2>1. GateTrials \in Nat
    BY PruningAssumption
  <2>2. IsFiniteSet(1..GateTrials)
    BY <2>1, FS_Interval
  <2>. QED
    BY <2>2, GateIsOfTheSuite, FS_Product
<1>. HIDE DEF D
<1>. DEFINE f == [i \in D |-> [trial |-> i, status |-> ends[i].status, route |-> ends[i].route,
                               verdict |-> ends[i].verdict]]
<1>3. f \in Bijection(D, results)
  <2>1. f \in [D -> results] /\ \A r \in results : \E i \in D : f[i] = r
    BY <1>1
  <2>2. ASSUME NEW i \in D, NEW j \in D, f[i] = f[j] PROVE i = j
    <3>1. f[i].trial = i /\ f[j].trial = j
      OBVIOUS
    <3>. QED
      BY <2>2, <3>1
  <2>. QED
    BY <2>1, <2>2, Fun_IsBij
<1>4. IsFiniteSet(results) /\ Cardinality(results) = Cardinality(D)
  BY <1>2, <1>3, FS_Bijection DEF ExistsBijection
<1>5. ASSUME NEW e \in TrialEnds(view)
      PROVE  e.status \in {"completed", "layer_error"} /\ (e.verdict = "success" => e.status = "completed")
  <2>1. PICK trace \in Walks(view, FirstSelection) :
          \E v \in Verdicts(trace) :
             e = [status |-> StatusOf(trace), route |-> RouteOf(trace), verdict |-> v]
    BY DEF TrialEnds
  <2>. HIDE DEF RouteOf
  <2>2. e.status = StatusOf(trace) /\ e.verdict \in Verdicts(trace)
    BY <2>1
  <2>. QED
    BY <2>2, PruningAssumption DEF StatusOf, Verdicts
<1>6. \A r \in results : \E i \in D : r.status = ends[i].status /\ r.verdict = ends[i].verdict
  BY <1>1
<1>7. \A r \in results : r.status \in {"completed", "layer_error"}
                         /\ (r.verdict = "success" => r.status = "completed")
  BY <1>1, <1>5, <1>6
<1>. QED
  BY <1>4, <1>7 DEF D

\* In a report of such trials errors and completed ones are all there are.
LEMMA ReportAddsUp ==
  ASSUME NEW view, NEW results \in GateResults(view)
  PROVE  LET report == SlowReport(results) IN
         /\ {report.trials, report.completed, report.errors, report.successes} \subseteq Nat
         /\ report.completed + report.errors = report.trials
         /\ report.trials = Cardinality(GateScenarios \X (1..GateTrials))
<1>. DEFINE Having(status) == {r \in results : r.status = status}
            good == {r \in results : r.status = "completed" /\ r.verdict = "success"}
<1>1. IsFiniteSet(results) /\ \A r \in results : r.status \in {"completed", "layer_error"}
  BY GateResultsAreTrials
<1>2. IsFiniteSet(Having("completed")) /\ IsFiniteSet(Having("layer_error")) /\ IsFiniteSet(good)
  BY <1>1, FS_Subset
<1>3. Having("routing_error") = {} /\ Having("fixture_error") = {}
  BY <1>1
<1>4. Having("completed") \cup Having("layer_error") = results
  BY <1>1
<1>5. Having("completed") \cap Having("layer_error") = {}
  OBVIOUS
<1>6. /\ Cardinality(Having("completed")) \in Nat /\ Cardinality(Having("layer_error")) \in Nat
      /\ Cardinality(good) \in Nat /\ Cardinality(results) \in Nat
  BY <1>1, <1>2, FS_CardinalityType
<1>7. Cardinality(results) = Cardinality(Having("completed")) + Cardinality(Having("layer_error"))
  <2>. DEFINE A == Having("completed")
              B == Having("layer_error")
  <2>. HIDE DEF A, B, Having
  <2>1. IsFiniteSet(A) /\ IsFiniteSet(B) /\ A \cup B = results /\ A \cap B = {}
        /\ Cardinality(A) \in Nat /\ Cardinality(B) \in Nat
    BY <1>2, <1>4, <1>5, <1>6 DEF A, B
  <2>2. Cardinality(A \cup B) = Cardinality(A) + Cardinality(B) - Cardinality(A \cap B)
    BY <2>1, FS_Union
  <2>3. Cardinality(A \cap B) = 0
    BY <2>1, FS_EmptySet
  <2>4. Cardinality(A \cup B) = Cardinality(results)
    BY <2>1
  <2>5. Cardinality(results) = Cardinality(A) + Cardinality(B)
    BY <2>1, <2>2, <2>3, <2>4
  <2>. QED
    BY <2>5 DEF A, B
<1>8. Cardinality(Having("routing_error")) = 0 /\ Cardinality(Having("fixture_error")) = 0
  BY <1>3, FS_EmptySet
<1>9. /\ SlowReport(results).trials = Cardinality(results)
      /\ SlowReport(results).completed = Cardinality(Having("completed"))
      /\ SlowReport(results).successes = Cardinality(good)
      /\ SlowReport(results).errors = Cardinality(Having("routing_error"))
           + Cardinality(Having("layer_error")) + Cardinality(Having("fixture_error"))
  BY DEF SlowReport
<1>10. Cardinality(results) = Cardinality(GateScenarios \X (1..GateTrials))
  BY GateResultsAreTrials
<1>. HIDE DEF Having, good
<1>. QED
  BY <1>6, <1>7, <1>8, <1>9, <1>10

\* A rate that drops by at most one percent of more trials is of more successes.
LEMMA RatesToNumbers ==
  ASSUME NEW sb \in Nat, NEW cb \in Nat, NEW sa \in Nat, NEW ca \in Nat \ {0}, cb <= ca
  PROVE  100 * sb * ca <= 100 * sa * cb + cb * ca => 100 * sb <= 100 * sa + ca
<1>0. SUFFICES ASSUME 100 * sb * ca <= 100 * sa * cb + cb * ca
               PROVE  100 * sb <= 100 * sa + ca
  OBVIOUS
<1>. DEFINE most == 100 * sa + ca
<1>1. most \in Nat
  OBVIOUS
<1>2. 100 * sa * cb + cb * ca = cb * most
  BY SMT
<1>3. cb * most <= ca * most
  <2>. HIDE DEF most
  <2>1. \E d \in Nat : ca = cb + d
    <3>1. ca - cb \in Nat /\ ca = cb + (ca - cb)
      OBVIOUS
    <3>. QED
      BY <3>1
  <2>2. PICK d \in Nat : ca = cb + d
    BY <2>1
  <2>3. ca * most = cb * most + d * most /\ d * most \in Nat /\ cb * most \in Nat
    BY <1>1, <2>2, SMT
  <2>. QED
    BY <2>3
<1>4. ca * (100 * sb) <= ca * most
  <2>1. 100 * sb * ca = ca * (100 * sb)
    BY SMT
  <2>2. ca * most \in Nat /\ cb * most \in Nat /\ ca * (100 * sb) \in Nat
    BY <1>1, SMT
  <2>. HIDE DEF most
  <2>. QED
    BY <1>0, <1>2, <1>3, <2>1, <2>2
<1>. HIDE DEF most
<1>5. ~(100 * sb > most)
  <2>1. SUFFICES ASSUME 100 * sb > most PROVE FALSE
    OBVIOUS
  <2>. DEFINE x == 100 * sb
  <2>2. x \in Nat /\ x >= most + 1
    BY <1>1, <2>1
  <2>3. ca * x <= ca * most
    BY <1>4
  <2>. HIDE DEF x
  <2>4. PICK d \in Nat : x = most + 1 + d
    <3>1. x - most - 1 \in Nat /\ x = most + 1 + (x - most - 1)
      BY <1>1, <2>2
    <3>. QED
      BY <3>1
  <2>5. ca * x = ca * most + ca + ca * d /\ ca * d \in Nat /\ ca * most \in Nat
    BY <1>1, <2>4, SMT
  <2>. QED
    BY <2>3, <2>5
<1>. QED
  BY <1>1, <1>5 DEF most

\* The slow gate compares rates and the guard counts routes; together with the
\* trials being the same ones, neither successes are lost nor all of them.
LEMMA GatesKeepSuccesses ==
  ASSUME NEW v, NEW w, NEW before \in GateResults(v), NEW after \in GateResults(w),
         SlowReport(before).completed # 0,
         SlowGate(SlowReport(before), SlowReport(after)), DiversityGuard(before, after)
  PROVE  /\ 100 * SlowReport(before).successes
              <= 100 * SlowReport(after).successes + SlowReport(after).completed
         /\ SlowReport(after).successes > 0
<1>. DEFINE b == SlowReport(before)
            a == SlowReport(after)
<1>1. /\ {b.trials, b.completed, b.errors, b.successes} \subseteq Nat /\ b.completed + b.errors = b.trials
      /\ {a.trials, a.completed, a.errors, a.successes} \subseteq Nat /\ a.completed + a.errors = a.trials
      /\ a.trials = b.trials
  BY ReportAddsUp
<1>2. b.completed # 0
  OBVIOUS
<1>3. a.errors * b.trials <= b.errors * a.trials
  BY DEF SlowGate
<1>4. a.completed # 0 => 100 * b.successes * a.completed
                           <= 100 * a.successes * b.completed + b.completed * a.completed
  BY DEF SlowGate
<1>. HIDE DEF a, b
<1>5. b.completed <= a.completed
  <2>. DEFINE n  == b.trials
              be == b.errors
              ae == a.errors
  <2>1. n \in Nat \ {0} /\ be \in Nat /\ ae \in Nat /\ ae * n <= be * n
    <3>1. n \in Nat \ {0} /\ be \in Nat /\ ae \in Nat
      BY <1>1, <1>2
    <3>2. a.trials = n
      BY <1>1
    <3>3. ae * n <= be * n
      BY <1>3, <3>2
    <3>. QED
      BY <3>1, <3>3
  <2>2. ae <= be
    <3>. HIDE DEF n, be, ae
    <3>1. SUFFICES ASSUME ae > be PROVE FALSE
      BY <2>1
    <3>2. PICK d \in Nat : ae = be + 1 + d
      <4>1. ae - be - 1 \in Nat /\ ae = be + 1 + (ae - be - 1)
        BY <2>1, <3>1
      <4>. QED
        BY <4>1
    <3>3. ae * n = be * n + n + d * n /\ d * n \in Nat /\ be * n \in Nat
      BY <2>1, <3>2, SMT
    <3>. QED
      BY <2>1, <3>3
  <2>. QED
    BY <1>1, <2>2
<1>6. 100 * b.successes <= 100 * a.successes + a.completed
  <2>1. a.completed \in Nat \ {0}
    BY <1>1, <1>2, <1>5
  <2>. QED
    BY <1>1, <1>4, <1>5, <2>1, RatesToNumbers
<1>7. a.successes > 0
  <2>1. Successful(after) # {}
    <3>1. SUFFICES ASSUME Successful(after) = {} PROVE FALSE
      OBVIOUS
    <3>2. Cardinality(Successful(after)) = 0
      BY <3>1, FS_EmptySet
    <3>. QED
      BY <3>2 DEF DiversityGuard
  <2>2. PICK route \in DOMAIN RouteStats(after) : RouteStats(after)[route].successes > 0
    BY <2>1 DEF Successful
  <2>3. RouteStats(after)[route].successes
          = Cardinality({r \in {s \in after : s.route = route} : r.verdict = "success"})
    BY <2>2 DEF RouteStats
  <2>4. {r \in {s \in after : s.route = route} : r.verdict = "success"} # {}
    <3>1. Cardinality({}) = 0
      BY FS_EmptySet
    <3>2. ~(0 > 0)
      OBVIOUS
    <3>. QED
      BY <2>2, <2>3, <3>1, <3>2
  <2>5. PICK r \in after : r.verdict = "success"
    BY <2>4
  <2>. DEFINE good == {q \in after : q.status = "completed" /\ q.verdict = "success"}
  <2>6. r \in good /\ IsFiniteSet(good)
    BY <2>5, GateResultsAreTrials, FS_Subset
  <2>7. Cardinality(good) # 0 /\ a.successes = Cardinality(good)
    BY <2>6, FS_EmptySet DEF a, SlowReport
  <2>. QED
    BY <1>1, <2>7
<1>. QED
  BY <1>6, <1>7 DEF a, b

----------------------------------------------------------------------------
(* The disk form of a trial *)

\* Nothing is selected in no layer but the last.
WalksOn(result) == \A k \in 1..(Len(result.trace) - 1) : result.trace[k].selected # {}

\* Among the first numbers every one has its own rank.
LEMMA NthOfAnInterval ==
  ASSUME NEW m \in Nat, NEW k \in 1..m
  PROVE  Nth(1..m, k) = k
<1>1. ASSUME NEW t \in 1..m PROVE Cardinality({s \in 1..m : s <= t}) = t
  <2>1. {s \in 1..m : s <= t} = 1..t
    OBVIOUS
  <2>2. Cardinality(1..t) = t
    BY FS_Interval
  <2>. QED
    BY <2>1, <2>2
<1>. QED
  BY <1>1 DEF Nth

\* The layers that are kept are the first ones.
LEMMA KeptAreTheFirst ==
  ASSUME NEW trace \in Seq(LayerRecord), \A k \in 1..(Len(trace) - 1) : trace[k].selected # {}
  PROVE  \E m \in 0..Len(trace) :
           /\ Kept(trace) = [k \in 1..m |-> trace[k]]
           /\ \A k \in (m + 1)..Len(trace) : trace[k].selected = {}
<1>. DEFINE len  == Len(trace)
            some == {i \in DOMAIN trace : trace[i].selected # {}}
            m    == IF len \in some THEN len ELSE IF len = 0 THEN 0 ELSE len - 1
<1>1. len \in Nat /\ DOMAIN trace = 1..len
  OBVIOUS
<1>2. m \in 0..len
  BY <1>1
<1>3. some = 1..m
  <2>1. \A k \in 1..(len - 1) : k \in some
    BY <1>1
  <2>2. some \subseteq 1..len
    BY <1>1
  <2>. HIDE DEF some, len
  <2>3. CASE len \in some
    <3>1. 1..len = 1..(len - 1) \cup {len} /\ m = len
      BY <1>1, <2>2, <2>3
    <3>. HIDE DEF m
    <3>. QED
      BY <2>1, <2>2, <2>3, <3>1
  <2>4. CASE len \notin some /\ len = 0
    <3>1. 1..len = {} /\ m = 0
      BY <2>4
    <3>. HIDE DEF m
    <3>. QED
      BY <2>2, <2>4, <3>1
  <2>5. CASE len \notin some /\ len # 0
    <3>1. 1..len = 1..(len - 1) \cup {len} /\ len \notin 1..(len - 1) /\ m = len - 1
      BY <1>1, <2>5
    <3>. HIDE DEF m
    <3>. QED
      BY <2>1, <2>2, <2>5, <3>1
  <2>. QED
    BY <2>3, <2>4, <2>5
<1>4. Cardinality(1..m) = m
  <2>1. m \in Nat
    BY <1>1, <1>2
  <2>. HIDE DEF m
  <2>. QED
    BY <2>1, FS_Interval
<1>5. \A k \in 1..m : Nth(1..m, k) = k
  BY <1>2, NthOfAnInterval
<1>6. Kept(trace) = [k \in 1..Cardinality(some) |-> trace[Nth(some, k)]]
  BY DEF Kept
<1>7. \A k \in (m + 1)..len : trace[k].selected = {}
  <2>. TAKE k \in (m + 1)..len
  <2>1. k \notin 1..m /\ k \in 1..len
    BY <1>1, <1>2
  <2>. HIDE DEF m
  <2>. QED
    BY <1>1, <1>3, <2>1
<1>. HIDE DEF m, some
<1>8. Kept(trace) = [k \in 1..m |-> trace[k]]
  BY <1>3, <1>4, <1>5, <1>6
<1>. QED
  BY <1>2, <1>7, <1>8

\* What is read back of a result.
LEMMA RebuiltKeepsLayers ==
  ASSUME NEW r \in TrialResult, WalksOn(r)
  PROVE  /\ Rebuilt(r).trial = r.trial
         /\ \E m \in 0..Len(r.trace) :
              /\ Rebuilt(r).trace \in Seq(LayerRecord) /\ Len(Rebuilt(r).trace) = m
              /\ \A k \in 1..m : /\ Rebuilt(r).trace[k].selected = r.trace[k].selected
                                 /\ Rebuilt(r).trace[k].available = r.trace[k].available
              /\ \A k \in (m + 1)..Len(r.trace) : r.trace[k].selected = {}
<1>1. r.trace \in Seq(LayerRecord)
  BY DEF TrialResult
<1>2. PICK m \in 0..Len(r.trace) :
        /\ Kept(r.trace) = [k \in 1..m |-> r.trace[k]]
        /\ \A k \in (m + 1)..Len(r.trace) : r.trace[k].selected = {}
  BY <1>1, KeptAreTheFirst DEF WalksOn
<1>. DEFINE kept == Kept(r.trace)
            back == [i \in DOMAIN kept |-> [kept[i] EXCEPT !.ok = {}]]
<1>3. Rebuilt(r) = [r EXCEPT !.trace = back]
  BY DEF Rebuilt
<1>4. m \in Nat /\ DOMAIN kept = 1..m /\ \A k \in 1..m : kept[k] = r.trace[k] /\ kept[k] \in LayerRecord
  <2>1. m \in Nat /\ \A k \in 1..m : k \in 1..Len(r.trace)
    BY <1>1
  <2>2. \A k \in 1..m : r.trace[k] \in LayerRecord
    BY <1>1, <2>1, ElementOfSeq
  <2>. QED
    BY <1>2, <2>1, <2>2
<1>. HIDE DEF kept
<1>5. \A k \in 1..m : /\ back[k] \in LayerRecord
                      /\ back[k].selected = r.trace[k].selected
                      /\ back[k].available = r.trace[k].available
  <2>. TAKE k \in 1..m
  <2>1. back[k] = [kept[k] EXCEPT !.ok = {}] /\ kept[k] \in LayerRecord
    BY <1>4
  <2>2. back[k] \in LayerRecord /\ back[k].selected = kept[k].selected
        /\ back[k].available = kept[k].available
    <3>. HIDE DEF back
    <3>. QED
      BY <2>1 DEF LayerRecord
  <2>. QED
    BY <1>4, <2>2
<1>6. back \in Seq(LayerRecord) /\ Len(back) = m
  <2>1. back = [k \in 1..m |-> back[k]]
    BY <1>4
  <2>. HIDE DEF back
  <2>2. back \in [1..m -> LayerRecord]
    BY <1>5, <2>1
  <2>. QED
    BY <1>4, <2>2
<1>. HIDE DEF back
<1>7. Rebuilt(r).trace = back /\ Rebuilt(r).trial = r.trial
  BY <1>3 DEF TrialResult
<1>. QED
  BY <1>2, <1>5, <1>6, <1>7

\* The disk form shows the same walks, and no tool that was not offered.
LEMMA RebuiltTellsWalks ==
  ASSUME NEW r \in TrialResult, WalksOn(r)
  PROVE  /\ \A e : Walked(Rebuilt(r).trace, e) <=> Walked(r.trace, e)
         /\ \A e : Offered(Rebuilt(r).trace, e) => Offered(r.trace, e)
         /\ \A t : (\E i \in DOMAIN Rebuilt(r).trace : t \in Rebuilt(r).trace[i].selected)
                     <=> (\E i \in DOMAIN r.trace : t \in r.trace[i].selected)
         /\ \A t : (\E i \in DOMAIN Rebuilt(r).trace : t \in Rebuilt(r).trace[i].available)
                     => (\E i \in DOMAIN r.trace : t \in r.trace[i].available)
<1>. DEFINE old == r.trace
            new == Rebuilt(r).trace
            len == Len(old)
<1>1. old \in Seq(LayerRecord)
  BY DEF TrialResult
<1>2. PICK m \in 0..len :
        /\ new \in Seq(LayerRecord) /\ Len(new) = m
        /\ \A k \in 1..m : new[k].selected = old[k].selected /\ new[k].available = old[k].available
        /\ \A k \in (m + 1)..len : old[k].selected = {}
  BY RebuiltKeepsLayers
<1>. HIDE DEF old, new
<1>3. len \in Nat /\ m \in Nat /\ m <= len /\ DOMAIN old = 1..len /\ DOMAIN new = 1..m
  BY <1>1, <1>2
<1>. HIDE DEF len
<1>4. \A k \in 1..len : old[k].selected # {} => k \in 1..m
  BY <1>2, <1>3
<1>5. ASSUME NEW e, Walked(new, e) PROVE Walked(old, e)
  <2>1. PICK i \in 1..(m - 1) : e[1] \in new[i].selected /\ e[2] \in new[i + 1].selected
    BY <1>2, <1>5 DEF Walked
  <2>2. i \in 1..m /\ i + 1 \in 1..m /\ i \in 1..(len - 1)
    BY <1>3
  <2>. QED
    BY <1>2, <1>3, <2>1, <2>2 DEF Walked, len
<1>6. ASSUME NEW e, Walked(old, e) PROVE Walked(new, e)
  <2>1. PICK i \in 1..(len - 1) : e[1] \in old[i].selected /\ e[2] \in old[i + 1].selected
    BY <1>6 DEF Walked, len
  <2>2. i \in 1..len /\ i + 1 \in 1..len
    BY <1>3
  <2>3. i \in 1..m /\ i + 1 \in 1..m
    BY <1>4, <2>1, <2>2
  <2>4. i \in 1..(m - 1)
    BY <1>3, <2>3
  <2>. QED
    BY <1>2, <2>1, <2>3, <2>4 DEF Walked
<1>7. ASSUME NEW e, Offered(new, e) PROVE Offered(old, e)
  <2>1. PICK i \in 1..(m - 1) : e[1] \in new[i].selected /\ e[2] \in new[i + 1].available
    BY <1>2, <1>7 DEF Offered
  <2>2. i \in 1..m /\ i + 1 \in 1..m /\ i \in 1..(len - 1)
    BY <1>3
  <2>. QED
    BY <1>2, <1>3, <2>1, <2>2 DEF Offered, len
<1>8. \A t : (\E i \in 1..m : t \in new[i].selected) <=> (\E i \in 1..len : t \in old[i].selected)
  BY <1>2, <1>3, <1>4
<1>9. \A t : (\E i \in 1..m : t \in new[i].available) => (\E i \in 1..len : t \in old[i].available)
  BY <1>2, <1>3
<1>10. \A t : (\E i \in DOMAIN new : t \in new[i].selected) <=> (\E i \in DOMAIN old : t \in old[i].selected)
  BY <1>3, <1>8
<1>11. \A t : (\E i \in DOMAIN new : t \in new[i].available) => (\E i \in DOMAIN old : t \in old[i].available)
  BY <1>3, <1>9
<1>. QED
  BY <1>5, <1>6, <1>7, <1>10, <1>11 DEF old, new

----------------------------------------------------------------------------
(* Evidence *)

\* Rows of one run, every trial once
OneRun(rows) ==
  /\ rows \in Seq(Row)
  /\ \A i, j \in DOMAIN rows :
       /\ rows[i].run = rows[j].run
       /\ i # j => rows[i].result.trial # rows[j].result.trial
  /\ \A i \in DOMAIN rows : WalksOn(rows[i].result)

\* The trials that are loaded are so many different ones.
LEMMA LoadedTrialsAreDistinct ==
  ASSUME OneRun(lines)
  PROVE  /\ IsFiniteSet(LoadedTrials) /\ LoadedTrials \subseteq TrialResult
         /\ \A r \in LoadedTrials : WalksOn(r)
         /\ \A r, q \in LoadedTrials : r.trial = q.trial => r = q
<1>. DEFINE picked == {j \in DOMAIN lines : BucketOf[lines[j].result.trial[1]] = "optimization"}
            f      == [i \in picked |-> lines[i].result]
<1>1. lines \in Seq(Row) /\ DOMAIN lines = 1..Len(lines) /\ Len(lines) \in Nat
  BY DEF OneRun
<1>2. IsFiniteSet(picked)
  <2>1. picked \in SUBSET (1..Len(lines))
    BY <1>1
  <2>. HIDE DEF picked
  <2>2. IsFiniteSet(1..Len(lines))
    BY <1>1, FS_Interval
  <2>. QED
    BY <2>1, <2>2, FS_Subset
<1>3. LoadedTrials = {lines[i].result : i \in picked}
  BY DEF LoadedTrials
<1>4. \A i \in picked : lines[i].result \in TrialResult /\ WalksOn(lines[i].result)
  <2>. TAKE i \in picked
  <2>1. lines[i] \in Row
    BY <1>1, ElementOfSeq
  <2>. QED
    BY <2>1 DEF OneRun, Row
<1>5. \A i, j \in picked : lines[i].result.trial = lines[j].result.trial => i = j
  BY DEF OneRun
<1>. HIDE DEF picked
<1>6. IsFiniteSet(LoadedTrials)
  <2>1. f \in Surjection(picked, LoadedTrials)
    BY <1>3, Fun_IsSurj
  <2>. QED
    BY <1>2, <2>1, FS_Surjection
<1>. QED
  BY <1>3, <1>4, <1>5, <1>6

\* What is a property of a trial in both its forms holds of as many trials read
\* back as ran; what the disk form shows less often, of no more.
LEMMA CountedAlike ==
  ASSUME NEW L, IsFiniteSet(L), L \subseteq TrialResult,
         \A r \in L : WalksOn(r),
         \A r, q \in L : r.trial = q.trial => r = q,
         NEW ran \in SUBSET L, NEW back \in SUBSET {Rebuilt(r) : r \in L}
  PROVE  /\ IsFiniteSet(ran) /\ IsFiniteSet(back)
         /\ (\A r \in ran : Rebuilt(r) \in back) => Cardinality(ran) <= Cardinality(back)
         /\ (\A r \in L : Rebuilt(r) \in back => r \in ran) => Cardinality(back) <= Cardinality(ran)
<1>1. IsFiniteSet(ran)
  BY FS_Subset
<1>2. \A r \in L : Rebuilt(r).trial = r.trial
  BY RebuiltKeepsLayers
<1>3. IsFiniteSet({Rebuilt(r) : r \in L})
  <2>. DEFINE g == [r \in L |-> Rebuilt(r)]
  <2>1. g \in Surjection(L, {Rebuilt(r) : r \in L})
    BY Fun_IsSurj
  <2>. QED
    BY <2>1, FS_Surjection
<1>4. IsFiniteSet(back)
  BY <1>3, FS_Subset
<1>5. ASSUME \A r \in ran : Rebuilt(r) \in back PROVE Cardinality(ran) <= Cardinality(back)
  <2>. DEFINE f == [r \in ran |-> Rebuilt(r)]
  <2>1. f \in [ran -> back] /\ \A r, q \in ran : f[r] = f[q] => r = q
    BY <1>2, <1>5
  <2>. HIDE DEF f
  <2>2. f \in Injection(ran, back)
    BY <2>1, Fun_IsInj
  <2>. QED
    BY <1>4, <2>2, FS_Injection
<1>6. ASSUME \A r \in L : Rebuilt(r) \in back => r \in ran PROVE Cardinality(back) <= Cardinality(ran)
  <2>. DEFINE source == {r \in L : Rebuilt(r) \in back}
              f == [r \in source |-> Rebuilt(r)]
  <2>1. f \in [source -> back] /\ \A b \in back : \E r \in source : f[r] = b
    OBVIOUS
  <2>2. source \subseteq ran
    BY <1>6
  <2>. HIDE DEF f, source
  <2>3. f \in Surjection(source, back)
    BY <2>1, Fun_IsSurj
  <2>4. IsFiniteSet(source) /\ Cardinality(source) <= Cardinality(ran)
    BY <1>1, <2>2, FS_Subset
  <2>5. Cardinality(back) <= Cardinality(source)
    BY <2>3, <2>4, FS_Surjection
  <2>. QED
    BY <1>1, <1>4, <2>4, <2>5, FS_CardinalityType
<1>. QED
  BY <1>1, <1>4, <1>5, <1>6

\* The statistics of what is read back show an edge as often walked and no more
\* often offered than it was, and a tool likewise.
LEMMA StatsOfTheDiskForm ==
  ASSUME NEW L, IsFiniteSet(L), L \subseteq TrialResult,
         \A r \in L : WalksOn(r),
         \A r, q \in L : r.trial = q.trial => r = q
  PROVE  LET results == {Rebuilt(r) : r \in L} IN
         /\ \A e : /\ EdgeStats(L, e).observed \in Nat /\ EdgeStats(L, e).opportunity \in Nat
                   /\ EdgeStats(results, e).observed \in Nat
                   /\ EdgeStats(results, e).opportunity \in Nat
                   /\ EdgeStats(L, e).observed <= EdgeStats(results, e).observed
                   /\ EdgeStats(results, e).opportunity <= EdgeStats(L, e).opportunity
         /\ \A t : /\ NodeStats(L, t).selected \in Nat /\ NodeStats(L, t).opportunity \in Nat
                   /\ NodeStats(results, t).selected \in Nat
                   /\ NodeStats(results, t).opportunity \in Nat
                   /\ NodeStats(L, t).selected <= NodeStats(results, t).selected
                   /\ NodeStats(results, t).opportunity <= NodeStats(L, t).opportunity
<1>. DEFINE results == {Rebuilt(r) : r \in L}
<1>1. \A r \in L : r \in TrialResult /\ WalksOn(r)
  OBVIOUS
<1>2. ASSUME NEW e
      PROVE  /\ EdgeStats(L, e).observed \in Nat /\ EdgeStats(L, e).opportunity \in Nat
             /\ EdgeStats(results, e).observed \in Nat /\ EdgeStats(results, e).opportunity \in Nat
             /\ EdgeStats(L, e).observed <= EdgeStats(results, e).observed
             /\ EdgeStats(results, e).opportunity <= EdgeStats(L, e).opportunity
  <2>. DEFINE A == {r \in L : Walked(r.trace, e)}
              B == {r \in results : Walked(r.trace, e)}
              C == {r \in L : Offered(r.trace, e)}
              D == {r \in results : Offered(r.trace, e)}
  <2>1. /\ EdgeStats(L, e).observed = Cardinality(A) /\ EdgeStats(L, e).opportunity = Cardinality(C)
        /\ EdgeStats(results, e).observed = Cardinality(B)
        /\ EdgeStats(results, e).opportunity = Cardinality(D)
    BY DEF EdgeStats
  <2>2. A \in SUBSET L /\ C \in SUBSET L /\ B \in SUBSET results /\ D \in SUBSET results
    OBVIOUS
  <2>3. \A r \in A : Rebuilt(r) \in B
    BY RebuiltTellsWalks
  <2>4. \A r \in L : Rebuilt(r) \in D => r \in C
    BY RebuiltTellsWalks
  <2>. HIDE DEF A, B, C, D
  <2>5. IsFiniteSet(A) /\ IsFiniteSet(B) /\ Cardinality(A) <= Cardinality(B)
    BY <2>2, <2>3, CountedAlike
  <2>6. IsFiniteSet(C) /\ IsFiniteSet(D) /\ Cardinality(D) <= Cardinality(C)
    BY <2>2, <2>4, CountedAlike
  <2>. QED
    BY <2>1, <2>5, <2>6, FS_CardinalityType
<1>3. ASSUME NEW t
      PROVE  /\ NodeStats(L, t).selected \in Nat /\ NodeStats(L, t).opportunity \in Nat
             /\ NodeStats(results, t).selected \in Nat /\ NodeStats(results, t).opportunity \in Nat
             /\ NodeStats(L, t).selected <= NodeStats(results, t).selected
             /\ NodeStats(results, t).opportunity <= NodeStats(L, t).opportunity
  <2>. DEFINE A == {r \in L : \E i \in DOMAIN r.trace : t \in r.trace[i].selected}
              B == {r \in results : \E i \in DOMAIN r.trace : t \in r.trace[i].selected}
              C == {r \in L : \E i \in DOMAIN r.trace : t \in r.trace[i].available}
              D == {r \in results : \E i \in DOMAIN r.trace : t \in r.trace[i].available}
  <2>1. /\ NodeStats(L, t).selected = Cardinality(A) /\ NodeStats(L, t).opportunity = Cardinality(C)
        /\ NodeStats(results, t).selected = Cardinality(B)
        /\ NodeStats(results, t).opportunity = Cardinality(D)
    BY DEF NodeStats
  <2>2. A \in SUBSET L /\ C \in SUBSET L /\ B \in SUBSET results /\ D \in SUBSET results
    OBVIOUS
  <2>3. \A r \in A : Rebuilt(r) \in B
    BY RebuiltTellsWalks
  <2>4. \A r \in L : Rebuilt(r) \in D => r \in C
    BY RebuiltTellsWalks
  <2>. HIDE DEF A, B, C, D
  <2>5. IsFiniteSet(A) /\ IsFiniteSet(B) /\ Cardinality(A) <= Cardinality(B)
    BY <2>2, <2>3, CountedAlike
  <2>6. IsFiniteSet(C) /\ IsFiniteSet(D) /\ Cardinality(D) <= Cardinality(C)
    BY <2>2, <2>4, CountedAlike
  <2>. QED
    BY <2>1, <2>5, <2>6, FS_CardinalityType
<1>. QED
  BY <1>2, <1>3

\* A proposal made of the loaded trials is backed by them as they ran.
LEMMA ProposalsAreBacked ==
  ASSUME OneRun(lines), work' = Proposal({Rebuilt(r) : r \in LoadedTrials})
  PROVE  ProposalIsBacked'
<1>. DEFINE L == LoadedTrials
            results == {Rebuilt(r) : r \in L}
<1>1. /\ IsFiniteSet(L) /\ L \subseteq TrialResult /\ \A r \in L : WalksOn(r)
      /\ \A r, q \in L : r.trial = q.trial => r = q
  BY LoadedTrialsAreDistinct
<1>2. /\ work'.trials = L
      /\ work'.patch.nodes = IdleNodes(results)
      /\ work'.patch.edges = {e \in Declared.edges :
                                EdgeStatus(EdgeEvidence(results, ProtectedEdges, e)) = "identified"}
  <2>. HIDE DEF IdleNodes, EdgeStatus, EdgeEvidence
  <2>. QED
    BY DEF Proposal
<1>. HIDE DEF L
<1>3. MinOpportunities \in Nat /\ MinAvailability \in Nat
  BY PruningAssumption
<1>4. ASSUME NEW e \in work'.patch.edges
      PROVE  /\ EdgeStats(L, e).observed * 100 <= EdgeStats(L, e).opportunity
             /\ EdgeStats(L, e).opportunity >= MinOpportunities
  <2>. DEFINE evidence == EdgeEvidence(results, ProtectedEdges, e)
              stats    == EdgeStats(results, e)
  <2>1. EdgeStatus(evidence) = "identified"
    BY <1>2
  <2>2. evidence.observed = stats.observed /\ evidence.opportunity = stats.opportunity
        /\ evidence.protected \in BOOLEAN
    BY DEF EdgeEvidence
  <2>3. /\ EdgeStats(L, e).observed \in Nat /\ EdgeStats(L, e).opportunity \in Nat
        /\ stats.observed \in Nat /\ stats.opportunity \in Nat
        /\ EdgeStats(L, e).observed <= stats.observed
        /\ stats.opportunity <= EdgeStats(L, e).opportunity
    BY <1>1, StatsOfTheDiskForm
  <2>. HIDE DEF evidence, stats
  <2>4. evidence.observed * 100 <= evidence.opportunity /\ evidence.opportunity >= MinOpportunities
    <3>. DEFINE low    == evidence.observed * 100 <= evidence.opportunity
                enough == evidence.opportunity >= MinOpportunities
    <3>1. evidence.opportunity < MinOpportunities <=> ~enough
      BY <1>3, <2>2, <2>3
    <3>2. (evidence.protected \/ ~low \/ ~enough) => EdgeStatus(evidence) # "identified"
      BY <2>2, <3>1 DEF EdgeStatus
    <3>. QED
      BY <2>1, <3>2
  <2>. QED
    BY <1>3, <2>2, <2>3, <2>4
<1>5. ASSUME NEW t \in work'.patch.nodes
      PROVE  NodeStats(L, t).selected = 0 /\ NodeStats(L, t).opportunity >= MinAvailability
  <2>. DEFINE stats == NodeStats(results, t)
  <2>1. stats.opportunity >= MinAvailability /\ stats.selected = 0
    BY <1>2 DEF IdleNodes
  <2>2. /\ NodeStats(L, t).selected \in Nat /\ NodeStats(L, t).opportunity \in Nat
        /\ stats.selected \in Nat /\ stats.opportunity \in Nat
        /\ NodeStats(L, t).selected <= stats.selected
        /\ stats.opportunity <= NodeStats(L, t).opportunity
    BY <1>1, StatsOfTheDiskForm
  <2>. HIDE DEF stats
  <2>. QED
    BY <1>3, <2>1, <2>2
<1>. QED
  BY <1>2, <1>4, <1>5 DEF ProposalIsBacked

----------------------------------------------------------------------------
(* Recursion along an interval *)

\* What holds of the first value and is passed on from each value to the next
\* one holds of all of them.
LEMMA PassedOn ==
  ASSUME NEW A, NEW g, NEW n \in Nat, g[0] \in A,
         \A k \in 1..n : g[k - 1] \in A => g[k] \in A
  PROVE  \A k \in 0..n : g[k] \in A
<1>. DEFINE Bad == {k \in 0..n : g[k] \notin A}
<1>1. SUFFICES ASSUME Bad # {} PROVE FALSE
  OBVIOUS
<1>2. PICK k \in Bad : \A y \in Bad : k <= y
  <2>1. Bad \in SUBSET Nat
    OBVIOUS
  <2>. QED
    BY <1>1, <2>1, LeastElement
<1>3. k \in 1..n /\ k - 1 \in 0..n /\ ~(k <= k - 1)
  BY <1>2
<1>4. g[k - 1] \in A
  BY <1>2, <1>3
<1>. QED
  BY <1>2, <1>3, <1>4

GoesOn(f, a, n, next) == f[0] = a /\ \A k \in 1..n : f[k] = next[<<k, f[k - 1]>>]

Closed(A, n, next) == \A k \in 1..n, x \in A : next[<<k, x>>] \in A

\* There is a function that starts with a and goes on as next says.
LEMMA RecursionExists ==
  ASSUME NEW A, NEW a \in A, NEW n \in Nat, NEW next, Closed(A, n, next)
  PROVE  \E f \in [0..n -> A] : GoesOn(f, a, n, next)
<1>. USE DEF GoesOn
<1>. DEFINE Upto(m) == {f \in [0..m -> A] : GoesOn(f, a, m, next)}
            Some    == {m \in 0..n : Upto(m) # {}}
            g       == [m \in 0..n |-> m]
<1>1. 0 \in Some
  <2>1. [k \in 0..0 |-> a] \in Upto(0)
    OBVIOUS
  <2>. QED
    BY <2>1
<1>2. ASSUME NEW m \in 1..n, m - 1 \in Some PROVE m \in Some
  <2>1. PICK f \in Upto(m - 1) : TRUE
    BY <1>2
  <2>2. m \in Nat \ {0} /\ m - 1 \in 0..(m - 1) /\ f[m - 1] \in A
    BY <2>1
  <2>. DEFINE h == [k \in 0..m |-> IF k = m THEN next[<<m, f[m - 1]>>] ELSE f[k]]
  <2>3. h \in [0..m -> A] /\ h[0] = a
    BY <2>1, <2>2 DEF Closed
  <2>4. ASSUME NEW k \in 1..m PROVE h[k] = next[<<k, h[k - 1]>>]
    <3>1. k - 1 \in 0..m /\ k - 1 # m /\ h[k - 1] = f[k - 1]
      BY <2>2
    <3>2. CASE k = m
      BY <3>1, <3>2
    <3>3. CASE k # m
      <4>1. k \in 1..(m - 1) /\ h[k] = f[k]
        BY <2>2, <3>3
      <4>. QED
        BY <2>1, <3>1, <4>1
    <3>. QED
      BY <3>2, <3>3
  <2>. HIDE DEF h
  <2>5. h \in Upto(m)
    BY <2>3, <2>4
  <2>6. m \in 0..n
    OBVIOUS
  <2>. HIDE DEF Upto
  <2>. QED
    BY <2>5, <2>6
<1>. HIDE DEF Some
<1>3. \A k \in 1..n : g[k - 1] \in Some => g[k] \in Some
  BY <1>2
<1>4. \A k \in 0..n : g[k] \in Some
  <2>1. g[0] \in Some
    BY <1>1
  <2>. HIDE DEF g
  <2>. QED
    BY <1>3, <2>1, PassedOn
<1>5. n \in Some
  BY <1>4
<1>. QED
  BY <1>5 DEF Some

----------------------------------------------------------------------------
(* What the first trial of a probe runs *)

\* The first set of a plan is the seed's.
LEMMA PlansBeginWithTheSeed ==
  ASSUME NEW baseline, NEW siblings, IsFiniteSet(siblings)
  PROVE  LET sets == Plans(baseline, siblings)[Cardinality(siblings)]
         IN  Len(sets) \in Nat \ {0} /\ sets[1] = baseline
<1>. DEFINE N        == Cardinality(siblings)
            extra(k) == Extended(baseline, Nth(siblings, k))
            U        == {baseline} \cup {extra(k) : k \in 1..N}
            A        == {sets \in Seq(U) : sets # <<>> /\ sets[1] = baseline}
            next     == [x \in (1..N) \X A |-> Widened(x[2], extra(x[1]))]
            Is(f)    == f = [k \in 0..N |->
                               IF k = 0 THEN <<baseline>> ELSE Widened(f[k - 1], extra(k))]
            first    == <<baseline>>
<1>1. N \in Nat
  BY FS_CardinalityType
<1>2. first \in A
  OBVIOUS
<1>3. \A k \in 1..N, sets \in A : Widened(sets, extra(k)) \in A
  <2>. TAKE k \in 1..N, sets \in A
  <2>1. extra(k) \in U
    OBVIOUS
  <2>. HIDE DEF extra, U
  <2>2. sets \in Seq(U) /\ sets # <<>> /\ sets[1] = baseline
    OBVIOUS
  <2>3. Append(sets, extra(k)) \in Seq(U) /\ Append(sets, extra(k)) # <<>>
        /\ Append(sets, extra(k))[1] = baseline
    BY <2>1, <2>2
  <2>. QED
    BY <2>2, <2>3 DEF Widened
<1>. HIDE DEF N, extra, A
<1>4. \A k \in 1..N, x \in A : next[<<k, x>>] = Widened(x, extra(k))
  OBVIOUS
<1>5. PICK f \in [0..N -> A] : GoesOn(f, first, N, next)
  <2>1. Closed(A, N, next)
    BY <1>3, <1>4 DEF Closed
  <2>. HIDE DEF next, first
  <2>. QED
    BY <1>1, <1>2, <2>1, RecursionExists
<1>. HIDE DEF next
<1>6. Is(f)
  <2>. DEFINE F(k) == IF k = 0 THEN <<baseline>> ELSE Widened(f[k - 1], extra(k))
  <2>1. \A k \in 1..N : f[k] = Widened(f[k - 1], extra(k))
    <3>. TAKE k \in 1..N
    <3>1. k - 1 \in 0..N
      BY <1>1
    <3>2. f[k - 1] \in A
      BY <3>1
    <3>. QED
      BY <1>4, <1>5, <3>2 DEF GoesOn
  <2>2. f[0] = F(0) /\ \A k \in 1..N : k # 0 /\ f[k] = F(k)
    BY <1>1, <1>5, <2>1 DEF GoesOn
  <2>. HIDE DEF F
  <2>3. \A k \in 0..N : f[k] = F(k)
    BY <1>1, <2>2
  <2>4. f = [k \in 0..N |-> F(k)]
    BY <2>3
  <2>. QED
    BY <2>4 DEF F
<1>. DEFINE plan == Plans(baseline, siblings)
<1>7. Is(plan)
  <2>1. plan = CHOOSE p : Is(p)
    BY DEF Plans, N, extra
  <2>. HIDE DEF plan
  <2>. QED
    BY <1>6, <2>1
<1>. HIDE DEF plan
<1>8. plan[0] \in A /\ \A k \in 1..N : plan[k - 1] \in A => plan[k] \in A
  <2>1. plan[0] = first
    BY <1>1, <1>7
  <2>2. \A k \in 1..N : plan[k] = Widened(plan[k - 1], extra(k))
    BY <1>1, <1>7
  <2>. HIDE DEF Is, first
  <2>. QED
    BY <1>2, <1>3, <2>1, <2>2
<1>9. \A k \in 0..N : plan[k] \in A
  BY <1>1, <1>8, PassedOn
<1>10. plan[N] \in A
  BY <1>1, <1>9
<1>. QED
  BY <1>10 DEF A, plan, N

\* Trial 0 runs what the seed has of the tools available.
LEMMA TrialZeroRunsTheSeed ==
  ASSUME NEW available, IsFiniteSet(available), NEW seed
  PROVE  SetOfTrial(available, seed, 0) = seed \cap available
<1>. DEFINE baseline == seed \cap available
            siblings == available \ baseline
            sets     == CandidateSets(available, seed)
<1>1. IsFiniteSet(siblings)
  BY FS_Subset
<1>2. sets = Plans(baseline, siblings)[Cardinality(siblings)]
  BY DEF CandidateSets
<1>3. Len(sets) \in Nat \ {0} /\ sets[1] = baseline
  BY <1>1, <1>2, PlansBeginWithTheSeed
<1>. HIDE DEF sets
<1>4. (0 % Len(sets)) + 1 = 1
  BY <1>3, SMT
<1>. QED
  BY <1>3, <1>4 DEF SetOfTrial, sets

\* A trace in every layer of which something is selected that may be
Selects(trace, selections) ==
  \A k \in DOMAIN trace : trace[k].selected \in selections[trace[k].available]

\* A walk selects as the selections say.
LEMMA WalksSelect ==
  ASSUME NEW view, view.nodes \subseteq Name,
         NEW selections \in [SUBSET Name -> SUBSET SUBSET Name],
         NEW trace \in Walks(view, selections)
  PROVE  trace \in Seq(LayerRecord) /\ Selects(trace, selections)
<1>. DEFINE Good  == {w \in Seq(LayerRecord) : Selects(w, selections)}
            A     == SUBSET Good
            On(X) == UNION {Extensions(view, w, selections) : w \in X}
            next  == [x \in (1..Depth) \X A |-> On(x[2])]
            Is(u) == u = [k \in 0..Depth |-> IF k = 0 THEN {<<>>} ELSE On(u[k - 1])]
            first == {<<>>}
<1>1. Depth \in Nat
  BY RecordsAssumption
<1>2. first \in A
  BY DEF Selects
<1>3. ASSUME NEW w \in Good PROVE Extensions(view, w, selections) \subseteq Good
  <2>. DEFINE produced == UNION {w[i].ok : i \in DOMAIN w}
              previous == IF w = <<>> THEN {} ELSE Latest(w).selected
              offered  == Available(view, Len(w) + 1, previous, produced)
  <2>1. offered \in SUBSET Name
    BY DEF Available, InLayer
  <2>. DEFINE longer(chosen, ok) ==
                Append(w, [available |-> offered, selected |-> chosen, ok |-> ok])
  <2>. HIDE DEF offered, produced, previous
  <2>2. ASSUME NEW chosen \in selections[offered], NEW ok \in SUBSET chosen
        PROVE  longer(chosen, ok) \in Good
    <3>. DEFINE record == [available |-> offered, selected |-> chosen, ok |-> ok]
    <3>1. record \in LayerRecord /\ record.selected \in selections[record.available]
      BY <2>1, <2>2 DEF LayerRecord
    <3>. HIDE DEF record
    <3>2. w \in Seq(LayerRecord) /\ Append(w, record) \in Seq(LayerRecord)
      BY <3>1
    <3>3. \A k \in DOMAIN Append(w, record) :
            Append(w, record)[k].selected \in selections[Append(w, record)[k].available]
      <4>. TAKE k \in DOMAIN Append(w, record)
      <4>1. DOMAIN Append(w, record) = 1..(Len(w) + 1) /\ DOMAIN w = 1..Len(w) /\ Len(w) \in Nat
        BY <3>1, <3>2
      <4>2. CASE k = Len(w) + 1
        <5>1. Append(w, record)[k] = record
          BY <3>1, <3>2, <4>2
        <5>. QED
          BY <3>1, <5>1
      <4>3. CASE k # Len(w) + 1
        <5>1. k \in DOMAIN w /\ Append(w, record)[k] = w[k]
          BY <3>1, <3>2, <4>1, <4>3
        <5>. QED
          BY <5>1 DEF Selects
      <4>. QED
        BY <4>2, <4>3
    <3>4. Append(w, record) \in Good
      BY <3>2, <3>3 DEF Selects
    <3>. QED
      BY <3>4 DEF record
  <2>3. Extensions(view, w, selections) =
          IF Stopped(w) THEN {w}
          ELSE UNION {{longer(chosen, ok) : ok \in SUBSET chosen} : chosen \in selections[offered]}
    BY DEF Extensions, offered, produced, previous
  <2>. HIDE DEF longer, Good
  <2>4. CASE Stopped(w)
    BY <1>3, <2>3, <2>4
  <2>5. CASE ~Stopped(w)
    BY <2>2, <2>3, <2>5
  <2>. QED
    BY <2>4, <2>5
<1>4. \A X \in A : On(X) \in A
  BY <1>3
<1>. HIDE DEF Good, On, A
<1>5. \A k \in 1..Depth, X \in A : next[<<k, X>>] = On(X)
  OBVIOUS
<1>6. PICK f \in [0..Depth -> A] : GoesOn(f, first, Depth, next)
  <2>1. Closed(A, Depth, next)
    BY <1>4, <1>5 DEF Closed
  <2>. HIDE DEF next, first
  <2>. QED
    BY <1>1, <1>2, <2>1, RecursionExists
<1>. HIDE DEF next
<1>7. Is(f)
  <2>. DEFINE F(k) == IF k = 0 THEN {<<>>} ELSE On(f[k - 1])
  <2>1. \A k \in 1..Depth : f[k] = On(f[k - 1])
    <3>. TAKE k \in 1..Depth
    <3>1. k - 1 \in 0..Depth
      BY <1>1
    <3>2. f[k - 1] \in A
      BY <3>1
    <3>. QED
      BY <1>5, <1>6, <3>2 DEF GoesOn
  <2>2. f[0] = F(0) /\ \A k \in 1..Depth : k # 0 /\ f[k] = F(k)
    BY <1>1, <1>6, <2>1 DEF GoesOn
  <2>. HIDE DEF F
  <2>3. \A k \in 0..Depth : f[k] = F(k)
    BY <1>1, <2>2
  <2>4. f = [k \in 0..Depth |-> F(k)]
    BY <2>3
  <2>. QED
    BY <2>4 DEF F
<1>. DEFINE upTo == CHOOSE u : Is(u)
<1>8. Is(upTo)
  BY <1>7
<1>9. Walks(view, selections) = upTo[Depth]
  BY DEF Walks, On
<1>. HIDE DEF upTo
<1>10. upTo[0] \in A /\ \A k \in 1..Depth : upTo[k - 1] \in A => upTo[k] \in A
  <2>1. upTo[0] = first
    BY <1>1, <1>8
  <2>2. \A k \in 1..Depth : upTo[k] = On(upTo[k - 1])
    <3>. TAKE k \in 1..Depth
    <3>1. k \in 0..Depth /\ k # 0
      BY <1>1
    <3>. QED
      BY <1>8, <3>1
  <2>. HIDE DEF Is, first
  <2>. QED
    BY <1>2, <1>4, <2>1, <2>2
<1>11. \A k \in 0..Depth : upTo[k] \in A
  BY <1>1, <1>10, PassedOn
<1>12. Walks(view, selections) \in A
  BY <1>1, <1>9, <1>11
<1>. QED
  BY <1>12 DEF A, Good

\* A probe that has not observed its edge could not have walked it.
LEMMA IdleProbesAreBlocked ==
  ASSUME NEW e \in Declared.edges, NEW seed,
         NEW trials \in ProbeTrials(DirectedSeed(seed, e)),
         ProbeVerdict(trials, e) = "not_observed"
  PROVE  \E end \in {e[1], e[2]} :
           LayerOf[end] > Len(trials[1]) \/ end \notin trials[1][LayerOf[end]].available
<1>. DEFINE both       == DirectedSeed(seed, e)
            selections == [offered \in SUBSET Name |-> {SetOfTrial(offered, both, 0)}]
<1>1. e[1] \in both /\ e[2] \in both
  BY DEF DirectedSeed
<1>2. Declared.nodes \subseteq Name /\ e[1] \in Name /\ e[2] \in Name
  BY PruningAssumption
<1>3. trials[1] \in Walks(Declared, selections) /\ 1 \in DOMAIN trials
  <2>. DEFINE W0 == Walks(Declared, selections)
              W1 == Walks(Declared, [offered \in SUBSET Name |-> {SetOfTrial(offered, both, 1)}])
  <2>1. ProbeTrials(both) = {<<first, second>> : first \in W0, second \in W1}
    BY DEF ProbeTrials
  <2>2. trials \in ProbeTrials(both)
    OBVIOUS
  <2>. HIDE DEF both, W0, W1
  <2>3. trials[1] \in W0 /\ 1 \in DOMAIN trials
    BY <2>1, <2>2
  <2>. QED
    BY <2>3 DEF W0
<1>. HIDE DEF both
<1>4. \A offered \in SUBSET Name : SetOfTrial(offered, both, 0) = both \cap offered
  <2>. TAKE offered \in SUBSET Name
  <2>1. IsFiniteSet(offered)
    BY RecordsAssumption, FS_Subset
  <2>. QED
    BY <2>1, TrialZeroRunsTheSeed
<1>5. selections \in [SUBSET Name -> SUBSET SUBSET Name]
  BY <1>4
<1>6. \A offered \in SUBSET Name : selections[offered] = {both \cap offered}
  BY <1>4
<1>. HIDE DEF selections
<1>. DEFINE trace == trials[1]
<1>7. trace \in Seq(LayerRecord) /\ Selects(trace, selections)
  BY <1>2, <1>3, <1>5, WalksSelect
<1>. HIDE DEF trace
<1>8. \A k \in 1..Len(trace) : trace[k].selected = both \cap trace[k].available
  <2>. TAKE k \in 1..Len(trace)
  <2>1. trace[k] \in LayerRecord /\ k \in DOMAIN trace
    BY <1>7, ElementOfSeq
  <2>2. trace[k].available \in SUBSET Name
    BY <2>1 DEF LayerRecord
  <2>. QED
    BY <1>6, <1>7, <2>1, <2>2 DEF Selects
<1>9. ~Observed(trace, e)
  BY <1>3 DEF ProbeVerdict, trace
<1>10. SUFFICES ASSUME \A end \in {e[1], e[2]} :
                         ~(LayerOf[end] > Len(trace)) /\ end \in trace[LayerOf[end]].available
                PROVE  FALSE
  BY DEF trace
<1>11. ASSUME NEW end \in {e[1], e[2]}
       PROVE  LayerOf[end] \in DOMAIN trace /\ end \in trace[LayerOf[end]].selected
  <2>1. LayerOf[end] \in 1..Depth /\ Depth \in Nat
    BY <1>2, RecordsAssumption
  <2>2. DOMAIN trace = 1..Len(trace) /\ Len(trace) \in Nat
    BY <1>7
  <2>3. LayerOf[end] \in 1..Len(trace)
    BY <1>10, <2>1, <2>2
  <2>. QED
    BY <1>1, <1>8, <1>10, <2>2, <2>3
<1>. QED
  BY <1>9, <1>11 DEF Observed

----------------------------------------------------------------------------
(* The inductive invariant *)

\* The rows are those of one run.
LinesFit == lines = None \/ OneRun(lines)

\* What is being written is the latest run; its file has none of the trials that
\* are still to be written and none of another run.
WriterFits ==
  \/ writer = None
  \/ /\ writer \in [run: {runs}, version: Version, todo: Seq(TrialResult),
                    at: {"manifest", "open", "traces"}]
     /\ runs \in 1..MaxRuns
     /\ \A i \in DOMAIN writer.todo :
          /\ WalksOn(writer.todo[i])
          /\ \A j \in DOMAIN writer.todo : i # j => writer.todo[i].trial # writer.todo[j].trial
     /\ writer.at = "traces" =>
          /\ OneRun(lines)
          /\ \A i \in DOMAIN lines :
               /\ lines[i].run = runs
               /\ \A j \in DOMAIN writer.todo : lines[i].result.trial # writer.todo[j].trial

FilesFit ==
  /\ manifest \in Version \cup {None, Torn}
  /\ cut \in BOOLEAN /\ (cut => lines # None)
  /\ runs \in 0..MaxRuns
  /\ LinesFit
  /\ WriterFits

\* The candidate is compared with a run of the declared topology.
BaseIsRun == work # None /\ work.at = "candidate" => work.before \in GateResults(Declared)

WorkFits ==
  /\ work = None \/ work.at \in {"proposed", "refused", "probed", "base", "candidate",
                                 "accept", "reject", "raised"}
  /\ BaseIsRun
  /\ ProposalIsBacked
  /\ IdleMeansBlocked
  /\ AcceptKeepsCoverage
  /\ AcceptKeepsSuccesses

IInv == FilesFit /\ WorkFits

files == <<manifest, lines, cut, writer, runs>>

----------------------------------------------------------------------------
(* Every action keeps it *)

LEMMA InitIsGood == Init => IInv
<1>1. Init => FilesFit
  <2>1. 0 \in 0..MaxRuns
    BY PruningAssumption
  <2>. QED
    BY <2>1 DEF Init, FilesFit, LinesFit, WriterFits
<1>2. Init => WorkFits
  BY DEF Init, WorkFits, BaseIsRun, ProposalIsBacked, IdleMeansBlocked, AcceptKeepsCoverage,
         AcceptKeepsSuccesses
<1>. QED
  BY <1>1, <1>2 DEF IInv

LEMMA FilesStay == ASSUME FilesFit, UNCHANGED files PROVE FilesFit'
  BY DEF FilesFit, LinesFit, WriterFits, OneRun, files

LEMMA WorkStays == ASSUME WorkFits, UNCHANGED work PROVE WorkFits'
  BY DEF WorkFits, BaseIsRun, ProposalIsBacked, IdleMeansBlocked, AcceptKeepsCoverage,
         AcceptKeepsSuccesses

LEMMA StartRunKeeps ==
  ASSUME FilesFit, NEW v \in Version, NEW results \in Batches[v], StartRun(v, results)
  PROVE  FilesFit'
<1>. DEFINE w == [run |-> runs + 1, version |-> v, todo |-> results, at |-> "manifest"]
<1>1. writer' = w /\ runs' = runs + 1 /\ UNCHANGED <<manifest, lines, cut>> /\ runs < MaxRuns
  BY DEF StartRun
<1>2. MaxRuns \in Nat /\ runs \in 0..MaxRuns
  BY PruningAssumption DEF FilesFit
<1>3. results \in Seq(TrialResult)
  BY PruningAssumption
<1>4. \A i \in DOMAIN results :
        /\ WalksOn(results[i])
        /\ \A j \in DOMAIN results : i # j => results[i].trial # results[j].trial
  BY PruningAssumption DEF WalksOn
<1>5. runs' \in 1..MaxRuns /\ runs' \in 0..MaxRuns
  BY <1>1, <1>2
<1>6. w \in [run: {runs'}, version: Version, todo: Seq(TrialResult), at: {"manifest", "open", "traces"}]
      /\ w.todo = results /\ w.at # "traces"
  BY <1>1, <1>3
<1>. HIDE DEF w
<1>7. WriterFits'
  BY <1>1, <1>4, <1>5, <1>6 DEF WriterFits
<1>8. LinesFit'
  BY <1>1 DEF FilesFit, LinesFit, OneRun
<1>. QED
  BY <1>1, <1>5, <1>7, <1>8 DEF FilesFit

LEMMA WriteManifestKeeps == ASSUME FilesFit, WriteManifest PROVE FilesFit'
<1>1. /\ writer # None /\ writer' = [writer EXCEPT !.at = "open"] /\ manifest' = writer.version
      /\ UNCHANGED <<lines, cut, runs>>
  BY DEF WriteManifest
<1>2. WriterFits /\ LinesFit
  BY DEF FilesFit
<1>3. writer.version \in Version
  BY <1>1, <1>2 DEF WriterFits
<1>4. WriterFits'
  BY <1>1, <1>2 DEF WriterFits
<1>5. LinesFit'
  BY <1>1, <1>2 DEF LinesFit, OneRun
<1>. QED
  BY <1>1, <1>3, <1>4, <1>5 DEF FilesFit

LEMMA OpenTracesKeeps == ASSUME FilesFit, OpenTraces PROVE FilesFit'
<1>1. /\ writer # None /\ writer' = [writer EXCEPT !.at = "traces"] /\ lines' = <<>> /\ cut' = FALSE
      /\ UNCHANGED <<manifest, runs>>
  BY DEF OpenTraces
<1>2. WriterFits
  BY DEF FilesFit
<1>3. OneRun(lines') /\ DOMAIN lines' = {}
  BY <1>1 DEF OneRun
<1>4. WriterFits'
  BY <1>1, <1>2, <1>3 DEF WriterFits
<1>5. LinesFit'
  BY <1>3 DEF LinesFit
<1>. QED
  BY <1>1, <1>4, <1>5 DEF FilesFit

LEMMA WriteTraceKeeps == ASSUME FilesFit, WriteTrace PROVE FilesFit'
<1>. DEFINE todo == writer.todo
            row  == [run |-> writer.run, version |-> writer.version, result |-> Head(todo)]
<1>1. /\ writer # None /\ writer.at = "traces" /\ todo # <<>>
      /\ lines' = Append(lines, row) /\ writer' = [writer EXCEPT !.todo = Tail(@)]
      /\ UNCHANGED <<manifest, cut, runs>>
  BY DEF WriteTrace
<1>2. WriterFits
  BY DEF FilesFit
<1>3. /\ writer \in [run: {runs}, version: Version, todo: Seq(TrialResult),
                     at: {"manifest", "open", "traces"}]
      /\ runs \in 1..MaxRuns
      /\ \A i \in DOMAIN todo :
           /\ WalksOn(todo[i])
           /\ \A j \in DOMAIN todo : i # j => todo[i].trial # todo[j].trial
      /\ OneRun(lines)
      /\ \A i \in DOMAIN lines :
           /\ lines[i].run = runs
           /\ \A j \in DOMAIN todo : lines[i].result.trial # todo[j].trial
  BY <1>1, <1>2 DEF WriterFits
<1>4. /\ todo \in Seq(TrialResult) /\ Len(todo) \in Nat \ {0} /\ DOMAIN todo = 1..Len(todo)
      /\ 1 \in DOMAIN todo /\ Head(todo) = todo[1]
  BY <1>1, <1>3
<1>5. todo[1] \in TrialResult
  BY <1>4, ElementOfSeq
<1>6. row \in Row /\ row.run = runs /\ row.result = todo[1]
  <2>1. runs \in Nat /\ writer.run = runs /\ writer.version \in Version
    BY <1>3, PruningAssumption
  <2>. QED
    BY <1>4, <1>5, <2>1 DEF Row
<1>7. /\ Tail(todo) \in Seq(TrialResult) /\ Len(Tail(todo)) = Len(todo) - 1
      /\ \A j \in DOMAIN Tail(todo) : j + 1 \in DOMAIN todo /\ j + 1 # 1 /\ Tail(todo)[j] = todo[j + 1]
  BY <1>4
<1>8. writer' \in [run: {runs}, version: Version, todo: Seq(TrialResult),
                   at: {"manifest", "open", "traces"}]
      /\ writer'.todo = Tail(todo)
  BY <1>1, <1>3, <1>7
<1>9. lines \in Seq(Row) /\ DOMAIN lines = 1..Len(lines) /\ Len(lines) \in Nat
  BY <1>3 DEF OneRun
<1>. HIDE DEF row, todo
<1>10. /\ lines' \in Seq(Row) /\ DOMAIN lines' = 1..(Len(lines) + 1)
       /\ \A i \in DOMAIN lines : lines'[i] = lines[i]
       /\ lines'[Len(lines) + 1] = row
  BY <1>1, <1>6, <1>9
<1>11. \A i \in DOMAIN lines' : i \in DOMAIN lines \/ i = Len(lines) + 1
  BY <1>9, <1>10
<1>12. Len(lines) + 1 \notin DOMAIN lines
  BY <1>9
<1>13. \A i \in DOMAIN lines' : lines'[i].run = runs /\ WalksOn(lines'[i].result)
  BY <1>3, <1>4, <1>6, <1>10, <1>11 DEF OneRun
<1>14. \A i, j \in DOMAIN lines' : i # j => lines'[i].result.trial # lines'[j].result.trial
  <2>1. \A i \in DOMAIN lines : lines[i].result.trial # todo[1].trial
    BY <1>3, <1>4
  <2>. QED
    BY <1>3, <1>6, <1>10, <1>11, <2>1 DEF OneRun
<1>15. OneRun(lines')
  BY <1>10, <1>13, <1>14 DEF OneRun
<1>16. \A i \in DOMAIN lines' : \A j \in DOMAIN Tail(todo) :
         lines'[i].result.trial # Tail(todo)[j].trial
  <2>. TAKE i \in DOMAIN lines'
  <2>. TAKE j \in DOMAIN Tail(todo)
  <2>1. j + 1 \in DOMAIN todo /\ Tail(todo)[j] = todo[j + 1] /\ 1 # j + 1
    BY <1>7
  <2>2. CASE i \in DOMAIN lines
    BY <1>3, <1>10, <2>1, <2>2
  <2>3. CASE i = Len(lines) + 1
    BY <1>3, <1>4, <1>6, <1>10, <2>1, <2>3
  <2>. QED
    BY <1>11, <2>2, <2>3
<1>17. \A i \in DOMAIN Tail(todo) :
         /\ WalksOn(Tail(todo)[i])
         /\ \A j \in DOMAIN Tail(todo) : i # j => Tail(todo)[i].trial # Tail(todo)[j].trial
  <2>. TAKE i \in DOMAIN Tail(todo)
  <2>1. i + 1 \in DOMAIN todo /\ Tail(todo)[i] = todo[i + 1]
    BY <1>7
  <2>2. ASSUME NEW j \in DOMAIN Tail(todo), i # j PROVE Tail(todo)[i].trial # Tail(todo)[j].trial
    <3>1. j + 1 \in DOMAIN todo /\ Tail(todo)[j] = todo[j + 1]
      BY <1>7
    <3>2. i \in Int /\ j \in Int /\ i + 1 # j + 1
      BY <1>7, <2>2
    <3>. QED
      BY <1>3, <2>1, <3>1, <3>2
  <2>. QED
    BY <1>3, <2>1, <2>2
<1>18. WriterFits'
  BY <1>1, <1>3, <1>8, <1>13, <1>15, <1>16, <1>17 DEF WriterFits
<1>19. LinesFit' /\ lines' # None
  BY <1>10, <1>15, PruningAssumption DEF LinesFit
<1>. QED
  BY <1>1, <1>18, <1>19 DEF FilesFit

LEMMA EndWriteKeeps == ASSUME FilesFit, EndWrite PROVE FilesFit'
  BY DEF FilesFit, EndWrite, WriterFits, LinesFit, OneRun

LEMMA CrashKeeps == ASSUME FilesFit, Crash PROVE FilesFit'
<1>1. writer' = None /\ UNCHANGED <<lines, runs>>
  BY DEF Crash
<1>2. manifest' = manifest \/ manifest' = Torn
  BY DEF Crash
<1>3. cut' = cut \/ (cut' = TRUE /\ lines # None)
  <2>1. cut' = cut \/ (writer # None /\ writer.at = "traces" /\ cut' = TRUE)
    BY DEF Crash
  <2>2. writer # None /\ writer.at = "traces" => lines \in Seq(Row)
    BY DEF FilesFit, WriterFits, OneRun
  <2>. QED
    BY <2>1, <2>2, PruningAssumption
<1>4. WriterFits' /\ LinesFit'
  BY <1>1 DEF FilesFit, WriterFits, LinesFit, OneRun
<1>5. manifest' \in Version \cup {None, Torn}
  BY <1>2 DEF FilesFit
<1>6. cut' \in BOOLEAN
  BY <1>3 DEF FilesFit
<1>7. cut' => lines' # None
  <2>1. cut => lines # None
    BY DEF FilesFit
  <2>2. lines # None => lines' # None
    BY <1>1
  <2>3. CASE cut' = cut
    BY <2>1, <2>2, <2>3
  <2>4. CASE cut' = TRUE /\ lines # None
    BY <2>2, <2>4
  <2>. QED
    BY <1>3, <2>3, <2>4
<1>8. runs' \in 0..MaxRuns
  BY <1>1 DEF FilesFit
<1>. QED
  BY <1>4, <1>5, <1>6, <1>7, <1>8 DEF FilesFit

\* An action that gives work a state of which nothing is to be shown
Settled(w) == w.at \in {"refused", "reject", "raised"}

LEMMA SettledFits == ASSUME Settled(work') PROVE WorkFits'
  BY DEF Settled, WorkFits, BaseIsRun, ProposalIsBacked, IdleMeansBlocked, AcceptKeepsCoverage,
         AcceptKeepsSuccesses

LEMMA AnalyseKeeps == ASSUME FilesFit, Analyse PROVE WorkFits'
<1>1. OneRun(lines)
  BY DEF Analyse, Loadable, FilesFit, LinesFit
<1>2. ProposalIsBacked'
  BY <1>1, ProposalsAreBacked DEF Analyse
<1>3. work'.at = "proposed"
  BY DEF Analyse, Proposal
<1>. QED
  BY <1>2, <1>3 DEF WorkFits, BaseIsRun, IdleMeansBlocked, AcceptKeepsCoverage, AcceptKeepsSuccesses

LEMMA RefuseAnalysisKeeps == ASSUME RefuseAnalysis PROVE WorkFits'
<1>1. Settled(work')
  BY DEF RefuseAnalysis, Settled
<1>. QED
  BY <1>1, SettledFits

LEMMA ProbeKeeps ==
  ASSUME NEW e \in Declared.edges, NEW s, Probe(e, s)
  PROVE  WorkFits'
<1>1. PICK seed \in Candidates(Declared, Expected[s]) :
        \E trials \in ProbeTrials(DirectedSeed(seed, e)) :
          work' = [at |-> "probed", edge |-> e, trials |-> trials, verdict |-> ProbeVerdict(trials, e)]
  BY DEF Probe
<1>2. PICK trials \in ProbeTrials(DirectedSeed(seed, e)) :
        work' = [at |-> "probed", edge |-> e, trials |-> trials, verdict |-> ProbeVerdict(trials, e)]
  BY <1>1
<1>3. /\ work'.at = "probed" /\ work'.edge = e /\ work'.trials = trials
      /\ work'.verdict = ProbeVerdict(trials, e)
  BY <1>2
<1>4. IdleMeansBlocked'
  BY <1>3, IdleProbesAreBlocked DEF IdleMeansBlocked
<1>. QED
  BY <1>3, <1>4 DEF WorkFits, BaseIsRun, ProposalIsBacked, AcceptKeepsCoverage, AcceptKeepsSuccesses

LEMMA StartValidationKeeps == ASSUME NEW patch, StartValidation(patch) PROVE WorkFits'
<1>. DEFINE cf == Counterfactual(Declared, patch, GateScenarios)
<1>1. work' = [at |-> IF FastGate(cf) THEN "base" ELSE "reject", patch |-> patch]
  BY DEF StartValidation
<1>2. FastGate(cf) => CoveredLost(cf) = {}
  BY FastGateKeepsCoverage
<1>3. work'.patch = patch /\ work'.at = IF FastGate(cf) THEN "base" ELSE "reject"
  BY <1>1
<1>4. CASE FastGate(cf)
  BY <1>2, <1>3, <1>4 DEF WorkFits, BaseIsRun, ProposalIsBacked, IdleMeansBlocked,
                          AcceptKeepsCoverage, AcceptKeepsSuccesses
<1>5. CASE ~FastGate(cf)
  <2>1. Settled(work')
    BY <1>3, <1>5 DEF Settled
  <2>. QED
    BY <2>1, SettledFits
<1>. QED
  BY <1>4, <1>5

LEMMA RunBaseKeeps == ASSUME WorkFits, RunBase PROVE WorkFits'
<1>1. PICK results \in GateResults(Declared) :
        work' = [at |-> "candidate", patch |-> work.patch, before |-> results]
  BY DEF RunBase
<1>2. work # None /\ work.at = "base"
  BY DEF RunBase
<1>3. CoveredLost(Counterfactual(Declared, work.patch, GateScenarios)) = {}
  BY <1>2 DEF WorkFits, AcceptKeepsCoverage
<1>4. work'.at = "candidate" /\ work'.patch = work.patch /\ work'.before \in GateResults(Declared)
  BY <1>1
<1>. QED
  BY <1>3, <1>4 DEF WorkFits, BaseIsRun, ProposalIsBacked, IdleMeansBlocked, AcceptKeepsCoverage,
                    AcceptKeepsSuccesses

LEMMA RunCandidateKeeps == ASSUME WorkFits, RunCandidate PROVE WorkFits'
<1>. DEFINE before == SlowReport(work.before)
<1>1. PICK results \in GateResults(ApplyPatch(Declared, work.patch)) :
        LET passed == SlowGate(before, SlowReport(results)) /\ DiversityGuard(work.before, results)
        IN  work' = [at |-> IF before.completed = 0 THEN "raised"
                            ELSE IF passed THEN "accept" ELSE "reject",
                     patch |-> work.patch, before |-> work.before, after |-> results]
  BY DEF RunCandidate
<1>. DEFINE passed == SlowGate(before, SlowReport(results)) /\ DiversityGuard(work.before, results)
<1>2. work # None /\ work.at = "candidate"
  BY DEF RunCandidate
<1>3. /\ CoveredLost(Counterfactual(Declared, work.patch, GateScenarios)) = {}
      /\ work.before \in GateResults(Declared)
  BY <1>2 DEF WorkFits, AcceptKeepsCoverage, BaseIsRun
<1>4. /\ work'.patch = work.patch /\ work'.before = work.before /\ work'.after = results
      /\ work'.at = IF before.completed = 0 THEN "raised" ELSE IF passed THEN "accept" ELSE "reject"
  BY <1>1
<1>. HIDE DEF passed, before
<1>5. CASE before.completed # 0 /\ passed
  <2>1. /\ 100 * before.successes <= 100 * SlowReport(results).successes + SlowReport(results).completed
        /\ SlowReport(results).successes > 0
    BY <1>3, <1>5, GatesKeepSuccesses DEF passed, before
  <2>2. work'.at = "accept"
    BY <1>4, <1>5
  <2>3. AcceptKeepsSuccesses'
    BY <1>4, <2>1 DEF AcceptKeepsSuccesses, before
  <2>4. AcceptKeepsCoverage'
    BY <1>3, <1>4 DEF AcceptKeepsCoverage
  <2>. QED
    BY <2>2, <2>3, <2>4 DEF WorkFits, BaseIsRun, ProposalIsBacked, IdleMeansBlocked
<1>6. CASE ~(before.completed # 0 /\ passed)
  <2>1. Settled(work')
    BY <1>4, <1>6 DEF Settled
  <2>. QED
    BY <2>1, SettledFits
<1>. QED
  BY <1>5, <1>6

LEMMA StepKeeps == IInv /\ [Next]_vars => IInv'
<1>. SUFFICES ASSUME IInv, [Next]_vars PROVE IInv'
  OBVIOUS
<1>1. FilesFit /\ WorkFits
  BY DEF IInv
<1>2. ASSUME FilesFit', UNCHANGED work PROVE IInv'
  BY <1>1, <1>2, WorkStays DEF IInv
<1>3. ASSUME WorkFits', UNCHANGED files PROVE IInv'
  BY <1>1, <1>3, FilesStay DEF IInv
<1>4. ASSUME NEW v \in Version, NEW results \in Batches[v], StartRun(v, results) PROVE IInv'
  BY <1>1, <1>2, <1>4, StartRunKeeps DEF StartRun
<1>5. CASE WriteManifest
  BY <1>1, <1>2, <1>5, WriteManifestKeeps DEF WriteManifest
<1>6. CASE OpenTraces
  BY <1>1, <1>2, <1>6, OpenTracesKeeps DEF OpenTraces
<1>7. CASE WriteTrace
  BY <1>1, <1>2, <1>7, WriteTraceKeeps DEF WriteTrace
<1>8. CASE EndWrite
  BY <1>1, <1>2, <1>8, EndWriteKeeps DEF EndWrite
<1>9. CASE Crash
  BY <1>1, <1>2, <1>9, CrashKeeps DEF Crash
<1>10. CASE Analyse
  BY <1>1, <1>3, <1>10, AnalyseKeeps DEF Analyse, files
<1>11. CASE RefuseAnalysis
  BY <1>1, <1>3, <1>11, RefuseAnalysisKeeps DEF RefuseAnalysis, files
<1>12. ASSUME NEW e \in Declared.edges, NEW s \in InBucket("optimization"), Probe(e, s) PROVE IInv'
  BY <1>1, <1>3, <1>12, ProbeKeeps DEF Probe, files
<1>13. ASSUME NEW p \in Patches, StartValidation(p) PROVE IInv'
  BY <1>1, <1>3, <1>13, StartValidationKeeps DEF StartValidation, files
<1>14. CASE RunBase
  BY <1>1, <1>3, <1>14, RunBaseKeeps DEF RunBase, files
<1>15. CASE RunCandidate
  BY <1>1, <1>3, <1>15, RunCandidateKeeps DEF RunCandidate, files
<1>16. CASE UNCHANGED vars
  <2>1. UNCHANGED files /\ UNCHANGED work
    BY <1>16 DEF vars, files
  <2>2. FilesFit'
    BY <1>1, <2>1, FilesStay
  <2>. QED
    BY <1>2, <2>1, <2>2
<1>. QED
  BY <1>4, <1>5, <1>6, <1>7, <1>8, <1>9, <1>10, <1>11, <1>12, <1>13, <1>14, <1>15, <1>16 DEF Next

----------------------------------------------------------------------------
(* What follows *)

\* The invariant is inductive, for any topology, suite, results and patches,
\* however runs are interrupted.
THEOREM PipelineIsGood == Spec => []IInv
<1>. QED
  BY InitIsGood, StepKeeps, PTL DEF Spec

\* The files hold what the writer puts there, and work is one of its states.
THEOREM PipelineIsTyped == Spec => []TypeOK
<1>1. IInv => TypeOK
  <2>. SUFFICES ASSUME IInv PROVE TypeOK
    OBVIOUS
  <2>1. FilesFit /\ WorkFits
    BY DEF IInv
  <2>2. lines = None \/ lines \in Seq(Row)
    BY <2>1 DEF FilesFit, LinesFit, OneRun
  <2>3. writer = None \/ (writer.run \in 1..runs /\ writer.at \in {"manifest", "open", "traces"})
    <3>1. CASE writer # None
      <4>1. writer.run = runs /\ writer.at \in {"manifest", "open", "traces"} /\ runs \in 1..MaxRuns
        BY <2>1, <3>1 DEF FilesFit, WriterFits
      <4>2. runs \in 1..runs
        BY <4>1, PruningAssumption
      <4>. QED
        BY <4>1, <4>2
    <3>. QED
      BY <3>1
  <2>. QED
    BY <2>1, <2>2, <2>3 DEF TypeOK, FilesFit, WorkFits
<1>. QED
  BY <1>1, PipelineIsGood, PTL

\* What analyze does not refuse are trials of one run and of the version that the
\* manifest names, no trial twice, in whatever order runs were written and
\* interrupted.
THEOREM EvidenceIsOneRunAlways == Spec => []EvidenceIsOneRun
<1>1. IInv => EvidenceIsOneRun
  BY DEF IInv, FilesFit, LinesFit, OneRun, EvidenceIsOneRun, Loadable
<1>. QED
  BY <1>1, PipelineIsGood, PTL

\* What is proposed for removal is backed by the trials as they ran, although the
\* disk form has less of them.
THEOREM ProposalIsBackedAlways == Spec => []ProposalIsBacked
<1>1. IInv => ProposalIsBacked
  BY DEF IInv, WorkFits
<1>. QED
  BY <1>1, PipelineIsGood, PTL

\* A probe says "not observed" only of an edge that could not be walked.
THEOREM IdleMeansBlockedAlways == Spec => []IdleMeansBlocked
<1>1. IInv => IdleMeansBlocked
  BY DEF IInv, WorkFits
<1>. QED
  BY <1>1, PipelineIsGood, PTL

\* An accepted patch leaves every scenario of the gate covered that was, and keeps
\* successes up to one percent of what completes.
THEOREM AcceptLosesNothingAlways == Spec => []AcceptLosesNothing
<1>1. IInv => AcceptLosesNothing
  BY DEF IInv, WorkFits, AcceptLosesNothing
<1>. QED
  BY <1>1, PipelineIsGood, PTL


=============================================================================
