----------------------------- MODULE FastReport -----------------------------
(***************************************************************************)
(* Fast regression of a suite: what FastRegressionRunner reports of every  *)
(* scenario on a view of the topology, and the comparisons made of two     *)
(* such reports: the counterfactual of a patch, and the diff against a     *)
(* baseline.                                                               *)
(*                                                                         *)
(* A route is the set of its tools (RouteSearch: a tool is in one layer).  *)
(* RouteSearch shows that the analyser finds a route if there is one, and  *)
(* that what it keeps, when nothing cuts it short, are the routes none of  *)
(* which contains another: this module starts from there.                  *)
(***************************************************************************)
EXTENDS Topology

CONSTANTS
  LayerOf,      \* [Name -> layer number]
  Provides,     \* [Name -> SUBSET Capability]
  Expected,     \* [scenario -> SUBSET Capability]; {} is a query-only scenario
  Category,     \* [scenario -> its category], "uncategorized" when it has none
  None

----------------------------------------------------------------------------
(* Coverage of one scenario *)

Capabilities(tools) == UNION {Provides[t] : t \in tools}

InLayer(tools, k) == {t \in tools : LayerOf[t] = k}

\* What RoutePlan.from_groups demands of a route.
IsRoute(view, tools) ==
  LET used == {LayerOf[t] : t \in tools} IN
  /\ tools # {}
  /\ \A i, j \in used : \A k \in i..j : k \in used
  /\ \A t \in tools :
       /\ LayerOf[t] + 1 \in used =>
            \E s \in InLayer(tools, LayerOf[t] + 1) : <<t, s>> \in view.edges
       /\ LayerOf[t] - 1 \in used =>
            \E s \in InLayer(tools, LayerOf[t] - 1) : <<s, t>> \in view.edges

Solutions(view, required) ==
  {tools \in SUBSET view.nodes : required \subseteq Capabilities(tools) /\ IsRoute(view, tools)}

\* candidate_routes
Candidates(view, required) ==
  LET all == Solutions(view, required)
  IN  {r \in all : \A s \in all : s \subseteq r => s = r}

Outcome(status, reason, required, missing, routes) ==
  [status |-> status, reason |-> reason, required |-> required, missing |-> missing,
   routes |-> routes]

\* CoverageAnalyzer.analyze; which of the capabilities a disconnected scenario is
\* said to miss is left out.
Analysed(view, required, confident) ==
  LET missing == required \ Capabilities(view.nodes)
      routes  == Candidates(view, required)
  IN  IF missing # {} THEN Outcome("uncovered", "missing_capability", required, missing, {})
      ELSE IF routes = {}
      THEN Outcome("uncovered", "topology_disconnected", required, {}, {})
      ELSE IF ~confident
      THEN Outcome("uncertain", "low_resolution_confidence", required, {}, routes)
      ELSE Outcome("covered", None, required, {}, routes)

\* What a resolver may say of a query: the capabilities it requires, those it
\* needs and nobody declares, and whether the confidence reaches the threshold.
Resolution == [required: SUBSET Capability, hints: SUBSET Capability, confident: BOOLEAN]

\* FastRegressionRunner._analyze_scenario; a runner without a resolver has none
\* for any scenario.
AnalyseScenario(view, s, resolution) ==
  IF Expected[s] # {} THEN Analysed(view, Expected[s], TRUE)
  ELSE IF resolution = None THEN Outcome("uncertain", "invalid_scenario", {}, {}, {})
  ELSE IF resolution.hints # {}
  THEN Outcome("uncovered", "missing_capability", resolution.required \cup resolution.hints,
               resolution.hints, {})
  ELSE IF resolution.required = {}
  THEN Outcome("uncertain", "ambiguous_capability", {}, {}, {})
  ELSE Analysed(view, resolution.required, resolution.confident)

\* FastRegressionRunner.run, the results by scenario
Report(view, scenarios, resolver) ==
  [s \in scenarios |-> AnalyseScenario(view, s, resolver[s])]

NoResolver == [s \in DOMAIN Expected |-> None]

WithStatus(report, status) == {s \in DOMAIN report : report[s].status = status}

\* _category_coverage, as the scenarios counted
CategoryCoverage(report) ==
  [c \in {Category[s] : s \in DOMAIN report} |->
     {s \in WithStatus(report, "covered") : Category[s] = c}]

\* _gap_entries: the scenarios that miss a capability
Gaps(report) ==
  LET missed == {s \in DOMAIN report : report[s].reason = "missing_capability"}
      What(s) == IF report[s].missing = {} THEN report[s].required ELSE report[s].missing
  IN  [c \in UNION {What(s) : s \in missed} |-> {s \in missed : c \in What(s)}]

\* _topology_gap_entries
TopologyGaps(report) ==
  LET cut == {s \in DOMAIN report : report[s].reason = "topology_disconnected"}
  IN  [r \in {report[s].required : s \in cut} |-> {s \in cut : report[s].required = r}]

----------------------------------------------------------------------------
(* The counterfactual *)

Severity(status) == CASE status = "covered" -> 0 [] status = "uncertain" -> 1
                      [] status = "uncovered" -> 2

\* CounterfactualRunner.run: the suite on the view and on the patched view
Counterfactual(view, patch, scenarios) ==
  [before |-> Report(view, scenarios, NoResolver),
   after  |-> Report(ApplyPatch(view, patch), scenarios, NoResolver)]

Regressed(cf) ==
  {s \in DOMAIN cf.before : Severity(cf.after[s].status) > Severity(cf.before[s].status)}

CoveredLost(cf) == WithStatus(cf.before, "covered") \ WithStatus(cf.after, "covered")

CounterfactualVerdict(cf) ==
  IF CoveredLost(cf) # {} THEN "coverage_drop"
  ELSE IF Regressed(cf) = {} THEN "pass" ELSE "no_impact"

=============================================================================
