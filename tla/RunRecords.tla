----------------------------- MODULE RunRecords -----------------------------
(***************************************************************************)
(* What slow regression leaves behind, and what is made of it: the results *)
(* of trials with their traces, the form in which a run directory keeps    *)
(* them, the observation statistics and the evidence on edges and nodes.   *)
(*                                                                         *)
(* SlowRegression is the runner itself; here a trial is one of the walks   *)
(* that it may take.  A tool is in one layer and a walk visits a layer     *)
(* once, so counting occurrences is counting trials.                       *)
(***************************************************************************)
EXTENDS FastReport, Sequences, Expansion

CONSTANTS
  Depth,        \* the number of layers
  Needs         \* [Name -> for each type it consumes, the tools that leave one]

ASSUME RecordsAssumption ==
  /\ Depth \in Nat \ {0} /\ MaxTools \in Nat \ {0}
  /\ Name \subseteq Nat /\ IsFiniteSet(Name)
  /\ LayerOf \in [Name -> 1..Depth]
  /\ Provides \in [Name -> SUBSET Capability]
  /\ Needs \in [Name -> SUBSET SUBSET Name]

----------------------------------------------------------------------------
(* Trials *)

\* LayerExecution, with the tools that succeeded
LayerRecord == [available: SUBSET Name, selected: SUBSET Name, ok: SUBSET Name]

\* TopologyFilter.available_tools: something of every consumed type is there.
Available(view, k, previous, produced) ==
  {t \in InLayer(view.nodes, k) :
     /\ \A makers \in Needs[t] : makers \cap produced # {}
     /\ previous = {} \/ \E s \in previous : <<s, t>> \in view.edges}

Latest(trace) == trace[Len(trace)]

\* A trace that goes no further: nothing was selected, or all of it failed.
Stopped(trace) == trace # <<>> /\ Latest(trace).ok = {}

Extensions(view, trace, selections) ==
  LET produced == UNION {trace[i].ok : i \in DOMAIN trace}
      previous == IF trace = <<>> THEN {} ELSE Latest(trace).selected
      offered  == Available(view, Len(trace) + 1, previous, produced)
  IN  IF Stopped(trace) THEN {trace}
      ELSE UNION {{Append(trace, [available |-> offered, selected |-> chosen, ok |-> ok]) :
                     ok \in SUBSET chosen} : chosen \in selections[offered]}

\* The traces of a trial that selects, of the tools offered, as selections says.
Walks(view, selections) ==
  LET upTo[k \in 0..Depth] ==
        IF k = 0 THEN {<<>>}
        ELSE UNION {Extensions(view, trace, selections) : trace \in upTo[k - 1]}
  IN  upTo[Depth]

\* A router or a seed may select any of the tools, or none.
AnySelection ==
  [offered \in SUBSET Name |-> {chosen \in SUBSET offered : Cardinality(chosen) <= MaxTools}]

\* Without them the first ones are: sorted(available)[:max_tools].
FirstSelection == [offered \in SUBSET Name |-> {FirstOf(offered, MaxTools)}]

\* COMPLETED is a walk to the end, or up to a layer where nothing was selected.
StatusOf(trace) ==
  IF trace # <<>> /\ Latest(trace).selected # {} /\ Latest(trace).ok = {}
  THEN "layer_error" ELSE "completed"

\* extract_observed_route; {} where nothing was executed
RouteOf(trace) == UNION {trace[i].selected : i \in DOMAIN trace}

\* TrialResult: who, how it ended, its trace and route, and the evaluator's verdict.
Result(trial, trace, verdict) ==
  [trial |-> trial, status |-> StatusOf(trace), trace |-> trace, route |-> RouteOf(trace),
   verdict |-> verdict]

\* The evaluator is asked about completed trials only.
Verdicts(trace) == IF StatusOf(trace) = "completed" THEN {"success", "failure"} ELSE {None}

----------------------------------------------------------------------------
(* The disk form *)

\* The layers in which something was selected, in their order
Kept(trace) ==
  LET some == {i \in DOMAIN trace : trace[i].selected # {}}
  IN  [k \in 1..Cardinality(some) |-> trace[Nth(some, k)]]

\* Faulty form: a layer is rebuilt with the tools that succeeded.
RebuiltFromSuccesses(result) ==
  LET kept == Kept(result.trace)
  IN  [result EXCEPT !.trace = [i \in DOMAIN kept |-> [kept[i] EXCEPT !.selected = kept[i].ok]]]

\* _result_from_payload and _rebuild_layers: the layers where nothing was
\* selected are left out, and what succeeded is not kept.
Rebuilt(result) ==
  LET kept == Kept(result.trace)
  IN  [result EXCEPT !.trace = [i \in DOMAIN kept |-> [kept[i] EXCEPT !.ok = {}]]]

----------------------------------------------------------------------------
(* build_observation_stats, over a set of results *)

\* _walked_edges
Walked(trace, e) ==
  \E i \in 1..(Len(trace) - 1) : e[1] \in trace[i].selected /\ e[2] \in trace[i + 1].selected

Offered(trace, e) ==
  \E i \in 1..(Len(trace) - 1) : e[1] \in trace[i].selected /\ e[2] \in trace[i + 1].available

NodeStats(results, t) ==
  LET used == {r \in results : \E i \in DOMAIN r.trace : t \in r.trace[i].selected}
  IN  [selected    |-> Cardinality(used),
       successes   |-> Cardinality({r \in used : r.status = "completed"}),
       failures    |-> Cardinality({r \in used : r.status # "completed"}),
       opportunity |-> Cardinality({r \in results :
                         \E i \in DOMAIN r.trace : t \in r.trace[i].available})]

EdgeStats(results, e) ==
  LET used == {r \in results : Walked(r.trace, e)}
  IN  [observed    |-> Cardinality(used),
       successes   |-> Cardinality({r \in used : r.status = "completed"}),
       failures    |-> Cardinality({r \in used : r.status # "completed"}),
       opportunity |-> Cardinality({r \in results : Offered(r.trace, e)})]

RouteStats(results) ==
  LET On(route) == {r \in results : r.route = route}
  IN  [route \in {r.route : r \in results} \ {{}} |->
         [usage     |-> Cardinality(On(route)),
          completed |-> Cardinality({r \in On(route) : r.status = "completed"}),
          successes |-> Cardinality({r \in On(route) : r.verdict = "success"}),
          failures  |-> Cardinality({r \in On(route) : r.verdict = "failure"})]]

\* EvidenceAggregator.build: the statistics with the support of business
\* successes, and whether the edge is protected.
EdgeEvidence(results, protected, e) ==
  LET stats == EdgeStats(results, e)
      used  == {r \in results : Walked(r.trace, e)}
  IN  [opportunity |-> stats.opportunity, observed |-> stats.observed,
       support     |-> Cardinality({r \in used : r.verdict = "success"}),
       scenarios   |-> Cardinality({r.trial[1] : r \in used}),
       protected   |-> e \in protected]

----------------------------------------------------------------------------
(* build_slow_regression_report *)

SlowReport(results) ==
  LET Having(status) == Cardinality({r \in results : r.status = status})
      successes == Cardinality({r \in results : r.status = "completed" /\ r.verdict = "success"})
  IN  [trials    |-> Cardinality(results),
       completed |-> Having("completed"),
       errors    |-> Having("routing_error") + Having("layer_error") + Having("fixture_error"),
       successes |-> successes,
       failures  |-> Having("completed") - successes]

=============================================================================
