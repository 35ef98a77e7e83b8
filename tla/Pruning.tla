------------------------------ MODULE Pruning ------------------------------
(***************************************************************************)
(* The optimize pipeline up to its verdict.  A slow run writes a run       *)
(* directory, file after file and line after line, and may be interrupted  *)
(* anywhere; "analyze" reads whatever is there, at any time, and proposes  *)
(* a patch; a probe walks a proposed edge; "validate" puts a patch through *)
(* the fast gate, a slow run of the declared and of the patched topology,  *)
(* the slow gate and the diversity guard.  What happens to an accepted     *)
(* patch is in VersionStore.                                               *)
(***************************************************************************)
EXTENDS RunRecords

CONSTANTS
  Declared,     \* the view of the declared topology
  BucketOf,     \* [scenario -> "optimization" | "validation" | "sentinel"], by hash
  Flagged,      \* the scenarios with metadata.sentinel
  MinOpportunities, MinAvailability, MaxBatch,   \* PruningConfig
  GateTrials,   \* trials per scenario of a validation
  Version,      \* names of topology versions, as slow runs are told them
  Batches,      \* [Version -> the sequences of results a slow run of it may have]
  Patches,      \* the patches validate is given
  MaxRuns,      \* bound: slow runs
  Torn

\* The results of trials, and the rows that keep them.
TrialResult == [trial: (DOMAIN Expected) \X Nat, status: {"completed", "layer_error"},
                trace: Seq(LayerRecord), route: SUBSET Name, verdict: {"success", "failure", None}]

Row == [run: Nat, version: Version, result: TrialResult]

\* A run makes every trial once, and a trial goes no further than a layer where
\* nothing is selected.
ASSUME PruningAssumption ==
  /\ BucketOf \in [DOMAIN Expected -> {"optimization", "validation", "sentinel"}]
  /\ IsFiniteSet(DOMAIN Expected)
  /\ \E s \in DOMAIN Expected : BucketOf[s] = "optimization"
  /\ Flagged \subseteq DOMAIN Expected
  /\ Declared.nodes \subseteq Name
  /\ Declared.edges # {} /\ Declared.edges \subseteq Declared.nodes \X Declared.nodes
  /\ {MinOpportunities, MinAvailability, MaxBatch, GateTrials} \subseteq Nat \ {0}
  /\ MaxRuns \in Nat
  /\ Batches \in [Version -> SUBSET Seq(TrialResult)]
  /\ \A v \in Version : \A batch \in Batches[v] : \A i \in DOMAIN batch :
       /\ \A j \in DOMAIN batch : i # j => batch[i].trial # batch[j].trial
       /\ \A k \in 1..(Len(batch[i].trace) - 1) : batch[i].trace[k].selected # {}
  /\ None \notin Seq(Row) \cup {"success", "failure"}

VARIABLES
  manifest,     \* manifest.json: None, Torn or the version it names
  lines,        \* traces.jsonl: None or its rows; [run, version, result]
  cut,          \* it ends in half a line
  writer,       \* the run being written: None or [run, version, todo, at]
  runs,         \* slow runs so far
  work          \* what optimize has come to: None, a proposal, a validation

vars == <<manifest, lines, cut, writer, runs, work>>

InBucket(bucket) == {s \in DOMAIN Expected : BucketOf[s] = bucket}

----------------------------------------------------------------------------
(* SlowRegressionWriter *)

\* Faulty form: runs are not told apart.
StartRunUncounted(version, results) ==
  /\ writer = None /\ runs < MaxRuns /\ work = None
  /\ writer' = [run |-> runs + 1, version |-> version, todo |-> results, at |-> "manifest"]
  /\ UNCHANGED <<manifest, lines, cut, runs, work>>

\* Bound: no run begins after an analysis, which would not see it.
StartRun(version, results) ==
  /\ writer = None /\ runs < MaxRuns /\ work = None
  /\ writer' = [run |-> runs + 1, version |-> version, todo |-> results, at |-> "manifest"]
  /\ runs' = runs + 1
  /\ UNCHANGED <<manifest, lines, cut, work>>

WriteManifest ==
  /\ writer # None /\ writer.at = "manifest"
  /\ manifest' = writer.version
  /\ writer' = [writer EXCEPT !.at = "open"]
  /\ UNCHANGED <<lines, cut, runs, work>>

\* Faulty form: the file is opened for appending.
OpenTracesToAppend ==
  /\ writer # None /\ writer.at = "open"
  /\ lines' = IF lines = None THEN <<>> ELSE lines
  /\ cut' = FALSE
  /\ writer' = [writer EXCEPT !.at = "traces"]
  /\ UNCHANGED <<manifest, runs, work>>

\* open("w") empties the file.
OpenTraces ==
  /\ writer # None /\ writer.at = "open"
  /\ lines' = <<>>
  /\ cut' = FALSE
  /\ writer' = [writer EXCEPT !.at = "traces"]
  /\ UNCHANGED <<manifest, runs, work>>

WriteTrace ==
  /\ writer # None /\ writer.at = "traces" /\ writer.todo # <<>>
  /\ lines' = Append(lines, [run |-> writer.run, version |-> writer.version,
                             result |-> Head(writer.todo)])
  /\ writer' = [writer EXCEPT !.todo = Tail(@)]
  /\ UNCHANGED <<manifest, cut, runs, work>>

EndWrite ==
  /\ writer # None /\ writer.at = "traces" /\ writer.todo = <<>>
  /\ writer' = None
  /\ UNCHANGED <<manifest, lines, cut, runs, work>>

\* The process ends; what it was writing may be there in part.
Crash ==
  /\ writer # None
  /\ writer' = None
  /\ \/ UNCHANGED <<manifest, cut>>
     \/ writer.at = "manifest" /\ manifest' = Torn /\ UNCHANGED cut
     \/ writer.at = "traces" /\ writer.todo # <<>> /\ cut' = TRUE /\ UNCHANGED manifest
  /\ UNCHANGED <<lines, runs, work>>

----------------------------------------------------------------------------
(* analyze *)

\* _load_manifest, trial_results_from_dir, _check_versions.  The number of
\* trials, which the manifest has too, is not compared.
Loadable ==
  /\ manifest \in Version
  /\ lines # None /\ lines # <<>> /\ ~cut
  /\ \A i \in DOMAIN lines : lines[i].version = manifest

UniqueProviders(view) ==
  UNION {IF Cardinality(P) = 1 THEN P ELSE {} :
           P \in {{t \in view.nodes : c \in Provides[t]} : c \in Capability}}

Reachable(view, n) ==
  LET upTo[k \in 0..Depth] ==
        IF k = 0 THEN {n} ELSE upTo[k - 1] \cup UNION {Successors(view, t) : t \in upTo[k - 1]}
  IN  upTo[Depth] \ {n}

BridgeNodes(view) ==
  {n \in view.nodes :
     LET without == ApplyPatch(view, [edges |-> {}, nodes |-> {n}]) IN
     \E s \in without.nodes : Reachable(view, s) \ {n} # Reachable(without, s)}

\* ProtectionRegistry
ProtectedNodes == UniqueProviders(Declared) \cup BridgeNodes(Declared)

ProtectedEdges ==
  LET required == UNION {Expected[s] : s \in Flagged}
      critical == {t \in UniqueProviders(Declared) : Provides[t] \cap required # {}}
  IN  {e \in Declared.edges : e[1] \in critical \/ e[2] \in critical}

\* _classify_edge; the usage rate is 0 where there was no opportunity.
EdgeStatus(evidence) ==
  LET low == evidence.observed * 100 <= evidence.opportunity IN
  CASE evidence.protected -> "protected"
    [] ~evidence.protected /\ ~low -> "none"
    [] ~evidence.protected /\ low /\ evidence.opportunity < MinOpportunities -> "insufficient_evidence"
    [] ~evidence.protected /\ low /\ evidence.opportunity >= MinOpportunities -> "identified"

\* detect, the nodes that are proposed
IdleNodes(results) ==
  {t \in Declared.nodes \ ProtectedNodes :
     LET stats == NodeStats(results, t) IN
     stats.opportunity >= MinAvailability /\ stats.opportunity > 0 /\ stats.selected = 0}

\* BatchCandidateBuilder.build: the batch each edge is in
BatchOf(edges) ==
  LET Before(e, f) == e[1] < f[1] \/ (e[1] = f[1] /\ e[2] < f[2])
  IN  [e \in edges |-> (Cardinality({f \in edges : Before(f, e)}) \div MaxBatch) + 1]

\* The trials the evidence is made of, as they were.
LoadedTrials ==
  {lines[i].result : i \in {j \in DOMAIN lines :
                              BucketOf[lines[j].result.trial[1]] = "optimization"}}

Proposal(results) ==
  LET status == [e \in Declared.edges |-> EdgeStatus(EdgeEvidence(results, ProtectedEdges, e))]
      edges  == {e \in Declared.edges : status[e] = "identified"}
      patch  == [edges |-> edges, nodes |-> IdleNodes(results)]
  IN  [at |-> "proposed", trials |-> LoadedTrials, status |-> status, patch |-> patch, batch |-> BatchOf(edges),
       verdict |-> IF edges = {} THEN "skipped"
                   ELSE CounterfactualVerdict(
                          Counterfactual(Declared, [edges |-> edges, nodes |-> {}],
                                         InBucket("optimization")))]

Analyse ==
  /\ work = None
  /\ Loadable /\ LoadedTrials # {}
  /\ work' = Proposal({Rebuilt(r) : r \in LoadedTrials})
  /\ UNCHANGED <<manifest, lines, cut, writer, runs>>

\* ArtifactLoadError; nothing is proposed.
RefuseAnalysis ==
  /\ work = None
  /\ lines # None
  /\ ~Loadable \/ LoadedTrials = {}
  /\ work' = [at |-> "refused"]
  /\ UNCHANGED <<manifest, lines, cut, writer, runs>>

----------------------------------------------------------------------------
(* ProbeRunner *)

\* Faulty form: only the far end is forced.
DirectedSeedTarget(seed, e) == seed \cup {e[2]}

\* build_directed_seed: a base seed with both ends of the edge
DirectedSeed(seed, e) == seed \cup {e[1], e[2]}

\* Every trial of one scenario; the trial index is the position.
ProbeTrials(seed) ==
  LET Of(index) == Walks(Declared, [offered \in SUBSET Name |-> {SetOfTrial(offered, seed, index)}])
  IN  {<<first, second>> : first \in Of(0), second \in Of(1)}

Observed(trace, e) ==
  \E i, j \in DOMAIN trace : /\ i = LayerOf[e[1]] /\ e[1] \in trace[i].selected
                             /\ j = LayerOf[e[2]] /\ e[2] \in trace[j].selected

ProbeVerdict(trials, e) ==
  IF \A i \in DOMAIN trials : Len(trials[i]) < LayerOf[e[2]] THEN "not_reachable"
  ELSE IF \E i \in DOMAIN trials : Observed(trials[i], e) THEN "observed" ELSE "not_observed"

Probe(e, s) ==
  /\ work # None /\ work.at = "proposed" /\ e \in work.patch.edges
  /\ \E seed \in Candidates(Declared, Expected[s]) :
     \E trials \in ProbeTrials(DirectedSeed(seed, e)) :
       work' = [at |-> "probed", edge |-> e, trials |-> trials,
                verdict |-> ProbeVerdict(trials, e)]
  /\ UNCHANGED <<manifest, lines, cut, writer, runs>>

----------------------------------------------------------------------------
(* validate *)

GateScenarios ==
  LET held == InBucket("validation") \cup InBucket("sentinel")
  IN  IF held = {} THEN InBucket("optimization") ELSE held

\* Faulty form: the drop is a share, rounded down to a whole percentage.
FastGateRounded(cf) ==
  LET lost == Cardinality(WithStatus(cf.before, "covered")) - Cardinality(WithStatus(cf.after, "covered"))
  IN  /\ lost \div Cardinality(DOMAIN cf.before) <= 0
      /\ Regressed(cf) \cap (InBucket("sentinel") \cup Flagged) = {}

\* FastValidationGate.evaluate with no drop allowed; the sentinel scenarios are
\* looked for among those the gate was given.
FastGate(cf) ==
  /\ Cardinality(WithStatus(cf.before, "covered")) <= Cardinality(WithStatus(cf.after, "covered"))
  /\ \A c \in {Category[s] : s \in DOMAIN cf.before} :
       Cardinality(CategoryCoverage(cf.before)[c]) <= Cardinality(CategoryCoverage(cf.after)[c])
  /\ Regressed(cf) \cap (InBucket("sentinel") \cup Flagged) = {}

\* How a trial of a validation may end; neither router nor seed is given.
TrialEnds(view) ==
  UNION {{[status |-> StatusOf(trace), route |-> RouteOf(trace), verdict |-> v] :
            v \in Verdicts(trace)} : trace \in Walks(view, FirstSelection)}

\* _run_slow
GateResults(view) ==
  {{[trial |-> i, status |-> ends[i].status, route |-> ends[i].route, verdict |-> ends[i].verdict] :
      i \in DOMAIN ends} : ends \in [GateScenarios \X (1..GateTrials) -> TrialEnds(view)]}

\* Faulty form: errors are not compared.
SlowGateRatesOnly(before, after) ==
  100 * before.successes * after.completed
    <= 100 * after.successes * before.completed + before.completed * after.completed

\* SlowValidationGate.evaluate: the success rate of completed trials drops by
\* at most one percent (it is 0 where none completed), the error rate not at all.
SlowGate(before, after) ==
  /\ IF after.completed = 0 THEN 100 * before.successes <= before.completed
     ELSE 100 * before.successes * after.completed
            <= 100 * after.successes * before.completed + before.completed * after.completed
  /\ after.errors * before.trials <= before.errors * after.trials

Successful(results) ==
  LET stats == RouteStats(results) IN {r \in DOMAIN stats : stats[r].successes > 0}

\* RouteDiversityGuard, with the floor that validate gives it
DiversityGuard(before, after) ==
  LET families == Cardinality(Successful(before))
      floor    == IF families >= 2 THEN 2 ELSE 1
  IN  Cardinality(Successful(after)) >= floor

\* Bound: a patch is validated where nothing was run yet.  validate reads no
\* run directory, so that any other state of it would show the same.
StartValidation(patch) ==
  /\ work = None /\ runs = 0
  /\ Applicable(Declared, patch)
  /\ LET cf == Counterfactual(Declared, patch, GateScenarios) IN
     work' = [at |-> IF FastGate(cf) THEN "base" ELSE "reject", patch |-> patch]
  /\ UNCHANGED <<manifest, lines, cut, writer, runs>>

RunBase ==
  /\ work # None /\ work.at = "base"
  /\ \E results \in GateResults(Declared) :
       work' = [at |-> "candidate", patch |-> work.patch, before |-> results]
  /\ UNCHANGED <<manifest, lines, cut, writer, runs>>

\* Without a completed trial of the declared topology the gate raises.
RunCandidate ==
  /\ work # None /\ work.at = "candidate"
  /\ \E results \in GateResults(ApplyPatch(Declared, work.patch)) :
       LET before == SlowReport(work.before)
           passed == SlowGate(before, SlowReport(results)) /\ DiversityGuard(work.before, results)
       IN  work' = [at |-> IF before.completed = 0 THEN "raised"
                           ELSE IF passed THEN "accept" ELSE "reject",
                    patch |-> work.patch, before |-> work.before, after |-> results]
  /\ UNCHANGED <<manifest, lines, cut, writer, runs>>

----------------------------------------------------------------------------

Init ==
  /\ manifest = None /\ lines = None /\ cut = FALSE
  /\ writer = None /\ runs = 0 /\ work = None

Next ==
  \/ \E v \in Version : \E results \in Batches[v] : StartRun(v, results)
  \/ WriteManifest \/ OpenTraces \/ WriteTrace \/ EndWrite \/ Crash
  \/ Analyse \/ RefuseAnalysis
  \/ \E e \in Declared.edges, s \in InBucket("optimization") : Probe(e, s)
  \/ \E p \in Patches : StartValidation(p)
  \/ RunBase \/ RunCandidate

Spec == Init /\ [][Next]_vars

----------------------------------------------------------------------------
(* Properties *)

TypeOK ==
  /\ manifest \in Version \cup {None, Torn}
  /\ lines = None \/ lines \in Seq(Row)
  /\ cut \in BOOLEAN /\ (cut => lines # None)
  /\ runs \in 0..MaxRuns
  /\ writer = None \/ (writer.run \in 1..runs /\ writer.at \in {"manifest", "open", "traces"})
  /\ work = None \/ work.at \in {"proposed", "refused", "probed", "base", "candidate",
                                 "accept", "reject", "raised"}

\* artifacts.py: a report is refused that mixes evidence.  Whatever the order in
\* which runs were written into the directory and interrupted, what analyze does
\* not refuse are trials of one run, all that were made of each scenario up to
\* some point, and of the version that the manifest names.
EvidenceIsOneRun ==
  Loadable =>
    /\ \A i, j \in DOMAIN lines : lines[i].run = lines[j].run
    /\ \A i \in DOMAIN lines : lines[i].version = manifest
    /\ \A i, j \in DOMAIN lines : i # j => lines[i].result.trial # lines[j].result.trial

\* The disk form of the trials loses layers and successes, and only some of the
\* trials are used.  Even so no edge is proposed for removal which the trials,
\* as they ran, walked more often than the threshold allows or were offered
\* less often than the floor demands, and no tool that any of them selected.
ProposalIsBacked ==
  work # None /\ work.at = "proposed" =>
    /\ \A e \in work.patch.edges :
         LET stats == EdgeStats(work.trials, e) IN
         /\ stats.observed * 100 <= stats.opportunity
         /\ stats.opportunity >= MinOpportunities
    /\ \A t \in work.patch.nodes :
         LET stats == NodeStats(work.trials, t) IN
         stats.selected = 0 /\ stats.opportunity >= MinAvailability

\* probe.py: an edge is "genuinely idle (NOT_OBSERVED)".  The verdict is given
\* only where the edge could not be walked: in the first trial, which runs the
\* directed seed itself, one of its ends was not available.
IdleMeansBlocked ==
  work # None /\ work.at = "probed" /\ work.verdict = "not_observed" =>
    LET trace == work.trials[1] IN
    \E end \in {work.edge[1], work.edge[2]} :
      LayerOf[end] > Len(trace) \/ end \notin trace[LayerOf[end]].available

\* The fast gate compares numbers of covered scenarios.  Nevertheless a patch
\* that passes leaves every single scenario of the gate covered that was.
AcceptKeepsCoverage ==
  work # None /\ work.at \in {"base", "candidate", "accept"} =>
    CoveredLost(Counterfactual(Declared, work.patch, GateScenarios)) = {}

\* The slow gate compares rates, of different denominators.  Nevertheless an
\* accepted patch succeeds at least as often as the declared topology did, up
\* to one percent of what it completes, and at all.
AcceptKeepsSuccesses ==
  work # None /\ work.at = "accept" =>
    LET before == SlowReport(work.before)
        after  == SlowReport(work.after)
    IN  /\ 100 * before.successes <= 100 * after.successes + after.completed
        /\ after.successes > 0

\* What is accepted is no worse, in coverage scenario by scenario and in successes.
AcceptLosesNothing == AcceptKeepsCoverage /\ AcceptKeepsSuccesses

=============================================================================
