--------------------------- MODULE SlowRegression ---------------------------
(***************************************************************************)
(* SlowRegressionRunner: every scenario is tried a number of times, one    *)
(* trial after the other.  A trial sets its fixture up, goes through the   *)
(* layers of the topology (what is available, what is selected, what the   *)
(* layer then does), tears the fixture down, and is evaluated if it was    *)
(* completed.  Expected errors end the trial with a status; any other one  *)
(* ends the run, and a new run may then be started on the same manager.    *)
(*                                                                         *)
(* A layer is one step here: LayerExecution is what goes on inside.        *)
(***************************************************************************)
EXTENDS Expansion, Evaluation

CONSTANTS
  Layers,       \* the tools of every layer, in order.  Tools are numbered in the
                \* order of their names.
  Edges,        \* pairs of tools of consecutive layers
  Consumes,     \* tool -> types it needs on the blackboard
  Produces,     \* tool -> types it leaves there
  Ghost,        \* names a router may come up with
  Scenario,
  Seed,         \* scenario -> the tools of its seed route in every layer, or None
  Settings,     \* scenarios, trials per scenario, router or not, fixture manager
  Components,   \* of the evaluator: kind, weight, and the facts that are expected
  Answers,      \* of the judge
  MaxRuns       \* bound: runs on one manager

Depth == Len(Layers)
Tool  == UNION {Layers[k] : k \in 1..Depth}

\* The failure categories of trials
FailureCategory == {"business", "fixture", "evaluation", "tool_selection", "missing_tool"}

ASSUME SlowRegressionAssumption ==
  /\ Layers \in Seq(SUBSET Nat) /\ Depth > 0 /\ Ghost \cap Tool = {}
  /\ \A k \in 1..Depth : IsFiniteSet(Layers[k])
  /\ \A j, k \in 1..Depth : j # k => Layers[j] \cap Layers[k] = {}
  /\ \A e \in Edges : \E k \in 1..(Depth - 1) : e \in Layers[k] \X Layers[k + 1]
  /\ MaxTools \in Nat \ {0} /\ MaxRuns \in Nat \ {0}
  /\ \A s \in Scenario : Seed[s] = None \/ \A k \in 1..Depth : Seed[s][k] \subseteq Layers[k]
  /\ \A x \in Settings : /\ x.scenarios \in Seq(Scenario) /\ x.scenarios # <<>>
                         /\ x.trials \in Nat \ {0}
                         /\ x.router \in BOOLEAN
                         /\ x.manager \in {"none", "default", "custom"}
  /\ \A c \in Range(Components) : c.kind \in {"facts", "judge"} /\ c.weight \in Nat
  /\ Acceptable([i \in DOMAIN Components |-> Components[i].weight])
  /\ \A a \in Answers : a = None \/ a.success \in BOOLEAN
  /\ None \notin FailureCategory \cup [DOMAIN Components -> BOOLEAN]

VARIABLES
  setting,
  at,         \* which trial of the suite
  phase,      \* where it is
  status,     \* of the trial so far
  category,   \* its failure category, or None
  previous,   \* previous_selected
  chosen,     \* selection of the layer under way
  board,      \* types on the blackboard
  trace,      \* the layers recorded: available, selected, and those that succeeded
  results,    \* of the trials that ended
  active,     \* the manager's trials that are set up
  runs,       \* how many runs there have been
  stranded,   \* history: trials that an unexpected error left set up
  raised      \* history: trials of this run that a component of the evaluator failed in

trialVars == <<status, category, previous, chosen, board, trace>>
vars == <<setting, at, phase, trialVars, results, active, runs, stranded, raised>>

----------------------------------------------------------------------------
(* Selection *)

\* TopologyFilter.available_tools: what can run on the blackboard and, after the
\* first selection, is reached by an edge from one of the tools selected before.
Available(k) ==
  {t \in Layers[k] : /\ Consumes[t] \subseteq board
                     /\ previous = {} \/ \E s \in previous : <<s, t>> \in Edges}

ScenarioAt(n) == setting.scenarios[((n - 1) \div setting.trials) + 1]
IndexAt(n)    == (n - 1) % setting.trials
IdAt(n)       == <<ScenarioAt(n), IndexAt(n)>>
Trials        == Len(setting.scenarios) * setting.trials

\* _select, without a router
Selection(k) ==
  IF Seed[ScenarioAt(at)] = None THEN FirstOf(Available(k), MaxTools)
  ELSE SetOfTrial(Available(k), Seed[ScenarioAt(at)][k], IndexAt(at))

Decision == [action: {"execute", "finish"}, tools: SUBSET (Tool \cup Ghost)]

\* validate_decision, and _selection_category for the kind of error
Verdict(d, available) ==
  IF \/ d.action = "finish" /\ d.tools # {}
     \/ d.action = "execute" /\ d.tools = {}
     \/ d.action = "execute" /\ Cardinality(d.tools) > MaxTools
  THEN "invalid"
  ELSE IF ~((d.tools \ available) \subseteq Tool) THEN "missing_tool"
  ELSE IF ~(d.tools \subseteq available) THEN "unavailable"
  ELSE "valid"

----------------------------------------------------------------------------
(* The life of a trial *)

Init ==
  /\ setting \in Settings
  /\ at = 1
  /\ phase = "setup"
  /\ status = "completed" /\ category = None
  /\ previous = {} /\ chosen = {} /\ board = {} /\ trace = <<>>
  /\ results = <<>>
  /\ active = {}
  /\ runs = 1
  /\ stranded = {}
  /\ raised = {}

\* Faulty form: the next trial goes on with the blackboard of the last one.
FreshTrialOldBoard ==
  /\ status' = "completed" /\ category' = None
  /\ previous' = {} /\ chosen' = {} /\ trace' = <<>>
  /\ UNCHANGED board

FreshTrial ==
  /\ status' = "completed" /\ category' = None
  /\ previous' = {} /\ chosen' = {} /\ board' = {} /\ trace' = <<>>

\* _finalize, and on to the next trial
RecordJudged(how, why, criteria) ==
  /\ results' = Append(results, [trial |-> at, status |-> how, category |-> why,
                                 trace |-> trace, criteria |-> criteria])
  /\ at' = at + 1
  /\ phase' = IF at = Trials THEN "done" ELSE "setup"
  /\ FreshTrial

Record(how, why) == RecordJudged(how, why, None)

\* An error that nothing expects goes through the runner: there are no results,
\* and the trial, if it was set up, stays so.
Abort ==
  /\ phase' = "aborted"
  /\ results' = <<>>
  /\ FreshTrial
  /\ UNCHANGED at

\* Faulty form: a trial whose fixture fails is tried again.
SetupRetrying ==
  /\ phase = "setup"
  /\ \/ /\ setting.manager # "default" \/ IdAt(at) \notin active
        /\ phase' = "route"
        /\ active' = IF setting.manager = "none" THEN active ELSE active \cup {IdAt(at)}
        /\ UNCHANGED <<at, trialVars, results, stranded>>
     \/ /\ \/ setting.manager = "custom"
           \/ setting.manager = "default" /\ IdAt(at) \in active
        /\ UNCHANGED <<at, phase, trialVars, results, active, stranded>>
  /\ UNCHANGED <<setting, runs, raised>>

\* The default manager refuses a trial that is set up already.  A manager of the
\* user's may refuse any.
SetupRefused ==
  \/ setting.manager = "custom"
  \/ setting.manager = "default" /\ IdAt(at) \in active

\* The fixture is set up or refused; it may break otherwise, the default one only
\* when it copies its template, after the trial was noted as active.
Setup ==
  /\ phase = "setup"
  /\ \/ /\ setting.manager # "default" \/ IdAt(at) \notin active
        /\ phase' = "route"
        /\ active' = IF setting.manager = "none" THEN active ELSE active \cup {IdAt(at)}
        /\ UNCHANGED <<at, trialVars, results, stranded>>
     \/ /\ SetupRefused
        /\ Record("fixture_error", "fixture")
        /\ UNCHANGED <<active, stranded>>
     \/ /\ setting.manager # "none" /\ IdAt(at) \notin active
        /\ active' = active \cup {IdAt(at)}
        /\ stranded' = stranded \cup {IdAt(at)}
        /\ Abort
  /\ UNCHANGED <<setting, runs, raised>>

Ending(how, why) ==
  /\ phase' = "teardown"
  /\ status' = how /\ category' = why
  /\ UNCHANGED <<previous, chosen, board, trace>>

Layer == Len(trace) + 1     \* the layer that is to be recorded next

\* Faulty form: an empty selection is executed as well.
ProceedAnyway(selection) ==
  /\ chosen' = selection
  /\ phase' = "layer"
  /\ UNCHANGED <<status, category, previous, board, trace>>

\* An empty selection is recorded and ends the walk; another one is executed.
Proceed(selection) ==
  IF selection = {}
  THEN /\ trace' = Append(trace, [available |-> Available(Layer), selected |-> {}, ok |-> {}])
       /\ phase' = "teardown"
       /\ UNCHANGED <<status, category, previous, chosen, board>>
  ELSE /\ chosen' = selection
       /\ phase' = "layer"
       /\ UNCHANGED <<status, category, previous, board, trace>>

\* The selection of a layer, without a router.
SelectTools ==
  /\ phase = "route" /\ ~setting.router
  /\ Proceed(Selection(Layer))
  /\ UNCHANGED <<setting, at, results, active, runs, stranded, raised>>

\* A router decides, and what it decides is checked.
RouterDecides(d) ==
  /\ phase = "route" /\ setting.router
  /\ CASE Verdict(d, Available(Layer)) = "valid"        -> Proceed(d.tools)
       [] Verdict(d, Available(Layer)) = "missing_tool" -> Ending("routing_error", "missing_tool")
       [] OTHER -> Ending("routing_error", "tool_selection")
  /\ UNCHANGED <<setting, at, results, active, runs, stranded, raised>>

\* A router gives up with a RoutingError, or with another ExecutionError, which
\* is taken for a tool's; or it breaks.
RouterFails ==
  /\ phase = "route" /\ setting.router
  /\ \/ /\ \E how \in {"routing_error", "tool_error"} : Ending(how, None)
        /\ UNCHANGED <<at, results, stranded>>
     \/ /\ Abort
        /\ stranded' = IF setting.manager = "none" THEN stranded ELSE stranded \cup {IdAt(at)}
  /\ UNCHANGED <<setting, active, runs, raised>>

\* The layer runs; a layer that failed is recorded, too.  What was selected, not
\* what succeeded, is where the next layer is reached from.
RunLayer(ok) ==
  /\ phase = "layer"
  /\ trace' = Append(trace, [available |-> Available(Layer), selected |-> chosen, ok |-> ok])
  /\ board' = board \cup UNION {Produces[t] : t \in ok}
  /\ chosen' = {}
  /\ IF ok = {}
     THEN /\ phase' = "teardown" /\ status' = "layer_error"
          /\ UNCHANGED previous
     ELSE /\ phase' = IF Layer = Depth THEN "teardown" ELSE "route"
          /\ previous' = chosen
          /\ UNCHANGED status
  /\ UNCHANGED <<setting, at, category, results, active, runs, stranded, raised>>

\* Only a completed trial goes on to the evaluator.
Evaluated ==
  IF status = "completed"
  THEN phase' = "evaluate" /\ UNCHANGED <<at, results, trialVars>>
  ELSE Record(status, category)

\* Faulty form: the fixture is torn down for completed trials only.
TeardownIfCompleted ==
  /\ phase = "teardown"
  /\ Evaluated
  /\ active' = IF status = "completed" THEN active \ {IdAt(at)} ELSE active
  /\ UNCHANGED <<setting, runs, stranded, raised>>

\* The fixture is torn down, whatever the status, before the evaluation.
Teardown ==
  /\ phase = "teardown"
  /\ \/ /\ Evaluated
        /\ active' = active \ {IdAt(at)}
        /\ UNCHANGED stranded
     \/ /\ setting.manager = "custom"
        /\ IF status = "completed" THEN Record("fixture_error", "fixture")
                                   ELSE Record(status, category)
        /\ UNCHANGED <<active, stranded>>
     \/ /\ setting.manager = "custom"
        /\ Abort
        /\ stranded' = stranded \cup {IdAt(at)}
        /\ UNCHANGED active
  /\ UNCHANGED <<setting, runs, raised>>

Judges == {i \in DOMAIN Components : Components[i].kind = "judge"}

\* What the components say, the judges among them by these answers.
Verdicts(answers) ==
  [i \in DOMAIN Components |->
     IF i \in Judges THEN JudgeVerdict(answers[i])
     ELSE StructuredVerdict(Components[i].expected, board)]

\* The evaluator's verdict goes with the status, its own failure replaces it.
Evaluate ==
  /\ phase = "evaluate"
  /\ \E answers \in [Judges -> Answers] :
       LET verdicts == Verdicts(answers)
           verdict  == CompositeVerdict([i \in DOMAIN Components |-> Components[i].weight],
                                        verdicts)
       IN
       /\ IF verdict = None THEN Record("evaluation_error", "evaluation")
          ELSE RecordJudged("completed", IF verdict.success THEN None ELSE "business",
                            verdict.criteria)
       /\ raised' = IF \E i \in DOMAIN verdicts : verdicts[i] = None
                    THEN raised \cup {at} ELSE raised
  /\ UNCHANGED <<setting, active, runs, stranded>>

Step ==
  \/ Setup
  \/ SelectTools
  \/ \E d \in Decision : RouterDecides(d)
  \/ RouterFails
  \/ \E ok \in SUBSET chosen : RunLayer(ok)
  \/ Teardown
  \/ Evaluate

\* The suite is run again, by a runner with the same manager.
Rerun ==
  /\ phase \in {"done", "aborted"}
  /\ runs < MaxRuns
  /\ runs' = runs + 1
  /\ at' = 1
  /\ phase' = "setup"
  /\ results' = <<>>
  /\ raised' = {}
  /\ UNCHANGED <<setting, trialVars, active, stranded>>

Next == Step \/ Rerun

Spec == Init /\ [][Next]_vars

\* What the runner awaits returns or raises: layers by their timeouts.
FairSpec == Spec /\ WF_vars(Step)

----------------------------------------------------------------------------
(* Properties *)

LayerRecord == [available: SUBSET Tool, selected: SUBSET Tool, ok: SUBSET Tool]

Status == {"completed", "routing_error", "tool_error", "layer_error", "evaluation_error",
           "fixture_error"}

\* Phases, statuses and recorded layers are what they should be.
TypeOK ==
  /\ at \in 1..(Trials + 1)
  /\ phase \in {"setup", "route", "layer", "teardown", "evaluate", "done", "aborted"}
  /\ status \in Status
  /\ previous \subseteq Tool /\ chosen \subseteq Tool
  /\ phase = "layer" => chosen # {} /\ chosen \subseteq Layers[Layer]
  /\ trace \in Seq(LayerRecord) /\ Len(trace) <= Depth
  /\ \A i \in DOMAIN results : results[i].trial = i /\ results[i].status \in Status
  /\ phase = "done" => Len(results) = Trials

Traces == {results[i].trace : i \in DOMAIN results} \cup {trace}

RouteFollows(tr) ==
  \A k \in DOMAIN tr : \A t \in tr[k].selected :
    /\ t \in Layers[k]
    /\ k > 1 => \E s \in tr[k - 1].selected : <<s, t>> \in Edges
    /\ Consumes[t] \subseteq UNION {UNION {Produces[s] : s \in tr[j].ok} : j \in 1..(k - 1)}

\* The route of a trial is one of the topology, and of this trial: each tool is
\* reached by an edge from one that was selected in the layer before, and what it
\* consumes was produced by tools that succeeded earlier in the same trial.
RoutesFollowEdges == \A tr \in Traces : RouteFollows(tr)

AllFailed(l) == l.selected # {} /\ l.ok = {}

\* The trace ended by itself: there is no further layer, or nothing was selected.
WalkedToTheEnd(tr) ==
  tr # <<>> /\ (Len(tr) = Depth \/ tr[Len(tr)].selected = {}) /\ ~AllFailed(tr[Len(tr)])

StatusTells(r) ==
  /\ \A k \in 1..(Len(r.trace) - 1) : r.trace[k].ok # {}
  /\ r.status = "layer_error" <=> r.trace # <<>> /\ AllFailed(r.trace[Len(r.trace)])
  /\ r.status \in {"completed", "evaluation_error"} => WalkedToTheEnd(r.trace)
  /\ r.status \in {"routing_error", "tool_error"} => ~WalkedToTheEnd(r.trace)
  /\ r.status = "fixture_error" => r.trace = <<>> \/ WalkedToTheEnd(r.trace)
  /\ r.category \in {"tool_selection", "missing_tool"} => r.status = "routing_error"
  /\ r.category = "fixture" <=> r.status = "fixture_error"

\* Status and category of a result agree with its trace: only the last layer may
\* have failed, and then that is the status; completed trials, and those whose
\* evaluation failed, walked to the end; errors of routers came before it; and an
\* error of the fixture hides no error of the trial.
StatusTellsTrace == \A i \in DOMAIN results : StatusTells(results[i])

Facts(tr) == UNION {UNION {Produces[t] : t \in tr[k].ok} : k \in DOMAIN tr}

VerdictTells(r, failed) ==
  /\ r.criteria # None <=> r.status = "completed"
  /\ r.status = "completed" =>
       /\ r.trial \notin failed
       /\ r.category = None <=> \A c \in DOMAIN Components : r.criteria[c]
       /\ \A c \in (DOMAIN Components) \ Judges :
            r.criteria[c] <=> Components[c].expected \subseteq Facts(r.trace)

\* The verdict on a trial is about that trial: its structured criteria hold exactly
\* if tools that succeeded in it left the facts that are expected, it is a business
\* failure exactly if some criterion does not hold, and an evaluator that failed is
\* never taken for that.
VerdictsTellTrials == \A i \in DOMAIN results : VerdictTells(results[i], raised)

\* The other way round, evaluation errors are failures of evaluators, by the
\* docstring of CompositeEvaluator: a component's error is passed on to tell it from
\* a business failure.
ErrorsAreEvaluators ==
  \A i \in DOMAIN results : results[i].status = "evaluation_error" => i \in raised

\* A result tells what its trial did, and the trial did what the topology admits.
ResultsAreTrue == RoutesFollowEdges /\ StatusTellsTrace /\ VerdictsTellTrials

\* The default manager holds on to no trial but the one under way, however trials
\* end, and refuses none but one that a broken run left set up.
FixturesAreReleased ==
  setting.manager = "default" =>
    /\ active \subseteq stranded \cup
         (IF phase \in {"route", "layer", "teardown"} THEN {IdAt(at)} ELSE {})
    /\ \A i \in DOMAIN results : results[i].status = "fixture_error" => IdAt(i) \in stranded

\* A seed that is a route of the topology, from the first layer on.
IsRoute(seed) ==
  \A k \in 1..Depth :
    /\ k = 1 => seed[k] # {}
    /\ \A t \in seed[k] :
         /\ k > 1 => \E s \in seed[k - 1] : <<s, t>> \in Edges
         /\ Consumes[t] \subseteq UNION {UNION {Produces[s] : s \in seed[j]} : j \in 1..(k - 1)}

\* The first trial of a scenario walks its seed, as long as the tools succeed.
SeedIsWalkedFirst ==
  ~setting.router =>
    \A i \in DOMAIN results :
      LET seed == Seed[ScenarioAt(i)] IN
      IndexAt(i) = 0 /\ seed # None =>
        (IsRoute(seed) =>
           \A k \in DOMAIN results[i].trace :
             (\A j \in 1..(k - 1) : results[i].trace[j].ok = results[i].trace[j].selected)
               => results[i].trace[k].selected = seed[k])

\* With enough trials, each sibling of the seed in the first layer is tried.
SiblingsAreExplored ==
  phase = "done" /\ ~setting.router =>
    \A n \in DOMAIN setting.scenarios :
      LET s == setting.scenarios[n]
          mine == {i \in DOMAIN results : ScenarioAt(i) = s}
      IN
      /\ Seed[s] # None
      /\ setting.trials > Cardinality(Layers[1] \ Seed[s][1])
      /\ \A i \in mine : results[i].trace # <<>>
      => (Cardinality(Seed[s][1]) < MaxTools =>
            {t \in Layers[1] : Consumes[t] = {}} \subseteq
              UNION {results[i].trace[1].selected : i \in mine})

\* Both halves of exploring atop a seed: it is walked, and departed from.
SeedIsExplored == SeedIsWalkedFirst /\ SiblingsAreExplored

\* A run ends: with a result for every trial, or broken.
RunEnds == phase = "setup" ~> phase \in {"done", "aborted"}

=============================================================================
