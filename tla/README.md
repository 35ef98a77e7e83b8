# Tool Capability Compiler: a verification project

This directory holds TLA+ models of the Tool Capability Compiler
(`src/src/capability_runtime`), the TLC configurations that check them on small
instances, and proofs, checked by TLAPS, of what holds for every instance. Paths
below are relative to `src/src/capability_runtime/` unless they start with `src/`.

## 1. The system

A developer declares *tools* in ordered *layers*; allow-lists on both sides decide
which tool of a layer may feed which tool of the next. That declared topology is a
search space. Fast regression looks for routes through it without running anything;
slow regression runs scenarios, layer by layer, with a router choosing tools; the
evidence of these trials yields candidate edges and tools to disable; a validated
candidate is committed as a *topology version*; routes over the active topology are
ranked, and online routing serves requests with them. The loop is
`Declare -> Initialize -> Explore -> Evaluate -> Prune -> Rank -> Route`.

### Inventory

| Part | State | Operations | Hard behaviour | What makes it correct |
|---|---|---|---|---|
| Topology, builder, patches, versions in memory (`topology/`, `core/tool.py`) | declarations, views, `TopologyVersion` | build, apply and compose patches, commit, rollback, export a snapshot, load it | rounds accumulate through snapshots | what is pruned stays out, nothing else goes, snapshots load |
| Version store (`optimization/pipeline.py`, `artifacts.py`, `cli.py`) | record, snapshot, inner-copy and pointer files, verdict file | `optimize validate`, `commit`, `rollback` | crash between or inside writes, two invocations at once, files edited between commands | nothing unvalidated is committed or restored; a record is written once; the pointer has a snapshot |
| Layer execution (`execution/`) | blackboard, one task per tool, semaphore | start, succeed, fail, time out, gather | every interleaving of the tasks, late answers, partial failure | outputs are exactly those of the successes; a slot is always given back |
| Slow regression runner (`regression/slow/`, `fixtures/`, `router/`) | trial id, visited tools, previous layer, fixture manager's active set | set up, filter, route, run a layer, tear down, evaluate | any step fails; exceptions that are not handled; manager shared by runs | every trial is recorded with the right status; fixtures are released |
| Composite runtime (`composite/`, `resources/metering.py`) | inner blackboard, detail, inner and outer collector | iterate an inner route, stop, raise, be cancelled, attach the detail, roll up the bill | cancellation in the middle of a layer; the stop condition never holds | ends by budget; bill equals detail; evidence tiers are honest |
| Online routing (`online/`) | rotation counter, request state, telemetry | select, execute, fall back, record | concurrent requests share one counter; all routes fail | bounded fallback over distinct routes, every attempt billed |
| Metering (`resources/`, the settlement in `execution/executor.py`) | a collector per call, in a context variable; a shared store | mount, use a store, a client or a model, settle, add up | calls interleave and are cancelled inside a handle | every bill is that of its own call, no estimate passes for a measurement |
| Route search, coverage (`regression/route_search.py`, `coverage.py`) | surviving tools, anchors, kept routes, budget | find a witness, open a span, anchor, branch, weigh gaps | prunings and skipped anchors, an enumeration cut anywhere | nothing is lost unless it is cut; a verdict never depends on the cut |
| Evidence, candidates and gates (`optimization/evidence.py`, `candidate.py`, `pruning.py`, `batch.py`, `probe.py`, `counterfactual.py`, `regression/slow/stats.py`, `persistence.py`) | the run directory | write a run, read it back, count opportunities and observations, propose, protect, batch, probe, gate | a directory used twice, a run interrupted anywhere, a disk form that drops layers, gates that compare counts and rates | evidence is of one run; nothing in use is proposed; what is accepted loses nothing |
| Ranking (`ranking/`, `online/catalog.py`) | the ranking file | eligibility, profile, Pareto frontier, tiers, catalog | missing dimensions; a ranking older than the topology | nothing better is behind the frontier; what is offered is there and was measured |
| Seeds (`regression/seed_*.py`) | the seeds file | export from a report, discover with a router, replay, check the fingerprint | a stale report, a topology edited and edited back, flaky tools, edits that the fingerprint does not tell | accepted seeds can be walked and cover their scenario |
| Baseline (`regression/baseline.py`, `cli.py`) | the baseline and report files | compare, replace, report | the file is read, replaced and reported in one invocation that may be interrupted | a loss is reported by the run that forgets it |
| Loader, registries, decorators | the topology file, registries | register, load | composites that load topologies of their own | names are unique, references exist, inner routes can be executed |
| Routers, judges, resolvers, onboarding | the proposals file | ask a language model, check the answer, apply what is approved | answers of any form, files edited in between | only declared tools and well-formed names come back |
| Reports, scenario files, the rest of the CLI | files | format, parse | commands of which each reads what another wrote, some time ago | no command trusts a file that is not about what it works on |

### Interactions

The CLI builds a registry, a topology and fixtures and calls one subsystem per
command; commands share nothing but files. The slow runner calls `LayerExecutor` once per layer of a trial, the online
runtime once per layer of an attempt, and a composite tool, itself run by a
`LayerExecutor`, calls a `LayerExecutor` of its own with a context of one slot and no
timeout. Metering events of a call go to the collector of the innermost running tool.
A slow run leaves a directory that analyze reads; analyze leaves candidates for
validate, validate a verdict that commit demands, commit a record that rollback replays, and both leave
a snapshot that the next round loads as its declared topology. A fast run leaves a baseline for the next one
and a report that seeds are made of, seeds are for slow runs, a slow run for a ranking, and a ranking for
online routing; all of them with a topology file that may have been edited since.

## 2. Modules

| Module | Models |
|---|---|
| `Topology` | declarations, the builder's conditions, views, fingerprints, patches, the snapshot export: pure operators |
| `TopologyVersions` | the chain of in-memory versions over rounds of commit, rollback and snapshot-reload |
| `VersionStore` | the versions directory under validate, commit, rollback, with every file write in two steps and a crash between any two |
| `VersionHistory` | what the store promises: a write-once history and a current topology out of it |
| `LayerExecution` | the tasks of one layer on the blackboard |
| `Metering` | concurrent calls that use shared resources through metered handles, their bills, and the trial's |
| `CompositeLoop` | one call of a composite tool: rounds over an inner route, detail, bill, and the inner trials made of the detail |
| `SlowRegression` | a run of trials: fixtures, selection by seed, freely or by a router, layers, evaluation |
| `Evaluation` | structured assertions, a judge, and their weighted combination in rounded numbers: pure operators |
| `OnlineServing` | concurrent requests over one catalog: candidate groups, rotation, fallback, bill, usage |
| `RouteSearch` | fast regression of one scenario: witness, spans, anchors, branches, the kept routes, the verdict |
| `FastReport` | the fast report of a suite, resolved queries included, and the counterfactual of a patch: pure operators |
| `Expansion` | the sets of tools that trials from a seed run in a layer |
| `RunRecords` | trials as walks, their disk form, observation statistics, evidence, the slow report: pure operators |
| `Pruning` | the run directory, analyze, probe and the gates of validate |
| `Loading` | from a topology file to a declaration, scaffolding and applying proposals: pure operators |
| `Advice` | how the answers of a language model or a script are checked |
| `Ranking` | profiles, eligibility, the frontier, tiers, the catalog: pure operators |
| `SeedPlan` | replay, seeds from a report or a router, baselines and their diff: pure operators |
| `Workspace` | the directory the commands are run in, while its topology file is edited |
| `MC*` | the small instances |
| `*_proofs` | the theorems; those of `TopologyVersions` are in `Workspace_proofs`, those of `Metering` in `OnlineServing_proofs` |

`Workspace` is composed of `SeedPlan` (which extends `Loading` and `Topology`, and instantiates
`RunRecords` for each declaration, as `World`, and `Advice`, as `Model`) and `Ranking` (as `Rank`); `Pruning`
extends `RunRecords`, which extends `FastReport` and `Expansion`; `SlowRegression` shares `Expansion` and is judged by `Evaluation`. So the fast
report that `Pruning` gates with is the one that `Workspace` makes seeds and baselines of, the walks that evidence
is taken from are those that seeds are replayed on, and the patches of `Pruning` are those of `Topology` that
`VersionStore` commits. `RouteSearch` justifies the short form of a fast report, `SlowRegression` that of a trial.

### Topology and TopologyVersions

A declaration is a record with the registered layer orders, the layer, allow-lists and
capabilities of each tool, and the set of composites. `Buildable` is the conjunction of
`_validate_layer_order` and `_validate_references`; `View` is `TopologyBuilder.build`;
`Export` is `export_active_payload`. An action of `TopologyVersions` is one of the
functions of `topology/version.py`, and `Reload` the closing of the loop: the snapshot
is loaded as the declared topology of the next round, as the examples do. The specification is `RoundsSpec`, so that a proof
module can extend this module and `Workspace` together.
`origin`, `pruned` and `loaded` are history variables. There is no bound on the number of
rounds; the state space is finite because there are finitely many patches. Left out:
the builder's warnings, schema compatibility (it never makes or removes an edge), tool
attributes that no property is about (cost, implementation).

### VersionStore and VersionHistory

A file is `Absent`, `Torn` (between the truncation and the end of `write_text`) or a
value of its format. An invocation is a `job` with a copy of what it read when it
started. `BeginCommit` is `commit` up to its gates, `CheckFresh` the existence check,
`Truncate`/`Fill` one `write_text`, `Crash` the end of the invocation at any point.
`EditDeclared` and `EditInner` are the user with an editor. What is abstracted: reading
the topology, payload, candidates and verdict is one step; the gates of `validate` may
answer either way; torn verdict and candidates files are not distinguished from missing
ones; a topology file is a model value with a fingerprint, a set of tools and perhaps a
composite, and the snapshot is the triple it was made from (its text is `Export` of
`Topology`); the hash is injective; inner topologies are copied for the composites that the patch leaves (`SnapshotStage`), all of them in one file; a tag that collides with a file of another version
(`v2-restored`, `current`, blanks around a tag) is not modelled.

`VersionHistory` is the abstract specification: tags written at most once, and a current
topology that withholds either nothing or what one recorded version withholds. The
refinement (`Promise`) maps a readable record to a history entry and a readable pointer to
a readable snapshot to the current topology.

### LayerExecution

One task per position of the routing decision. `Start` is the passage through the
semaphore (asyncio's is first come, first served) and the resolution of the arguments;
`Succeed`, `Fail` and `TimeOut` are the three ways a call ends, propagation of the outputs
and the bill included; `Finish` is the end of `gather` and the all-failed rule. Any running
task may end next, which over-approximates the event loop. A type is a model value
and `isinstance` is equality of types; a tool is assumed to honour cancellation, as
`wait_for` waits for it. The context of the run (slots, whether there is a timeout) is
chosen initially and never changes.

### CompositeLoop

The state of `CompositeRuntime.run`: blackboard, round, the layers recorded so far. A call
of an inner tool begins, uses its resource handle at most once and ends; `EndLayer` is the
rest of `_execute_iteration` for a group, `EndRound` the stop condition and the loop,
`Settle` the finally block. `Cancel` is the timeout of the outer call, at any point where the
loop awaits a layer. The tools of a group are called one after the other, which is what
`OneSlotIsASequence` of `LayerExecution` says of the default context. A slot holds the rounds
it was written in instead of artifacts; token counts are zero or one. `spent` is a history
variable. `PseudoTrial` is what the offline analysis makes of a round.

### Metering

A task's context holds the collector that `mount_collector` put there; what a handle records goes to whatever
the context of its task holds, which is why `context` is a variable and not the identity. `UseStore` is an
accessor of `InMemoryStore`, which never awaits; `Begin` and `EndClient` or `EndModel` are a `metered` callable or
`LLMResource.complete` before and after their await, and `TimeOut` is the cancellation in between, with the `finally`
block that the one has and the other has not. A tool may go on after a handle that failed, or raise. The body of a tool is a
sequence of handle calls; amounts of tokens are numbers, input and output tokens are one, `Price` is that of all. `Trial` is
what `_finalize` makes of the executions. `reached` is a history variable: which uses came to their resource, and
which of them were answered. A model's answer that arrives after the cancellation arrives nowhere: the thread goes on alone.

### SlowRegression and Evaluation

One action per stage of `_run_one`: `Setup`, `SelectTools` or `RouterDecides`, `RunLayer`,
`Teardown`, `Evaluate`; `Record` is `_finalize` and the step to the next trial, `Abort` the way
of an exception nobody handles, out of `run`. A layer's outcome is the set of tools that succeeded,
any subset of the selection. Routers and managers other than the default one are
external and may do anything their protocol admits, raising included. The evaluator is a `CompositeEvaluator` of
structured assertions, which look at the blackboard of the trial, and judges, which may answer anything; `Evaluate` is the whole of its loop,
as nothing runs beside it. A fact is there with its expected value or not there. Scores are rounded to `Precision` bits, half to
even, like floats; what a component says is a verdict or None where it raises. `raised` is a history variable. `Rerun` starts a run on
the same manager; `MaxRuns` bounds that. A router may raise an `ExecutionError` that is no `RoutingError`: the trial is a `TOOL_ERROR`. Left out is the other
way to that status, an execution context that the layer executor refuses, which makes every trial of the run one. `stranded` is a history variable.

### OnlineServing

`Receive` is `serve` up to its first await, in one step since the event loop cannot switch before;
`RunSegment` is a layer of the attempt under way and what follows it: the next layer, the answer,
or the next attempt. What a layer may end with is `Possible`: the results that some order of its tools
explains. `TrialOf` is the conversion back into a trial. The catalog and the configuration are fixed;
routes are numbered in the order of their ids. The group that `allow_global_fallback` makes by
passing the category as a tier is empty unless a category is named like a tier. `Usage` is what the telemetry says of a route;
its means are represented by the sums they are made of. What the code sorts by id is `Nth` of a set of numbers; `Remaining` is the
chain before it is cut. `Ran` is what every segment leaves, whether it ends the attempt or not. `past` and `picks` are history variables.

### RouteSearch

`CoverageAnalyzer.analyze` around `RouteSearch.search`. A route is the set of its tools. `DeletePass` is
one comparison in `_max_chain`, in any order of the pairs of layers, which has no influence on where it ends;
`FindWitness`, `OpenSpan`, `WeighSpan` are the three loops over spans; `NextAnchor` the generator `_anchors`
with its order, and with the tools that its `discard` takes out too early (`StillForced`);
`Completions` what `_complete` reaches through its prunings, written as the conditions on each layer of a
branch (`Passes`); `EndBranch` the end of a branch, in any order. The budget has no unit: it may end at any anchor
(`LeaveAnchor`, a slice) or altogether (`StopEarly`). `cut` is a history variable.
The final sort and truncation change nothing, since the enumeration stops at the limit.

### FastReport, Expansion, RunRecords, Pruning

`FastReport` says of a scenario what `CoverageAnalyzer` and `FastRegressionRunner` say, with the candidate routes
by definition (the least solutions) instead of by search; a resolver's answer is an argument. A trial in
`RunRecords` is a walk: in each layer what was available, what was selected and what succeeded, one step of
`Extensions` per layer, up to one where nothing was selected or all failed. `Rebuilt` is what the rows of `traces.jsonl`
come back as: no layers without a selection, no successes. `EdgeStats`, `NodeStats`, `RouteStats`, `EdgeEvidence` and
`SlowReport` count as the code does.

In `Pruning` the writer's steps are those of `SlowRegressionWriter.write`: the manifest, the truncation of the
traces by `open("w")`, one line per trial; `Crash` may come between any two and leave the file it is at in part.
The statistics files, which nothing reads back, are left out. `Analyse` is `optimize analyze`: load, check the versions, keep
the optimization bucket, aggregate, classify, batch, run the counterfactual. It may come at any time, in the middle of a
run too. `Probe` is one directed probe of a proposed edge. `StartValidation`, `RunBase` and `RunCandidate` are
`optimize validate`: the fast gate, the two slow runs with every way their trials may end, the slow gate and the
diversity guard. Cost and latency limits, which the commands never set, and tokens are left out; families are routes,
as the guard has them. Which bucket a scenario's hash puts it into is a constant.

### Loading, Advice, Ranking, SeedPlan, Workspace

A topology file is a record of its layers and tools with one boolean for all the field checks. `Load` is
`TopologyLoader.load_file`: registration, the builder's conditions (of `Topology`) and, for each composite, its inner
file, loaded the same way up to a depth, and the conditions of `CompositeSpec`. `Skeleton` and `Applied` are
`onboard scaffold` and `onboard apply`, the latter with its round trip through the loader, which looks for the inner files of composites
in the working directory: it finds them where the file lies in it, and otherwise refuses a file that has a composite. `consumes` and `produces` are fields of an
entry like any other, over a set of types; an entry that consumes `Any` counts as one that consumes nothing, and what a tool
leaves is an instance of the types in its `produces`. `Advice` has an operator for each place that checks an answer,
with None where it raises.

`SeedPlan` instantiates `RunRecords` for a declaration: what a tool waits for is taken from the file at hand, for each type it
consumes the tools that leave something of it (`NeedsOf`, the `_schema_satisfiable` of `TopologyFilter`). `Replayable` is the criterion of `replay_verified`: every one of
`--replay-trials` trials from the seed can be completed, walk something, and cover what the scenario expects. Since tools
may fail whenever they run, what a command freezes is any subset of what it can freeze (`SeedFiles`). `Discoveries`
are the walks a router may choose. In files, a route is a set of pairs of a layer and a tool; layers are known by their
order. Order and ties among routes are left out, so that `--max-verify` may cut where it likes among routes of one
length.

`Ranking` has exact fractions for rates and means, each over the set of the rows that have a value; a median is the least value that
more than half of them do not exceed, which is what `values[len // 2]` of the sorted ones is. Confidence intervals, access counts, tokens and families, which are only
shown, are left out. The tolerances of tiers are the defaults, since no command sets others.

`Workspace` has one variable per file. `Edit` is the user with an editor; every other action is a command. One that refuses
changes no file and is no step. A fast run is five steps (`StartFast`, `LoadBaseline`, `SaveBaseline`,
`PrintReport`, `WriteReport`), as it reads and replaces the baseline and may be interrupted
(`Crash`) with a file in part; the others write one file as their last act. `present` holds what the topology
file amounts to. `last` holds what a fast run or a selection has printed, for the properties. `held`, `source` and `now` are
history, and so is `seeds.of`, the declaration that the seeds were replayed on. A slow run comes to rows that its trials may be observed on, from a given set. Bounds: one
invocation at a time (`Idle`), and what `OneTrack` says of combinations of files.

## 3. Runs

| Run | Question | Instance |
|---|---|---|
| `topology_versions` | do rounds of pruning compose? | 12 declarations over three layers and four tools with no, one or two composites, eight patches, any number of rounds |
| `version_store` | one invocation at a time, interrupted anywhere: are the files consistent and is the history write-once? | one tag, two patches, two topologies (one with a composite and either of two inner ones, one that a patch leaves empty), at most two accepted pairs (`FewAccepted`), the inner topology edited only before the first is accepted (`InnerSettles`) |
| `version_store_concurrent` | which of it needs no lock? | two invocations in every interleaving, one tag, two topologies |
| `layer` | outputs, arguments and end of a layer | three tools, three contexts, sixteen blackboards |
| `composite` | does the loop stop as soon as it may, end, and keep its detail and bill? | four tools in two layers, three rounds, with and without a timeout |
| `route_search` | does the search find what there is, and does the verdict tell it? | five tools in three layers, all edge sets for two required capabilities and those of at least four edges for three, five distributions of capabilities, at most three routes |
| `slow_regression` | routes, statuses, fixtures, verdicts and exploration of trials | five tools in two layers; three trials of a scenario with a full seed (default or custom manager) or with one that begins in the second layer (default), one trial each of a seeded and a seedless scenario (no manager; or routed, default manager), one seedless routed trial with a custom manager; an evaluator of one structured assertion and one judge; two runs |
| `slow_evaluation` | is an error of the evaluator a component that raised? (refuted) | the same with four structured assertions of weights 40, 20, 30 and 10 % and no judge |
| `metering` | are a call's usage, cost and accesses those of what it reached? | three concurrent calls: a reader that asks two models, one of them priced; a writer with an estimating client; a tool that mixes all of them; any of them timed out between two steps |
| `online` | preference, budget, bill, usage, isolation and progress of requests | two requests of five kinds, five routes, three configurations |
| `pruning` | is what analyze reads one run, what it proposes unused, and what validate accepts no loss? | five tools in three layers, all six edges, two versions with three trials per run, two runs, each single edge or tool and two larger patches, one trial per scenario of a validation |
| `workspace` | do the files of one directory stay true to each other while the topology is edited? | four tools in two layers, nine topology files (a composite that is valid, one that is not, an unbound tool, capabilities and edges that changed, a tool that moved, an unsound file, two that differ from the first in what tools consume or produce and have its fingerprint), drafts, a scenario with expectations and a query, 24 slow runs of four trials and two of six on three routes, two trials per replay |

Why the bounds are enough. `TopologyVersions` needs three layers for an edge to have a
neighbour that is not its own, two tools in one layer for an alternative, and two adjacent
composites for the edge the schema cannot withhold. In the store a property is about
one tag, a patch against another, a topology that has changed
against one that has not, a writer against another: two of each. Three tools are the least number with one running, one waiting and
one ended. The composite needs a round whose tool has its arguments from the round before, and one
more round to tell that from a coincidence; a trial needs a trial before it and a run before it; in
`online` a request meets one other, and up to three fallbacks over routes of equal, lesser and no
preference. Scores of `Precision` = 5 bits round where those of 53 do, at other weights. In `metering` one
call with all kinds of handles and two neighbours that share its collector's module, its store or its model show
what crosses from one to another. In `pruning` a run directory is used twice, with versions that differ, which is what it
takes to mix two runs; three layers give an edge that is walked, one that is offered only and one that is cut off by a failure;
the two larger patches are the least that leave a scenario without a route, or only one of two. In `workspace`
the files are one good topology and one for each way to spoil what another command has made; a change and its undoing are
both edits, so that any longer history of the file is one of these with repetitions. Two files of the first one's fingerprint show what it does not tell, in either direction: seeds frozen on
the more demanding one must cover on the other. Three ranked routes are what it takes for a route to be off the frontier behind one that is itself dominated. The theorems take the bounds away where they exist.

Fairness. In `layer` the event loop resumes a task that can go on, and a
call that `per_tool_timeout_seconds` bounds ends; without a timeout a tool may hang for ever and
`LayerEnds` promises nothing. In `composite` the loop is resumed and the outer timeout fires; the inner
calls have no timeout, so that `CompositeEnds` assumes of a call without an outer one that they return.
In `slow_regression` everything the runner awaits returns or raises: layers by `LayerEnds`, routers,
evaluators and managers by assumption. In `online` the layers of the requests in `Prompt` end, and
those of the others may not: the property is that these do not hold up the former. Deadlock
checking is off where a call, a run, a validation or all requests come to an end. `pruning`, `workspace` and
`metering` have no fairness: in the first two every step is a command that somebody gives, in the third a call
may hang, and what it has recorded is right at every point.

## 4. Divergences found

* `slow_evaluation`: the normalized weights of a `CompositeEvaluator` are floats that may add up to more than 1. With
  weights 4, 2, 3, 1 (or 40, 20, 30, 10) and four components that give 1.0 the quality is 1.0000000000000002, which
  `EvaluationResult` refuses, and the runner records the perfect trial as an evaluation error
  (`evaluation/composite.py:70`, against its docstring).

Met while modelling, without a run of their own:

* `regression/seed_export.py:6` says that seeds are frozen "together with the declared-topology fingerprint, so a topology
  change makes stale seeds fail loudly instead of silently degrading". The fingerprint has layers, capabilities and edges, but
  neither `consumes` nor `produces` (`optimization/artifacts.py:180`; `src/docs/acceptance/discovery-routing-plan.md:202` leaves them out
  on purpose), while these decide what a trial is offered (`router/filtering.py:50`). Let a tool of a frozen chain come to consume what nobody
  before it leaves: `regression slow` takes the seeds, and the first trial stops before it covers its scenario. TLC shows it on the instance of
  `workspace` once the proviso of `SeedsReplay` is dropped. The property
  states what the fingerprint does ensure: accepted seeds still cover where no tool waits for others than when they were
  frozen (`Undemanding`), whatever else was edited.
* `commit` builds its base version with an empty patch whatever
  `--base-version` names, so records do not accumulate across rounds as
  `topology/version.py:57` says (`ComposedWithBase`): a second round over the same declared topology enables again what the first one disabled.
* `LLMResource.complete` records no access, and tokens only once it has an answer with usage: a call
  whose model fails, is late or reports nothing is of the tier that means that no handle was used
  (`resources/llm.py:94`, against `resources/metering.py:12`).
* `validate` adds the scenarios with `metadata.sentinel` to the ids of its gate but not to the
  suite the gate runs (`optimization/pipeline.py:229`): one that the hash puts into the optimization set may lose its coverage to an
  accepted patch, against `src/docs/acceptance/phase4.md:1054`.
* The copy of a composite's inner topology has the same name in every version, so a later write changes what an
  earlier version loads (`optimization/pipeline.py:508`, against `src/docs/acceptance/phase4.md:2531`).
* With one slot a tool of a layer is called with outputs of its own layer, against the docstring of
  `LayerExecutor`; `ArgumentsAreSound` says what does hold.
* A composite records all tokens of its inner tools as exact ones (`composite/runtime.py:174`), so estimated
  tokens are settled as measured, against `resources/metering.py:108`.
* A composite that is cancelled loses the layer under way from detail and bill, though
  `composite/runtime.py:5` says failed composites keep both; `RecordsAreTrue` states how much.
  The inner trial made of such a round is COMPLETED with part of a route, which
  `RecordsAreTrue` therefore excludes (`regression/slow/trial.py:17`).
* `_extract_outputs` takes the oldest artifact of a type, so a refine loop returns what its first
  round made.
* The fixture of a trial is torn down before the evaluator runs (`runner.py:237`), while
  `src/docs/acceptance/phase3.md:478` has evaluate before teardown.
* An exception that is not one of the expected errors ends the whole slow run without results and leaves its
  trial set up in the manager; the same trial of the next run is a fixture error (`FixturesAreReleased`).
* The baseline of an expansion plan is not cut to `max_tools_per_layer` (`router/models.py:183`, against
  the docstring at 154), and the cut may drop the very sibling a set was made for. A seed whose route starts
  after the first layer makes trial 0 end there, COMPLETED, with nothing run.
* One rotation counter serves all candidate groups, so that requests alternating between two groups may pin
  each to one route; `RotationSpreads` holds only as long as the group does not change.
* What goes back to offline analysis from an online request is the trace of the last attempt with the cost of
  all of them (`online/telemetry.py:163`); `AccountsAreTrue` claims the cost only without a fallback. Likewise the usage statistics
  put the cost of failed attempts on the route that answered, and count their failures for nobody.
* `_anchors` promises one forced-tool map per assignment, but `discard` drops a tool that an outer level
  still holds when it provides two capabilities: such a map is no assignment and its region is larger than
  meant. Nothing is lost by it (`NothingIsLost`), only budget. The nogood memo in the docstring of
  `RouteSearch` does not exist, as `src/docs/acceptance/routesearch-assignment.md` says.
* `RouteSearcher` filters by bridge depth what the search kept, and may return nothing though an allowed
  route exists that was evicted or cut off.
* A labelled route whose tiers the configuration does not list is in no candidate group.
* The catalog checks layers and tools of a ranked route against the topology, but not its edges, and
  `select` compares the version label with the ranking's own, so that this gate is vacuous unless another is given.
* `seeds export` trusts a report of any topology: chains with tools that have gone lose them silently and what is left is
  replayed, under the current fingerprint (`regression/seed_export.py:7` promises a loud failure); `SeedsReplay` holds because
  of the replay. Besides types, the fingerprint covers neither implementations nor inner files of composites.
* A chain that begins after the first layer never freezes, since its replay ends in the first layer. What a
  resolver requires of a query is not checked by the replay. With `--replay-trials` above one, the later trials run
  siblings and may cut a tool of the seed itself.
* A crash between the replacement of a baseline and the report loses the report of a loss (`cli.py:465`); `LossIsReported`
  speaks of runs that came to their report. A scenario that was removed from the suite is not in the difference.
* Placeholder handlers are run by `seeds export` and `seeds discover`, though `topology/loader.py:5` says they are never invoked; only
  the slow regression and `validate` refuse them.
* Where measures are missing, dominance is not transitive and there may be no frontier at all; where the best success rate is at most
  two percent, tiers admit a route that never succeeded.
* Statistics of edges and routes count what was selected, not what succeeded.
* `validate` without a completed trial of the declared topology ends in a `ValidationGateError` that
  `run_optimize_validate` does not catch.
* `regression slow` gives `LLMRouter` arguments it does not take (`cli.py:626`, `model` in place of a `RouterConfig`), so
  that the command ends in a `TypeError` with any router; `seeds discover` does it right.
* `LLMRouter` handles a bare `TimeoutError` of its client (`router/llm_router.py:158`), judge, resolver and
  proposals do not.
* `onboard scaffold` does not look for duplicate names; `onboard apply` checks its round trip with inner files
  relative to the working directory, so that it refuses a sound file with a composite that lies elsewhere (`Applied`); a topology file that includes itself ends in a `RecursionError`.

And of the version store and topologies: two commits of one tag at once may both
pass the existence check (`pipeline.py:376`), so `KeepsVersionHistory` is checked and proved
for one invocation at a time; a rollback returns a version but writes no record for it
(`pipeline.py:457`), so a restored version cannot be the target of a rollback; the docstring
of `export_active_payload` says a disabled outer edge of a composite cannot be represented in
the snapshot, while only an edge between two composites cannot, as `PruningIsExact` states.

## 5. Proofs

Assumed are the named ASSUMEs of the modules, which TLC evaluates on every run: constants have the types of the code's
values, equal fingerprints mean equal tools, a file marker is no file content. Some say more than a type, each
because the code enforces it. A batch of results has no trial twice and no walk goes on past a layer where nothing was
selected (`PruningAssumption`): the runner names trials by their position and ends a trial there. The suite and the catalog
are finite. The ids of two routes differ exactly if their segments do, and a configured priority is not empty and names no tier twice
(`OnlineAssumption`; `online/selection.py:19`).

`WorkspaceAssumption` says further that tools are named by numbers, which stand for the order of their names, that the number of layers, the tools that may run in a
layer and `--replay-trials` are positive (`router/models.py:180` and `regression/seed_export.py:99` refuse others), and that a seeds file of the old format has no fingerprint.

Every module with theorems proves first that its inductive invariant holds (`...IsGood`), then derives the properties.
Every safety invariant and action property of the passing runs, the type invariants included, is stated by a theorem.

* `Workspace_proofs`, on `Workspace`. The inductive invariant `IInv` has four parts, one for each promise that a file carries
  from the command that wrote it to the one that reads it.

  *Types* (`FilesAreTyped`): every file is absent, torn or what its command makes; `present` is what loading the topology file gives.
  What work there is, is in the operators: a walk that selects of what is offered stays in the view (`WalksStayInView`), so that
  what is frozen of it is a route; what `scaffold` and `apply` write is a topology file (`DraftsAreFiles`, `AppliedIsFile`).

  *Seeds* (`SeedsWereReplayed`): the seeds in the file were all replayed on one declaration, whose fingerprint the file has.
  `SeedsReplay` alone is not inductive, as it says nothing while the topology differs.
  The step back from there has four parts. Equal fingerprints mean equal
  views and layers (`SameFingerprint`). They do not mean equal walks, since the declarations may differ in what tools consume and
  leave; the theorem therefore assumes, as the property does, that no tool waits for others than in the declaration of the replay (`Undemanding`).
  Trial 0 selects what the seed has (`TrialZeroRunsTheSeed`), because the plan of a layer begins with the seed's own tools.
  The replay may have been of a walk on which some tools failed; but along with every walk on the one declaration there is a
  flawless one on the other that selects at least as much (`FlawlessWalks`), since what is offered grows with what succeeded and shrinks only
  with what is demanded (`OfferedGrows`, on two declarations). And
  what covers a scenario still does so with more tools.

  *Baseline* (`RunsCompareWithTheHeld`): a fast run compares with what the baseline was when it began, which it has read before it
  replaces it; a report has one of three statuses for each scenario of the suite.

  *Ranking* (`RankingIsOfRows`): a ranking is of rows that a slow run may have, and what `select` offered is of the ranking there is.
  `FrontierIsSound` rests on no more than that. Fractions are ordered transitively and totally (`LeqTransitive`,
  `LessIsNotLeq`), means and medians are fractions (`MeanIsFraction`, `MedianIsFraction`), so where routes are measured alike
  domination is a strict order, and in a finite set what is dominated is dominated by something that is not (`SomeUndominated`).

  The recursive functions of the model (walks, plans, sums) are shown to exist, and their values to have what the first one has and
  a step passes on, by the least index or the smallest set where that fails (`PassedOn`, `HoldsAlong`, `RecursionExists`, `SumsExist`).

  On `TopologyVersions`, in the same module: the inductive invariant is `RoundsTypeOK /\ RoundsCompose`: the
  declaration of a round is the origin minus what was pruned when it was loaded, and the
  active view is that declaration minus the patch of the round. None of
  `PrunedStaysPruned`, `NothingElseChanged` and `SnapshotLoads` is inductive alone, since each
  speaks of the origin while the actions see the declaration of the round only. The key
  lemmas say what exporting and loading a view does to its edges.
* `VersionStore_proofs`. The inductive invariant adds to the properties what a job in
  flight carries: that what it is about to write was accepted, and that a job past its
  record has a record. It holds for any number of concurrent invocations. `HistoryUntouched`
  and the refinement of `VersionHistory` are proved for at most one invocation
  (`\A p, q \in Proc : p = q`), which is what they need: TLC finds the race otherwise. `SnapshotsMatchRecords` needs two
  hypotheses, which the theorem states: one invocation at a time (`OneAtATime`), and no tag with the name that a
  rollback gives its snapshot (`NamesDiffer`), which the code does not refuse. Its
  strengthening (`MInv`) says of the invocation in flight that what it is about to write shows what the record of its tag says.
* `LayerExecution_proofs`. The inductive invariant says that everything on the blackboard
  stems from earlier layers or a task that has succeeded, and that the blackboard extends the
  one the layer started from. Needed because a task's arguments are fixed when it starts and
  the properties speak of them for ever after. Resolution by a least index is handled with
  well-foundedness of the naturals. `BoardTellsTasks` has an invariant of its own (`BInv`): with one slot, tasks are let in one by one (`OneByOne`), between
  two of them the board is what the sequence so far has left (`BoardIsSequential`), and each was given what that board had. The boards of the sequence are a recursive
  function; that it exists, is unique, and changes only behind the task that ends is shown by a smallest counterexample
  (`RecursionExists`), since the induction theorems of the library cannot be used.

* `CompositeLoop_proofs`. The inductive invariant `IInv` adds to the properties how the
  detail, the layer under way and the blackboard fit the route and the round (`Shaped`), and
  that whatever was called has its arguments on the blackboard ever since (`ArgumentsHeld`):
  `ArgumentsPersist` alone is not inductive, since it says nothing of the board a later
  round will find. `LayerPersists` says the same of the layer that is not yet in the detail.
  `EverythingIsBilled` speaks of settled calls only; `Ledger` extends it to the running one:
  what was metered is on record or pending, and a layer that ends moves its share from one
  to the other (`RecordedLayer`: the new places are disjoint from the recorded ones).

* `RouteSearch_proofs`. The inductive invariant `IInv` says what is settled at each point of
  the search. The chain of the span under consideration holds every route that fills it
  (`ChainHoldsRoutes`); before the witness, the spans passed have no solution
  (`WitnessTells`); afterwards, unless something was cut, their solutions are represented by
  a kept route (`SpansAreDone`); within a span, every assignment is pending or covered by an
  explored anchor, and every solution with the tools of such an anchor is represented or
  among the branches to come (`AnchorsAreDone`). `NothingIsLost` and `VerdictIsExact` speak
  of the end only and need all of it. The lemmas carry the argument the docstrings make in
  passing: a pass of `_max_chain` deletes no tool of a route, a stable chain that is not
  empty *is* a route, what `_complete` prunes leads to no solution, and `_pareto_insert`
  never drops what represents a solution without keeping something smaller. Assumed is
  `SearchAssumption`: edges join tools of neighbouring layers, as the builder enforces, and
  a scenario requires finitely many capabilities, and at least one.

* `SlowRegression_proofs`. The inductive invariant adds to `ResultsAreTrue` and `FixturesAreReleased` what the trial under way
  has so far (`TrialFits`: its trace walks the topology and feeds on what succeeded, its tools are those visited,
  and its status is open), how many trials there are (`Counted`), and, for `SeedIsExplored`, which set of the expansion plan each trial of a
  scenario took in the first layer (`SeedsGuide`). The plan numbers its sets by size and id; the lemmas show that a ranking of a
  finite set by a strict order is a bijection, so that with as many trials as there are sets every sibling of the seed is
  tried.

* `Pruning_proofs`. The rows in the file are always those of one run (`LinesFit`), and the invariant says of the writer why they
  stay so (`WriterFits`): it opens the file before it adds a row, has the latest number, and what it has still to write is not among
  the rows. `WorkFits` says what each station of analyze, probe and validate knows; the safety properties of the
  proposals and the gates are its parts. What needs work is that the stations establish them. `ProposalIsBacked` compares counts over the disk form with counts over
  the trials as they ran: `Rebuilt` keeps just the layers with a selection, which are the first ones (`KeptAreTheFirst`). `IdleMeansBlocked`
  rests on what a directed trial selects, `AcceptLosesNothing` on the gates and on counting within finite sets.

* `OnlineServing_proofs`. All that a request is promised is in one predicate of the request and its history
  (`RequestFits`), and no step of another request touches either; the rest is `PicksFit`, by which the k-th pick was made
  with the k-th value of the counter. The plan of a request (`PlanFits`) is stated in the terms of the docs, tiers and distances, and is
  derived from groups and chains by lemmas: what is sorted by a strict order of a finite set is a list of it (`Ranks`, `Listing`), the
  first group a route is in tells how near it is (`NearerIsEarlier`), and dropping empty groups keeps this (`NonEmptyKeepsOrder`). The
  walks (`WalksFit`) carry isolation: every blackboard is what its own trace made. The bill is a cardinality of the set of
  calls, to which a segment adds exactly what it is billed (`SegmentIsBilled`). The sums of the statistics are
  folds over sets; as induction over data is out of reach, the lemmas on sums (`SumsExist`, `SumsTakeOut`, `SumOfFibres`) argue by a smallest
  counterexample, which exists because cardinalities are well-founded. `RotationSpreads` is arithmetic of remainders.

  The module also has the theorems of `Metering`, since these rest on the same laws of sums; that is why the names of that module
  have a prefix. Its inductive invariant is `MeterInv`: the collector of a call has exactly
  what the call itself has reached (`Tallied`), except for the access of a client that is awaited, which is made but not yet recorded
  (`Pending`). It stays true because a running call finds its own collector in its context (`ContextsAreOwn`), because a use is
  reached once and answered after that (`ReachedInOrder`), and because a step of one call touches nothing of another
  (`StepKeepsInv`, which leaves of every action only what is about the call itself). `BillsAreOwn` is read off a settled
  collector; `TrialAddsUp` needs that calls without a record of tokens have used none (`SumOfSupport`).

Some properties that are checked are conjunctions of parts that are proved one by one:
`ArgumentsAreSound`, `RecordsAreTrue`, `RoundsShareBoard`, `PruningIsExact`, `StoreIsSound` and `SearchIsExact` (`ArgumentsAreSoundAlways`,
`RecordsAreTrueAlways`, `RoundsShareBoardAlways`, `PruningIsExactAlways`, `StoreIsSoundAlways`, `SearchIsExactAlways`).

Only model-checked are `LayerEnds`, `CompositeEnds`, `RunEnds` and `PromptIsAnswered`: liveness under fairness and ENABLED are out of
the prover's reach. So is what a recursive definition comes to for every input; where a proof needs a law of one, it is shown as said above.
Constants are proved about in any number, the liveness properties are checked for the instances of section 3.

## 6. Plan

1. Done: topology and versions, the version store with its abstract history, the execution
   of a layer, the composite loop, the route search, the slow runner with `Evaluation`, online serving, and `Metering`.
2. Done: the offline tool chain, model-checked: `Pruning` (evidence, candidates, probes, gates) and `Workspace` (loading,
   onboarding, fast runs and baselines, seeds, rankings, selection), with the modules they are composed of.
3. Done: proofs of every safety property of the modules under 1 and 2.
4. Open: one state machine of `Pruning` and `VersionStore`, so that a commit is of a verdict that the gates have made rather than of an
   arbitrary one; the examples' closed loop (`examples/`) on top of it.

## 7. Not modelled

* Formatting and rendering (`*/report.py`, the `examples/`), argument parsing, the checks of scenario
  files and of the single fields of a topology file: pure functions of their input with no state that another part reads.
* Prompts, HTTP and parsing of what a language model answers (`router/prompts.py`, `evaluation/llm_judge.py`,
  `capability/ollama_resolver.py`): an answer is any value of its form, and what is checked of it is in `Advice` and `Evaluation`.
* Confidence intervals, families, means and percentiles of usage, cost drift: shown and never acted upon.
* `RouteSearcher`'s filter by bridge depth and `FixtureManager.reset`: nothing in the program calls them.
* Schema compatibility of neighbouring tools: it yields warnings only.
