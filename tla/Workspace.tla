----------------------------- MODULE Workspace -----------------------------
(***************************************************************************)
(* The directory in which the commands are run: a topology file that is    *)
(* edited by hand, and the files that one command writes and another reads *)
(* at some later time - baseline, fast report, seeds, proposals, slow run, *)
(* ranking.  A command that refuses changes nothing and is not a step.     *)
(*                                                                         *)
(* A fast run is taken apart, since it reads and writes the baseline and   *)
(* may be interrupted; the other commands write one file at their end.     *)
(* How a slow run writes its directory is in Pruning.                      *)
(***************************************************************************)
EXTENDS SeedPlan

CONSTANTS
  Files,            \* the topology files that editing makes
  Specs,            \* lists of tool names to scaffold from
  Answers,          \* of a model asked for the capabilities of a query
  Routers,          \* that seeds discover may be given, see SeedPlan
  ProposalAnswers,  \* of a model asked for the capabilities of tools
  OldSeeds,         \* seeds files of the format without a fingerprint, print = of = None
  Runs,             \* the rows that slow runs may have
  MinTrials,
  Flags,            \* bound: sets of the options "compare", "save" and "out" in use together
  MaxVerify,        \* --max-verify
  ReplayTrials,     \* --replay-trials
  Torn

\* What a slow run leaves of a trial, see Ranking
Row == [scenario: Scenario, route: SUBSET (Int \X Name), success: BOOLEAN \cup {None},
        quality: Nat \cup {None}, latency: Nat, cost: Nat \cup {None}, label: STRING]

ASSUME WorkspaceAssumption ==
  /\ Name \subseteq Nat /\ IsFiniteSet(Name)
  /\ Depth \in Nat \ {0} /\ MaxTools \in Nat \ {0} /\ ReplayTrials \in Nat \ {0}
  /\ \A file \in Files : IsFile(file)
  /\ Specs \subseteq Seq(Name) /\ Runs \subseteq Seq(Row)
  /\ \A old \in OldSeeds :
       old.print = None /\ old.of = None
       /\ old.routes \in [Scenario -> (SUBSET (Int \X Name)) \cup {None}]
  \* what is absent is no fingerprint
  /\ None \notin [orders: SUBSET Int, layer: UNION {[tools -> Int] : tools \in SUBSET Name},
                  capabilities: UNION {[tools -> SUBSET Capability] : tools \in SUBSET Name},
                  edges: SUBSET (Name \X Name)]

VARIABLES
  topology,     \* the topology file
  present,      \* the declaration that whoever loads it gets: Load(topology)
  baseline,     \* None, Torn or [scenario -> status]
  report,       \* report.json: None, Torn or what ReportFile makes
  seeds,        \* None or [print, routes, of]; no command reads of, see SeedFiles
  proposals,    \* None or [tool -> capabilities]
  run,          \* None or the rows of the last slow run
  ranking,      \* None or [source, ...]: the rows it was made of and RankingOf
  job,          \* None or a fast run in progress
  last          \* what the last command came to, as far as it tells something

vars == <<topology, present, baseline, report, seeds, proposals, run, ranking, job, last>>

Rank == INSTANCE Ranking WITH
          CategoryOf <- [s \in Scenario |-> IF Category[s] = "uncategorized" THEN None ELSE Category[s]],
          Unknown    <- None

Drafts == {Skeleton(names, "first", dispatched) : names \in Specs, dispatched \in BOOLEAN} \ {None}

\* Worked out once for those that are known.
Loads == [file \in Files \cup Drafts |-> Load(file)]

\* Bound: one invocation at a time; VersionStore has two.
Idle == job = None

----------------------------------------------------------------------------
(* The topology file *)

Edit(file) ==
  /\ Idle /\ file # topology
  /\ topology' = file /\ present' = Loads[file] /\ last' = None
  /\ UNCHANGED <<baseline, report, seeds, proposals, run, ranking, job>>

\* onboard scaffold, with --out the topology file
Scaffold(draft) ==
  /\ Idle
  /\ topology' = draft /\ present' = Loads[draft] /\ last' = None
  /\ UNCHANGED <<baseline, report, seeds, proposals, run, ranking, job>>

\* onboard propose
Propose(answer) ==
  /\ Idle /\ present # None
  /\ Model!Proposed(answer, present.tools) # None
  /\ proposals' = Model!Proposed(answer, present.tools) /\ last' = None
  /\ UNCHANGED <<topology, present, baseline, report, seeds, run, ranking, job>>

\* onboard apply, of what a human lets pass of the proposals
Apply(tools, inPlace) ==
  /\ Idle /\ proposals # None /\ tools \subseteq DOMAIN proposals
  /\ LET approved == [t \in tools |-> proposals[t]] IN
     /\ Applied(topology, approved, inPlace) # None
     /\ topology' = Applied(topology, approved, inPlace) /\ present' = Load(topology')
  /\ last' = None
  /\ UNCHANGED <<baseline, report, seeds, proposals, run, ranking, job>>

----------------------------------------------------------------------------
(* regression fast *)

\* The resolver is given the scenarios that expect nothing, in discovery mode; one
\* answer that cannot be used ends the run.
Resolutions(answers) ==
  [s \in Scenario |-> IF Expected[s] # {} \/ answers = None THEN None
                      ELSE Model!Resolved(answers[s], UNION {present.capabilities[t] : t \in present.tools})]

StartFast(answers) ==
  /\ Idle /\ present # None
  /\ answers = None \/ \A s \in Scenario : Expected[s] = {} => Resolutions(answers)[s] # None
  /\ job' \in LET now == ReportFile(present, World(present)!Report(View(present), Scenario,
                                                                 Resolutions(answers)))
               IN  {[at |-> "reported", flags |-> flags, held |-> baseline,
                     before |-> None, now |-> now] : flags \in Flags}
  /\ last' = None
  /\ UNCHANGED <<topology, present, baseline, report, seeds, proposals, run, ranking>>

\* Faulty form: what is compared with is what was just saved.
LoadBaselineSaved ==
  /\ job # None /\ job.at = "reported"
  /\ IF "compare" \notin job.flags THEN job' = [job EXCEPT !.at = "compared"]
     ELSE IF baseline \in {None, Torn} THEN job' = None
     ELSE job' = [job EXCEPT !.at = "compared",
                             !.before = IF "save" \in job.flags THEN BaselineOf(job.now) ELSE baseline]
  /\ UNCHANGED <<topology, present, baseline, report, seeds, proposals, run, ranking, last>>

\* A baseline that cannot be read ends the run.
LoadBaseline ==
  /\ job # None /\ job.at = "reported"
  /\ IF "compare" \notin job.flags THEN job' = [job EXCEPT !.at = "compared"]
     ELSE IF baseline \in {None, Torn} THEN job' = None
     ELSE job' = [job EXCEPT !.at = "compared", !.before = baseline]
  /\ UNCHANGED <<topology, present, baseline, report, seeds, proposals, run, ranking, last>>

SaveBaseline ==
  /\ job # None /\ job.at = "compared"
  /\ job' = [job EXCEPT !.at = "saved"]
  /\ baseline' = IF "save" \in job.flags THEN BaselineOf(job.now) ELSE baseline
  /\ UNCHANGED <<topology, present, report, seeds, proposals, run, ranking, last>>

\* _has_regression, for --fail-on-regression
Regressed(before, now) ==
  \/ before # None /\ Diff(before, now).newly_uncovered # {}
  \/ \E s \in DOMAIN now : now[s].status # "covered"

PrintReport ==
  /\ job # None /\ job.at = "saved"
  /\ last' = [at |-> "fast", held |-> job.held, now |-> job.now,
              diff |-> IF job.before = None THEN None ELSE Diff(job.before, job.now),
              fails |-> Regressed(job.before, job.now)]
  /\ job' = IF "out" \in job.flags THEN [job EXCEPT !.at = "printed"] ELSE None
  /\ UNCHANGED <<topology, present, baseline, report, seeds, proposals, run, ranking>>

WriteReport ==
  /\ job # None /\ job.at = "printed"
  /\ report' = job.now
  /\ job' = None
  /\ UNCHANGED <<topology, present, baseline, seeds, proposals, run, ranking, last>>

\* The process ends; write_text may leave the file it is at in part.
Crash ==
  /\ job # None
  /\ job' = None
  /\ \/ UNCHANGED <<baseline, report>>
     \/ job.at = "compared" /\ "save" \in job.flags /\ baseline' = Torn /\ UNCHANGED report
     \/ job.at = "printed" /\ report' = Torn /\ UNCHANGED baseline
  /\ UNCHANGED <<topology, present, seeds, proposals, run, ranking, last>>

----------------------------------------------------------------------------
(* seeds and slow runs *)

\* seeds export; the report says nothing of the topology it was made of.
SeedsExport ==
  /\ Idle /\ present # None /\ report \notin {None, Torn}
  /\ seeds' \in Exports(present, report, MaxVerify, ReplayTrials)
  /\ last' = None
  /\ UNCHANGED <<topology, present, baseline, report, proposals, run, ranking, job>>

SeedsDiscover(router) ==
  /\ Idle /\ present # None
  /\ seeds' \in Discoveries(present, router, ReplayTrials)
  /\ last' = None
  /\ UNCHANGED <<topology, present, baseline, report, proposals, run, ranking, job>>

\* The gate of run_slow on a seeds file
Accepted(file, d) == file.print = None \/ file.print = Fingerprint(d)

\* The routes that trials of a slow run may be observed on
Walkable(d, s, plan) ==
  LET walks == IF plan = None \/ plan.routes[s] = None
               THEN World(d)!Walks(View(d), World(d)!FirstSelection)
               ELSE SeededWalks(d, plan.routes[s], 0) \cup SeededWalks(d, plan.routes[s], 1)
  IN  {ToFile(d, World(d)!RouteOf(w)) : w \in walks}

\* What a slow run may come to, each trial on a route that it may be observed on.
Observable(d, plan) ==
  LET pairs == UNION {{s} \X Walkable(d, s, plan) : s \in Scenario}
  IN  {rows \in Runs : \A i \in DOMAIN rows : <<rows[i].scenario, rows[i].route>> \in pairs}

\* regression slow, with or without the seeds file
RunSlow(basefast, allowed) ==
  /\ Idle /\ present # None /\ Unbound(topology) = {}
  /\ basefast => seeds # None /\ (allowed \/ Accepted(seeds, present))
  /\ run' \in Observable(present, IF basefast THEN seeds ELSE None)
  /\ last' = None
  /\ UNCHANGED <<topology, present, baseline, report, seeds, proposals, ranking, job>>

----------------------------------------------------------------------------
(* rank and select *)

RankRun ==
  /\ Idle /\ run # None /\ Rank!Rankable(run)
  /\ ranking' = [source |-> run, of |-> Rank!RankingOf(run)] /\ last' = None
  /\ UNCHANGED <<topology, present, baseline, report, seeds, proposals, run, job>>

Select(category) ==
  /\ Idle /\ ranking # None /\ present # None
  /\ LET offered == Rank!Selectable(ranking.of, Rank!CatalogOf(present, ranking.of), category) IN
     /\ offered # {}
     /\ last' = [at |-> "selected", category |-> category, offered |-> offered]
  /\ UNCHANGED <<topology, present, baseline, report, seeds, proposals, run, ranking, job>>

----------------------------------------------------------------------------

Init ==
  /\ topology \in Files /\ present = Loads[topology]
  /\ seeds \in {None} \cup OldSeeds
  /\ baseline = None /\ report = None /\ proposals = None
  /\ run = None /\ ranking = None /\ job = None /\ last = None

Queries == {s \in Scenario : Expected[s] = {}}

Next ==
  \/ \E file \in Files : Edit(file)
  \/ \E draft \in Drafts : Scaffold(draft)
  \/ \E answer \in ProposalAnswers : Propose(answer)
  \/ \E tools \in SUBSET Name, inPlace \in BOOLEAN : Apply(tools, inPlace)
  \/ \E answers \in [Queries -> Answers] \cup {None} : StartFast(answers)
  \/ LoadBaseline \/ SaveBaseline \/ PrintReport \/ WriteReport \/ Crash
  \/ SeedsExport
  \/ \E router \in Routers : SeedsDiscover(router)
  \/ \E basefast, allowed \in BOOLEAN : RunSlow(basefast, allowed)
  \/ RankRun
  \/ \E category \in {Category[s] : s \in Scenario} \cup {None} : Select(category)

Spec == Init /\ [][Next]_vars

----------------------------------------------------------------------------
(* Properties *)

Statuses == [Scenario -> {"covered", "uncertain", "uncovered"}]

TypeOK ==
  /\ present # None => IsDeclaration(present)
  /\ baseline \in {None, Torn} \cup Statuses
  /\ report \in {None, Torn} \/ BaselineOf(report) \in Statuses
  /\ seeds = None \/ seeds.routes \in [Scenario -> (SUBSET (Int \X Name)) \cup {None}]
  /\ proposals = None \/ \A t \in DOMAIN proposals : t \in Name /\ proposals[t] \subseteq Capability
  /\ run \in Runs \cup {None}
  /\ ranking = None \/ ranking.of.ranked \subseteq {r.route : r \in ToSet(ranking.source)}
  /\ job = None \/ job.at \in {"reported", "compared", "saved", "printed"}
  /\ last = None \/ last.at \in {"fast", "selected"}

\* The first trial from every seed, if its tools succeed, covers what its
\* scenario expects.
EverySeedCovers ==
  \A s \in Scenario : seeds.routes[s] # None =>
    \E trace \in SeededWalks(present, seeds.routes[s], 0) :
      LET walked == UNION {trace[i].selected : i \in DOMAIN trace} IN
      /\ \A i \in DOMAIN trace : trace[i].ok = trace[i].selected
      /\ walked # {} /\ Covers(present, s, walked)

\* Slow regression takes the seeds file for one of this topology.
Fresh == seeds # None /\ present # None /\ seeds.print = Fingerprint(present)

\* Whatever tools a tool now waits for, in the other declaration it waited for
\* some of them already: so it is where no tool consumes more or leaves less.
Undemanding(d, other) ==
  \A t \in d.tools : \A makers \in NeedsOf(d)[t] :
    \E fewer \in NeedsOf(other)[t] : fewer \subseteq makers

\* seed_export.py: seeds are execution-witnessed, and a topology change makes
\* stale ones fail loudly.  What the fingerprint does ensure: as long as slow
\* regression takes a seeds file for one of this topology, whatever report its
\* chains came from, whatever was edited and edited back since, and whatever
\* failed when they were replayed, its seeds still cover, provided no tool
\* waits for others than when they were frozen.  Without that proviso it is not
\* so: the fingerprint says nothing of the types that tools consume and leave
\* (artifacts.py), which decide what a trial is offered (filtering.py).
SeedsReplay == Fresh /\ Undemanding(present, seeds.of) => EverySeedCovers

\* A fast run that compares with a baseline and replaces it, as an automated one
\* does, tells of every scenario that was covered in the baseline it began with
\* and is not now, in whichever way it is not, and fails if it is asked to.
LossIsReported ==
  last # None /\ last.at = "fast" /\ last.diff # None =>
    LET lost == {s \in Scenario : last.held[s] = "covered" /\ last.now[s].status # "covered"}
    IN  /\ lost \subseteq last.diff.changed /\ (lost # {} => last.fails)
        /\ {s \in lost : last.now[s].status = "uncovered"} \subseteq last.diff.newly_uncovered

\* pareto.py: frontier members are pairwise non-dominated, dominated routes keep
\* their dominators.  Where the ranked routes are measured alike, a route is off
\* the frontier exactly when some route of the frontier is as good in everything
\* and not the other way round: the frontier is never empty and nothing better
\* is behind it.  (Where measures are missing there may be no frontier at all.)
FrontierIsSound ==
  ranking # None =>
    LET p == ranking.of.profiles
        ranked == ranking.of.ranked
        Measured(r) == {d \in DOMAIN p[r].value : p[r].value[d] # None}
        AsGood(r, q) == \A d \in Measured(r) : ~Rank!Better(d, p[q].value[d], p[r].value[d])
        frontier == Rank!FrontierOf(ranking.of.dominators)
    IN  (\A r, q \in ranked : Measured(r) = Measured(q)) =>
          \A r \in ranked : r \notin frontier <=> \E q \in frontier : AsGood(q, r) /\ ~AsGood(r, q)

\* catalog.py: every route is checked against the topology, and a mismatch fails
\* closed.  However the topology was edited and whatever was run since the
\* ranking: what select offers are routes whose tools are all there and in the
\* layers they are listed under, each observed in at least MinTrials trials of
\* the run that was ranked, and at least once in the category that was asked for.
CandidatesAreBacked ==
  last # None /\ last.at = "selected" =>
    \A route \in last.offered :
      LET members == {i \in DOMAIN ranking.source : ranking.source[i].route = route} IN
      /\ \A p \in route : p[2] \in present.tools /\ present.layer[p[2]] = p[1]
      /\ Cardinality(members) >= MinTrials
      /\ last.category # None =>
           \E i \in members : Category[ranking.source[i].scenario] = last.category

=============================================================================
