------------------------------ MODULE SeedPlan ------------------------------
(***************************************************************************)
(* How seeds come about: the chains of a fast report, or those that a      *)
(* router walked, replayed with the slow runner on the declared topology.  *)
(* And the diff of a fast report against a baseline.                       *)
(*                                                                         *)
(* In files a route is a set of <<layer, tool>>.  RunRecords has the walks *)
(* of a topology; a walk's tools may fail whenever they run, so that a     *)
(* replay may fail always, and succeeds only where it can.                 *)
(***************************************************************************)
EXTENDS Loading

CONSTANTS Expected, Category, Depth, MaxTools

\* The place of a tool's layer in topology.layers()
Position(d) ==
  LET first == CHOOSE o \in d.orders : \A x \in d.orders : o <= x
  IN  [t \in d.tools |-> d.layer[t] - first + 1]

\* _schema_satisfiable: for each type that a tool consumes, the tools that leave
\* something of it.
NeedsOf(d) ==
  [t \in d.tools |-> {{s \in d.tools : type \in d.produces[s]} : type \in d.consumes[t]}]

World(d) == INSTANCE RunRecords WITH
              LayerOf <- Position(d), Provides <- d.capabilities, Needs <- NeedsOf(d)

Model == INSTANCE Advice WITH Limit <- MaxTools, Grammatical <- Capability, Absent <- None

Scenario == DOMAIN Expected

----------------------------------------------------------------------------
(* Routes in files *)

\* route_to_json
ToFile(d, tools) == {<<d.layer[t], t>> : t \in tools}

\* _seed_tools_for_layer, all layers at once: only where the tool is still in
\* the layer it is listed under.
SeedTools(d, route) == {t \in d.tools : <<d.layer[t], t>> \in route}

\* fast_report_to_json
ReportFile(d, outcomes) ==
  [s \in DOMAIN outcomes |->
     [status   |-> outcomes[s].status, reason |-> outcomes[s].reason,
      required |-> outcomes[s].required, missing |-> outcomes[s].missing,
      routes   |-> {ToFile(d, r) : r \in outcomes[s].routes}]]

----------------------------------------------------------------------------
(* Replay *)

\* The walks of the trial with this index from a seed
SeededWalks(d, route, index) ==
  World(d)!Walks(View(d), [offered \in SUBSET Name |->
                             {World(d)!SetOfTrial(offered, SeedTools(d, route), index)}])

Covers(d, s, tools) == Expected[s] \subseteq UNION {d.capabilities[t] : t \in tools}

\* Faulty form: a completed walk is a witness whatever it covers.
WitnessCompleted(d, s, trace) ==
  World(d)!StatusOf(trace) = "completed" /\ World(d)!RouteOf(trace) # {}

\* The criterion of replay_verified for one trial
Witness(d, s, trace) ==
  /\ World(d)!StatusOf(trace) = "completed"
  /\ World(d)!RouteOf(trace) # {}
  /\ Covers(d, s, World(d)!RouteOf(trace))

\* replay_verified can succeed.
Replayable(d, s, route, trials) ==
  \A index \in 0..(trials - 1) : \E trace \in SeededWalks(d, route, index) : Witness(d, s, trace)

\* What every seeds file says: the fingerprint, and a route or None.  The
\* declaration they were replayed on is history: no command can tell it.
SeedFiles(d, freezable) ==
  {[print |-> Fingerprint(d), routes |-> routes, of |-> d] :
     routes \in {f \in [Scenario -> (UNION {freezable[s] : s \in Scenario}) \cup {None}] :
                   \A s \in Scenario : f[s] \in freezable[s] \cup {None}}}

\* export_seeds: the shortest chains first, so many of them at most
Exports(d, file, most, trials) ==
  LET Tried(s) == {r \in file[s].routes :
                     Cardinality({q \in file[s].routes : Cardinality(q) < Cardinality(r)}) < most}
  IN  SeedFiles(d, [s \in Scenario |->
        IF s \notin DOMAIN file \/ file[s].status = "uncovered" THEN {}
        ELSE {r \in Tried(s) : Replayable(d, s, r, trials)}])

\* What a router may choose: it is scripted or a model, and answers as it may.
\* With an answer that is refused the trial is not completed.
MayChoose(router, offered) ==
  {IF router.scripted THEN Model!Scripted(a, offered) ELSE Model!Decided(a, offered) :
     a \in router.answers} \ {None}

\* discover_seeds: what a router chose, if it was walked to the end
Discoveries(d, router, trials) ==
  LET selections == [offered \in SUBSET Name |-> MayChoose(router, offered)]
      completed  == {w \in World(d)!Walks(View(d), selections) :
                       World(d)!StatusOf(w) = "completed" /\ World(d)!RouteOf(w) # {}}
      chains     == {ToFile(d, World(d)!RouteOf(w)) : w \in completed}
  IN  SeedFiles(d, [s \in Scenario |-> {r \in chains : Replayable(d, s, r, trials)}])

----------------------------------------------------------------------------
(* Baselines *)

\* Faulty form: the reason in place of the status.
BaselineOfReasons(outcomes) == [s \in DOMAIN outcomes |-> outcomes[s].reason]

\* Baseline.from_report
BaselineOf(outcomes) == [s \in DOMAIN outcomes |-> outcomes[s].status]

\* compute_diff; scenarios that only one of them has are passed over.
Diff(before, now) ==
  LET both == DOMAIN before \cap DOMAIN now
      Went(from, to) == {s \in both : before[s] \in from /\ now[s].status \in to}
      Other(status) == {"covered", "uncertain", "uncovered"} \ {status}
  IN  [newly_covered   |-> Went(Other("covered"), {"covered"}),
       newly_uncovered |-> Went(Other("uncovered"), {"uncovered"}),
       still_uncovered |-> Went({"uncovered"}, {"uncovered"}),
       still_covered   |-> Went({"covered"}, {"covered"}),
       changed         |-> {s \in both : before[s] # now[s].status}]

=============================================================================
