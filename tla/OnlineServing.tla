--------------------------- MODULE OnlineServing ---------------------------
(***************************************************************************)
(* Concurrent requests served from one RouteCatalog by one OnlineRuntime.  *)
(* A request gets its candidates in groups of falling preference, one of   *)
(* the first group by rotation, and a bounded chain to fall back on; a     *)
(* route is followed segment after segment on a blackboard of its own      *)
(* until it ends or a whole segment fails.  What the requests share is the *)
(* catalog, which nothing changes, and the balancer's counter.             *)
(*                                                                         *)
(* A segment is one step here: LayerExecution is what goes on inside.      *)
(***************************************************************************)
EXTENDS Naturals, Sequences, FiniteSets, FiniteSetsExt, Functions

CONSTANTS
  Request,
  Segments,       \* the catalog: route -> its segments, sets of tools.  Routes
                  \* are numbered in the order of their ids.
  Tiers,          \* route -> its tier labels
  Categories,     \* route -> the categories it covers
  Needs,          \* tool -> slots its arguments come from
  Makes,          \* tool -> slots its result is written under
  Priced,         \* tools that declare a cost
  Arrival,        \* what may be asked for: records of a category and a tier
  Config,         \* configurations: priority, max_fallbacks, allow_global_fallback
  Rotations,      \* how often the balancer may have been used before
  Prompt,         \* requests whose tools return, or that have a timeout
  None            \* no category, no tier

Route == DOMAIN Segments
Tool  == UNION {UNION {Segments[r][k] : k \in DOMAIN Segments[r]} : r \in Route}
Tier  == UNION {Tiers[r] : r \in Route}

ASSUME OnlineAssumption ==
  /\ IsFiniteSet(Request)
  /\ Route # {} /\ Route \subseteq Nat /\ IsFiniteSet(Route)
  /\ IsFiniteSet(Tool)
  /\ \A r \in Route :
       /\ Segments[r] \in Seq(SUBSET Tool) /\ Segments[r] # <<>>
       /\ \A k \in DOMAIN Segments[r] : Segments[r][k] # {}
  \* ids are those of what is walked
  /\ \A r, s \in Route : r # s => Segments[r] # Segments[s]
  /\ None \notin Tier
  /\ Prompt \subseteq Request
  /\ Rotations \subseteq Nat
  /\ \A c \in Config :
       /\ c.max_fallbacks \in Nat
       /\ c.priority \in Seq(Range(c.priority)) /\ c.priority # <<>>
       /\ None \notin Range(c.priority)
       /\ IsInjective(c.priority)

VARIABLES
  config,     \* configuration of the runtime
  turn,       \* RoundRobinBalancer._served
  req,        \* request -> the state of its serve() call
  past,       \* history: request -> traces of the attempts that failed before
  picks       \* history: the initial picks, with the group each was made from

vars == <<config, turn, req, past, picks>>

----------------------------------------------------------------------------
(* Selection *)

\* The k-th of a set of numbers, by size
Nth(set, k) == CHOOSE x \in set : Cardinality({y \in set : y < x}) = k - 1

\* What a sequence has at these positions, in their order
At(seq, positions) == [k \in 1..Cardinality(positions) |-> seq[Nth(positions, k)]]

\* RouteCatalog.candidates
Candidates(category, tier) ==
  {r \in Route : /\ category = None \/ category \in Categories[r]
                 /\ tier = None \/ tier \in Tiers[r]}

Others(tier) == At(config.priority, {i \in DOMAIN config.priority : config.priority[i] # tier})

\* Faulty form: the preference of the request comes last.
TierOrderTrailing(tier) == IF tier = None THEN config.priority ELSE Others(tier) \o <<tier>>

\* resolve_tier_order: the preference of the request leads.
TierOrder(tier) == IF tier = None THEN config.priority ELSE <<tier>> \o Others(tier)

Unlabelled(category) == {r \in Candidates(category, None) : Tiers[r] = {}}

NonEmpty(groups) == At(groups, {i \in DOMAIN groups : groups[i] # {}})

\* candidate_groups: a group for every tier, then the unlabelled routes; if none
\* covers the category, and the configuration allows it, those that have the
\* category for a tier, and all routes.
CandidateGroups(category, tier) ==
  LET order  == TierOrder(tier)
      groups == Append([i \in DOMAIN order |-> Candidates(category, order[i])],
                       Unlabelled(category))
  IN  IF /\ NonEmpty(groups) = <<>>
         /\ category # None /\ config.allow_global_fallback
      THEN NonEmpty(<<Candidates(None, category), Candidates(None, None)>>)
      ELSE NonEmpty(groups)

\* Faulty form: no rotation.
PickFirst(group) == Nth(group, 1)

\* RoundRobinBalancer.pick
Pick(group) == Nth(group, (turn % Cardinality(group)) + 1)

FirstGroup(groups, r) == CHOOSE i \in DOMAIN groups :
                           r \in groups[i] /\ \A k \in 1..(i - 1) : r \notin groups[k]

\* What remains after the initial pick, by group and then by id.
Remaining(groups, initial) ==
  LET rest == (UNION {groups[i] : i \in DOMAIN groups}) \ {initial}
      Ahead(r) == {s \in rest :
                     \/ FirstGroup(groups, s) < FirstGroup(groups, r)
                     \/ FirstGroup(groups, s) = FirstGroup(groups, r) /\ s < r}
  IN  [k \in 1..Cardinality(rest) |-> CHOOSE r \in rest : Cardinality(Ahead(r)) = k - 1]

\* Faulty form: the chain is not truncated.
ChainUnbounded(groups, initial) == Remaining(groups, initial)

\* build_fallback_chain
Chain(groups, initial) ==
  LET rest == Remaining(groups, initial)
  IN  SubSeq(rest, 1, Min({config.max_fallbacks, Len(rest)}))

----------------------------------------------------------------------------
(* Serving *)

Ended == {"served", "route_failed", "no_candidate"}

Idle == [phase |-> "new", category |-> None, tier |-> None, attempts |-> <<>>,
         index |-> 0, trace |-> <<>>, board |-> {}, steps |-> <<>>, cost |-> 0]

Init ==
  /\ config \in Config
  /\ turn \in Rotations
  /\ req = [q \in Request |-> Idle]
  /\ past = [q \in Request |-> <<>>]
  /\ picks = <<>>

\* serve, up to its first await: nothing of another request comes in between.
Receive(q, category, tier) ==
  LET asked  == [Idle EXCEPT !.category = category, !.tier = tier]
      groups == CandidateGroups(category, tier)
  IN
  /\ req[q].phase = "new"
  /\ IF groups = <<>>
     THEN /\ req' = [req EXCEPT ![q] = [asked EXCEPT !.phase = "no_candidate"]]
          /\ UNCHANGED <<turn, picks>>
     ELSE LET initial == Pick(groups[1]) IN
          /\ req' = [req EXCEPT ![q] = [asked EXCEPT
                       !.phase = "running", !.index = 1,
                       !.attempts = <<initial>> \o Chain(groups, initial)]]
          /\ turn' = turn + 1
          /\ picks' = Append(picks, [group |-> groups[1], route |-> initial])
  /\ UNCHANGED <<config, past>>

RouteOf(s)   == s.attempts[s.index]
SegmentOf(s) == Segments[RouteOf(s)][Len(s.trace) + 1]

Successes(result) == {t \in DOMAIN result : result[t] = "success"}
AllFailed(result) == Successes(result) = {}

MadeBy(tools) == UNION {Makes[t] : t \in tools}

\* What a layer may end with (LayerExecution): in some order of its tools each
\* is called with what earlier segments left or a sibling made before it, and a
\* tool whose arguments earlier segments left is always called.
Possible(board, result) ==
  \E rank \in [DOMAIN result -> 1..Cardinality(DOMAIN result)] :
    \A t \in DOMAIN result :
      LET before == {s \in Successes(result) : rank[s] < rank[t]} IN
      IF result[t] = "missing"
      THEN ~(Needs[t] \subseteq board)
      ELSE Needs[t] \subseteq board \cup MadeBy(before)

\* Faulty form: the tools that failed are not billed.
BilledIfSuccessful(result) == Cardinality(Successes(result) \cap Priced)

\* Tools that were called and declare a cost are billed, successful or not.
Billed(result) == Cardinality({t \in DOMAIN result : result[t] # "missing" /\ t \in Priced})

\* Faulty form: the next attempt goes on with the old blackboard.
FallbackKeepingBoard(s) ==
  [s EXCEPT !.index = @ + 1, !.trace = <<>>,
            !.steps = Append(@, <<RouteOf(s), s.attempts[s.index + 1]>>)]

\* The next attempt starts with an empty trace and an empty blackboard.
Fallback(s) ==
  [s EXCEPT !.index = @ + 1, !.trace = <<>>, !.board = {},
            !.steps = Append(@, <<RouteOf(s), s.attempts[s.index + 1]>>)]

\* A segment leaves its results, what they made and what they cost.
Ran(s, result) ==
  [s EXCEPT !.trace = Append(@, result),
            !.board = @ \cup MadeBy(Successes(result)),
            !.cost = @ + Billed(result)]

\* One segment of the current attempt has ended; the attempt goes on, ends the
\* request, or gives way to the next route of the chain.
RunSegment(q, result) ==
  LET s == req[q]
      ran == Ran(s, result)
  IN
  /\ s.phase = "running"
  /\ DOMAIN result = SegmentOf(s)
  /\ Possible(s.board, result)
  /\ \/ /\ AllFailed(result) /\ s.index < Len(s.attempts)
        /\ req' = [req EXCEPT ![q] = Fallback(ran)]
        /\ past' = [past EXCEPT ![q] = Append(@, ran.trace)]
     \/ /\ AllFailed(result) /\ s.index = Len(s.attempts)
        /\ req' = [req EXCEPT ![q] = [ran EXCEPT !.phase = "route_failed", !.board = {}]]
        /\ UNCHANGED past
     \/ /\ ~AllFailed(result)
        /\ req' = [req EXCEPT ![q] =
                     IF Len(ran.trace) = Len(Segments[RouteOf(s)])
                     THEN [ran EXCEPT !.phase = "served"] ELSE ran]
        /\ UNCHANGED past
  /\ UNCHANGED <<config, turn, picks>>

\* Faulty form: a request that has begun is finished before another goes on.
RunOneByOne(q) ==
  /\ req[q].phase = "running"
  /\ \A p \in Request \ {q} : req[p].phase = "running" => req[p].trace = <<>>
  /\ \E result \in [SegmentOf(req[q]) -> {"success", "error", "missing"}] :
       RunSegment(q, result)

Run(q) ==
  /\ req[q].phase = "running"
  /\ \E result \in [SegmentOf(req[q]) -> {"success", "error", "missing"}] :
       RunSegment(q, result)

Next ==
  \E q \in Request :
    \/ \E a \in Arrival : Receive(q, a.category, a.tier)
    \/ Run(q)

Spec == Init /\ [][Next]_vars

\* The segments of a prompt request end (LayerEnds); those of another may hang.
FairSpec == Spec /\ \A q \in Prompt : WF_vars(Run(q))

----------------------------------------------------------------------------
(* Telemetry *)

\* online_results_to_trials: the trial of an answered request has the trace of
\* its last attempt, and the bill of all.
TrialOf(s) ==
  [status |-> CASE s.phase = "served"       -> "completed"
                [] s.phase = "route_failed" -> "layer_error"
                [] s.phase = "no_candidate" -> "routing_error",
   route  |-> [k \in DOMAIN s.trace |-> DOMAIN s.trace[k]],
   cost   |-> s.cost]

Answered == {q \in Request : req[q].phase \in Ended}

\* record_of: a request goes by the route that was tried last, if any was.
RecordOf(q) ==
  [selected |-> IF req[q].phase = "no_candidate" THEN {} ELSE {RouteOf(req[q])},
   served   |-> req[q].phase = "served",
   cost     |-> req[q].cost]

\* Faulty form: a request counts for every route it tried.
UsageOfTried(r) ==
  LET mine == {q \in Answered : \E i \in 1..req[q].index : req[q].attempts[i] = r} IN
  [served |-> Cardinality({q \in mine : RecordOf(q).served}),
   failed |-> Cardinality({q \in mine : ~RecordOf(q).served}),
   bill   |-> SumFunction([q \in mine |-> RecordOf(q).cost])]

\* usage_stats, of the records of the requests that were answered; the bill is the
\* sum that cost_mean is made of.
Usage(r) ==
  LET mine == {q \in Answered : r \in RecordOf(q).selected} IN
  [served |-> Cardinality({q \in mine : RecordOf(q).served}),
   failed |-> Cardinality({q \in mine : ~RecordOf(q).served}),
   bill   |-> SumFunction([q \in mine |-> RecordOf(q).cost])]

----------------------------------------------------------------------------
(* Properties *)

Trace == Seq(UNION {[T -> {"success", "error", "missing"}] : T \in SUBSET Tool})

\* Attempts are routes, no more than the configuration allows.
TypeOK ==
  /\ config \in Config
  /\ turn \in Nat
  /\ \A q \in Request : LET s == req[q] IN
       /\ s.phase \in {"new", "running"} \cup Ended
       /\ s.attempts \in Seq(Route) /\ Len(s.attempts) <= config.max_fallbacks + 1
       /\ s.index \in 0..Len(s.attempts)
       /\ s.trace \in Trace
       /\ s.board \subseteq MadeBy(Tool)
       /\ s.cost \in Nat
  /\ past \in [Request -> Seq(Trace)]

\* How far a route is from what a request prefers, by the docs (phase6, 6 and
\* 9), not by groups and chains.
Distance(s, r) ==
  CASE s.tier \in Tiers[r] -> 0
    [] s.tier \notin Tiers[r] /\ Tiers[r] = {} -> Len(config.priority) + 1
    [] OTHER -> Min({i \in DOMAIN config.priority : config.priority[i] \in Tiers[r]})

Covering(s) == {r \in Candidates(s.category, None) :
                  \/ Tiers[r] = {}
                  \/ s.tier \in Tiers[r]
                  \/ \E i \in DOMAIN config.priority : config.priority[i] \in Tiers[r]}

Tried(s) == {s.attempts[i] : i \in 1..s.index}

\* A request whose category is covered is served by nothing else, and no route is
\* tried while one it prefers has not been tried.
PreferredFirst ==
  \A q \in Request : LET s == req[q] IN
    s.attempts # <<>> /\ Covering(s) # {} =>
      /\ Tried(s) \subseteq Covering(s)
      /\ \A r \in Covering(s) :
           Distance(s, r) < Distance(s, RouteOf(s)) => r \in Tried(s)

\* A route that failed is not tried again, and a request gives up only when its
\* budget is spent or there is no route left: every one of them failed.
GivesUpLast ==
  \A q \in Request : LET s == req[q] IN
    /\ Cardinality(Tried(s)) = s.index
    /\ s.phase = "route_failed" /\ Covering(s) # {} =>
         s.index = Min({config.max_fallbacks + 1, Cardinality(Covering(s))})
    /\ \A i \in DOMAIN past[q] : AllFailed(past[q][i][Len(past[q][i])])

\* Both halves of what the docs (phase6, 6 and 9) promise of the order of attempts.
AttemptsInOrder == PreferredFirst /\ GivesUpLast

AllTraces(q) == Append(past[q], req[q].trace)

Called(result) == {t \in DOMAIN result : result[t] # "missing"}

CallsIn(traces) ==
  {call \in (DOMAIN traces) \X (1..Max({Len(Segments[r]) : r \in Route})) \X Priced :
     LET trace == traces[call[1]] IN
     call[2] \in DOMAIN trace /\ call[3] \in Called(trace[call[2]])}

\* The bill of a request is that of every call of every attempt, whether the call,
\* its segment or its attempt failed or not.
EveryAttemptIsBilled ==
  \A q \in Request : req[q].cost = Cardinality(CallsIn(AllTraces(q)))

\* What a tool of one attempt is called with, and what a served request gets, was
\* made by that attempt: nothing of the routes that failed before is left.
AttemptsAreIsolated ==
  \A q \in Request :
    /\ \A i \in DOMAIN AllTraces(q) :
         LET trace == AllTraces(q)[i] IN
         \A k \in DOMAIN trace : \A t \in Called(trace[k]) :
           Needs[t] \subseteq
             MadeBy((UNION {Successes(trace[j]) : j \in 1..(k - 1)}) \cup (Successes(trace[k]) \ {t}))
    /\ req[q].phase = "served" =>
         req[q].board = MadeBy(UNION {Successes(req[q].trace[k]) : k \in DOMAIN req[q].trace})

\* What is promised of the attempts of a request, among themselves.
AttemptsAreSound == AttemptsInOrder /\ AttemptsAreIsolated

\* What goes back to the offline analysis: a completed trial walked the whole
\* route that is named as selected, one with a layer error ended at the segment that
\* failed, the steps lead from the first pick to that route, and without steps the
\* cost of the trial is that of its trace.
TrialsTellWhatRan ==
  \A q \in Request : LET s == req[q] IN
    s.phase \in Ended \ {"no_candidate"} =>
      LET trial == TrialOf(s) IN
      /\ trial.status = "completed" => trial.route = Segments[RouteOf(s)]
      /\ trial.status = "layer_error" =>
           /\ trial.route = SubSeq(Segments[RouteOf(s)], 1, Len(trial.route))
           /\ AllFailed(s.trace[Len(s.trace)])
      /\ Len(s.steps) = Len(past[q])
      /\ s.steps # <<>> => s.steps[Len(s.steps)][2] = RouteOf(s)
      /\ \A i \in 2..Len(s.steps) : s.steps[i][1] = s.steps[i - 1][2]
      /\ s.steps = <<>> => trial.cost = Cardinality(CallsIn(<<s.trace>>))

\* The statistics of the routes count every answered request that had a candidate
\* once, as served for the route that it walked to the end, and what they bill adds
\* up to all the calls that were made for these requests.
UsageAddsUp ==
  /\ \A r \in Route :
       Usage(r).served =
         Cardinality({q \in Request : req[q].phase = "served" /\ TrialOf(req[q]).route = Segments[r]})
  /\ SumFunction([r \in Route |-> Usage(r).served + Usage(r).failed])
       = Cardinality({q \in Answered : req[q].attempts # <<>>})
  /\ SumFunction([r \in Route |-> Usage(r).bill])
       = SumFunction([q \in Answered |-> Cardinality(CallsIn(AllTraces(q)))])

\* Bill and telemetry account for all that ran, over all attempts of a request.
AccountsAreTrue == EveryAttemptIsBilled /\ TrialsTellWhatRan /\ UsageAddsUp

\* Rotation: as long as the picks are made from one group, nobody is picked again
\* before everybody in it was.  Picks from other groups in between turn it on.
RotationSpreads ==
  \A i, j \in DOMAIN picks :
    /\ i < j /\ j - i < Cardinality(picks[i].group)
    /\ \A k \in i..j : picks[k].group = picks[i].group
    => picks[i].route # picks[j].route

\* A prompt request is answered, whatever happens to the other ones.
PromptIsAnswered ==
  \A q \in Prompt : req[q].phase = "running" ~> req[q].phase \in Ended

=============================================================================
