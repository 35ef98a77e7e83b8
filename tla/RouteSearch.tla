---------------------------- MODULE RouteSearch ----------------------------
(***************************************************************************)
(* Fast regression of one scenario: CoverageAnalyzer.analyze and the       *)
(* RouteSearch it runs.                                                    *)
(*                                                                         *)
(* A route selects at least one tool in each of some neighbouring layers   *)
(* so that every tool has an edge to and from the selections next to it.   *)
(* Since a tool is in one layer only, the set of its tools is the route.   *)
(* For every span of layers the search shrinks the layers to the tools     *)
(* that some selection can use (_max_chain); then, for every assignment of *)
(* providers to the required capabilities, it enumerates the selections    *)
(* that contain the assigned tools, and keeps those no kept one is a part  *)
(* of.  A count of routes and a budget of expansions end it early; whether *)
(* there is a route at all is decided before, and does not depend on them. *)
(*                                                                         *)
(* A step is a pass over one pair of layers, the opening of a span or of   *)
(* an anchor, or the end of one branch of _complete.  Branches end in any  *)
(* order, and the budget, whose unit of account is abstracted, may be      *)
(* spent at any of them.                                                   *)
(***************************************************************************)
EXTENDS Integers, FiniteSets

CONSTANTS Tool,          \* tools, as numbers in the order of their names
          Layer,         \* [Tool -> 1..Depth], the declared layer of a tool
          Depth,         \* the number of layers
          Capability,    \* capabilities, as numbers in the order of their names
          Problems,      \* the topologies and scenarios analysed
          Limit          \* max_candidate_routes

Problem == [nodes: SUBSET Tool, edges: SUBSET (Tool \X Tool),
            capabilities: [Tool -> SUBSET Capability],
            required: (SUBSET Capability) \ {{}}]

ASSUME SearchAssumption ==
  /\ Tool \subseteq Nat /\ Capability \subseteq Nat
  /\ Depth \in Nat \ {0} /\ Limit \in Nat \ {0}
  /\ Layer \in [Tool -> 1..Depth]
  /\ Problems \subseteq Problem
  /\ \A p \in Problems : \A e \in p.edges :
       e \in p.nodes \X p.nodes /\ Layer[e[2]] = Layer[e[1]] + 1
  /\ \A p \in Problems : IsFiniteSet(p.required)

VARIABLES
  problem,     \* what is analysed; never changes
  phase,       \* "start", "witness", "spans", "anchors", "branches", "gaps",
               \* "done"
  span,        \* the first and the last layer of the span under consideration
  surviving,   \* the tools _max_chain has not deleted
  witness,     \* the maximal chain of the first feasible span
  pending,     \* the assignments that walk has not reached
  yielded,     \* the anchors explored in this span
  branches,    \* the selections of the current anchor still to be examined
  routes,      \* the routes kept
  best,        \* covered_capabilities so far
  status,      \* the coverage status with its reason
  cut          \* whether the budget left something unexamined (history)

vars == <<problem, phase, span, surviving, witness, pending, yielded, branches,
          routes, best, status, cut>>

----------------------------------------------------------------------------
(* Selections *)

At(tools, i) == {t \in tools : Layer[t] = i}

From(tools, i) == {t \in tools : Layer[t] >= i}

UpTo(tools, i) == {t \in tools : Layer[t] <= i}

Edge(s, t) == <<s, t>> \in problem.edges

Covered(tools) == UNION {problem.capabilities[t] : t \in tools}

Interconnected(left, right) ==
  /\ \A s \in left : \E t \in right : Edge(s, t)
  /\ \A t \in right : \E s \in left : Edge(s, t)

\* What RoutePlan.from_groups demands of a route.
IsRoute(tools) ==
  LET used == {Layer[t] : t \in tools}
  IN  /\ tools # {} /\ tools \subseteq problem.nodes
      /\ \A i, j \in used : \A k \in i..j : k \in used
      /\ \A i, j \in used : j = i + 1 => Interconnected(At(tools, i), At(tools, j))

----------------------------------------------------------------------------
(* Spans and maximal chains *)

First == <<1, 1>>

Last == <<Depth, Depth>>

\* Faulty form: the last layer is passed.
FollowingPastTheEnd == IF span[2] <= Depth THEN <<span[1], span[2] + 1>>
                       ELSE <<span[1] + 1, span[1] + 1>>

Following == IF span[2] < Depth THEN <<span[1], span[2] + 1>>
             ELSE <<span[1] + 1, span[1] + 1>>

InSpan(s) == {t \in problem.nodes : Layer[t] \in s[1]..s[2]}

KeepRight(i) == {t \in At(surviving, i + 1) : \E s \in At(surviving, i) : Edge(s, t)}

\* Faulty form: a source is kept if it has any neighbour at all.
KeepLeftAny(i) == {s \in At(surviving, i) : \E t \in problem.nodes : Edge(s, t)}

KeepLeft(i) == {s \in At(surviving, i) : \E t \in KeepRight(i) : Edge(s, t)}

Shrunk(i) == {t \in surviving : Layer[t] \notin {i, i + 1}} \cup KeepLeft(i) \cup KeepRight(i)

Stable == \A i \in span[1]..(span[2] - 1) : Shrunk(i) = surviving

Feasible == problem.required \subseteq Covered(surviving)

\* One comparison of two neighbouring layers in _max_chain.
DeletePass ==
  /\ phase \in {"witness", "spans", "gaps"}
  /\ \E i \in span[1]..(span[2] - 1) :
       /\ Shrunk(i) # surviving
       /\ surviving' = Shrunk(i)
  /\ UNCHANGED <<problem, phase, span, witness, pending, yielded, branches, routes,
                 best, status, cut>>

\* Considers the span s next, with all its tools.
Consider(s) == span' = s /\ surviving' = InSpan(s)

----------------------------------------------------------------------------
(* Anchors *)

Providers(c) == {t \in surviving : c \in problem.capabilities[t]}

Usefulness(t) == Cardinality(problem.capabilities[t] \cap problem.required)

\* providers[c] lists s before t.
TriedBefore(s, t) ==
  \/ Usefulness(s) > Usefulness(t)
  \/ Usefulness(s) = Usefulness(t) /\ s < t

Assignments == {a \in [problem.required -> surviving] :
                  \A c \in problem.required : a[c] \in Providers(c)}

\* walk reaches a before b.
ReachedBefore(a, b) ==
  \E c \in problem.required :
    /\ TriedBefore(a[c], b[c])
    /\ \A d \in problem.required : d < c => a[d] = b[d]

\* walk adds the tool of c to the forced ones and takes it out when it has tried
\* it.  A deeper level that tried the same tool has taken it out already, when
\* it stands before the deeper level's present choice, or when a level in
\* between has moved on and the deeper one has run to its end.
StillForced(a, c) ==
  \A d \in problem.required : (d > c /\ a[c] \in Providers(d)) =>
    /\ ~TriedBefore(a[c], a[d])
    /\ \A e \in problem.required : (c < e /\ e < d) =>
         \A t \in Providers(e) : ~TriedBefore(t, a[e])

Forced(a) == {a[c] : c \in {d \in problem.required : StillForced(a, d)}}

\* Faulty form: a former anchor need be within this one in one layer only.
SubsumedInSomeLayer(forced) ==
  \E old \in yielded : \E i \in span[1]..span[2] : At(old, i) \subseteq At(forced, i)

Subsumed(forced) == \E old \in yielded : old \subseteq forced

----------------------------------------------------------------------------
(* Branches *)

\* _complete goes on with the selection of a branch in layer i.
Passes(branch, forced, i) ==
  LET here == At(branch, i)
      left == At(branch, i - 1)
  IN  /\ here # {} /\ At(forced, i) \subseteq here
      /\ i > span[1] =>
           /\ \A t \in here : \E s \in left : Edge(s, t)
           /\ Interconnected(left, here)
      /\ problem.required \ Covered(UpTo(branch, i)) \subseteq Covered(From(surviving, i + 1))

Completions(forced) ==
  {branch \in SUBSET surviving :
     /\ \A i \in span[1]..span[2] : Passes(branch, forced, i)
     /\ problem.required \subseteq Covered(branch)}

\* Faulty form: a route that takes the place of larger ones leaves them in.
InsertKeepingLarger(kept, route) ==
  IF \E old \in kept : old \subseteq route THEN kept ELSE kept \cup {route}

\* _pareto_insert
ParetoInsert(kept, route) ==
  IF \E old \in kept : old \subseteq route /\ old # route THEN kept
  ELSE {old \in kept : ~(route \subseteq old /\ route # old)} \cup {route}

----------------------------------------------------------------------------
(* covered_capabilities *)

\* The sorted tuple of new precedes that of old, both having the same length.
SortsBefore(new, old) ==
  \E c \in new \ old : \A d \in old \ new : c < d

Better(new, old) ==
  \/ Cardinality(new) > Cardinality(old)
  \/ Cardinality(new) = Cardinality(old) /\ SortsBefore(new, old)

----------------------------------------------------------------------------
(* Steps *)

Missing == problem.required \ Covered(problem.nodes)

Init ==
  /\ problem \in Problems
  /\ phase = "start" /\ span = First /\ surviving = InSpan(First)
  /\ witness = {} /\ pending = {} /\ yielded = {} /\ branches = {}
  /\ routes = {} /\ best = {} /\ status = "open" /\ cut = FALSE

\* analyze asks the registry for providers before it searches.
Start ==
  /\ phase = "start"
  /\ IF Missing = {} THEN phase' = "witness" /\ status' = status
                    ELSE phase' = "done" /\ status' = "missing"
  /\ UNCHANGED <<problem, span, surviving, witness, pending, yielded, branches, routes,
                 best, cut>>

\* _feasible_witness: the first span whose chain covers what is required.
FindWitness ==
  /\ phase = "witness" /\ Stable
  /\ IF Feasible
     THEN /\ witness' = surviving /\ phase' = "spans" /\ Consider(First)
     ELSE /\ witness' = witness
          /\ IF span = Last THEN phase' = "gaps" /\ Consider(First)
             ELSE phase' = "witness" /\ Consider(Following)
  /\ UNCHANGED <<problem, pending, yielded, branches, routes, best, status, cut>>

\* The scenario is feasible: what remains is the ambiguity and the confidence
\* of its resolution.
Conclude ==
  /\ phase' = "done"
  /\ status' \in {"covered", "ambiguous", "low confidence"}
  /\ routes' = IF routes = {} THEN {witness} ELSE routes

LeaveSpan ==
  IF span = Last THEN Conclude /\ UNCHANGED <<span, surviving>>
  ELSE phase' = "spans" /\ Consider(Following) /\ UNCHANGED <<routes, status>>

\* Opens the span, unless it cannot have a route.
OpenSpan ==
  /\ phase = "spans" /\ Stable
  /\ IF Feasible /\ \A i \in span[1]..span[2] : At(surviving, i) # {}
     THEN /\ pending' = Assignments /\ yielded' = {} /\ phase' = "anchors"
          /\ UNCHANGED <<span, surviving, routes, status>>
     ELSE LeaveSpan /\ UNCHANGED <<pending, yielded>>
  /\ UNCHANGED <<problem, witness, branches, best, cut>>

\* walk yields the next assignment's forced tools.
NextAnchor ==
  /\ phase = "anchors" /\ Cardinality(routes) < Limit
  /\ \E a \in pending :
       /\ \A b \in pending : b # a => ReachedBefore(a, b)
       /\ pending' = pending \ {a}
       /\ IF Subsumed(Forced(a))
          THEN UNCHANGED <<phase, yielded, branches>>
          ELSE /\ phase' = "branches"
               /\ yielded' = yielded \cup {Forced(a)}
               /\ branches' = Completions(Forced(a))
  /\ UNCHANGED <<problem, span, surviving, witness, routes, best, status, cut>>

\* A branch of _complete reaches the last layer.
EndBranch ==
  /\ phase = "branches" /\ Cardinality(routes) < Limit
  /\ \E branch \in branches :
       /\ branches' = branches \ {branch}
       /\ routes' = ParetoInsert(routes, branch)
  /\ UNCHANGED <<problem, phase, span, surviving, witness, pending, yielded, best, status, cut>>

\* All branches of the anchor have ended, or its slice of the budget has.
LeaveAnchor ==
  /\ phase = "branches" /\ Cardinality(routes) < Limit
  /\ phase' = "anchors"
  /\ branches' = {}
  /\ cut' = (cut \/ branches # {})
  /\ UNCHANGED <<problem, span, surviving, witness, pending, yielded, routes, best, status>>

CloseSpan ==
  /\ phase = "anchors" /\ pending = {} /\ Cardinality(routes) < Limit
  /\ LeaveSpan
  /\ UNCHANGED <<problem, witness, pending, yielded, branches, best, cut>>

\* As many routes as wanted, or the whole budget spent.
StopEarly ==
  /\ phase \in {"anchors", "branches"}
  /\ cut' = (cut \/ Cardinality(routes) < Limit)
  /\ branches' = {} /\ pending' = {}
  /\ Conclude
  /\ UNCHANGED <<problem, span, surviving, witness, yielded, best>>

\* covered_capabilities: there is no route, what is the most that one covers?
WeighSpan ==
  /\ phase = "gaps" /\ Stable
  /\ LET here == Covered(surviving) \cap problem.required
     IN  best' = IF Better(here, best) THEN here ELSE best
  /\ IF span = Last
     THEN /\ phase' = "done" /\ status' = "disconnected" /\ UNCHANGED <<span, surviving>>
     ELSE /\ Consider(Following) /\ UNCHANGED <<phase, status>>
  /\ UNCHANGED <<problem, witness, pending, yielded, branches, routes, cut>>

Next == \/ Start \/ DeletePass \/ FindWitness \/ OpenSpan \/ NextAnchor \/ EndBranch
        \/ LeaveAnchor \/ CloseSpan \/ StopEarly \/ WeighSpan

Spec == Init /\ [][Next]_vars

----------------------------------------------------------------------------
(* Properties *)

Tools == SUBSET Tool

TypeOK ==
  /\ problem \in Problems
  /\ phase \in {"start", "witness", "spans", "anchors", "branches", "gaps", "done"}
  /\ span \in (1..Depth) \X (1..Depth) /\ span[1] <= span[2]
  /\ surviving \in Tools /\ witness \in Tools
  /\ pending \subseteq [problem.required -> Tool]
  /\ yielded \subseteq Tools /\ branches \subseteq Tools /\ routes \subseteq Tools
  /\ best \subseteq problem.required
  /\ status \in {"open", "covered", "ambiguous", "low confidence", "disconnected", "missing"}
  /\ cut \in BOOLEAN

\* The routes that cover the scenario: the reference the search is held to.
Solutions == {tools \in SUBSET problem.nodes :
                IsRoute(tools) /\ problem.required \subseteq Covered(tools)}

\* Whatever the order of the branches and wherever the search is cut, what it
\* keeps are routes that cover the scenario, none of them part of another, and
\* no more than wanted (search, _pareto_insert).
KeepsSolutions ==
  /\ routes \subseteq Solutions
  /\ \A r, s \in routes : r \subseteq s => r = s
  /\ Cardinality(routes) <= Limit

\* The assignments, the anchors skipped as subsumed and the prunings of
\* _complete lose nothing: unless the search stopped early, every solution
\* contains one that is returned (RouteSearch's docstring: the union of the
\* anchored regions is the space of all legal selections).
NothingIsLost ==
  (phase = "done" /\ ~cut /\ Cardinality(routes) < Limit) =>
    \A tools \in Solutions : \E r \in routes : r \subseteq tools

\* What is kept is right, and all that is needed is kept.
SearchIsExact == KeepsSolutions /\ NothingIsLost

\* A scenario is reported uncovered exactly if no route covers it, and routes
\* are returned exactly if there are any, however early the search was cut;
\* what is reported as covered of a disconnected scenario is covered by one
\* route, and no route covers more (analyze, covered_capabilities).
VerdictIsExact ==
  phase = "done" =>
    /\ (status \in {"disconnected", "missing"}) = (Solutions = {})
    /\ (routes = {}) = (Solutions = {})
    /\ status = "disconnected" =>
         LET reach == {Covered(tools) \cap problem.required :
                         tools \in {x \in SUBSET problem.nodes : IsRoute(x)}}
         IN  /\ best \in reach
             /\ \A r \in reach : Cardinality(r) <= Cardinality(best)

=============================================================================
