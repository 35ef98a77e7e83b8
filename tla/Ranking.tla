------------------------------ MODULE Ranking ------------------------------
(***************************************************************************)
(* From the trials of a slow run to the routes that may serve: profiles,   *)
(* eligibility, the Pareto frontier, tiers, and the catalog made of a      *)
(* ranking.  Rates and means are fractions <<numerator, denominator>> and  *)
(* are compared exactly; quality is in hundredths.  Confidence intervals,  *)
(* ties, tokens and the access counts, which only reports show, are left   *)
(* out.                                                                    *)
(*                                                                         *)
(* A row is [scenario, route, success, quality, latency, cost, label]: the *)
(* route a set of <<layer, tool>>, {} when none was observed, the label    *)
(* the topology version and router the trial was told; success, quality    *)
(* and cost may be None.                                                   *)
(***************************************************************************)
EXTENDS Integers, Sequences, FiniteSets, SequencesExt

CONSTANTS
  MinTrials,    \* RankConfig.min_trials
  CategoryOf,   \* [scenario -> category or None]
  Unknown       \* None

----------------------------------------------------------------------------
(* Fractions *)

Leq(x, y)  == x[1] * y[2] <= y[1] * x[2]
Less(x, y) == x[1] * y[2] < y[1] * x[2]

\* at most so many percent above it
Within(x, best, percent) == Leq(<<100 * x[1], x[2]>>, <<(100 + percent) * best[1], best[2]>>)

\* short of it by at most so many hundredths
Near(x, best, hundredths) == Leq(best, <<100 * x[1] + hundredths * x[2], 100 * x[2]>>)

\* The smallest, or with Less the other way round the largest, Unknown of none.
Smallest(set) == IF set = {} THEN Unknown ELSE CHOOSE x \in set : \A y \in set : Leq(x, y)
Largest(set)  == IF set = {} THEN Unknown ELSE CHOOSE x \in set : \A y \in set : Leq(y, x)

\* summarize; values is a function on the rows that have one.
Mean(values) ==
  IF DOMAIN values = {} THEN Unknown ELSE <<SumFunction(values), Cardinality(DOMAIN values)>>

\* sorted(values)[len(values) // 2], as the least that more than half do not exceed
Median(values) ==
  LET n == Cardinality(DOMAIN values) IN
  IF n = 0 THEN Unknown
  ELSE <<Min({v \in Range(values) : 2 * Cardinality({i \in DOMAIN values : values[i] <= v}) > n}), 1>>

----------------------------------------------------------------------------
(* Profiles *)

\* A field of some rows, of those that have it.
Known(rows, some, field) ==
  [i \in {j \in some : rows[j][field] # Unknown} |-> rows[i][field]]

Profile(rows, route) ==
  LET members   == {i \in DOMAIN rows : rows[i].route = route}
      evaluated == {i \in members : rows[i].success # Unknown}
      successes == Cardinality({i \in evaluated : rows[i].success})
  IN  [trials     |-> Cardinality(members),
       successes  |-> successes,
       categories |-> {CategoryOf[rows[i].scenario] : i \in members} \ {Unknown},
       value      |->
         [success |-> IF evaluated = {} THEN <<0, 1>> ELSE <<successes, Cardinality(evaluated)>>,
          quality |-> Mean(Known(rows, evaluated, "quality")),
          latency |-> Median(Known(rows, members, "latency")),
          cost    |-> Mean(Known(rows, members, "cost"))]]

\* rows_from_run and build_profiles: refused are rows of two labels, and rows
\* without a route.
Rankable(rows) ==
  /\ rows # <<>>
  /\ \A i, j \in DOMAIN rows : rows[i].label = rows[j].label
  /\ \E i \in DOMAIN rows : rows[i].route # {}

Profiles(rows) == [route \in {r.route : r \in ToSet(rows)} \ {{}} |-> Profile(rows, route)]

\* check_eligibility
Eligible(profiles) ==
  [route \in {r \in DOMAIN profiles : profiles[r].trials >= MinTrials} |-> profiles[route]]

----------------------------------------------------------------------------
(* The frontier *)

Better(dimension, x, y) ==
  IF dimension \in {"success", "quality"} THEN Less(y, x) ELSE Less(x, y)

\* What both have a value of.
Shared(p, q) == {d \in DOMAIN p.value : p.value[d] # Unknown /\ q.value[d] # Unknown}

\* Faulty form: better somewhere is enough.
DominatesSomewhere(p, q) == \E d \in Shared(p, q) : Better(d, p.value[d], q.value[d])

\* _dominates
Dominates(p, q) ==
  /\ \E d \in Shared(p, q) : Better(d, p.value[d], q.value[d])
  /\ \A d \in Shared(p, q) : ~Better(d, q.value[d], p.value[d])

\* build_frontier: who dominates each route; the frontier is where nobody does.
Dominators(profiles) ==
  [route \in DOMAIN profiles |->
     {r \in DOMAIN profiles : Dominates(profiles[r], profiles[route])}]

FrontierOf(dominators) == {r \in DOMAIN dominators : dominators[r] = {}}

----------------------------------------------------------------------------
(* Tiers *)

\* TierConfig, in hundredths; the commands take no other
Tolerance == [success |-> 2, quality |-> 5, latency |-> 20,
              balanced |-> [quality |-> 10, latency |-> 50, cost |-> 50]]

\* assign_tiers
TiersOf(profiles) ==
  LET delivered == {r \in DOMAIN profiles : profiles[r].successes > 0}
      measured  == IF delivered = {} THEN DOMAIN profiles ELSE delivered
      Values(d) == {profiles[r].value[d] : r \in measured} \ {Unknown}
      success   == Largest(Values("success"))
      latency   == Smallest(Values("latency"))
      quality   == Largest(Values("quality"))
      cost      == Smallest(Values("cost"))
      Succeeds(v) == Near(v.success, success, Tolerance.success)
      Fast(v) ==
        v.latency # Unknown /\ latency # Unknown /\ Succeeds(v) /\ Within(v.latency, latency, Tolerance.latency)
      Quality(v) ==
        /\ v.quality # Unknown /\ quality # Unknown /\ Succeeds(v)
        /\ Near(<<v.quality[1], 100 * v.quality[2]>>, <<quality[1], 100 * quality[2]>>, Tolerance.quality)
      Balanced(v) ==
        /\ Succeeds(v)
        /\ latency = Unknown \/ (v.latency # Unknown /\ Within(v.latency, latency, Tolerance.balanced.latency))
        /\ \/ quality = Unknown
           \/ /\ v.quality # Unknown
              /\ Near(<<v.quality[1], 100 * v.quality[2]>>, <<quality[1], 100 * quality[2]>>,
                   Tolerance.balanced.quality)
        /\ v.cost = Unknown \/ cost = Unknown \/ Within(v.cost, cost, Tolerance.balanced.cost)
  IN  [r \in DOMAIN profiles |->
         {t \in {"fast", "quality", "balanced"} :
            LET v == profiles[r].value IN
            \/ t = "fast" /\ Fast(v)
            \/ t = "quality" /\ Quality(v)
            \/ t = "balanced" /\ Balanced(v)}]

\* _category_rankings: the same within each category
CategoryRankings(profiles) ==
  [c \in UNION {profiles[r].categories : r \in DOMAIN profiles} |->
     LET subset == [r \in {x \in DOMAIN profiles : c \in profiles[x].categories} |-> profiles[r]]
     IN  [frontier |-> FrontierOf(Dominators(subset)), tiers |-> TiersOf(subset)]]

----------------------------------------------------------------------------
(* The ranking and the catalog *)

\* build_ranking_report
RankingOf(rows) ==
  LET profiles == Profiles(rows)
      ranked   == Eligible(profiles)
  IN  [label      |-> rows[1].label,
       profiles   |-> profiles,
       ranked     |-> DOMAIN ranked,
       dominators |-> Dominators(ranked),
       tiers      |-> TiersOf(ranked),
       categories |-> CategoryRankings(ranked)]

\* Faulty form: the layers of a route are looked up, its tools are not.
PlacedLayers(d, route) == \A p \in route : p[1] \in d.orders

\* _verify_against_topology
Placed(d, route) ==
  \A p \in route : p[1] \in d.orders /\ p[2] \in d.tools /\ d.layer[p[2]] = p[1]

\* build_catalog, all or nothing; {} where it raises.  The label it is to match
\* is by default the ranking's own.
CatalogOf(d, ranking) ==
  IF \A route \in ranking.ranked : Placed(d, route) THEN ranking.ranked ELSE {}

\* candidate_groups, the routes in them; {} is a refusal.  The order of the
\* groups is in OnlineServing.
Selectable(ranking, catalog, category) ==
  {route \in catalog : category = Unknown \/ category \in ranking.profiles[route].categories}

=============================================================================
