----------------------------- MODULE Expansion -----------------------------
(***************************************************************************)
(* How a layer is explored atop the tools a seed route has in it.          *)
(***************************************************************************)
EXTENDS Naturals, FiniteSets, Sequences

CONSTANT MaxTools       \* max_tools_per_layer

\* sorted(tools)[:n]; tools are numbered in the order of their names.
FirstOf(tools, n) == {t \in tools : Cardinality({s \in tools : s < t}) < n}

\* The k-th of the tools in that order.
Nth(tools, k) == CHOOSE t \in tools : Cardinality({s \in tools : s <= t}) = k

\* The seed's tools and one more, cut to the limit.
Extended(baseline, sibling) == FirstOf(baseline \cup {sibling}, MaxTools)

Has(sets, tools) == \E i \in DOMAIN sets : sets[i] = tools

\* The plan with these tools as a further set, if it has no such set yet.
Widened(sets, tools) == IF Has(sets, tools) THEN sets ELSE Append(sets, tools)

\* Faulty form: no more sets than tools in a set.
PlansCut(baseline, siblings) ==
  LET plan[k \in 0..Cardinality(siblings)] ==
        IF k = 0 THEN <<baseline>>
        ELSE IF Len(plan[k - 1]) = MaxTools THEN plan[k - 1]
        ELSE Widened(plan[k - 1], Extended(baseline, Nth(siblings, k)))
  IN  plan

\* The plans after none, one, two, ... of the siblings.
Plans(baseline, siblings) ==
  LET plan[k \in 0..Cardinality(siblings)] ==
        IF k = 0 THEN <<baseline>>
        ELSE Widened(plan[k - 1], Extended(baseline, Nth(siblings, k)))
  IN  plan

\* build_expansion_plan: the seed's tools of the layer as far as they are
\* available, then these with each sibling in turn.
CandidateSets(available, seed) ==
  LET baseline == seed \cap available
      siblings == available \ baseline
  IN  Plans(baseline, siblings)[Cardinality(siblings)]

\* The set a trial with this index runs.
SetOfTrial(available, seed, index) ==
  LET sets == CandidateSets(available, seed) IN sets[(index % Len(sets)) + 1]

=============================================================================
