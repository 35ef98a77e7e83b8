----------------------------- MODULE MCPruning -----------------------------
(* Three layers of one, two and two tools; every edge between neighbours.   *)
EXTENDS Pruning, TLC

CONSTANTS a, b, c,          \* capabilities
          o, f, v, u,       \* scenarios
          main, side,       \* categories
          v1, v2            \* versions

MCLayerOf  == 1 :> 1 @@ 2 :> 2 @@ 3 :> 2 @@ 4 :> 3 @@ 5 :> 3
MCProvides == 1 :> {a} @@ 2 :> {b} @@ 3 :> {b} @@ 4 :> {b, c} @@ 5 :> {c}
MCNeeds    == [t \in Name |-> IF t = 5 THEN {{2}} ELSE {}]
MCDeclared == [nodes |-> Name, edges |-> {<<1, 2>>, <<1, 3>>, <<2, 4>>, <<2, 5>>, <<3, 4>>, <<3, 5>>}]

MCExpected == o :> {b} @@ f :> {a, c} @@ v :> {a, b} @@ u :> {b}
MCCategory == o :> main @@ f :> main @@ v :> main @@ u :> side
MCBucketOf == o :> "optimization" @@ f :> "optimization" @@ v :> "validation" @@ u :> "sentinel"

\* One of the tools of a layer at a time.
OneSelection == [offered \in SUBSET Name |-> {{}} \cup {{t} : t \in offered}]
ShortWalks == Walks(MCDeclared, OneSelection)

Trials(s, i, traces) ==
  UNION {{Result(<<s, i>>, trace, verdict) : verdict \in Verdicts(trace)} : trace \in traces}

\* Two trials that count and one of a scenario held out, all kinds of them for
\* one version and one for the other.
Good == {w \in ShortWalks : RouteOf(w) = {1, 3, 4} /\ StatusOf(w) = "completed"}

Batch(traces) ==
  {<<first, held, second>> : first  \in Trials(o, 0, traces),
                             held   \in {r \in Trials(v, 0, Good) : r.verdict = "success"},
                             second \in {r \in Trials(f, 0, Good) : r.verdict = "failure"}}

MCBatches == v1 :> Batch(ShortWalks) @@ v2 :> {b2 \in Batch(Good) : b2[1].verdict = "success"}

\* A single edge or tool; one that leaves f without a route, and one that leaves
\* v and u a route through one pair of tools.
MCPatches ==
  {[edges |-> {e}, nodes |-> {}] : e \in MCDeclared.edges}
  \cup {[edges |-> {}, nodes |-> {t}] : t \in Name}
  \cup {[edges |-> {<<2, 5>>, <<3, 5>>}, nodes |-> {4}],
        [edges |-> {<<1, 2>>, <<3, 5>>}, nodes |-> {}]}

=============================================================================
