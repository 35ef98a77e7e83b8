---------------------------- MODULE MCWorkspace ----------------------------
(* Two layers of two tools, a composite in the place of one of them.        *)
EXTENDS Workspace, TLC

CONSTANTS a, b,         \* capabilities
          x,            \* a word that is no capability name
          g, q,         \* scenarios
          main,
          dt, du        \* types

MCExpected == g :> {a, b} @@ q :> {}
MCCategory == g :> main @@ q :> "uncategorized"

Tool(name, layer, caps, consumes, produces) ==
  [name |-> name, layer |-> layer, composite |-> FALSE, workers |-> Everyone,
   providers |-> Everyone, capabilities |-> caps, consumes |-> consumes,
   produces |-> produces, bound |-> TRUE]

Of(tools) ==
  [sound |-> TRUE, tools |-> tools,
   layers |-> <<[name |-> "first", order |-> 0], [name |-> "second", order |-> 1]>>]

T1 == Tool(1, "first", {a}, {}, {dt})
T2 == Tool(2, "first", {}, {}, {dt})
T3 == Tool(3, "second", {b}, {}, {})
T4 == Tool(4, "second", {b}, {dt}, {})

Composite ==
  [name |-> 4, layer |-> "second", composite |-> TRUE, workers |-> Everyone,
   providers |-> Everyone, capabilities |-> {b}, consumes |-> {dt}, produces |-> {},
   inner |-> "inner", route |-> <<{1}, {3}>>]

MCInner == "inner" :> Of(<<T1, T3>>)

MCFiles ==
  {Of(<<T1, T2, T3, T4>>),
   Of(<<[T1 EXCEPT !.workers = Only({4})], T2, [T3 EXCEPT !.bound = FALSE], Composite>>),
   Of(<<T1, [T2 EXCEPT !.capabilities = {a}], [T3 EXCEPT !.capabilities = {}], T4>>),
   Of(<<T1, [T3 EXCEPT !.layer = "first"], T4>>),
   Of(<<T1, T2, [T3 EXCEPT !.capabilities = {}]>>),
   [Of(<<T1>>) EXCEPT !.sound = FALSE],
   Of(<<T1, T3, [Composite EXCEPT !.route = <<{3}, {1}>>]>>),
   \* of the fingerprint of the first one
   Of(<<T1, [T2 EXCEPT !.produces = {dt, du}], [T3 EXCEPT !.consumes = {du}], T4>>),
   Of(<<[T1 EXCEPT !.produces = {}], T2, T3, T4>>)}

MCSpecs == {<<1, 2>>, <<1, 1>>}

MCAnswers ==
  {[required |-> {a}, optional |-> {}, hints |-> {}, confident |-> TRUE],
   [required |-> {b}, optional |-> {}, hints |-> {}, confident |-> FALSE]}

MCRouters ==
  {[scripted |-> FALSE,
    answers  |-> {None, [finish |-> TRUE], [finish |-> FALSE, selected |-> {1}],
                  [finish |-> FALSE, selected |-> {3}]}],
   [scripted |-> TRUE, answers |-> {{1, 2}, {4}, {}}]}

MCProposalAnswers == {{[tool |-> 2, capabilities |-> {a, x}], [tool |-> 4, capabilities |-> {b}]}}

MCOldSeeds == {[print |-> None, of |-> None, routes |-> g :> {<<0, 1>>, <<1, 3>>} @@ q :> None]}

MCFlags == {{"save"}, {"compare", "save"}, {"out"}}

First == {<<0, 1>>, <<1, 3>>}
Both  == {<<0, 1>>, <<0, 2>>, <<1, 3>>}
Rest  == {<<0, 1>>, <<0, 2>>, <<1, 3>>, <<1, 4>>}

Trial(s, route, success, quality, latency, cost) ==
  [scenario |-> s, route |-> route, success |-> success, quality |-> quality,
   latency |-> latency, cost |-> cost, label |-> "declared"]

\* Two trials of each of two scenarios, or two on each of three routes.
MCRuns ==
  {<<Trial(g, First, TRUE, 80, 20, 1), Trial(g, r1, s1, 70, 10, 1),
     Trial(q, Rest, TRUE, 75, m[1], m[2]), Trial(q, r2, TRUE, 60, m[1], m[2])>> :
     r1 \in {First, Both}, s1 \in {TRUE, FALSE}, r2 \in {Rest, {}},
     m \in {<<8, 3>>, <<30, 3>>, <<8, None>>}}
  \cup
  {<<Trial(g, First, TRUE, 80, 20, 1), Trial(g, First, TRUE, 80, 20, 1),
     Trial(g, Both, TRUE, 70, l1, 1), Trial(g, Both, TRUE, 70, l1, 1),
     Trial(q, Rest, TRUE, 75, 8, 2), Trial(q, Rest, TRUE, 75, 8, 2)>> : l1 \in {10, 25}}

\* Bound: baselines, reports, proposals and runs are not combined, nor seeds with
\* any of them but the report they came from, nor a fast run with a slow one.
OneTrack ==
  /\ Cardinality({f \in {"baseline", "report", "proposals", "run"} :
                    \/ f = "baseline" /\ baseline # None
                    \/ f = "report" /\ report # None
                    \/ f = "proposals" /\ proposals # None
                    \/ f = "run" /\ run # None}) <= 1
  /\ seeds \notin OldSeeds \cup {None} => baseline = None /\ proposals = None /\ run = None
  /\ seeds \in OldSeeds => baseline = None /\ proposals = None /\ report = None
  /\ job # None => run = None /\ proposals = None /\ seeds = None

=============================================================================
