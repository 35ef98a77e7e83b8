-------------------------- MODULE Workspace_proofs --------------------------
(***************************************************************************)
(* What the files of a workspace promise each other, for every topology    *)
(* file, suite, specification, slow run and answer of a model; and, in the *)
(* last part, what rounds of pruning leave of a declaration, whatever it   *)
(* is (TopologyVersions).                                                  *)
(*                                                                         *)
(* The walks of RunRecords and the plans of Expansion are defined by       *)
(* recursion along the layers or the siblings.  Recursion and induction    *)
(* along an interval are by the least index where something fails.         *)
(***************************************************************************)
EXTENDS Workspace, TopologyVersions, SequenceTheorems, FiniteSetTheorems, WellFoundedInduction,
        TLAPS

----------------------------------------------------------------------------
(* Fast runs and the baseline *)

\* Whatever the baseline is, it is one of a report of this suite, and a fast run
\* compares what it found with what it found there when it began.
RunsCompareWithTheHeld ==
  /\ baseline \in {None, Torn} \cup Statuses
  /\ job # None =>
       /\ DOMAIN job = {"at", "flags", "held", "before", "now"}
       /\ BaselineOf(job.now) \in Statuses
       /\ job.at = "reported" => job.held = baseline /\ job.before = None
       /\ job.before # None => job.before = job.held /\ job.held \in Statuses
  /\ last # None /\ last.at = "fast" /\ last.diff # None =>
       /\ last.held \in Statuses /\ BaselineOf(last.now) \in Statuses
       /\ last.diff = Diff(last.held, last.now)
       /\ last.fails = Regressed(last.held, last.now)

\* An analysis ends in one of the three statuses.
LEMMA AnalysedStatus ==
  ASSUME NEW d, NEW view, NEW required, NEW confident
  PROVE  World(d)!Analysed(view, required, confident).status \in {"covered", "uncertain", "uncovered"}
BY DEF World!Analysed, World!Outcome

\* So does that of a scenario, with or without a resolver.
LEMMA AnalyseStatus ==
  ASSUME NEW d, NEW view, NEW s, NEW resolution
  PROVE  World(d)!AnalyseScenario(view, s, resolution).status \in {"covered", "uncertain", "uncovered"}
BY AnalysedStatus DEF World!AnalyseScenario, World!Outcome

\* A report names every scenario of the suite, with one of the three statuses.
LEMMA ReportStatus ==
  ASSUME NEW d, NEW e, NEW view, NEW resolver
  PROVE  BaselineOf(ReportFile(e, World(d)!Report(view, Scenario, resolver))) \in Statuses
<1>. DEFINE R == World(d)!Report(view, Scenario, resolver)
<1>1. DOMAIN R = Scenario /\ \A s \in Scenario : R[s].status \in {"covered", "uncertain", "uncovered"}
  BY AnalyseStatus DEF World!Report
<1>. HIDE DEF R
<1>2. \A s \in Scenario : ReportFile(e, R)[s].status = R[s].status
  BY <1>1 DEF ReportFile
<1>3. DOMAIN ReportFile(e, R) = Scenario
  BY <1>1 DEF ReportFile
<1>. DEFINE file == ReportFile(e, R)
<1>. HIDE DEF file
<1>4. DOMAIN file = Scenario
      /\ \A s \in Scenario : file[s].status \in {"covered", "uncertain", "uncovered"}
  BY <1>1, <1>2, <1>3 DEF file
<1>5. BaselineOf(file) \in Statuses
  BY <1>4 DEF BaselineOf, Statuses
<1>. QED
  BY <1>5 DEF file, R

\* There is no baseline and no run at first.
LEMMA RunsCompareStart ==
  ASSUME Init
  PROVE  RunsCompareWithTheHeld
BY DEF Init, RunsCompareWithTheHeld

\* A run keeps to what it began with, and what it saves is of this suite.
LEMMA RunsCompareStep ==
  ASSUME RunsCompareWithTheHeld, [Next]_vars
  PROVE  RunsCompareWithTheHeld'
<1>1. ASSUME UNCHANGED <<baseline, job>>, last' = None \/ last'.at # "fast" \/ last' = last
      PROVE  RunsCompareWithTheHeld'
  BY <1>1 DEF RunsCompareWithTheHeld
<1>2. CASE \E answers \in [Queries -> Answers] \cup {None} : StartFast(answers)
  <2>1. PICK answers : StartFast(answers)
    BY <1>2
  <2>2. PICK flags \in Flags :
          job' = [at |-> "reported", flags |-> flags, held |-> baseline, before |-> None,
                  now |-> ReportFile(present, World(present)!Report(View(present), Scenario,
                                                Resolutions(answers)))]
    BY <2>1 DEF StartFast
  <2>3. baseline' = baseline /\ last' = None
    BY <2>1 DEF StartFast
  <2>4. BaselineOf(job'.now) \in Statuses
    BY <2>2, ReportStatus
  <2>. QED
    BY <2>2, <2>3, <2>4 DEF RunsCompareWithTheHeld
<1>3. CASE LoadBaseline
  <2>1. job # None /\ job.at = "reported" /\ baseline' = baseline /\ last' = last
    BY <1>3 DEF LoadBaseline
  <2>2. \/ job' = None
        \/ job' = [job EXCEPT !.at = "compared"]
        \/ baseline \notin {None, Torn} /\ job' = [job EXCEPT !.at = "compared", !.before = baseline]
    BY <1>3 DEF LoadBaseline
  <2>3. CASE job' = None
    BY <2>1, <2>3 DEF RunsCompareWithTheHeld
  <2>4. CASE job' = [job EXCEPT !.at = "compared"]
    BY <2>1, <2>4 DEF RunsCompareWithTheHeld
  <2>5. CASE baseline \notin {None, Torn} /\ job' = [job EXCEPT !.at = "compared", !.before = baseline]
    BY <2>1, <2>5 DEF RunsCompareWithTheHeld
  <2>. QED
    BY <2>2, <2>3, <2>4, <2>5
<1>4. CASE SaveBaseline
  BY <1>4 DEF SaveBaseline, RunsCompareWithTheHeld
<1>5. CASE PrintReport
  BY <1>5 DEF PrintReport, RunsCompareWithTheHeld
<1>6. CASE WriteReport
  BY <1>6 DEF WriteReport, RunsCompareWithTheHeld
<1>7. CASE Crash
  BY <1>7 DEF Crash, RunsCompareWithTheHeld
<1>8. CASE \E file \in Files : Edit(file)
  BY <1>1, <1>8 DEF Edit
<1>9. CASE \E draft \in Drafts : Scaffold(draft)
  BY <1>1, <1>9 DEF Scaffold
<1>10. CASE \E answer \in ProposalAnswers : Propose(answer)
  BY <1>1, <1>10 DEF Propose
<1>11. CASE \E tools \in SUBSET Name, inPlace \in BOOLEAN : Apply(tools, inPlace)
  BY <1>1, <1>11 DEF Apply
<1>12. CASE SeedsExport
  BY <1>1, <1>12 DEF SeedsExport
<1>13. CASE \E router \in Routers : SeedsDiscover(router)
  BY <1>1, <1>13 DEF SeedsDiscover
<1>14. CASE \E basefast, allowed \in BOOLEAN : RunSlow(basefast, allowed)
  BY <1>1, <1>14 DEF RunSlow
<1>15. CASE RankRun
  BY <1>1, <1>15 DEF RankRun
<1>16. CASE \E category \in {Category[s] : s \in Scenario} \cup {None} : Select(category)
  BY <1>1, <1>16 DEF Select
<1>17. CASE UNCHANGED vars
  BY <1>1, <1>17 DEF vars
<1>. QED
  BY <1>2, <1>3, <1>4, <1>5, <1>6, <1>7, <1>8, <1>9, <1>10, <1>11, <1>12, <1>13, <1>14, <1>15,
     <1>16, <1>17 DEF Next

\* A difference to what was held tells of every loss.
LEMMA LossIsReportedThen ==
  ASSUME RunsCompareWithTheHeld
  PROVE  LossIsReported
<1>. SUFFICES ASSUME last # None, last.at = "fast", last.diff # None
              PROVE  LET lost == {s \in Scenario : last.held[s] = "covered" /\ last.now[s].status # "covered"}
                     IN  /\ lost \subseteq last.diff.changed /\ (lost # {} => last.fails)
                         /\ {s \in lost : last.now[s].status = "uncovered"} \subseteq last.diff.newly_uncovered
  BY DEF LossIsReported
<1>. DEFINE held == last.held
            now == last.now
            lost == {s \in Scenario : held[s] = "covered" /\ now[s].status # "covered"}
<1>1. /\ held \in Statuses /\ BaselineOf(now) \in Statuses
      /\ last.diff = Diff(held, now) /\ last.fails = Regressed(held, now)
  BY DEF RunsCompareWithTheHeld
<1>2. DOMAIN held = Scenario /\ DOMAIN now = Scenario
  BY <1>1 DEF Statuses, BaselineOf
<1>. HIDE DEF held, now
<1>3. \A s \in lost : held[s] # now[s].status /\ s \in Scenario
  OBVIOUS
<1>4. lost \subseteq Diff(held, now).changed
  BY <1>2, <1>3 DEF Diff
<1>5. lost # {} => Regressed(held, now)
  BY <1>2, <1>3 DEF Regressed
<1>6. {s \in lost : now[s].status = "uncovered"} \subseteq Diff(held, now).newly_uncovered
  BY <1>2, <1>3 DEF Diff
<1>. QED
  BY <1>1, <1>4, <1>5, <1>6 DEF held, now

----------------------------------------------------------------------------
(* Rankings and what is selected of them *)

\* The ranking was made of rows of a slow run, and select offers what it names.
RankingIsOfRows ==
  /\ run \in Runs \cup {None}
  /\ ranking # None =>
       ranking.source \in Runs /\ Rank!Rankable(ranking.source)
         /\ ranking.of = Rank!RankingOf(ranking.source)
  /\ last # None /\ last.at = "selected" =>
       /\ ranking # None
       /\ last.offered = Rank!Selectable(ranking.of, Rank!CatalogOf(present, ranking.of), last.category)

\* There is no ranking at first.
LEMMA RankingIsOfRowsStart ==
  ASSUME Init
  PROVE  RankingIsOfRows
BY DEF Init, RankingIsOfRows

\* Whatever changes the topology, the rows or the ranking withdraws what was offered.
LEMMA RankingIsOfRowsStep ==
  ASSUME RankingIsOfRows, [Next]_vars
  PROVE  RankingIsOfRows'
<1>1. ASSUME run' = run \/ run' \in Runs, UNCHANGED ranking, last' = None
      PROVE  RankingIsOfRows'
  BY <1>1 DEF RankingIsOfRows
<1>2. ASSUME UNCHANGED <<run, ranking, present>>, last' = last \/ last'.at # "selected"
      PROVE  RankingIsOfRows'
  <2>1. run' \in Runs \cup {None}
    BY <1>2 DEF RankingIsOfRows
  <2>2. ranking' # None => /\ ranking'.source \in Runs /\ Rank!Rankable(ranking'.source)
                           /\ ranking'.of = Rank!RankingOf(ranking'.source)
    BY <1>2 DEF RankingIsOfRows
  <2>3. last' # None /\ last'.at = "selected" =>
          /\ ranking' # None
          /\ last'.offered = Rank!Selectable(ranking'.of, Rank!CatalogOf(present', ranking'.of),
                                             last'.category)
    BY <1>2 DEF RankingIsOfRows
  <2>. QED
    BY <2>1, <2>2, <2>3 DEF RankingIsOfRows
<1>3. CASE \E answers \in [Queries -> Answers] \cup {None} : StartFast(answers)
  BY <1>1, <1>3 DEF StartFast
<1>4. CASE LoadBaseline
  BY <1>2, <1>4 DEF LoadBaseline
<1>5. CASE SaveBaseline
  BY <1>2, <1>5 DEF SaveBaseline
<1>6. CASE PrintReport
  BY <1>2, <1>6 DEF PrintReport
<1>7. CASE WriteReport
  BY <1>2, <1>7 DEF WriteReport
<1>8. CASE Crash
  BY <1>2, <1>8 DEF Crash
<1>9. CASE \E file \in Files : Edit(file)
  BY <1>1, <1>9 DEF Edit
<1>10. CASE \E draft \in Drafts : Scaffold(draft)
  BY <1>1, <1>10 DEF Scaffold
<1>11. CASE \E answer \in ProposalAnswers : Propose(answer)
  BY <1>1, <1>11 DEF Propose
<1>12. CASE \E tools \in SUBSET Name, inPlace \in BOOLEAN : Apply(tools, inPlace)
  BY <1>1, <1>12 DEF Apply
<1>13. CASE SeedsExport
  BY <1>1, <1>13 DEF SeedsExport
<1>14. CASE \E router \in Routers : SeedsDiscover(router)
  BY <1>1, <1>14 DEF SeedsDiscover
<1>15. CASE \E basefast, allowed \in BOOLEAN : RunSlow(basefast, allowed)
  <2>1. PICK basefast \in BOOLEAN, allowed \in BOOLEAN : RunSlow(basefast, allowed)
    BY <1>15
  <2>2. run' \in Runs /\ UNCHANGED ranking /\ last' = None
    BY <2>1 DEF RunSlow, Observable
  <2>. QED
    BY <1>1, <2>2
<1>16. CASE RankRun
  <2>1. run # None /\ Rank!Rankable(run) /\ run' = run /\ last' = None
        /\ ranking' = [source |-> run, of |-> Rank!RankingOf(run)]
    BY <1>16 DEF RankRun
  <2>2. run \in Runs
    BY <2>1 DEF RankingIsOfRows
  <2>. QED
    BY <2>1, <2>2 DEF RankingIsOfRows
<1>17. CASE \E category \in {Category[s] : s \in Scenario} \cup {None} : Select(category)
  <2>1. PICK category : Select(category)
    BY <1>17
  <2>2. /\ ranking # None /\ UNCHANGED <<run, ranking, present>>
        /\ last' = [at |-> "selected", category |-> category,
                    offered |-> Rank!Selectable(ranking.of, Rank!CatalogOf(present, ranking.of), category)]
    BY <2>1 DEF Select
  <2>3. last'.offered = Rank!Selectable(ranking'.of, Rank!CatalogOf(present', ranking'.of),
                                        last'.category)
    BY <2>2
  <2>4. run' \in Runs \cup {None}
    BY <2>2 DEF RankingIsOfRows
  <2>5. ranking'.source \in Runs /\ Rank!Rankable(ranking'.source)
          /\ ranking'.of = Rank!RankingOf(ranking'.source)
    BY <2>2 DEF RankingIsOfRows
  <2>. QED
    BY <2>2, <2>3, <2>4, <2>5 DEF RankingIsOfRows
<1>18. CASE UNCHANGED vars
  BY <1>2, <1>18 DEF vars
<1>. QED
  BY <1>3, <1>4, <1>5, <1>6, <1>7, <1>8, <1>9, <1>10, <1>11, <1>12, <1>13, <1>14, <1>15,
     <1>16, <1>17, <1>18 DEF Next

\* The rows of a route
Members(rows, route) == {i \in DOMAIN rows : rows[i].route = route}

\* The category of a scenario in a ranking, None where there is none.
CategoryFor(s) == IF Category[s] = "uncategorized" THEN None ELSE Category[s]

\* The ranked routes of a ranking are those of enough rows.
LEMMA RankedRoutes ==
  ASSUME NEW rows
  PROVE  /\ Rank!RankingOf(rows).profiles = Rank!Profiles(rows)
         /\ Rank!RankingOf(rows).ranked =
              {r \in DOMAIN Rank!Profiles(rows) : Rank!Profiles(rows)[r].trials >= MinTrials}
         /\ Rank!RankingOf(rows).dominators = Rank!Dominators(Rank!Eligible(Rank!Profiles(rows)))
BY DEF Rank!RankingOf, Rank!Eligible

\* A module's instance has copies of what it takes from the library.
LEMMA RankCardinality ==
  ASSUME NEW S
  PROVE  Rank!Cardinality(S) = Cardinality(S)
BY DEF Rank!Cardinality, Cardinality

\* The rows of a run are rows.
LEMMA RowsAreTyped ==
  ASSUME NEW rows \in Seq(Row)
  PROVE  /\ Len(rows) \in Nat /\ DOMAIN rows = 1..Len(rows)
         /\ \A i \in DOMAIN rows : rows[i] \in Row
OBVIOUS

\* A route of the rows has its profile.
LEMMA ProfileOf ==
  ASSUME NEW rows \in Seq(Row), NEW route \in DOMAIN Rank!Profiles(rows)
  PROVE  /\ Rank!Profiles(rows)[route] = Rank!Profile(rows, route)
         /\ Rank!Profiles(rows)[route].trials = Cardinality(Members(rows, route))
         /\ Rank!Profiles(rows)[route].categories =
              {CategoryFor(rows[i].scenario) : i \in Members(rows, route)} \ {None}
<1>1. Rank!Profiles(rows)[route] = Rank!Profile(rows, route)
  BY DEF Rank!Profiles
<1>2. Rank!Profile(rows, route).trials = Cardinality(Members(rows, route))
  BY RankCardinality DEF Rank!Profile, Members
<1>3. \A i \in Members(rows, route) : rows[i].scenario \in Scenario
  BY RowsAreTyped DEF Members, Row
<1>. DEFINE cat == [s \in Scenario |-> IF Category[s] = "uncategorized" THEN None ELSE Category[s]]
<1>4. Rank!Profile(rows, route).categories =
        {cat[rows[i].scenario] : i \in {i \in DOMAIN rows : rows[i].route = route}} \ {None}
  BY DEF Rank!Profile
<1>5. \A s \in Scenario : cat[s] = CategoryFor(s)
  BY DEF CategoryFor
<1>. HIDE DEF cat
<1>6. {cat[rows[i].scenario] : i \in Members(rows, route)}
        = {CategoryFor(rows[i].scenario) : i \in Members(rows, route)}
  BY <1>3, <1>5
<1>. QED
  BY <1>1, <1>2, <1>4, <1>6 DEF Members

\* What is selected of a ranking of rows is in the rows.
LEMMA CandidatesAreBackedThen ==
  ASSUME RankingIsOfRows
  PROVE  CandidatesAreBacked
<1>. SUFFICES ASSUME last # None, last.at = "selected", NEW route \in last.offered
     PROVE  /\ \A p \in route : p[2] \in present.tools /\ present.layer[p[2]] = p[1]
            /\ Cardinality(Members(ranking.source, route)) >= MinTrials
            /\ last.category # None =>
                 \E i \in Members(ranking.source, route) :
                   Category[ranking.source[i].scenario] = last.category
  BY DEF CandidatesAreBacked, Members
<1>1. PICK rows : rows = ranking.source
  OBVIOUS
<1>2. /\ rows \in Runs /\ ranking.of = Rank!RankingOf(rows)
      /\ last.offered = Rank!Selectable(Rank!RankingOf(rows),
                          Rank!CatalogOf(present, Rank!RankingOf(rows)), last.category)
  BY <1>1 DEF RankingIsOfRows
<1>3. rows \in Seq(Row)
  BY <1>2, WorkspaceAssumption
<1>4. PICK made : made = Rank!RankingOf(rows)
  OBVIOUS
<1>5. /\ route \in Rank!CatalogOf(present, made)
      /\ last.category = None \/ last.category \in made.profiles[route].categories
  BY <1>2, <1>4 DEF Rank!Selectable
<1>6. route \in made.ranked /\ Rank!Placed(present, route)
  BY <1>5 DEF Rank!CatalogOf
<1>7. route \in DOMAIN Rank!Profiles(rows) /\ Rank!Profiles(rows)[route].trials >= MinTrials
      /\ made.profiles = Rank!Profiles(rows)
  BY <1>4, <1>6, RankedRoutes
<1>8. Cardinality(Members(rows, route)) >= MinTrials
  BY <1>3, <1>7, ProfileOf
<1>9. last.category # None => \E i \in Members(rows, route) : Category[rows[i].scenario] = last.category
  <2>. SUFFICES ASSUME last.category # None
                PROVE  \E i \in Members(rows, route) : Category[rows[i].scenario] = last.category
    OBVIOUS
  <2>1. last.category \in Rank!Profiles(rows)[route].categories
    BY <1>5, <1>7
  <2>2. PICK i \in Members(rows, route) : last.category = CategoryFor(rows[i].scenario)
    BY <1>3, <1>7, <2>1, ProfileOf
  <2>. QED
    BY <2>2 DEF CategoryFor
<1>10. \A p \in route : p[2] \in present.tools /\ present.layer[p[2]] = p[1]
  BY <1>6 DEF Rank!Placed
<1>. QED
  BY <1>1, <1>8, <1>9, <1>10

\* A set of numbers has a least one.
LEMMA LeastElement ==
  ASSUME NEW T \in SUBSET Nat, T # {}
  PROVE  \E x \in T : \A y \in T : x <= y
<1>1. PICK R : R = OpToRel(<, Nat)
  OBVIOUS
<1>2. IsWellFoundedOn(R, Nat)
  BY <1>1, NatLessThanWellFounded
<1>3. PICK x \in T : \A y \in T : ~ (<<y, x>> \in R)
  BY <1>2, WFMin
<1>4. \A y \in T : y < x => <<y, x>> \in R
  BY <1>1 DEF OpToRel
<1>5. \A y \in T : ~(y < x) /\ x \in Nat /\ y \in Nat
  BY <1>3, <1>4
<1>6. \A y \in T : x <= y
  BY <1>5, SMT
<1>. QED
  BY <1>6

\* It is what Min takes.
LEMMA MinIsLeast ==
  ASSUME NEW T \in SUBSET Nat, T # {}
  PROVE  Min(T) \in T /\ \A y \in T : Min(T) <= y
<1>1. \E x \in T : \A y \in T : x <= y
  BY LeastElement
<1>. QED
  BY <1>1 DEF Min

\* Among sets of elements of a finite set some have no smaller one in them.
LEMMA SmallestSet ==
  ASSUME NEW S, IsFiniteSet(S), NEW F \in SUBSET (SUBSET S), F # {}
  PROVE  \E T \in F : IsFiniteSet(T) /\ \A U \in SUBSET T : U # T => U \notin F
<1>. DEFINE sizes == {Cardinality(T) : T \in F}
<1>1. \A T \in F : IsFiniteSet(T) /\ Cardinality(T) \in Nat
  BY FS_Subset, FS_CardinalityType
<1>2. sizes \in SUBSET Nat /\ sizes # {}
  BY <1>1
<1>3. PICK n \in sizes : \A m \in sizes : n <= m
  BY <1>2, LeastElement
<1>4. PICK T \in F : Cardinality(T) = n
  BY <1>3
<1>5. ASSUME NEW U \in SUBSET T, U # T, U \in F PROVE FALSE
  <2>1. IsFiniteSet(T) /\ Cardinality(U) <= Cardinality(T)
        /\ Cardinality(U) # Cardinality(T)
    BY <1>1, <1>5, FS_Subset
  <2>2. n <= Cardinality(U)
    BY <1>3, <1>5
  <2>3. Cardinality(U) \in Nat /\ Cardinality(T) \in Nat
    BY <1>1, <1>5
  <2>. QED
    BY <1>4, <2>1, <2>2, <2>3
<1>. QED
  BY <1>1, <1>4, <1>5

\* The element that a sum over a set begins with.
Element(T) == CHOOSE x \in T : TRUE

\* g sums f over every part of S, element after element.
Sums(g, f, S) ==
  g = [T \in SUBSET S |-> IF T = {} THEN 0 ELSE f[Element(T)] + g[T \ {Element(T)}]]

\* It is one of them.
LEMMA ElementIsOne ==
  ASSUME NEW T, T # {}
  PROVE  Element(T) \in T
BY DEF Element

\* There are sums over the parts of a finite set.
LEMMA SumsExist ==
  ASSUME NEW S, IsFiniteSet(S), NEW f \in [S -> Nat]
  PROVE  \E g \in [SUBSET S -> Nat] : Sums(g, f, S)
<1>. DEFINE Goes(g, T) == g[T] = IF T = {} THEN 0 ELSE f[Element(T)] + g[T \ {Element(T)}]
            small(m) == {T \in SUBSET S : Cardinality(T) <= m}
            upto(m) == {g \in [small(m) -> Nat] : \A T \in small(m) : Goes(g, T)}
            bad == {m \in Nat : upto(m) = {}}
            n == Cardinality(S)
<1>1. \A T \in SUBSET S : IsFiniteSet(T) /\ Cardinality(T) \in Nat /\ Cardinality(T) <= n
  BY FS_Subset, FS_CardinalityType
<1>2. n \in Nat
  BY FS_CardinalityType
<1>3. 0 \notin bad
  <2>1. small(0) = {{}}
    <3>1. \A T \in SUBSET S : Cardinality(T) <= 0 <=> T = {}
      BY <1>1, FS_EmptySet
    <3>. QED
      BY <3>1
  <2>. DEFINE g == [T \in small(0) |-> 0]
  <2>2. g \in [small(0) -> Nat] /\ \A T \in small(0) : Goes(g, T)
    <3>1. \A T \in small(0) : T = {} /\ g[T] = 0
      BY <2>1
    <3>. HIDE DEF small, g
    <3>2. \A T \in small(0) : Goes(g, T)
      BY <3>1
    <3>. QED
      BY <3>2 DEF g
  <2>. HIDE DEF small, g, Goes
  <2>. QED
    BY <2>2
<1>. HIDE DEF upto
<1>4. bad = {}
  <2>1. SUFFICES ASSUME bad # {} PROVE FALSE
    OBVIOUS
  <2>2. PICK m \in bad : \A k \in bad : m <= k
    <3>1. bad \in SUBSET Nat
      OBVIOUS
    <3>. HIDE DEF bad
    <3>. QED
      BY <2>1, <3>1, LeastElement
  <2>3. m \in Nat /\ m # 0 /\ m - 1 \in Nat /\ m - 1 \notin bad
    BY <1>3, <2>2
  <2>4. PICK h \in upto(m - 1) : TRUE
    BY <2>3
  <2>5. h \in [small(m - 1) -> Nat] /\ \A T \in small(m - 1) : Goes(h, T)
    BY <2>4 DEF upto
  <2>. DEFINE g == [T \in small(m) |->
                      IF T \in small(m - 1) THEN h[T] ELSE f[Element(T)] + h[T \ {Element(T)}]]
  <2>6. ASSUME NEW T \in small(m), T # {}
        PROVE  T \ {Element(T)} \in small(m - 1) /\ f[Element(T)] \in Nat
    <3>1. Element(T) \in T /\ Element(T) \in S /\ IsFiniteSet(T) /\ Cardinality(T) \in Nat
          /\ Cardinality(T) <= m
      BY <1>1, <2>6, ElementIsOne
    <3>2. Cardinality(T \ {Element(T)}) = Cardinality(T) - 1
      BY <3>1, FS_RemoveElement
    <3>3. Cardinality(T \ {Element(T)}) <= m - 1
      BY <2>3, <3>1, <3>2
    <3>. QED
      BY <3>1, <3>3
  <2>7. {} \in small(m - 1)
    BY <2>3, FS_EmptySet
  <2>8. small(m - 1) \in SUBSET small(m)
    <3>. SUFFICES ASSUME NEW T \in SUBSET S, Cardinality(T) <= m - 1
                  PROVE  Cardinality(T) <= m
      OBVIOUS
    <3>. QED
      BY <1>1, <2>3
  <2>. HIDE DEF small
  <2>9. ASSUME NEW T \in small(m)
        PROVE  g[T] \in Nat /\ Goes(g, T)
    <3>1. CASE T = {}
      <4>1. g[T] = h[T] /\ Goes(h, T)
        BY <2>5, <2>7, <3>1
      <4>. QED
        BY <3>1, <4>1
    <3>2. CASE T # {}
      <4>1. T \ {Element(T)} \in small(m - 1) /\ f[Element(T)] \in Nat
        BY <2>6, <3>2
      <4>2. g[T \ {Element(T)}] = h[T \ {Element(T)}] /\ h[T \ {Element(T)}] \in Nat
        BY <2>5, <2>8, <4>1
      <4>3. g[T] = f[Element(T)] + h[T \ {Element(T)}]
        <5>1. CASE T \in small(m - 1)
          <6>1. Goes(h, T)
            BY <2>5, <5>1
          <6>. QED
            BY <3>2, <5>1, <6>1
        <5>2. CASE T \notin small(m - 1)
          BY <5>2
        <5>. QED
          BY <5>1, <5>2
      <4>. HIDE DEF g
      <4>. QED
        BY <3>2, <4>1, <4>2, <4>3
    <3>. QED
      BY <3>1, <3>2
  <2>10. g \in [small(m) -> Nat] /\ \A T \in small(m) : Goes(g, T)
    BY <2>9
  <2>. HIDE DEF g, Goes
  <2>11. g \in upto(m)
    BY <2>10 DEF upto
  <2>. QED
    BY <2>2, <2>11
<1>5. PICK g \in upto(n) : TRUE
  BY <1>2, <1>4
<1>6. small(n) = SUBSET S
  BY <1>1
<1>. HIDE DEF small
<1>7. g \in [SUBSET S -> Nat] /\ \A T \in SUBSET S : Goes(g, T)
  BY <1>5, <1>6 DEF upto
<1>8. g = [T \in SUBSET S |-> IF T = {} THEN 0 ELSE f[Element(T)] + g[T \ {Element(T)}]]
  BY <1>7
<1>. QED
  BY <1>7, <1>8 DEF Sums


\* So does SumFunction.
LEMMA SumIsNat ==
  ASSUME NEW T, IsFiniteSet(T), NEW f \in [T -> Nat]
  PROVE  SumFunction(f) \in Nat
<1>. DEFINE it == CHOOSE iter : iter = [s \in SUBSET T |->
                    IF s = {} THEN 0
                    ELSE f[CHOOSE x \in s : TRUE] + iter[s \ {CHOOSE x \in s : TRUE}]]
<1>1. DOMAIN f = T
  OBVIOUS
<1>2. SumFunction(f) = it[T]
  BY <1>1 DEF SumFunction, SumFunctionOnSet, FoldFunctionOnSet, MapThenFoldSet
<1>3. \E h \in [SUBSET T -> Nat] : Sums(h, f, T)
  BY SumsExist
<1>4. it = CHOOSE iter : Sums(iter, f, T)
  BY DEF Sums, Element
<1>. HIDE DEF it
<1>5. Sums(it, f, T)
  BY <1>3, <1>4
<1>. DEFINE bad == {U \in SUBSET T : it[U] \notin Nat}
<1>6. SUFFICES ASSUME bad # {} PROVE FALSE
  BY <1>2
<1>7. PICK U \in bad : IsFiniteSet(U) /\ \A V \in SUBSET U : V # U => V \notin bad
  <2>1. bad \in SUBSET (SUBSET T)
    OBVIOUS
  <2>. HIDE DEF bad
  <2>. QED
    BY <1>6, <2>1, SmallestSet
<1>8. it[U] = IF U = {} THEN 0 ELSE f[Element(U)] + it[U \ {Element(U)}]
  BY <1>5 DEF Sums
<1>9. U # {}
  BY <1>7, <1>8
<1>10. Element(U) \in U
  BY <1>9, ElementIsOne
<1>11. it[U \ {Element(U)}] \in Nat
  BY <1>7, <1>10
<1>12. f[Element(U)] \in Nat
  BY <1>10
<1>. QED
  BY <1>7, <1>8, <1>9, <1>11, <1>12

\* One of finitely many values is the greatest.
LEMMA GreatestValue ==
  ASSUME NEW T, IsFiniteSet(T), T # {}, NEW f \in [T -> Nat]
  PROVE  \E x \in T : \A y \in T : f[y] <= f[x]
<1>. DEFINE bad == {U \in SUBSET T : U # {} /\ \A x \in U : \E y \in U : ~(f[y] <= f[x])}
<1>1. SUFFICES ASSUME bad # {} PROVE FALSE
  OBVIOUS
<1>2. PICK U \in bad : IsFiniteSet(U) /\ \A V \in SUBSET U : V # U => V \notin bad
  <2>1. bad \in SUBSET (SUBSET T)
    OBVIOUS
  <2>. HIDE DEF bad
  <2>. QED
    BY <1>1, <2>1, SmallestSet
<1>3. PICK x \in U : TRUE
  OBVIOUS
<1>4. U \ {x} # {}
  <2>1. U # {} /\ \A w \in U : \E y \in U : ~(f[y] <= f[w])
    OBVIOUS
  <2>2. f[x] \in Nat
    OBVIOUS
  <2>3. PICK y \in U : ~(f[y] <= f[x])
    BY <2>1
  <2>4. y # x
    BY <2>2, <2>3
  <2>. QED
    BY <2>4
<1>5. PICK z \in U \ {x} : \A y \in U \ {x} : f[y] <= f[z]
  <2>1. PICK V : V = U \ {x}
    OBVIOUS
  <2>2. V \in SUBSET U /\ V # U /\ V \in SUBSET T /\ V # {}
    BY <1>3, <1>4, <2>1
  <2>3. V \notin bad
    BY <1>2, <2>2
  <2>4. \E z \in V : \A y \in V : f[y] <= f[z]
    BY <2>2, <2>3
  <2>. QED
    BY <2>1, <2>4
<1>6. \A y \in U : f[y] \in Nat
  OBVIOUS
<1>7. CASE f[x] <= f[z]
  BY <1>5, <1>7
<1>8. CASE ~(f[x] <= f[z])
  <2>1. \A y \in U : f[y] <= f[x]
    BY <1>5, <1>6, <1>8
  <2>. QED
    BY <2>1
<1>. QED
  BY <1>7, <1>8

----------------------------------------------------------------------------
(* Fractions *)

\* Fractions are pairs of numbers, compared by products.
Fraction == Nat \X (Nat \ {0})

\* A factor can be left out.
LEMMA Factor ==
  ASSUME NEW x \in Nat, NEW y \in Nat, NEW k \in Nat \ {0}
  PROVE  k * x <= k * y <=> x <= y
OBVIOUS

\* A factor can be put in.
LEMMA FactorUp ==
  ASSUME NEW x \in Nat, NEW y \in Nat, NEW k \in Nat, x <= y
  PROVE  k * x <= k * y
OBVIOUS

\* Products are numbers.
LEMMA ProductIsNat ==
  ASSUME NEW x \in Nat, NEW y \in Nat
  PROVE  x * y \in Nat
OBVIOUS

\* The order of fractions is transitive,
LEMMA LeqTransitive ==
  ASSUME NEW x \in Fraction, NEW y \in Fraction, NEW z \in Fraction,
         Rank!Leq(x, y), Rank!Leq(y, z)
  PROVE  Rank!Leq(x, z)
<1>1. PICK a \in Nat, b \in Nat \ {0} : x[1] = a /\ x[2] = b
  BY DEF Fraction
<1>2. PICK c \in Nat, d \in Nat \ {0} : y[1] = c /\ y[2] = d
  BY DEF Fraction
<1>3. PICK e \in Nat, f \in Nat \ {0} : z[1] = e /\ z[2] = f
  BY DEF Fraction
<1>4. a * d <= c * b
  BY <1>1, <1>2 DEF Rank!Leq
<1>5. c * f <= e * d
  BY <1>2, <1>3 DEF Rank!Leq
<1>6. f * (a * d) <= f * (c * b)
  BY <1>4, FactorUp, ProductIsNat
<1>7. b * (c * f) <= b * (e * d)
  BY <1>5, FactorUp, ProductIsNat
<1>8. f * (c * b) = b * (c * f)
  OBVIOUS
<1>9. f * (a * d) = d * (a * f)
  OBVIOUS
<1>10. b * (e * d) = d * (e * b)
  OBVIOUS
<1>11. /\ a * f \in Nat /\ e * b \in Nat
       /\ f * (a * d) \in Nat /\ f * (c * b) \in Nat /\ b * (e * d) \in Nat
  BY ProductIsNat
<1>12. d * (a * f) <= d * (e * b)
  <2>1. PICK u \in Nat, v \in Nat, w \in Nat : u = f * (a * d) /\ v = f * (c * b) /\ w = b * (e * d)
    BY <1>11
  <2>2. u <= v
    BY <1>6, <2>1
  <2>3. v <= w
    BY <1>7, <1>8, <2>1
  <2>4. u <= w
    BY <2>2, <2>3
  <2>. QED
    BY <1>9, <1>10, <2>1, <2>4
<1>13. a * f <= e * b
  BY <1>11, <1>12, Factor
<1>. QED
  BY <1>1, <1>3, <1>13 DEF Rank!Leq

\* total,
LEMMA LessIsNotLeq ==
  ASSUME NEW x \in Fraction, NEW y \in Fraction
  PROVE  Rank!Less(x, y) <=> ~ Rank!Leq(y, x)
<1>1. x[1] * y[2] \in Nat /\ y[1] * x[2] \in Nat
  BY ProductIsNat DEF Fraction
<1>2. PICK u \in Nat, v \in Nat : u = x[1] * y[2] /\ v = y[1] * x[2]
  BY <1>1
<1>. QED
  BY <1>2 DEF Rank!Less, Rank!Leq

\* and its strict part is asymmetric.
LEMMA LessIsOneWay ==
  ASSUME NEW x \in Fraction, NEW y \in Fraction, Rank!Less(x, y)
  PROVE  ~ Rank!Less(y, x)
<1>1. x[1] * y[2] \in Nat /\ y[1] * x[2] \in Nat
  BY ProductIsNat DEF Fraction
<1>2. PICK u \in Nat, v \in Nat : u = x[1] * y[2] /\ v = y[1] * x[2]
  BY <1>1
<1>. QED
  BY <1>2 DEF Rank!Less

\* Nothing is better both ways, and not to be better carries on.
LEMMA BetterIsOneWay ==
  ASSUME NEW d, NEW x \in Fraction, NEW y \in Fraction, Rank!Better(d, x, y)
  PROVE  ~ Rank!Better(d, y, x)
BY LessIsOneWay DEF Rank!Better

\* Not to be better carries on over a third.
LEMMA NotBetterCarries ==
  ASSUME NEW d, NEW x \in Fraction, NEW y \in Fraction, NEW z \in Fraction,
         ~ Rank!Better(d, x, y), ~ Rank!Better(d, y, z)
  PROVE  ~ Rank!Better(d, x, z)
<1>1. CASE d \in {"success", "quality"}
  <2>1. Rank!Leq(x, y) /\ Rank!Leq(y, z)
    BY <1>1, LessIsNotLeq DEF Rank!Better
  <2>. QED
    BY <1>1, <2>1, LeqTransitive, LessIsNotLeq DEF Rank!Better
<1>2. CASE d \notin {"success", "quality"}
  <2>1. Rank!Leq(y, x) /\ Rank!Leq(z, y)
    BY <1>2, LessIsNotLeq DEF Rank!Better
  <2>. QED
    BY <1>2, <2>1, LeqTransitive, LessIsNotLeq DEF Rank!Better
<1>. QED
  BY <1>1, <1>2

----------------------------------------------------------------------------
(* What a route is measured at *)

\* The sums of a ranking are sums.
LEMMA RankSum ==
  ASSUME NEW f
  PROVE  Rank!SumFunction(f) = SumFunction(f)
BY DEF Rank!SumFunction, Rank!SumFunctionOnSet, Rank!FoldFunctionOnSet, Rank!MapThenFoldSet,
       SumFunction, SumFunctionOnSet, FoldFunctionOnSet, MapThenFoldSet

\* The mean of any numbers is a fraction or unknown.
LEMMA MeanIsFraction ==
  ASSUME NEW T, IsFiniteSet(T), NEW f \in [T -> Nat]
  PROVE  Rank!Mean(f) \in Fraction \cup {None}
<1>1. CASE T = {}
  BY <1>1 DEF Rank!Mean
<1>2. CASE T # {}
  <2>1. Cardinality(T) \in Nat \ {0}
    BY <1>2, FS_CardinalityType, FS_EmptySet
  <2>2. SumFunction(f) \in Nat
    BY SumIsNat
  <2>3. Rank!Mean(f) = <<SumFunction(f), Cardinality(T)>>
    BY <1>2, RankSum, RankCardinality DEF Rank!Mean
  <2>. QED
    BY <2>1, <2>2, <2>3 DEF Fraction
<1>. QED
  BY <1>1, <1>2

\* So is the median: the greatest value is one that all do not exceed.
LEMMA MedianIsFraction ==
  ASSUME NEW T, IsFiniteSet(T), NEW f \in [T -> Nat]
  PROVE  Rank!Median(f) \in Fraction \cup {None}
<1>. DEFINE n == Cardinality(T)
            most == {v \in {f[x] : x \in T} : 2 * Cardinality({i \in T : f[i] <= v}) > n}
<1>1. n \in Nat /\ (n = 0 <=> T = {})
  BY FS_CardinalityType, FS_EmptySet
<1>2. Rank!Median(f) = IF n = 0 THEN None ELSE <<Min(most), 1>>
  <2>1. Rank!Median(f) =
          IF Rank!Cardinality(DOMAIN f) = 0 THEN None
          ELSE <<Min({v \in {f[x] : x \in DOMAIN f} :
                   2 * Rank!Cardinality({i \in DOMAIN f : f[i] <= v}) > Rank!Cardinality(DOMAIN f)}), 1>>
    BY DEF Rank!Median, Rank!Min, Rank!Range, Min
  <2>2. DOMAIN f = T
    OBVIOUS
  <2>3. {v \in {f[x] : x \in T} : 2 * Rank!Cardinality({i \in T : f[i] <= v}) > Rank!Cardinality(T)} = most
    BY RankCardinality
  <2>. HIDE DEF most
  <2>. QED
    BY <2>1, <2>2, <2>3, RankCardinality
<1>3. CASE T = {}
  BY <1>1, <1>2, <1>3
<1>4. CASE T # {}
  <2>1. PICK x \in T : \A y \in T : f[y] <= f[x]
    BY <1>4, GreatestValue
  <2>2. {i \in T : f[i] <= f[x]} = T
    BY <2>1
  <2>3. 2 * n > n
    BY <1>1, <1>4
  <2>4. f[x] \in most
    BY <2>1, <2>2, <2>3
  <2>5. most \in SUBSET Nat /\ most # {}
    BY <2>4
  <2>6. Min(most) \in Nat
    <3>. HIDE DEF most
    <3>. QED
      BY <2>5, MinIsLeast
  <2>7. Rank!Median(f) = <<Min(most), 1>>
    BY <1>1, <1>2, <1>4
  <2>. HIDE DEF most
  <2>. QED
    BY <2>6, <2>7 DEF Fraction
<1>. QED
  BY <1>3, <1>4

\* What routes are compared in.
Dimensions == {"success", "quality", "latency", "cost"}

\* A measurement: in every dimension a fraction, or nothing.
IsMeasured(value) ==
  /\ DOMAIN value = Dimensions
  /\ \A d \in Dimensions : value[d] \in Fraction \cup {None}

\* The known values of a field are finitely many numbers.
LEMMA KnownIsTyped ==
  ASSUME NEW rows \in Seq(Row), NEW some \in SUBSET (DOMAIN rows),
         NEW field \in {"quality", "latency", "cost"}
  PROVE  \E T : /\ IsFiniteSet(T)
                /\ Rank!Known(rows, some, field) \in [T -> Nat]
<1>. DEFINE T == {j \in some : rows[j][field] # None}
<1>1. IsFiniteSet(DOMAIN rows)
  BY RowsAreTyped, FS_Interval
<1>2. IsFiniteSet(T)
  <2>1. T \in SUBSET (DOMAIN rows)
    OBVIOUS
  <2>. HIDE DEF T
  <2>. QED
    BY <1>1, <2>1, FS_Subset
<1>3. \A j \in T : rows[j][field] \in Nat
  <2>. SUFFICES ASSUME NEW j \in T PROVE rows[j][field] \in Nat
    OBVIOUS
  <2>1. rows[j] \in Row
    BY RowsAreTyped
  <2>2. rows[j][field] \in Nat \cup {None}
    BY <2>1 DEF Row
  <2>. QED
    BY <2>2
<1>4. Rank!Known(rows, some, field) = [i \in T |-> rows[i][field]]
  BY DEF Rank!Known
<1>. HIDE DEF T
<1>5. Rank!Known(rows, some, field) \in [T -> Nat]
  BY <1>3, <1>4
<1>. QED
  BY <1>2, <1>5

\* Every profile is a measurement.
LEMMA ProfileIsMeasured ==
  ASSUME NEW rows \in Seq(Row), NEW route
  PROVE  IsMeasured(Rank!Profile(rows, route).value)
<1>. DEFINE members == {i \in DOMAIN rows : rows[i].route = route}
            evaluated == {i \in members : rows[i].success # None}
            good == {i \in evaluated : rows[i].success}
            v == Rank!Profile(rows, route).value
<1>1. members \in SUBSET (DOMAIN rows) /\ evaluated \in SUBSET (DOMAIN rows)
      /\ good \in SUBSET evaluated
  OBVIOUS
<1>2. v = [success |-> IF evaluated = {} THEN <<0, 1>> ELSE <<Cardinality(good), Cardinality(evaluated)>>,
           quality |-> Rank!Mean(Rank!Known(rows, evaluated, "quality")),
           latency |-> Rank!Median(Rank!Known(rows, members, "latency")),
           cost |-> Rank!Mean(Rank!Known(rows, members, "cost"))]
  BY RankCardinality DEF Rank!Profile
<1>. HIDE DEF v, members, evaluated, good
<1>3. v["quality"] \in Fraction \cup {None}
  BY <1>1, <1>2, KnownIsTyped, MeanIsFraction
<1>4. v["latency"] \in Fraction \cup {None}
  BY <1>1, <1>2, KnownIsTyped, MedianIsFraction
<1>5. v["cost"] \in Fraction \cup {None}
  BY <1>1, <1>2, KnownIsTyped, MeanIsFraction
<1>6. v["success"] \in Fraction
  <2>1. IsFiniteSet(DOMAIN rows)
    BY RowsAreTyped, FS_Interval
  <2>2. IsFiniteSet(evaluated) /\ IsFiniteSet(good)
    <3>1. IsFiniteSet(evaluated)
      BY <1>1, <2>1, FS_Subset
    <3>. QED
      BY <1>1, <3>1, FS_Subset
  <2>3. Cardinality(good) \in Nat /\ Cardinality(evaluated) \in Nat
        /\ (evaluated # {} => Cardinality(evaluated) # 0)
    BY <2>2, FS_CardinalityType, FS_EmptySet
  <2>4. v["success"] = IF evaluated = {} THEN <<0, 1>> ELSE <<Cardinality(good), Cardinality(evaluated)>>
    BY <1>2
  <2>. QED
    BY <2>3, <2>4 DEF Fraction
<1>7. DOMAIN v = Dimensions
  BY <1>2 DEF Dimensions
<1>. QED
  BY <1>3, <1>4, <1>5, <1>6, <1>7 DEF IsMeasured, Dimensions, v

----------------------------------------------------------------------------
(* The frontier *)

\* The dimensions with a value, and no worse in any of them
MeasuredOn(v) == {d \in Dimensions : v[d] # None}

\* w is no worse than v in anything that is measured of v.
NoWorse(v, w) == \A d \in MeasuredOn(v) : ~ Rank!Better(d, w[d], v[d])

\* To be no worse carries on, where the same is measured.
LEMMA NoWorseCarries ==
  ASSUME NEW u, NEW v, NEW w, IsMeasured(u), IsMeasured(v), IsMeasured(w),
         MeasuredOn(u) = MeasuredOn(v), MeasuredOn(v) = MeasuredOn(w),
         NoWorse(u, v), NoWorse(v, w)
  PROVE  NoWorse(u, w)
<1>. SUFFICES ASSUME NEW d \in MeasuredOn(u)
              PROVE  ~ Rank!Better(d, w[d], u[d])
  BY DEF NoWorse
<1>1. u[d] \in Fraction /\ v[d] \in Fraction /\ w[d] \in Fraction
  BY DEF MeasuredOn, IsMeasured
<1>2. ~ Rank!Better(d, v[d], u[d]) /\ ~ Rank!Better(d, w[d], v[d])
  BY DEF NoWorse
<1>. QED
  BY <1>1, <1>2, NotBetterCarries

\* Where routes are measured alike, one dominates another if it is no worse and
\* the other is worse.
LEMMA DominatesMeans ==
  ASSUME NEW p, NEW q, IsMeasured(p.value), IsMeasured(q.value),
         MeasuredOn(p.value) = MeasuredOn(q.value)
  PROVE  Rank!Dominates(p, q) <=> NoWorse(p.value, q.value) /\ ~ NoWorse(q.value, p.value)
<1>1. Rank!Shared(p, q) = MeasuredOn(p.value)
  BY DEF Rank!Shared, MeasuredOn, IsMeasured
<1>. QED
  BY <1>1 DEF Rank!Dominates, NoWorse

\* A domination: dom[r] is what dominates r.
Dominations(S, dom) ==
  /\ \A r \in S : dom[r] \in SUBSET S /\ r \notin dom[r]
  /\ \A r \in S : \A q \in dom[r] : dom[q] \subseteq dom[r]

\* What is dominated is dominated by something that is not.
LEMMA SomeUndominated ==
  ASSUME NEW S, IsFiniteSet(S), NEW dom, Dominations(S, dom), NEW r \in S, dom[r] # {}
  PROVE  \E q \in dom[r] : dom[q] = {}
<1>. DEFINE F == {dom[q] : q \in dom[r]}
<1>1. F \in SUBSET (SUBSET S) /\ F # {}
  BY DEF Dominations
<1>2. PICK U \in F : \A V \in SUBSET U : V # U => V \notin F
  <2>. HIDE DEF F
  <2>. QED
    BY <1>1, SmallestSet
<1>3. PICK q \in dom[r] : U = dom[q]
  OBVIOUS
<1>4. q \in S
  BY <1>3 DEF Dominations
<1>5. ASSUME NEW s \in dom[q] PROVE FALSE
  <2>1. s \in dom[r] /\ s \in S
    BY <1>3, <1>4 DEF Dominations
  <2>2. dom[s] \in SUBSET U /\ dom[s] # U
    BY <1>3, <1>4, <1>5, <2>1 DEF Dominations
  <2>. QED
    BY <1>2, <2>1, <2>2
<1>. QED
  BY <1>3, <1>5

\* Ranked routes are finitely many, measured, and listed with what dominates them.
LEMMA RankedAreMeasured ==
  ASSUME NEW rows \in Seq(Row), NEW of, of = Rank!RankingOf(rows)
  PROVE  /\ IsFiniteSet(of.ranked)
         /\ \A r \in of.ranked : IsMeasured(of.profiles[r].value)
         /\ DOMAIN of.dominators = of.ranked
         /\ \A r \in of.ranked : of.dominators[r] =
              {q \in of.ranked : Rank!Dominates(of.profiles[q], of.profiles[r])}
<1>. DEFINE P == Rank!Profiles(rows)
            E == Rank!Eligible(P)
<1>1. of.profiles = P /\ of.ranked = {r \in DOMAIN P : P[r].trials >= MinTrials}
      /\ of.dominators = Rank!Dominators(E)
  BY RankedRoutes
<1>2. \A r \in DOMAIN P : P[r] = Rank!Profile(rows, r)
  BY ProfileOf
<1>3. IsFiniteSet(of.ranked)
  <2>1. DOMAIN P \subseteq {rows[i].route : i \in DOMAIN rows}
    BY DEF Rank!Profiles, Rank!ToSet
  <2>2. IsFiniteSet({rows[i].route : i \in DOMAIN rows})
    <3>1. IsFiniteSet(DOMAIN rows)
      BY RowsAreTyped, FS_Interval
    <3>. DEFINE f == [i \in DOMAIN rows |-> rows[i].route]
    <3>2. f \in Surjection(DOMAIN rows, {rows[i].route : i \in DOMAIN rows})
      BY DEF Surjection
    <3>. QED
      BY <3>1, <3>2, FS_Surjection
  <2>3. of.ranked \in SUBSET {rows[i].route : i \in DOMAIN rows}
    BY <1>1, <2>1
  <2>. QED
    BY <2>2, <2>3, FS_Subset
<1>. HIDE DEF P
<1>4. DOMAIN E = of.ranked /\ \A r \in of.ranked : E[r] = P[r]
  BY <1>1 DEF Rank!Eligible
<1>. HIDE DEF E
<1>5. DOMAIN of.dominators = of.ranked
      /\ \A r \in of.ranked : of.dominators[r] = {q \in of.ranked : Rank!Dominates(P[q], P[r])}
  BY <1>1, <1>4 DEF Rank!Dominators
<1>6. \A r \in of.ranked : IsMeasured(P[r].value)
  BY <1>1, <1>2, ProfileIsMeasured
<1>. QED
  BY <1>1, <1>3, <1>5, <1>6

\* The frontier of a ranking of rows is sound.
LEMMA FrontierIsSoundThen ==
  ASSUME RankingIsOfRows
  PROVE  FrontierIsSound
<1>. DEFINE p == ranking.of.profiles
            ranked == ranking.of.ranked
            dominators == ranking.of.dominators
            Measured(r) == {d \in DOMAIN p[r].value : p[r].value[d] # None}
            AsGood(r, q) == \A d \in Measured(r) : ~Rank!Better(d, p[q].value[d], p[r].value[d])
            frontier == Rank!FrontierOf(dominators)
<1>. SUFFICES ASSUME ranking # None, \A r, q \in ranked : Measured(r) = Measured(q), NEW r \in ranked
              PROVE  r \notin frontier <=> \E q \in frontier : AsGood(q, r) /\ ~AsGood(r, q)
  BY DEF FrontierIsSound
<1>1. PICK rows : rows = ranking.source
  OBVIOUS
<1>2. rows \in Seq(Row) /\ ranking.of = Rank!RankingOf(rows)
  BY <1>1, WorkspaceAssumption DEF RankingIsOfRows
<1>3. /\ IsFiniteSet(ranked)
      /\ \A s \in ranked : IsMeasured(p[s].value)
      /\ DOMAIN dominators = ranked
      /\ \A s \in ranked : dominators[s] = {q \in ranked : Rank!Dominates(p[q], p[s])}
  BY <1>2, RankedAreMeasured
<1>4. \A s \in ranked : Measured(s) = MeasuredOn(p[s].value)
  BY <1>3 DEF MeasuredOn, IsMeasured
<1>5. \A s, t \in ranked : MeasuredOn(p[s].value) = MeasuredOn(p[t].value)
  BY <1>4
<1>6. \A s, t \in ranked : AsGood(s, t) <=> NoWorse(p[s].value, p[t].value)
  BY <1>4 DEF NoWorse
<1>7. frontier = {s \in ranked : dominators[s] = {}}
  BY <1>3 DEF Rank!FrontierOf
<1>. HIDE DEF p, ranked, dominators, Measured, AsGood, frontier
<1>8. \A s, t \in ranked : Rank!Dominates(p[s], p[t]) <=> AsGood(s, t) /\ ~AsGood(t, s)
  BY <1>3, <1>5, <1>6, DominatesMeans
<1>9. \A s, t, u \in ranked : AsGood(s, t) /\ AsGood(t, u) => AsGood(s, u)
  BY <1>3, <1>5, <1>6, NoWorseCarries
<1>10. \A s \in ranked : dominators[s] = {q \in ranked : AsGood(q, s) /\ ~AsGood(s, q)}
  BY <1>3, <1>8
<1>11. Dominations(ranked, dominators)
  BY <1>9, <1>10 DEF Dominations
<1>12. CASE dominators[r] = {}
  BY <1>7, <1>10, <1>12
<1>13. CASE dominators[r] # {}
  <2>1. PICK q \in dominators[r] : dominators[q] = {}
    BY <1>3, <1>11, <1>13, SomeUndominated
  <2>2. q \in ranked /\ AsGood(q, r) /\ ~AsGood(r, q)
    BY <1>10, <2>1
  <2>. QED
    BY <1>7, <1>13, <2>1, <2>2
<1>. QED
  BY <1>12, <1>13

----------------------------------------------------------------------------
(* Recursion along an interval *)

\* What holds of the first value and is passed on from each value to the next
\* one holds of all of them.
LEMMA PassedOn ==
  ASSUME NEW A, NEW g, NEW n \in Nat, g[0] \in A,
         \A k \in 1..n : g[k - 1] \in A => g[k] \in A
  PROVE  \A k \in 0..n : g[k] \in A
<1>. DEFINE Bad == {k \in 0..n : g[k] \notin A}
<1>1. SUFFICES ASSUME Bad # {} PROVE FALSE
  OBVIOUS
<1>2. PICK k \in Bad : \A y \in Bad : k <= y
  <2>1. Bad \in SUBSET Nat
    OBVIOUS
  <2>. QED
    BY <1>1, <2>1, LeastElement
<1>3. k \in 1..n /\ k - 1 \in 0..n /\ ~(k <= k - 1)
  BY <1>2
<1>4. g[k - 1] \in A
  BY <1>2, <1>3
<1>. QED
  BY <1>2, <1>3, <1>4

\* f starts with a, and next gives each further value from the one before.
GoesOn(f, a, n, next) == f[0] = a /\ \A k \in 1..n : f[k] = next[<<k, f[k - 1]>>]

\* next does not lead out of A.
Closed(A, n, next) == \A k \in 1..n, x \in A : next[<<k, x>>] \in A

\* There is a function that starts with a and goes on as next says.
LEMMA RecursionExists ==
  ASSUME NEW A, NEW a \in A, NEW n \in Nat, NEW next, Closed(A, n, next)
  PROVE  \E f \in [0..n -> A] : GoesOn(f, a, n, next)
<1>. USE DEF GoesOn
<1>. DEFINE Upto(m) == {f \in [0..m -> A] : GoesOn(f, a, m, next)}
            Some    == {m \in 0..n : Upto(m) # {}}
            g       == [m \in 0..n |-> m]
<1>1. 0 \in Some
  <2>1. [k \in 0..0 |-> a] \in Upto(0)
    OBVIOUS
  <2>. QED
    BY <2>1
<1>2. ASSUME NEW m \in 1..n, m - 1 \in Some PROVE m \in Some
  <2>1. PICK f \in Upto(m - 1) : TRUE
    BY <1>2
  <2>2. m \in Nat \ {0} /\ m - 1 \in 0..(m - 1) /\ f[m - 1] \in A
    BY <2>1
  <2>. DEFINE h == [k \in 0..m |-> IF k = m THEN next[<<m, f[m - 1]>>] ELSE f[k]]
  <2>3. h \in [0..m -> A] /\ h[0] = a
    BY <2>1, <2>2 DEF Closed
  <2>4. ASSUME NEW k \in 1..m PROVE h[k] = next[<<k, h[k - 1]>>]
    <3>1. k - 1 \in 0..m /\ k - 1 # m /\ h[k - 1] = f[k - 1]
      BY <2>2
    <3>2. CASE k = m
      BY <3>1, <3>2
    <3>3. CASE k # m
      <4>1. k \in 1..(m - 1) /\ h[k] = f[k]
        BY <2>2, <3>3
      <4>. QED
        BY <2>1, <3>1, <4>1
    <3>. QED
      BY <3>2, <3>3
  <2>. HIDE DEF h
  <2>5. h \in Upto(m)
    BY <2>3, <2>4
  <2>6. m \in 0..n
    OBVIOUS
  <2>. HIDE DEF Upto
  <2>. QED
    BY <2>5, <2>6
<1>. HIDE DEF Some
<1>3. \A k \in 1..n : g[k - 1] \in Some => g[k] \in Some
  BY <1>2
<1>4. \A k \in 0..n : g[k] \in Some
  <2>1. g[0] \in Some
    BY <1>1
  <2>. HIDE DEF g
  <2>. QED
    BY <1>3, <2>1, PassedOn
<1>5. n \in Some
  BY <1>4
<1>. QED
  BY <1>5 DEF Some

----------------------------------------------------------------------------
(* Walks *)

\* One layer of a trace.
Step == [available: SUBSET Name, selected: SUBSET Name, ok: SUBSET Name]

\* Walks(view, selections) are the last of sets of traces that go on layer by layer.
Layered(d, view, selections, upTo) ==
  /\ upTo \in [0..Depth -> SUBSET Seq(Step)]
  /\ upTo[0] = {<<>>}
  /\ \A k \in 1..Depth :
       upTo[k] = UNION {World(d)!Extensions(view, w, selections) : w \in upTo[k - 1]}
  /\ World(d)!Walks(view, selections) = upTo[Depth]

\* What has succeeded so far,
Produced(w) == UNION {w[i].ok : i \in DOMAIN w}

\* what was selected in the layer before,
Previous(d, w) == IF w = <<>> THEN {} ELSE World(d)!Latest(w).selected

\* and what is therefore offered in the next one.
OfferedTo(d, view, w) == World(d)!Available(view, Len(w) + 1, Previous(d, w), Produced(w))

\* The trace with one more layer.
Longer(d, view, w, chosen, ok) ==
  Append(w, [available |-> OfferedTo(d, view, w), selected |-> chosen, ok |-> ok])

\* How a walk goes on.
LEMMA ExtensionsAre ==
  ASSUME NEW d, NEW view, NEW w, NEW selections
  PROVE  World(d)!Extensions(view, w, selections) =
           IF World(d)!Stopped(w) THEN {w}
           ELSE UNION {{Longer(d, view, w, chosen, ok) : ok \in SUBSET chosen} :
                         chosen \in selections[OfferedTo(d, view, w)]}
BY DEF World!Extensions, Longer, OfferedTo, Produced, Previous

\* Only tools of the view are offered.
LEMMA OfferedIsOfTheView ==
  ASSUME NEW d, NEW view, NEW w
  PROVE  OfferedTo(d, view, w) \in SUBSET view.nodes
BY DEF OfferedTo, World!Available, World!InLayer

\* A trace goes on to traces.
LEMMA ExtensionsAreTyped ==
  ASSUME NEW d, NEW view, view.nodes \subseteq Name,
         NEW selections \in [SUBSET Name -> SUBSET SUBSET Name], NEW w \in Seq(Step)
  PROVE  World(d)!Extensions(view, w, selections) \in SUBSET Seq(Step)
<1>1. OfferedTo(d, view, w) \in SUBSET Name
  BY OfferedIsOfTheView
<1>2. ASSUME NEW chosen \in selections[OfferedTo(d, view, w)], NEW ok \in SUBSET chosen
      PROVE  Longer(d, view, w, chosen, ok) \in Seq(Step)
  <2>1. [available |-> OfferedTo(d, view, w), selected |-> chosen, ok |-> ok] \in Step
    BY <1>1, <1>2 DEF Step
  <2>. QED
    BY <2>1 DEF Longer
<1>3. CASE World(d)!Stopped(w)
  BY <1>3, ExtensionsAre
<1>4. CASE ~World(d)!Stopped(w)
  BY <1>2, <1>4, ExtensionsAre
<1>. QED
  BY <1>3, <1>4

\* The recursion that defines walks has a solution.
LEMMA WalksAreLayered ==
  ASSUME NEW d, NEW view, view.nodes \subseteq Name,
         NEW selections \in [SUBSET Name -> SUBSET SUBSET Name]
  PROVE  \E upTo : Layered(d, view, selections, upTo)
<1>. DEFINE A     == SUBSET Seq(Step)
            On(X) == UNION {World(d)!Extensions(view, w, selections) : w \in X}
            next  == [x \in (1..Depth) \X A |-> On(x[2])]
            Is(u) == u = [k \in 0..Depth |-> IF k = 0 THEN {<<>>} ELSE On(u[k - 1])]
            first == {<<>>}
<1>1. Depth \in Nat
  BY WorkspaceAssumption
<1>2. first \in A
  OBVIOUS
<1>3. \A X \in A : On(X) \in A
  <2>1. \A w \in Seq(Step) : World(d)!Extensions(view, w, selections) \in SUBSET Seq(Step)
    BY ExtensionsAreTyped
  <2>. QED
    BY <2>1
<1>. HIDE DEF On, A
<1>4. \A k \in 1..Depth, X \in A : next[<<k, X>>] = On(X)
  OBVIOUS
<1>5. PICK f \in [0..Depth -> A] : GoesOn(f, first, Depth, next)
  <2>1. Closed(A, Depth, next)
    BY <1>3, <1>4 DEF Closed
  <2>. HIDE DEF next, first
  <2>. QED
    BY <1>1, <1>2, <2>1, RecursionExists
<1>. HIDE DEF next
<1>6. Is(f)
  <2>. DEFINE F(k) == IF k = 0 THEN {<<>>} ELSE On(f[k - 1])
  <2>1. \A k \in 1..Depth : f[k] = On(f[k - 1])
    <3>. TAKE k \in 1..Depth
    <3>1. k - 1 \in 0..Depth
      BY <1>1
    <3>2. f[k - 1] \in A
      BY <3>1
    <3>. QED
      BY <1>4, <1>5, <3>2 DEF GoesOn
  <2>2. f[0] = F(0) /\ \A k \in 1..Depth : k # 0 /\ f[k] = F(k)
    BY <1>1, <1>5, <2>1 DEF GoesOn
  <2>. HIDE DEF F
  <2>3. \A k \in 0..Depth : f[k] = F(k)
    BY <1>1, <2>2
  <2>4. f = [k \in 0..Depth |-> F(k)]
    BY <2>3
  <2>. QED
    BY <2>4 DEF F
<1>. DEFINE upTo == CHOOSE u : Is(u)
<1>7. Is(upTo)
  BY <1>6
<1>8. World(d)!Walks(view, selections) = upTo[Depth]
  BY DEF World!Walks, On
<1>. HIDE DEF upTo
<1>9. upTo[0] = first /\ \A k \in 1..Depth : upTo[k] = On(upTo[k - 1])
  <2>1. upTo[0] = first
    BY <1>1, <1>7
  <2>2. ASSUME NEW k \in 1..Depth PROVE upTo[k] = On(upTo[k - 1])
    <3>1. k \in 0..Depth /\ k # 0
      BY <1>1
    <3>. HIDE DEF first
    <3>. QED
      BY <1>7, <3>1
  <2>. QED
    BY <2>1, <2>2
<1>10. \A k \in 0..Depth : upTo[k] \in A
  <2>1. upTo[0] \in A
    BY <1>2, <1>9
  <2>2. \A k \in 1..Depth : upTo[k - 1] \in A => upTo[k] \in A
    BY <1>3, <1>9
  <2>. QED
    BY <1>1, <2>1, <2>2, PassedOn
<1>11. upTo \in [0..Depth -> A]
  <2>1. DOMAIN upTo = 0..Depth /\ upTo = [k \in DOMAIN upTo |-> upTo[k]]
    BY <1>7
  <2>. QED
    BY <1>10, <2>1
<1>12. Layered(d, view, selections, upTo)
  BY <1>8, <1>9, <1>11 DEF Layered, On, A
<1>. QED
  BY <1>12

\* All that was selected is of the view.
Stays(view, w) == \A i \in DOMAIN w : w[i].selected \subseteq view.nodes

\* What a longer trace has in its layers.
LEMMA LongerTraces ==
  ASSUME NEW d, NEW view, view.nodes \subseteq Name, NEW w \in Seq(Step),
         NEW chosen \in SUBSET Name, NEW ok \in SUBSET chosen,
         NEW longer, longer = Longer(d, view, w, chosen, ok)
  PROVE  /\ longer \in Seq(Step) /\ Len(longer) = Len(w) + 1
         /\ DOMAIN longer = 1..(Len(w) + 1) /\ DOMAIN w = 1..Len(w) /\ Len(w) \in Nat
         /\ longer[Len(w) + 1] =
              [available |-> OfferedTo(d, view, w), selected |-> chosen, ok |-> ok]
         /\ \A i \in DOMAIN w : longer[i] = w[i]
<1>. DEFINE step == [available |-> OfferedTo(d, view, w), selected |-> chosen, ok |-> ok]
<1>1. OfferedTo(d, view, w) \in SUBSET Name
  BY OfferedIsOfTheView
<1>2. step \in Step
  BY <1>1 DEF Step
<1>. HIDE DEF step
<1>3. /\ Append(w, step) \in Seq(Step) /\ Len(Append(w, step)) = Len(w) + 1
      /\ DOMAIN Append(w, step) = 1..(Len(w) + 1) /\ DOMAIN w = 1..Len(w) /\ Len(w) \in Nat
      /\ Append(w, step)[Len(w) + 1] = step
      /\ \A i \in DOMAIN w : Append(w, step)[i] = w[i]
  BY <1>2
<1>. QED
  BY <1>3 DEF Longer, step

\* A walk that selects of what is offered stays in the view.
LEMMA WalksStayInView ==
  ASSUME NEW d, NEW view, view.nodes \subseteq Name,
         NEW selections \in [SUBSET Name -> SUBSET SUBSET Name],
         \A offered \in SUBSET Name : \A chosen \in selections[offered] : chosen \subseteq offered,
         NEW trace \in World(d)!Walks(view, selections)
  PROVE  World(d)!RouteOf(trace) \in SUBSET view.nodes
<1>. DEFINE Good == {w \in Seq(Step) : Stays(view, w)}
<1>1. PICK upTo : Layered(d, view, selections, upTo)
  BY WalksAreLayered
<1>2. Depth \in Nat
  BY WorkspaceAssumption
<1>3. ASSUME NEW w \in Good PROVE World(d)!Extensions(view, w, selections) \subseteq Good
  <2>1. w \in Seq(Step) /\ Stays(view, w)
    OBVIOUS
  <2>2. ASSUME NEW chosen \in selections[OfferedTo(d, view, w)], NEW ok \in SUBSET chosen
        PROVE  Longer(d, view, w, chosen, ok) \in Good
    <3>1. OfferedTo(d, view, w) \in SUBSET view.nodes
      BY OfferedIsOfTheView
    <3>2. chosen \in SUBSET view.nodes /\ chosen \in SUBSET Name
      BY <2>2, <3>1
    <3>3. PICK longer : longer = Longer(d, view, w, chosen, ok)
      OBVIOUS
    <3>4. /\ longer \in Seq(Step)
          /\ DOMAIN longer = 1..(Len(w) + 1) /\ DOMAIN w = 1..Len(w) /\ Len(w) \in Nat
          /\ longer[Len(w) + 1].selected = chosen
          /\ \A i \in DOMAIN w : longer[i] = w[i]
      <4>1. ok \in SUBSET chosen /\ chosen \in SUBSET Name
        BY <2>2, <3>2
      <4>. DEFINE step == [available |-> OfferedTo(d, view, w), selected |-> chosen, ok |-> ok]
      <4>2. /\ longer \in Seq(Step) /\ Len(longer) = Len(w) + 1
            /\ DOMAIN longer = 1..(Len(w) + 1) /\ DOMAIN w = 1..Len(w) /\ Len(w) \in Nat
            /\ longer[Len(w) + 1] = step
            /\ \A i \in DOMAIN w : longer[i] = w[i]
        BY <2>1, <4>1, <3>3, LongerTraces
      <4>3. step.selected = chosen
        OBVIOUS
      <4>. HIDE DEF step
      <4>. QED
        BY <4>2, <4>3
    <3>5. Stays(view, longer)
      <4>. SUFFICES ASSUME NEW i \in DOMAIN longer PROVE longer[i].selected \subseteq view.nodes
        BY DEF Stays
      <4>1. CASE i = Len(w) + 1
        BY <3>2, <3>4, <4>1
      <4>2. CASE i # Len(w) + 1
        <5>1. i \in DOMAIN w
          BY <3>4, <4>2
        <5>. QED
          BY <2>1, <3>4, <5>1 DEF Stays
      <4>. QED
        BY <4>1, <4>2
    <3>. QED
      BY <3>3, <3>4, <3>5
  <2>. HIDE DEF Good
  <2>3. CASE World(d)!Stopped(w)
    BY <1>3, <2>3, ExtensionsAre
  <2>4. CASE ~World(d)!Stopped(w)
    BY <2>2, <2>4, ExtensionsAre
  <2>. QED
    BY <2>3, <2>4
<1>4. upTo[0] \in SUBSET Good
  BY <1>1 DEF Layered, Stays
<1>. HIDE DEF Good
<1>5. \A k \in 1..Depth : upTo[k - 1] \in SUBSET Good => upTo[k] \in SUBSET Good
  BY <1>1, <1>3 DEF Layered
<1>6. upTo[Depth] \in SUBSET Good
  <2>1. \A k \in 0..Depth : upTo[k] \in SUBSET Good
    BY <1>2, <1>4, <1>5, PassedOn
  <2>. QED
    BY <1>2, <2>1
<1>7. trace \in Good
  BY <1>1, <1>6 DEF Layered
<1>. QED
  BY <1>7 DEF Good, Stays, World!RouteOf

\* Routes in files are pairs of a layer and a tool.
LEMMA FileRoutesAreTyped ==
  ASSUME NEW d, IsDeclaration(d), NEW tools \in SUBSET d.tools
  PROVE  ToFile(d, tools) \in SUBSET (Int \X Name)
<1>1. \A t \in tools : d.layer[t] \in Int /\ t \in Name
  BY DEF IsDeclaration
<1>. QED
  BY <1>1 DEF ToFile

\* A fast report of this suite.
IsReport(file) ==
  /\ BaselineOf(file) \in Statuses
  /\ DOMAIN file = Scenario
  /\ \A s \in Scenario : file[s].routes \subseteq SUBSET (Int \X Name)

\* The routes of an analysis are of the view,
LEMMA AnalysedRoutes ==
  ASSUME NEW d, NEW view, NEW required, NEW confident
  PROVE  World(d)!Analysed(view, required, confident).routes \subseteq SUBSET view.nodes
BY DEF World!Analysed, World!Outcome, World!Candidates, World!Solutions

\* whatever the resolver said.
LEMMA AnalyseRoutes ==
  ASSUME NEW d, NEW view, NEW s, NEW resolution
  PROVE  World(d)!AnalyseScenario(view, s, resolution).routes \subseteq SUBSET view.nodes
BY AnalysedRoutes DEF World!AnalyseScenario, World!Outcome

\* A report of a declaration is a report of this suite.
LEMMA ReportIsTyped ==
  ASSUME NEW d, IsDeclaration(d), NEW resolver
  PROVE  IsReport(ReportFile(d, World(d)!Report(View(d), Scenario, resolver)))
<1>. DEFINE R == World(d)!Report(View(d), Scenario, resolver)
            file == ReportFile(d, R)
<1>1. BaselineOf(file) \in Statuses
  BY ReportStatus
<1>2. DOMAIN R = Scenario /\ \A s \in Scenario : R[s].routes \subseteq SUBSET d.tools
  BY AnalyseRoutes DEF World!Report, View
<1>. HIDE DEF R
<1>3. DOMAIN file = Scenario /\ \A s \in Scenario : file[s].routes = {ToFile(d, r) : r \in R[s].routes}
  BY <1>2 DEF ReportFile
<1>. HIDE DEF file
<1>4. \A s \in Scenario : file[s].routes \subseteq SUBSET (Int \X Name)
  BY <1>2, <1>3, FileRoutesAreTyped
<1>. QED
  BY <1>1, <1>3, <1>4 DEF IsReport, file, R

----------------------------------------------------------------------------
(* Files *)

\* A file whose names are registered once declares something.
LEMMA DeclaresIsDeclaration ==
  ASSUME NEW file, IsFile(file), Registered(file)
  PROVE  IsDeclaration(Declares(file))
<1>. DEFINE names    == {e.name : e \in Entries(file)}
            Entry(n) == CHOOSE e \in Entries(file) : e.name = n
            Order(l) == (CHOOSE x \in ToSet(file.layers) : x.name = l).order
            d        == Declares(file)
<1>1. \A e \in Entries(file) : IsEntry(e)
  BY DEF IsFile, Entries, ToSet
<1>2. \A l \in ToSet(file.layers) : l.order \in Int
  BY DEF IsFile, ToSet
<1>3. \A n \in names : Entry(n) \in Entries(file)
  OBVIOUS
<1>4. \A e \in Entries(file) : \E l \in ToSet(file.layers) : l.name = e.layer
  BY DEF Registered
<1>5. \A n \in names : Order(Entry(n).layer) \in Int
  BY <1>2, <1>3, <1>4
<1>6. names \subseteq Name
  BY <1>1 DEF IsEntry
<1>. HIDE DEF Entry, Order, names
<1>7. /\ d.tools = names
      /\ d.orders = {l.order : l \in ToSet(file.layers)}
      /\ d.layer = [n \in names |-> Order(Entry(n).layer)]
      /\ d.workers = [n \in names |-> Entry(n).workers]
      /\ d.providers = [n \in names |-> Entry(n).providers]
      /\ d.composite = {n \in names : Entry(n).composite}
      /\ d.capabilities = [n \in names |-> Entry(n).capabilities]
  BY DEF Declares, names, Entry, Order
<1>. HIDE DEF d
<1>8. d.layer \in [d.tools -> Int]
  BY <1>5, <1>7
<1>9. d.workers \in [d.tools -> Selector] /\ d.providers \in [d.tools -> Selector]
  BY <1>1, <1>3, <1>7 DEF IsEntry
<1>10. d.capabilities \in [d.tools -> SUBSET Capability]
  BY <1>1, <1>3, <1>7 DEF IsEntry
<1>11. d.tools \subseteq Name /\ d.orders \subseteq Int /\ d.composite \subseteq d.tools
  BY <1>2, <1>6, <1>7
<1>. QED
  BY <1>8, <1>9, <1>10, <1>11 DEF IsDeclaration, d

\* What a file loads as is a declaration.
LEMMA LoadIsDeclaration ==
  ASSUME NEW file, IsFile(file), Load(file) # None
  PROVE  IsDeclaration(Load(file))
BY DeclaresIsDeclaration DEF Load, LoadedWith

\* What scaffold writes is a topology file.
LEMMA DraftsAreFiles ==
  ASSUME NEW draft \in Drafts
  PROVE  IsFile(draft)
<1>1. PICK names \in Specs, dispatched \in BOOLEAN :
        draft = Skeleton(names, "first", dispatched) /\ draft # None
  BY DEF Drafts
<1>2. names \in Seq(Name)
  BY WorkspaceAssumption
<1>. DEFINE Entry(i) == [name |-> names[i], layer |-> "first", composite |-> FALSE,
                         workers |-> Everyone, providers |-> Everyone,
                         capabilities |-> {}, consumes |-> {}, produces |-> {},
                         bound |-> dispatched]
<1>3. draft = [sound |-> TRUE, layers |-> <<[name |-> "first", order |-> 0]>>,
               tools |-> [i \in DOMAIN names |-> Entry(i)]]
  BY <1>1 DEF Skeleton
<1>4. Everyone \in Selector
  BY DEF Everyone, Selector
<1>5. ASSUME NEW i \in DOMAIN names PROVE IsEntry(Entry(i))
  <2>1. PICK name \in Name : name = names[i]
    BY <1>2
  <2>. QED
    BY <1>4, <2>1 DEF IsEntry
<1>. HIDE DEF Entry
<1>6. \A i \in DOMAIN draft.tools : IsEntry(draft.tools[i])
  BY <1>3, <1>5
<1>7. \A i \in DOMAIN draft.layers : draft.layers[i].order \in Int
  BY <1>3
<1>8. DOMAIN draft = {"sound", "layers", "tools"}
  BY <1>3
<1>. QED
  BY <1>6, <1>7, <1>8 DEF IsFile

\* What apply writes is one too.
LEMMA AppliedIsFile ==
  ASSUME NEW file, IsFile(file), NEW approved,
         \A t \in DOMAIN approved : approved[t] \in SUBSET Capability,
         NEW inPlace, Applied(file, approved, inPlace) # None
  PROVE  IsFile(Applied(file, approved, inPlace))
<1>. DEFINE Merged(i) == IF file.tools[i].name \notin DOMAIN approved THEN file.tools[i]
                   ELSE [file.tools[i] EXCEPT !.capabilities = @ \cup approved[file.tools[i].name]]
            merged == [file EXCEPT !.tools = [i \in DOMAIN file.tools |-> Merged(i)]]
<1>1. Applied(file, approved, inPlace) = merged
  BY DEF Applied
<1>2. ASSUME NEW i \in DOMAIN file.tools PROVE IsEntry(Merged(i))
  <2>1. PICK e : e = file.tools[i]
    OBVIOUS
  <2>2. IsEntry(e)
    BY <2>1 DEF IsFile
  <2>3. CASE e.name \notin DOMAIN approved
    BY <2>1, <2>2, <2>3
  <2>4. CASE e.name \in DOMAIN approved
    <3>1. PICK more \in SUBSET Capability : more = approved[e.name]
      BY <2>4
    <3>2. IsEntry([e EXCEPT !.capabilities = @ \cup more])
      BY <2>2 DEF IsEntry
    <3>. QED
      BY <2>1, <2>4, <3>1, <3>2
  <2>. QED
    BY <2>1, <2>3, <2>4
<1>. HIDE DEF Merged
<1>3. /\ DOMAIN merged = DOMAIN file /\ merged.layers = file.layers
      /\ merged.tools = [i \in DOMAIN file.tools |-> Merged(i)]
  BY DEF IsFile
<1>. HIDE DEF merged
<1>4. IsFile(merged)
  BY <1>2, <1>3 DEF IsFile
<1>. QED
  BY <1>1, <1>4

----------------------------------------------------------------------------
(* Types *)

\* A seeds file of this suite.
IsSeeds(file) == file.routes \in [Scenario -> (SUBSET (Int \X Name)) \cup {None}]

\* A file of proposals.
IsProposals(of) == \A t \in DOMAIN of : t \in Name /\ of[t] \in SUBSET Capability

\* Every file is absent, torn or what its command writes.
FilesAreTyped ==
  /\ IsFile(topology) /\ present = Load(topology)
  /\ report \in {None, Torn} \/ IsReport(report)
  /\ job = None \/ (job.at \in {"reported", "compared", "saved", "printed"} /\ IsReport(job.now))
  /\ seeds = None \/ IsSeeds(seeds)
  /\ proposals = None \/ IsProposals(proposals)
  /\ last = None \/ last.at \in {"fast", "selected"}

\* What is frozen of typed routes is a seeds file.
LEMMA SeedFilesAreTyped ==
  ASSUME NEW d, NEW freezable, \A s \in Scenario : freezable[s] \subseteq SUBSET (Int \X Name),
         NEW file \in SeedFiles(d, freezable)
  PROVE  IsSeeds(file)
<1>1. PICK routes \in [Scenario -> (UNION {freezable[s] : s \in Scenario}) \cup {None}] :
        file = [print |-> Fingerprint(d), routes |-> routes, of |-> d]
  BY DEF SeedFiles
<1>. DEFINE Routes == SUBSET (Int \X Name)
<1>2. \A x \in Scenario : \A r \in freezable[x] : r \in Routes
  <2>. TAKE x \in Scenario
  <2>1. freezable[x] \subseteq Routes
    OBVIOUS
  <2>. HIDE DEF Routes
  <2>. QED
    BY <2>1
<1>. HIDE DEF Routes
<1>3. routes \in [Scenario -> Routes \cup {None}]
  BY <1>2
<1>4. file.routes = routes
  BY <1>1
<1>5. file.routes \in [Scenario -> Routes \cup {None}]
  BY <1>3, <1>4
<1>. QED
  BY <1>5 DEF IsSeeds, Routes

\* What seeds export writes is one,
LEMMA ExportsAreTyped ==
  ASSUME NEW d, NEW file, IsReport(file), NEW most, NEW trials,
         NEW made \in Exports(d, file, most, trials)
  PROVE  IsSeeds(made)
<1>. DEFINE Tried(s) == {r \in file[s].routes :
                     Cardinality({q \in file[s].routes : Cardinality(q) < Cardinality(r)}) < most}
            freezable == [s \in Scenario |->
                IF s \notin DOMAIN file \/ file[s].status = "uncovered" THEN {}
                ELSE {r \in Tried(s) : Replayable(d, s, r, trials)}]
<1>1. made \in SeedFiles(d, freezable)
  BY DEF Exports
<1>2. \A s \in Scenario : Tried(s) \subseteq file[s].routes /\ file[s].routes \subseteq SUBSET (Int \X Name)
  BY DEF IsReport
<1>. HIDE DEF Tried
<1>3. \A s \in Scenario : freezable[s] \subseteq SUBSET (Int \X Name)
  <2>. TAKE s \in Scenario
  <2>1. freezable[s] \subseteq Tried(s)
    OBVIOUS
  <2>. QED
    BY <1>2, <2>1
<1>. HIDE DEF freezable
<1>. QED
  BY <1>1, <1>3, SeedFilesAreTyped

\* A router is held to what it is offered.
LEMMA ChoicesAreOffered ==
  ASSUME NEW router, NEW offered
  PROVE  MayChoose(router, offered) \subseteq SUBSET offered
<1>1. \A a : Model!Validated(a, offered) = None \/ Model!Validated(a, offered) \subseteq offered
  BY DEF Model!Validated
<1>2. \A a : Model!Scripted(a, offered) = None \/ Model!Scripted(a, offered) \subseteq offered
  BY <1>1 DEF Model!Scripted
<1>3. \A a : Model!Decided(a, offered) = None \/ Model!Decided(a, offered) \subseteq offered
  BY <1>1 DEF Model!Decided
<1>. QED
  BY <1>2, <1>3 DEF MayChoose

\* and so is what seeds discover writes.
LEMMA DiscoveriesAreTyped ==
  ASSUME NEW d, IsDeclaration(d), NEW router, NEW trials, NEW made \in Discoveries(d, router, trials)
  PROVE  IsSeeds(made)
<1>. DEFINE selections == [offered \in SUBSET Name |-> MayChoose(router, offered)]
            completed == {w \in World(d)!Walks(View(d), selections) :
                       World(d)!StatusOf(w) = "completed" /\ World(d)!RouteOf(w) # {}}
            chains == {ToFile(d, World(d)!RouteOf(w)) : w \in completed}
            freezable == [s \in Scenario |-> {r \in chains : Replayable(d, s, r, trials)}]
<1>1. made \in SeedFiles(d, freezable)
  BY DEF Discoveries
<1>2. /\ selections \in [SUBSET Name -> SUBSET SUBSET Name]
      /\ \A offered \in SUBSET Name : \A chosen \in selections[offered] : chosen \subseteq offered
  <2>1. \A offered \in SUBSET Name : MayChoose(router, offered) \subseteq SUBSET offered
    BY ChoicesAreOffered
  <2>2. \A offered \in SUBSET Name : MayChoose(router, offered) \in SUBSET SUBSET Name
    BY <2>1
  <2>. QED
    BY <2>1, <2>2
<1>3. View(d).nodes = d.tools /\ View(d).nodes \subseteq Name
  BY DEF View, IsDeclaration
<1>. HIDE DEF selections
<1>4. \A w \in completed : World(d)!RouteOf(w) \in SUBSET d.tools
  BY <1>2, <1>3, WalksStayInView
<1>. HIDE DEF completed
<1>5. chains \subseteq SUBSET (Int \X Name)
  BY <1>4, FileRoutesAreTyped
<1>. HIDE DEF chains
<1>6. \A s \in Scenario : freezable[s] \subseteq SUBSET (Int \X Name)
  <2>. TAKE s \in Scenario
  <2>1. freezable[s] \subseteq chains
    OBVIOUS
  <2>. QED
    BY <1>5, <2>1
<1>. HIDE DEF freezable
<1>. QED
  BY <1>1, <1>6, SeedFilesAreTyped

\* What propose writes is of the tools it was asked about.
LEMMA ProposedIsTyped ==
  ASSUME NEW answer, NEW tools, tools \subseteq Name, Model!Proposed(answer, tools) # None
  PROVE  IsProposals(Model!Proposed(answer, tools))
<1>. DEFINE of == Model!Proposed(answer, tools)
<1>1. of = [t \in {item.tool : item \in answer} \cap tools |->
              (UNION {item.capabilities : item \in {x \in answer : x.tool = t}}) \cap Capability]
  BY DEF Model!Proposed
<1>. HIDE DEF of
<1>2. DOMAIN of \subseteq tools
  BY <1>1
<1>3. \A t \in DOMAIN of : of[t] \in SUBSET Capability
  <2>. TAKE t \in DOMAIN of
  <2>. DEFINE given == UNION {item.capabilities : item \in {x \in answer : x.tool = t}}
  <2>1. of[t] = given \cap Capability
    BY <1>1
  <2>. HIDE DEF given
  <2>. QED
    BY <2>1
<1>. QED
  BY <1>2, <1>3 DEF IsProposals, of

\* The files are typed at first,
LEMMA FilesTypedStart ==
  ASSUME Init
  PROVE  FilesAreTyped
<1>1. topology \in Files /\ present = Load(topology)
  BY DEF Init, Loads
<1>2. IsFile(topology)
  BY <1>1, WorkspaceAssumption
<1>3. seeds = None \/ IsSeeds(seeds)
  BY WorkspaceAssumption DEF Init, IsSeeds
<1>. QED
  BY <1>1, <1>2, <1>3 DEF Init, FilesAreTyped

\* and every command writes such files.
LEMMA FilesTypedStep ==
  ASSUME FilesAreTyped, RunsCompareWithTheHeld, [Next]_vars
  PROVE  FilesAreTyped'
<1>1. ASSUME UNCHANGED <<topology, present, report, job, seeds, proposals>>,
             last' = last \/ last' = None \/ last'.at \in {"fast", "selected"}
      PROVE  FilesAreTyped'
  BY <1>1 DEF FilesAreTyped
<1>2. ASSUME UNCHANGED <<topology, present, report, job, proposals>>, last' = None, IsSeeds(seeds')
      PROVE  FilesAreTyped'
  BY <1>2 DEF FilesAreTyped
<1>3. ASSUME UNCHANGED <<report, job, seeds, proposals>>, last' = None,
             IsFile(topology'), present' = Load(topology')
      PROVE  FilesAreTyped'
  BY <1>3 DEF FilesAreTyped
<1>4. present # None => IsDeclaration(present)
  BY LoadIsDeclaration DEF FilesAreTyped
<1>5. CASE \E answers \in [Queries -> Answers] \cup {None} : StartFast(answers)
  <2>1. PICK answers : StartFast(answers)
    BY <1>5
  <2>2. PICK flags \in Flags :
          job' = [at |-> "reported", flags |-> flags, held |-> baseline, before |-> None,
                  now |-> ReportFile(present, World(present)!Report(View(present), Scenario,
                                                Resolutions(answers)))]
    BY <2>1 DEF StartFast
  <2>3. UNCHANGED <<topology, present, report, seeds, proposals>> /\ last' = None /\ present # None
    BY <2>1 DEF StartFast
  <2>4. IsReport(ReportFile(present, World(present)!Report(View(present), Scenario,
                                                Resolutions(answers))))
    BY <1>4, <2>3, ReportIsTyped
  <2>5. job'.at = "reported" /\ IsReport(job'.now)
    BY <2>2, <2>4
  <2>. QED
    BY <2>3, <2>5 DEF FilesAreTyped
<1>6. CASE LoadBaseline
  <2>1. job # None /\ UNCHANGED <<topology, present, report, seeds, proposals, last>>
    BY <1>6 DEF LoadBaseline
  <2>2. \/ job' = None
        \/ job' = [job EXCEPT !.at = "compared"]
        \/ job' = [job EXCEPT !.at = "compared", !.before = baseline]
    BY <1>6 DEF LoadBaseline
  <2>3. job' = None \/ (job'.at = "compared" /\ job'.now = job.now)
    BY <2>1, <2>2 DEF RunsCompareWithTheHeld
  <2>. QED
    BY <2>1, <2>3 DEF FilesAreTyped
<1>7. CASE SaveBaseline
  <2>1. job # None /\ UNCHANGED <<topology, present, report, seeds, proposals, last>>
        /\ job' = [job EXCEPT !.at = "saved"]
    BY <1>7 DEF SaveBaseline
  <2>2. job'.at = "saved" /\ job'.now = job.now
    BY <2>1 DEF RunsCompareWithTheHeld
  <2>. QED
    BY <2>1, <2>2 DEF FilesAreTyped
<1>8. CASE PrintReport
  <2>1. job # None /\ UNCHANGED <<topology, present, report, seeds, proposals>> /\ last'.at = "fast"
        /\ (job' = None \/ job' = [job EXCEPT !.at = "printed"])
    BY <1>8 DEF PrintReport
  <2>2. job' = None \/ (job'.at = "printed" /\ job'.now = job.now)
    BY <2>1 DEF RunsCompareWithTheHeld
  <2>. QED
    BY <2>1, <2>2 DEF FilesAreTyped
<1>9. CASE WriteReport
  BY <1>9 DEF WriteReport, FilesAreTyped
<1>10. CASE Crash
  BY <1>10 DEF Crash, FilesAreTyped
<1>11. CASE \E file \in Files : Edit(file)
  <2>1. PICK file \in Files : Edit(file)
    BY <1>11
  <2>2. IsFile(file) /\ Loads[file] = Load(file)
    BY WorkspaceAssumption DEF Loads
  <2>3. topology' = file /\ present' = Load(file) /\ last' = None
        /\ UNCHANGED <<report, job, seeds, proposals>>
    BY <2>1, <2>2 DEF Edit
  <2>. QED
    BY <1>3, <2>2, <2>3
<1>12. CASE \E draft \in Drafts : Scaffold(draft)
  <2>1. PICK draft \in Drafts : Scaffold(draft)
    BY <1>12
  <2>2. IsFile(draft) /\ Loads[draft] = Load(draft)
    BY DraftsAreFiles DEF Loads
  <2>3. topology' = draft /\ present' = Load(draft) /\ last' = None
        /\ UNCHANGED <<report, job, seeds, proposals>>
    BY <2>1, <2>2 DEF Scaffold
  <2>. QED
    BY <1>3, <2>2, <2>3
<1>13. CASE \E answer \in ProposalAnswers : Propose(answer)
  <2>1. PICK answer : Propose(answer)
    BY <1>13
  <2>2. /\ UNCHANGED <<topology, present, report, job, seeds>> /\ last' = None /\ present # None
        /\ proposals' = Model!Proposed(answer, present.tools) /\ proposals' # None
    BY <2>1 DEF Propose
  <2>3. IsProposals(proposals')
    BY <1>4, <2>2, ProposedIsTyped DEF IsDeclaration
  <2>. QED
    BY <2>2, <2>3 DEF FilesAreTyped
<1>14. CASE \E tools \in SUBSET Name, inPlace \in BOOLEAN : Apply(tools, inPlace)
  <2>1. PICK tools, inPlace : Apply(tools, inPlace)
    BY <1>14
  <2>. DEFINE approved == [t \in tools |-> proposals[t]]
  <2>2. /\ proposals # None /\ tools \subseteq DOMAIN proposals /\ last' = None
        /\ Applied(topology, approved, inPlace) # None
        /\ topology' = Applied(topology, approved, inPlace) /\ present' = Load(topology')
        /\ UNCHANGED <<report, job, seeds, proposals>>
    BY <2>1 DEF Apply
  <2>3. \A t \in DOMAIN approved : approved[t] \in SUBSET Capability
    BY <2>2 DEF FilesAreTyped, IsProposals
  <2>. HIDE DEF approved
  <2>4. IsFile(Applied(topology, approved, inPlace))
    BY <2>2, <2>3, AppliedIsFile DEF FilesAreTyped
  <2>. QED
    BY <1>3, <2>2, <2>4
<1>15. CASE SeedsExport
  <2>1. /\ present # None /\ report \notin {None, Torn} /\ last' = None
        /\ seeds' \in Exports(present, report, MaxVerify, ReplayTrials)
        /\ UNCHANGED <<topology, present, report, job, proposals>>
    BY <1>15 DEF SeedsExport
  <2>2. IsSeeds(seeds')
    BY <2>1, ExportsAreTyped DEF FilesAreTyped
  <2>. QED
    BY <1>2, <2>1, <2>2
<1>16. CASE \E router \in Routers : SeedsDiscover(router)
  <2>1. PICK router : SeedsDiscover(router)
    BY <1>16
  <2>2. /\ present # None /\ last' = None
        /\ seeds' \in Discoveries(present, router, ReplayTrials)
        /\ UNCHANGED <<topology, present, report, job, proposals>>
    BY <2>1 DEF SeedsDiscover
  <2>3. IsSeeds(seeds')
    BY <1>4, <2>2, DiscoveriesAreTyped
  <2>. QED
    BY <1>2, <2>2, <2>3
<1>17. CASE \E basefast, allowed \in BOOLEAN : RunSlow(basefast, allowed)
  BY <1>1, <1>17 DEF RunSlow
<1>18. CASE RankRun
  BY <1>1, <1>18 DEF RankRun
<1>19. CASE \E category \in {Category[s] : s \in Scenario} \cup {None} : Select(category)
  BY <1>1, <1>19 DEF Select
<1>20. CASE UNCHANGED vars
  BY <1>1, <1>20 DEF vars
<1>. QED
  BY <1>5, <1>6, <1>7, <1>8, <1>9, <1>10, <1>11, <1>12, <1>13, <1>14, <1>15,
     <1>16, <1>17, <1>18, <1>19, <1>20 DEF Next

\* The invariants give the types.
LEMMA TypeOKThen ==
  ASSUME FilesAreTyped, RunsCompareWithTheHeld, RankingIsOfRows
  PROVE  TypeOK
<1>1. present # None => IsDeclaration(present)
  BY LoadIsDeclaration DEF FilesAreTyped
<1>2. ranking = None \/ ranking.of.ranked \subseteq {r.route : r \in ToSet(ranking.source)}
  <2>. SUFFICES ASSUME ranking # None
                PROVE  ranking.of.ranked \subseteq {r.route : r \in ToSet(ranking.source)}
    OBVIOUS
  <2>1. PICK rows : rows = ranking.source
    OBVIOUS
  <2>2. ranking.of = Rank!RankingOf(rows)
    BY <2>1 DEF RankingIsOfRows
  <2>3. DOMAIN Rank!Profiles(rows) \subseteq {r.route : r \in ToSet(rows)}
    BY DEF Rank!Profiles, Rank!ToSet, ToSet
  <2>. QED
    BY <2>1, <2>2, <2>3, RankedRoutes
<1>3. report \in {None, Torn} \/ BaselineOf(report) \in Statuses
  BY DEF FilesAreTyped, IsReport
<1>4. baseline \in {None, Torn} \cup Statuses
  BY DEF RunsCompareWithTheHeld
<1>5. run \in Runs \cup {None}
  BY DEF RankingIsOfRows
<1>. QED
  BY <1>1, <1>2, <1>3, <1>4, <1>5 DEF TypeOK, FilesAreTyped, IsSeeds, IsProposals

----------------------------------------------------------------------------
(* Seeds *)

\* What holds at 0 and is passed on holds along the interval.
LEMMA HoldsAlong ==
  ASSUME NEW n \in Nat, NEW S, 0 \in S, \A k \in 1..n : k - 1 \in S => k \in S
  PROVE  \A k \in 0..n : k \in S
<1>. DEFINE g == [k \in 0..n |-> k]
<1>1. g[0] \in S
  OBVIOUS
<1>2. \A k \in 1..n : g[k - 1] \in S => g[k] \in S
  OBVIOUS
<1>3. \A k \in 0..n : g[k] = k
  OBVIOUS
<1>. HIDE DEF g
<1>4. \A k \in 0..n : g[k] \in S
  BY <1>1, <1>2, PassedOn
<1>. QED
  BY <1>3, <1>4

\* Cardinalities in a world are cardinalities.
LEMMA WorldCardinality ==
  ASSUME NEW d, NEW S
  PROVE  World(d)!Cardinality(S) = Cardinality(S)
BY DEF World!Cardinality, Cardinality

\* The first set of a plan is the seed's.
LEMMA PlansBeginWithTheSeed ==
  ASSUME NEW d, NEW kept, NEW siblings, IsFiniteSet(siblings)
  PROVE  /\ Len(World(d)!Plans(kept, siblings)[Cardinality(siblings)]) \in Nat \ {0}
         /\ World(d)!Plans(kept, siblings)[Cardinality(siblings)][1] = kept
<1>. DEFINE N        == Cardinality(siblings)
            extra(k) == World(d)!Extended(kept, World(d)!Nth(siblings, k))
            U        == {kept} \cup {extra(k) : k \in 1..N}
            A        == {sets \in Seq(U) : sets # <<>> /\ sets[1] = kept}
            Wide(sets, e) == World(d)!Widened(sets, e)
            next     == [x \in (1..N) \X A |-> Wide(x[2], extra(x[1]))]
            Is(f)    == f = [k \in 0..N |-> IF k = 0 THEN <<kept>> ELSE Wide(f[k - 1], extra(k))]
            first    == <<kept>>
            plan     == World(d)!Plans(kept, siblings)
<1>1. N \in Nat
  BY FS_CardinalityType
<1>2. first \in A
  OBVIOUS
<1>3. \A k \in 1..N, sets \in A : Wide(sets, extra(k)) \in A
  <2>. TAKE k \in 1..N, sets \in A
  <2>1. extra(k) \in U
    OBVIOUS
  <2>. HIDE DEF extra, U
  <2>2. sets \in Seq(U) /\ sets # <<>> /\ sets[1] = kept
    OBVIOUS
  <2>3. Append(sets, extra(k)) \in Seq(U) /\ Append(sets, extra(k)) # <<>>
        /\ Append(sets, extra(k))[1] = kept
    BY <2>1, <2>2
  <2>. QED
    BY <2>2, <2>3 DEF World!Widened
<1>4. plan = CHOOSE p : Is(p)
  <2>1. World(d)!Cardinality(siblings) = N
    BY WorldCardinality
  <2>. QED
    BY <2>1 DEF World!Plans
<1>. HIDE DEF N, extra, A, Wide, plan
<1>5. \A k \in 1..N, x \in A : next[<<k, x>>] = Wide(x, extra(k))
  OBVIOUS
<1>6. PICK f \in [0..N -> A] : GoesOn(f, first, N, next)
  <2>1. Closed(A, N, next)
    BY <1>3, <1>5 DEF Closed
  <2>. HIDE DEF next, first
  <2>. QED
    BY <1>1, <1>2, <2>1, RecursionExists
<1>. HIDE DEF next
<1>7. Is(f)
  <2>. DEFINE F(k) == IF k = 0 THEN <<kept>> ELSE Wide(f[k - 1], extra(k))
  <2>1. \A k \in 1..N : f[k] = Wide(f[k - 1], extra(k))
    <3>. TAKE k \in 1..N
    <3>1. k - 1 \in 0..N
      BY <1>1
    <3>2. f[k - 1] \in A
      BY <3>1
    <3>. QED
      BY <1>5, <1>6, <3>2 DEF GoesOn
  <2>2. f[0] = F(0) /\ \A k \in 1..N : k # 0 /\ f[k] = F(k)
    BY <1>1, <1>6, <2>1 DEF GoesOn
  <2>. HIDE DEF F
  <2>3. \A k \in 0..N : f[k] = F(k)
    BY <1>1, <2>2
  <2>4. f = [k \in 0..N |-> F(k)]
    BY <2>3
  <2>. QED
    BY <2>4 DEF F
<1>8. Is(plan)
  BY <1>4, <1>7
<1>9. plan[0] \in A /\ \A k \in 1..N : plan[k - 1] \in A => plan[k] \in A
  <2>1. plan[0] = first
    BY <1>1, <1>8
  <2>2. \A k \in 1..N : plan[k] = Wide(plan[k - 1], extra(k))
    BY <1>1, <1>8
  <2>. HIDE DEF Is, first
  <2>. QED
    BY <1>2, <1>3, <2>1, <2>2
<1>. HIDE DEF Is
<1>10. \A k \in 0..N : plan[k] \in A
  BY <1>1, <1>9, PassedOn
<1>11. plan[N] \in A
  BY <1>1, <1>10
<1>12. Len(plan[N]) \in Nat \ {0} /\ plan[N][1] = kept
  BY <1>11 DEF A
<1>. QED
  BY <1>12 DEF plan, N

\* Trial 0 runs what the seed has of the tools available.
LEMMA TrialZeroRunsTheSeed ==
  ASSUME NEW d, NEW available, IsFiniteSet(available), NEW seed
  PROVE  World(d)!SetOfTrial(available, seed, 0) = seed \cap available
<1>. DEFINE kept == seed \cap available
            siblings == available \ kept
            sets     == World(d)!CandidateSets(available, seed)
<1>1. IsFiniteSet(siblings)
  BY FS_Subset
<1>2. sets = World(d)!Plans(kept, siblings)[Cardinality(siblings)]
  <2>1. World(d)!Cardinality(siblings) = Cardinality(siblings)
    BY WorldCardinality
  <2>. QED
    BY <2>1 DEF World!CandidateSets
<1>3. Len(sets) \in Nat \ {0} /\ sets[1] = kept
  <2>. HIDE DEF kept, siblings, sets
  <2>. QED
    BY <1>1, <1>2, PlansBeginWithTheSeed
<1>4. World(d)!SetOfTrial(available, seed, 0) = sets[(0 % Len(sets)) + 1]
  BY DEF World!SetOfTrial
<1>. HIDE DEF sets
<1>5. (0 % Len(sets)) + 1 = 1
  BY <1>3, SMT
<1>. QED
  BY <1>3, <1>4, <1>5

----------------------------------------------------------------------------

\* What a walk is offered next, of tools with these places P and these needs N.
OfferedNext(P, N, view, len, previous, produced) ==
  {t \in view.nodes : /\ P[t] = len + 1
                      /\ \A makers \in N[t] : makers \cap produced # {}
                      /\ previous = {} \/ \E s \in previous : <<s, t>> \in view.edges}

\* What is offered depends on a declaration by the places of its layers and by
\* what its tools wait for only,
LEMMA OfferedIs ==
  ASSUME NEW d, NEW view, NEW w
  PROVE  OfferedTo(d, view, w) =
           OfferedNext(Position(d), NeedsOf(d), view, Len(w), Previous(d, w), Produced(w))
BY DEF OfferedTo, World!Available, World!InLayer, OfferedNext

\* what was selected before not at all,
LEMMA PreviousIs ==
  ASSUME NEW d, NEW w
  PROVE  Previous(d, w) = IF w = <<>> THEN {} ELSE w[Len(w)].selected
BY DEF Previous, World!Latest

\* nor does whether a walk has stopped.
LEMMA StoppedIs ==
  ASSUME NEW d, NEW w
  PROVE  World(d)!Stopped(w) <=> w # <<>> /\ w[Len(w)].ok = {}
BY DEF World!Stopped, World!Latest

\* What walks from a seed select
Seeded(seed) == [offered \in SUBSET Name |-> {seed \cap offered}]

\* The first trial from a seed selects what the seed has.
LEMMA SeededWalksAre ==
  ASSUME NEW d, NEW route
  PROVE  SeededWalks(d, route, 0) = World(d)!Walks(View(d), Seeded(SeedTools(d, route)))
<1>. DEFINE seed == SeedTools(d, route)
            sel  == [offered \in SUBSET Name |-> {World(d)!SetOfTrial(offered, seed, 0)}]
<1>1. ASSUME NEW offered \in SUBSET Name
      PROVE  {World(d)!SetOfTrial(offered, seed, 0)} = {seed \cap offered}
  <2>1. IsFiniteSet(offered)
    BY FS_Subset, WorkspaceAssumption
  <2>. HIDE DEF seed
  <2>. QED
    BY <2>1, TrialZeroRunsTheSeed
<1>. HIDE DEF seed
<1>2. sel = Seeded(seed)
  BY <1>1 DEF Seeded
<1>3. SeededWalks(d, route, 0) = World(d)!Walks(View(d), sel)
  BY DEF SeededWalks, seed
<1>. HIDE DEF sel
<1>. QED
  BY <1>2, <1>3 DEF seed

\* A trace after k layers: it has them all unless it stopped.
Proper(d, w, k) ==
  /\ w \in Seq(Step) /\ Len(w) <= k
  /\ World(d)!Stopped(w) \/ Len(w) = k
  /\ \A i \in DOMAIN w : w[i].ok \subseteq w[i].selected

\* Nothing that was selected failed.
Flawless(w) == \A i \in DOMAIN w : w[i].ok = w[i].selected

\* v goes as far as w and selects what w does.
GoesAlong(w, v) ==
  Len(w) <= Len(v) /\ \A i \in DOMAIN w : w[i].selected \subseteq v[i].selected

\* One step from a seed that is not stopped: what is selected may all succeed, or some.
LEMMA SeededExtensions ==
  ASSUME NEW d, NEW view, view.nodes \subseteq Name, NEW seed, NEW w, ~World(d)!Stopped(w)
  PROVE  World(d)!Extensions(view, w, Seeded(seed)) =
           {Longer(d, view, w, seed \cap OfferedTo(d, view, w), ok) :
              ok \in SUBSET (seed \cap OfferedTo(d, view, w))}
<1>1. PICK offered : offered = OfferedTo(d, view, w)
  OBVIOUS
<1>2. offered \in SUBSET Name
  BY <1>1, OfferedIsOfTheView
<1>3. Seeded(seed)[offered] = {seed \cap offered}
  BY <1>2 DEF Seeded
<1>4. World(d)!Extensions(view, w, Seeded(seed)) =
        UNION {{Longer(d, view, w, chosen, ok) : ok \in SUBSET chosen} : chosen \in {seed \cap offered}}
  BY <1>1, <1>3, ExtensionsAre
<1>. QED
  BY <1>1, <1>4

\* Traces stay proper from layer to layer.
LEMMA ProperGoesOn ==
  ASSUME NEW d, NEW view, view.nodes \subseteq Name, NEW seed, NEW k \in Nat,
         NEW w, Proper(d, w, k), NEW x \in World(d)!Extensions(view, w, Seeded(seed))
  PROVE  Proper(d, x, k + 1)
<1>1. w \in Seq(Step) /\ Len(w) \in Nat /\ Len(w) <= k
  BY DEF Proper
<1>2. CASE World(d)!Stopped(w)
  <2>1. x = w
    BY <1>2, ExtensionsAre
  <2>. QED
    BY <1>1, <1>2, <2>1 DEF Proper
<1>3. CASE ~World(d)!Stopped(w)
  <2>1. Len(w) = k
    BY <1>3 DEF Proper
  <2>2. PICK chosen : chosen = seed \cap OfferedTo(d, view, w)
    OBVIOUS
  <2>3. PICK ok \in SUBSET chosen : x = Longer(d, view, w, chosen, ok)
    BY <1>3, <2>2, SeededExtensions
  <2>4. chosen \in SUBSET Name
    BY <2>2, OfferedIsOfTheView
  <2>. DEFINE step == [available |-> OfferedTo(d, view, w), selected |-> chosen, ok |-> ok]
  <2>5. /\ x \in Seq(Step) /\ Len(x) = Len(w) + 1
        /\ DOMAIN x = 1..(Len(w) + 1) /\ DOMAIN w = 1..Len(w) /\ Len(w) \in Nat
        /\ x[Len(w) + 1] = step
        /\ \A i \in DOMAIN w : x[i] = w[i]
    BY <1>1, <2>3, <2>4, LongerTraces
  <2>6. step.ok \subseteq step.selected
    OBVIOUS
  <2>. HIDE DEF step
  <2>7. ASSUME NEW i \in DOMAIN x PROVE x[i].ok \subseteq x[i].selected
    <3>1. CASE i = Len(w) + 1
      BY <2>5, <2>6, <3>1
    <3>2. CASE i # Len(w) + 1
      <4>1. i \in DOMAIN w
        BY <2>5, <3>2
      <4>. QED
        BY <2>5, <4>1 DEF Proper
    <3>. QED
      BY <3>1, <3>2
  <2>. QED
    BY <1>1, <2>1, <2>5, <2>7 DEF Proper
<1>. QED
  BY <1>2, <1>3

\* What is offered grows with what was selected before and with what succeeded,
\* also from one declaration to a less demanding one.
LEMMA OfferedGrows ==
  ASSUME NEW d, NEW e, Position(d) = Position(e), Undemanding(e, d),
         NEW view, view.nodes \subseteq e.tools,
         NEW w \in Seq(Step), NEW v \in Seq(Step), Len(w) = Len(v),
         \A i \in DOMAIN w : w[i].ok \subseteq w[i].selected,
         Flawless(v), GoesAlong(w, v), ~World(d)!Stopped(w)
  PROVE  OfferedTo(d, view, w) \subseteq OfferedTo(e, view, v) /\ ~World(e)!Stopped(v)
<1>1. DOMAIN w = 1..Len(w) /\ DOMAIN v = 1..Len(v) /\ Len(w) \in Nat
  OBVIOUS
<1>2. \A i \in DOMAIN w : w[i].ok \subseteq v[i].ok
  <2>. TAKE i \in DOMAIN w
  <2>1. i \in DOMAIN v
    BY <1>1
  <2>. QED
    BY <2>1 DEF Flawless, GoesAlong
<1>3. Produced(w) \subseteq Produced(v)
  <2>1. DOMAIN w = DOMAIN v
    BY <1>1
  <2>. QED
    BY <1>2, <2>1 DEF Produced
<1>4. PICK p, q, a, b, P, N, M :
        /\ p = Previous(d, w) /\ q = Previous(e, v) /\ a = Produced(w) /\ b = Produced(v)
        /\ P = Position(d) /\ N = NeedsOf(d) /\ M = NeedsOf(e)
  OBVIOUS
<1>5. /\ p \subseteq q /\ (p = {} => q = {})
      /\ ~World(e)!Stopped(v)
  <2>1. CASE w = <<>>
    <3>1. v = <<>>
      BY <1>1, <2>1
    <3>. QED
      BY <1>4, <2>1, <3>1, PreviousIs, StoppedIs
  <2>2. CASE w # <<>>
    <3>1. Len(w) \in DOMAIN w /\ v # <<>>
      BY <1>1, <2>2
    <3>2. w[Len(w)].ok # {} /\ v[Len(v)].ok # {}
      BY <1>2, <2>2, <3>1, StoppedIs
    <3>3. p = w[Len(w)].selected /\ q = v[Len(v)].selected
      BY <1>4, <2>2, <3>1, PreviousIs
    <3>4. p # {} /\ p \subseteq q
      BY <3>1, <3>2, <3>3 DEF GoesAlong
    <3>5. ~World(e)!Stopped(v)
      BY <3>2, StoppedIs
    <3>. QED
      BY <3>4, <3>5
  <2>. QED
    BY <2>1, <2>2
<1>6. /\ OfferedTo(d, view, w) = OfferedNext(P, N, view, Len(w), p, a)
      /\ OfferedTo(e, view, v) = OfferedNext(P, M, view, Len(w), q, b)
  BY <1>4, OfferedIs
<1>7. \A t \in view.nodes : \A makers \in M[t] : \E fewer \in N[t] : fewer \subseteq makers
  BY <1>4 DEF Undemanding
<1>8. a \subseteq b
  BY <1>3, <1>4
<1>9. OfferedNext(P, N, view, Len(w), p, a) \subseteq OfferedNext(P, M, view, Len(w), q, b)
  <2>. SUFFICES ASSUME NEW t \in OfferedNext(P, N, view, Len(w), p, a)
                PROVE  t \in OfferedNext(P, M, view, Len(w), q, b)
    OBVIOUS
  <2>1. /\ t \in view.nodes /\ P[t] = Len(w) + 1
        /\ \A makers \in N[t] : makers \cap a # {}
        /\ p = {} \/ \E s \in p : <<s, t>> \in view.edges
    BY DEF OfferedNext
  <2>2. \A makers \in M[t] : makers \cap b # {}
    BY <1>7, <1>8, <2>1
  <2>3. q = {} \/ \E s \in q : <<s, t>> \in view.edges
    BY <1>5, <2>1
  <2>. QED
    BY <2>1, <2>2, <2>3 DEF OfferedNext
<1>. QED
  BY <1>5, <1>6, <1>9

\* y goes on from v with this selection, all of which succeeds.
Succeeds(y, v, chosen) ==
  /\ Flawless(y) /\ Len(y) = Len(v) + 1
  /\ \A i \in DOMAIN v : y[i] = v[i]
  /\ y[Len(v) + 1].selected = chosen

\* A flawless trace goes on to a flawless one.
LEMMA FlawlessStep ==
  ASSUME NEW d, NEW view, view.nodes \subseteq Name, NEW seed,
         NEW v \in Seq(Step), Flawless(v), ~World(d)!Stopped(v)
  PROVE  \E y \in World(d)!Extensions(view, v, Seeded(seed)) :
           Succeeds(y, v, seed \cap OfferedTo(d, view, v))
<1>1. PICK chosen : chosen = seed \cap OfferedTo(d, view, v)
  OBVIOUS
<1>2. chosen \in SUBSET Name
  BY <1>1, OfferedIsOfTheView
<1>3. chosen \in SUBSET chosen
  OBVIOUS
<1>4. PICK y : y = Longer(d, view, v, chosen, chosen)
  OBVIOUS
<1>5. y \in World(d)!Extensions(view, v, Seeded(seed))
  BY <1>1, <1>3, <1>4, SeededExtensions
<1>. DEFINE step == [available |-> OfferedTo(d, view, v), selected |-> chosen, ok |-> chosen]
<1>6. /\ y \in Seq(Step) /\ Len(y) = Len(v) + 1
      /\ DOMAIN y = 1..(Len(v) + 1) /\ DOMAIN v = 1..Len(v) /\ Len(v) \in Nat
      /\ y[Len(v) + 1] = step
      /\ \A i \in DOMAIN v : y[i] = v[i]
  BY <1>2, <1>3, <1>4, LongerTraces
<1>7. step.ok = step.selected /\ step.selected = chosen
  OBVIOUS
<1>. HIDE DEF step
<1>8. Flawless(y)
  <2>. SUFFICES ASSUME NEW i \in DOMAIN y PROVE y[i].ok = y[i].selected
    BY DEF Flawless
  <2>1. CASE i = Len(v) + 1
    BY <1>6, <1>7, <2>1
  <2>2. CASE i # Len(v) + 1
    <3>1. i \in DOMAIN v
      BY <1>6, <2>2
    <3>. QED
      BY <1>6, <3>1 DEF Flawless
  <2>. QED
    BY <2>1, <2>2
<1>. QED
  BY <1>1, <1>5, <1>6, <1>7, <1>8 DEF Succeeds

\* If v goes along with w, it can go on along with what w goes on to.
LEMMA FlawlessGoesOn ==
  ASSUME NEW d, NEW e, Position(d) = Position(e), Undemanding(e, d),
         NEW view, view.nodes \subseteq Name, view.nodes \subseteq e.tools,
         NEW seed, NEW k \in Nat,
         NEW w, Proper(d, w, k), NEW v, Proper(e, v, k), Flawless(v), GoesAlong(w, v),
         NEW x \in World(d)!Extensions(view, w, Seeded(seed))
  PROVE  \E y \in World(e)!Extensions(view, v, Seeded(seed)) : Flawless(y) /\ GoesAlong(x, y)
<1>1. /\ w \in Seq(Step) /\ v \in Seq(Step)
      /\ Len(w) \in Nat /\ Len(v) \in Nat /\ Len(w) <= Len(v) /\ Len(v) <= k
      /\ DOMAIN w = 1..Len(w) /\ DOMAIN v = 1..Len(v)
  BY DEF Proper, GoesAlong
<1>. DEFINE Traces == Seq(Step)
<1>4. w \in Traces /\ v \in Traces
  BY DEF Proper
<1>5. \A z \in Traces : Flawless(z) /\ ~World(e)!Stopped(z) =>
        \E y \in World(e)!Extensions(view, z, Seeded(seed)) :
           Succeeds(y, z, seed \cap OfferedTo(e, view, z))
  BY FlawlessStep
<1>6. \A z \in Traces, q \in Traces :
        /\ Len(z) = Len(q) /\ \A i \in DOMAIN z : z[i].ok \subseteq z[i].selected
        /\ Flawless(q) /\ GoesAlong(z, q) /\ ~World(d)!Stopped(z)
        => OfferedTo(d, view, z) \subseteq OfferedTo(e, view, q) /\ ~World(e)!Stopped(q)
  BY OfferedGrows
<1>. HIDE DEF Traces
<1>2. CASE World(d)!Stopped(w)
  <2>1. x = w
    BY <1>2, ExtensionsAre
  <2>2. CASE World(e)!Stopped(v)
    <3>1. v \in World(e)!Extensions(view, v, Seeded(seed))
      BY <2>2, ExtensionsAre
    <3>. QED
      BY <2>1, <3>1
  <2>3. CASE ~World(e)!Stopped(v)
    <3>1. PICK y \in World(e)!Extensions(view, v, Seeded(seed)) :
            Succeeds(y, v, seed \cap OfferedTo(e, view, v))
      BY <1>4, <1>5, <2>3
    <3>2. \A i \in DOMAIN w : i \in DOMAIN v
      BY <1>1
    <3>3. GoesAlong(x, y)
      BY <1>1, <2>1, <3>1, <3>2 DEF GoesAlong, Succeeds
    <3>. QED
      BY <3>1, <3>3 DEF Succeeds
  <2>. QED
    BY <2>2, <2>3
<1>3. CASE ~World(d)!Stopped(w)
  <2>1. Len(w) = k /\ Len(v) = k
    <3>1. Len(w) = k
      BY <1>3 DEF Proper
    <3>2. \A a, b \in Nat : a <= b /\ b <= k /\ a = k => b = k
      OBVIOUS
    <3>3. Len(v) = k
      BY <1>1, <3>1, <3>2
    <3>. QED
      BY <3>1, <3>3
  <2>2. \A i \in DOMAIN w : w[i].ok \subseteq w[i].selected
    BY DEF Proper
  <2>3. OfferedTo(d, view, w) \subseteq OfferedTo(e, view, v) /\ ~World(e)!Stopped(v)
    BY <1>3, <1>4, <1>6, <2>1, <2>2
  <2>4. PICK y \in World(e)!Extensions(view, v, Seeded(seed)) :
          Succeeds(y, v, seed \cap OfferedTo(e, view, v))
    BY <1>4, <1>5, <2>3
  <2>5. PICK chosen : chosen = seed \cap OfferedTo(d, view, w)
    OBVIOUS
  <2>6. PICK ok \in SUBSET chosen : x = Longer(d, view, w, chosen, ok)
    BY <1>3, <2>5, SeededExtensions
  <2>7. chosen \in SUBSET Name
    BY <2>5, OfferedIsOfTheView
  <2>. DEFINE step == [available |-> OfferedTo(d, view, w), selected |-> chosen, ok |-> ok]
  <2>8. /\ x \in Seq(Step) /\ Len(x) = Len(w) + 1
        /\ DOMAIN x = 1..(Len(w) + 1) /\ DOMAIN w = 1..Len(w) /\ Len(w) \in Nat
        /\ x[Len(w) + 1] = step
        /\ \A i \in DOMAIN w : x[i] = w[i]
    BY <1>1, <2>6, <2>7, LongerTraces
  <2>9. step.selected = chosen
    OBVIOUS
  <2>. HIDE DEF step
  <2>10. ASSUME NEW i \in DOMAIN x PROVE x[i].selected \subseteq y[i].selected
    <3>1. CASE i = Len(w) + 1
      <4>1. x[i].selected = chosen /\ y[i].selected = seed \cap OfferedTo(e, view, v)
        BY <2>1, <2>4, <2>8, <2>9, <3>1 DEF Succeeds
      <4>. QED
        BY <2>3, <2>5, <4>1
    <3>2. CASE i # Len(w) + 1
      <4>1. i \in DOMAIN w /\ i \in DOMAIN v
        BY <1>1, <2>1, <2>8, <3>2
      <4>2. x[i] = w[i] /\ y[i] = v[i]
        BY <2>4, <2>8, <4>1 DEF Succeeds
      <4>. QED
        BY <4>1, <4>2 DEF GoesAlong
    <3>. QED
      BY <3>1, <3>2
  <2>11. GoesAlong(x, y)
    BY <2>1, <2>4, <2>8, <2>10 DEF GoesAlong, Succeeds
  <2>. QED
    BY <2>4, <2>11 DEF Succeeds
<1>. QED
  BY <1>2, <1>3

\* Along with every walk from a seed there is one on which no tool fails, in every
\* less demanding declaration with its layers in the same places.
LEMMA FlawlessWalks ==
  ASSUME NEW d, NEW e, Position(d) = Position(e), Undemanding(e, d),
         NEW view, view.nodes \subseteq Name, view.nodes \subseteq e.tools, NEW seed,
         NEW trace \in World(d)!Walks(view, Seeded(seed))
  PROVE  \E v \in World(e)!Walks(view, Seeded(seed)) : Flawless(v) /\ GoesAlong(trace, v)
<1>. DEFINE sel    == Seeded(seed)
            Ext(w) == World(d)!Extensions(view, w, sel)
            Fwd(v) == World(e)!Extensions(view, v, sel)
<1>1. sel \in [SUBSET Name -> SUBSET SUBSET Name]
  BY DEF Seeded
<1>. HIDE DEF sel
<1>2. PICK from, to : Layered(d, view, sel, from) /\ Layered(e, view, sel, to)
  BY <1>1, WalksAreLayered
<1>3. Depth \in Nat
  BY WorkspaceAssumption
<1>4. /\ from[0] = {<<>>} /\ World(d)!Walks(view, sel) = from[Depth]
      /\ to[0] = {<<>>} /\ World(e)!Walks(view, sel) = to[Depth]
  BY <1>2 DEF Layered
<1>5. \A k \in 1..Depth : /\ from[k] = UNION {Ext(w) : w \in from[k - 1]}
                          /\ to[k] = UNION {Fwd(v) : v \in to[k - 1]}
  BY <1>2 DEF Layered
<1>6. \A k \in Nat : \A w, v : Proper(d, w, k) /\ Proper(e, v, k) /\ Flawless(v) /\ GoesAlong(w, v) =>
        \A x \in Ext(w) : \E y \in Fwd(v) : Flawless(y) /\ GoesAlong(x, y)
  BY FlawlessGoesOn DEF sel
<1>7. /\ \A k \in Nat : \A w : Proper(d, w, k) => \A x \in Ext(w) : Proper(d, x, k + 1)
      /\ \A k \in Nat : \A v : Proper(e, v, k) => \A y \in Fwd(v) : Proper(e, y, k + 1)
  BY ProperGoesOn DEF sel
<1>. HIDE DEF Ext, Fwd
<1>. DEFINE Good(k) == /\ \A w \in from[k] : Proper(d, w, k)
                       /\ \A v \in to[k] : Proper(e, v, k)
                       /\ \A w \in from[k] : \E v \in to[k] : Flawless(v) /\ GoesAlong(w, v)
            S       == {k \in 0..Depth : Good(k)}
<1>8. 0 \in S
  <2>1. Proper(d, <<>>, 0) /\ Proper(e, <<>>, 0)
    BY DEF Proper
  <2>2. Flawless(<<>>) /\ GoesAlong(<<>>, <<>>)
    BY DEF Flawless, GoesAlong
  <2>3. Good(0)
    BY <1>4, <2>1, <2>2
  <2>. HIDE DEF Good
  <2>. QED
    BY <1>3, <2>3
<1>9. ASSUME NEW k \in 1..Depth, k - 1 \in S PROVE k \in S
  <2>1. Good(k - 1) /\ k - 1 \in Nat /\ (k - 1) + 1 = k
    BY <1>9
  <2>2. PICK j \in Nat : j = k - 1
    BY <2>1
  <2>3. j + 1 = k /\ from[k] = UNION {Ext(w) : w \in from[j]} /\ to[k] = UNION {Fwd(v) : v \in to[j]}
    BY <1>5, <2>2
  <2>4. Good(j)
    BY <2>1, <2>2
  <2>5. /\ \A x \in from[k] : Proper(d, x, k)
        /\ \A y \in to[k] : Proper(e, y, k)
    <3>1. \A x \in from[k] : Proper(d, x, k)
      BY <1>7, <2>3, <2>4
    <3>2. \A y \in to[k] : Proper(e, y, k)
      BY <1>7, <2>3, <2>4
    <3>. QED
      BY <3>1, <3>2
  <2>6. ASSUME NEW x \in from[k] PROVE \E y \in to[k] : Flawless(y) /\ GoesAlong(x, y)
    <3>1. PICK w \in from[j] : x \in Ext(w)
      BY <2>3
    <3>2. PICK v \in to[j] : Flawless(v) /\ GoesAlong(w, v)
      BY <2>4
    <3>3. PICK y \in Fwd(v) : Flawless(y) /\ GoesAlong(x, y)
      BY <1>6, <2>4, <3>1, <3>2
    <3>. QED
      BY <2>3, <3>3
  <2>7. Good(k) /\ k \in 0..Depth
    BY <1>3, <2>5, <2>6
  <2>. HIDE DEF Good
  <2>. QED
    BY <2>7
<1>. HIDE DEF S
<1>10. \A k \in 0..Depth : k \in S
  BY <1>3, <1>8, <1>9, HoldsAlong
<1>11. Good(Depth)
  BY <1>3, <1>10 DEF S
<1>. QED
  BY <1>4, <1>11 DEF sel

\* A route from d that was replayed there
Replayed(d, file) ==
  /\ file.print = Fingerprint(d) /\ file.of = d
  /\ \A s \in Scenario : file.routes[s] # None => Replayable(d, s, file.routes[s], ReplayTrials)

\* The seeds are of the old format or were all replayed on the declaration that
\* they are of.
SeedsWereReplayed ==
  \/ seeds = None \/ seeds.print = None
  \/ IsDeclaration(seeds.of) /\ Replayed(seeds.of, seeds)

\* Whatever a fingerprint says tells declarations apart.
LEMMA SameFingerprint ==
  ASSUME NEW d, IsDeclaration(d), NEW e, IsDeclaration(e), Fingerprint(d) = Fingerprint(e)
  PROVE  /\ View(d) = View(e) /\ Position(d) = Position(e) /\ d.capabilities = e.capabilities
         /\ \A route : SeedTools(d, route) = SeedTools(e, route)
<1>1. d.layer = e.layer /\ d.orders = e.orders /\ d.capabilities = e.capabilities
      /\ View(d).edges = View(e).edges
  BY DEF Fingerprint
<1>2. d.tools = e.tools
  <2>1. DOMAIN d.layer = d.tools /\ DOMAIN e.layer = e.tools
    BY DEF IsDeclaration
  <2>. QED
    BY <1>1, <2>1
<1>3. View(d) = View(e)
  <2>1. View(d) = [nodes |-> d.tools, edges |-> View(d).edges]
        /\ View(e) = [nodes |-> e.tools, edges |-> View(e).edges]
    BY DEF View
  <2>. QED
    BY <1>1, <1>2, <2>1
<1>4. Position(d) = Position(e)
  <2>. DEFINE First(O) == CHOOSE o \in O : \A x \in O : o <= x
  <2>1. Position(d) = [t \in d.tools |-> d.layer[t] - First(d.orders) + 1]
        /\ Position(e) = [t \in e.tools |-> e.layer[t] - First(e.orders) + 1]
    BY DEF Position
  <2>2. First(d.orders) = First(e.orders)
    BY <1>1
  <2>. HIDE DEF First
  <2>. QED
    BY <1>1, <1>2, <2>1, <2>2
<1>5. \A route : SeedTools(d, route) = SeedTools(e, route)
  BY <1>1, <1>2 DEF SeedTools
<1>. QED
  BY <1>1, <1>3, <1>4, <1>5

\* The fingerprint of a declaration is not what is absent.
LEMMA FingerprintIsThere ==
  ASSUME NEW d, IsDeclaration(d)
  PROVE  Fingerprint(d) # None
<1>1. d.layer \in UNION {[tools -> Int] : tools \in SUBSET Name}
  BY DEF IsDeclaration
<1>2. d.capabilities \in UNION {[tools -> SUBSET Capability] : tools \in SUBSET Name}
  BY DEF IsDeclaration
<1>3. View(d).edges \in SUBSET (Name \X Name)
  <2>1. d.tools \subseteq Name
    BY DEF IsDeclaration
  <2>2. View(d).edges \subseteq d.tools \X d.tools
    BY DEF View
  <2>. QED
    BY <2>1, <2>2
<1>4. d.orders \in SUBSET Int
  BY DEF IsDeclaration
<1>. DEFINE L == UNION {[tools -> Int] : tools \in SUBSET Name}
            C == UNION {[tools -> SUBSET Capability] : tools \in SUBSET Name}
            E == SUBSET (Name \X Name)
            O == SUBSET Int
<1>5. None \notin [orders: O, layer: L, capabilities: C, edges: E]
  BY WorkspaceAssumption
<1>6. d.orders \in O /\ d.layer \in L /\ d.capabilities \in C /\ View(d).edges \in E
  BY <1>1, <1>2, <1>3, <1>4
<1>. HIDE DEF L, C, E, O
<1>7. Fingerprint(d) \in [orders: O, layer: L, capabilities: C, edges: E]
  BY <1>6 DEF Fingerprint
<1>. QED
  BY <1>5, <1>7

\* What is frozen was replayed,
LEMMA SeedFilesAreReplayed ==
  ASSUME NEW d, NEW freezable,
         \A s \in Scenario : \A r \in freezable[s] : Replayable(d, s, r, ReplayTrials),
         NEW file \in SeedFiles(d, freezable)
  PROVE  Replayed(d, file)
<1>1. PICK routes \in [Scenario -> (UNION {freezable[s] : s \in Scenario}) \cup {None}] :
        /\ \A s \in Scenario : routes[s] \in freezable[s] \cup {None}
        /\ file = [print |-> Fingerprint(d), routes |-> routes, of |-> d]
  BY DEF SeedFiles
<1>2. file.routes = routes /\ file.print = Fingerprint(d) /\ file.of = d
  BY <1>1
<1>. QED
  BY <1>1, <1>2 DEF Replayed

\* by seeds export
LEMMA ExportsAreReplayed ==
  ASSUME NEW d, NEW file, NEW most, NEW made \in Exports(d, file, most, ReplayTrials)
  PROVE  Replayed(d, made)
<1>. DEFINE Tried(s) == {r \in file[s].routes :
                     Cardinality({q \in file[s].routes : Cardinality(q) < Cardinality(r)}) < most}
            freezable == [s \in Scenario |->
                IF s \notin DOMAIN file \/ file[s].status = "uncovered" THEN {}
                ELSE {r \in Tried(s) : Replayable(d, s, r, ReplayTrials)}]
<1>1. made \in SeedFiles(d, freezable)
  BY DEF Exports
<1>. HIDE DEF Tried
<1>2. \A s \in Scenario : \A r \in freezable[s] : Replayable(d, s, r, ReplayTrials)
  OBVIOUS
<1>. HIDE DEF freezable
<1>. QED
  BY <1>1, <1>2, SeedFilesAreReplayed

\* and by seeds discover.
LEMMA DiscoveriesAreReplayed ==
  ASSUME NEW d, NEW router, NEW made \in Discoveries(d, router, ReplayTrials)
  PROVE  Replayed(d, made)
<1>. DEFINE selections == [offered \in SUBSET Name |-> MayChoose(router, offered)]
            completed == {w \in World(d)!Walks(View(d), selections) :
                       World(d)!StatusOf(w) = "completed" /\ World(d)!RouteOf(w) # {}}
            chains == {ToFile(d, World(d)!RouteOf(w)) : w \in completed}
            freezable == [s \in Scenario |-> {r \in chains : Replayable(d, s, r, ReplayTrials)}]
<1>1. made \in SeedFiles(d, freezable)
  BY DEF Discoveries
<1>. HIDE DEF chains
<1>2. \A s \in Scenario : \A r \in freezable[s] : Replayable(d, s, r, ReplayTrials)
  OBVIOUS
<1>. HIDE DEF freezable
<1>. QED
  BY <1>1, <1>2, SeedFilesAreReplayed

\* No other command touches the seeds.
LEMMA SeedsReplayedStep ==
  ASSUME SeedsWereReplayed, FilesAreTyped, [Next]_vars
  PROVE  SeedsWereReplayed'
<1>1. ASSUME UNCHANGED seeds PROVE SeedsWereReplayed'
  BY <1>1 DEF SeedsWereReplayed, Replayed
<1>2. ASSUME NEW d, IsDeclaration(d), Replayed(d, seeds') PROVE SeedsWereReplayed'
  BY <1>2 DEF SeedsWereReplayed, Replayed
<1>3. present # None => IsDeclaration(present)
  BY LoadIsDeclaration DEF FilesAreTyped
<1>4. CASE SeedsExport
  <2>1. PICK d, file : d = present /\ file = report
    OBVIOUS
  <2>2. present # None /\ seeds' \in Exports(d, file, MaxVerify, ReplayTrials)
    BY <1>4, <2>1 DEF SeedsExport
  <2>3. PICK made : made = seeds'
    OBVIOUS
  <2>4. Replayed(d, made)
    BY <2>2, <2>3, ExportsAreReplayed
  <2>. QED
    BY <1>2, <1>3, <2>1, <2>2, <2>3, <2>4
<1>5. CASE \E router \in Routers : SeedsDiscover(router)
  <2>1. PICK router : SeedsDiscover(router)
    BY <1>5
  <2>2. PICK d : d = present
    OBVIOUS
  <2>3. present # None /\ seeds' \in Discoveries(d, router, ReplayTrials)
    BY <2>1, <2>2 DEF SeedsDiscover
  <2>4. PICK made : made = seeds'
    OBVIOUS
  <2>5. Replayed(d, made)
    BY <2>3, <2>4, DiscoveriesAreReplayed
  <2>. QED
    BY <1>2, <1>3, <2>2, <2>3, <2>4, <2>5
<1>6. CASE \/ UNCHANGED vars
           \/ \E file \in Files : Edit(file)
           \/ \E draft \in Drafts : Scaffold(draft)
           \/ \E answer \in ProposalAnswers : Propose(answer)
           \/ \E tools \in SUBSET Name, inPlace \in BOOLEAN : Apply(tools, inPlace)
           \/ \E answers \in [Queries -> Answers] \cup {None} : StartFast(answers)
  BY <1>1, <1>6 DEF vars, Edit, Scaffold, Propose, Apply, StartFast
<1>7. CASE LoadBaseline \/ SaveBaseline \/ PrintReport \/ WriteReport \/ Crash
  BY <1>1, <1>7 DEF LoadBaseline, SaveBaseline, PrintReport, WriteReport, Crash
<1>8. CASE \/ \E basefast, allowed \in BOOLEAN : RunSlow(basefast, allowed)
           \/ RankRun
           \/ \E category \in {Category[s] : s \in Scenario} \cup {None} : Select(category)
  BY <1>1, <1>8 DEF RunSlow, RankRun, Select
<1>. QED
  BY <1>4, <1>5, <1>6, <1>7, <1>8 DEF Next

\* A route that was replayed can be walked to the end of it without a failure, in
\* every declaration of the same fingerprint that is less demanding.
LEMMA ReplayedRoutes ==
  ASSUME NEW d, IsDeclaration(d), NEW e, IsDeclaration(e),
         Fingerprint(d) = Fingerprint(e), Undemanding(e, d),
         NEW s, NEW route, Replayable(d, s, route, ReplayTrials)
  PROVE  \E v \in SeededWalks(e, route, 0) :
           Flawless(v) /\ World(e)!RouteOf(v) # {} /\ Covers(e, s, World(e)!RouteOf(v))
<1>1. 0 \in 0..(ReplayTrials - 1)
  BY WorkspaceAssumption
<1>2. PICK trace \in SeededWalks(d, route, 0) : Witness(d, s, trace)
  BY <1>1 DEF Replayable
<1>3. PICK view, seed : view = View(e) /\ seed = SeedTools(e, route)
  OBVIOUS
<1>4. /\ view = View(d) /\ seed = SeedTools(d, route)
      /\ Position(d) = Position(e) /\ d.capabilities = e.capabilities
  BY <1>3, SameFingerprint
<1>5. view.nodes \subseteq Name /\ view.nodes \subseteq e.tools
  BY <1>3 DEF View, IsDeclaration
<1>6. trace \in World(d)!Walks(view, Seeded(seed))
  BY <1>2, <1>4, SeededWalksAre
<1>7. PICK v \in World(e)!Walks(view, Seeded(seed)) : Flawless(v) /\ GoesAlong(trace, v)
  BY <1>4, <1>5, <1>6, FlawlessWalks
<1>8. World(d)!RouteOf(trace) # {} /\ Covers(d, s, World(d)!RouteOf(trace))
  BY <1>2 DEF Witness
<1>9. trace \in Seq(Step) /\ v \in Seq(Step)
  <2>1. Seeded(seed) \in [SUBSET Name -> SUBSET SUBSET Name]
    BY DEF Seeded
  <2>2. PICK from, to : Layered(d, view, Seeded(seed), from) /\ Layered(e, view, Seeded(seed), to)
    BY <1>5, <2>1, WalksAreLayered
  <2>3. Depth \in 0..Depth
    BY WorkspaceAssumption
  <2>. QED
    BY <1>6, <1>7, <2>2, <2>3 DEF Layered
<1>10. \A i \in DOMAIN trace : i \in DOMAIN v
  <2>1. DOMAIN trace = 1..Len(trace) /\ DOMAIN v = 1..Len(v) /\ Len(trace) \in Nat /\ Len(v) \in Nat
    BY <1>9
  <2>. QED
    BY <1>7, <2>1 DEF GoesAlong
<1>11. World(d)!RouteOf(trace) \subseteq World(e)!RouteOf(v)
  BY <1>7, <1>10 DEF World!RouteOf, GoesAlong
<1>12. World(e)!RouteOf(v) # {} /\ Covers(e, s, World(e)!RouteOf(v))
  <2>1. PICK a, b : a = World(d)!RouteOf(trace) /\ b = World(e)!RouteOf(v)
    OBVIOUS
  <2>2. Covers(d, s, a) /\ a \subseteq b => Covers(e, s, b)
    BY <1>4 DEF Covers
  <2>. QED
    BY <1>8, <1>11, <2>1, <2>2
<1>. QED
  BY <1>3, <1>7, <1>12, SeededWalksAre

\* Seeds that were replayed cover still, on what has their fingerprint and is less
\* demanding than what they were replayed on.
LEMMA SeedsReplayThen ==
  ASSUME SeedsWereReplayed, FilesAreTyped
  PROVE  SeedsReplay
<1>. SUFFICES ASSUME Fresh, Undemanding(present, seeds.of), NEW s \in Scenario, seeds.routes[s] # None
              PROVE  \E trace \in SeededWalks(present, seeds.routes[s], 0) :
                       LET walked == UNION {trace[i].selected : i \in DOMAIN trace} IN
                       /\ \A i \in DOMAIN trace : trace[i].ok = trace[i].selected
                       /\ walked # {} /\ Covers(present, s, walked)
  BY DEF SeedsReplay, EverySeedCovers
<1>1. seeds # None /\ present # None /\ seeds.print = Fingerprint(present)
  BY DEF Fresh
<1>2. PICK d, e, route : d = seeds.of /\ e = present /\ route = seeds.routes[s]
  OBVIOUS
<1>3. IsDeclaration(e) /\ Fingerprint(e) # None
  BY <1>1, <1>2, LoadIsDeclaration, FingerprintIsThere DEF FilesAreTyped
<1>4. IsDeclaration(d) /\ Replayed(d, seeds)
  BY <1>1, <1>2, <1>3 DEF SeedsWereReplayed
<1>5. Fingerprint(d) = Fingerprint(e) /\ Replayable(d, s, route, ReplayTrials)
  BY <1>1, <1>2, <1>4 DEF Replayed
<1>6. PICK v \in SeededWalks(e, route, 0) :
        Flawless(v) /\ World(e)!RouteOf(v) # {} /\ Covers(e, s, World(e)!RouteOf(v))
  BY <1>2, <1>3, <1>4, <1>5, ReplayedRoutes
<1>. DEFINE walked == UNION {v[i].selected : i \in DOMAIN v}
<1>7. World(e)!RouteOf(v) = walked
  BY DEF World!RouteOf
<1>8. walked # {} /\ Covers(e, s, walked) /\ \A i \in DOMAIN v : v[i].ok = v[i].selected
  BY <1>6, <1>7 DEF Flawless
<1>. QED
  BY <1>2, <1>6, <1>8

----------------------------------------------------------------------------
(* The invariant of the workspace *)

\* The files are of their types, a fast run compares with the baseline that was
\* there when it began, the ranking is of rows that slow runs may have and what
\* select offered came from it, and the seeds were replayed where they say.
IInv == FilesAreTyped /\ RunsCompareWithTheHeld /\ RankingIsOfRows /\ SeedsWereReplayed

\* It holds in every workspace the commands may start in.
LEMMA WorkspaceStart == Init => IInv
<1>. SUFFICES ASSUME Init PROVE IInv
  OBVIOUS
<1>1. SeedsWereReplayed
  BY WorkspaceAssumption DEF Init, SeedsWereReplayed
<1>. QED
  BY <1>1, FilesTypedStart, RunsCompareStart, RankingIsOfRowsStart DEF IInv

\* Every command, every step of a fast run, every edit and a crash keep it.
LEMMA WorkspaceStep == IInv /\ [Next]_vars => IInv'
<1>. SUFFICES ASSUME IInv, [Next]_vars PROVE IInv'
  OBVIOUS
<1>1. FilesAreTyped'
  BY FilesTypedStep DEF IInv
<1>2. RunsCompareWithTheHeld'
  BY RunsCompareStep DEF IInv
<1>3. RankingIsOfRows'
  BY RankingIsOfRowsStep DEF IInv
<1>4. SeedsWereReplayed'
  BY SeedsReplayedStep DEF IInv
<1>. QED
  BY <1>1, <1>2, <1>3, <1>4 DEF IInv

\* The invariant holds throughout, over edits that are made and taken back,
\* commands in any order and fast runs that are cut off at any point.
THEOREM WorkspaceIsGood == Spec => []IInv
<1>. QED
  BY WorkspaceStart, WorkspaceStep, PTL DEF Spec

\* The files are of their types, whatever is edited, asked or cut off.
THEOREM WorkspaceIsTyped == Spec => []TypeOK
<1>1. IInv => TypeOK
  BY TypeOKThen DEF IInv
<1>. QED
  BY <1>1, WorkspaceIsGood, PTL

\* A seeds file that is accepted by its fingerprint still does what it was kept
\* for, unless some tool now waits for others: its routes were replayed on a
\* declaration with the same layers and edges, beside a walk that succeeds in part
\* there is one on which nothing fails, of what it is offered nothing is lost where
\* no tool waits for more, and it covers at least as much (seed_export.py).
THEOREM SeedsReplayAlways == Spec => []SeedsReplay
<1>1. IInv => SeedsReplay
  BY SeedsReplayThen DEF IInv
<1>. QED
  BY <1>1, WorkspaceIsGood, PTL

\* No scenario that the baseline had covered is lost without the fast run saying
\* so, though the same run may replace the baseline (baseline.py, cli.py).
THEOREM LossIsReportedAlways == Spec => []LossIsReported
<1>1. IInv => LossIsReported
  BY LossIsReportedThen DEF IInv
<1>. QED
  BY <1>1, WorkspaceIsGood, PTL

\* For every run that may be ranked: where routes are measured alike, a route is off
\* the frontier exactly when one of the frontier is as good in everything and not
\* the other way round (pareto.py).
THEOREM FrontierIsSoundAlways == Spec => []FrontierIsSound
<1>1. IInv => FrontierIsSound
  BY FrontierIsSoundThen DEF IInv
<1>. QED
  BY <1>1, WorkspaceIsGood, PTL

\* What select offers is of the topology as it now is and was observed in the run
\* that was ranked, however either changed since (catalog.py).
THEOREM CandidatesAreBackedAlways == Spec => []CandidatesAreBacked
<1>1. IInv => CandidatesAreBacked
  BY CandidatesAreBackedThen DEF IInv
<1>. QED
  BY <1>1, WorkspaceIsGood, PTL

----------------------------------------------------------------------------
(* Facts about the functions on views *)

\* A view is its nodes and edges among them.
IsView(v) == v = [nodes |-> v.nodes, edges |-> v.edges]
             /\ v.edges \subseteq v.nodes \X v.nodes

\* Applying two patches one after the other is applying their composition:
\* re-applying the composed patch to the declared view, as commit_patch does,
\* gives what patching the active view would give.
THEOREM PatchesCompose ==
  ASSUME NEW v, NEW p, NEW q
  PROVE  ApplyPatch(ApplyPatch(v, p), q) = ApplyPatch(v, Compose(p, q))
<1>1. (v.nodes \ p.nodes) \ q.nodes = v.nodes \ (p.nodes \cup q.nodes)
  OBVIOUS
<1>2. QED
  BY <1>1 DEF ApplyPatch, Compose

\* A declaration has a view of all its tools.
LEMMA ViewIsView ==
  ASSUME NEW d
  PROVE  /\ IsView(View(d))
         /\ View(d).nodes = d.tools
BY DEF IsView, View

\* What a patch leaves is a view without what it removes.
LEMMA PatchedIsView ==
  ASSUME NEW v, IsView(v), NEW p
  PROVE  /\ IsView(ApplyPatch(v, p))
         /\ ApplyPatch(v, p).nodes = v.nodes \ p.nodes
         /\ \A e : e \in ApplyPatch(v, p).edges <=>
              /\ e \in v.edges
              /\ e[1] \notin p.nodes
              /\ e[2] \notin p.nodes
              /\ e \notin p.edges
BY DEF IsView, ApplyPatch

\* The empty patch removes nothing.
LEMMA EmptyPatchIsIdentity ==
  ASSUME NEW v, IsView(v)
  PROVE  ApplyPatch(v, EmptyPatch) = v
BY DEF IsView, ApplyPatch, EmptyPatch

----------------------------------------------------------------------------
(* Facts about the snapshot *)

\* The view A is what a patch may leave of the declaration d.
SubView(A, d) ==
  /\ IsView(A)
  /\ A.nodes \subseteq d.tools
  /\ A.edges \subseteq View(d).edges

\* The snapshot of a patched view is a declaration.
LEMMA ExportIsDeclaration ==
  ASSUME NEW d, IsDeclaration(d), NEW A, SubView(A, d)
  PROVE  IsDeclaration(Export(d, A))
<1>. DEFINE X == Export(d, A)
<1>1. A.edges \subseteq Name \X Name
  BY DEF SubView, IsDeclaration, View
<1>2. \A n : Successors(A, n) \subseteq Name /\ Predecessors(A, n) \subseteq Name
  BY <1>1 DEF Successors, Predecessors
<1>3. X.tools = A.nodes /\ X.tools \subseteq d.tools
  BY DEF Export, SubView
<1>4. X.workers \in [X.tools -> Selector]
  BY <1>2, <1>3 DEF Export, Selector, Only, IsDeclaration
<1>5. X.providers \in [X.tools -> Selector]
  BY <1>2, <1>3 DEF Export, Selector, Only, IsDeclaration
<1>6. X.layer \in [X.tools -> Int] /\ X.capabilities \in [X.tools -> SUBSET Capability]
  BY <1>3 DEF Export, IsDeclaration
<1>7. X.composite \subseteq X.tools /\ X.orders \subseteq Int /\ X.tools \subseteq Name
  BY <1>3 DEF Export, IsDeclaration
<1>. QED
  BY <1>4, <1>5, <1>6, <1>7 DEF IsDeclaration

\* The snapshot of any patched view passes the builder's validation: every
\* allow-list it writes names tools that are in the snapshot, one layer away.
THEOREM SnapshotIsBuildable ==
  ASSUME NEW d, IsDeclaration(d), Buildable(d), NEW A, SubView(A, d)
  PROVE  Buildable(Export(d, A))
<1>. DEFINE X == Export(d, A)
<1>1. X.tools = A.nodes /\ X.tools \subseteq d.tools /\ X.orders = d.orders
  BY DEF Export, SubView
<1>2. \A n \in X.tools : X.layer[n] = d.layer[n] /\ d.layer[n] \in Int
  BY <1>1 DEF Export, IsDeclaration
<1>3. \A e \in A.edges : /\ e[1] \in X.tools /\ e[2] \in X.tools
                         /\ d.layer[e[2]] = d.layer[e[1]] + 1
  BY <1>1 DEF SubView, IsView, View, DeclaredEdge
<1>4. ASSUME NEW n \in X.tools
      PROVE  ValidSelector(X, X.workers[n], X.layer[n] + 1)
  <2>1. CASE n \in d.composite
    BY <2>1, <1>1 DEF Export, Buildable, ValidSelector
  <2>2. CASE n \notin d.composite
    <3>1. X.workers[n] = Only(Successors(A, n))
      BY <2>2, <1>1 DEF Export
    <3>2. ASSUME NEW m \in Successors(A, n)
          PROVE  m \in X.tools /\ d.layer[m] = d.layer[n] + 1
      BY <3>2, <1>3 DEF Successors
    <3>3. ASSUME NEW m \in Successors(A, n)
          PROVE  m \in X.tools /\ X.layer[m] = X.layer[n] + 1 /\ X.layer[m] \in X.orders
      BY <3>2, <1>1, <1>2 DEF Buildable
    <3>. QED
      BY <3>1, <3>3 DEF ValidSelector, Only
  <2>. QED
    BY <2>1, <2>2
<1>5. ASSUME NEW n \in X.tools
      PROVE  ValidSelector(X, X.providers[n], X.layer[n] - 1)
  <2>1. CASE n \in d.composite
    BY <2>1, <1>1 DEF Export, Buildable, ValidSelector
  <2>2. CASE n \notin d.composite
    <3>1. X.providers[n] = Only(Predecessors(A, n))
      BY <2>2, <1>1 DEF Export
    <3>2. ASSUME NEW m \in Predecessors(A, n)
          PROVE  m \in X.tools /\ d.layer[n] = d.layer[m] + 1
      BY <3>2, <1>3 DEF Predecessors
    <3>3. ASSUME NEW m \in Predecessors(A, n)
          PROVE  m \in X.tools /\ X.layer[m] = X.layer[n] - 1 /\ X.layer[m] \in X.orders
      BY <3>2, <1>1, <1>2 DEF Buildable
    <3>. QED
      BY <3>1, <3>3 DEF ValidSelector, Only
  <2>. QED
    BY <2>1, <2>2
<1>6. ASSUME NEW n \in X.tools, n \in X.composite
      PROVE  X.workers[n].all /\ X.providers[n].all
  BY <1>6, <1>1 DEF Export, Buildable
<1>7. \A n \in X.tools : X.layer[n] \in X.orders
  BY <1>1, <1>2 DEF Buildable
<1>8. \A lo, hi \in X.orders : \A k \in lo..hi : k \in X.orders
  BY <1>1 DEF Buildable
<1>. HIDE DEF X
<1>9. Buildable(X)
  BY <1>4, <1>5, <1>6, <1>7, <1>8 DEF Buildable
<1>. QED
  BY <1>9 DEF X

\* Loading the snapshot gives back exactly the exported view, except that the
\* declared edges between two surviving composites are all back.
THEOREM ReloadIsExact ==
  ASSUME NEW d, IsDeclaration(d), Buildable(d), NEW A, SubView(A, d)
  PROVE  /\ View(Export(d, A)).nodes = A.nodes
         /\ View(Export(d, A)).edges \subseteq View(d).edges
         /\ \A e \in View(d).edges :
              e \in View(Export(d, A)).edges <=>
                /\ e[1] \in A.nodes /\ e[2] \in A.nodes
                /\ \/ e \in A.edges
                   \/ e[1] \in d.composite /\ e[2] \in d.composite
<1>. DEFINE X == Export(d, A)
<1>1. X.tools = A.nodes /\ X.tools \subseteq d.tools
  BY DEF Export, SubView
<1>2. View(X).nodes = A.nodes
  BY <1>1 DEF View
<1>3. \A e \in A.edges : e = <<e[1], e[2]>> /\ e[1] \in A.nodes /\ e[2] \in A.nodes
  BY DEF SubView, IsView
<1>4. ASSUME NEW s \in X.tools, NEW t \in X.tools
      PROVE  /\ X.layer[s] = d.layer[s]
             /\ Allows(X.workers[s], t) <=> \/ s \in d.composite
                                           \/ <<s, t>> \in A.edges
             /\ Allows(X.providers[t], s) <=> \/ t \in d.composite
                                             \/ <<s, t>> \in A.edges
  <2>1. X.layer[s] = d.layer[s]
    BY <1>1 DEF Export
  <2>2. t \in Successors(A, s) <=> <<s, t>> \in A.edges
    BY <1>3 DEF Successors
  <2>3. s \in Predecessors(A, t) <=> <<s, t>> \in A.edges
    BY <1>3 DEF Predecessors
  <2>4. s \in d.composite => X.workers[s].all
    BY <1>1 DEF Export, Buildable
  <2>5. t \in d.composite => X.providers[t].all
    BY <1>1 DEF Export, Buildable
  <2>6. s \notin d.composite => X.workers[s] = Only(Successors(A, s))
    BY <1>1 DEF Export
  <2>7. t \notin d.composite => X.providers[t] = Only(Predecessors(A, t))
    BY <1>1 DEF Export
  <2>. QED
    BY <2>1, <2>2, <2>3, <2>4, <2>5, <2>6, <2>7 DEF Allows, Only
<1>5. ASSUME NEW s \in X.tools, NEW t \in X.tools
      PROVE  <<s, t>> \in View(X).edges <=>
               /\ d.layer[t] = d.layer[s] + 1
               /\ \/ <<s, t>> \in A.edges
                  \/ s \in d.composite /\ t \in d.composite
  BY <1>4 DEF View, DeclaredEdge
<1>6. ASSUME NEW s \in d.tools, NEW t \in d.tools
      PROVE  <<s, t>> \in View(d).edges => d.layer[t] = d.layer[s] + 1
  BY DEF View, DeclaredEdge
<1>7. ASSUME NEW s \in d.composite, NEW t \in d.composite, d.layer[t] = d.layer[s] + 1
      PROVE  <<s, t>> \in View(d).edges
  BY <1>7 DEF View, DeclaredEdge, Buildable, Allows, IsDeclaration
<1>8. \A e \in View(X).edges : e \in X.tools \X X.tools
  BY DEF View
<1>9. \A e \in View(d).edges : e \in d.tools \X d.tools
  BY DEF View
<1>10. A.edges \subseteq View(d).edges
  BY DEF SubView
<1>. HIDE DEF X
<1>11. \A e \in View(X).edges : e \in View(d).edges
  BY <1>1, <1>5, <1>7, <1>8, <1>10
<1>12. ASSUME NEW e \in View(d).edges
       PROVE  e \in View(X).edges <=>
                /\ e[1] \in A.nodes /\ e[2] \in A.nodes
                /\ \/ e \in A.edges
                   \/ e[1] \in d.composite /\ e[2] \in d.composite
  <2>1. PICK s \in d.tools, t \in d.tools : e = <<s, t>>
    BY <1>9
  <2>2. d.layer[t] = d.layer[s] + 1
    BY <2>1, <1>6
  <2>. QED
    BY <2>1, <2>2, <1>1, <1>5, <1>8
<1>. QED
  BY <1>2, <1>11, <1>12 DEF X

----------------------------------------------------------------------------
(* The invariant of the rounds *)

\* The types and what the patches amount to.
RoundsIInv == RoundsTypeOK /\ RoundsCompose

\* The active view is what a patch left of the declaration.
LEMMA ActiveIsSubView ==
  ASSUME RoundsTypeOK, RoundsCompose
  PROVE  SubView(active, declared)
<1>1. IsView(View(declared)) /\ View(declared).nodes = declared.tools
  BY ViewIsView
<1>2. IsView(ApplyPatch(View(declared), patch))
  BY <1>1, PatchedIsView
<1>3. \A x : x \in ApplyPatch(View(declared), patch).edges => x \in View(declared).edges
  BY <1>1, PatchedIsView
<1>. QED
  BY <1>2, <1>3 DEF SubView, RoundsCompose, RoundsTypeOK

\* The first round begins with it,
LEMMA InitRoundsIInv == RoundsInit => RoundsIInv
<1>. SUFFICES ASSUME RoundsInit PROVE RoundsIInv
  OBVIOUS
<1>1. IsDeclaration(declared) /\ Buildable(declared)
  BY DeclarationsAreBuildable DEF RoundsInit
<1>2. IsView(View(declared)) /\ View(declared).nodes = declared.tools
  BY ViewIsView
<1>3. /\ active = ApplyPatch(View(declared), EmptyPatch)
      /\ IsView(active)
      /\ active.nodes = declared.tools
  BY <1>2, EmptyPatchIsIdentity DEF RoundsInit
<1>4. RoundsTypeOK
  BY <1>1, <1>3 DEF RoundsTypeOK, RoundsInit, EmptyPatch, Patch, IsView
<1>5. RoundsCompose
  BY <1>1, <1>2, <1>3
  DEF RoundsCompose, RoundsInit, EmptyPatch, Compose, IsDeclaration, View
<1>. QED
  BY <1>4, <1>5 DEF RoundsIInv

\* a commit,
LEMMA CommitRoundsIInv ==
  ASSUME RoundsIInv, NEW p \in RoundPatches, CommitPatch(p)
  PROVE  RoundsIInv'
<1>1. IsView(View(declared)) /\ View(declared).nodes = declared.tools
  BY ViewIsView
<1>2. p \in Patch
  BY DeclarationsAreBuildable
<1>3. Compose(patch, p) \in Patch /\ Compose(pruned, p) \in Patch
  BY <1>2 DEF RoundsIInv, RoundsTypeOK, Patch, Compose
<1>4. IsView(ApplyPatch(View(declared), Compose(patch, p)))
  BY <1>1, PatchedIsView
<1>5. ApplyPatch(View(declared), Compose(patch, p)).nodes \subseteq declared.tools
  BY <1>1, PatchedIsView
<1>6. RoundsTypeOK'
  BY <1>3, <1>4, <1>5 DEF RoundsIInv, RoundsTypeOK, CommitPatch, IsView
<1>7. Compose(pruned, p) = Compose(loaded, Compose(patch, p))
  BY DEF RoundsIInv, RoundsCompose, Compose
<1>8. RoundsCompose'
  BY <1>7 DEF RoundsIInv, RoundsCompose, CommitPatch, CompositePair
<1>. QED
  BY <1>6, <1>8 DEF RoundsIInv

\* a rollback
LEMMA RollbackRoundsIInv ==
  ASSUME RoundsIInv, Rollback
  PROVE  RoundsIInv'
<1>1. IsView(View(declared)) /\ View(declared).nodes = declared.tools
  BY ViewIsView
<1>2. ApplyPatch(View(declared), EmptyPatch) = View(declared)
  BY <1>1, EmptyPatchIsIdentity
<1>3. loaded = Compose(loaded, EmptyPatch) /\ EmptyPatch \in Patch
  BY DEF RoundsIInv, RoundsTypeOK, Patch, Compose, EmptyPatch
<1>4. RoundsTypeOK'
  BY <1>1, <1>3 DEF RoundsIInv, RoundsTypeOK, Rollback, IsView
<1>5. RoundsCompose'
  BY <1>2, <1>3 DEF RoundsIInv, RoundsCompose, Rollback, CompositePair
<1>. QED
  BY <1>4, <1>5 DEF RoundsIInv

\* and a reload keep it.
LEMMA ReloadRoundsIInv ==
  ASSUME RoundsIInv, Reload
  PROVE  RoundsIInv'
<1>. DEFINE snapshot == Export(declared, active)
<1>1. SubView(active, declared) /\ IsDeclaration(declared) /\ Buildable(declared)
  BY ActiveIsSubView DEF RoundsIInv, RoundsTypeOK
<1>2. IsDeclaration(snapshot)
  BY <1>1, ExportIsDeclaration
<1>3. /\ View(snapshot).nodes = active.nodes
      /\ View(snapshot).edges \subseteq View(declared).edges
      /\ \A e \in View(declared).edges :
           e \in View(snapshot).edges <=>
             /\ e[1] \in active.nodes /\ e[2] \in active.nodes
             /\ \/ e \in active.edges
                \/ e[1] \in declared.composite /\ e[2] \in declared.composite
  BY <1>1, ReloadIsExact
<1>4. /\ snapshot.tools = active.nodes
      /\ snapshot.composite = declared.composite \cap active.nodes
  BY <1>1 DEF Export, SubView
<1>5. IsView(View(snapshot)) /\ View(snapshot).nodes = snapshot.tools
  BY ViewIsView
<1>6. ApplyPatch(View(snapshot), EmptyPatch) = View(snapshot)
  BY <1>5, EmptyPatchIsIdentity
<1>7. /\ declared' = snapshot /\ patch' = EmptyPatch /\ active' = View(snapshot)
      /\ loaded' = pruned /\ pruned' = pruned /\ origin' = origin
      /\ Buildable(snapshot)
  BY <1>6 DEF Reload
<1>8. pruned = Compose(pruned, EmptyPatch) /\ EmptyPatch \in Patch
  BY DEF RoundsIInv, RoundsTypeOK, Patch, Compose, EmptyPatch
<1>. HIDE DEF snapshot
<1>9. RoundsTypeOK'
  BY <1>2, <1>5, <1>7, <1>8 DEF RoundsIInv, RoundsTypeOK, IsView
<1>10. IsView(View(declared)) /\ View(declared).nodes = declared.tools
  BY ViewIsView
<1>11. /\ active.nodes = declared.tools \ patch.nodes
       /\ \A e : e \in active.edges <=>
            /\ e \in View(declared).edges
            /\ e[1] \notin patch.nodes /\ e[2] \notin patch.nodes
            /\ e \notin patch.edges
  BY <1>10, PatchedIsView DEF RoundsIInv, RoundsCompose
<1>12. /\ pruned.nodes = loaded.nodes \cup patch.nodes
       /\ pruned.edges = loaded.edges \cup patch.edges
  BY DEF RoundsIInv, RoundsCompose, Compose
<1>13. active.nodes = origin.tools \ pruned.nodes
  BY <1>11, <1>12 DEF RoundsIInv, RoundsCompose
<1>14. snapshot.composite = origin.composite \cap active.nodes
  BY <1>4, <1>11 DEF RoundsIInv, RoundsCompose
<1>15. \A x \in View(origin).edges : x[1] \in origin.tools /\ x[2] \in origin.tools
  BY ViewIsView DEF View
<1>16. ASSUME NEW x \in View(origin).edges
       PROVE  x \in View(snapshot).edges <=>
                /\ x[1] \notin pruned.nodes /\ x[2] \notin pruned.nodes
                /\ x \in pruned.edges => CompositePair(x)
  <2>1. x \in View(declared).edges <=>
          /\ x[1] \notin loaded.nodes /\ x[2] \notin loaded.nodes
          /\ x \in loaded.edges => CompositePair(x)
    BY DEF RoundsIInv, RoundsCompose
  <2>2. CASE x \notin View(declared).edges
    BY <2>1, <2>2, <1>3, <1>12
  <2>3. CASE x \in View(declared).edges
    <3>1. x[1] \in declared.tools /\ x[2] \in declared.tools
      BY <2>3 DEF View
    <3>2. CompositePair(x) <=> x[1] \in declared.composite /\ x[2] \in declared.composite
      BY <3>1 DEF RoundsIInv, RoundsCompose, CompositePair
    <3>. QED
      BY <2>1, <2>3, <3>1, <3>2, <1>3, <1>11, <1>12
  <2>. QED
    BY <2>2, <2>3
<1>17. View(snapshot).edges \subseteq View(origin).edges
  BY <1>3 DEF RoundsIInv, RoundsCompose
<1>18. RoundsCompose'
  BY <1>4, <1>6, <1>7, <1>8, <1>13, <1>14, <1>16, <1>17 DEF RoundsCompose, CompositePair
<1>. QED
  BY <1>9, <1>18 DEF RoundsIInv

\* Every round works on a declaration the builder accepts, and the active view
\* is the origin minus everything pruned, composite pairs excepted.
THEOREM RoundsAreTyped == RoundsSpec => []RoundsIInv
<1>1. RoundsIInv /\ [RoundsNext]_roundsVars => RoundsIInv'
  <2>. SUFFICES ASSUME RoundsIInv, [RoundsNext]_roundsVars PROVE RoundsIInv'
    OBVIOUS
  <2>1. CASE \E p \in RoundPatches : CommitPatch(p)
    BY <2>1, CommitRoundsIInv
  <2>2. CASE Rollback
    BY <2>2, RollbackRoundsIInv
  <2>3. CASE Reload
    BY <2>3, ReloadRoundsIInv
  <2>4. CASE UNCHANGED roundsVars
    BY <2>4 DEF roundsVars, RoundsIInv, RoundsTypeOK, RoundsCompose, CompositePair
  <2>. QED
    BY <2>1, <2>2, <2>3, <2>4 DEF RoundsNext
<1>. QED
  BY InitRoundsIInv, <1>1, PTL DEF RoundsSpec

\* The snapshot of every reachable round can be loaded.
THEOREM SnapshotsLoad == RoundsSpec => []SnapshotLoads
<1>1. RoundsIInv => SnapshotLoads
  BY ActiveIsSubView, SnapshotIsBuildable DEF RoundsIInv, RoundsTypeOK, SnapshotLoads
<1>. QED
  BY <1>1, RoundsAreTyped, PTL

\* What is in the active view, told by what was pruned.
LEMMA ActiveMembership ==
  ASSUME RoundsIInv
  PROVE  /\ active.nodes = origin.tools \ pruned.nodes
         /\ active.edges \subseteq View(origin).edges
         /\ \A e \in View(origin).edges : e \in active.edges <=>
              /\ e[1] \notin pruned.nodes /\ e[2] \notin pruned.nodes
              /\ e \notin patch.edges
              /\ e \in loaded.edges => CompositePair(e)
<1>1. IsView(View(declared)) /\ View(declared).nodes = declared.tools
  BY ViewIsView
<1>2. /\ active.nodes = declared.tools \ patch.nodes
      /\ \A e : e \in active.edges <=>
           /\ e \in View(declared).edges
           /\ e[1] \notin patch.nodes /\ e[2] \notin patch.nodes
           /\ e \notin patch.edges
  BY <1>1, PatchedIsView DEF RoundsIInv, RoundsCompose
<1>3. pruned.nodes = loaded.nodes \cup patch.nodes
  BY DEF RoundsIInv, RoundsCompose, Compose
<1>. QED
  BY <1>2, <1>3 DEF RoundsIInv, RoundsCompose

\* What was pruned stays pruned over any number of commits and reloads, the
\* edges between two composites excepted.
THEOREM PrunedStaysPrunedAlways == RoundsSpec => []PrunedStaysPruned
<1>1. RoundsIInv => PrunedStaysPruned
  <2>. SUFFICES ASSUME RoundsIInv PROVE PrunedStaysPruned
    OBVIOUS
  <2>1. pruned.edges = loaded.edges \cup patch.edges
    BY DEF RoundsIInv, RoundsCompose, Compose
  <2>. QED
    BY <2>1, ActiveMembership DEF PrunedStaysPruned
<1>. QED
  BY <1>1, RoundsAreTyped, PTL

\* Pruning changes nothing else: no other edge is removed, and none is invented.
THEOREM NothingElseChangedEver == RoundsSpec => []NothingElseChanged
<1>1. RoundsIInv => NothingElseChanged
  <2>. SUFFICES ASSUME RoundsIInv PROVE NothingElseChanged
    OBVIOUS
  <2>1. pruned.edges = loaded.edges \cup patch.edges
    BY DEF RoundsIInv, RoundsCompose, Compose
  <2>2. View(origin).nodes = origin.tools
    BY ViewIsView
  <2>. QED
    BY <2>1, <2>2, ActiveMembership DEF NothingElseChanged
<1>. QED
  BY <1>1, RoundsAreTyped, PTL

\* Both, as the runs have it.
THEOREM PruningIsExactAlways == RoundsSpec => []PruningIsExact
<1>. QED
  BY PrunedStaysPrunedAlways, NothingElseChangedEver, PTL DEF PruningIsExact

\* Declarations, patches, views and rounds keep their types over commits, rollbacks
\* and reloads.
THEOREM VersionsAreTyped == RoundsSpec => []RoundsTypeOK
<1>1. RoundsIInv => RoundsTypeOK
  BY DEF RoundsIInv
<1>. QED
  BY <1>1, RoundsAreTyped, PTL

=============================================================================
