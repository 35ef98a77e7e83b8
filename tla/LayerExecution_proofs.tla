------------------------ MODULE LayerExecution_proofs ------------------------
(***************************************************************************)
(* What a layer guarantees for any number of tools, any slots and types,   *)
(* any concurrency and every interleaving.                                 *)
(***************************************************************************)
EXTENDS LayerExecution, WellFoundedInduction, FiniteSetTheorems, TLAPS

----------------------------------------------------------------------------
(* Argument resolution *)

\* A non-empty set of naturals has a least element.
LEMMA LeastElement ==
  ASSUME NEW T \in SUBSET Nat, T # {}
  PROVE  \E x \in T : \A y \in T : x <= y
<1>1. PICK R : R = OpToRel(<, Nat)
  OBVIOUS
<1>2. IsWellFoundedOn(R, Nat)
  BY <1>1, NatLessThanWellFounded
<1>3. PICK x \in T : \A y \in T : ~ (<<y, x>> \in R)
  BY <1>2, WFMin
<1>4. \A y \in T : y < x => <<y, x>> \in R
  BY <1>1 DEF OpToRel
<1>5. \A y \in T : ~(y < x) /\ x \in Nat /\ y \in Nat
  BY <1>3, <1>4
<1>6. \A y \in T : x <= y
  BY <1>5, SMT
<1>. QED
  BY <1>6

LEMMA ParamsAreTyped ==
  ASSUME NEW i \in Task
  PROVE  /\ ParamsOf(i) \in Seq(Parameter)
         /\ DOMAIN ParamsOf(i) = 1..Len(ParamsOf(i))
         /\ \A k \in 1..Len(ParamsOf(i)) : ParamsOf(i)[k].slot \in Slot
<1>1. ParamsOf(i) \in Seq(Parameter)
  BY LayerAssumption DEF ParamsOf
<1>2. \A k \in 1..Len(ParamsOf(i)) : ParamsOf(i)[k] \in Parameter
  BY <1>1
<1>. QED
  BY <1>1, <1>2 DEF Parameter

\* What a parameter resolves to is an artifact on the blackboard.
LEMMA ResolvedIsOnBoard ==
  ASSUME NEW b \in Board, NEW q, q.slot \in Slot, CanResolve(b, q)
  PROVE  \E s \in Slot : \E n \in 1..Len(b[s]) : Resolve(b, q) = b[s][n]
<1>1. CASE b[q.slot] # << >>
  <2>1. b[q.slot] \in Seq(Artifact)
    BY DEF Board
  <2>2. Len(b[q.slot]) \in 1..Len(b[q.slot])
    BY <1>1, <2>1
  <2>. QED
    BY <1>1, <2>2 DEF Resolve
<1>2. CASE b[q.slot] = << >>
  <2>. DEFINE Hits == {k \in DOMAIN SlotOrder : HoldsType(b, SlotOrder[k], q.type)}
              First == CHOOSE k \in DOMAIN SlotOrder :
                         /\ HoldsType(b, SlotOrder[k], q.type)
                         /\ \A m \in 1..(k - 1) : ~HoldsType(b, SlotOrder[m], q.type)
  <2>1. Hits # {} /\ Hits \in SUBSET Nat /\ DOMAIN SlotOrder = 1..Len(SlotOrder)
        /\ Len(SlotOrder) \in Nat
    BY <1>2, LayerAssumption DEF CanResolve
  <2>2. PICK h \in Hits : \A y \in Hits : h <= y
    BY <2>1, LeastElement
  <2>3. \A m \in 1..(h - 1) : ~HoldsType(b, SlotOrder[m], q.type)
    BY <2>1, <2>2
  <2>4. First \in DOMAIN SlotOrder /\ HoldsType(b, SlotOrder[First], q.type)
    BY <2>2, <2>3
  <2>a. Resolve(b, q) =
          b[SlotOrder[First]][CHOOSE n \in 1..Len(b[SlotOrder[First]]) :
                                /\ b[SlotOrder[First]][n].type = q.type
                                /\ \A m \in 1..(n - 1) :
                                     b[SlotOrder[First]][m].type # q.type]
    BY <1>2 DEF Resolve
  <2>. HIDE DEF First
  <2>. DEFINE s == SlotOrder[First]
              found == b[s]
              Here == {n \in 1..Len(found) : found[n].type = q.type}
              Pick == CHOOSE n \in 1..Len(found) :
                        /\ found[n].type = q.type
                        /\ \A m \in 1..(n - 1) : found[m].type # q.type
  <2>5. s \in Slot
    BY <2>4, LayerAssumption
  <2>6. Len(found) \in Nat
    BY <2>5 DEF Board
  <2>7. Here # {} /\ Here \in SUBSET Nat
    <3>1. PICK n \in 1..Len(found) : found[n].type = q.type
      BY <2>4 DEF HoldsType
    <3>. QED
      BY <2>6, <3>1
  <2>8. PICK g \in Here : \A y \in Here : g <= y
    BY <2>7, LeastElement
  <2>9. \A m \in 1..(g - 1) : found[m].type # q.type
    <3>. SUFFICES ASSUME NEW m \in 1..(g - 1), found[m].type = q.type PROVE FALSE
      OBVIOUS
    <3>1. g \in 1..Len(found) /\ g \in Nat
      BY <2>8, <2>6
    <3>2. m \in 1..Len(found) /\ m < g
      BY <3>1, <2>6
    <3>3. m \in Here
      BY <3>2
    <3>. QED
      BY <2>8, <3>1, <3>2, <3>3
  <2>10. Pick \in 1..Len(found)
    BY <2>8, <2>9
  <2>11. Resolve(b, q) = found[Pick]
    BY <2>a
  <2>. QED
    BY <2>5, <2>10, <2>11
<1>. QED
  BY <1>1, <1>2

\* A blackboard b that extends a has everything a has, in the same place.
Extends(b, a) ==
  \A s \in Slot : /\ Len(a[s]) <= Len(b[s])
                  /\ \A k \in 1..Len(a[s]) : b[s][k] = a[s][k]

LEMMA MoreResolves ==
  ASSUME NEW a \in Board, NEW b \in Board, Extends(b, a),
         NEW i \in Task, CanResolveAll(a, i)
  PROVE  CanResolveAll(b, i)
<1>. SUFFICES ASSUME NEW k \in DOMAIN ParamsOf(i) PROVE CanResolve(b, ParamsOf(i)[k])
  BY DEF CanResolveAll
<1>. DEFINE q == ParamsOf(i)[k]
<1>1. CanResolve(a, q) /\ q.slot \in Slot
  BY ParamsAreTyped DEF CanResolveAll
<1>2. \A s \in Slot : a[s] \in Seq(Artifact) /\ b[s] \in Seq(Artifact)
  BY DEF Board
<1>3. CASE a[q.slot] # << >>
  <2>1. Len(a[q.slot]) > 0
    BY <1>1, <1>2, <1>3
  <2>2. Len(b[q.slot]) > 0
    BY <1>1, <1>2, <2>1 DEF Extends
  <2>. QED
    BY <1>1, <1>2, <2>2 DEF CanResolve
<1>4. ASSUME NEW s \in Slot, HoldsType(a, s, q.type) PROVE CanResolve(b, q)
  <2>1. HoldsType(b, s, q.type)
    BY <1>2, <1>4 DEF HoldsType, Extends
  <2>. QED
    BY <2>1 DEF CanResolve
<1>. QED
  BY <1>1, <1>3, <1>4 DEF CanResolve

\* Appending outputs extends the blackboard.
LEMMA OutputsExtend ==
  ASSUME NEW b \in Board, NEW i \in Task
  PROVE  /\ WithOutputs(b, i) \in Board
         /\ Extends(WithOutputs(b, i), b)
         /\ \A s \in Slot : \A k \in 1..Len(WithOutputs(b, i)[s]) :
              \/ k \in 1..Len(b[s]) /\ WithOutputs(b, i)[s][k] = b[s][k]
              \/ WithOutputs(b, i)[s][k] = Output(i)
<1>1. Output(i) \in Artifact /\ Output(i).source = i
  BY LayerAssumption DEF Output, Artifact
<1>2. \A s \in Slot : b[s] \in Seq(Artifact)
  BY DEF Board
<1>3. ASSUME NEW s \in Slot
      PROVE  /\ WithOutputs(b, i)[s] \in Seq(Artifact)
             /\ Len(b[s]) <= Len(WithOutputs(b, i)[s])
             /\ \A k \in 1..Len(b[s]) : WithOutputs(b, i)[s][k] = b[s][k]
             /\ \A k \in 1..Len(WithOutputs(b, i)[s]) :
                  \/ k \in 1..Len(b[s]) /\ WithOutputs(b, i)[s][k] = b[s][k]
                  \/ WithOutputs(b, i)[s][k] = Output(i)
  <2>1. CASE s \in Produces[Selected[i]]
    <3>1. WithOutputs(b, i)[s] = Append(b[s], Output(i))
      BY <2>1 DEF WithOutputs
    <3>. QED
      BY <1>1, <1>2, <3>1
  <2>2. CASE s \notin Produces[Selected[i]]
    <3>1. WithOutputs(b, i)[s] = b[s]
      BY <2>2 DEF WithOutputs
    <3>. QED
      BY <1>2, <3>1
  <2>. QED
    BY <2>1, <2>2
<1>4. WithOutputs(b, i) \in Board
  BY <1>3 DEF WithOutputs, Board
<1>. QED
  BY <1>3, <1>4 DEF Extends

----------------------------------------------------------------------------
(* The inductive invariant *)

\* Everything on the blackboard was left by earlier layers or produced by a
\* task that succeeded.
SourcesSucceeded ==
  \A s \in Slot : \A k \in 1..Len(board[s]) :
    \/ board[s][k].source = Outer
    \/ board[s][k].source \in Task /\ task[board[s][k].source] = "success"

IInv ==
  /\ TypeOK
  /\ incoming \in Board
  /\ Extends(board, incoming)
  /\ SourcesSucceeded
  /\ EarlierLayersSuffice
  /\ ArgumentsWereProduced

LEMMA InitIsGood ==
  ASSUME Init
  PROVE  IInv
<1>1. incoming \in Board /\ board = incoming /\ incoming \in Incoming
  BY LayerAssumption DEF Init
<1>2. TypeOK
  BY <1>1 DEF Init, TypeOK, Status, Missing
<1>3. \A s \in Slot : Len(board[s]) \in Nat
  BY <1>1 DEF Board
<1>4. Extends(board, incoming)
  BY <1>1, <1>3 DEF Extends
<1>5. SourcesSucceeded
  BY <1>1, LayerAssumption DEF SourcesSucceeded
<1>6. EarlierLayersSuffice /\ ArgumentsWereProduced
  BY DEF Init, EarlierLayersSuffice, ArgumentsWereProduced, Missing
<1>. QED
  BY <1>1, <1>2, <1>4, <1>5, <1>6 DEF IInv

\* What task i is called with: its arguments are on the blackboard, so they
\* come from earlier layers or from a task that succeeded before.
LEMMA ResolvedArguments ==
  ASSUME IInv, NEW i \in Task, task[i] = "waiting", CanResolveAll(board, i)
  PROVE  /\ ResolveAll(board, i) \in Seq(Artifact)
         /\ \A k \in 1..Len(ResolveAll(board, i)) :
              LET source == ResolveAll(board, i)[k].source
              IN  source = Outer \/ (source # i /\ source \in Task /\ task[source] = "success")
<1>1. board \in Board
  BY DEF IInv, TypeOK
<1>2. ParamsOf(i) \in Seq(Parameter) /\ DOMAIN ParamsOf(i) = 1..Len(ParamsOf(i))
  BY ParamsAreTyped
<1>3. ASSUME NEW k \in 1..Len(ParamsOf(i))
      PROVE  \E s \in Slot : \E n \in 1..Len(board[s]) :
               ResolveAll(board, i)[k] = board[s][n]
  <2>1. ParamsOf(i)[k].slot \in Slot /\ CanResolve(board, ParamsOf(i)[k])
    BY <1>2, ParamsAreTyped DEF CanResolveAll
  <2>. QED
    BY <1>1, <1>2, <2>1, ResolvedIsOnBoard DEF ResolveAll
<1>4. \A s \in Slot : \A n \in 1..Len(board[s]) : board[s][n] \in Artifact
  BY <1>1 DEF Board
<1>5. ResolveAll(board, i) \in [1..Len(ParamsOf(i)) -> Artifact]
  <2>1. \A k \in 1..Len(ParamsOf(i)) : ResolveAll(board, i)[k] \in Artifact
    BY <1>3, <1>4
  <2>. QED
    BY <1>2, <2>1 DEF ResolveAll
<1>6. ResolveAll(board, i) \in Seq(Artifact) /\ Len(ResolveAll(board, i)) = Len(ParamsOf(i))
  BY <1>2, <1>5
<1>7. ASSUME NEW k \in 1..Len(ParamsOf(i))
      PROVE  \/ ResolveAll(board, i)[k].source = Outer
             \/ /\ ResolveAll(board, i)[k].source # i
                /\ ResolveAll(board, i)[k].source \in Task
                /\ task[ResolveAll(board, i)[k].source] = "success"
  <2>1. PICK s \in Slot : \E n \in 1..Len(board[s]) : ResolveAll(board, i)[k] = board[s][n]
    BY <1>3
  <2>. QED
    BY <2>1 DEF IInv, SourcesSucceeded
<1>. QED
  BY <1>6, <1>7

LEMMA StartKeeps ==
  ASSUME IInv, NEW i \in Task, Start(i)
  PROVE  IInv'
<1>0. /\ task \in [Task -> Status] /\ args \in [Task -> Seq(Artifact)] /\ board \in Board
      /\ task[i] = "waiting"
      /\ UNCHANGED <<board, cost, outcome, context, incoming>>
  BY DEF IInv, TypeOK, Start
<1>1. /\ incoming' \in Board /\ Extends(board, incoming)'
  BY <1>0 DEF IInv, Extends
<1>2. PICK st \in {"running", "mismatch"} : task' = [task EXCEPT ![i] = st]
  BY DEF Start
<1>3. task' \in [Task -> Status] /\ \A j \in Task : task[j] = "success" => task'[j] = "success"
  BY <1>0, <1>2 DEF Status, Ended, Failed
<1>4. SourcesSucceeded'
  BY <1>0, <1>3 DEF IInv, SourcesSucceeded
<1>5. args' \in [Task -> Seq(Artifact)]
  <2>1. CASE CanResolveAll(board, i)
    <3>1. ResolveAll(board, i) \in Seq(Artifact)
      BY <2>1, <1>0, ResolvedArguments
    <3>. QED
      BY <2>1, <3>1, <1>0 DEF Start
  <2>2. CASE ~CanResolveAll(board, i)
    BY <2>2, <1>0 DEF Start
  <2>. QED
    BY <2>1, <2>2
<1>6. TypeOK'
  BY <1>0, <1>3, <1>5 DEF IInv, TypeOK
<1>7. EarlierLayersSuffice'
  <2>. SUFFICES ASSUME NEW j \in Task, CanResolveAll(incoming, j), task'[j] = "mismatch"
                PROVE  FALSE
    BY <1>0 DEF EarlierLayersSuffice
  <2>1. CASE j # i
    BY <2>1, <1>0, <1>2 DEF IInv, EarlierLayersSuffice
  <2>2. CASE j = i
    <3>1. CanResolveAll(board, i)
      BY <2>2, <1>0, MoreResolves DEF IInv
    <3>. QED
      BY <2>2, <3>1, <1>0 DEF Start
  <2>. QED
    BY <2>1, <2>2
<1>8. ArgumentsWereProduced'
  <2>. SUFFICES ASSUME NEW j \in Task, NEW k \in 1..Len(args'[j])
                PROVE  \/ args'[j][k].source = Outer
                       \/ args'[j][k].source # j /\ task'[args'[j][k].source] = "success"
    BY DEF ArgumentsWereProduced
  <2>1. CASE args'[j] = args[j]
    <3>1. \/ args[j][k].source = Outer
          \/ args[j][k].source # j /\ task[args[j][k].source] = "success"
      BY <2>1 DEF IInv, ArgumentsWereProduced
    <3>2. args[j][k] \in Artifact
      BY <2>1, <1>0
    <3>3. args[j][k].source \in Task \cup {Outer}
      BY <3>2 DEF Artifact
    <3>. QED
      BY <2>1, <3>1, <3>3, <1>3
  <2>2. CASE j = i /\ CanResolveAll(board, i)
    <3>1. args'[j] = ResolveAll(board, i)
      BY <2>2, <1>0 DEF Start
    <3>. QED
      BY <2>2, <3>1, <1>0, <1>3, ResolvedArguments
  <2>. QED
    BY <2>1, <2>2, <1>0 DEF Start
<1>. QED
  BY <1>1, <1>4, <1>6, <1>7, <1>8 DEF IInv

\* A running task ends; the blackboard becomes b, which extends it by what the
\* task produced if it succeeded.
LEMMA EndKeeps ==
  ASSUME IInv, NEW i \in Task, task[i] = "running",
         NEW st \in {"success", "timeout", "error"},
         task' = [task EXCEPT ![i] = st],
         cost' = [cost EXCEPT ![i] = TRUE],
         board' = IF st = "success" THEN WithOutputs(board, i) ELSE board,
         UNCHANGED <<args, outcome, context, incoming>>
  PROVE  IInv' /\ Extends(board', board)
<1>0. task \in [Task -> Status] /\ args \in [Task -> Seq(Artifact)] /\ board \in Board
      /\ incoming \in Board /\ Extends(board, incoming)
  BY DEF IInv, TypeOK
<1>1. /\ board' \in Board
      /\ Extends(board', board)
      /\ \A s \in Slot : \A k \in 1..Len(board'[s]) :
           \/ k \in 1..Len(board[s]) /\ board'[s][k] = board[s][k]
           \/ st = "success" /\ board'[s][k] = Output(i)
  BY <1>0, OutputsExtend DEF Extends, Board
<1>2. Extends(board, incoming)'
  BY <1>0, <1>1 DEF Extends, Board
<1>3. task' \in [Task -> Status] /\ \A j \in Task : task[j] = "success" => task'[j] = "success"
  BY <1>0 DEF Status, Ended, Failed
<1>4. TypeOK'
  BY <1>1, <1>3 DEF IInv, TypeOK
<1>5. SourcesSucceeded'
  <2>. SUFFICES ASSUME NEW s \in Slot, NEW k \in 1..Len(board'[s])
                PROVE  \/ board'[s][k].source = Outer
                       \/ /\ board'[s][k].source \in Task
                          /\ task'[board'[s][k].source] = "success"
    BY DEF SourcesSucceeded
  <2>1. CASE k \in 1..Len(board[s]) /\ board'[s][k] = board[s][k]
    BY <2>1, <1>3 DEF IInv, SourcesSucceeded
  <2>2. CASE st = "success" /\ board'[s][k] = Output(i)
    BY <2>2, <1>0 DEF Output
  <2>. QED
    BY <1>1, <2>1, <2>2
<1>6. EarlierLayersSuffice'
  BY <1>0 DEF IInv, EarlierLayersSuffice
<1>7. ArgumentsWereProduced'
  <2>. SUFFICES ASSUME NEW j \in Task, NEW k \in 1..Len(args[j])
                PROVE  \/ args[j][k].source = Outer
                       \/ args[j][k].source # j /\ task'[args[j][k].source] = "success"
    BY DEF ArgumentsWereProduced
  <2>1. \/ args[j][k].source = Outer
        \/ args[j][k].source # j /\ task[args[j][k].source] = "success"
    BY DEF IInv, ArgumentsWereProduced
  <2>2. args[j][k] \in Artifact
    BY <1>0
  <2>3. args[j][k].source \in Task \cup {Outer}
    BY <2>2 DEF Artifact
  <2>. QED
    BY <2>1, <2>3, <1>3
<1>. QED
  BY <1>0, <1>1, <1>2, <1>4, <1>5, <1>6, <1>7 DEF IInv

LEMMA BoardExtendsItself ==
  ASSUME NEW b \in Board
  PROVE  Extends(b, b)
BY DEF Board, Extends

LEMMA StepKeeps ==
  ASSUME IInv, [Next]_vars
  PROVE  IInv' /\ Extends(board', board)
<1>0. board \in Board
  BY DEF IInv, TypeOK
<1>1. ASSUME NEW i \in Task, Start(i) PROVE IInv' /\ Extends(board', board)
  BY <1>0, <1>1, StartKeeps, BoardExtendsItself DEF Start
<1>2. ASSUME NEW i \in Task, Succeed(i) PROVE IInv' /\ Extends(board', board)
  BY <1>2, EndKeeps DEF Succeed
<1>3. ASSUME NEW i \in Task, Fail(i) PROVE IInv' /\ Extends(board', board)
  BY <1>3, EndKeeps DEF Fail
<1>4. ASSUME NEW i \in Task, TimeOut(i) PROVE IInv' /\ Extends(board', board)
  BY <1>4, EndKeeps DEF TimeOut
<1>5. CASE Finish
  <2>1. UNCHANGED <<board, task, args, cost, context, incoming>>
        /\ outcome' \in {"running", "returned", "raised"}
    BY <1>5 DEF Finish
  <2>. QED
    BY <1>0, <2>1, BoardExtendsItself
    DEF IInv, TypeOK, Extends, SourcesSucceeded, EarlierLayersSuffice, ArgumentsWereProduced
<1>6. CASE UNCHANGED vars
  BY <1>0, <1>6, BoardExtendsItself
  DEF vars, IInv, TypeOK, Extends, SourcesSucceeded, EarlierLayersSuffice, ArgumentsWereProduced
<1>. QED
  BY <1>1, <1>2, <1>3, <1>4, <1>5, <1>6 DEF Next

----------------------------------------------------------------------------
(* Recursive definitions over the positions *)

LEMMA PassedOn ==
  ASSUME NEW A, NEW g, NEW n \in Nat, g[0] \in A,
         \A k \in 1..n : g[k - 1] \in A => g[k] \in A
  PROVE  \A k \in 0..n : g[k] \in A
<1>. DEFINE Bad == {k \in 0..n : g[k] \notin A}
<1>1. SUFFICES ASSUME Bad # {} PROVE FALSE
  OBVIOUS
<1>2. PICK k \in Bad : \A y \in Bad : k <= y
  <2>1. Bad \in SUBSET Nat
    OBVIOUS
  <2>. QED
    BY <1>1, <2>1, LeastElement
<1>3. k \in 1..n /\ k - 1 \in 0..n /\ ~(k <= k - 1)
  BY <1>2
<1>4. g[k - 1] \in A
  BY <1>2, <1>3
<1>. QED
  BY <1>2, <1>3, <1>4

GoesOn(f, a, n, next) == f[0] = a /\ \A k \in 1..n : f[k] = next[<<k, f[k - 1]>>]

Closed(A, n, next) == \A k \in 1..n, x \in A : next[<<k, x>>] \in A

\* There is a function that starts with a and goes on as next says.
LEMMA RecursionExists ==
  ASSUME NEW A, NEW a \in A, NEW n \in Nat, NEW next, Closed(A, n, next)
  PROVE  \E f \in [0..n -> A] : GoesOn(f, a, n, next)
<1>. USE DEF GoesOn
<1>. DEFINE Upto(m) == {f \in [0..m -> A] : GoesOn(f, a, m, next)}
            Some    == {m \in 0..n : Upto(m) # {}}
            g       == [m \in 0..n |-> m]
<1>1. 0 \in Some
  <2>1. [k \in 0..0 |-> a] \in Upto(0)
    OBVIOUS
  <2>. QED
    BY <2>1
<1>2. ASSUME NEW m \in 1..n, m - 1 \in Some PROVE m \in Some
  <2>1. PICK f \in Upto(m - 1) : TRUE
    BY <1>2
  <2>2. m \in Nat \ {0} /\ m - 1 \in 0..(m - 1) /\ f[m - 1] \in A
    BY <2>1
  <2>. DEFINE h == [k \in 0..m |-> IF k = m THEN next[<<m, f[m - 1]>>] ELSE f[k]]
  <2>3. h \in [0..m -> A] /\ h[0] = a
    BY <2>1, <2>2 DEF Closed
  <2>4. ASSUME NEW k \in 1..m PROVE h[k] = next[<<k, h[k - 1]>>]
    <3>1. k - 1 \in 0..m /\ k - 1 # m /\ h[k - 1] = f[k - 1]
      BY <2>2
    <3>2. CASE k = m
      BY <3>1, <3>2
    <3>3. CASE k # m
      <4>1. k \in 1..(m - 1) /\ h[k] = f[k]
        BY <2>2, <3>3
      <4>. QED
        BY <2>1, <3>1, <4>1
    <3>. QED
      BY <3>2, <3>3
  <2>. HIDE DEF h
  <2>5. h \in Upto(m)
    BY <2>3, <2>4
  <2>6. m \in 0..n
    OBVIOUS
  <2>. HIDE DEF Upto
  <2>. QED
    BY <2>5, <2>6
<1>. HIDE DEF Some
<1>3. \A k \in 1..n : g[k - 1] \in Some => g[k] \in Some
  BY <1>2
<1>4. \A k \in 0..n : g[k] \in Some
  <2>1. g[0] \in Some
    BY <1>1
  <2>. HIDE DEF g
  <2>. QED
    BY <1>3, <2>1, PassedOn
<1>5. n \in Some
  BY <1>4
<1>. QED
  BY <1>5 DEF Some

----------------------------------------------------------------------------
(* One slot: the layer is a sequence *)

Total == Len(Selected)

LEMMA TasksAreCounted == Task = 1..Total /\ Total \in Nat /\ IsFiniteSet(Task)
BY LayerAssumption, FS_Interval DEF Total

\* The boards of a sequence of tasks that starts on board b: each success leaves
\* its outputs to the tasks after it.
IsSequence(f, b, t) ==
  /\ f[1] = b
  /\ \A i \in Task : f[i + 1] = IF t[i] = "success" THEN WithOutputs(f[i], i) ELSE f[i]

LEMMA SequenceExists ==
  ASSUME NEW b \in Board, NEW t
  PROVE  IsSequence(CHOOSE f : f = [i \in 1..(Len(Selected) + 1) |->
                                     IF i = 1 THEN b
                                     ELSE IF t[i - 1] = "success"
                                          THEN WithOutputs(f[i - 1], i - 1)
                                          ELSE f[i - 1]], b, t)
<1>. DEFINE Onto(x, i) == IF t[i] = "success" THEN WithOutputs(x, i) ELSE x
            Is(f)      == f = [i \in 1..(Total + 1) |->
                                 IF i = 1 THEN b ELSE Onto(f[i - 1], i - 1)]
            next       == [y \in (1..Total) \X Board |-> Onto(y[2], y[1])]
<1>1. Total \in Nat /\ Task = 1..Total
  BY TasksAreCounted
<1>2. \A i \in Task, x \in Board : Onto(x, i) \in Board
  BY OutputsExtend
<1>. HIDE DEF Onto
<1>3. \A i \in 1..Total, x \in Board : next[<<i, x>>] = Onto(x, i)
  OBVIOUS
<1>4. PICK g \in [0..Total -> Board] : GoesOn(g, b, Total, next)
  <2>1. Closed(Board, Total, next)
    BY <1>1, <1>2, <1>3 DEF Closed
  <2>. HIDE DEF next
  <2>. QED
    BY <1>1, <2>1, RecursionExists
<1>5. g[0] = b /\ \A i \in 1..Total : g[i] = Onto(g[i - 1], i)
  <2>1. ASSUME NEW i \in 1..Total PROVE g[i] = Onto(g[i - 1], i)
    <3>1. g[i - 1] \in Board
      BY <1>1, <1>4
    <3>. QED
      BY <1>3, <1>4, <3>1 DEF GoesOn
  <2>. QED
    BY <1>4, <2>1 DEF GoesOn
<1>. HIDE DEF next
<1>. DEFINE h == [i \in 1..(Total + 1) |-> g[i - 1]]
<1>6. Is(h)
  <2>1. h[1] = b
    BY <1>1, <1>5
  <2>2. ASSUME NEW i \in 1..(Total + 1), i # 1 PROVE h[i] = Onto(h[i - 1], i - 1)
    <3>1. i - 1 \in 1..Total /\ i - 1 \in 1..(Total + 1)
      BY <1>1, <2>2
    <3>2. h[i] = g[i - 1] /\ h[i - 1] = g[(i - 1) - 1]
      BY <3>1
    <3>. HIDE DEF h
    <3>. QED
      BY <1>5, <3>1, <3>2
  <2>3. h = [i \in 1..(Total + 1) |-> h[i]]
    OBVIOUS
  <2>. HIDE DEF h
  <2>. QED
    BY <2>1, <2>2, <2>3
<1>. DEFINE s == CHOOSE f : Is(f)
<1>7. Is(s)
  <2>. HIDE DEF Is, h
  <2>. QED
    BY <1>6
<1>. HIDE DEF s
<1>8. IsSequence(s, b, t)
  <2>1. s[1] = b
    BY <1>1, <1>7
  <2>2. ASSUME NEW i \in Task PROVE s[i + 1] = Onto(s[i], i)
    <3>1. i + 1 \in 1..(Total + 1) /\ i + 1 # 1 /\ (i + 1) - 1 = i
      BY <1>1
    <3>. QED
      BY <1>7, <3>1
  <2>. QED
    BY <2>1, <2>2 DEF IsSequence, Onto
<1>. QED
  BY <1>8 DEF s, Onto, Total

LEMMA SequentialBoardIsOne ==
  incoming \in Board => IsSequence(SequentialBoard, incoming, task)
BY SequenceExists DEF SequentialBoard

LEMMA NextSequentialBoardIsOne ==
  (incoming \in Board => IsSequence(SequentialBoard, incoming, task))'
BY SequentialBoardIsOne, PTL

\* What a task finds depends on the successes before it only.
LEMMA SequencesAgree ==
  ASSUME NEW b, NEW t, NEW u, NEW f, NEW g,
         IsSequence(f, b, t), IsSequence(g, b, u),
         NEW i \in 1..(Total + 1),
         \A j \in 1..(i - 1) : t[j] = "success" <=> u[j] = "success"
  PROVE  f[i] = g[i]
<1>. DEFINE Bad == {k \in 1..i : f[k] # g[k]}
<1>0. Total \in Nat /\ Task = 1..Total
  BY TasksAreCounted
<1>1. SUFFICES ASSUME Bad # {} PROVE FALSE
  BY <1>0
<1>2. PICK k \in Bad : \A y \in Bad : k <= y
  <2>1. Bad \in SUBSET Nat
    OBVIOUS
  <2>. QED
    BY <1>1, <2>1, LeastElement
<1>3. k # 1
  BY <1>2 DEF IsSequence
<1>4. k - 1 \in Task /\ k - 1 \in 1..(i - 1) /\ k - 1 \in 1..i /\ ~(k <= k - 1) /\ (k - 1) + 1 = k
  BY <1>0, <1>2, <1>3
<1>5. f[k - 1] = g[k - 1]
  BY <1>2, <1>4
<1>6. f[k] = g[k]
  BY <1>4, <1>5 DEF IsSequence
<1>. QED
  BY <1>2, <1>6

\* Tasks are let in one by one, in the order of the decision ...
OneByOne ==
  \A i \in Task : task[i] # "waiting" => \A j \in 1..(i - 1) : task[j] \in Ended

\* ... and between two of them the board is what the sequence so far has left.
BoardIsSequential ==
  \A i \in 1..(Total + 1) :
    /\ \A j \in 1..(i - 1) : task[j] \in Ended
    /\ \A j \in i..Total : task[j] # "success"
    => board = SequentialBoard[i]

RunsAsDecided(i) ==
  /\ task[i] = "mismatch" => ~CanResolveAll(SequentialBoard[i], i)
  /\ task[i] \in {"running", "success", "timeout", "error"} =>
       args[i] = ResolveAll(SequentialBoard[i], i)

InSequence ==
  context.max_concurrency = 1 =>
    OneByOne /\ BoardIsSequential /\ \A i \in Task : RunsAsDecided(i)

\* A step of one task leaves the boards of the sequence up to that task alone, and
\* all of them if the task does not succeed.
LEMMA SequenceStays ==
  ASSUME IInv, IInv', incoming' = incoming, NEW i \in Task, NEW st,
         task[i] # "success", task' = [task EXCEPT ![i] = st]
  PROVE  /\ \A k \in 1..(Total + 1) :
              k <= i \/ st # "success" => SequentialBoard'[k] = SequentialBoard[k]
         /\ SequentialBoard'[i + 1] =
              IF st = "success" THEN WithOutputs(SequentialBoard[i], i) ELSE SequentialBoard[i]
<1>0. Task = 1..Total /\ Total \in Nat /\ task \in [Task -> Status]
  BY TasksAreCounted DEF IInv, TypeOK
<1>1. IsSequence(SequentialBoard, incoming, task)
  BY SequentialBoardIsOne DEF IInv
<1>2. IsSequence(SequentialBoard', incoming, task')
  <2>1. IsSequence(SequentialBoard', incoming', task')
    <3>1. incoming' \in Board
      BY DEF IInv
    <3>. QED
      BY <3>1, NextSequentialBoardIsOne
  <2>. QED
    BY <2>1
<1>3. \A j \in Task : j # i => task'[j] = task[j]
  BY <1>0
<1>4. task'[i] = st
  BY <1>0
<1>5. PICK f, g, t, u : /\ f = SequentialBoard /\ g = SequentialBoard'
                        /\ t = task /\ u = task'
  OBVIOUS
<1>6. ASSUME NEW k \in 1..(Total + 1), k <= i \/ st # "success" PROVE g[k] = f[k]
  <2>1. \A j \in 1..(k - 1) : t[j] = "success" <=> u[j] = "success"
    <3>. TAKE j \in 1..(k - 1)
    <3>1. j \in Task /\ (j # i \/ st # "success")
      BY <1>0, <1>6
    <3>. QED
      BY <1>3, <1>4, <1>5, <3>1
  <2>2. IsSequence(f, incoming, t) /\ IsSequence(g, incoming, u)
    BY <1>1, <1>2, <1>5
  <2>. HIDE <1>5
  <2>. QED
    BY <2>1, <2>2, SequencesAgree
<1>7. i \in 1..(Total + 1) /\ i <= i
  BY <1>0
<1>8. g[i] = f[i]
  BY <1>6, <1>7
<1>9. g[i + 1] = IF st = "success" THEN WithOutputs(f[i], i) ELSE f[i]
  BY <1>2, <1>4, <1>5, <1>8 DEF IsSequence
<1>. QED
  BY <1>5, <1>6, <1>9

\* A task that ends, or is refused, is the last that is not waiting.
LEMMA StepKeepsSequence ==
  ASSUME IInv, IInv', InSequence, context.max_concurrency = 1, UNCHANGED <<context, incoming>>,
         NEW i \in Task, NEW st \in Status, st # "waiting", task' = [task EXCEPT ![i] = st],
         task[i] \notin Ended,
         \A j \in 1..(i - 1) : task[j] \in Ended,
         board' = IF st = "success" THEN WithOutputs(board, i) ELSE board,
         \A j \in Task : j # i => args'[j] = args[j],
         task[i] = "waiting" =>
           /\ st = "mismatch" => ~CanResolveAll(board, i)
           /\ st # "mismatch" => args'[i] = ResolveAll(board, i),
         task[i] = "running" => st # "mismatch" /\ args'[i] = args[i]
  PROVE  InSequence'
<1>0. Task = 1..Total /\ Total \in Nat /\ task \in [Task -> Status] /\ i \in 1..(Total + 1)
  BY TasksAreCounted DEF IInv, TypeOK
<1>1. task[i] # "success" /\ task'[i] = st /\ \A j \in Task : j # i => task'[j] = task[j]
  BY <1>0 DEF Ended
<1>2. \A j \in Task : j > i => task[j] = "waiting"
  <2>. SUFFICES ASSUME NEW j \in Task, j > i, task[j] # "waiting" PROVE FALSE
    OBVIOUS
  <2>1. i \in 1..(j - 1)
    BY <1>0
  <2>. QED
    BY <2>1 DEF InSequence, OneByOne
<1>3. board = SequentialBoard[i]
  <2>1. \A j \in i..Total : task[j] # "success"
    BY <1>0, <1>1, <1>2
  <2>. QED
    BY <1>0, <2>1 DEF InSequence, BoardIsSequential
<1>4. PICK f, g : f = SequentialBoard /\ g = SequentialBoard'
  OBVIOUS
<1>5. /\ \A k \in 1..(Total + 1) : k <= i \/ st # "success" => g[k] = f[k]
      /\ g[i + 1] = IF st = "success" THEN WithOutputs(f[i], i) ELSE f[i]
  BY <1>1, <1>4, SequenceStays
<1>6. OneByOne'
  <2>. SUFFICES ASSUME NEW k \in Task, task'[k] # "waiting", NEW j \in 1..(k - 1)
                PROVE  task'[j] \in Ended
    BY DEF OneByOne
  <2>1. k <= i
    BY <1>0, <1>1, <1>2
  <2>2. j # i /\ j \in Task /\ j \in 1..(i - 1)
    BY <1>0, <2>1
  <2>. QED
    BY <1>1, <2>2
<1>7. BoardIsSequential'
  <2>. SUFFICES ASSUME NEW k \in 1..(Total + 1),
                       \A j \in 1..(k - 1) : task'[j] \in Ended,
                       \A j \in k..Total : task'[j] # "success"
                PROVE  board' = g[k]
    BY <1>4 DEF BoardIsSequential
  <2>1. CASE k <= i
    <3>1. i \in k..Total
      BY <1>0, <2>1
    <3>2. st # "success"
      BY <1>1, <3>1
    <3>3. \A j \in 1..(k - 1) : task[j] \in Ended
      BY <1>0, <2>1
    <3>4. \A j \in k..Total : task[j] # "success"
      <4>. TAKE j \in k..Total
      <4>1. j \in Task
        BY <1>0
      <4>. QED
        BY <1>1, <4>1
    <3>5. board = f[k]
      BY <1>4, <3>3, <3>4 DEF InSequence, BoardIsSequential
    <3>. QED
      BY <1>5, <3>2, <3>5
  <2>2. CASE k > i + 1
    <3>1. i + 1 \in 1..(k - 1) /\ i + 1 \in Task /\ i + 1 > i
      BY <1>0, <2>2
    <3>2. task'[i + 1] = "waiting"
      BY <1>1, <1>2, <3>1
    <3>. QED
      BY <3>1, <3>2 DEF Ended, Failed
  <2>3. CASE k = i + 1
    BY <1>3, <1>4, <1>5, <2>3
  <2>. QED
    BY <1>0, <2>1, <2>2, <2>3
<1>8. ASSUME NEW k \in Task PROVE RunsAsDecided(k)'
  <2>0. k \in 1..(Total + 1)
    BY <1>0
  <2>1. CASE k > i
    <3>1. task'[k] = "waiting"
      BY <1>0, <1>1, <1>2, <2>1
    <3>. QED
      BY <3>1 DEF RunsAsDecided
  <2>2. CASE k <= i
    <3>1. g[k] = f[k]
      BY <1>5, <2>0, <2>2
    <3>2. CASE k # i
      BY <1>1, <1>4, <3>1, <3>2 DEF RunsAsDecided, InSequence
    <3>3. CASE k = i /\ task[i] = "waiting"
      BY <1>1, <1>3, <1>4, <3>1, <3>3 DEF RunsAsDecided
    <3>4. CASE k = i /\ task[i] = "running"
      BY <1>1, <1>4, <3>1, <3>4 DEF RunsAsDecided, InSequence
    <3>. QED
      BY <1>0, <3>2, <3>3, <3>4 DEF Status
  <2>. QED
    BY <1>0, <2>1, <2>2
<1>. QED
  BY <1>6, <1>7, <1>8 DEF InSequence

----------------------------------------------------------------------------
(* The blackboard is that of the successes *)

BInv == OutputsAreThoseOfSuccesses /\ InSequence

LEMMA InitTells ==
  ASSUME Init, IInv
  PROVE  BInv
<1>0. Task = 1..Total /\ Total \in Nat
  BY TasksAreCounted
<1>1. incoming \in Board /\ board = incoming /\ \A i \in Task : task[i] = "waiting"
  BY DEF Init, IInv
<1>2. ASSUME NEW s \in Slot
      PROVE  /\ Len(board[s]) = Len(incoming[s]) + Cardinality(Successes(s))
             /\ \A k \in 1..Len(incoming[s]) : board[s][k] = incoming[s][k]
             /\ Successes(s) = {}
  <2>1. Successes(s) = {}
    BY <1>1 DEF Successes
  <2>2. Cardinality(Successes(s)) = 0 /\ Len(incoming[s]) \in Nat
    BY <1>1, <2>1, FS_EmptySet DEF Board
  <2>. QED
    BY <1>1, <2>1, <2>2
<1>3. OutputsAreThoseOfSuccesses
  BY <1>2 DEF OutputsAreThoseOfSuccesses
<1>4. OneByOne /\ \A i \in Task : RunsAsDecided(i)
  BY <1>1 DEF OneByOne, RunsAsDecided
<1>5. BoardIsSequential
  <2>. SUFFICES ASSUME NEW i \in 1..(Total + 1), \A j \in 1..(i - 1) : task[j] \in Ended
                PROVE  board = SequentialBoard[i]
    BY DEF BoardIsSequential
  <2>1. i = 1
    <3>. SUFFICES ASSUME i # 1 PROVE FALSE
      OBVIOUS
    <3>1. 1 \in Task /\ 1 \in 1..(i - 1)
      BY <1>0
    <3>2. task[1] \in Ended /\ task[1] = "waiting"
      BY <1>1, <3>1
    <3>. QED
      BY <3>2 DEF Ended, Failed
  <2>. QED
    BY <1>1, <2>1, SequentialBoardIsOne DEF IsSequence
<1>. QED
  BY <1>3, <1>4, <1>5 DEF BInv, InSequence

\* Boards and successes as they are: so are the outputs.
LEMMA OutputsStay ==
  ASSUME OutputsAreThoseOfSuccesses, board' = board, incoming' = incoming,
         \A i \in Task : task'[i] = "success" <=> task[i] = "success"
  PROVE  OutputsAreThoseOfSuccesses'
<1>1. \A s \in Slot : Successes(s)' = Successes(s)
  BY DEF Successes
<1>2. \A i \in Task : Output(i)' = Output(i)
  BY DEF Output
<1>3. \A s \in Slot : \A i \in Successes(s) : i \in Task
  BY DEF Successes
<1>. QED
  BY <1>1, <1>2, <1>3 DEF OutputsAreThoseOfSuccesses

\* A success adds its output, once, to every slot it produces.
LEMMA SuccessAdds ==
  ASSUME IInv, OutputsAreThoseOfSuccesses, NEW i \in Task, Succeed(i)
  PROVE  OutputsAreThoseOfSuccesses'
<1>0. /\ task \in [Task -> Status] /\ board \in Board /\ incoming \in Board
      /\ task[i] # "success" /\ incoming' = incoming
      /\ task' = [task EXCEPT ![i] = "success"] /\ board' = WithOutputs(board, i)
  BY DEF IInv, TypeOK, Succeed
<1>. SUFFICES ASSUME NEW s \in Slot
              PROVE  /\ Len(board'[s]) = Len(incoming[s]) + Cardinality(Successes(s)')
                     /\ \A k \in 1..Len(incoming[s]) : board'[s][k] = incoming[s][k]
                     /\ \A j \in Successes(s)' :
                          \E k \in (Len(incoming[s]) + 1)..Len(board'[s]) :
                            board'[s][k] = Output(j)
  BY <1>0 DEF OutputsAreThoseOfSuccesses, Output
<1>1. PICK b, a : b = board[s] /\ a = incoming[s]
  OBVIOUS
<1>2. b \in Seq(Artifact) /\ a \in Seq(Artifact) /\ Len(b) \in Nat /\ Len(a) \in Nat
  BY <1>0, <1>1 DEF Board
<1>3. /\ IsFiniteSet(Successes(s)) /\ Cardinality(Successes(s)) \in Nat
      /\ i \notin Successes(s)
  <2>1. IsFiniteSet(Successes(s))
    BY TasksAreCounted, FS_Subset DEF Successes
  <2>. QED
    BY <1>0, <2>1, FS_CardinalityType DEF Successes
<1>4. /\ Len(b) = Len(a) + Cardinality(Successes(s))
      /\ \A k \in 1..Len(a) : b[k] = a[k]
      /\ \A j \in Successes(s) : \E k \in (Len(a) + 1)..Len(b) : b[k] = Output(j)
  BY <1>1 DEF OutputsAreThoseOfSuccesses
<1>5. CASE s \in Produces[Selected[i]]
  <2>1. board'[s] = Append(b, Output(i))
    BY <1>0, <1>1, <1>5 DEF WithOutputs
  <2>2. Successes(s)' = Successes(s) \cup {i}
    BY <1>0, <1>5 DEF Successes
  <2>3. Cardinality(Successes(s)') = Cardinality(Successes(s)) + 1
    BY <1>3, <2>2, FS_AddElement
  <2>4. Output(i) \in Artifact
    BY LayerAssumption DEF Output, Artifact
  <2>5. /\ Len(Append(b, Output(i))) = Len(b) + 1
        /\ Append(b, Output(i))[Len(b) + 1] = Output(i)
        /\ \A k \in 1..Len(b) : Append(b, Output(i))[k] = b[k]
    BY <1>2, <2>4
  <2>6. PICK d : d = board'[s]
    OBVIOUS
  <2>7. PICK n \in Nat : n = Cardinality(Successes(s))
    BY <1>3
  <2>8. Len(d) = Len(b) + 1 /\ d[Len(b) + 1] = Output(i) /\ \A k \in 1..Len(b) : d[k] = b[k]
    BY <2>1, <2>5, <2>6
  <2>9. Len(d) = Len(a) + (n + 1) /\ \A k \in 1..Len(a) : d[k] = a[k]
    BY <1>2, <1>4, <2>7, <2>8
  <2>10. ASSUME NEW j \in Successes(s)'
         PROVE  \E k \in (Len(a) + 1)..Len(d) : d[k] = Output(j)
    <3>1. CASE j = i
      <4>1. Len(b) + 1 \in (Len(a) + 1)..Len(d)
        BY <1>2, <1>4, <2>7, <2>8
      <4>. QED
        BY <2>8, <3>1, <4>1
    <3>2. CASE j # i
      <4>1. PICK k \in (Len(a) + 1)..Len(b) : b[k] = Output(j)
        BY <1>4, <2>2, <2>10, <3>2
      <4>2. k \in 1..Len(b) /\ k \in (Len(a) + 1)..Len(d)
        BY <1>2, <2>8, <4>1
      <4>. QED
        BY <2>8, <4>1, <4>2
    <3>. QED
      BY <3>1, <3>2
  <2>. QED
    BY <1>1, <2>3, <2>6, <2>7, <2>9, <2>10
<1>6. CASE s \notin Produces[Selected[i]]
  <2>1. board'[s] = b
    BY <1>0, <1>1, <1>6 DEF WithOutputs
  <2>2. Successes(s)' = Successes(s)
    BY <1>0, <1>6 DEF Successes
  <2>. QED
    BY <1>1, <1>4, <2>1, <2>2
<1>. QED
  BY <1>5, <1>6

LEMMA StartTells ==
  ASSUME IInv, IInv', BInv, NEW i \in Task, Start(i)
  PROVE  BInv'
<1>0. /\ task \in [Task -> Status] /\ args \in [Task -> Seq(Artifact)]
      /\ task[i] = "waiting" /\ UNCHANGED <<board, context, incoming>>
      /\ Task = 1..Total /\ Total \in Nat /\ IsFiniteSet(Task)
  BY TasksAreCounted DEF IInv, TypeOK, Start
<1>1. PICK st \in {"running", "mismatch"} :
        /\ task' = [task EXCEPT ![i] = st]
        /\ st = "mismatch" => ~CanResolveAll(board, i)
        /\ st # "mismatch" => args'[i] = ResolveAll(board, i)
        /\ \A j \in Task : j # i => args'[j] = args[j]
  BY <1>0 DEF Start
<1>2. OutputsAreThoseOfSuccesses'
  BY <1>0, <1>1, OutputsStay DEF BInv
<1>3. ASSUME context.max_concurrency = 1 PROVE InSequence'
  <2>1. Running = {}
    <3>1. IsFiniteSet(Running)
      BY <1>0, FS_Subset DEF Running
    <3>2. Cardinality(Running) \in Nat /\ Cardinality(Running) < 1
      BY <1>3, <3>1, FS_CardinalityType DEF Start
    <3>3. Cardinality(Running) = 0
      BY <3>2
    <3>. QED
      BY <3>1, <3>3, FS_EmptySet
  <2>2. \A j \in 1..(i - 1) : task[j] \in Ended
    <3>. TAKE j \in 1..(i - 1)
    <3>1. j \in Task /\ task[j] # "waiting"
      BY <1>0 DEF Start
    <3>2. task[j] # "running"
      BY <2>1, <3>1 DEF Running
    <3>. QED
      BY <1>0, <3>1, <3>2 DEF Status
  <2>3. st \in Status /\ st # "waiting" /\ st # "success" /\ task[i] \notin Ended
    BY <1>0 DEF Status, Ended, Failed
  <2>. QED
    BY <1>0, <1>1, <1>3, <2>2, <2>3, StepKeepsSequence DEF BInv
<1>. QED
  BY <1>0, <1>2, <1>3 DEF BInv, InSequence

\* A call ends, in whichever way.
LEMMA EndTells ==
  ASSUME IInv, IInv', BInv, NEW i \in Task, task[i] = "running",
         NEW st \in {"success", "timeout", "error"},
         task' = [task EXCEPT ![i] = st],
         board' = IF st = "success" THEN WithOutputs(board, i) ELSE board,
         UNCHANGED <<args, context, incoming>>
  PROVE  InSequence'
<1>1. ASSUME context.max_concurrency = 1 PROVE InSequence'
  <2>1. \A j \in 1..(i - 1) : task[j] \in Ended
    BY <1>1 DEF BInv, InSequence, OneByOne
  <2>2. st \in Status /\ st # "waiting" /\ task[i] \notin Ended
    BY DEF Status, Ended, Failed
  <2>3. st # "mismatch" /\ task[i] # "waiting"
    OBVIOUS
  <2>. QED
    BY <1>1, <2>1, <2>2, <2>3, StepKeepsSequence DEF BInv
<1>. QED
  BY <1>1 DEF InSequence

LEMMA NextTells ==
  ASSUME IInv, IInv', BInv, [Next]_vars
  PROVE  BInv'
<1>0. task \in [Task -> Status]
  BY DEF IInv, TypeOK
<1>1. ASSUME NEW i \in Task, Start(i) PROVE BInv'
  BY <1>1, StartTells
<1>2. ASSUME NEW i \in Task, Succeed(i) PROVE BInv'
  BY <1>2, SuccessAdds, EndTells DEF BInv, Succeed
<1>3. ASSUME NEW i \in Task, Fail(i) PROVE BInv'
  BY <1>0, <1>3, OutputsStay, EndTells DEF BInv, Fail
<1>4. ASSUME NEW i \in Task, TimeOut(i) PROVE BInv'
  BY <1>0, <1>4, OutputsStay, EndTells DEF BInv, TimeOut
<1>5. CASE UNCHANGED <<board, task, args, context, incoming>>
  <2>1. OutputsAreThoseOfSuccesses'
    BY <1>5, OutputsStay DEF BInv
  <2>2. SequentialBoard' = SequentialBoard
    BY <1>5 DEF SequentialBoard
  <2>3. InSequence'
    BY <1>5, <2>2 DEF BInv, InSequence, OneByOne, BoardIsSequential, RunsAsDecided
  <2>. QED
    BY <2>1, <2>3 DEF BInv
<1>6. CASE Finish
  BY <1>5, <1>6 DEF Finish
<1>7. CASE UNCHANGED vars
  BY <1>5, <1>7 DEF vars
<1>. QED
  BY <1>1, <1>2, <1>3, <1>4, <1>6, <1>7 DEF Next

----------------------------------------------------------------------------
(* The theorems *)

\* Whatever interleaving, concurrency and timeouts: tools are called with what
\* earlier layers left or a sibling really produced, and a tool whose inputs
\* earlier layers left is always called.
THEOREM LayerIsGood == Spec => []IInv
<1>. QED
  BY InitIsGood, StepKeeps, PTL DEF Spec

\* A tool whose inputs earlier layers produced never ends as SCHEMA_MISMATCH.
THEOREM EarlierLayersSufficeAlways == Spec => []EarlierLayersSuffice
<1>1. IInv => EarlierLayersSuffice
  BY DEF IInv
<1>. QED
  BY <1>1, LayerIsGood, PTL

\* No tool is called with anything a failed, timed-out or unfinished sibling
\* may have made.
THEOREM ArgumentsWereProducedAlways == Spec => []ArgumentsWereProduced
<1>1. IInv => ArgumentsWereProduced
  BY DEF IInv
<1>. QED
  BY <1>1, LayerIsGood, PTL

\* Both of them, as the runs have it.
THEOREM ArgumentsAreSoundAlways == Spec => []ArgumentsAreSound
<1>. QED
  BY EarlierLayersSufficeAlways, ArgumentsWereProducedAlways, PTL DEF ArgumentsAreSound

\* The blackboard is append-only: artifacts are kept, never overwritten.
THEOREM NeverOverwrittenEver == Spec => NeverOverwritten
<1>1. IInv /\ [Next]_vars =>
        [\A s \in Slot : /\ Len(board[s]) <= Len(board'[s])
                         /\ \A k \in 1..Len(board[s]) : board'[s][k] = board[s][k]]_vars
  BY StepKeeps DEF Extends
<1>. QED
  BY <1>1, LayerIsGood, PTL DEF Spec, NeverOverwritten

\* Whatever interleaves, fails or times out, the layer leaves one artifact per slot
\* and success and no other; and with one slot, every task ran as it would have
\* in a sequence of the tasks before it.
THEOREM BoardTellsTasksAlways == Spec => []BoardTellsTasks
<1>1. Init => BInv
  BY InitIsGood, InitTells
<1>2. BInv /\ IInv /\ IInv' /\ [Next]_vars => BInv'
  BY NextTells
<1>3. BInv => BoardTellsTasks
  BY DEF BInv, BoardTellsTasks, InSequence, OneSlotIsASequence, RunsAsDecided
<1>. QED
  BY <1>1, <1>2, <1>3, LayerIsGood, PTL DEF Spec

\* Tasks, the blackboard and the outcomes of a layer keep their types.
THEOREM LayerIsTyped == Spec => []TypeOK
<1>1. IInv => TypeOK
  BY DEF IInv
<1>. QED
  BY <1>1, LayerIsGood, PTL

=============================================================================
