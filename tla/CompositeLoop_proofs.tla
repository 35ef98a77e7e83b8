------------------------ MODULE CompositeLoop_proofs ------------------------
(***************************************************************************)
(* What a composite's loop guarantees for every route, any stop condition, *)
(* any budget and every interleaving of answers, failures and a timeout.   *)
(***************************************************************************)
EXTENDS CompositeLoop, FiniteSetTheorems, TLAPS

Outcome == {"running", "returned", "no_output", "unmet", "layer_failed", "cancelled"}

----------------------------------------------------------------------------
(* The route *)

LEMMA RouteShape ==
  /\ Route \in Seq(Seq(Tool)) /\ Len(Route) \in Nat \ {0}
  /\ DOMAIN Route = 1..Len(Route)
  /\ \A g \in 1..Len(Route) :
       /\ Route[g] \in Seq(Tool) /\ Len(Route[g]) \in Nat \ {0}
       /\ DOMAIN Route[g] = 1..Len(Route[g])
       /\ \A k \in 1..Len(Route[g]) : Route[g][k] \in Tool
<1>1. Route \in Seq(Seq(Tool)) /\ Route # <<>>
  BY CompositeAssumption
<1>2. \A g \in 1..Len(Route) : Route[g] \in Seq(Tool) /\ Route[g] # <<>>
  BY <1>1, CompositeAssumption
<1>. QED
  BY <1>1, <1>2

----------------------------------------------------------------------------
(* Well-formed states *)

\* What the variables hold.
Typed ==
  /\ board \in [Slot -> SUBSET Nat]
  /\ round \in 1..MaxIterations
  /\ layer \in Seq(Execution)
  /\ call \in BOOLEAN
  /\ reading \in Reading
  /\ detail \in Seq(Seq(Seq(Execution)))
  /\ outcome \in Outcome
  /\ timeout \in Timeouts

\* The detail, the layer and the blackboard fit the route and the round.
Shaped ==
  /\ Len(detail) = round
  /\ \A r \in 1..Len(detail) :
       /\ Len(detail[r]) <= Len(Route)
       /\ \A g \in 1..Len(detail[r]) : Len(detail[r][g]) = Len(Route[g])
  /\ IF Group <= Len(Route) THEN Len(layer) <= Len(Route[Group]) ELSE layer = <<>>
  /\ call => Group <= Len(Route) /\ Len(layer) < Len(Route[Group])
  /\ \A s \in Slot : board[s] \subseteq 0..round

\* HasArguments of the blackboard b.
Ready(b, t) == \A s \in Needs[t] : b[s] # {}

\* Whatever was called has its arguments on the blackboard ever since.
ArgumentsHeld ==
  /\ \A r \in 1..Len(detail) : \A g \in 1..Len(detail[r]) : \A k \in 1..Len(detail[r][g]) :
       detail[r][g][k].status # "mismatch" => Ready(board, Route[g][k])
  /\ \A k \in 1..Len(layer) :
       layer[k].status # "mismatch" => Ready(board, Route[Group][k])
  /\ call => Ready(board, NextTool)

\* A tool of the layer under way that was not called was called in no earlier round.
LayerPersists ==
  \A k \in 1..Len(layer) : layer[k].status = "mismatch" =>
    \A r \in 1..(round - 1) : Group <= Len(detail[r]) =>
      detail[r][Group][k].status = "mismatch"

\* What DetailTellsOutcome says of the layers; it says the rest of inner trials.
RoundsTell ==
  LET last == detail[round] IN
  /\ \A r \in 1..(round - 1) : Complete(detail[r]) /\ Whole(detail[r])
  /\ outcome \in {"returned", "no_output", "unmet"} => Complete(last) /\ Whole(last)
  /\ outcome = "layer_failed" <=> ~Whole(last)
  /\ \A g \in 1..(Len(last) - 1) : ~AllFailed(last[g])

IInv ==
  /\ Typed
  /\ Shaped
  /\ ArgumentsHeld
  /\ LayerPersists
  /\ ArgumentsPersist
  /\ StopsAtOnce
  /\ RoundsTell

\* The consequences of the shape that every step needs.
LEMMA StateShape ==
  ASSUME Typed, Shaped
  PROVE  /\ round \in Nat \ {0} /\ MaxIterations \in Nat
         /\ detail[round] \in Seq(Seq(Execution))
         /\ Group \in Nat \ {0} /\ Group = Len(detail[round]) + 1
         /\ Len(layer) \in Nat
         /\ DOMAIN detail = 1..round
         /\ \A r \in 1..round :
              /\ detail[r] \in Seq(Seq(Execution)) /\ Len(detail[r]) \in Nat
              /\ DOMAIN detail[r] = 1..Len(detail[r])
              /\ \A g \in 1..Len(detail[r]) :
                   /\ detail[r][g] \in Seq(Execution)
                   /\ g \in 1..Len(Route)
                   /\ Len(detail[r][g]) = Len(Route[g])
                   /\ DOMAIN detail[r][g] = 1..Len(Route[g])
         /\ InLayer => /\ Group \in 1..Len(Route)
                       /\ Len(layer) + 1 \in 1..Len(Route[Group])
                       /\ NextTool = Route[Group][Len(layer) + 1]
                       /\ NextTool \in Tool
<1>1. round \in Nat \ {0} /\ MaxIterations \in Nat
  BY CompositeAssumption DEF Typed
<1>2. \A r \in 1..round :
        /\ detail[r] \in Seq(Seq(Execution)) /\ Len(detail[r]) \in Nat
        /\ DOMAIN detail[r] = 1..Len(detail[r])
  BY <1>1 DEF Typed, Shaped
<1>3. DOMAIN detail = 1..round
  BY DEF Typed, Shaped
<1>4. Group \in Nat \ {0} /\ Group = Len(detail[round]) + 1
  BY <1>1, <1>2 DEF Group
<1>5. ASSUME NEW r \in 1..round, NEW g \in 1..Len(detail[r])
      PROVE  /\ detail[r][g] \in Seq(Execution)
             /\ g \in 1..Len(Route)
             /\ Len(detail[r][g]) = Len(Route[g])
             /\ DOMAIN detail[r][g] = 1..Len(Route[g])
  <2>1. detail[r][g] \in Seq(Execution)
    BY <1>2
  <2>2. Len(detail[r][g]) = Len(Route[g]) /\ Len(detail[r]) <= Len(Route)
    BY <1>1 DEF Shaped
  <2>3. g \in 1..Len(Route)
    BY <1>2, <2>2, RouteShape
  <2>. QED
    BY <2>1, <2>2, <2>3
<1>6. Len(layer) \in Nat
  BY DEF Typed
<1>7. ASSUME InLayer
      PROVE  /\ Group \in 1..Len(Route)
             /\ Len(layer) + 1 \in 1..Len(Route[Group])
             /\ NextTool = Route[Group][Len(layer) + 1]
             /\ NextTool \in Tool
  <2>1. Group \in 1..Len(Route)
    BY <1>4, <1>7, RouteShape DEF InLayer
  <2>2. Len(layer) + 1 \in 1..Len(Route[Group])
    BY <1>6, <1>7, <2>1, RouteShape DEF InLayer
  <2>. QED
    BY <2>1, <2>2, RouteShape DEF NextTool
<1>. QED
  BY <1>1, <1>2, <1>3, <1>4, <1>5, <1>6, <1>7

LEMMA RoundsTellAll ==
  ASSUME Typed, Shaped, RoundsTell
  PROVE  DetailTellsOutcome
<1>1. ASSUME Settled, outcome # "cancelled", NEW r \in DOMAIN detail
      PROVE  LET trial == PseudoTrial(detail[r])
             IN  /\ trial.completed => trial.walked = DOMAIN Route
                 /\ trial.completed <=> ~(outcome = "layer_failed" /\ r = Len(detail))
  <2>. DEFINE trial == PseudoTrial(detail[r])
  <2>1. r \in 1..round /\ Len(detail) = round /\ round \in Nat \ {0}
    BY StateShape DEF Shaped
  <2>2. trial.completed <=> Whole(detail[r])
    BY <2>1, StateShape DEF PseudoTrial, Whole
  <2>3. Whole(detail[r]) <=> ~(outcome = "layer_failed" /\ r = round)
    BY <1>1, <2>1 DEF RoundsTell, Typed, Outcome, Settled
  <2>4. ASSUME Whole(detail[r]) PROVE Complete(detail[r])
    BY <1>1, <2>1, <2>4 DEF RoundsTell, Typed, Outcome, Settled
  <2>5. ASSUME Complete(detail[r]) PROVE trial.walked = DOMAIN Route
    BY <2>5, RouteShape DEF PseudoTrial, Complete
  <2>. QED
    BY <2>1, <2>2, <2>3, <2>4, <2>5
<1>. QED
  BY <1>1 DEF RoundsTell, DetailTellsOutcome

----------------------------------------------------------------------------
(* The invariant is inductive *)

LEMMA InitIsGood ==
  ASSUME Init
  PROVE  IInv
<1>1. /\ round = 1 /\ layer = <<>> /\ call = FALSE /\ reading = NoReading
      /\ detail = << <<>> >> /\ outcome = "running" /\ timeout \in Timeouts
      /\ board = [s \in Slot |-> IF s \in Given THEN {0} ELSE {}]
  BY DEF Init
<1>2. Typed
  <2>1. board \in [Slot -> SUBSET Nat]
    BY <1>1
  <2>2. detail \in Seq(Seq(Seq(Execution)))
    <3>1. << >> \in Seq(Seq(Execution))
      OBVIOUS
    <3>2. \A S : \A x \in S : << x >> \in Seq(S)
      OBVIOUS
    <3>. QED
      BY <1>1, <3>1, <3>2
  <2>3. reading \in Reading
    BY <1>1 DEF NoReading, Reading
  <2>5. call \in BOOLEAN /\ outcome \in Outcome
    BY <1>1 DEF Outcome
  <2>6. layer \in Seq(Execution)
    BY <1>1
  <2>4. round \in 1..MaxIterations
    BY <1>1, CompositeAssumption
  <2>. QED
    BY <1>1, <2>1, <2>2, <2>3, <2>4, <2>5, <2>6 DEF Typed
<1>3. Group = 1 /\ Len(detail[1]) = 0 /\ Len(detail) = 1
  BY <1>1 DEF Group
<1>4. Shaped
  BY <1>1, <1>3, RouteShape DEF Shaped
<1>5. ArgumentsHeld /\ LayerPersists /\ ArgumentsPersist
  BY <1>1, <1>3 DEF ArgumentsHeld, LayerPersists, ArgumentsPersist
<1>6. StopsAtOnce
  BY <1>1 DEF StopsAtOnce
<1>7. RoundsTell
  BY <1>1, <1>3 DEF RoundsTell, Whole
<1>. QED
  BY <1>2, <1>4, <1>5, <1>6, <1>7 DEF IInv

LEMMA BeginCallKeeps ==
  ASSUME IInv, BeginCall
  PROVE  IInv'
<1>0. /\ Typed /\ Shaped /\ ArgumentsHeld /\ LayerPersists /\ ArgumentsPersist
      /\ StopsAtOnce /\ RoundsTell
  BY DEF IInv
<1>1. /\ InLayer /\ ~call
      /\ UNCHANGED <<board, round, reading, detail, outcome, bill, timeout, spent>>
  BY DEF BeginCall
<1>2. /\ Group' = Group
      /\ HasArguments(NextTool) <=> Ready(board, NextTool)
  BY <1>1 DEF Group, HasArguments, Ready
<1>3. ArgumentsPersist' /\ StopsAtOnce' /\ RoundsTell'
  BY <1>0, <1>1 DEF ArgumentsPersist, StopsAtOnce, StopAt, RoundsTell, Complete, Whole, AllFailed
<1>4. \A r \in 1..Len(detail) : \A g \in 1..Len(detail[r]) : \A k \in 1..Len(detail[r][g]) :
        /\ Route[g][k] \in Tool
        /\ detail[r][g][k].status # "mismatch" => Ready(board', Route[g][k])
  <2>. SUFFICES ASSUME NEW r \in 1..Len(detail), NEW g \in 1..Len(detail[r]),
                       NEW k \in 1..Len(detail[r][g])
                PROVE  /\ Route[g][k] \in Tool
                       /\ detail[r][g][k].status # "mismatch" => Ready(board', Route[g][k])
    OBVIOUS
  <2>1. Route[g][k] \in Tool
    BY <1>0, StateShape, RouteShape DEF Shaped
  <2>. QED
    BY <1>0, <1>1, <2>1 DEF ArgumentsHeld
<1>5. CASE HasArguments(NextTool)
  <2>1. call' = TRUE /\ layer' = layer
    BY <1>5 DEF BeginCall
  <2>2. NextTool' = NextTool /\ NextTool \in Tool
    BY <1>0, <1>1, <1>2, <2>1, StateShape DEF NextTool
  <2>3. Typed'
    BY <1>0, <1>1, <2>1 DEF Typed
  <2>4. Shaped'
    BY <1>0, <1>1, <1>2, <2>1 DEF Shaped, InLayer
  <2>5. ArgumentsHeld'
    <3>1. Ready(board', NextTool)
      BY <1>1, <1>2, <1>5
    <3>2. \A k \in 1..Len(layer) :
            layer[k].status # "mismatch" => Ready(board', Route[Group][k])
      BY <1>0, <1>1 DEF ArgumentsHeld
    <3>. QED
      BY <1>1, <1>2, <1>4, <2>1, <2>2, <3>1, <3>2 DEF ArgumentsHeld
  <2>6. LayerPersists'
    BY <1>0, <1>1, <1>2, <2>1 DEF LayerPersists
  <2>. QED
    BY <1>3, <2>3, <2>4, <2>5, <2>6 DEF IInv
<1>6. CASE ~HasArguments(NextTool)
  <2>. DEFINE new == [tool |-> NextTool, status |-> "mismatch", reading |-> NoReading]
  <2>1. call' = FALSE /\ layer' = Append(layer, new)
    BY <1>0, <1>1, <1>6 DEF BeginCall, Typed
  <2>2. /\ new \in Execution /\ layer \in Seq(Execution) /\ Len(layer) \in Nat
        /\ layer' \in Seq(Execution) /\ Len(layer') = Len(layer) + 1
        /\ \A k \in 1..Len(layer) : layer'[k] = layer[k]
        /\ layer'[Len(layer) + 1] = new
    <3>1. new \in Execution
      BY <1>0, <1>1, StateShape DEF Execution, NoReading, Reading
    <3>. QED
      BY <1>0, <2>1, <3>1 DEF Typed
  <2>3. Typed'
    BY <1>0, <1>1, <2>1, <2>2 DEF Typed
  <2>4. Shaped'
    BY <1>0, <1>1, <1>2, <2>1, <2>2, StateShape DEF Shaped
  <2>5. ArgumentsHeld'
    <3>1. \A k \in 1..Len(layer') :
            layer'[k].status # "mismatch" => Ready(board', Route[Group][k])
      BY <1>0, <1>1, <2>2 DEF ArgumentsHeld
    <3>. QED
      BY <1>1, <1>2, <1>4, <2>1, <3>1 DEF ArgumentsHeld
  <2>6. ASSUME NEW r \in 1..(round - 1), Group <= Len(detail[r])
        PROVE  detail[r][Group][Len(layer) + 1].status = "mismatch"
    <3>0. /\ round \in Nat /\ Group \in 1..Len(Route) /\ Group \in Nat \ {0}
          /\ NextTool = Route[Group][Len(layer) + 1]
          /\ Len(layer) + 1 \in 1..Len(Route[Group])
      BY <1>0, <1>1, StateShape
    <3>1. r \in 1..round /\ Len(detail) = round /\ Len(detail[r]) \in Nat
      BY <1>0, <3>0, StateShape DEF Shaped
    <3>3. Group \in 1..Len(detail[r])
      BY <2>6, <3>0, <3>1
    <3>2. Group \in 1..Len(detail[r]) /\ Len(detail[r][Group]) = Len(Route[Group])
      BY <1>0, <3>1, <3>3, StateShape
    <3>. QED
      BY <1>0, <1>2, <1>6, <3>0, <3>1, <3>2 DEF ArgumentsHeld
  <2>7. LayerPersists'
    BY <1>0, <1>1, <1>2, <2>2, <2>6 DEF LayerPersists
  <2>. QED
    BY <1>3, <2>3, <2>4, <2>5, <2>7 DEF IInv
<1>. QED
  BY <1>5, <1>6

LEMMA UseHandleKeeps ==
  ASSUME IInv, NEW r \in Reading, UseHandle(r)
  PROVE  IInv'
<1>1. /\ reading' = r
      /\ UNCHANGED <<board, round, layer, call, detail, outcome, bill, timeout>>
  BY DEF UseHandle
<1>2. Group' = Group /\ NextTool' = NextTool
  BY <1>1 DEF Group, NextTool
<1>3. Typed' /\ Shaped'
  BY <1>1, <1>2 DEF IInv, Typed, Shaped
<1>4. ArgumentsHeld' /\ LayerPersists'
  BY <1>1, <1>2 DEF IInv, ArgumentsHeld, LayerPersists
<1>5. ArgumentsPersist' /\ StopsAtOnce' /\ RoundsTell'
  BY <1>1 DEF IInv, ArgumentsPersist, StopsAtOnce, StopAt, RoundsTell, Complete, Whole, AllFailed
<1>. QED
  BY <1>3, <1>4, <1>5 DEF IInv

LEMMA CancelKeeps ==
  ASSUME IInv, Cancel
  PROVE  IInv'
<1>1. /\ outcome = "running" /\ outcome' = "cancelled"
      /\ UNCHANGED <<board, round, layer, call, reading, detail, timeout>>
  BY DEF Cancel, Settle
<1>2. Group' = Group /\ NextTool' = NextTool
  BY <1>1 DEF Group, NextTool
<1>3. Typed' /\ Shaped'
  BY <1>1, <1>2 DEF IInv, Typed, Shaped, Outcome
<1>4. ArgumentsHeld' /\ LayerPersists'
  BY <1>1, <1>2 DEF IInv, ArgumentsHeld, LayerPersists
<1>5. ArgumentsPersist' /\ StopsAtOnce' /\ RoundsTell'
  BY <1>1 DEF IInv, ArgumentsPersist, StopsAtOnce, StopAt, RoundsTell, Complete, Whole, AllFailed
<1>. QED
  BY <1>3, <1>4, <1>5 DEF IInv

LEMMA EndCallKeeps ==
  ASSUME IInv, NEW status \in {"success", "error"}, EndCall(status)
  PROVE  IInv'
<1>0. /\ Typed /\ Shaped /\ ArgumentsHeld /\ LayerPersists /\ ArgumentsPersist
      /\ StopsAtOnce /\ RoundsTell
  BY DEF IInv
<1>. DEFINE new == [tool |-> NextTool, status |-> status, reading |-> reading]
<1>1. /\ InLayer /\ call /\ call' = FALSE /\ layer' = Append(layer, new)
      /\ reading' = NoReading
      /\ UNCHANGED <<round, detail, outcome, bill, timeout, spent>>
  BY DEF EndCall
<1>2. Group' = Group
  BY <1>1 DEF Group
<1>3. /\ layer \in Seq(Execution) /\ Len(layer) \in Nat
      /\ layer' \in Seq(Execution) /\ Len(layer') = Len(layer) + 1
      /\ \A k \in 1..Len(layer) : layer'[k] = layer[k]
      /\ layer'[Len(layer) + 1] = new
  <2>1. new \in Execution
    BY <1>0, <1>1, StateShape DEF Execution, Typed
  <2>. QED
    BY <1>0, <1>1, <2>1 DEF Typed
<1>4. /\ board' \in [Slot -> SUBSET Nat]
      /\ \A s \in Slot : board[s] \subseteq board'[s] /\ board'[s] \subseteq board[s] \cup {round}
  <2>1. CASE status = "success"
    <3>1. board' = [s \in Slot |-> IF s \in Makes[NextTool] THEN board[s] \cup {round}
                                   ELSE board[s]]
      BY <2>1 DEF EndCall
    <3>2. round \in Nat
      BY <1>0, StateShape
    <3>. QED
      BY <1>0, <3>1, <3>2 DEF Typed
  <2>2. CASE status # "success"
    <3>1. board' = board
      BY <2>2 DEF EndCall
    <3>. QED
      BY <1>0, <3>1 DEF Typed
  <2>. QED
    BY <2>1, <2>2
<1>5. \A t \in Tool : Ready(board, t) => Ready(board', t)
  <2>. SUFFICES ASSUME NEW t \in Tool, Ready(board, t), NEW s \in Needs[t]
                PROVE  board'[s] # {}
    BY DEF Ready
  <2>1. s \in Slot /\ board[s] # {}
    BY CompositeAssumption DEF Ready
  <2>. QED
    BY <1>4, <2>1
<1>6. Typed'
  BY <1>0, <1>1, <1>3, <1>4 DEF Typed, NoReading, Reading
<1>7. Shaped'
  <2>1. \A s \in Slot : board'[s] \subseteq 0..round
    BY <1>0, <1>4, StateShape DEF Shaped
  <2>2. Group <= Len(Route) /\ Len(layer') <= Len(Route[Group])
    BY <1>0, <1>1, <1>3, StateShape
  <2>. QED
    BY <1>0, <1>1, <1>2, <2>1, <2>2 DEF Shaped
<1>8. ArgumentsHeld'
  <2>1. ASSUME NEW q \in 1..Len(detail), NEW g \in 1..Len(detail[q]),
               NEW k \in 1..Len(detail[q][g]), detail[q][g][k].status # "mismatch"
        PROVE  Ready(board', Route[g][k])
    <3>1. Route[g][k] \in Tool
      BY <1>0, StateShape, RouteShape DEF Shaped
    <3>. QED
      BY <1>0, <1>5, <2>1, <3>1 DEF ArgumentsHeld
  <2>2. ASSUME NEW k \in 1..Len(layer'), layer'[k].status # "mismatch"
        PROVE  Ready(board', Route[Group][k])
    <3>1. k \in 1..Len(Route[Group]) /\ Route[Group][k] \in Tool
      <4>1. Group \in 1..Len(Route) /\ Len(layer) + 1 <= Len(Route[Group])
        BY <1>0, <1>1, StateShape
      <4>. QED
        BY <1>3, <4>1, RouteShape
    <3>2. CASE k \in 1..Len(layer)
      BY <1>0, <1>3, <1>5, <2>2, <3>1, <3>2 DEF ArgumentsHeld
    <3>3. CASE k = Len(layer) + 1
      <4>1. NextTool = Route[Group][k] /\ Ready(board, NextTool)
        BY <1>0, <1>1, <3>3, StateShape DEF ArgumentsHeld
      <4>. QED
        BY <1>5, <3>1, <4>1
    <3>. QED
      BY <1>3, <3>2, <3>3
  <2>. QED
    BY <1>1, <1>2, <2>1, <2>2 DEF ArgumentsHeld
<1>9. LayerPersists'
  <2>1. \A k \in 1..Len(layer') : layer'[k].status = "mismatch" =>
          k \in 1..Len(layer) /\ layer[k].status = "mismatch"
    BY <1>3
  <2>. QED
    BY <1>0, <1>1, <1>2, <2>1 DEF LayerPersists
<1>10. ArgumentsPersist' /\ RoundsTell'
  BY <1>0, <1>1 DEF ArgumentsPersist, RoundsTell, Complete, Whole, AllFailed
<1>11. StopsAtOnce'
  <2>1. \A r \in 1..(round - 1) : StopAt(r)' => StopAt(r)
    <3>. SUFFICES ASSUME NEW r \in 1..(round - 1), StopAt(r)', NEW s \in StopWhen
                  PROVE  \E x \in board[s] : x <= r
      BY DEF StopAt
    <3>1. PICK x \in board'[s] : x <= r
      BY DEF StopAt
    <3>2. x # round /\ s \in Slot
      BY <1>0, <3>1, CompositeAssumption, StateShape
    <3>. QED
      BY <1>4, <3>1, <3>2
  <2>2. outcome' = "running" /\ outcome = "running"
    BY <1>1 DEF InLayer
  <2>. QED
    BY <1>0, <1>1, <2>1, <2>2 DEF StopsAtOnce
<1>. QED
  BY <1>6, <1>7, <1>8, <1>9, <1>10, <1>11 DEF IInv

LEMMA EndLayerKeeps ==
  ASSUME IInv, EndLayer
  PROVE  IInv'
<1>0. /\ Typed /\ Shaped /\ ArgumentsHeld /\ LayerPersists /\ ArgumentsPersist
      /\ StopsAtOnce /\ RoundsTell
  BY DEF IInv
<1>. DEFINE rounds == detail[round]
<1>1. /\ outcome = "running"
      /\ Group <= Len(Route) /\ Len(layer) = Len(Route[Group])
      /\ layer' = <<>>
      /\ detail' = [detail EXCEPT ![round] = Append(@, layer)]
      /\ outcome' = IF AllFailed(layer) THEN "layer_failed" ELSE "running"
      /\ UNCHANGED <<board, round, call, reading, timeout>>
  BY DEF EndLayer, Settle
<1>2. /\ round \in Nat \ {0} /\ Group \in 1..Len(Route) /\ Group = Len(rounds) + 1
      /\ Len(rounds) \in Nat /\ rounds \in Seq(Seq(Execution)) /\ round \in 1..Len(detail)
      /\ detail \in Seq(Seq(Seq(Execution))) /\ layer \in Seq(Execution)
      /\ DOMAIN detail = 1..round /\ Len(detail) = round
  BY <1>0, <1>1, StateShape, RouteShape DEF Shaped, Typed
<1>3. /\ detail' \in Seq(Seq(Seq(Execution))) /\ Len(detail') = round
      /\ detail'[round] = Append(rounds, layer)
      /\ \A r \in 1..(round - 1) : detail'[r] = detail[r]
  <2>1. Append(rounds, layer) \in Seq(Seq(Execution))
    BY <1>2
  <2>. QED
    BY <1>1, <1>2, <2>1
<1>4. /\ Len(detail'[round]) = Len(rounds) + 1
      /\ detail'[round][Group] = layer
      /\ \A g \in 1..Len(rounds) : detail'[round][g] = rounds[g]
  BY <1>2, <1>3
<1>5. Group' = Group + 1 /\ call = FALSE
  <2>1. Group' = Len(detail'[round]) + 1
    BY <1>1 DEF Group
  <2>2. ~call
    BY <1>0, <1>1, <1>2, RouteShape DEF Shaped
  <2>. QED
    BY <1>0, <1>2, <1>4, <2>1, <2>2 DEF Typed
<1>6. Typed'
  <2>1. layer' \in Seq(Execution)
    BY <1>1
  <2>2. outcome' \in Outcome
    BY <1>1 DEF Outcome
  <2>. QED
    BY <1>0, <1>1, <1>3, <2>1, <2>2 DEF Typed
<1>7. Shaped'
  <2>1. ASSUME NEW r \in 1..round
        PROVE  /\ Len(detail'[r]) <= Len(Route)
               /\ \A g \in 1..Len(detail'[r]) : Len(detail'[r][g]) = Len(Route[g])
    <3>1. CASE r = round
      BY <1>0, <1>1, <1>2, <1>4, <3>1, RouteShape DEF Shaped
    <3>2. CASE r # round
      <4>1. detail'[r] = detail[r]
        BY <1>2, <1>3, <2>1, <3>2
      <4>. QED
        BY <1>0, <1>2, <4>1 DEF Shaped
    <3>. QED
      BY <3>1, <3>2
  <2>2. IF Group' <= Len(Route) THEN Len(layer') <= Len(Route[Group']) ELSE layer' = <<>>
    <3>1. ASSUME Group + 1 <= Len(Route) PROVE Len(Route[Group + 1]) \in Nat
      BY <1>2, <3>1, RouteShape
    <3>. QED
      BY <1>1, <1>5, <3>1
  <2>. QED
    BY <1>0, <1>1, <1>3, <1>5, <2>1, <2>2 DEF Shaped
<1>8. ArgumentsHeld'
  <2>1. ASSUME NEW r \in 1..Len(detail'), NEW g \in 1..Len(detail'[r]),
               NEW k \in 1..Len(detail'[r][g]), detail'[r][g][k].status # "mismatch"
        PROVE  Ready(board, Route[g][k])
    <3>1. CASE r = round /\ g = Group
      BY <1>0, <1>4, <2>1, <3>1 DEF ArgumentsHeld
    <3>2. CASE r = round /\ g # Group
      <4>1. g \in 1..Len(rounds) /\ detail'[r][g] = rounds[g]
        BY <1>2, <1>4, <3>2
      <4>. QED
        BY <1>0, <1>2, <2>1, <3>2, <4>1 DEF ArgumentsHeld
    <3>3. CASE r # round
      <4>1. r \in 1..Len(detail) /\ detail'[r] = detail[r]
        BY <1>2, <1>3, <3>3
      <4>. QED
        BY <1>0, <2>1, <4>1 DEF ArgumentsHeld
    <3>. QED
      BY <3>1, <3>2, <3>3
  <2>2. Len(layer') = 0
    BY <1>1
  <2>. QED
    BY <1>1, <1>5, <2>1, <2>2 DEF ArgumentsHeld
<1>9. LayerPersists'
  BY <1>1 DEF LayerPersists
<1>10. ArgumentsPersist'
  <2>. SUFFICES ASSUME NEW r \in DOMAIN detail', NEW q \in DOMAIN detail', r < q,
                       NEW g \in DOMAIN detail'[r] \cap DOMAIN detail'[q],
                       NEW k \in DOMAIN detail'[q][g],
                       detail'[q][g][k].status = "mismatch"
                PROVE  detail'[r][g][k].status = "mismatch"
    BY DEF ArgumentsPersist
  <2>0. DOMAIN detail' = 1..round
    BY <1>3
  <2>1. r \in 1..(round - 1) /\ detail'[r] = detail[r] /\ r \in DOMAIN detail /\ q \in DOMAIN detail
    BY <1>2, <1>3, <2>0
  <2>2. g \in 1..Len(detail[r]) /\ g \in 1..Len(detail'[q])
    BY <1>2, <1>3, <2>1
  <2>3. CASE q = round /\ g = Group
    <3>1. detail'[q][g] = layer
      BY <1>4, <2>3
    <3>2. k \in 1..Len(layer) /\ layer[k].status = "mismatch"
      BY <1>2, <3>1
    <3>3. Group <= Len(detail[r])
      BY <2>2, <2>3
    <3>. QED
      BY <1>0, <2>1, <2>3, <3>2, <3>3 DEF LayerPersists
  <2>4. CASE q = round /\ g # Group
    <3>0. g \in 1..Len(rounds)
      BY <1>2, <1>4, <2>2, <2>4
    <3>1. g \in DOMAIN detail[q] /\ detail'[q][g] = detail[q][g]
      BY <1>2, <1>4, <2>4, <3>0
    <3>. QED
      BY <1>0, <2>1, <3>1 DEF ArgumentsPersist
  <2>5. CASE q # round
    <3>0. q \in 1..(round - 1)
      BY <1>2, <2>0, <2>5
    <3>1. detail'[q] = detail[q]
      BY <1>3, <3>0
    <3>. QED
      BY <1>0, <2>1, <3>1 DEF ArgumentsPersist
  <2>. QED
    BY <2>3, <2>4, <2>5
<1>11. StopsAtOnce'
  BY <1>0, <1>1 DEF StopsAtOnce, StopAt
<1>12. RoundsTell'
  <2>1. DOMAIN detail'[round] = 1..Group /\ DOMAIN rounds = 1..Len(rounds)
    BY <1>2, <1>3, <1>4
  <2>2. Whole(rounds)
    BY <1>0, <1>1 DEF RoundsTell
  <2>9. \A g \in 1..Len(rounds) : ~AllFailed(detail'[round][g])
    BY <1>4, <2>1, <2>2 DEF Whole
  <2>3. Whole(detail'[round]) <=> ~AllFailed(layer)
    <3>1. \A g \in 1..Group : g \in 1..Len(rounds) \/ g = Group
      BY <1>2
    <3>2. Group \in 1..Group
      BY <1>2
    <3>. QED
      BY <1>4, <2>1, <2>9, <3>1, <3>2 DEF Whole
  <2>4. \A g \in 1..(Len(detail'[round]) - 1) : ~AllFailed(detail'[round][g])
    BY <1>2, <1>4, <2>9
  <2>5. \A r \in 1..(round - 1) : Complete(detail'[r]) /\ Whole(detail'[r])
    BY <1>0, <1>3 DEF RoundsTell
  <2>6. /\ outcome' \notin {"returned", "no_output", "unmet"}
        /\ outcome' = "layer_failed" <=> AllFailed(layer)
    BY <1>1
  <2>7. round' = round
    BY <1>1
  <2>8. /\ \A r \in 1..(round' - 1) : Complete(detail'[r]) /\ Whole(detail'[r])
        /\ outcome' = "layer_failed" <=> ~Whole(detail'[round'])
        /\ \A g \in 1..(Len(detail'[round']) - 1) : ~AllFailed(detail'[round'][g])
    BY <2>3, <2>4, <2>5, <2>6, <2>7
  <2>. QED
    BY <2>6, <2>8 DEF RoundsTell
<1>. QED
  BY <1>6, <1>7, <1>8, <1>9, <1>10, <1>11, <1>12 DEF IInv

\* The blackboard says whether the loop should have stopped by now.
LEMMA StopNow ==
  ASSUME Typed, Shaped
  PROVE  /\ StopSatisfied <=> StopAt(round)
         /\ ~StopSatisfied => \A r \in Nat : ~StopAt(r)
<1>1. ASSUME StopSatisfied, NEW s \in StopWhen PROVE \E x \in board[s] : x <= round
  <2>1. s \in Slot /\ board[s] # {}
    BY <1>1, CompositeAssumption DEF StopSatisfied
  <2>2. board[s] \subseteq 0..round
    BY <2>1 DEF Shaped
  <2>3. PICK x \in board[s] : x \in 0..round
    BY <2>1, <2>2
  <2>. QED
    BY <2>3, StateShape
<1>2. ASSUME ~StopSatisfied, NEW r PROVE ~StopAt(r)
  BY <1>2 DEF StopSatisfied, StopAt
<1>. QED
  BY <1>1, <1>2 DEF StopAt

LEMMA EndRoundKeeps ==
  ASSUME IInv, EndRound
  PROVE  IInv'
<1>0. /\ Typed /\ Shaped /\ ArgumentsHeld /\ LayerPersists /\ ArgumentsPersist
      /\ StopsAtOnce /\ RoundsTell
  BY DEF IInv
<1>1. /\ outcome = "running" /\ Group > Len(Route)
      /\ UNCHANGED <<board, layer, call, reading, timeout>>
  BY DEF EndRound
<1>2. /\ layer = <<>> /\ call = FALSE
      /\ round \in Nat \ {0} /\ round \in 1..MaxIterations /\ MaxIterations \in Nat
      /\ detail \in Seq(Seq(Seq(Execution))) /\ Len(detail) = round
      /\ DOMAIN detail = 1..round
      /\ Complete(detail[round]) /\ Whole(detail[round])
  <2>1. layer = <<>> /\ ~call
    BY <1>0, <1>1, StateShape, RouteShape DEF Shaped
  <2>2. Complete(detail[round])
    <3>1. Len(detail[round]) \in Nat /\ Group = Len(detail[round]) + 1 /\ Len(detail) = round
          /\ round \in 1..round
      BY <1>0, StateShape DEF Shaped
    <3>2. Len(detail[round]) <= Len(Route)
      BY <1>0, <3>1 DEF Shaped
    <3>. QED
      BY <1>1, <3>1, <3>2, RouteShape DEF Complete
  <2>3. Whole(detail[round])
    BY <1>0, <1>1 DEF RoundsTell
  <2>. QED
    BY <1>0, <2>1, <2>2, <2>3, StateShape DEF Typed, Shaped
<1>3. CASE detail' = detail /\ round' = round
           /\ \/ StopSatisfied /\ outcome' \in {"returned", "no_output"}
              \/ ~StopSatisfied /\ round = MaxIterations /\ outcome' = "unmet"
  <2>1. Group' = Group
    BY <1>3 DEF Group
  <2>2. Typed' /\ Shaped'
    BY <1>0, <1>1, <1>3, <2>1 DEF Typed, Shaped, Outcome
  <2>3. ArgumentsHeld' /\ LayerPersists' /\ ArgumentsPersist'
    BY <1>0, <1>1, <1>2, <1>3, <2>1 DEF ArgumentsHeld, LayerPersists, ArgumentsPersist
  <2>4. StopsAtOnce'
    BY <1>0, <1>1, <1>3, StopNow DEF StopsAtOnce, StopAt
  <2>5. RoundsTell'
    <3>1. /\ \A r \in 1..(round - 1) : Complete(detail[r]) /\ Whole(detail[r])
          /\ \A g \in 1..(Len(detail[round]) - 1) : ~AllFailed(detail[round][g])
          /\ Complete(detail[round]) /\ Whole(detail[round])
      BY <1>0, <1>2 DEF RoundsTell
    <3>2. outcome' \in {"returned", "no_output", "unmet"}
      BY <1>3
    <3>. QED
      BY <1>3, <3>1, <3>2 DEF RoundsTell, Complete, Whole, AllFailed
  <2>. QED
    BY <2>2, <2>3, <2>4, <2>5 DEF IInv
<1>4. CASE /\ ~StopSatisfied /\ round # MaxIterations /\ outcome' = "running"
           /\ round' = round + 1 /\ detail' = Append(detail, <<>>)
  <2>1. /\ detail' \in Seq(Seq(Seq(Execution))) /\ Len(detail') = round + 1
        /\ detail'[round + 1] = <<>> /\ Len(detail'[round + 1]) = 0
        /\ \A r \in 1..round : detail'[r] = detail[r]
        /\ round + 1 \in 1..MaxIterations
    <3>1. <<>> \in Seq(Seq(Execution))
      OBVIOUS
    <3>. QED
      BY <1>2, <1>4, <3>1
  <2>2. Group' = 1
    BY <1>4, <2>1 DEF Group
  <2>3. Typed'
    BY <1>0, <1>1, <1>4, <2>1 DEF Typed, Outcome
  <2>4. Shaped'
    <3>1. ASSUME NEW r \in 1..(round + 1)
          PROVE  /\ Len(detail'[r]) <= Len(Route)
                 /\ \A g \in 1..Len(detail'[r]) : Len(detail'[r][g]) = Len(Route[g])
      <4>1. CASE r = round + 1
        BY <2>1, <4>1, RouteShape
      <4>2. CASE r # round + 1
        <5>1. r \in 1..Len(detail) /\ detail'[r] = detail[r]
          BY <1>2, <2>1, <4>2
        <5>. QED
          BY <1>0, <5>1 DEF Shaped
      <4>. QED
        BY <4>1, <4>2
    <3>2. \A s \in Slot : board'[s] \subseteq 0..(round + 1)
      BY <1>0, <1>1, <1>2 DEF Shaped
    <3>3. Len(layer') = 0 /\ 1 <= Len(Route) /\ Len(layer') <= Len(Route[1])
      BY <1>1, <1>2, RouteShape
    <3>. QED
      BY <1>1, <1>2, <1>4, <2>1, <2>2, <3>1, <3>2, <3>3 DEF Shaped
  <2>5. ArgumentsHeld'
    <3>. SUFFICES ASSUME NEW r \in 1..Len(detail'), NEW g \in 1..Len(detail'[r]),
                         NEW k \in 1..Len(detail'[r][g]),
                         detail'[r][g][k].status # "mismatch"
                  PROVE  Ready(board, Route[g][k])
      BY <1>1, <1>2 DEF ArgumentsHeld
    <3>0. r # round + 1
      BY <2>1
    <3>1. r \in 1..Len(detail) /\ detail'[r] = detail[r]
      BY <1>2, <2>1, <3>0
    <3>. QED
      BY <1>0, <3>1 DEF ArgumentsHeld
  <2>6. LayerPersists'
    BY <1>1, <1>2 DEF LayerPersists
  <2>7. ArgumentsPersist'
    <3>. SUFFICES ASSUME NEW r \in DOMAIN detail', NEW q \in DOMAIN detail', r < q,
                         NEW g \in DOMAIN detail'[r] \cap DOMAIN detail'[q],
                         NEW k \in DOMAIN detail'[q][g],
                         detail'[q][g][k].status = "mismatch"
                  PROVE  detail'[r][g][k].status = "mismatch"
      BY DEF ArgumentsPersist
    <3>3. DOMAIN detail' = 1..(round + 1)
      BY <1>2, <2>1
    <3>4. q # round + 1
      BY <2>1
    <3>1. q \in 1..round /\ r \in 1..round
      BY <1>2, <3>3, <3>4
    <3>2. detail'[r] = detail[r] /\ detail'[q] = detail[q] /\ r \in DOMAIN detail /\ q \in DOMAIN detail
      BY <1>2, <2>1, <3>1
    <3>. QED
      BY <1>0, <3>2 DEF ArgumentsPersist
  <2>8. StopsAtOnce'
    <3>1. \A r \in Nat : ~StopAt(r)'
      BY <1>0, <1>1, <1>4, StopNow DEF StopAt
    <3>. QED
      BY <1>2, <1>4, <3>1 DEF StopsAtOnce
  <2>9. RoundsTell'
    <3>4. \A r \in 1..round : r \in 1..(round - 1) \/ r = round
      BY <1>2
    <3>1. \A r \in 1..round : Complete(detail[r]) /\ Whole(detail[r])
      BY <1>0, <1>2, <3>4 DEF RoundsTell
    <3>2. \A r \in 1..(round' - 1) : Complete(detail'[r]) /\ Whole(detail'[r])
      BY <1>2, <1>4, <2>1, <3>1
    <3>3. Whole(detail'[round'])
      BY <1>4, <2>1 DEF Whole
    <3>. QED
      BY <1>4, <2>1, <3>2, <3>3 DEF RoundsTell, Complete, Whole, AllFailed
  <2>. QED
    BY <2>3, <2>4, <2>5, <2>6, <2>7, <2>8, <2>9 DEF IInv
<1>. QED
  BY <1>1, <1>3, <1>4 DEF EndRound, Settle

\* The invariant of the loop: what the detail holds, how it fits the route, and
\* that every tool called so far has its arguments for good.
THEOREM LoopIsGood == Spec => []IInv
<1>1. Init => IInv
  BY InitIsGood
<1>2. IInv /\ [Next]_vars => IInv'
  <2>. SUFFICES ASSUME IInv, [Next]_vars PROVE IInv'
    OBVIOUS
  <2>1. CASE BeginCall
    BY <2>1, BeginCallKeeps
  <2>2. ASSUME NEW r \in Reading, UseHandle(r) PROVE IInv'
    BY <2>2, UseHandleKeeps
  <2>3. ASSUME NEW status \in {"success", "error"}, EndCall(status) PROVE IInv'
    BY <2>3, EndCallKeeps
  <2>4. CASE EndLayer
    BY <2>4, EndLayerKeeps
  <2>5. CASE EndRound
    BY <2>5, EndRoundKeeps
  <2>6. CASE Cancel
    BY <2>6, CancelKeeps
  <2>7. CASE UNCHANGED vars
    BY <2>7 DEF vars, IInv, Typed, Shaped, ArgumentsHeld, LayerPersists, ArgumentsPersist,
                StopsAtOnce, StopAt, RoundsTell, Complete, Whole, AllFailed, Group, NextTool
  <2>. QED
    BY <2>1, <2>2, <2>3, <2>4, <2>5, <2>6, <2>7 DEF Next
<1>. QED
  BY <1>1, <1>2, PTL DEF Spec

\* CompositeRuntime.run stops at the end of the very first round after which the
\* stop slots exist, and gives up only when the budget is spent without them.
THEOREM StopsAtOnceAlways == Spec => []StopsAtOnce
<1>1. IInv => StopsAtOnce
  BY DEF IInv
<1>. QED
  BY <1>1, LoopIsGood, PTL

\* The rounds that CompositeRuntime hands out tell how the composite ended, and
\* the inner trials made of them are COMPLETED exactly where it did not fail.
THEOREM DetailTellsOutcomeAlways == Spec => []DetailTellsOutcome
<1>1. IInv => DetailTellsOutcome
  BY RoundsTellAll DEF IInv
<1>. QED
  BY <1>1, LoopIsGood, PTL

\* The rounds share one blackboard: a tool that was called in one round has its
\* arguments in every later one.
THEOREM ArgumentsPersistAlways == Spec => []ArgumentsPersist
<1>1. IInv => ArgumentsPersist
  BY DEF IInv
<1>. QED
  BY <1>1, LoopIsGood, PTL

\* Both: CompositeRuntime.run makes one blackboard for all rounds, by which it
\* stops and from which later rounds take their arguments.
THEOREM RoundsShareBoardAlways == Spec => []RoundsShareBoard
<1>1. RoundsShareBoard <=> StopsAtOnce /\ ArgumentsPersist
  BY DEF RoundsShareBoard
<1>. QED
  BY <1>1, StopsAtOnceAlways, ArgumentsPersistAlways, PTL

----------------------------------------------------------------------------
(* Metering *)

\* The places of the executions of one layer that are in E.
Hits(l, E) == {k \in DOMAIN l : l[k] \in E}

\* The call under way, as Pending counts it.
Current == [tool |-> NextTool, status |-> "error", reading |-> reading]

\* All that was metered so far in E: what is recorded and what is pending.
Metered(E) == Cardinality(Where(detail, E)) + Pending(E)

Kinds == {Accessed, Counted}

LEMMA PlacesAreFinite == IsFiniteSet(Place)
<1>. DEFINE RG    == (1..MaxIterations) \X (1..Len(Route))
            In(x) == {<<x[1], x[2], k>> : k \in DOMAIN Route[x[2]]}
<1>1. IsFiniteSet(RG)
  <2>1. MaxIterations \in Int /\ Len(Route) \in Int
    BY RouteShape, CompositeAssumption
  <2>2. IsFiniteSet(1..MaxIterations) /\ IsFiniteSet(1..Len(Route))
    BY <2>1, FS_Interval
  <2>. QED
    BY <2>2, FS_Product
<1>2. ASSUME NEW x \in RG PROVE IsFiniteSet(In(x))
  <2>1. IsFiniteSet(DOMAIN Route[x[2]])
    BY FS_Interval, RouteShape
  <2>. DEFINE f == [k \in DOMAIN Route[x[2]] |-> <<x[1], x[2], k>>]
  <2>2. f \in Surjection(DOMAIN Route[x[2]], In(x))
    BY DEF Surjection
  <2>. QED
    BY <2>1, <2>2, FS_Surjection
<1>3. IsFiniteSet({In(x) : x \in RG})
  <2>. DEFINE f == [x \in RG |-> In(x)]
  <2>1. f \in Surjection(RG, {In(x) : x \in RG})
    BY DEF Surjection
  <2>. QED
    BY <1>1, <2>1, FS_Surjection
<1>4. \A T \in {In(x) : x \in RG} : IsFiniteSet(T)
  BY <1>2
<1>5. Place = UNION {In(x) : x \in RG}
  BY RouteShape DEF Place
<1>. HIDE DEF RG, In
<1>. QED
  BY <1>3, <1>4, <1>5, FS_UNION

LEMMA WhereIsFinite ==
  ASSUME NEW d, NEW E
  PROVE  IsFiniteSet(Where(d, E)) /\ Cardinality(Where(d, E)) \in Nat
<1>1. Where(d, E) \in SUBSET Place
  BY DEF Where
<1>. QED
  BY <1>1, PlacesAreFinite, FS_Subset, FS_CardinalityType

LEMMA HitsOfSequence ==
  ASSUME NEW l \in Seq(Execution), NEW E
  PROVE  /\ IsFiniteSet(Hits(l, E)) /\ Cardinality(Hits(l, E)) \in Nat
         /\ Hits(<<>>, E) = {} /\ Cardinality(Hits(<<>>, E)) = 0
         /\ \A x \in Execution :
              Cardinality(Hits(Append(l, x), E)) =
                Cardinality(Hits(l, E)) + (IF x \in E THEN 1 ELSE 0)
<1>1. Len(l) \in Nat /\ DOMAIN l = 1..Len(l)
  OBVIOUS
<1>2. IsFiniteSet(Hits(l, E)) /\ Cardinality(Hits(l, E)) \in Nat
  <2>1. IsFiniteSet(1..Len(l)) /\ Hits(l, E) \in SUBSET (1..Len(l))
    BY <1>1, FS_Interval DEF Hits
  <2>. QED
    BY <2>1, FS_Subset, FS_CardinalityType
<1>3. Hits(<<>>, E) = {}
  BY DEF Hits
<1>4. ASSUME NEW x \in Execution
      PROVE  Cardinality(Hits(Append(l, x), E)) =
               Cardinality(Hits(l, E)) + (IF x \in E THEN 1 ELSE 0)
  <2>1. /\ DOMAIN Append(l, x) = 1..(Len(l) + 1)
        /\ \A k \in 1..Len(l) : Append(l, x)[k] = l[k]
        /\ Append(l, x)[Len(l) + 1] = x
    BY <1>1
  <2>2. CASE x \in E
    <3>1. Hits(Append(l, x), E) = Hits(l, E) \cup {Len(l) + 1}
      BY <1>1, <2>1, <2>2 DEF Hits
    <3>2. Len(l) + 1 \notin Hits(l, E)
      BY <1>1 DEF Hits
    <3>. QED
      BY <1>2, <2>2, <3>1, <3>2, FS_AddElement
  <2>3. CASE x \notin E
    <3>1. Hits(Append(l, x), E) = Hits(l, E)
      BY <1>1, <2>1, <2>3 DEF Hits
    <3>. QED
      BY <1>2, <2>3, <3>1
  <2>. QED
    BY <2>2, <2>3
<1>5. Cardinality({}) = 0
  BY FS_EmptySet
<1>. QED
  BY <1>2, <1>3, <1>4, <1>5

LEMMA PendingIs ==
  ASSUME NEW E
  PROVE  Pending(E) = Cardinality(Hits(layer, E)) + (IF call /\ Current \in E THEN 1 ELSE 0)
  BY DEF Pending, Hits, Current

\* A layer that ends moves from what is pending into the record, and the places
\* of its executions there are new ones.
LEMMA RecordedLayer ==
  ASSUME Typed, Shaped, Group <= Len(Route), Len(layer) = Len(Route[Group]), NEW E
  PROVE  Cardinality(Where([detail EXCEPT ![round] = Append(@, layer)], E))
           = Cardinality(Where(detail, E)) + Cardinality(Hits(layer, E))
<1>. DEFINE ended == [detail EXCEPT ![round] = Append(@, layer)]
            New   == {<<round, Group, k>> : k \in Hits(layer, E)}
<1>1. /\ round \in 1..MaxIterations /\ round \in Nat
      /\ Group \in 1..Len(Route) /\ Group = Len(detail[round]) + 1
      /\ Len(detail[round]) \in Nat /\ DOMAIN detail = 1..round /\ round \in 1..round
      /\ detail[round] \in Seq(Seq(Execution)) /\ layer \in Seq(Execution)
      /\ DOMAIN detail[round] = 1..Len(detail[round])
      /\ DOMAIN layer = 1..Len(layer)
  BY StateShape, RouteShape DEF Typed
<1>2. /\ DOMAIN ended = DOMAIN detail
      /\ \A r \in DOMAIN detail : r # round => ended[r] = detail[r]
      /\ ended[round] = Append(detail[round], layer)
      /\ DOMAIN ended[round] = 1..Group
      /\ \A g \in 1..Len(detail[round]) : ended[round][g] = detail[round][g]
      /\ ended[round][Group] = layer
  BY <1>1 DEF Typed
<1>3. New \subseteq Place
  <2>. SUFFICES ASSUME NEW k \in Hits(layer, E) PROVE <<round, Group, k>> \in Place
    OBVIOUS
  <2>1. k \in DOMAIN Route[Group] /\ <<round, Group>> \in (1..MaxIterations) \X DOMAIN Route
    BY <1>1, RouteShape DEF Hits
  <2>. QED
    BY <2>1 DEF Place
<1>4. \A p \in Place : p \in Where(ended, E) <=> p \in Where(detail, E) \/ p \in New
  <2>. SUFFICES ASSUME NEW p \in Place
                PROVE  p \in Where(ended, E) <=> p \in Where(detail, E) \/ p \in New
    OBVIOUS
  <2>1. p = <<p[1], p[2], p[3]>>
    BY DEF Place
  <2>2. p \in New <=> p[1] = round /\ p[2] = Group /\ p[3] \in Hits(layer, E)
    BY <2>1
  <2>3. CASE p[1] # round
    BY <1>2, <2>2, <2>3 DEF Where
  <2>4. CASE p[1] = round /\ p[2] # Group
    <3>1. p[2] \in DOMAIN ended[round] <=> p[2] \in DOMAIN detail[round]
      BY <1>1, <1>2, <2>4
    <3>2. p[2] \in DOMAIN detail[round] => ended[round][p[2]] = detail[round][p[2]]
      BY <1>1, <1>2
    <3>. QED
      BY <1>2, <2>2, <2>4, <3>1, <3>2 DEF Where
  <2>5. CASE p[1] = round /\ p[2] = Group
    <3>1. Group \notin DOMAIN detail[round] /\ Group \in DOMAIN ended[round]
      BY <1>1, <1>2
    <3>. QED
      BY <1>1, <1>2, <2>2, <2>5, <3>1 DEF Where, Hits
  <2>. QED
    BY <2>3, <2>4, <2>5
<1>5. Where(ended, E) = Where(detail, E) \cup New
  BY <1>3, <1>4 DEF Where
<1>6. Where(detail, E) \cap New = {}
  <2>. SUFFICES ASSUME NEW k \in Hits(layer, E), <<round, Group, k>> \in Where(detail, E)
                PROVE  FALSE
    OBVIOUS
  <2>1. Group \in DOMAIN detail[round]
    BY DEF Where
  <2>. QED
    BY <1>1, <2>1
<1>7. IsFiniteSet(Hits(layer, E)) /\ Cardinality(Hits(layer, E)) \in Nat
  BY <1>1, HitsOfSequence
<1>8. IsFiniteSet(New) /\ Cardinality(New) = Cardinality(Hits(layer, E))
  <2>. DEFINE f == [k \in Hits(layer, E) |-> <<round, Group, k>>]
  <2>3. f \in [Hits(layer, E) -> New]
    OBVIOUS
  <2>4. \A t \in New : \E k \in Hits(layer, E) : f[k] = t
    OBVIOUS
  <2>5. \A k, j \in Hits(layer, E) : f[k] = f[j] => k = j
    OBVIOUS
  <2>1. f \in Bijection(Hits(layer, E), New)
    <3>. HIDE DEF f, New
    <3>. QED
      BY <2>3, <2>4, <2>5 DEF Bijection, Injection, Surjection, IsInjective
  <2>2. ExistsBijection(Hits(layer, E), New)
    BY <2>1 DEF ExistsBijection
  <2>. QED
    BY <1>7, <2>2, FS_Bijection
<1>. HIDE DEF New, ended
<1>9. Cardinality(Where(detail, E) \cup New)
        = Cardinality(Where(detail, E)) + Cardinality(New) - Cardinality(Where(detail, E) \cap New)
  BY <1>8, WhereIsFinite, FS_Union
<1>10. Cardinality(Where(detail, E) \cap New) = 0
  BY <1>6, FS_EmptySet
<1>11. Cardinality(Where(ended, E)) = Cardinality(Where(detail, E)) + Cardinality(Hits(layer, E))
  BY <1>5, <1>7, <1>8, <1>9, <1>10, WhereIsFinite
<1>. QED
  BY <1>11 DEF ended

\* A round that begins adds nothing to the record.
LEMMA EmptyRound ==
  ASSUME NEW d \in Seq(Seq(Seq(Execution))), NEW E
  PROVE  Where(Append(d, <<>>), E) = Where(d, E)
<1>. DEFINE e == Append(d, <<>>)
<1>1. /\ Len(d) \in Nat /\ DOMAIN d = 1..Len(d) /\ DOMAIN e = 1..(Len(d) + 1)
      /\ \A r \in 1..Len(d) : e[r] = d[r]
      /\ e[Len(d) + 1] = <<>>
  OBVIOUS
<1>2. DOMAIN e[Len(d) + 1] = {}
  BY <1>1
<1>3. ASSUME NEW p \in Place PROVE p \in Where(e, E) <=> p \in Where(d, E)
  <2>1. CASE p[1] \in 1..Len(d)
    BY <1>1, <2>1 DEF Where
  <2>2. CASE p[1] \notin 1..Len(d)
    <3>1. p \notin Where(d, E)
      BY <1>1, <2>2 DEF Where
    <3>2. p[1] \in DOMAIN e => p[1] = Len(d) + 1
      BY <1>1, <2>2
    <3>. QED
      BY <1>2, <3>1, <3>2 DEF Where
  <2>. QED
    BY <2>1, <2>2
<1>4. Where(e, E) \subseteq Place /\ Where(d, E) \subseteq Place
  BY DEF Where
<1>. QED
  BY <1>3, <1>4

\* An execution counts by what it metered, not by its tool or its status.
LEMMA ReadingDecides ==
  /\ \A e \in Execution : e \in Accessed <=> e.reading.access
  /\ \A e \in Execution : e \in Counted <=> e.reading.tokens
  /\ \A E \in Kinds : \A e, f \in Execution :
       /\ e.reading = f.reading => (e \in E <=> f \in E)
       /\ e.reading = NoReading => e \notin E
<1>1. /\ \A e \in Execution : e \in Accessed <=> e.reading.access
      /\ \A e \in Execution : e \in Counted <=> e.reading.tokens
  BY DEF Accessed, Counted
<1>2. \A e \in Execution : e.reading = NoReading => ~e.reading.access /\ ~e.reading.tokens
  BY DEF NoReading
<1>. QED
  BY <1>1, <1>2 DEF Kinds

\* What has been metered is on record, or pending; the bill is made of the record.
Ledger ==
  /\ spent \in [accesses: Nat, tokens: Nat, estimated: BOOLEAN]
  /\ spent.accesses = Metered(Accessed)
  /\ spent.tokens = Metered(Counted)
  /\ ~call => reading = NoReading
  /\ bill = IF Settled THEN Rollup(detail) ELSE Nothing
  /\ Settled /\ outcome # "cancelled" => layer = <<>> /\ ~call

LEMMA BeginCallMeters ==
  ASSUME IInv, Ledger, BeginCall, NEW E \in Kinds
  PROVE  Metered(E)' = Metered(E)
<1>1. /\ Typed /\ Shaped /\ InLayer /\ ~call /\ reading = NoReading
      /\ reading' = NoReading /\ UNCHANGED <<round, detail>>
  BY DEF IInv, Ledger, BeginCall
<1>2. NextTool \in Tool /\ layer \in Seq(Execution)
  BY <1>1, StateShape DEF Typed
<1>3. Pending(E) = Cardinality(Hits(layer, E)) /\ Cardinality(Hits(layer, E)) \in Nat
  BY <1>1, <1>2, PendingIs, HitsOfSequence
<1>4. Pending(E)' = Cardinality(Hits(layer', E)) + (IF call' /\ Current' \in E THEN 1 ELSE 0)
  BY PendingIs DEF Pending, Hits, Current
<1>5. CASE HasArguments(NextTool)
  <2>1. layer' = layer
    BY <1>5 DEF BeginCall
  <2>2. NextTool' = NextTool
    BY <1>1, <2>1 DEF NextTool, Group
  <2>3. Current' \in Execution /\ Current'.reading = NoReading
    BY <1>1, <1>2, <2>2 DEF Current, Execution, Typed
  <2>4. Current' \notin E
    BY <2>3, ReadingDecides
  <2>. QED
    BY <1>1, <1>3, <1>4, <2>1, <2>4 DEF Metered
<1>6. CASE ~HasArguments(NextTool)
  <2>. DEFINE new == [tool |-> NextTool, status |-> "mismatch", reading |-> NoReading]
  <2>1. layer' = Append(layer, new) /\ ~call'
    BY <1>1, <1>6 DEF BeginCall
  <2>2. new \in Execution /\ new.reading = NoReading
    BY <1>2 DEF Execution, NoReading, Reading
  <2>3. new \notin E
    BY <2>2, ReadingDecides
  <2>4. Cardinality(Hits(layer', E)) = Cardinality(Hits(layer, E))
    BY <1>2, <1>3, <2>1, <2>2, <2>3, HitsOfSequence
  <2>. QED
    BY <1>1, <1>3, <1>4, <2>1, <2>4 DEF Metered
<1>. QED
  BY <1>5, <1>6

LEMMA UseHandleMeters ==
  ASSUME IInv, NEW r \in Reading, UseHandle(r), NEW E \in Kinds
  PROVE  /\ Metered(E) \in Nat
         /\ Metered(E)' = Metered(E)
              + (IF [tool |-> NextTool, status |-> "error", reading |-> r] \in E THEN 1 ELSE 0)
         /\ [tool |-> NextTool, status |-> "error", reading |-> r] \in Execution
<1>. DEFINE now == [tool |-> NextTool, status |-> "error", reading |-> r]
<1>1. /\ Typed /\ Shaped /\ InLayer /\ call /\ reading = NoReading
      /\ reading' = r /\ UNCHANGED <<round, layer, call, detail>>
  BY DEF IInv, UseHandle
<1>2. NextTool \in Tool /\ layer \in Seq(Execution) /\ NextTool' = NextTool
  BY <1>1, StateShape DEF Typed, NextTool, Group
<1>3. now \in Execution /\ Current \in Execution /\ Current.reading = NoReading
  BY <1>1, <1>2 DEF Execution, Current, Typed
<1>4. Current \notin E
  BY <1>3, ReadingDecides
<1>5. Pending(E) = Cardinality(Hits(layer, E)) /\ Cardinality(Hits(layer, E)) \in Nat
  BY <1>2, <1>4, PendingIs, HitsOfSequence
<1>6. Pending(E)' = Cardinality(Hits(layer, E)) + (IF now \in E THEN 1 ELSE 0)
  BY <1>1, <1>2 DEF Pending, Hits
<1>. HIDE DEF now
<1>7. Metered(E) \in Nat /\ Metered(E)' = Metered(E) + (IF now \in E THEN 1 ELSE 0)
  BY <1>1, <1>5, <1>6, WhereIsFinite DEF Metered
<1>. QED
  BY <1>3, <1>7 DEF now

LEMMA EndCallMeters ==
  ASSUME IInv, NEW status \in {"success", "error"}, EndCall(status), NEW E \in Kinds
  PROVE  Metered(E)' = Metered(E)
<1>. DEFINE new == [tool |-> NextTool, status |-> status, reading |-> reading]
<1>1. /\ Typed /\ Shaped /\ InLayer /\ call /\ ~call'
      /\ layer' = Append(layer, new) /\ UNCHANGED <<round, detail>>
  BY DEF IInv, EndCall
<1>2. NextTool \in Tool /\ layer \in Seq(Execution)
  BY <1>1, StateShape DEF Typed
<1>3. /\ new \in Execution /\ Current \in Execution /\ Current.reading = new.reading
  BY <1>1, <1>2 DEF Execution, Current, Typed
<1>4. new \in E <=> Current \in E
  BY <1>3, ReadingDecides
<1>5. Pending(E) = Cardinality(Hits(layer, E)) + (IF Current \in E THEN 1 ELSE 0)
  BY <1>1, PendingIs
<1>6. /\ Cardinality(Hits(layer, E)) \in Nat
      /\ Cardinality(Hits(layer', E)) = Cardinality(Hits(layer, E)) + (IF new \in E THEN 1 ELSE 0)
  BY <1>1, <1>2, <1>3, HitsOfSequence
<1>7. Pending(E)' = Cardinality(Hits(layer', E)) + (IF call' /\ Current' \in E THEN 1 ELSE 0)
  BY PendingIs DEF Pending, Hits, Current
<1>. QED
  BY <1>1, <1>4, <1>5, <1>6, <1>7 DEF Metered

LEMMA EndLayerMeters ==
  ASSUME IInv, EndLayer, NEW E \in Kinds
  PROVE  Metered(E)' = Metered(E) /\ ~call /\ ~call' /\ layer' = <<>>
<1>1. /\ Typed /\ Shaped /\ Group <= Len(Route) /\ Len(layer) = Len(Route[Group])
      /\ layer' = <<>> /\ call' = call
      /\ detail' = [detail EXCEPT ![round] = Append(@, layer)]
  BY DEF IInv, EndLayer, Settle
<1>2. ~call
  BY <1>1, StateShape, RouteShape DEF Shaped
<1>3. Pending(E) = Cardinality(Hits(layer, E)) /\ Cardinality(Hits(layer, E)) \in Nat
  BY <1>1, <1>2, PendingIs, HitsOfSequence DEF Typed
<1>4. Pending(E)' = 0
  BY <1>1, <1>2, FS_EmptySet DEF Pending
<1>5. Cardinality(Where(detail', E)) = Cardinality(Where(detail, E)) + Cardinality(Hits(layer, E))
  BY <1>1, RecordedLayer
<1>. QED
  BY <1>1, <1>2, <1>3, <1>4, <1>5, WhereIsFinite DEF Metered

LEMMA EndRoundMeters ==
  ASSUME IInv, EndRound, NEW E \in Kinds
  PROVE  Metered(E)' = Metered(E) /\ ~call /\ layer = <<>>
<1>1. /\ Typed /\ Shaped /\ Group > Len(Route) /\ UNCHANGED <<layer, call>>
      /\ detail' = detail \/ detail' = Append(detail, <<>>)
  BY DEF IInv, EndRound, Settle
<1>2. ~call /\ layer = <<>>
  BY <1>1, StateShape, RouteShape DEF Shaped
<1>3. Pending(E) = 0 /\ Pending(E)' = 0
  BY <1>1, <1>2, FS_EmptySet DEF Pending
<1>4. Where(detail', E) = Where(detail, E)
  BY <1>1, EmptyRound DEF Typed
<1>. QED
  BY <1>2, <1>3, <1>4 DEF Metered

\* The ledger is kept in every step.
LEMMA LedgerIsKept ==
  ASSUME IInv, Ledger, [Next]_vars
  PROVE  Ledger'
<1>0. Accessed \in Kinds /\ Counted \in Kinds
  BY DEF Kinds
<1>1. CASE BeginCall
  <2>1. /\ UNCHANGED <<reading, detail, outcome, bill, spent>> /\ reading = NoReading
        /\ ~Settled
    BY <1>1 DEF BeginCall, Ledger, InLayer, Settled
  <2>2. Metered(Accessed)' = Metered(Accessed) /\ Metered(Counted)' = Metered(Counted)
    BY <1>0, <1>1, BeginCallMeters
  <2>. QED
    BY <2>1, <2>2 DEF Ledger, Settled
<1>2. ASSUME NEW r \in Reading, UseHandle(r) PROVE Ledger'
  <2>. DEFINE now == [tool |-> NextTool, status |-> "error", reading |-> r]
  <2>1. /\ call /\ UNCHANGED <<call, detail, outcome, bill>> /\ ~Settled
        /\ spent' = [accesses  |-> spent.accesses + (IF r.access THEN 1 ELSE 0),
                     tokens    |-> spent.tokens + (IF r.tokens THEN 1 ELSE 0),
                     estimated |-> spent.estimated \/ (r.tokens /\ r.estimated)]
    BY <1>2 DEF UseHandle, InLayer, Settled
  <2>2. /\ Metered(Accessed)' = Metered(Accessed) + (IF now \in Accessed THEN 1 ELSE 0)
        /\ Metered(Counted)' = Metered(Counted) + (IF now \in Counted THEN 1 ELSE 0)
        /\ now \in Execution
    BY <1>0, <1>2, UseHandleMeters
  <2>3. (now \in Accessed <=> r.access) /\ (now \in Counted <=> r.tokens)
    BY <2>2, ReadingDecides
  <2>4. /\ spent'.accesses = spent.accesses + (IF r.access THEN 1 ELSE 0)
        /\ spent'.tokens = spent.tokens + (IF r.tokens THEN 1 ELSE 0)
    BY <2>1
  <2>5. spent' \in [accesses: Nat, tokens: Nat, estimated: BOOLEAN]
    <3>1. (spent.estimated \/ (r.tokens /\ r.estimated)) \in BOOLEAN
      OBVIOUS
    <3>2. spent.accesses \in Nat /\ spent.tokens \in Nat
      BY DEF Ledger
    <3>. QED
      BY <2>1, <3>1, <3>2
  <2>. QED
    BY <2>1, <2>2, <2>3, <2>4, <2>5 DEF Ledger, Settled
<1>3. ASSUME NEW status \in {"success", "error"}, EndCall(status) PROVE Ledger'
  <2>1. UNCHANGED <<detail, outcome, bill, spent>> /\ reading' = NoReading /\ ~Settled
    BY <1>3 DEF EndCall, InLayer, Settled
  <2>2. Metered(Accessed)' = Metered(Accessed) /\ Metered(Counted)' = Metered(Counted)
    BY <1>0, <1>3, EndCallMeters
  <2>. QED
    BY <2>1, <2>2 DEF Ledger, Settled
<1>4. CASE EndLayer
  <2>1. /\ UNCHANGED <<reading, spent>> /\ ~Settled
        /\ bill' = IF Settled' THEN Rollup(detail') ELSE bill
    BY <1>4 DEF EndLayer, Settle, Settled
  <2>2. /\ Metered(Accessed)' = Metered(Accessed) /\ Metered(Counted)' = Metered(Counted)
        /\ ~call /\ ~call' /\ layer' = <<>>
    BY <1>0, <1>4, EndLayerMeters
  <2>. QED
    BY <2>1, <2>2 DEF Ledger, Rollup
<1>5. CASE EndRound
  <2>1. /\ UNCHANGED <<reading, spent, layer, call>> /\ ~Settled
        /\ bill' = IF Settled' THEN Rollup(detail') ELSE bill
    BY <1>5 DEF EndRound, Settle, Settled
  <2>2. /\ Metered(Accessed)' = Metered(Accessed) /\ Metered(Counted)' = Metered(Counted)
        /\ ~call /\ layer = <<>>
    BY <1>0, <1>5, EndRoundMeters
  <2>. QED
    BY <2>1, <2>2 DEF Ledger, Rollup
<1>6. CASE Cancel
  <2>1. /\ UNCHANGED <<round, layer, call, reading, spent, detail>>
        /\ outcome' = "cancelled" /\ bill' = Rollup(detail)
    BY <1>6 DEF Cancel, Settle
  <2>2. Metered(Accessed)' = Metered(Accessed) /\ Metered(Counted)' = Metered(Counted)
    BY <2>1 DEF Metered, Pending, NextTool, Group
  <2>. QED
    BY <2>1, <2>2 DEF Ledger, Settled, Rollup
<1>7. CASE UNCHANGED vars
  BY <1>7 DEF vars, Ledger, Metered, Pending, NextTool, Group, Settled, Rollup
<1>. QED
  BY <1>1, <1>2, <1>3, <1>4, <1>5, <1>6, <1>7 DEF Next

LEMMA LedgerStarts ==
  ASSUME Init
  PROVE  Ledger
<1>1. /\ detail = << <<>> >> /\ layer = <<>> /\ ~call /\ reading = NoReading
      /\ spent = Nothing /\ bill = Nothing /\ ~Settled
  BY DEF Init, Settled
<1>2. ASSUME NEW E PROVE Metered(E) = 0
  <2>1. Where(detail, E) = {}
    <3>1. DOMAIN detail = {1} /\ DOMAIN detail[1] = {}
      BY <1>1
    <3>. QED
      BY <3>1 DEF Where
  <2>2. Pending(E) = 0
    BY <1>1, FS_EmptySet DEF Pending
  <2>. QED
    BY <2>1, <2>2, FS_EmptySet DEF Metered
<1>. QED
  BY <1>1, <1>2 DEF Ledger, Nothing

LEMMA LedgerAlways == Spec => [](IInv /\ Ledger)
<1>1. Init => Ledger
  BY LedgerStarts
<1>2. IInv /\ Ledger /\ [Next]_vars => Ledger'
  BY LedgerIsKept
<1>. QED
  BY <1>1, <1>2, LoopIsGood, PTL DEF Spec

\* CompositeRuntime._rollup: every access and every token of every round is on the
\* outer bill exactly once, however the call ended; only a cancellation leaves
\* something out, and no more than belongs to the layer it interrupted.
THEOREM EverythingIsBilledAlways == Spec => []EverythingIsBilled
<1>1. IInv /\ Ledger => EverythingIsBilled
  <2>. SUFFICES ASSUME IInv, Ledger, Settled
                PROVE  /\ spent.accesses = bill.accesses + Pending(Accessed)
                       /\ spent.tokens = bill.tokens + Pending(Counted)
                       /\ outcome # "cancelled" => layer = <<>> /\ ~call
    BY DEF EverythingIsBilled
  <2>1. /\ bill.accesses = Cardinality(Where(detail, Accessed))
        /\ bill.tokens = Cardinality(Where(detail, Counted))
    BY DEF Ledger, Rollup
  <2>. QED
    BY <2>1 DEF Ledger, Metered
<1>. QED
  BY <1>1, LedgerAlways, PTL

\* The bill and the detail, as the runs have it.
THEOREM RecordsAreTrueAlways == Spec => []RecordsAreTrue
<1>. QED
  BY EverythingIsBilledAlways, DetailTellsOutcomeAlways, PTL DEF RecordsAreTrue

\* The types of all variables, the layers of the detail included.
THEOREM CompositeIsTyped == Spec => []TypeOK
<1>1. IInv /\ Ledger => TypeOK
  <2>. SUFFICES ASSUME IInv, Ledger PROVE TypeOK
    OBVIOUS
  <2>0. Typed /\ Shaped
    BY DEF IInv
  <2>1. board \in [Slot -> SUBSET (0..MaxIterations)]
    <3>1. \A s \in Slot : board[s] \subseteq 0..MaxIterations
      BY <2>0, StateShape DEF Shaped, Typed
    <3>. QED
      BY <2>0, <3>1 DEF Typed
  <2>2. \A r \in DOMAIN detail : \A g \in DOMAIN detail[r] :
          /\ g \in DOMAIN Route
          /\ detail[r][g] \in Seq(Execution)
          /\ Len(detail[r][g]) = Len(Route[g])
    BY <2>0, StateShape, RouteShape
  <2>3. bill \in [accesses: Nat, tokens: Nat, estimated: BOOLEAN]
    BY WhereIsFinite DEF Ledger, Rollup, Nothing
  <2>. QED
    BY <2>0, <2>1, <2>2, <2>3 DEF TypeOK, Typed, Shaped, Ledger, Outcome
<1>. QED
  BY <1>1, LedgerAlways, PTL

=============================================================================
