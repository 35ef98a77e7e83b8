--------------------------- MODULE CompositeLoop ---------------------------
(***************************************************************************)
(* One call of a composite tool: CompositeRuntime.run walks its inner      *)
(* route round after round on one blackboard until the stop condition      *)
(* holds or the budget is spent, and settles in a finally block: the       *)
(* detail of every round goes out, and what it metered is rolled up onto   *)
(* the collector of the outer call, whose timeout may cancel it anywhere.  *)
(*                                                                         *)
(* The inner layers run with the default context, one slot and no timeout: *)
(* LayerExecution's OneSlotIsASequence is why the tools of a group are     *)
(* called here one after the other.                                        *)
(***************************************************************************)
EXTENDS Naturals, Sequences, FiniteSets

CONSTANTS
  Route,          \* the groups of inner tools; a group is a sequence, sorted
  Slot,           \* inner blackboard slots
  Needs,          \* tool -> the slots its arguments come from
  Makes,          \* tool -> the slots its result is written under
  Meters,         \* tool -> what its resource handle records
  Given,          \* slots of the values the composite was called with
  StopWhen,       \* slots that end the loop when all of them exist
  Yields,         \* slots the composite's own result is taken from
  MaxIterations,
  Timeouts        \* whether the outer call has a timeout: values to consider

Tool == UNION {{Route[g][k] : k \in DOMAIN Route[g]} : g \in DOMAIN Route}

\* What one call leaves on its collector: whether it accessed a resource,
\* whether tokens were counted, and whether that count is an estimate.
\* Measured cost goes the way of exact tokens and is left out.
Reading == [access: BOOLEAN, tokens: BOOLEAN, estimated: BOOLEAN]

NoReading  == [access |-> FALSE, tokens |-> FALSE, estimated |-> FALSE]
AccessOnly == [access |-> TRUE, tokens |-> FALSE, estimated |-> FALSE]

Execution == [tool: Tool, status: {"success", "error", "mismatch"}, reading: Reading]

ASSUME CompositeAssumption ==
  /\ MaxIterations \in Nat \ {0}
  /\ Route \in Seq(Seq(Tool)) /\ Route # <<>> /\ \A g \in DOMAIN Route : Route[g] # <<>>
  /\ StopWhen # {} /\ StopWhen \subseteq Slot
  /\ Given \subseteq Slot /\ Yields \subseteq Slot
  /\ \A t \in Tool : Needs[t] \subseteq Slot /\ Makes[t] \subseteq Slot /\ Meters[t] \in Reading
  /\ Timeouts \subseteq BOOLEAN

VARIABLES
  board,      \* slot -> the rounds in which it got an artifact (0: the call's own)
  round,      \* iteration + 1
  layer,      \* executions of the layer under way
  call,       \* whether an inner call is under way
  reading,    \* what that call has metered so far
  detail,     \* iterations: for every round, the layers that ended
  outcome,    \* how the composite's call ended
  bill,       \* the collector of the outer call
  timeout,    \* whether the outer call has a timeout
  spent       \* history: calls that metered an access, tokens; any estimates

vars == <<board, round, layer, call, reading, detail, outcome, bill, timeout, spent>>

----------------------------------------------------------------------------
(* Metering *)

\* Where a detail can have an execution: a round, a group, a place in the group.
Place == UNION {{<<x[1], x[2], k>> : k \in DOMAIN Route[x[2]]} :
                  x \in (1..MaxIterations) \X DOMAIN Route}

\* The places of a detail at which there is an execution in E.
Where(d, E) ==
  {p \in Place : /\ p[1] \in DOMAIN d
                 /\ p[2] \in DOMAIN d[p[1]]
                 /\ p[3] \in DOMAIN d[p[1]][p[2]]
                 /\ d[p[1]][p[2]][p[3]] \in E}

Accessed == {e \in Execution : e.reading.access}
Counted  == {e \in Execution : e.reading.tokens}

Nothing == [accesses |-> 0, tokens |-> 0, estimated |-> FALSE]

\* Faulty form: only the round that ended the loop is rolled up.
RollupLast(d) ==
  LET Last(E) == {x \in Where(d, E) : x[1] = Len(d)}
  IN  [accesses  |-> Cardinality(Last(Accessed)),
       tokens    |-> Cardinality(Last(Counted)),
       estimated |-> FALSE]

\* _rollup: accesses and tokens of every execution in the detail.  All tokens
\* are recorded as exact ones, whatever they were.
Rollup(d) ==
  [accesses  |-> Cardinality(Where(d, Accessed)),
   tokens    |-> Cardinality(Where(d, Counted)),
   estimated |-> FALSE]

----------------------------------------------------------------------------
(* The loop *)

Init ==
  /\ board = [s \in Slot |-> IF s \in Given THEN {0} ELSE {}]
  /\ round = 1
  /\ layer = <<>>
  /\ call = FALSE
  /\ reading = NoReading
  /\ detail = << <<>> >>
  /\ outcome = "running"
  /\ bill = Nothing
  /\ timeout \in Timeouts
  /\ spent = Nothing

Group == Len(detail[round]) + 1       \* the layer the round has reached
NextTool == Route[Group][Len(layer) + 1]  \* the tool whose turn it is

InLayer ==
  /\ outcome = "running"
  /\ Group <= Len(Route)
  /\ Len(layer) < Len(Route[Group])

HasArguments(t) == \A s \in Needs[t] : board[s] # {}

\* The next tool of the layer is called, or its arguments are missing and it
\* ends at once, without having metered anything.
BeginCall ==
  /\ InLayer /\ ~call
  /\ IF HasArguments(NextTool)
     THEN /\ call' = TRUE
          /\ UNCHANGED layer
     ELSE /\ layer' = Append(layer, [tool |-> NextTool, status |-> "mismatch",
                                     reading |-> NoReading])
          /\ UNCHANGED call
  /\ UNCHANGED <<board, round, reading, detail, outcome, bill, timeout, spent>>

\* The tool uses its resource handle: the access is recorded even if the
\* resource fails, the tokens only if it answers.
UseHandle(r) ==
  /\ InLayer /\ call
  /\ reading = NoReading /\ r # NoReading
  /\ r \in {Meters[NextTool], AccessOnly} /\ (r.access => Meters[NextTool].access)
  /\ reading' = r
  /\ spent' = [accesses  |-> spent.accesses + (IF r.access THEN 1 ELSE 0),
               tokens    |-> spent.tokens + (IF r.tokens THEN 1 ELSE 0),
               estimated |-> spent.estimated \/ (r.tokens /\ r.estimated)]
  /\ UNCHANGED <<board, round, layer, call, detail, outcome, bill, timeout>>

\* It returns, and its result goes onto the blackboard, or it raises.
EndCall(status) ==
  /\ InLayer /\ call
  /\ layer' = Append(layer, [tool |-> NextTool, status |-> status, reading |-> reading])
  /\ board' = IF status = "success"
              THEN [s \in Slot |-> IF s \in Makes[NextTool] THEN board[s] \cup {round}
                                   ELSE board[s]]
              ELSE board
  /\ call' = FALSE
  /\ reading' = NoReading
  /\ UNCHANGED <<round, detail, outcome, bill, timeout, spent>>

\* The finally block: whatever the way out, the detail d and its bill go with it.
Settle(how, d) ==
  /\ outcome' = how
  /\ detail' = d
  /\ bill' = Rollup(d)

AllFailed(l) == \A k \in DOMAIN l : l[k].status # "success"

\* Faulty form: a layer that failed does not end the composite.
EndLayerAnyway ==
  /\ outcome = "running"
  /\ Group <= Len(Route) /\ Len(layer) = Len(Route[Group])
  /\ layer' = <<>>
  /\ detail' = [detail EXCEPT ![round] = Append(@, layer)]
  /\ UNCHANGED <<board, round, call, reading, outcome, bill, timeout, spent>>

\* The layer has ended.  If all its tools failed, LayerExecutionError ends the
\* composite; the layer is recorded first.
EndLayer ==
  LET ended == [detail EXCEPT ![round] = Append(@, layer)] IN
  /\ outcome = "running"
  /\ Group <= Len(Route) /\ Len(layer) = Len(Route[Group])
  /\ layer' = <<>>
  /\ IF AllFailed(layer)
     THEN Settle("layer_failed", ended)
     ELSE detail' = ended /\ UNCHANGED <<outcome, bill>>
  /\ UNCHANGED <<board, round, call, reading, timeout, spent>>

\* Faulty form: only what this round has left counts.
StopSatisfiedByRound == \A s \in StopWhen : round \in board[s]

\* _stop_satisfied
StopSatisfied == \A s \in StopWhen : board[s] # {}

\* Faulty form: every round starts on a fresh blackboard.
EndRoundForgetting ==
  /\ outcome = "running"
  /\ Group > Len(Route)
  /\ IF StopSatisfied
     THEN /\ Settle(IF \A s \in Yields : board[s] # {} THEN "returned" ELSE "no_output",
                    detail)
          /\ UNCHANGED <<board, round>>
     ELSE IF round = MaxIterations
     THEN Settle("unmet", detail) /\ UNCHANGED <<board, round>>
     ELSE /\ round' = round + 1
          /\ detail' = Append(detail, <<>>)
          /\ board' = [s \in Slot |-> IF s \in Given THEN {0} ELSE {}]
          /\ UNCHANGED <<outcome, bill>>
  /\ UNCHANGED <<layer, call, reading, timeout, spent>>

\* Faulty form: the round is taken back and not counted.
EndRoundUncounted ==
  /\ outcome = "running"
  /\ Group > Len(Route)
  /\ IF StopSatisfied
     THEN Settle(IF \A s \in Yields : board[s] # {} THEN "returned" ELSE "no_output",
                 detail)
     ELSE /\ detail' = [detail EXCEPT ![round] = <<>>]
          /\ UNCHANGED <<outcome, bill>>
  /\ UNCHANGED <<board, round, layer, call, reading, timeout, spent>>

\* Faulty form: one round too many.
EndRoundOnceMore ==
  /\ outcome = "running"
  /\ Group > Len(Route)
  /\ IF StopSatisfied
     THEN /\ Settle(IF \A s \in Yields : board[s] # {} THEN "returned" ELSE "no_output",
                    detail)
          /\ UNCHANGED round
     ELSE IF round > MaxIterations
     THEN Settle("unmet", detail) /\ UNCHANGED round
     ELSE /\ round' = round + 1
          /\ detail' = Append(detail, <<>>)
          /\ UNCHANGED <<outcome, bill>>
  /\ UNCHANGED <<board, layer, call, reading, timeout, spent>>

\* A round has ended: stop and take the result from the blackboard, or go
\* on with the next round on the same blackboard, or give up.
EndRound ==
  /\ outcome = "running"
  /\ Group > Len(Route)
  /\ IF StopSatisfied
     THEN /\ Settle(IF \A s \in Yields : board[s] # {} THEN "returned" ELSE "no_output",
                    detail)
          /\ UNCHANGED round
     ELSE IF round = MaxIterations
     THEN Settle("unmet", detail) /\ UNCHANGED round
     ELSE /\ round' = round + 1
          /\ detail' = Append(detail, <<>>)
          /\ UNCHANGED <<outcome, bill>>
  /\ UNCHANGED <<board, layer, call, reading, timeout, spent>>

\* The outer timeout cancels the call where it awaits a layer.  That layer is in
\* no record yet, so it is in neither the detail nor the bill.
Cancel ==
  /\ timeout
  /\ outcome = "running"
  /\ Group <= Len(Route)
  /\ Settle("cancelled", detail)
  /\ UNCHANGED <<board, round, layer, call, reading, timeout, spent>>

Next ==
  \/ BeginCall
  \/ \E r \in Reading : UseHandle(r)
  \/ \E status \in {"success", "error"} : EndCall(status)
  \/ EndLayer
  \/ EndRound
  \/ Cancel

Spec == Init /\ [][Next]_vars

\* The event loop resumes the runtime where it can go on, and a timeout fires.
\* That the inner calls return is not assumed: they have no timeout of their own.
Fairness ==
  /\ WF_vars(BeginCall)
  /\ WF_vars(EndLayer)
  /\ WF_vars(EndRound)
  /\ WF_vars(Cancel)

FairSpec == Spec /\ Fairness

----------------------------------------------------------------------------
(* Offline: flatten_composite_results *)

\* _pseudo_trial makes one inner trial of every round: its route is that of the
\* layers recorded, and it is COMPLETED unless some layer failed as a whole.
PseudoTrial(rounds) ==
  [walked |-> {g \in DOMAIN Route : g <= Len(rounds)},
   completed |-> \A g \in DOMAIN rounds : ~AllFailed(rounds[g])]

----------------------------------------------------------------------------
(* Properties *)

Settled == outcome # "running"

\* The detail holds layers of executions, in route order, and counts are counts.
TypeOK ==
  /\ board \in [Slot -> SUBSET (0..MaxIterations)]
  /\ round \in 1..MaxIterations
  /\ Len(detail) = round
  /\ \A r \in DOMAIN detail : \A g \in DOMAIN detail[r] :
       /\ g \in DOMAIN Route
       /\ detail[r][g] \in Seq(Execution)
       /\ Len(detail[r][g]) = Len(Route[g])
  /\ layer \in Seq(Execution)
  /\ call \in BOOLEAN
  /\ reading \in Reading
  /\ outcome \in {"running", "returned", "no_output", "unmet", "layer_failed", "cancelled"}
  /\ bill \in [accesses: Nat, tokens: Nat, estimated: BOOLEAN]
  /\ spent \in [accesses: Nat, tokens: Nat, estimated: BOOLEAN]
  /\ timeout \in Timeouts

\* How many executions of the layer under way are in E, the call under way included.
Pending(E) ==
  LET current == [tool |-> NextTool, status |-> "error", reading |-> reading] IN
  Cardinality({k \in DOMAIN layer : layer[k] \in E}) +
    (IF call /\ current \in E THEN 1 ELSE 0)

\* Every access and every token of every round is on the outer bill exactly
\* once, however the composite ended; a cancellation alone leaves something
\* out, and no more than what belongs to the layer it interrupted.
EverythingIsBilled ==
  Settled =>
    /\ spent.accesses = bill.accesses + Pending(Accessed)
    /\ spent.tokens = bill.tokens + Pending(Counted)
    /\ outcome # "cancelled" => layer = <<>> /\ ~call

StopAt(r) == \A s \in StopWhen : \E x \in board[s] : x <= r

\* The loop stops at the end of the very first round after which the stop slots
\* exist, whichever rounds filled them, and gives up only when none did.
StopsAtOnce ==
  /\ \A r \in 1..(round - 1) : ~StopAt(r)
  /\ outcome \in {"returned", "no_output"} => StopAt(round)
  /\ outcome = "unmet" => round = MaxIterations /\ ~StopAt(round)

Complete(rounds) == Len(rounds) = Len(Route)
Whole(rounds)    == \A g \in DOMAIN rounds : ~AllFailed(rounds[g])

\* The detail tells how the composite ended: a layer of which all tools failed is
\* the last thing recorded and the reason of the failure, every earlier round
\* walked the whole route, and only a cancelled or failed one may be cut short.
\* So, unless it was cancelled, an inner trial is COMPLETED exactly if that round did
\* not fail, and then it was routed to the end, as regression/slow/trial.py says.
DetailTellsOutcome ==
  LET last == detail[round] IN
  /\ \A r \in 1..(round - 1) : Complete(detail[r]) /\ Whole(detail[r])
  /\ outcome \in {"returned", "no_output", "unmet"} => Complete(last) /\ Whole(last)
  /\ outcome = "layer_failed" <=> ~Whole(last)
  /\ \A g \in 1..(Len(last) - 1) : ~AllFailed(last[g])
  /\ Settled /\ outcome # "cancelled" =>
       \A r \in DOMAIN detail :
         LET trial == PseudoTrial(detail[r]) IN
         /\ trial.completed => trial.walked = DOMAIN Route
         /\ trial.completed <=> ~(outcome = "layer_failed" /\ r = Len(detail))

\* What CompositeRuntime hands out, its bill and its detail, is true of the run.
RecordsAreTrue == EverythingIsBilled /\ DetailTellsOutcome

\* The blackboard outlives the rounds: a tool that was called in one round has
\* its arguments in every later one.
ArgumentsPersist ==
  \A r, q \in DOMAIN detail : r < q =>
    \A g \in DOMAIN detail[r] \cap DOMAIN detail[q] : \A k \in DOMAIN detail[q][g] :
      detail[q][g][k].status = "mismatch" => detail[r][g][k].status = "mismatch"

\* All rounds have one blackboard: the loop stops by what any of them has left
\* there, and the tools of later rounds find what those of former ones found.
RoundsShareBoard == StopsAtOnce /\ ArgumentsPersist

\* If every inner call returns, or the outer call has a timeout, the composite
\* ends: the budget bounds the loop whatever the tools do.
CompositeEnds == (timeout \/ []<>(~call)) => <>Settled

=============================================================================
