--------------------------- MODULE LayerExecution ---------------------------
(***************************************************************************)
(* One layer of a route: LayerExecutor.run starts a task per selected      *)
(* tool, a semaphore lets at most max_concurrency of them in, and each     *)
(* ToolExecutor.execute reads its arguments from the blackboard, calls the *)
(* tool and appends what it produced.  Tasks interleave at every await.    *)
(***************************************************************************)
EXTENDS Naturals, Sequences, FiniteSets

CONSTANTS
  Selected,        \* the selected tools, in the order of the routing decision
  Slot,            \* artifact names
  SlotOrder,       \* the artifact names, sorted
  Type,            \* types of artifact values
  Params,          \* tool -> its parameters: a sequence of [slot, type]
  Produces,        \* tool -> the slots its result is written under
  ResultType,      \* tool -> the type of its result
  Outer,           \* the source of what earlier layers left
  Contexts,        \* contexts the layer may be run in
  Incoming         \* blackboards the layer may start from

Task == DOMAIN Selected     \* one task per selected tool, by position

Artifact == [type: Type, source: Task \cup {Outer}]

Board == [Slot -> Seq(Artifact)]

\* ExecutionContext; timeout: per_tool_timeout_seconds is not None.
Context == [max_concurrency: Nat \ {0}, timeout: BOOLEAN]

\* A parameter without annotation has a type that no artifact has.
Parameter == [slot: Slot, type: Type]

ASSUME LayerAssumption ==
  /\ Task = 1..Len(Selected) /\ Len(Selected) \in Nat
  /\ Contexts \subseteq Context
  /\ SlotOrder \in Seq(Slot)
  /\ \A s \in Slot : \E k \in DOMAIN SlotOrder : SlotOrder[k] = s
  /\ \A i \in Task :
       /\ Params[Selected[i]] \in Seq(Parameter)
       /\ Produces[Selected[i]] \subseteq Slot
       /\ ResultType[Selected[i]] \in Type
  /\ Outer \notin Task
  /\ Incoming \subseteq Board
  /\ \A b \in Incoming : \A s \in Slot : \A k \in 1..Len(b[s]) : b[s][k].source = Outer

VARIABLES
  board,      \* ExecutionState._artifacts
  task,       \* how far each task is, or how its execution ended
  args,       \* the arguments each tool was called with
  cost,       \* whether the execution carries the tool's declared cost
  outcome,    \* what run did: "running", "returned" or "raised"
  context,    \* the ExecutionContext of the run
  incoming    \* history: the blackboard the layer started from

vars == <<board, task, args, cost, outcome, context, incoming>>

----------------------------------------------------------------------------
(* Argument resolution *)

Missing == <<>>     \* no argument list: a parameter could not be resolved

\* Faulty form: only the latest artifact of a slot is looked at.
LatestHasType(b, s, type) == b[s] # <<>> /\ b[s][Len(b[s])].type = type

HoldsType(b, s, type) == \E k \in 1..Len(b[s]) : b[s][k].type = type

\* _lookup_by_name, then _lookup_by_type: the latest artifact in the slot of
\* the parameter's name, else the first artifact of its type, slot by slot in
\* sorted order.
CanResolve(b, param) ==
  b[param.slot] # <<>> \/ \E s \in Slot : HoldsType(b, s, param.type)

Resolve(b, param) ==
  IF b[param.slot] # <<>>
  THEN b[param.slot][Len(b[param.slot])]
  ELSE LET k == CHOOSE k \in DOMAIN SlotOrder :
                  /\ HoldsType(b, SlotOrder[k], param.type)
                  /\ \A m \in 1..(k - 1) : ~HoldsType(b, SlotOrder[m], param.type)
           found == b[SlotOrder[k]]
       IN  found[CHOOSE n \in 1..Len(found) :
                   /\ found[n].type = param.type
                   /\ \A m \in 1..(n - 1) : found[m].type # param.type]

ParamsOf(i) == Params[Selected[i]]

CanResolveAll(b, i) == \A k \in DOMAIN ParamsOf(i) : CanResolve(b, ParamsOf(i)[k])

ResolveAll(b, i) == [k \in DOMAIN ParamsOf(i) |-> Resolve(b, ParamsOf(i)[k])]

\* Faulty form: a closure over the loop variable, every artifact gets the
\* last tool as its source.
OutputOfLast(i) == [type |-> ResultType[Selected[i]], source |-> Len(Selected)]

\* _propagate_outputs: the result goes into every slot the tool produces.
Output(i) == [type |-> ResultType[Selected[i]], source |-> i]

\* Faulty form: the bare result is stored, not the artifact.
WithResults(b, i) ==
  [s \in Slot |-> IF s \in Produces[Selected[i]]
                  THEN Append(b[s], ResultType[Selected[i]]) ELSE b[s]]

WithOutputs(b, i) ==
  [s \in Slot |-> IF s \in Produces[Selected[i]] THEN Append(b[s], Output(i)) ELSE b[s]]

----------------------------------------------------------------------------
Failed == {"mismatch", "timeout", "error"}
Ended  == {"success"} \cup Failed
Status == {"waiting", "running"} \cup Ended

\* Faulty form: the semaphore is given back by successful tools only.
HoldingOn == {i \in Task : task[i] \in {"running"} \cup Failed}

Running == {i \in Task : task[i] = "running"}

Init ==
  /\ board \in Incoming
  /\ task = [i \in Task |-> "waiting"]
  /\ args = [i \in Task |-> Missing]
  /\ cost = [i \in Task |-> FALSE]
  /\ outcome = "running"
  /\ context \in Contexts
  /\ incoming = board

\* A task gets through the semaphore, first come first served, and resolves
\* its arguments there and then.  Without them it ends, uncosted, and the
\* tool is never called.
Start(i) ==
  /\ task[i] = "waiting"
  /\ Cardinality(Running) < context.max_concurrency
  /\ \A j \in 1..(i - 1) : task[j] # "waiting"
  /\ IF CanResolveAll(board, i)
     THEN /\ task' = [task EXCEPT ![i] = "running"]
          /\ args' = [args EXCEPT ![i] = ResolveAll(board, i)]
     ELSE /\ task' = [task EXCEPT ![i] = "mismatch"]
          /\ UNCHANGED args
  /\ UNCHANGED <<board, cost, outcome, context, incoming>>

\* The tool returns, or raises; the attempt is billed either way.  There is no
\* await between the tool's return and its last artifact.
Succeed(i) ==
  /\ task[i] = "running"
  /\ task' = [task EXCEPT ![i] = "success"]
  /\ board' = WithOutputs(board, i)
  /\ cost' = [cost EXCEPT ![i] = TRUE]
  /\ UNCHANGED <<args, outcome, context, incoming>>

Fail(i) ==
  /\ task[i] = "running"
  /\ task' = [task EXCEPT ![i] = "error"]
  /\ cost' = [cost EXCEPT ![i] = TRUE]
  /\ UNCHANGED <<board, args, outcome, context, incoming>>

\* Faulty form: the call is not cancelled and its late answer is kept.
TimeOutLateAnswer(i) ==
  /\ context.timeout
  /\ task[i] = "running"
  /\ task' = [task EXCEPT ![i] = "timeout"]
  /\ board' = WithOutputs(board, i)
  /\ cost' = [cost EXCEPT ![i] = TRUE]
  /\ UNCHANGED <<args, outcome, context, incoming>>

\* wait_for cancels the call; whatever the tool would have returned is lost.
TimeOut(i) ==
  /\ context.timeout
  /\ task[i] = "running"
  /\ task' = [task EXCEPT ![i] = "timeout"]
  /\ cost' = [cost EXCEPT ![i] = TRUE]
  /\ UNCHANGED <<board, args, outcome, context, incoming>>

\* gather has all results: raise LayerExecutionError if there are any and all
\* of them failed, else return them.
Finish ==
  /\ outcome = "running"
  /\ \A i \in Task : task[i] \in Ended
  /\ outcome' = IF Task # {} /\ \A i \in Task : task[i] \in Failed
                THEN "raised" ELSE "returned"
  /\ UNCHANGED <<board, task, args, cost, context, incoming>>

Next ==
  \/ \E i \in Task : Start(i) \/ Succeed(i) \/ Fail(i) \/ TimeOut(i)
  \/ Finish

Spec == Init /\ [][Next]_vars

\* The event loop resumes a task that can go on, and calls end where
\* per_tool_timeout_seconds bounds them.  Without it a tool may hang for ever.
Fairness ==
  /\ \A i \in Task : WF_vars(Start(i))
  /\ \A i \in Task : WF_vars(context.timeout /\ (Succeed(i) \/ Fail(i) \/ TimeOut(i)))
  /\ WF_vars(Finish)

FairSpec == Spec /\ Fairness

----------------------------------------------------------------------------
(* Properties *)

\* Positions and statuses are what they should be, and the blackboard holds
\* artifacts only.
TypeOK ==
  /\ board \in Board
  /\ task \in [Task -> Status]
  /\ args \in [Task -> Seq(Artifact)]
  /\ cost \in [Task -> BOOLEAN]
  /\ outcome \in {"running", "returned", "raised"}
  /\ context \in Contexts
  /\ incoming \in Incoming

\* ExecutionState: same-name outputs are kept, never overwritten, whichever
\* tools finish in whichever order.
NeverOverwritten ==
  [][\A s \in Slot : /\ Len(board[s]) <= Len(board'[s])
                     /\ \A k \in 1..Len(board[s]) : board'[s][k] = board[s][k]]_vars

Successes(s) == {i \in Task : task[i] = "success" /\ s \in Produces[Selected[i]]}

\* The layer leaves on the blackboard exactly one artifact per slot a
\* successful tool produces, and none of a tool that failed, timed out or was
\* never called: no late answer, no lost and no doubled output.
OutputsAreThoseOfSuccesses ==
  \A s \in Slot :
    /\ Len(board[s]) = Len(incoming[s]) + Cardinality(Successes(s))
    /\ \A k \in 1..Len(incoming[s]) : board[s][k] = incoming[s][k]
    /\ \A i \in Successes(s) :
         \E k \in (Len(incoming[s]) + 1)..Len(board[s]) : board[s][k] = Output(i)

\* A tool whose inputs earlier layers produced is always called: no order in
\* which its siblings run can turn it into a SCHEMA_MISMATCH.
EarlierLayersSuffice ==
  \A i \in Task : CanResolveAll(incoming, i) => task[i] # "mismatch"

\* A tool is called with what earlier layers left or a sibling really
\* produced: never with something of a sibling that has not succeeded.
ArgumentsWereProduced ==
  \A i \in Task : \A k \in 1..Len(args[i]) :
    LET source == args[i][k].source
    IN  source = Outer \/ (source # i /\ task[source] = "success")

\* ToolExecutor._resolve_arguments under every interleaving of the layer, both ways.
ArgumentsAreSound == EarlierLayersSuffice /\ ArgumentsWereProduced

\* With one slot, the default, the layer is a sequence: every tool sees what
\* the tools before it in the decision's order left, and nothing else.
SequentialBoard[i \in 1..(Len(Selected) + 1)] ==
  IF i = 1 THEN incoming
  ELSE IF task[i - 1] = "success" THEN WithOutputs(SequentialBoard[i - 1], i - 1)
       ELSE SequentialBoard[i - 1]

OneSlotIsASequence ==
  context.max_concurrency = 1 =>
    \A i \in Task :
      /\ task[i] = "mismatch" => ~CanResolveAll(SequentialBoard[i], i)
      /\ task[i] \in {"running", "success", "timeout", "error"} =>
           args[i] = ResolveAll(SequentialBoard[i], i)

\* The blackboard is that of the successes, whatever the interleaving, and with one
\* slot the tasks ran as a sequence, in the order of the decision.
BoardTellsTasks == OutputsAreThoseOfSuccesses /\ OneSlotIsASequence

\* Where calls are bounded by a timeout, the layer ends: a slot is given back
\* on every path, so nobody waits at the semaphore for ever.
LayerEnds == context.timeout => <>(outcome # "running")

=============================================================================
