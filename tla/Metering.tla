------------------------------ MODULE Metering ------------------------------
(***************************************************************************)
(* Tools that run concurrently use shared resources through metered        *)
(* handles.  ToolExecutor mounts a collector for every call in the context *)
(* of its task, every handle records into the collector that it finds      *)
(* there, before or after it awaits the resource, and what the collector   *)
(* has when the call ends, in whichever way, is settled with the           *)
(* execution.  At the end the executions of a trial are added up.          *)
(*                                                                         *)
(* Which of the tools are let in at a time is in LayerExecution: any of    *)
(* them may start at any time here.                                        *)
(***************************************************************************)
EXTENDS Naturals, Sequences, FiniteSets, Functions

CONSTANTS
  Call,       \* of tools, in one trial
  Key,        \* of the store
  Uses,       \* call -> the handle calls of its body, in order
  Price,      \* of a token, for models that have one
  Declared,   \* call -> cost_per_call of its tool, or Nothing
  Nothing     \* None

\* store: InMemoryStore; client: any metered() callable, with an estimator or
\* without; model: LLMResource, with the tokens of its answer, or Nothing where the
\* endpoint does not report them.
StoreUse  == [handle: {"store"}, mode: {"read", "write"}, key: Key]
ClientUse == [handle: {"client"}, mode: {"read", "write"}, estimate: Nat \cup {Nothing}]
ModelUse  == [handle: {"model"}, tokens: Nat \cup {Nothing}, priced: BOOLEAN]

ASSUME MeteringAssumption ==
  /\ IsFiniteSet(Call) /\ Nothing \notin Call \cup Nat
  /\ Price \in Nat
  /\ \A t \in Call : Declared[t] \in Nat \cup {Nothing}
  /\ \A t \in Call : Uses[t] \in Seq(StoreUse \cup ClientUse \cup ModelUse)

Access == {"store", "client"} \X {"read", "write"}

VARIABLES
  state,      \* of a call: waiting, body, awaiting, ended
  pc,         \* how many handle calls its body has made
  context,    \* whose collector the task's context holds, or Nothing
  collector,  \* MeteringCollector, of every call
  store,      \* key -> the call that wrote it last, or Nothing
  execution,  \* ToolExecution, as far as it is about metering, or Nothing
  reached     \* history: <<t, i, what>> where the use i of t accessed, or was answered

meterVars == <<state, pc, context, collector, store, execution, reached>>

----------------------------------------------------------------------------
(* MeteringCollector *)

Empty == [access |-> [a \in Access |-> 0], tokens |-> Nothing, estimated |-> FALSE, cost |-> Nothing]

\* Faulty form: every record begins anew.
Replaced(known, extra) == extra

\* _merge_tokens, and the same for costs
Merged(known, extra) == IF known = Nothing THEN extra ELSE known + extra

WithAccess(c, a)      == [c EXCEPT !.access[a] = @ + 1]
WithTokens(c, n)      == [c EXCEPT !.tokens = Merged(@, n)]
WithEstimate(c, n)    == [c EXCEPT !.tokens = Merged(@, n), !.estimated = TRUE]
WithCost(c, n)        == [c EXCEPT !.cost = Merged(@, n)]

\* MeteringCollector.source
Source(c) ==
  CASE c.estimated /\ c.tokens # Nothing -> "estimated"
    [] ~(c.estimated /\ c.tokens # Nothing)
         /\ ((\E a \in Access : c.access[a] > 0) \/ c.cost # Nothing \/ c.tokens # Nothing) -> "measured"
    [] OTHER -> "declared"

----------------------------------------------------------------------------
(* One call *)

MeterInit ==
  /\ state = [t \in Call |-> "waiting"]
  /\ pc = [t \in Call |-> 0]
  /\ context = [t \in Call |-> Nothing]
  /\ collector = [t \in Call |-> Empty]
  /\ store = [k \in Key |-> Nothing]
  /\ execution = [t \in Call |-> Nothing]
  /\ reached = {}

\* Faulty form: a global instead of a context variable.
MountGlobally(t) ==
  /\ state[t] = "waiting"
  /\ state' = [state EXCEPT ![t] = "body"]
  /\ context' = [u \in Call |-> IF u = t \/ state[u] \in {"body", "awaiting"} THEN t
                                ELSE context[u]]
  /\ UNCHANGED <<pc, collector, store, execution, reached>>

\* mount_collector, in the context of the call's own task
Mount(t) ==
  /\ state[t] = "waiting"
  /\ state' = [state EXCEPT ![t] = "body"]
  /\ context' = [context EXCEPT ![t] = t]
  /\ UNCHANGED <<pc, collector, store, execution, reached>>

Coming(t) == Uses[t][pc[t] + 1]     \* the handle call that comes next
Current(t) == Uses[t][pc[t]]         \* the handle call under way

CanUse(t, handle) ==
  /\ state[t] = "body" /\ pc[t] < Len(Uses[t])
  /\ Coming(t).handle = handle

\* InMemoryStore.get, put, delete: recorded and done without an await.
UseStore(t) ==
  /\ CanUse(t, "store")
  /\ pc' = [pc EXCEPT ![t] = @ + 1]
  /\ collector' = [collector EXCEPT ![context[t]] = WithAccess(@, <<"store", Coming(t).mode>>)]
  /\ store' = IF Coming(t).mode = "write" THEN [store EXCEPT ![Coming(t).key] = t] ELSE store
  /\ reached' = reached \cup {<<t, pc[t] + 1, "access">>}
  /\ UNCHANGED <<state, context, execution>>

\* A client or a model is called and awaited.
Begin(t) ==
  /\ CanUse(t, "client") \/ CanUse(t, "model")
  /\ pc' = [pc EXCEPT ![t] = @ + 1]
  /\ state' = [state EXCEPT ![t] = "awaiting"]
  /\ reached' = IF Coming(t).handle = "client"
                THEN reached \cup {<<t, pc[t] + 1, "access">>} ELSE reached
  /\ UNCHANGED <<context, collector, store, execution>>

\* What the finally block of metered() has recorded.
Accessed(t, c) == WithAccess(c, <<"client", Current(t).mode>>)

Arrived(t) == reached' = reached \cup {<<t, pc[t], "answer">>}

\* The client returns, and an estimate is made of the prompt, or it fails.
EndClient(t, ok) ==
  /\ state[t] = "awaiting" /\ Current(t).handle = "client"
  /\ state' = [state EXCEPT ![t] = "body"]
  /\ collector' = [collector EXCEPT ![context[t]] =
                     IF ok /\ Current(t).estimate # Nothing
                     THEN WithEstimate(Accessed(t, @), Current(t).estimate) ELSE Accessed(t, @)]
  /\ IF ok THEN Arrived(t) ELSE UNCHANGED reached
  /\ UNCHANGED <<pc, context, store, execution>>

\* LLMResource.complete after its await: tokens and cost where they are known.
Completed(t, c) ==
  LET use == Current(t) IN
  IF use.tokens = Nothing THEN c
  ELSE IF use.priced THEN WithCost(WithTokens(c, use.tokens), use.tokens * Price)
  ELSE WithTokens(c, use.tokens)

EndModel(t, ok) ==
  /\ state[t] = "awaiting" /\ Current(t).handle = "model"
  /\ state' = [state EXCEPT ![t] = "body"]
  /\ collector' = IF ok THEN [collector EXCEPT ![context[t]] = Completed(t, @)] ELSE collector
  /\ IF ok THEN Arrived(t) ELSE UNCHANGED reached
  /\ UNCHANGED <<pc, context, store, execution>>

\* The execution costs what is declared, what is measured is kept beside it.
Bill(t, c) == [cost |-> Declared[t], access |-> c.access, tokens |-> c.tokens,
               measured |-> c.cost, source |-> Source(c)]

Bills == [cost: Nat \cup {Nothing}, access: [Access -> Nat], tokens: Nat \cup {Nothing},
          measured: Nat \cup {Nothing}, source: {"estimated", "measured", "declared"}]

ASSUME BillsAssumption == Nothing \notin Bills

\* Faulty form: the context keeps the collector.
SettleMounted(t, c) ==
  /\ state' = [state EXCEPT ![t] = "ended"]
  /\ collector' = [collector EXCEPT ![context[t]] = c]
  /\ execution' = [execution EXCEPT ![t] = Bill(t, c)]
  /\ UNCHANGED <<pc, context, store, reached>>

\* unmount_collector, and the ToolExecution that is made of the collector
Settle(t, c) ==
  /\ state' = [state EXCEPT ![t] = "ended"]
  /\ collector' = [collector EXCEPT ![context[t]] = c]
  /\ execution' = [execution EXCEPT ![t] = Bill(t, c)]
  /\ context' = [context EXCEPT ![t] = Nothing]
  /\ UNCHANGED <<pc, store, reached>>

\* The tool returns, raises or is cancelled where it awaits something of its own, also
\* after only some of its handle calls.
End(t) ==
  /\ state[t] = "body"
  /\ Settle(t, collector[context[t]])

\* Faulty form: the handle does not notice that it was cancelled.
TimeOutUnnoticed(t) ==
  /\ state[t] = "awaiting"
  /\ Settle(t, collector[context[t]])

\* The timeout cancels it where it awaits: metered() has a finally block, complete
\* has none.
TimeOut(t) ==
  /\ state[t] = "awaiting"
  /\ LET c == collector[context[t]] IN
     Settle(t, IF Current(t).handle = "client" THEN Accessed(t, c) ELSE c)

MeterNext ==
  \E t \in Call :
    \/ Mount(t)
    \/ UseStore(t)
    \/ Begin(t)
    \/ \E ok \in BOOLEAN : EndClient(t, ok) \/ EndModel(t, ok)
    \/ End(t)
    \/ TimeOut(t)

MeterSpec == MeterInit /\ [][MeterNext]_meterVars

----------------------------------------------------------------------------
(* The trial *)

Done == {t \in Call : state[t] = "ended"}

\* Faulty form: a cost that nobody knows is none at all.
SumOfAll(values) == SumFunction([t \in Done |-> IF values[t] = Nothing THEN 0 ELSE values[t]])

\* sum_known_costs, of the calls that ended
SumKnown(values) ==
  LET known == {t \in Done : values[t] # Nothing} IN
  IF known = {} THEN Nothing ELSE SumFunction([t \in known |-> values[t]])

\* _finalize, _aggregate_tokens
Trial ==
  [cost   |-> SumKnown([t \in Call |-> IF t \in Done THEN execution[t].cost ELSE Nothing]),
   access |-> [a \in Access |-> SumFunction([t \in Done |-> execution[t].access[a]])],
   tokens |-> SumFunction([t \in {u \in Done : execution[u].tokens # Nothing} |->
                             execution[t].tokens])]

----------------------------------------------------------------------------
(* Properties *)

OrNone(S) == S \cup {Nothing}

Collector == [access: [Access -> Nat], tokens: OrNone(Nat), estimated: BOOLEAN, cost: OrNone(Nat)]

\* A context holds a collector exactly while its call is under way, and there is an
\* execution exactly when the call has ended.
MeterTypeOK ==
  /\ state \in [Call -> {"waiting", "body", "awaiting", "ended"}]
  /\ pc \in [Call -> Nat] /\ \A t \in Call : pc[t] <= Len(Uses[t])
  /\ context \in [Call -> OrNone(Call)]
  /\ collector \in [Call -> Collector]
  /\ store \in [Key -> OrNone(Call)]
  /\ execution \in [Call -> OrNone(Bills)]
  /\ \A t \in Call : /\ context[t] # Nothing <=> state[t] \in {"body", "awaiting"}
                     /\ execution[t] # Nothing <=> state[t] = "ended"

AccessesOf(t, a) ==
  {i \in DOMAIN Uses[t] : /\ <<t, i, "access">> \in reached
                          /\ <<Uses[t][i].handle, Uses[t][i].mode>> = a}

AnswersTo(t, handle) ==
  {i \in DOMAIN Uses[t] : <<t, i, "answer">> \in reached /\ Uses[t][i].handle = handle}

Reported(t)  == {i \in AnswersTo(t, "model") : Uses[t][i].tokens # Nothing}
Estimated(t) == {i \in AnswersTo(t, "client") : Uses[t][i].estimate # Nothing}

TokensOf(t) == SumFunction([i \in Reported(t) |-> Uses[t][i].tokens])
             + SumFunction([i \in Estimated(t) |-> Uses[t][i].estimate])

Charged(t) == {i \in Reported(t) : Uses[t][i].priced}

CostOf(t) ==
  IF Charged(t) = {} THEN Nothing ELSE SumFunction([i \in Charged(t) |-> Uses[t][i].tokens * Price])

\* What an execution bills is what its own tool had: every access, answered or not,
\* the tokens of every answer, and no estimate sold as measured, whatever ran next to
\* it and wherever it was cancelled.
BillsAreOwn ==
  \A t \in Done :
    LET bill == execution[t] IN
    /\ \A a \in Access : bill.access[a] = Cardinality(AccessesOf(t, a))
    /\ bill.tokens = IF Reported(t) \cup Estimated(t) = {} THEN Nothing ELSE TokensOf(t)
    /\ bill.measured = CostOf(t)
    /\ bill.source = "estimated" <=> Estimated(t) # {}
    /\ bill.source = "declared" => bill.tokens = Nothing /\ \A a \in Access : AccessesOf(t, a) = {}

\* Nothing is counted twice or dropped on the way into the trial, what it costs is
\* declared and not measured, unknown where nobody declared anything, and whoever
\* wrote what is in the store has paid for it.
TrialAddsUp ==
  /\ LET known == {t \in Done : Declared[t] # Nothing} IN
     IF known = {} THEN Trial.cost = Nothing
                   ELSE Trial.cost = SumFunction([t \in known |-> Declared[t]])
  /\ \A a \in Access :
       Trial.access[a] = SumFunction([t \in Done |-> Cardinality(AccessesOf(t, a))])
  /\ Trial.tokens = SumFunction([t \in Done |-> TokensOf(t)])
  /\ \A k \in Key : store[k] \in Done => execution[store[k]].access[<<"store", "write">>] > 0

\* Bills and their sum
MeteringIsTrue == BillsAreOwn /\ TrialAddsUp

=============================================================================
