------------------------------- MODULE Advice -------------------------------
(***************************************************************************)
(* What is made of the answers of language models: the capabilities of a   *)
(* query, the tools of a layer, the capabilities proposed for tools.       *)
(*                                                                         *)
(* An answer is None (no connection, an HTTP error, a timeout, no JSON     *)
(* object, a field of another type) or a record of the fields that are     *)
(* asked for.  Nothing keeps a model to the names it was given.            *)
(***************************************************************************)
EXTENDS Naturals, FiniteSets

CONSTANTS
  Limit,        \* max_tools_per_layer of the router and of the runner
  Grammatical,  \* the capability names that validate_capability_name accepts
  Absent        \* None

\* OllamaCapabilityResolver.resolve; Absent where it raises.
Resolved(answer, available) ==
  IF \/ answer = Absent
     \/ ~(answer.required \cup answer.hints \subseteq Grammatical)
     \/ ~(answer.required \cup answer.optional \subseteq available)
     \/ answer.hints \cap available # {}
  THEN Absent
  ELSE [required |-> answer.required, hints |-> answer.hints, confident |-> answer.confident]

\* validate_decision on EXECUTE
Validated(selected, offered) ==
  IF /\ selected # {} /\ Cardinality(selected) <= Limit
     /\ selected \subseteq offered
  THEN selected ELSE Absent

\* LLMRouter.route: nothing is asked where nothing is offered; {} is FINISH,
\* Absent a routing error.
Decided(answer, offered) ==
  IF offered = {} THEN {}
  ELSE IF answer = Absent THEN Absent
  ELSE IF answer.finish THEN {}
  ELSE Validated(answer.selected, offered)

\* ScenarioScriptedRouter.route, and what the runner makes of it
Scripted(plan, offered) == IF plan = {} THEN {} ELSE Validated(plan, offered)

\* propose_capabilities for these tools; answer is a set of [tool, capabilities].
Proposed(answer, tools) ==
  IF answer = Absent \/ tools = {} THEN Absent
  ELSE [t \in {item.tool : item \in answer} \cap tools |->
          (UNION {item.capabilities : item \in {x \in answer : x.tool = t}}) \cap Grammatical]

=============================================================================
