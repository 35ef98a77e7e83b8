-------------------------- MODULE MCCompositeLoop --------------------------
(* A refine loop: draft and recall, then review and write side by side.      *)
(* review comes first and needs what write makes, so that it has its         *)
(* argument from the second round on; recall keeps a round going whose       *)
(* draft failed; the loop stops when review has approved.                    *)
EXTENDS CompositeLoop, TLC

CONSTANTS draft, recall, review, write,      \* tools
          request, plan, text, approval      \* slots

MCRoute == << <<draft, recall>>, <<review, write>> >>

MCNeeds ==
  (draft :> {request}) @@ (recall :> {}) @@ (review :> {text}) @@ (write :> {plan})

MCMakes ==
  (draft :> {plan}) @@ (recall :> {}) @@ (review :> {approval}) @@ (write :> {text})

Estimate == [access |-> TRUE, tokens |-> TRUE, estimated |-> TRUE]

\* The tokens of draft are estimated; write uses a store, without tokens.
MCMeters ==
  (draft :> Estimate) @@ (recall :> NoReading) @@ (review :> NoReading) @@ (write :> AccessOnly)

=============================================================================
