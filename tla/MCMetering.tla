----------------------------- MODULE MCMetering -----------------------------
(* Three tools on one key: a reader that asks two models, one of them priced,  *)
(* a writer with an estimating client, and a tool that mixes all of them.      *)
EXTENDS Metering, TLC

CONSTANTS reader, writer, mixer, k

Get == [handle |-> "store", mode |-> "read", key |-> k]
Put == [handle |-> "store", mode |-> "write", key |-> k]

Fetch == [handle |-> "client", mode |-> "read", estimate |-> Nothing]
Guess == [handle |-> "client", mode |-> "write", estimate |-> 5]

Ask(tokens, priced) == [handle |-> "model", tokens |-> tokens, priced |-> priced]

MCUses == (reader :> << Get, Ask(2, TRUE), Ask(3, FALSE) >>)
       @@ (writer :> << Guess, Put >>)
       @@ (mixer  :> << Ask(Nothing, TRUE), Fetch, Put, Ask(4, TRUE) >>)

MCDeclared == (reader :> 7) @@ (writer :> Nothing) @@ (mixer :> 1)

=============================================================================
