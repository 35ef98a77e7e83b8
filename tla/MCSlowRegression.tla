-------------------------- MODULE MCSlowRegression --------------------------
(* Two layers: three tools, of which the first and the third lead on, and    *)
(* two that consume what these produce.                                      *)
EXTENDS SlowRegression

CONSTANTS seeded, hollow, bare,      \* scenarios
          order, ticket,             \* types
          ghost

MCLayers == << {1, 2, 3}, {4, 5} >>
MCEdges  == {<<1, 4>>, <<2, 4>>, <<3, 4>>, <<2, 5>>}

MCConsumes == << {}, {}, {}, {order}, {ticket} >>
MCProduces == << {order}, {order, ticket}, {}, {}, {} >>

\* The seed of hollow begins in the second layer; bare has none.
MCSeed == [s \in Scenario |->
             CASE s = seeded -> << {2}, {5} >>
               [] s = hollow -> << {}, {4} >>
               [] s = bare   -> None]

\* 70% facts, 30% opinion
MCComponents == << [kind |-> "facts", weight |-> 7, expected |-> {ticket}],
                   [kind |-> "judge", weight |-> 3, expected |-> {}] >>

MCAnswers == {None, [success |-> TRUE,  score |-> None],
                    [success |-> FALSE, score |-> [num |-> 1, den |-> 2]],
                    [success |-> TRUE,  score |-> [num |-> 3, den |-> 2]]}

\* 40%, 20%, 30% and 10%, on facts that every trial of the seed finds
MCManyComponents ==
  [i \in 1..4 |-> [kind |-> "facts", weight |-> <<4, 2, 3, 1>>[i], expected |-> {order}]]

MCSettings ==
  [scenarios: {<<seeded>>}, trials: {3}, router: {FALSE}, manager: {"default", "custom"}]
  \cup
  [scenarios: {<<hollow>>}, trials: {3}, router: {FALSE}, manager: {"default"}]
  \cup
  [scenarios: {<<bare, seeded>>}, trials: {1}, router: {FALSE}, manager: {"none"}]
  \cup
  [scenarios: {<<bare, seeded>>}, trials: {1}, router: {TRUE}, manager: {"default"}]
  \cup
  [scenarios: {<<bare>>}, trials: {1}, router: {TRUE}, manager: {"custom"}]

=============================================================================
