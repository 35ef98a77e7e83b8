-------------------------- MODULE MCOnlineServing --------------------------
(* Five routes of up to two segments: two fast ones, one that is both        *)
(* balanced and of quality, one unlabelled, one of another category.         *)
EXTENDS OnlineServing, TLC

CONSTANTS q1, q2,                        \* requests
          fast, balanced, quality,       \* tiers
          refund, search, weather,       \* categories; no route covers weather
          query, fetch, rank, answer,    \* tools
          rows, reply                    \* slots

MCSegments == << << {query}, {answer} >>,
                 << {query, fetch}, {answer} >>,
                 << {fetch}, {rank, answer} >>,
                 << {answer} >>,
                 << {fetch} >> >>

MCTiers      == << {fast}, {fast}, {balanced, quality}, {}, {fast} >>
MCCategories == << {refund}, {refund}, {refund, search}, {refund}, {search} >>

MCNeeds == (query :> {}) @@ (fetch :> {}) @@ (rank :> {rows}) @@ (answer :> {rows})
MCMakes == (query :> {rows}) @@ (fetch :> {rows}) @@ (rank :> {}) @@ (answer :> {reply})

MCArrival == {[category |-> refund, tier |-> None], [category |-> refund, tier |-> quality],
              [category |-> search, tier |-> balanced], [category |-> None, tier |-> None],
              [category |-> weather, tier |-> None]}

MCConfig == {[priority |-> <<fast, balanced>>, max_fallbacks |-> 2, allow_global_fallback |-> TRUE],
             [priority |-> <<balanced, fast>>, max_fallbacks |-> 1, allow_global_fallback |-> FALSE],
             [priority |-> <<fast>>, max_fallbacks |-> 3, allow_global_fallback |-> FALSE]}

=============================================================================
