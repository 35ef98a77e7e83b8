--------------------------- MODULE MCRouteSearch ---------------------------
(* Two layers of two tools and one of one, with every set of edges between   *)
(* neighbours; tools that provide nothing, one or two of the capabilities.   *)
EXTENDS RouteSearch

MCLayer == <<1, 1, 2, 2, 3>>

MCEdges == {e \in (1..5) \X (1..5) : MCLayer[e[2]] = MCLayer[e[1]] + 1}

\* Few providers, far apart; two capabilities in one tool and
\* again in others; providers in one layer only; a bridge without any;
\* three capabilities; nobody provides the second.
MCCapabilities == {<< {1}, {}, {3}, {}, {2} >>,
                   << {1, 2}, {1}, {2}, {1, 2}, {} >>,
                   << {}, {1}, {}, {2}, {1} >>,
                   << {1, 2}, {3}, {2, 3}, {1}, {3} >>,
                   << {1}, {}, {}, {}, {} >>}

MCProblems == [nodes: {1..5}, edges: SUBSET MCEdges, capabilities: MCCapabilities,
               required: {{1, 2}}]
  \cup [nodes: {1..5}, edges: {x \in SUBSET MCEdges : Cardinality(x) >= 4},
        capabilities: MCCapabilities, required: {{1, 2, 3}}]

=============================================================================
