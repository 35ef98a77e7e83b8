------------------------- MODULE MCTopologyVersions -------------------------
(* Three layers {a}, {b, c}, {d}: four tools and up to four edges.  Which    *)
(* tools are composites and the allow-lists of a and d vary over the         *)
(* declarations; a round disables one edge or one tool.                      *)
EXTENDS TopologyVersions, TLC

CONSTANTS a, b, c, d, cap

Tools == {a, b, c, d}

LayerOf == (a :> 0) @@ (b :> 1) @@ (c :> 1) @@ (d :> 2)

\* The declaration with the given composites; where it is a plain tool, a may
\* feed only outA, and d may be fed only by inD.
Declare(composite, outA, inD) ==
  [tools |-> Tools,
   orders |-> 0..2,
   layer |-> LayerOf,
   workers |-> [n \in Tools |-> IF n = a /\ a \notin composite THEN outA ELSE Everyone],
   providers |-> [n \in Tools |-> IF n = d /\ d \notin composite THEN inD ELSE Everyone],
   composite |-> composite,
   capabilities |-> [n \in Tools |-> IF n \in {a, c} THEN {cap} ELSE {}]]

\* No composite, one, two in neighbouring layers.
MCComposites == {{}, {b}, {a, b}}

MCDeclarations ==
  {Declare(composite, outA, inD) :
     composite \in MCComposites,
     outA \in {Everyone, Only({b})},
     inD \in {Everyone, Only({c})}}

MCRoundPatches ==
  {[edges |-> {x}, nodes |-> {}] : x \in {<<a, b>>, <<a, c>>, <<b, d>>, <<c, d>>}}
    \cup {[edges |-> {}, nodes |-> {n}] : n \in Tools}

=============================================================================
