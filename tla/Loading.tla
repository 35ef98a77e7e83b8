------------------------------ MODULE Loading ------------------------------
(***************************************************************************)
(* From a topology file to a declaration: the field checks, the registries *)
(* and the composite entries of TopologyLoader, and the file that the      *)
(* scaffold command writes.  What TopologyBuilder accepts is in Topology.  *)
(*                                                                         *)
(* A file is [sound, layers, tools]: whether it is JSON whose every field  *)
(* is known, present and of its type, and the two lists in it.  Layers are *)
(* [name, order], tools                                                    *)
(*   [name, layer, composite, workers, providers, capabilities, consumes,  *)
(*    produces, bound]                                                     *)
(* of which a composite also has "inner", the name of a file, and "route". *)
(* consumes has the types an entry demands of the blackboard, and is empty *)
(* where Any is among them; produces has the types that what its tool      *)
(* leaves there is an instance of, which takes its implementation and its  *)
(* field produces together.                                                *)
(***************************************************************************)
EXTENDS Topology, Sequences, SequencesExt

CONSTANTS
  Type,         \* of what tools leave on the blackboard
  Inner,        \* [file name -> file]: what composites may refer to
  MaxCompositeDepth,
  None

ASSUME LoadingAssumption == MaxCompositeDepth \in Nat

----------------------------------------------------------------------------

IsEntry(e) ==
  /\ {"name", "workers", "providers", "capabilities", "consumes", "produces"} \subseteq DOMAIN e
  /\ e.name \in Name /\ e.capabilities \in SUBSET Capability
  /\ e.workers \in Selector /\ e.providers \in Selector
  /\ e.consumes \in SUBSET Type /\ e.produces \in SUBSET Type

IsFile(file) ==
  /\ DOMAIN file = {"sound", "layers", "tools"}
  /\ \A i \in DOMAIN file.layers : file.layers[i].order \in Int
  /\ \A i \in DOMAIN file.tools : IsEntry(file.tools[i])

Entries(file) == ToSet(file.tools)

Distinct(list) == \A i, j \in DOMAIN list : i # j => list[i].name # list[j].name

\* LayerRegistry.register, ToolRegistry.register, and the layer of each tool
Registered(file) ==
  /\ Distinct(file.layers) /\ Distinct(file.tools)
  /\ \A i, j \in DOMAIN file.layers : i # j => file.layers[i].order # file.layers[j].order
  /\ \A e \in Entries(file) : \E l \in ToSet(file.layers) : l.name = e.layer

\* The declaration a file amounts to.
Declares(file) ==
  LET names    == {e.name : e \in Entries(file)}
      Entry(n) == CHOOSE e \in Entries(file) : e.name = n
      Order(l) == (CHOOSE x \in ToSet(file.layers) : x.name = l).order
  IN  [tools        |-> names,
       orders       |-> {l.order : l \in ToSet(file.layers)},
       layer        |-> [n \in names |-> Order(Entry(n).layer)],
       workers      |-> [n \in names |-> Entry(n).workers],
       providers    |-> [n \in names |-> Entry(n).providers],
       composite    |-> {n \in names : Entry(n).composite},
       capabilities |-> [n \in names |-> Entry(n).capabilities],
       consumes     |-> [n \in names |-> Entry(n).consumes],
       produces     |-> [n \in names |-> Entry(n).produces]]

\* unbound_tool_names; a composite has its runtime for a handler.
Unbound(file) == {e.name : e \in {x \in Entries(file) : ~x.composite /\ ~x.bound}}

\* RoutePlan.from_groups
ValidPlan(d, groups) ==
  /\ groups # <<>>
  /\ \A i \in DOMAIN groups :
       /\ groups[i] # {} /\ groups[i] \subseteq d.tools
       /\ \A s, t \in groups[i] : d.layer[s] = d.layer[t]
  /\ \A i \in 1..(Len(groups) - 1) :
       /\ \A s \in groups[i], t \in groups[i + 1] : d.layer[t] = d.layer[s] + 1
       /\ \A s \in groups[i] : \E t \in groups[i + 1] : <<s, t>> \in View(d).edges
       /\ \A t \in groups[i + 1] : \E s \in groups[i] : <<s, t>> \in View(d).edges

\* _composite_node and CompositeSpec: the inner topology loads and can be
\* executed, the route is a plan on it, and the composite is not in it.
ValidComposite(e, inner) ==
  /\ inner # None
  /\ Unbound(Inner[e.inner]) = {}
  /\ ValidPlan(inner, e.route)
  /\ e.name \notin inner.tools

\* load_data; inner has what the files that composites may refer to amount to.
LoadedWith(file, inner) ==
  IF /\ file.sound /\ Registered(file)
     /\ Buildable(Declares(file))
     /\ \A e \in Entries(file) :
          e.composite => e.inner \in DOMAIN inner /\ ValidComposite(e, inner[e.inner])
  THEN Declares(file) ELSE None

\* These with composites in composites up to this depth.  A file that refers to
\* itself exhausts the stack, which is an error too.
InnerLoaded[depth \in 0..MaxCompositeDepth] ==
  [name \in DOMAIN Inner |->
     IF depth = 0 THEN None ELSE LoadedWith(Inner[name], InnerLoaded[depth - 1])]

\* load_file: the declaration, None where it raises.
Load(file) == LoadedWith(file, InnerLoaded[MaxCompositeDepth])

----------------------------------------------------------------------------
(* Onboarding *)

\* skeleton_payload: one layer, no capabilities.  None where there is nothing in
\* it; that two specs have one name is for whoever loads it to find out.
Skeleton(names, layer, dispatched) ==
  IF names = <<>> THEN None
  ELSE [sound  |-> TRUE,
        layers |-> <<[name |-> layer, order |-> 0]>>,
        tools  |-> [i \in DOMAIN names |->
                      [name |-> names[i], layer |-> layer, composite |-> FALSE,
                       workers |-> Everyone, providers |-> Everyone,
                       capabilities |-> {}, consumes |-> {}, produces |-> {},
                       bound |-> dispatched]]]

\* apply_capabilities: None where it raises; approved is what a human let pass.
\* The round trip has the payload without the path it is from, so that it finds
\* the files composites refer to only if run in the directory of the topology.
Applied(file, approved, inPlace) ==
  LET merged == [file EXCEPT !.tools = [i \in DOMAIN file.tools |->
                   IF file.tools[i].name \notin DOMAIN approved THEN file.tools[i]
                   ELSE [file.tools[i] EXCEPT !.capabilities = @ \cup approved[file.tools[i].name]]]]
  IN  IF /\ file.tools # <<>>
         /\ DOMAIN approved \subseteq {e.name : e \in Entries(file)}
         /\ LoadedWith(merged, IF inPlace THEN InnerLoaded[MaxCompositeDepth]
                               ELSE [name \in {} |-> None]) # None
      THEN merged ELSE None

=============================================================================
