------------------------------ MODULE Topology ------------------------------
(***************************************************************************)
(* The declared search space and the pure functions on it.                 *)
(*                                                                         *)
(* A declaration is what TopologyLoader reads: the registered layer        *)
(* orders, the layer of every tool, the two allow-lists of every tool      *)
(* (workers: whom it may feed; providers: who may feed it), which tools    *)
(* are composites, and the capabilities.  A view is what TopologyBuilder   *)
(* makes of it and what apply_patch derives from it: nodes and edges.      *)
(***************************************************************************)
EXTENDS Integers, FiniteSets

CONSTANTS Name,         \* tool names
          Capability    \* capability names

----------------------------------------------------------------------------
(* Declarations *)

Selector == [all: BOOLEAN, names: SUBSET Name]

Everyone == [all |-> TRUE, names |-> {}]

Only(names) == [all |-> FALSE, names |-> names]

\* NodeSelector.allows
Allows(selector, name) == selector.all \/ name \in selector.names

IsDeclaration(d) ==
  /\ d.tools \subseteq Name
  /\ d.orders \subseteq Int
  /\ d.layer \in [d.tools -> Int]
  /\ d.workers \in [d.tools -> Selector]
  /\ d.providers \in [d.tools -> Selector]
  /\ d.composite \subseteq d.tools
  /\ d.capabilities \in [d.tools -> SUBSET Capability]

\* Both allow-lists admit the edge (TopologyBuilder._allows), and the layers
\* are neighbours in the contiguous layer order.
DeclaredEdge(d, s, t) ==
  /\ d.layer[t] = d.layer[s] + 1
  /\ Allows(d.workers[s], t)
  /\ Allows(d.providers[t], s)

\* _validate_selector: an explicit allow-list names only tools of the
\* neighbouring layer (and none at all where there is no such layer).
ValidSelector(d, selector, order) ==
  selector.all \/ \A n \in selector.names :
                    /\ order \in d.orders
                    /\ n \in d.tools
                    /\ d.layer[n] = order

\* The declarations TopologyBuilder.build accepts.
Buildable(d) ==
  /\ \A lo, hi \in d.orders : \A k \in lo..hi : k \in d.orders
  /\ \A n \in d.tools :
       /\ d.layer[n] \in d.orders
       /\ ValidSelector(d, d.providers[n], d.layer[n] - 1)
       /\ ValidSelector(d, d.workers[n], d.layer[n] + 1)
       \* the loader gives composites no allow-lists of their own
       /\ n \in d.composite =>
            d.workers[n].all /\ d.providers[n].all

\* TopologyBuilder.build
View(d) ==
  [nodes |-> d.tools,
   edges |-> {e \in d.tools \X d.tools : DeclaredEdge(d, e[1], e[2])}]

\* declared_fingerprint; the truncated SHA-256 is taken to be injective on
\* the text it hashes: layers, nodes with layer and capabilities, edges.
Fingerprint(d) ==
  [orders |-> d.orders, layer |-> d.layer,
   capabilities |-> d.capabilities, edges |-> View(d).edges]

----------------------------------------------------------------------------
(* Patches *)

Patch == [edges: SUBSET (Name \X Name), nodes: SUBSET Name]

EmptyPatch == [edges |-> {}, nodes |-> {}]

Compose(p, q) ==
  [edges |-> p.edges \cup q.edges, nodes |-> p.nodes \cup q.nodes]

\* apply_patch raises when the patch disables every node.
Applicable(view, patch) == view.nodes \ patch.nodes # {}

\* Faulty form: edges of removed tools are left dangling.
ApplyPatchDangling(view, patch) ==
  [nodes |-> view.nodes \ patch.nodes, edges |-> view.edges \ patch.edges]

ApplyPatch(view, patch) ==
  LET active == view.nodes \ patch.nodes
  IN  [nodes |-> active,
       edges |-> {e \in view.edges : /\ e[1] \in active
                                     /\ e[2] \in active
                                     /\ e \notin patch.edges}]

----------------------------------------------------------------------------
(* Snapshots *)

Successors(view, n)   == {e[2] : e \in {x \in view.edges : x[1] = n}}
Predecessors(view, n) == {e[1] : e \in {x \in view.edges : x[2] = n}}

\* export_active_payload: the declaration with the disabled tools dropped and
\* the allow-lists of plain tools replaced by the active adjacency.  The
\* composite schema has no allow-lists, so a composite keeps "all".
Export(d, active) ==
  LET kept == d.tools \cap active.nodes
  IN  [tools        |-> kept,
       orders       |-> d.orders,
       layer        |-> [n \in kept |-> d.layer[n]],
       workers      |-> [n \in kept |-> IF n \in d.composite THEN d.workers[n]
                                        ELSE Only(Successors(active, n))],
       providers    |-> [n \in kept |-> IF n \in d.composite THEN d.providers[n]
                                        ELSE Only(Predecessors(active, n))],
       composite    |-> d.composite \cap kept,
       capabilities |-> [n \in kept |-> d.capabilities[n]]]

=============================================================================
