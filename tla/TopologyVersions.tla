-------------------------- MODULE TopologyVersions --------------------------
(***************************************************************************)
(* The in-memory version chain of topology/version.py over several rounds  *)
(* of pruning, closed by the snapshot: the active view of a round is       *)
(* exported as JSON, and the next round loads that file as its declared    *)
(* topology (the closed loop the examples run).                            *)
(***************************************************************************)
EXTENDS Topology

CONSTANTS Declarations,   \* the declarations a first round may start from
          RoundPatches    \* the patches a round may commit

ASSUME DeclarationsAreBuildable ==
  /\ RoundPatches \subseteq Patch
  /\ \A d \in Declarations : IsDeclaration(d) /\ Buildable(d) /\ d.tools # {}

VARIABLES
  declared,   \* the declaration the current round was loaded from
  patch,      \* TopologyVersion.patch: composed since that load
  active,     \* TopologyVersion.active
  \* history variables, read by no action's guard
  origin,     \* the declaration of the first round
  pruned,     \* everything disabled since the first round and not rolled back
  loaded      \* the value of pruned when declared was loaded

roundsVars == <<declared, patch, active, origin, pruned, loaded>>

----------------------------------------------------------------------------
\* initial_version: a fresh load, nothing disabled.
RoundsInit ==
  /\ declared \in Declarations
  /\ patch = EmptyPatch
  /\ active = ApplyPatch(View(declared), EmptyPatch)
  /\ origin = declared
  /\ pruned = EmptyPatch
  /\ loaded = EmptyPatch

\* Faulty form: the patch of the round is replaced, not composed.
CommitPatchReplacing(p) ==
  /\ Applicable(View(declared), p)
  /\ patch' = p
  /\ active' = ApplyPatch(View(declared), p)
  /\ pruned' = Compose(pruned, p)
  /\ UNCHANGED <<declared, origin, loaded>>

\* commit_patch: compose with the base patch, re-apply to the declared view.
\* apply_patch raises, and no version is made, when no node would remain.
CommitPatch(p) ==
  LET combined == Compose(patch, p) IN
  /\ Applicable(View(declared), combined)
  /\ patch' = combined
  /\ active' = ApplyPatch(View(declared), combined)
  /\ pruned' = Compose(pruned, p)
  /\ UNCHANGED <<declared, origin, loaded>>

\* Faulty form: the patch is dropped, but the view is not derived again.
RollbackPatchOnly ==
  /\ patch' = EmptyPatch
  /\ pruned' = loaded
  /\ UNCHANGED <<declared, active, origin, loaded>>

\* rollback: all or nothing, back to the declared topology of this round.
Rollback ==
  /\ patch' = EmptyPatch
  /\ active' = View(declared)
  /\ pruned' = loaded
  /\ UNCHANGED <<declared, origin, loaded>>

\* The snapshot of the active view is written and loaded for the next round.
Reload ==
  LET snapshot == Export(declared, active) IN
  /\ Buildable(snapshot)
  /\ declared' = snapshot
  /\ patch' = EmptyPatch
  /\ active' = ApplyPatch(View(snapshot), EmptyPatch)
  /\ loaded' = pruned
  /\ UNCHANGED <<origin, pruned>>

RoundsNext ==
  \/ \E p \in RoundPatches : CommitPatch(p)
  \/ Rollback
  \/ Reload

RoundsSpec == RoundsInit /\ [][RoundsNext]_roundsVars

----------------------------------------------------------------------------
(* Properties *)

\* Every declaration a round works on is one the builder accepts, every view
\* is a graph over its own nodes, and the patches are patches.
RoundsTypeOK ==
  /\ IsDeclaration(declared) /\ Buildable(declared)
  /\ IsDeclaration(origin) /\ Buildable(origin)
  /\ patch \in Patch /\ pruned \in Patch /\ loaded \in Patch
  /\ active.nodes \subseteq declared.tools
  /\ active.edges \subseteq active.nodes \X active.nodes

\* Whatever a sequence of rounds pruned, the snapshot of the active view can
\* be loaded again: no allow-list in it names a tool the patches removed
\* (pipeline._self_contained_composites: snapshots must be loader-loadable).
SnapshotLoads == Buildable(Export(declared, active))

CompositePair(e) == e[1] \in origin.composite /\ e[2] \in origin.composite

\* A tool disabled in some round, and an edge disabled in some round, stay out
\* of every later active view, over any number of commits and reloads, until a
\* rollback of that very round.  The one exception is an edge between two
\* composites, which the snapshot schema cannot withhold.
PrunedStaysPruned ==
  /\ active.nodes \cap pruned.nodes = {}
  /\ \A e \in active.edges : e \in pruned.edges => CompositePair(e)

\* Pruning changes nothing else: an original edge that no round disabled, between
\* tools that no round disabled, is still active, and no edge appears that the
\* rounds did not start from, though the adjacency is materialised as allow-lists.
NothingElseChanged ==
  /\ View(origin).nodes \ pruned.nodes \subseteq active.nodes
  /\ \A e \in View(origin).edges :
       /\ e \notin pruned.edges
       /\ e[1] \notin pruned.nodes
       /\ e[2] \notin pruned.nodes
       => e \in active.edges
  /\ active.edges \subseteq View(origin).edges

\* What rounds of pruning, rollback and reload come to is what was disabled, exactly.
PruningIsExact == PrunedStaysPruned /\ NothingElseChanged

\* The inductive invariant behind the properties above: the declaration
\* of a round is the origin minus what was pruned when it was loaded, and the
\* active view is that declaration minus the patch of the round.
RoundsCompose ==
  /\ declared.tools = origin.tools \ loaded.nodes
  /\ declared.composite = origin.composite \cap declared.tools
  /\ View(declared).edges \subseteq View(origin).edges
  /\ \A x \in View(origin).edges : x \in View(declared).edges <=>
       /\ x[1] \notin loaded.nodes /\ x[2] \notin loaded.nodes
       /\ x \in loaded.edges => CompositePair(x)
  /\ active = ApplyPatch(View(declared), patch)
  /\ pruned = Compose(loaded, patch)

=============================================================================
