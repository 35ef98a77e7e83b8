--------------------------- MODULE VersionHistory ---------------------------
(***************************************************************************)
(* What the version store promises, without files: a history in which each *)
(* tag is written at most once, and a current topology that withholds      *)
(* either nothing or exactly what some version of the history withholds.   *)
(* There may be no current topology, or one that cannot be read.           *)
(***************************************************************************)
CONSTANTS
  Tag,       \* version tags
  Patch,     \* what a version may withhold
  Nothing,   \* the patch that withholds nothing
  None       \* no version of this tag; no readable current topology

VARIABLES
  history,   \* tag -> what that version withholds, or None
  current    \* what the current topology withholds, or None

Init ==
  /\ history = [t \in Tag |-> None]
  /\ current = None

\* A version enters the history, under a tag that was free.
Record(tag, patch) ==
  /\ history[tag] = None
  /\ history' = [history EXCEPT ![tag] = patch]
  /\ UNCHANGED current

\* A version, or the declared topology, becomes current: only its own patch.
Show(patch) ==
  /\ \/ patch = Nothing
     \/ \E t \in Tag : history[t] = patch
  /\ current' = patch
  /\ UNCHANGED history

\* A file on the way to the current topology is being written, or was left torn.
Lose ==
  /\ current' = None
  /\ UNCHANGED history

Next ==
  \/ \E tag \in Tag, patch \in Patch : Record(tag, patch)
  \/ \E patch \in Patch : Show(patch)
  \/ Lose

Spec == Init /\ [][Next]_<<history, current>>

=============================================================================
