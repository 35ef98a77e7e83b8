--------------------------- MODULE MCVersionStore ---------------------------
(* Two tools, one tag, and topologies that differ in fingerprint or in     *)
(* having a composite.                                                     *)
EXTENDS VersionStore, FiniteSets, TLC

CONSTANTS p1, p2,             \* invocations
          v1,                 \* tag
          r1, dr,             \* v1-restored, declared-restored
          m, n,               \* tools
          plain, hollow, comp,   \* declared topologies
          i1, i2,             \* inner topologies
          f1, f2, f3          \* fingerprints

OneRestored  == v1 :> r1

\* hollow has only the tool m, so that disabling m leaves nothing of it; the
\* others have m and n, and in comp n is a composite.
NodesOfEach == [d \in Declared |-> IF d = hollow THEN {m} ELSE {m, n}]

CompositesOfEach == [d \in Declared |-> IF d = comp THEN {n} ELSE {}]

\* Three search spaces
ThreePrints == [d \in Declared |-> IF d = plain THEN f1 ELSE IF d = hollow THEN f2 ELSE f3]

\* Processes are interchangeable.
ProcSymmetry == Permutations(Proc)

\* Bounds: two patches are ever accepted, or one for two search spaces; and the
\* inner topology is edited only before anything is accepted.
FewAccepted  == Cardinality(accepted) <= 2
InnerSettles == accepted # {} => inner = i1

OnePatch   == {{m}}
TwoPatches == {{m}, {n}}
AllPatches == {{}} \cup TwoPatches

=============================================================================
