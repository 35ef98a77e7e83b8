\* One invocation at a time, interrupted anywhere; one tag, two patches, two search spaces, one with a composite.
CONSTANTS
  p1 = p1
  p2 = p2
  v1 = v1
  r1 = r1
  dr = dr
  m = m
  n = n
  plain = plain
  hollow = hollow
  comp = comp
  i1 = i1
  i2 = i2
  f1 = f1
  f2 = f2
  f3 = f3
  None = None
  Absent = Absent
  Torn = Torn
  Proc = {p1}
  Tag = {v1}
  Base = {None}
  Label = {v1, r1, dr}
  Restored <- OneRestored
  DeclaredRestored = dr
  Declared = {comp, hollow}
  FP = {f1, f2, f3}
  PrintOf <- ThreePrints
  NodesOf <- NodesOfEach
  CompositesOf <- CompositesOfEach
  Inner = {i1, i2}
  Patch <- AllPatches
  Proposed <- TwoPatches
CONSTRAINTS FewAccepted InnerSettles
SPECIFICATION Spec
INVARIANTS
  TypeOK
  RecordsReplay
  SnapshotsMatchRecords
PROPERTIES
  KeepsVersionHistory
