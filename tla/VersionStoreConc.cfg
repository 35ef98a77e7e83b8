\* Two invocations at once, interrupted anywhere; one tag, two search spaces.
CONSTANTS
  p1 = p1
  p2 = p2
  v1 = v1
  r1 = r1
  dr = dr
  m = m
  n = n
  plain = plain
  hollow = hollow
  comp = comp
  i1 = i1
  i2 = i2
  f1 = f1
  f2 = f2
  f3 = f3
  None = None
  Absent = Absent
  Torn = Torn
  Proc = {p1, p2}
  Tag = {v1}
  Base = {None}
  Label = {v1, r1, dr}
  Restored <- OneRestored
  DeclaredRestored = dr
  Declared = {plain, comp}
  FP = {f1, f2, f3}
  PrintOf <- ThreePrints
  NodesOf <- NodesOfEach
  CompositesOf <- CompositesOfEach
  Inner = {i1}
  Patch <- AllPatches
  Proposed <- OnePatch
SYMMETRY ProcSymmetry
SPECIFICATION Spec
INVARIANTS
  StoreIsSound
