\* Two slow runs into one directory, interrupted anywhere, and the validation of small patches.
CONSTANTS
  a = a
  b = b
  c = c
  o = o
  f = f
  v = v
  u = u
  main = main
  side = side
  v1 = v1
  v2 = v2
  None = None
  Torn = Torn
  Name = {1, 2, 3, 4, 5}
  Capability = {a, b, c}
  LayerOf <- MCLayerOf
  Provides <- MCProvides
  Expected <- MCExpected
  Category <- MCCategory
  Depth = 3
  Needs <- MCNeeds
  MaxTools = 2
  Declared <- MCDeclared
  BucketOf <- MCBucketOf
  Flagged = {f}
  MinOpportunities = 1
  MinAvailability = 2
  MaxBatch = 2
  GateTrials = 1
  Version = {v1, v2}
  Batches <- MCBatches
  Patches <- MCPatches
  MaxRuns = 2
SPECIFICATION Spec
INVARIANTS
  TypeOK
  EvidenceIsOneRun
  ProposalIsBacked
  IdleMeansBlocked
  AcceptLosesNothing
\* A verdict is the end.
CHECK_DEADLOCK FALSE
