\* Rounds accumulate until nothing is left to prune: no bound on their number.
CONSTANTS
  a = a
  b = b
  c = c
  d = d
  cap = cap
  Name <- Tools
  Capability = {cap}
  Declarations <- MCDeclarations
  RoundPatches <- MCRoundPatches
SPECIFICATION RoundsSpec
INVARIANTS
  RoundsTypeOK
  PruningIsExact
