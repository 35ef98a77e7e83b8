\* Four components of which all are content.
CONSTANTS
  seeded = seeded
  hollow = hollow
  bare = bare
  order = order
  ticket = ticket
  ghost = ghost
  None = None
  Layers <- MCLayers
  Edges <- MCEdges
  Consumes <- MCConsumes
  Produces <- MCProduces
  Ghost = {ghost}
  Scenario = {seeded, hollow, bare}
  Seed <- MCSeed
  Settings <- MCSettings
  MaxTools = 2
  MaxRuns = 1
  Components <- MCManyComponents
  Answers <- MCAnswers
  Precision = 5
SPECIFICATION Spec
INVARIANTS
  ErrorsAreEvaluators
\* The last run ends.
CHECK_DEADLOCK FALSE
