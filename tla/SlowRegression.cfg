\* Two runs of up to three trials, with seeds and with a router.
CONSTANTS
  seeded = seeded
  hollow = hollow
  bare = bare
  order = order
  ticket = ticket
  ghost = ghost
  None = None
  Layers <- MCLayers
  Edges <- MCEdges
  Consumes <- MCConsumes
  Produces <- MCProduces
  Ghost = {ghost}
  Scenario = {seeded, hollow, bare}
  Seed <- MCSeed
  Settings <- MCSettings
  MaxTools = 2
  MaxRuns = 2
  Components <- MCComponents
  Answers <- MCAnswers
  Precision = 5
SPECIFICATION FairSpec
INVARIANTS
  TypeOK
  ResultsAreTrue
  FixturesAreReleased
  SeedIsExplored
PROPERTIES
  RunEnds
\* The last run ends.
CHECK_DEADLOCK FALSE
