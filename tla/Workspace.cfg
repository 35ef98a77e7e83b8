\* The files of one directory while its topology is edited between the commands.
CONSTANTS
  a = a
  b = b
  x = x
  g = g
  q = q
  main = main
  dt = dt
  du = du
  Type = {dt, du}
  None = None
  Torn = Torn
  Name = {1, 2, 3, 4}
  Capability = {a, b}
  Inner <- MCInner
  MaxCompositeDepth = 2
  Expected <- MCExpected
  Category <- MCCategory
  Depth = 2
  MaxTools = 3
  Files <- MCFiles
  Specs <- MCSpecs
  Answers <- MCAnswers
  Routers <- MCRouters
  ProposalAnswers <- MCProposalAnswers
  OldSeeds <- MCOldSeeds
  Runs <- MCRuns
  MinTrials = 2
  Flags <- MCFlags
  MaxVerify = 2
  ReplayTrials = 2
SPECIFICATION Spec
CONSTRAINT OneTrack
INVARIANTS
  TypeOK
  SeedsReplay
  LossIsReported
  FrontierIsSound
  CandidatesAreBacked
