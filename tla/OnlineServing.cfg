\* Two concurrent requests; one of them may hang.
CONSTANTS
  q1 = q1
  q2 = q2
  fast = fast
  balanced = balanced
  quality = quality
  refund = refund
  search = search
  weather = weather
  query = query
  fetch = fetch
  rank = rank
  answer = answer
  rows = rows
  reply = reply
  None = None
  Request = {q1, q2}
  Prompt = {q1}
  Segments <- MCSegments
  Tiers <- MCTiers
  Categories <- MCCategories
  Needs <- MCNeeds
  Makes <- MCMakes
  Priced = {query, answer}
  Arrival <- MCArrival
  Config <- MCConfig
  Rotations = {0, 1}
SPECIFICATION FairSpec
INVARIANTS
  TypeOK
  AttemptsAreSound
  AccountsAreTrue
  RotationSpreads
PROPERTIES
  PromptIsAnswered
\* Every request is answered.
CHECK_DEADLOCK FALSE
