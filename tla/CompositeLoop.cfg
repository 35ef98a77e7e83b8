\* Three rounds of two layers, with and without a timeout of the outer call.
CONSTANTS
  draft = draft
  recall = recall
  review = review
  write = write
  request = request
  plan = plan
  text = text
  approval = approval
  Route <- MCRoute
  Slot = {request, plan, text, approval}
  Needs <- MCNeeds
  Makes <- MCMakes
  Meters <- MCMeters
  Given = {request}
  StopWhen = {text, approval}
  Yields = {text}
  MaxIterations = 3
  Timeouts = {TRUE, FALSE}
SPECIFICATION FairSpec
INVARIANTS
  TypeOK
  RecordsAreTrue
  RoundsShareBoard
PROPERTIES
  CompositeEnds
\* The call ends.
CHECK_DEADLOCK FALSE
