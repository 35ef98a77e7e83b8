\* Three tools in three contexts; sixteen incoming blackboards.
CONSTANTS
  t1 = t1
  t2 = t2
  t3 = t3
  sa = sa
  sb = sb
  sc = sc
  A = A
  B = B
  outer = outer
  Selected <- MCSelected
  Slot = {sa, sb, sc}
  SlotOrder <- MCSlotOrder
  Type = {A, B}
  Params <- MCParams
  Produces <- MCProduces
  ResultType <- MCResultType
  Outer = outer
  Contexts <- MCContexts
  Incoming <- MCIncoming
SPECIFICATION FairSpec
INVARIANTS
  TypeOK
  BoardTellsTasks
  ArgumentsAreSound
PROPERTIES
  LayerEnds
\* The layer ends when all its tools have.
CHECK_DEADLOCK FALSE
