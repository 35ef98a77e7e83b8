\* Three concurrent calls with all kinds of handles.
CONSTANTS
  reader = reader
  writer = writer
  mixer = mixer
  k = k
  Nothing = Nothing
  Call = {reader, writer, mixer}
  Key = {k}
  Uses <- MCUses
  Price = 2
  Declared <- MCDeclared
SPECIFICATION MeterSpec
INVARIANTS
  MeterTypeOK
  MeteringIsTrue
\* The calls end.
CHECK_DEADLOCK FALSE
