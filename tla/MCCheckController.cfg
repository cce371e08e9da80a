SPECIFICATION FairControllerSpec
CONSTANTS
  ann = ann
  bob = bob
  a1 = a1
  a2 = a2
  b1 = b1
  t1 = t1
  Users = {ann, bob}
  Nobody = Nobody
  Docs = {a1, a2, b1}
  NoDoc = NoDoc
  Owner <- Owners
  Written <- AtFirst
  Blank = Blank
  Texts = {Blank, t1}
  LlmAuto = TRUE
  MaxChecks = 2
  MaxMoves = 2
INVARIANTS OnlyTheGapLeaks CardFitsText
PROPERTIES BusyEnds
CHECK_DEADLOCK FALSE
