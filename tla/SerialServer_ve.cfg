\* Two writers and a reader, on the board with the PL011.
SPECIFICATION Spec
CONSTANTS
  w1 = w1  w2 = w2  r1 = r1
  Writer = {w1, w2}
  Reader = {r1}
  Null = Null
  Texts <- SomeTexts
  Counts = {0, 2}
  Keys = {"a", "BS", "CR"}
  Errors = {1}
  WordSize = 6
  OutBuf = 2
  InBuf = 2
  TxDepth = 1
  RxDepth = 1
  Board = "ve"
CHECK_DEADLOCK FALSE
INVARIANTS
  TypeOK
  NoOverrun
  ShownIsLine
PROPERTIES
  ChunksContiguous
  WritesDelivered
  WritesAnswered
