\* Two clients of the server after it has built its files.
SPECIFICATION Spec
CONSTANTS
  c1 = c1  c2 = c2
  Scoid = {c1, c2}
  Null = Null
  Image <- SomeImage
  Paths <- SomePaths
  Modes = {1, 2}
  Seeks = {1}
  Sizes = {1}
  MaxSeek = 1
  Default = 1
  Text = 1
  Huge = 100
SYMMETRY Clients
CHECK_DEADLOCK FALSE
INVARIANTS
  StateTellsTrue
  TreeClosed
PROPERTIES
  ImplementsSessions
