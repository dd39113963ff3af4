\* Files are loaded, deleted and run in any order, under a name twice or not.
SPECIFICATION Spec
CONSTANTS
  b1 = b1  b2 = b2  b3 = b3  n1 = n1  n2 = n2  p1 = p1  p2 = p2
  Block = {b1, b2, b3}
  Null = Null
  Name = {n1, n2}
  Size = {0, 1, 2}
  Pid = {p1, p2}
  MaxLoads = 5
SYMMETRY Symmetry
CHECK_DEADLOCK FALSE
INVARIANTS
  TypeOK
  LinksAgree
  NoLeak
PROPERTIES
  ImplementsListing
