\* A write longer than the rest of the memory.
SPECIFICATION Spec
CONSTANTS
  c1 = c1  c2 = c2  c3 = c3
  f1 = f1  f2 = f2  f3 = f3  f4 = f4  f5 = f5
  o1 = o1  o2 = o2  o3 = o3  o4 = o4  o5 = o5
  Scoid = {c1, c2}
  FileId = {f1, f2, f3}
  Obj = {o1, o2, o3, o4, o5}
  Null = Null
  BootPaths <- MCBootPaths
  BootBlock <- MCBootBlock
  BootObj <- MCBootObj
  Boots <- FullBoot
  BootText <- Text1
  SysText <- Text0
  Byte = {0, 1}
  PageSize = 2
  WordSize = 4
  RefLimit = 4
  Name <- Names
  Paths <- DataPaths
  Modes <- DataModes
  ReadSizes = {1, 3}
  Payloads <- SomePayloads
  Offsets = {3}
  TruncateSizes = {1, 3}
SYMMETRY Alike
VIEW Control
CHECK_DEADLOCK FALSE
INVARIANTS
  WriteWithinObject
