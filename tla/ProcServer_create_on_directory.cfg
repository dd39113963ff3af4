\* A request to create a file where a directory is.
SPECIFICATION Spec
CONSTANTS
  c1 = c1  c2 = c2  c3 = c3
  f1 = f1  f2 = f2  f3 = f3  f4 = f4  f5 = f5
  o1 = o1  o2 = o2  o3 = o3  o4 = o4  o5 = o5
  Scoid = {c1, c2}
  FileId = {f1, f2, f3, f4}
  Obj = {o1, o2}
  Null = Null
  BootPaths <- NoPaths
  BootBlock <- SysBlock
  BootObj <- SysObj
  Boots <- AnyBoot
  BootText <- Text0
  SysText <- Text0
  Byte = {0}
  PageSize = 2
  WordSize = 8
  RefLimit = 4
  Name <- Names
  Paths <- NestedPaths
  Modes <- AllModes
  ReadSizes = {}
  Payloads = {}
  Offsets = {}
  TruncateSizes = {}
SYMMETRY Alike
VIEW Control
CHECK_DEADLOCK FALSE
INVARIANTS
  CreateOnDirectoryAnswered
