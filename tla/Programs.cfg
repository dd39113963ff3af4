\* The shell, the loader and other programs around one name in two directories.
SPECIFICATION Spec
CONSTANTS
  p1 = p1  p2 = p2
  PATH <- SomePATH
  Name = {"prog"}
  Empty = Empty
  Long = {"long"}
  MaxFd = 2
  Pid = {p1, p2}
  Null = Null
CHECK_DEADLOCK FALSE
INVARIANTS
  TableAtPrompt
  NotFoundMeansNone
PROPERTIES
  PromptReturns
