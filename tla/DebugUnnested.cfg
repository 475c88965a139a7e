CONSTANTS
  cout = cout
  cerr = cerr
  buf = buf
  red = red
  default = default
  null = null
  Cout <- cout
  Cerr <- cerr
  Null <- null
  Default <- default
  Terminal <- TtyStreams
  Streams <- TtyAndBufferStreams
  Colors <- MCDefaultOnly
  FlagChoices <- MCFlagChoicesNone
  CallerOps <- MCNoOps
  ConstructKinds <- DebugOnly
  MaxDepth = 2
  InnermostOnly = TRUE
  NestedDestruction = FALSE
SPECIFICATION Spec
INVARIANT ScopedGlobalOutputs
CHECK_DEADLOCK FALSE
