CONSTANTS
  cout = cout
  cerr = cerr
  buf = buf
  red = red
  default = default
  null = null
  Cout <- cout
  Cerr <- cerr
  Null <- null
  Default <- default
  Terminal <- TtyStreams
  Streams <- TtyAndBufferStreams
  Colors <- MCColors
  FlagChoices <- MCFlagChoicesNone
  CallerOps <- MCColorOps
  ConstructKinds <- DebugAndFatal
  MaxDepth = 2
  InnermostOnly = FALSE
  NestedDestruction = TRUE
SPECIFICATION Spec
INVARIANT ColorsRestoredWhenIdle
\* ~Fatal() calls std::exit(): the program stops there.
CHECK_DEADLOCK FALSE
