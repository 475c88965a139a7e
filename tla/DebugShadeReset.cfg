CONSTANTS
  cout = cout
  cerr = cerr
  buf = buf
  red = red
  default = default
  null = null
  Cout <- cout
  Cerr <- cerr
  Null <- null
  Default <- default
  Terminal <- TtyStreams
  Streams <- TtyStreams
  Colors <- MCColors
  FlagChoices <- MCFlagChoices
  CallerOps <- MCShadeOps
  ConstructKinds <- DebugAndFatal
  MaxDepth = 2
  InnermostOnly = TRUE
  NestedDestruction = TRUE
SPECIFICATION Spec
INVARIANT TerminalShowsTrackedColor
\* ~Fatal() calls std::exit(): the program stops there.
CHECK_DEADLOCK FALSE
