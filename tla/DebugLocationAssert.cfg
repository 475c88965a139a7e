CONSTANTS
  cout = cout
  cerr = cerr
  buf = buf
  red = red
  default = default
  null = null
  Cout <- cout
  Cerr <- cerr
  Null <- null
  Default <- default
  Terminal <- TtyStreams
  Streams <- TtyStreams
  Colors <- MCDefaultOnly
  FlagChoices <- MCFlagChoicesSpacing
  CallerOps <- MCLocationOps
  ConstructKinds <- AllKinds
  MaxDepth = 1
  InnermostOnly = TRUE
  NestedDestruction = TRUE
SPECIFICATION Spec
INVARIANT SourceLocationHasNoSpace
\* ~Fatal() calls std::exit(): the program stops there.
CHECK_DEADLOCK FALSE
