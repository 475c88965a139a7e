CONSTANTS
  cout = cout
  cerr = cerr
  buf = buf
  red = red
  default = default
  null = null
  Cout <- cout
  Cerr <- cerr
  Null <- null
  Default <- default
  Terminal <- TtyStreams
  Streams <- TtyStreams
  Colors <- MCDefaultOnly
  FlagChoices <- MCFlagChoicesShade
  CallerOps <- MCScopeOps
  ConstructKinds <- AllKinds
  MaxDepth = 3
  InnermostOnly = FALSE
  NestedDestruction = TRUE
SPECIFICATION Spec
INVARIANT TypeOK
INVARIANT ScopedGlobalOutputs
PROPERTY RedirectionRefined
\* ~Fatal() calls std::exit(): the program stops there.
CHECK_DEADLOCK FALSE
