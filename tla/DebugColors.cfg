CONSTANTS
  cout = cout
  cerr = cerr
  buf = buf
  red = red
  default = default
  null = null
  Cout <- cout
  Cerr <- cerr
  Null <- null
  Default <- default
  Terminal <- TtyStreams
  Streams <- TtyStreams
  Colors <- MCColors
  FlagChoices <- MCFlagChoicesNoShade
  CallerOps <- MCColorFlagOps
  ConstructKinds <- DebugAndFatal
  MaxDepth = 2
  InnermostOnly = TRUE
  NestedDestruction = TRUE
  FormatFlagChoices <- MCFormatChoices
  MaxCalls = 3
SPECIFICATION WritesSpec
INVARIANT FormatTypeOK
INVARIANT ColorsRestoredWhenIdle
INVARIANT NeverBoldAndInverted
INVARIANT TerminalShowsTrackedColor
INVARIANT NewlineEndsWrittenText
INVARIANT ShadeIsOneValue
INVARIANT HexOnlyWhereMarked
INVARIANT SourceLocationLeads
INVARIANT OutputIndependentOfStreamPrecision
\* ~Fatal() calls std::exit(): the program stops there.  A Debug instance
\* is destroyed once: after it the single-instance behaviour stops.
CHECK_DEADLOCK FALSE
