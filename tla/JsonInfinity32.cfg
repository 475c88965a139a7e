CONSTANTS
  Shape <- MCShape
  Literals <- AllLiterals
  Targets <- Targets32
SPECIFICATION Spec
INVARIANT ParsedTokensDecode
