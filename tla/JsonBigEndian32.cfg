CONSTANTS
  Shape <- MCShape
  Literals <- ValidLiterals
  Targets <- Targets32BE
SPECIFICATION Spec
INVARIANT ParsedTokensDecode
