\* Tokenizer: symbol streams of up to 11 symbols hold two levels of
\* nesting, a key with a container value and a trailing comma.
\* Parser: the document of MCShape on the 64-bit and 32-bit little-endian
\* builds, with every literal class except out-of-range numbers.
CONSTANTS
  MaxLen = 11
  Shape <- MCShape
  Literals <- FiniteLiterals
  Targets <- LittleEndianTargets
SPECIFICATION JsonSpec
INVARIANT TokensTypeOK
INVARIANT TokenizerMatchesGrammar
INVARIANT NavigationReconstructsText
INVARIANT NavigationIsConsistent
INVARIANT ParseTypeOK
INVARIANT TokensDecode
INVARIANT RepeatedCallIsNoOp
INVARIANT CallParsesSubtree
INVARIANT FromStringHonoured
\* Tokenizing ends with a result; nothing follows.
CHECK_DEADLOCK FALSE
