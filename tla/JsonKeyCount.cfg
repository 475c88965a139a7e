CONSTANT MaxLen = 7
SPECIFICATION Spec
INVARIANT KeyChildCountIsOne
\* Tokenizing ends with a result; nothing follows.
CHECK_DEADLOCK FALSE
