\* StringFind: vectors of 2 and 4 lanes, strings up to 40 bytes: long
\* enough for two rounds of the 256-bit four-vector search block after the
\* unaligned first vector, and up to two occurrences, so a first match can
\* hide a second one.
\* StringSplit: two byte values, so a string can both contain and not
\* contain the delimiter and delimiters of two bytes can overlap ("aa" in
\* "aaa"); strings up to 6 bytes hold three delimiters with parts between
\* them; join() of up to three strings of up to two bytes covers empty
\* strings first, last and between non-empty ones.
CONSTANTS
  Lanes = 2
  MaxSize = 40
  Haystacks <- AtMostTwoMatches
  Cpus = {"avx2", "sse2", "neon", "wasm", "scalar"}
  Chars = {0, 1}
  MaxLen = 6
  MaxDelim = 2
  MaxParts = 3
  MaxPartLen = 2
SPECIFICATION StringViewSpec
\* A caller makes one call and stops.
CHECK_DEADLOCK FALSE
INVARIANT FindTypeOK
INVARIANT FindMatchesReference
INVARIANT CountMatchesReference
INVARIANT LoadsWithinString
INVARIANT ShiftsWithinWidth
INVARIANT SplitTypeOK
INVARIANT SearchMatchesReference
INVARIANT LastSearchesReadWithinView
INVARIANT SplitMatchesReference
INVARIANT PartitionAtOccurrence
INVARIANT JoinFillsBuffer
INVARIANT JoinMatchesReference
INVARIANT ComparisonsMatchLexicographicOrder
INVARIANT AffixesMatchReference
