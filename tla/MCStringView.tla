--------------------------- MODULE MCStringView ----------------------------
(* Model-checking instance of the StringView algorithms: one caller makes  *)
(* one call, either to a SIMD character search (StringFind) or to one of   *)
(* the substring, split, partition, join and comparison functions          *)
(* (StringSplit); part records which.  The other model stays idle, so the  *)
(* states are the sum of the two models, not their product.                *)
EXTENDS Naturals

CONSTANTS Lanes, MaxSize, Haystacks(_), Cpus,
          Chars, MaxLen, MaxDelim, MaxParts, MaxPartLen

VARIABLES part,
          cpu, findOp, size, align, isNull, hay, findResult,
          splitOp, input, splitResult

Find == INSTANCE StringFind WITH op <- findOp, result <- findResult
Split == INSTANCE StringSplit WITH op <- splitOp, result <- splitResult

\* Strings of size n with no, one or two occurrences of the character, so
\* a first match can hide a second one.
AtMostTwoMatches(n) == {{}} \cup {{p, q} : p, q \in 0..(n - 1)}

findVars == <<cpu, findOp, size, align, isNull, hay, findResult>>
splitVars == <<splitOp, input, splitResult>>
allVars == <<part, findVars, splitVars>>

\* The character search while a split function is called: an empty
\* string searched by the scalar code, not yet called.
FindIdle ==
  /\ cpu = "scalar" /\ findOp = "idle" /\ size = 0 /\ align = 0
  /\ isNull = FALSE /\ hay = {} /\ findResult = Find!NoResult

StringViewInit ==
  \/ part = "find" /\ Find!Init /\ Split!Init
  \/ part = "split" /\ FindIdle /\ Split!Init

StringViewNext ==
  \/ part = "find" /\ Find!Next /\ UNCHANGED <<part, splitVars>>
  \/ part = "split" /\ Split!Next /\ UNCHANGED <<part, findVars>>

StringViewSpec == StringViewInit /\ [][StringViewNext]_allVars

\* The type invariant of StringFind, and part names one of the two models.
FindTypeOK == part \in {"find", "split"} /\ Find!TypeOK
\* Every SIMD variant of stringFindCharacter() returns the first occurrence.
FindMatchesReference == Find!FindMatchesReference
\* Every SIMD variant of count() returns the number of occurrences.
CountMatchesReference == Find!CountMatchesReference
\* No vector load of the search and count loops reads outside the string.
LoadsWithinString == Find!LoadsWithinString
\* No mask shift is by the width of its operand or more.
ShiftsWithinWidth == Find!ShiftsWithinWidth
\* The type invariant of StringSplit.
SplitTypeOK == Split!TypeOK
\* find(), findAny() and their last variants return the reference index.
SearchMatchesReference == Split!SearchMatchesReference
\* The backward searches read no byte before the view or past its end.
LastSearchesReadWithinView == Split!LastSearchesReadWithinView
\* split(), splitWithoutEmptyParts() and splitOnAny*() match the reference.
SplitMatchesReference == Split!SplitMatchesReference
\* partition() and partitionLast() cut at the first and last occurrence.
PartitionAtOccurrence == Split!PartitionAtOccurrence
\* join() writes exactly the buffer it sized, never past its end.
JoinFillsBuffer == Split!JoinFillsBuffer
\* join() and joinWithoutEmptyParts() produce the reference concatenation.
JoinMatchesReference == Split!JoinMatchesReference
\* The comparison operators agree with lexicographic byte order.
ComparisonsMatchLexicographicOrder == Split!ComparisonsMatchLexicographicOrder
\* hasPrefix(), hasSuffix() and the except*() functions match the reference.
AffixesMatchReference == Split!AffixesMatchReference
=============================================================================
