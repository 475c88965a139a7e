----------------------------- MODULE StringSplit ----------------------------
(***************************************************************************)
(* Substring search, split, partition and join of                         *)
(* Containers/StringView.cpp.                                              *)
(*                                                                         *)
(* A string is a sequence of bytes from the small set Chars; a pointer    *)
(* into it is an offset from its data (0-based, so byte at offset i is    *)
(* s[i + 1]) and a null pointer is NotFound.  slice(a, b) is the bytes at *)
(* offsets a .. b - 1.  The String returned by join() is the buffer of    *)
(* its precomputed total size, written by memcpy calls in order: the      *)
(* model keeps the calls, as [at, len], and the bytes they wrote.         *)
(***************************************************************************)
EXTENDS Naturals, Sequences, SequencesExt

CONSTANTS
  Chars,       \* the byte values
  MaxLen,      \* bound on the size of a searched or split string
  MaxDelim,    \* bound on the size of a delimiter or searched substring
  MaxParts,    \* bound on the number of strings joined
  MaxPartLen   \* bound on the size of each joined string

ASSUME MaxLen \in Nat /\ MaxDelim \in Nat \ {0} /\ MaxParts \in Nat /\ MaxPartLen \in Nat

NotFound == -1

\* slice(begin, end) of a view, for offsets begin <= end.
Slice(s, begin, end) == SubSeq(s, begin + 1, end)

\* The byte at offset i.  A read outside the view is memory the view does
\* not own: it yields OutOfView, equal to no byte, and the searches below
\* record every offset they read so that such a read is caught.
OutOfView == -1
ByteAt(s, i) == IF i \in 0..(Len(s) - 1) THEN s[i + 1] ELSE OutOfView

\* memcmp(data + i, substring, size) == 0, and the offsets it reads.
Memeq(s, i, sub) == \A k \in 1..Len(sub) : ByteAt(s, i + k - 1) = sub[k]
MemcmpReads(i, sub) == {i + k - 1 : k \in 1..Len(sub)}

-----------------------------------------------------------------------------
(* Searches                                                                *)

\* for(; data <= max; ++data) if(memcmp(...) == 0) return data;
RECURSIVE FindStringFrom(_, _, _, _)
FindStringFrom(s, data, max, sub) ==
  IF data > max THEN NotFound
  ELSE IF Memeq(s, data, sub) THEN data
  ELSE FindStringFrom(s, data + 1, max, sub)

StringFindStringBeforeLast(s, data, size, sub) ==
  IF Len(sub) <= size
  THEN IF size = 0 THEN data
       ELSE FindStringFrom(s, data, data + size - Len(sub) - 1, sub)
  ELSE NotFound

\* stringFindString(): an empty string with an empty substring gives data.
StringFindString(s, data, size, sub) ==
  IF Len(sub) <= size
  THEN IF size = 0 THEN data
       ELSE FindStringFrom(s, data, data + size - Len(sub), sub)
  ELSE NotFound

\* A search result: the offset found (or NotFound) and the offsets read.
Found(i, rd) == [index |-> i, reads |-> rd]

\* Mutant: the scan starts one byte too far.
StringFindLastStringFromEnd(s, data, size, sub) ==
  LET RECURSIVE Back(_, _)
      Back(i, rd) == IF i < data THEN Found(NotFound, rd)
                     ELSE IF Memeq(s, i, sub) THEN Found(i, rd \cup MemcmpReads(i, sub))
                     ELSE Back(i - 1, rd \cup MemcmpReads(i, sub))
  IN IF Len(sub) <= size
     THEN IF size = 0 THEN Found(data, {}) ELSE Back(data + size - Len(sub) + 1, {})
     ELSE Found(NotFound, {})

\* stringFindLastString(): for(i = data + size - substringSize; i >= data; --i)
\* -- i reaches data - 1 when nothing matches, and the test must stop it
\* before memcmp() reads there.
StringFindLastStringScan(s, data, size, sub) ==
  LET RECURSIVE Back(_, _)
      Back(i, rd) == IF i < data THEN Found(NotFound, rd)
                     ELSE IF Memeq(s, i, sub) THEN Found(i, rd \cup MemcmpReads(i, sub))
                     ELSE Back(i - 1, rd \cup MemcmpReads(i, sub))
  IN IF Len(sub) <= size
     THEN IF size = 0 THEN Found(data, {}) ELSE Back(data + size - Len(sub), {})
     ELSE Found(NotFound, {})

StringFindLastString(s, data, size, sub) == StringFindLastStringScan(s, data, size, sub).index

\* The forward loops of stringFindAny() (want = TRUE) and
\* stringFindNotAny() (want = FALSE): the first byte for which
\* memchr(characters, *i, characterCount) is non-null exactly when want.
StringFindAnyOf(s, data, size, cs, want) ==
  LET RECURSIVE Fwd(_)
      Fwd(i) == IF i = data + size THEN NotFound
                ELSE IF (s[i + 1] \in cs) = want THEN i ELSE Fwd(i + 1)
  IN Fwd(data)

\* Mutant: *i tested instead of *(i - 1).
StringFindLastAnyScanAtI(s, data, size, cs, want) ==
  LET RECURSIVE Back(_, _)
      Back(i, rd) == IF i = data THEN Found(NotFound, rd)
                     ELSE IF (ByteAt(s, i) \in cs) = want THEN Found(i, rd \cup {i})
                     ELSE Back(i - 1, rd \cup {i})
  IN Back(data + size, {})

\* The backward loops of stringFindLastAny() and stringFindLastNotAny():
\* for(i = data + size; i != data; --i) testing *(i - 1).
StringFindLastAnyScan(s, data, size, cs, want) ==
  LET RECURSIVE Back(_, _)
      Back(i, rd) == IF i = data THEN Found(NotFound, rd)
                     ELSE IF (ByteAt(s, i - 1) \in cs) = want THEN Found(i - 1, rd \cup {i - 1})
                     ELSE Back(i - 1, rd \cup {i - 1})
  IN Back(data + size, {})

StringFindLastAnyOf(s, data, size, cs, want) == StringFindLastAnyScan(s, data, size, cs, want).index

\* std::memchr(data + from, c, n)
Memchr(s, from, n, c) == StringFindAnyOf(s, from, n, {c}, TRUE)

\* stringFindLastCharacter() on a non-null view.
StringFindLastCharacter(s, size, c) == StringFindLastAnyOf(s, 0, size, {c}, TRUE)

-----------------------------------------------------------------------------
(* split()                                                                 *)

\* The delimiter search of split(char) (memchr) and of split(StringView)
\* (stringFindString).
Locate(s, from, n, delim, byChar) ==
  IF byChar THEN Memchr(s, from, n, delim[1]) ELSE StringFindString(s, from, n, delim)

\* while(oldpos < end && (pos = find(oldpos, end - oldpos))) {
\*   arrayAppend(parts, slice(oldpos, pos)); oldpos = pos + delimiterSize; }
RECURSIVE SplitLoop(_, _, _, _, _)
SplitLoop(s, delim, byChar, oldpos, parts) ==
  LET pos == IF oldpos < Len(s) THEN Locate(s, oldpos, Len(s) - oldpos, delim, byChar)
             ELSE NotFound
  IN IF pos # NotFound
     THEN SplitLoop(s, delim, byChar, pos + Len(delim), Append(parts, Slice(s, oldpos, pos)))
     ELSE [parts |-> parts, oldpos |-> oldpos]

SplitAlwaysSuffix(s, delim, byChar) ==
  LET r == SplitLoop(s, delim, byChar, 0, <<>>)
  IN Append(r.parts, Slice(s, r.oldpos, Len(s)))

\* split(char) and split(StringView): the rest after the last delimiter is
\* a part unless the view is empty.
Split(s, delim, byChar) ==
  LET r == SplitLoop(s, delim, byChar, 0, <<>>)
  IN IF s # <<>> THEN Append(r.parts, Slice(s, r.oldpos, Len(s))) ELSE r.parts

\* splitWithoutEmptyParts(char): a missing delimiter is taken to be at
\* end, and a part is appended only if non-empty.
SplitWithoutEmptyParts(s, c) ==
  LET RECURSIVE Loop(_, _)
      Loop(oldpos, parts) ==
        IF oldpos < Len(s)
        THEN LET found == Memchr(s, oldpos, Len(s) - oldpos, c)
                 pos == IF found = NotFound THEN Len(s) ELSE found
             IN Loop(pos + 1, IF pos # oldpos THEN Append(parts, Slice(s, oldpos, pos)) ELSE parts)
        ELSE parts
  IN Loop(0, <<>>)

\* splitOnAnyWithoutEmptyParts(delimiters), and so also
\* splitOnWhitespaceWithoutEmptyParts() with the whitespace set.
SplitOnAnyWithoutEmptyParts(s, cs) ==
  LET RECURSIVE Loop(_, _)
      Loop(oldpos, parts) ==
        IF oldpos < Len(s)
        THEN LET pos == StringFindAnyOf(s, oldpos, Len(s) - oldpos, cs, TRUE) IN
             IF pos # NotFound
             THEN Loop(pos + 1, IF pos # oldpos THEN Append(parts, Slice(s, oldpos, pos)) ELSE parts)
             ELSE Append(parts, Slice(s, oldpos, Len(s)))
        ELSE parts
  IN Loop(0, <<>>)

-----------------------------------------------------------------------------
(* partition() and partitionLast()                                         *)

\* { pos ? prefix(pos) : *this, pos ? slice(pos, pos + n) : exceptPrefix(size),
\*   pos ? suffix(pos + n) : exceptPrefix(size) }
Partition(s, sep, byChar) ==
  LET pos == IF byChar THEN Memchr(s, 0, Len(s), sep[1])
             ELSE StringFindString(s, 0, Len(s), sep)
  IN IF pos # NotFound
     THEN <<Slice(s, 0, pos), Slice(s, pos, pos + Len(sep)), Slice(s, pos + Len(sep), Len(s))>>
     ELSE <<s, <<>>, <<>>>>

PartitionLastSwapped(s, sep, byChar) ==
  LET pos == IF byChar THEN StringFindLastCharacter(s, Len(s), sep[1])
             ELSE StringFindLastString(s, 0, Len(s), sep)
  IN IF pos # NotFound
     THEN <<Slice(s, 0, pos), Slice(s, pos, pos + Len(sep)), Slice(s, pos + Len(sep), Len(s))>>
     ELSE <<s, <<>>, <<>>>>

\* { pos ? prefix(pos) : exceptPrefix(size), pos ? slice(pos, pos + n) :
\*   exceptPrefix(size), pos ? suffix(pos + n) : *this }
PartitionLast(s, sep, byChar) ==
  LET pos == IF byChar THEN StringFindLastCharacter(s, Len(s), sep[1])
             ELSE StringFindLastString(s, 0, Len(s), sep)
  IN IF pos # NotFound
     THEN <<Slice(s, 0, pos), Slice(s, pos, pos + Len(sep)), Slice(s, pos + Len(sep), Len(s))>>
     ELSE <<<<>>, <<>>, s>>

-----------------------------------------------------------------------------
(* join() and joinWithoutEmptyParts()                                      *)

\* std::memcpy(out, src, size); out += size;
Memcpy(acc, src) ==
  [acc EXCEPT !.out = @ + Len(src), !.text = @ \o src,
              !.writes = Append(@, [at |-> acc.out, len |-> Len(src)])]

\* The copy loop shared by both: each string (skipping empty ones in
\* joinWithoutEmptyParts()), then the delimiter unless out reached end.
RECURSIVE JoinLoopCopyingEmpty(_, _, _, _, _, _)
JoinLoopCopyingEmpty(d, strs, skipEmpty, k, end, acc) ==
  IF k > Len(strs) THEN acc
  ELSE IF skipEmpty /\ strs[k] = <<>> THEN JoinLoopCopyingEmpty(d, strs, skipEmpty, k + 1, end, acc)
  ELSE LET copied == Memcpy(acc, strs[k])
           delimited == IF Len(d) # 0 /\ copied.out # end THEN Memcpy(copied, d) ELSE copied
       IN JoinLoopCopyingEmpty(d, strs, skipEmpty, k + 1, end, delimited)

RECURSIVE JoinLoopAlwaysDelimiting(_, _, _, _, _, _)
JoinLoopAlwaysDelimiting(d, strs, skipEmpty, k, end, acc) ==
  IF k > Len(strs) THEN acc
  ELSE IF skipEmpty /\ strs[k] = <<>> THEN JoinLoopAlwaysDelimiting(d, strs, skipEmpty, k + 1, end, acc)
  ELSE LET copied == IF Len(strs[k]) # 0 THEN Memcpy(acc, strs[k]) ELSE acc
           delimited == IF Len(d) # 0 THEN Memcpy(copied, d) ELSE copied
       IN JoinLoopAlwaysDelimiting(d, strs, skipEmpty, k + 1, end, delimited)

RECURSIVE JoinLoop(_, _, _, _, _, _)
JoinLoop(d, strs, skipEmpty, k, end, acc) ==
  IF k > Len(strs) THEN acc
  ELSE IF skipEmpty /\ strs[k] = <<>> THEN JoinLoop(d, strs, skipEmpty, k + 1, end, acc)
  ELSE LET copied == IF Len(strs[k]) # 0 THEN Memcpy(acc, strs[k]) ELSE acc
           delimited == IF Len(d) # 0 /\ copied.out # end THEN Memcpy(copied, d) ELSE copied
       IN JoinLoop(d, strs, skipEmpty, k + 1, end, delimited)

EmptyBuffer(total) == [total |-> total, out |-> 0, text |-> <<>>, writes |-> <<>>]

SizeSum(strs) == FoldLeft(LAMBDA n, x : n + Len(x), 0, strs)

\* join(): the total size is the sizes plus a delimiter between each two.
Join(d, strs) ==
  LET total == IF strs = <<>> THEN 0 ELSE (Len(strs) - 1) * Len(d) + SizeSum(strs)
  IN JoinLoop(d, strs, FALSE, 1, total, EmptyBuffer(total))

NonEmpty(strs) == SelectSeq(strs, LAMBDA x : x # <<>>)

JoinWithoutEmptyPartsUntrimmed(d, strs) ==
  LET total == SizeSum(NonEmpty(strs)) + Len(NonEmpty(strs)) * Len(d)
  IN JoinLoop(d, strs, TRUE, 1, total, EmptyBuffer(total))

\* joinWithoutEmptyParts(): each non-empty string plus a delimiter, minus
\* the last delimiter if anything was counted.
JoinWithoutEmptyParts(d, strs) ==
  LET counted == SizeSum(NonEmpty(strs)) + Len(NonEmpty(strs)) * Len(d)
      total == IF counted # 0 THEN counted - Len(d) ELSE counted
  IN JoinLoop(d, strs, TRUE, 1, total, EmptyBuffer(total))

-----------------------------------------------------------------------------
(* operator+ and operator*                                                  *)

\* String result{NoInit, aSize + bSize}; if(aSize) memcpy(out, a, aSize);
\* if(bSize) memcpy(out + aSize, b, bSize);
Concat(a, b) ==
  LET b0 == EmptyBuffer(Len(a) + Len(b))
      b1 == IF Len(a) # 0 THEN Memcpy(b0, a) ELSE b0
  IN IF Len(b) # 0 THEN Memcpy(b1, b) ELSE b1

\* String result{NoInit, size*count};
\* if(size) for(i = 0; i != count; ++i) memcpy(out + i*size, string, size);
Repeat(str, count) ==
  LET RECURSIVE Loop(_, _)
      Loop(i, acc) == IF i = count THEN acc ELSE Loop(i + 1, Memcpy(acc, str))
      b0 == EmptyBuffer(Len(str) * count)
  IN IF Len(str) # 0 THEN Loop(0, b0) ELSE b0

-----------------------------------------------------------------------------
(* Comparisons, prefixes and suffixes                                      *)

\* memcmp(a, b, n): the sign of the first of n bytes that differ (bytes
\* compared as unsigned char), 0 if none does.
Memcmp(a, b, n) ==
  LET diff == {k \in 1..n : a[k] # b[k]}
  IN IF diff = {} THEN 0 ELSE IF a[Min(diff)] < b[Min(diff)] THEN -1 ELSE 1

\* The six comparison operators: memcmp() over the shorter size decides
\* unless it is zero, then the sizes do.  operator== and operator!= (the
\* C++11 out-of-line forms) compare the sizes first.
MinSize(a, b) == IF Len(a) < Len(b) THEN Len(a) ELSE Len(b)

\* Mutant: operator<= decides equal-prefix views like operator<.
CompareLessEqualStrict(a, b) ==
  LET r == Memcmp(a, b, MinSize(a, b)) IN
  [lt |-> IF r # 0 THEN r < 0 ELSE Len(a) < Len(b),
   le |-> IF r # 0 THEN r < 0 ELSE Len(a) < Len(b),
   ge |-> IF r # 0 THEN r > 0 ELSE Len(a) >= Len(b),
   gt |-> IF r # 0 THEN r > 0 ELSE Len(a) > Len(b),
   eq |-> Len(a) = Len(b) /\ Memcmp(a, b, Len(a)) = 0,
   ne |-> Len(a) # Len(b) \/ Memcmp(a, b, Len(a)) # 0]

Compare(a, b) ==
  LET r == Memcmp(a, b, MinSize(a, b)) IN
  [lt |-> IF r # 0 THEN r < 0 ELSE Len(a) < Len(b),
   le |-> IF r # 0 THEN r < 0 ELSE Len(a) <= Len(b),
   ge |-> IF r # 0 THEN r > 0 ELSE Len(a) >= Len(b),
   gt |-> IF r # 0 THEN r > 0 ELSE Len(a) > Len(b),
   eq |-> Len(a) = Len(b) /\ Memcmp(a, b, Len(a)) = 0,
   ne |-> Len(a) # Len(b) \/ Memcmp(a, b, Len(a)) # 0]

\* Mutant: a view as long as the suffix is taken to be too short.
HasSuffixStrict(s, suffix) ==
  IF Len(s) <= Len(suffix) THEN FALSE
  ELSE Memcmp(SubSeq(s, Len(s) - Len(suffix) + 1, Len(s)), suffix, Len(suffix)) = 0

\* hasPrefix(StringView), hasSuffix(StringView): false if the view is
\* shorter, else memcmp() at the start or at size - suffixSize.
HasPrefix(s, prefix) ==
  IF Len(s) < Len(prefix) THEN FALSE ELSE Memcmp(s, prefix, Len(prefix)) = 0
HasSuffix(s, suffix) ==
  IF Len(s) < Len(suffix) THEN FALSE
  ELSE Memcmp(SubSeq(s, Len(s) - Len(suffix) + 1, Len(s)), suffix, Len(suffix)) = 0

\* hasPrefix(char), hasSuffix(char): size && _data[0] (_data[size - 1]).
HasPrefixChar(s, c) == Len(s) # 0 /\ s[1] = c
HasSuffixChar(s, c) == Len(s) # 0 /\ s[Len(s)] = c

\* exceptPrefix(StringView), exceptSuffix(StringView): CORRADE_ASSERT on
\* hasPrefix() (hasSuffix()), which with graceful assertions returns {};
\* otherwise the view without prefix.size() (suffix.size()) bytes.
Asserted == [view |-> <<>>, asserted |-> TRUE]
ExceptPrefix(s, prefix) ==
  IF HasPrefix(s, prefix) THEN [view |-> SubSeq(s, Len(prefix) + 1, Len(s)), asserted |-> FALSE]
  ELSE Asserted
ExceptSuffix(s, suffix) ==
  IF HasSuffix(s, suffix) THEN [view |-> SubSeq(s, 1, Len(s) - Len(suffix)), asserted |-> FALSE]
  ELSE Asserted

-----------------------------------------------------------------------------
(* A caller: one call of one of the functions on inputs from small sets.  *)

VARIABLES op, input, result
vars == <<op, input, result>>

Strings == BoundedSeq(Chars, MaxLen)
Delimiters == BoundedSeq(Chars, MaxDelim) \ {<<>>}
Substrings == BoundedSeq(Chars, MaxDelim)
JoinLists == BoundedSeq(BoundedSeq(Chars, MaxPartLen), MaxParts)
ShortStrings == BoundedSeq(Chars, MaxDelim + 1)

NoInput == [s |-> <<>>, d |-> <<>>, cs |-> {}, strs |-> <<>>, count |-> 0]
NoOrder == [lt |-> FALSE, le |-> FALSE, ge |-> FALSE, gt |-> FALSE, eq |-> FALSE, ne |-> FALSE]
NoResult == [index |-> NotFound, reads |-> {}, parts |-> <<>>, buffer |-> EmptyBuffer(0),
             order |-> NoOrder, holds |-> FALSE, except |-> [view |-> <<>>, asserted |-> FALSE]]

Init == op = "idle" /\ input = NoInput /\ result = NoResult

Call(o, in, r) == op = "idle" /\ op' = o /\ input' = in /\ result' = r

FindString ==
  \E s \in Strings, d \in Substrings :
    Call("findString", [NoInput EXCEPT !.s = s, !.d = d],
         [NoResult EXCEPT !.index = StringFindString(s, 0, Len(s), d)])
FindLastString ==
  \E s \in Strings, d \in Substrings :
    Call("findLastString", [NoInput EXCEPT !.s = s, !.d = d],
         LET r == StringFindLastStringScan(s, 0, Len(s), d)
         IN [NoResult EXCEPT !.index = r.index, !.reads = r.reads])
\* stringFindAny, stringFindNotAny, stringFindLastAny, stringFindLastNotAny
FindAny ==
  \E s \in Strings, cs \in SUBSET Chars, want \in BOOLEAN :
    Call(IF want THEN "findAny" ELSE "findNotAny", [NoInput EXCEPT !.s = s, !.cs = cs],
         [NoResult EXCEPT !.index = StringFindAnyOf(s, 0, Len(s), cs, want)])
FindLastAny ==
  \E s \in Strings, cs \in SUBSET Chars, want \in BOOLEAN :
    Call(IF want THEN "findLastAny" ELSE "findLastNotAny", [NoInput EXCEPT !.s = s, !.cs = cs],
         LET r == StringFindLastAnyScan(s, 0, Len(s), cs, want)
         IN [NoResult EXCEPT !.index = r.index, !.reads = r.reads])
\* split(char) and split(StringView)
SplitCall ==
  \E s \in Strings, d \in Delimiters, byChar \in BOOLEAN :
    /\ byChar => Len(d) = 1
    /\ Call("split", [NoInput EXCEPT !.s = s, !.d = d],
            [NoResult EXCEPT !.parts = Split(s, d, byChar)])
SplitWithoutEmptyPartsCall ==
  \E s \in Strings, c \in Chars :
    Call("splitWithoutEmptyParts", [NoInput EXCEPT !.s = s, !.d = <<c>>],
         [NoResult EXCEPT !.parts = SplitWithoutEmptyParts(s, c)])
SplitOnAnyCall ==
  \E s \in Strings, cs \in SUBSET Chars :
    Call("splitOnAny", [NoInput EXCEPT !.s = s, !.cs = cs],
         [NoResult EXCEPT !.parts = SplitOnAnyWithoutEmptyParts(s, cs)])
\* partition(char) and partition(StringView); the separator may be empty
PartitionCall ==
  \E s \in Strings, d \in Substrings, byChar \in BOOLEAN :
    /\ byChar => Len(d) = 1
    /\ Call("partition", [NoInput EXCEPT !.s = s, !.d = d],
            [NoResult EXCEPT !.parts = Partition(s, d, byChar)])
PartitionLastCall ==
  \E s \in Strings, d \in Substrings, byChar \in BOOLEAN :
    /\ byChar => Len(d) = 1
    /\ Call("partitionLast", [NoInput EXCEPT !.s = s, !.d = d],
            [NoResult EXCEPT !.parts = PartitionLast(s, d, byChar)])
JoinCall ==
  \E d \in Substrings, strs \in JoinLists :
    Call("join", [NoInput EXCEPT !.d = d, !.strs = strs],
         [NoResult EXCEPT !.buffer = Join(d, strs)])
JoinWithoutEmptyPartsCall ==
  \E d \in Substrings, strs \in JoinLists :
    Call("joinWithoutEmptyParts", [NoInput EXCEPT !.d = d, !.strs = strs],
         [NoResult EXCEPT !.buffer = JoinWithoutEmptyParts(d, strs)])

\* operator+(a, b) and operator*(string, count)
ConcatCall ==
  \E a, b \in ShortStrings :
    Call("concat", [NoInput EXCEPT !.strs = <<a, b>>], [NoResult EXCEPT !.buffer = Concat(a, b)])
RepeatCall ==
  \E str \in Substrings, n \in 0..MaxParts :
    Call("repeat", [NoInput EXCEPT !.s = str, !.count = n], [NoResult EXCEPT !.buffer = Repeat(str, n)])
\* all six comparison operators on the same two views
CompareCall ==
  \E a, b \in ShortStrings :
    Call("compare", [NoInput EXCEPT !.s = a, !.d = b], [NoResult EXCEPT !.order = Compare(a, b)])
AffixCall ==
  \E str, p \in ShortStrings :
    LET in == [NoInput EXCEPT !.s = str, !.d = p] IN
    \/ Call("hasPrefix", in, [NoResult EXCEPT !.holds = HasPrefix(str, p)])
    \/ Call("hasSuffix", in, [NoResult EXCEPT !.holds = HasSuffix(str, p)])
    \/ Call("exceptPrefix", in, [NoResult EXCEPT !.except = ExceptPrefix(str, p)])
    \/ Call("exceptSuffix", in, [NoResult EXCEPT !.except = ExceptSuffix(str, p)])
AffixCharCall ==
  \E str \in ShortStrings, c \in Chars :
    LET in == [NoInput EXCEPT !.s = str, !.d = <<c>>] IN
    \/ Call("hasPrefix", in, [NoResult EXCEPT !.holds = HasPrefixChar(str, c)])
    \/ Call("hasSuffix", in, [NoResult EXCEPT !.holds = HasSuffixChar(str, c)])

Next == \/ FindString \/ FindLastString \/ FindAny \/ FindLastAny
        \/ SplitCall \/ SplitWithoutEmptyPartsCall \/ SplitOnAnyCall
        \/ PartitionCall \/ PartitionLastCall
        \/ JoinCall \/ JoinWithoutEmptyPartsCall \/ ConcatCall \/ RepeatCall
        \/ CompareCall \/ AffixCall \/ AffixCharCall

Spec == Init /\ [][Next]_vars

-----------------------------------------------------------------------------
(* Reference definitions and properties                                    *)

\* The parts of s between greedy leftmost occurrences of any delimiter of
\* D, scanning from the front: an independent recursive formulation.
RECURSIVE Pieces(_, _)
Pieces(s, D) ==
  IF s = <<>> THEN <<<<>>>>
  ELSE IF \E d \in D : IsPrefix(d, s)
  THEN LET d == CHOOSE d \in D : IsPrefix(d, s)
       IN <<<<>>>> \o Pieces(SubSeq(s, Len(d) + 1, Len(s)), D)
  ELSE LET r == Pieces(Tail(s), D) IN [r EXCEPT ![1] = <<Head(s)>> \o @]

\* Lexicographic order of byte sequences, a proper prefix first.
RECURSIVE LexLess(_, _)
LexLess(a, b) ==
  IF a = <<>> THEN b # <<>>
  ELSE IF b = <<>> THEN FALSE
  ELSE IF Head(a) # Head(b) THEN Head(a) < Head(b)
  ELSE LexLess(Tail(a), Tail(b))

RECURSIVE RefJoin(_, _)
RefJoin(d, strs) ==
  IF Len(strs) <= 1 THEN FlattenSeq(strs)
  ELSE strs[1] \o d \o RefJoin(d, Tail(strs))

Occurs(s, d, i) == i + Len(d) <= Len(s) /\ Slice(s, i, i + Len(d)) = d
Occurrences(s, d) == {i \in 0..Len(s) : Occurs(s, d, i)}
AnyAt(s, cs, want) == {i \in 0..(Len(s) - 1) : (s[i + 1] \in cs) = want}
FirstOf(S) == IF S = {} THEN NotFound ELSE CHOOSE i \in S : \A j \in S : i <= j
LastOf(S) == IF S = {} THEN NotFound ELSE CHOOSE i \in S : \A j \in S : i >= j

Ops == {"idle", "findString", "findLastString", "findAny", "findNotAny", "findLastAny",
        "findLastNotAny", "split", "splitWithoutEmptyParts", "splitOnAny",
        "partition", "partitionLast", "join", "joinWithoutEmptyParts", "concat",
        "repeat", "compare", "hasPrefix", "hasSuffix", "exceptPrefix", "exceptSuffix"}

\* The results have their types, and join() never calls memcpy() with a
\* size of zero (the source of an empty view may be null).
TypeOK ==
  /\ op \in Ops
  /\ result.index \in {NotFound} \cup 0..MaxLen
  /\ result.reads \subseteq -1..MaxLen
  /\ result.parts \in Seq(Seq(Chars))
  /\ result.buffer.out \in Nat
  /\ \A k \in DOMAIN result.buffer.writes : result.buffer.writes[k].len > 0

\* The backward searches count their pointer down to data - 1 when
\* nothing matches; every byte they read (memcmp() in
\* stringFindLastString(), *(i - 1) in stringFindLast(Not)Any()) is still
\* a byte of the view, from its first to its last.
LastSearchesReadWithinView ==
  op \in {"findLastString", "findLastAny", "findLastNotAny"} =>
    result.reads \subseteq 0..(Len(input.s) - 1)

\* Every search returns the first (last) offset at which the substring
\* occurs or the byte is (is not) one of the characters, or null.
SearchMatchesReference ==
  LET s == input.s IN
  /\ op = "findString" => result.index = FirstOf(Occurrences(s, input.d))
  /\ op = "findLastString" => result.index = LastOf(Occurrences(s, input.d))
  /\ op = "findAny" => result.index = FirstOf(AnyAt(s, input.cs, TRUE))
  /\ op = "findNotAny" => result.index = FirstOf(AnyAt(s, input.cs, FALSE))
  /\ op = "findLastAny" => result.index = LastOf(AnyAt(s, input.cs, TRUE))
  /\ op = "findLastNotAny" => result.index = LastOf(AnyAt(s, input.cs, FALSE))

\* split() gives the pieces between leftmost non-overlapping delimiters,
\* none for an empty view; the WithoutEmptyParts variants give the
\* non-empty ones of those, splitting on any one of the characters.
SplitMatchesReference ==
  LET s == input.s
      Ref(D) == IF s = <<>> THEN <<>> ELSE Pieces(s, D)
  IN /\ op = "split" => result.parts = Ref({input.d})
     /\ op = "splitWithoutEmptyParts" => result.parts = NonEmpty(Ref({input.d}))
     /\ op = "splitOnAny" => result.parts = NonEmpty(Ref({<<c>> : c \in input.cs}))

\* partition() cuts at the first occurrence of the separator and
\* partitionLast() at the last one; without an occurrence the whole view
\* is the first (partition) or the last (partitionLast) part.
PartitionAtOccurrence ==
  LET s == input.s
      d == input.d
      p == result.parts
  IN op \in {"partition", "partitionLast"} =>
       /\ Len(p) = 3 /\ p[1] \o p[2] \o p[3] = s
       /\ p[2] \in {d, <<>>}
       /\ Occurrences(s, d) = {} <=> (p[2] # d)
       /\ op = "partition" =>
            /\ Occurrences(s, d) # {} => Len(p[1]) = FirstOf(Occurrences(s, d))
            /\ Occurrences(s, d) = {} => p[1] = s
       /\ op = "partitionLast" =>
            /\ Occurrences(s, d) # {} => Len(p[1]) = LastOf(Occurrences(s, d))
            /\ Occurrences(s, d) = {} => p[3] = s

\* join(), joinWithoutEmptyParts(), operator+ and operator* fill exactly
\* the String they allocated with NoInit: no memcpy() writes past the
\* precomputed size and every byte is written (join()'s internal
\* assertion out == end).  The text is the strings with the delimiter
\* between each two (joinWithoutEmptyParts(): between each two non-empty
\* ones), the two views one after the other, or count copies of the view.
JoinFillsBuffer ==
  LET b == result.buffer IN
  op \in {"join", "joinWithoutEmptyParts", "concat", "repeat"} =>
    /\ \A k \in DOMAIN b.writes : b.writes[k].at + b.writes[k].len <= b.total
    /\ b.out = b.total

JoinMatchesReference ==
  /\ op = "join" => result.buffer.text = RefJoin(input.d, input.strs)
  /\ op = "concat" => result.buffer.text = input.strs[1] \o input.strs[2]
  /\ op = "repeat" => result.buffer.text = FlattenSeq([i \in 1..input.count |-> input.s])
  /\ op = "joinWithoutEmptyParts" =>
       result.buffer.text = RefJoin(input.d, NonEmpty(input.strs))

\* The six comparison operators agree with one lexicographic order of
\* the bytes: a view is less than another when it is smaller at the first
\* byte they differ or is a proper prefix of it, and <=, >=, >, ==, != are
\* its complement, converse and equality.  Each operator decides the
\* equal-prefix case with its own size test, so each can be wrong alone.
ComparisonsMatchLexicographicOrder ==
  LET a == input.s
      b == input.d
  IN op = "compare" =>
       result.order = [lt |-> LexLess(a, b), le |-> ~LexLess(b, a),
                       ge |-> ~LexLess(a, b), gt |-> LexLess(b, a),
                       eq |-> a = b, ne |-> a # b]

\* hasPrefix() and hasSuffix() of a view or a byte hold exactly when it is
\* a prefix (suffix) of the view, the empty view and a view equal to the
\* whole string included; exceptPrefix() and exceptSuffix() assert exactly
\* when it is not, and otherwise return the rest of the view.
AffixesMatchReference ==
  LET str == input.s
      p == input.d
      e == result.except
  IN /\ op = "hasPrefix" => result.holds = IsPrefix(p, str)
     /\ op = "hasSuffix" => result.holds = IsSuffix(p, str)
     /\ op = "exceptPrefix" => (e.asserted <=> ~IsPrefix(p, str)) /\ (~e.asserted => p \o e.view = str)
     /\ op = "exceptSuffix" => (e.asserted <=> ~IsSuffix(p, str)) /\ (~e.asserted => e.view \o p = str)

=============================================================================
