---------------------------- MODULE DebugFormat ----------------------------
(***************************************************************************)
(* What one Utility::Debug instance writes to its stream                   *)
(* (src/src/Corrade/Utility/Debug.cpp): value separators, the hexadecimal  *)
(* prefix, the pending source location, the grey-shade escape sequence of *)
(* operator<<(unsigned char), the precision set for floating-point values  *)
(* and the newline written on destruction.                                 *)
(*                                                                         *)
(* What an instance writes is a deterministic function of its constructor  *)
(* arguments, the state its stream is in and the calls made on it, so an   *)
(* instance is a record, each member function an operator from record to   *)
(* record, and a lifetime the fold of its calls.  The text is a sequence   *)
(* of tokens: the characters of one value are one token, which for an      *)
(* integer records the base and for a floating-point value the precision   *)
(* it was rendered with.  Colour modifiers are the subject of DebugOutput  *)
(* and not among the calls here, so resetColorInternal() never writes.     *)
(* The stream's std::ios basefield and precision are carried in the record *)
(* because Debug changes them and its later writes read them.             *)
(***************************************************************************)
EXTENDS Naturals, Sequences, SequencesExt

CONSTANTS
  Cout,              \* a stream the instance may write to
  Null,              \* a null DebugStream: output disabled
  FormatFlagChoices, \* sets of Debug::Flag passed to constructor and setters
  MaxCalls           \* bound on the number of calls in one lifetime

\* The public Debug::Flag values, and the internal flag that records that
\* something was written (above PublicFlagMask, kept by setFlags()).
PublicFlags == {"NoNewlineAtTheEnd", "DisableColors", "NoSpace", "Color", "Hex"}
InternalFlags == {"ValueWritten"}

ASSUME FormatFlagChoices \subseteq SUBSET PublicFlags /\ MaxCalls \in Nat

Tok(k) == [k |-> k, d |-> "none"]
\* The characters of a value: for an integer d is the base it was
\* rendered in, for a floating-point value the stream precision.
Value(k, d) == [k |-> k, d |-> d]

\* Debug::Debug(output, flags) starts _immediateFlags as NoSpace, so the
\* first value gets no leading space.  `loc` is the DebugSourceLocation
\* wrapper of operator!, which records a pending file:line.  `precision` is
\* what earlier writes left the stream with; its basefield is decimal.
Construct(out, fl, loc, precision) ==
  [output |-> out, flags |-> fl, immediateFlags |-> {"NoSpace"},
   sourceLocation |-> loc, aborted |-> FALSE, text |-> <<>>,
   base |-> "dec", precision |-> precision]

\* Debug::flags() and Debug::immediateFlags().
Flags(d) == d.flags \cap PublicFlags
ImmediateFlags(d) == (d.immediateFlags \cup d.flags) \cap PublicFlags

\* Mutant: setFlags() assigns _flags outright, dropping ValueWritten.
SetFlagsDroppingInternal(d, fl) == [d EXCEPT !.flags = fl]

\* Debug::setFlags() keeps the internal flags; setImmediateFlags()
\* replaces _immediateFlags.
SetFlags(d, fl) == [d EXCEPT !.flags = fl \cup (@ \cap InternalFlags)]

\* Mutant: setImmediateFlags() keeps the internal flags as setFlags() does.
SetImmediateFlagsKeepingInternal(d, fl) ==
  [d EXCEPT !.immediateFlags = fl \cup (d.flags \cap InternalFlags)]

SetImmediateFlags(d, fl) == [d EXCEPT !.immediateFlags = fl]

Write(d, toks) == [d EXCEPT !.text = @ \o toks]

\* Mutant: _sourceLocationFile is not reset after the location is printed.
PrintSourceLocationKeepingPending(d) ==
  IF d.sourceLocation THEN Write(d, <<Tok("loc"), Tok(": ")>>) ELSE d

\* The "file:line: " prefix print() writes before the first value; the
\* CORRADE_INTERNAL_ASSERT that NoSpace is still set aborts the program.
PrintSourceLocation(d) ==
  CASE ~d.sourceLocation -> d
    [] "NoSpace" \notin d.immediateFlags -> [d EXCEPT !.aborted = TRUE]
    [] OTHER -> [Write(d, <<Tok("loc"), Tok(": ")>>) EXCEPT !.sourceLocation = FALSE]

\* Mutant: std::dec is written only if Hex is still set after
\* _immediateFlags was cleared, so only a Hex in _flags puts it back.
ResetBaseAfterClear(d, hex) ==
  IF hex /\ "Hex" \in d.flags THEN [d EXCEPT !.base = "dec"] ELSE d

\* `*ostream << std::dec` after an integral value printed under Hex.
ResetBase(d, hex) == IF hex THEN [d EXCEPT !.base = "dec"] ELSE d

\* The rest of print(): a space unless NoSpace is in either flag set; "0x"
\* and std::hex on the stream for an integral value under Hex; the value
\* in the stream's base; std::dec back; _immediateFlags cleared and
\* ValueWritten set.
WriteValue(d, k, integral) ==
  LET eff == d.immediateFlags \cup d.flags
      hex == "Hex" \in eff /\ integral
      s   == [d EXCEPT !.base = IF hex THEN "hex" ELSE @]
      val == CASE integral   -> Value(k, s.base)
               [] k = "float" -> Value(k, d.precision)
               [] OTHER       -> Tok(k)
      out == Write(s, (IF "NoSpace" \in eff THEN <<>> ELSE <<Tok(" ")>>)
                      \o (IF hex THEN <<Tok("0x")>> ELSE <<>>) \o <<val>>)
  IN  [ResetBase(out, hex) EXCEPT !.immediateFlags = {},
                                  !.flags = @ \cup {"ValueWritten"}]

\* Debug::print(): nothing without an output (or once the program has
\* aborted); otherwise the pending location, then the value.  `k` is the
\* kind of value: "int" for the integral overloads (int, long, unsigned,
\* char through int, ...), "float" for the floating-point ones, else the
\* characters of a string, bool, nullptr or escape-sequence piece.
PrintValue(d, k, integral) ==
  IF d.output = Null \/ d.aborted THEN d
  ELSE LET l == PrintSourceLocation(d)
       IN  IF l.aborted THEN l ELSE WriteValue(l, k, integral)

\* Mutant: operator<<(float) prints without std::setprecision().
PrintFloatKeepingPrecision(d, type) ==
  IF d.output = Null \/ d.aborted THEN d ELSE PrintValue(d, "float", FALSE)

\* operator<<(float), (double), (long double): nothing without an output;
\* std::setprecision() with the type's digits on the stream, then print().
PrintFloat(d, type) ==
  IF d.output = Null \/ d.aborted THEN d
  ELSE PrintValue([d EXCEPT !.precision = type], "float", FALSE)

\* What operator<<(unsigned char) prints after "ESC[38;2;" with NoSpace:
\* v;v;v for the foreground, v;v;v for the background, the shade and the
\* reset.  Each v is an int, each piece of text a const char*.
ShadeSequence ==
  << <<"int", TRUE>>, <<";", FALSE>>, <<"int", TRUE>>, <<";", FALSE>>,
     <<"int", TRUE>>, <<"mESC[48;2;", FALSE>>,
     <<"int", TRUE>>, <<";", FALSE>>, <<"int", TRUE>>, <<";", FALSE>>,
     <<"int", TRUE>>, <<"m", FALSE>>, <<"shade", FALSE>>, <<"ESC[0m", FALSE>> >>

PrintAll(d, seq) == FoldLeft(LAMBDA e, p : PrintValue(e, p[1], p[2]), d, seq)

\* Mutant: the original flags are not put back after the shade.
PrintUnsignedCharKeepingNoSpace(d) ==
  CASE "Color" \notin ImmediateFlags(d) -> PrintValue(d, "int", TRUE)
    [] "DisableColors" \in ImmediateFlags(d) -> PrintValue(d, "shade", FALSE)
    [] OTHER ->
         LET first == PrintValue(d, "ESC[38;2;", FALSE)
         IN  PrintAll(SetFlags(first, Flags(first) \cup {"NoSpace"}), ShadeSequence)

\* Debug::operator<<(unsigned char): the numeric value without
\* Flag::Color; the shade characters alone with DisableColors; otherwise
\* the escape sequence, printed with NoSpace added to the flags, which are
\* then put back as flags() returned them.
PrintUnsignedChar(d) ==
  CASE "Color" \notin ImmediateFlags(d) -> PrintValue(d, "int", TRUE)
    [] "DisableColors" \in ImmediateFlags(d) -> PrintValue(d, "shade", FALSE)
    [] OTHER ->
         LET first == PrintValue(d, "ESC[38;2;", FALSE)
             previousFlags == Flags(first)
         IN  SetFlags(PrintAll(SetFlags(first, previousFlags \cup {"NoSpace"}),
                               ShadeSequence), previousFlags)

\* Debug::cleanupOnDestruction(): a location never followed by a value is
\* printed alone and counts as written; then a newline if anything was
\* written and NoNewlineAtTheEnd is not in _flags.
CleanupOnDestruction(d) ==
  LET l == CASE d.output = Null \/ d.aborted \/ ~d.sourceLocation -> d
             [] "NoSpace" \notin d.immediateFlags -> [d EXCEPT !.aborted = TRUE]
             [] OTHER -> [Write(d, <<Tok("loc")>>) EXCEPT !.flags = @ \cup {"ValueWritten"}]
  IN  IF /\ l.output # Null /\ ~l.aborted /\ "ValueWritten" \in l.flags
         /\ "NoNewlineAtTheEnd" \notin l.flags
      THEN Write(l, <<Tok("newline")>>) ELSE l

-----------------------------------------------------------------------------
(* One instance's lifetime: the construction, up to MaxCalls calls, the    *)
(* destructor.  Two twins of the instance take the same calls: `ref`       *)
(* draws each grey shade as one value, and `fresh` was constructed on a    *)
(* stream with the default precision.  They exist for the properties.      *)

VARIABLES
  construction, \* the constructor's arguments
  debug,        \* the instance
  ref,          \* the same calls with every shade drawn as one value
  fresh,        \* the same calls on a stream with the default precision
  calls,        \* calls made so far
  live          \* the destructor has not run yet

formatVars == <<construction, debug, ref, fresh, calls, live>>

Constructions ==
  [out : {Cout, Null}, fl : FormatFlagChoices, loc : BOOLEAN,
   precision : {"default", "double"}]

Calls ==
  {[op |-> o, fl |-> {}] : o \in {"string", "int", "float", "double", "uchar"}}
  \cup [op : {"setFlags", "setImmediateFlags"}, fl : FormatFlagChoices]

Apply(d, c) ==
  CASE c.op = "string" -> PrintValue(d, "string", FALSE)
    [] c.op = "int"    -> PrintValue(d, "int", TRUE)
    [] c.op \in {"float", "double"} -> PrintFloat(d, c.op)
    [] c.op = "uchar"  -> PrintUnsignedChar(d)
    [] c.op = "setFlags" -> SetFlags(d, c.fl)
    [] c.op = "setImmediateFlags" -> SetImmediateFlags(d, c.fl)

\* Operator<<(unsigned char) as the single value it draws: the reference
\* the escape sequence is compared with.
RefApply(d, c) ==
  IF c.op = "uchar" /\ "Color" \in ImmediateFlags(d)
  THEN PrintValue(d, "shade", FALSE) ELSE Apply(d, c)

FormatInit ==
  \E c \in Constructions :
    /\ construction = c
    /\ debug = Construct(c.out, c.fl, c.loc, c.precision)
    /\ ref = debug
    /\ fresh = Construct(c.out, c.fl, c.loc, "default")
    /\ calls = 0
    /\ live = TRUE

Call(c) ==
  /\ live /\ calls < MaxCalls
  /\ debug' = Apply(debug, c)
  /\ ref' = RefApply(ref, c)
  /\ fresh' = Apply(fresh, c)
  /\ calls' = calls + 1
  /\ UNCHANGED <<construction, live>>

\* Debug::operator<< of a string, bool, nullptr or char32_t: print().
PrintString == Call([op |-> "string", fl |-> {}])
\* The integral overloads of operator<<: print().
PrintInt == Call([op |-> "int", fl |-> {}])
\* operator<<(float) and operator<<(double).
PrintFloatingPoint == \E type \in {"float", "double"} : Call([op |-> type, fl |-> {}])
\* operator<<(unsigned char).
PrintShade == Call([op |-> "uchar", fl |-> {}])
\* setFlags() and setImmediateFlags().
SetFlagsCall == \E fl \in FormatFlagChoices : Call([op |-> "setFlags", fl |-> fl])
SetImmediateFlagsCall ==
  \E fl \in FormatFlagChoices : Call([op |-> "setImmediateFlags", fl |-> fl])

\* ~Debug(): cleanupOnDestruction().
Destruct ==
  /\ live
  /\ debug' = CleanupOnDestruction(debug)
  /\ ref' = CleanupOnDestruction(ref)
  /\ fresh' = CleanupOnDestruction(fresh)
  /\ live' = FALSE
  /\ UNCHANGED <<construction, calls>>

FormatNext ==
  \/ PrintString \/ PrintInt \/ PrintFloatingPoint \/ PrintShade
  \/ SetFlagsCall \/ SetImmediateFlagsCall \/ Destruct

FormatSpec == FormatInit /\ [][FormatNext]_formatVars

\* The type invariant: the instance, its reference copy and its
\* default-precision copy hold flags of the right kinds and a stream base.
FormatTypeOK ==
  /\ construction \in Constructions
  /\ calls \in 0..MaxCalls
  /\ live \in BOOLEAN
  /\ \A e \in {debug, ref, fresh} :
       /\ e.flags \subseteq PublicFlags \cup InternalFlags
       /\ e.immediateFlags \subseteq PublicFlags
       /\ e.base \in {"dec", "hex"}
       /\ e.precision \in {"default", "float", "double"}

\* The text with every escape sequence, from its "ESC[38;2;" to its
\* "ESC[0m", replaced by the one shade token.
RECURSIVE Collapse(_)
Collapse(t) ==
  IF t = <<>> THEN <<>>
  ELSE IF Head(t) = Tok("ESC[38;2;")
       THEN LET r == SelectInSeq(t, LAMBDA x : x = Tok("ESC[0m"))
            IN  <<Tok("shade")>> \o (IF r = 0 THEN <<>> ELSE Collapse(SubSeq(t, r + 1, Len(t))))
       ELSE <<Head(t)>> \o Collapse(Tail(t))

InsideShade(t, i) ==
  \E j \in 1..(i - 1) : t[j] = Tok("ESC[38;2;")
                        /\ \A m \in (j + 1)..(i - 1) : t[m] # Tok("ESC[0m")

IsValue(x) == x \notin {Tok(" "), Tok("0x"), Tok("loc"), Tok(": "), Tok("newline")}

-----------------------------------------------------------------------------
(* Properties.                                                             *)

\* The destructor ends the text with exactly one newline, and only there,
\* precisely when something was written (a value, a shade or a lone source
\* location) and NoNewlineAtTheEnd is not set in _flags at that point:
\* ValueWritten must survive every setFlags() and be set on every path
\* that writes.
NewlineEndsWrittenText ==
  ~live =>
    LET e == debug
        t == e.text
        ends == t # <<>> /\ Last(t) = Tok("newline")
        body == IF ends THEN Front(t) ELSE t
    IN  ~e.aborted =>
          /\ \A i \in DOMAIN body : body[i] # Tok("newline")
          /\ ends <=> (body # <<>> /\ "NoNewlineAtTheEnd" \notin Flags(e))

\* The grey shade of operator<<(unsigned char) behaves as one value: its
\* escape sequence contains no separator, and with each sequence collapsed
\* the text and the final flags are those of printing one shade value, so
\* the NoSpace it adds for the sequence never leaks into later values.
ShadeIsOneValue ==
    LET e == debug
        r == ref
    IN  ~e.aborted =>
          /\ Collapse(e.text) = r.text
          /\ e.flags = r.flags
          /\ \A i \in DOMAIN e.text : e.text[i] = Tok(" ") => ~InsideShade(e.text, i)

\* Hex applies to exactly the integral values printed while it is set: an
\* integer is rendered in base 16 exactly when "0x" precedes it, "0x" only
\* precedes integers, and the stream is back to decimal when the instance
\* is destroyed, so a one-value Debug::hex never leaks into later values.
HexOnlyWhereMarked ==
    LET e == debug
        t == e.text
    IN  /\ e.base = "dec"
        /\ \A i \in DOMAIN t :
             /\ t[i].k = "int" => (t[i].d = "hex" <=> i > 1 /\ t[i - 1] = Tok("0x"))
             /\ t[i] = Tok("0x") => i < Len(t) /\ t[i + 1].k = "int"

\* A pending source location is written exactly once, first, and followed
\* by ": " exactly when a value follows it.
SourceLocationLeads ==
    LET e == debug
        t == e.text
    IN  ~live /\ construction.loc /\ construction.out # Null /\ ~e.aborted =>
          /\ t[1] = Tok("loc")
          /\ \A i \in 2..Len(t) : t[i] # Tok("loc")
          /\ (Len(t) > 1 /\ t[2] = Tok(": ")) <=> \E i \in DOMAIN t : IsValue(t[i])

\* What an instance writes does not depend on the precision an earlier
\* write left on the stream: every floating-point value is rendered with
\* its own type's precision.
OutputIndependentOfStreamPrecision == debug.text = fresh.text
====
