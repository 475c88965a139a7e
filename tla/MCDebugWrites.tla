--------------------------- MODULE MCDebugWrites ---------------------------
(* Model-checking instance of what Debug instances do to the terminal and  *)
(* to their stream.  One behaviour either nests instances (DebugOutput:    *)
(* globals, colours) or follows the calls of one instance (DebugFormat:    *)
(* the text it writes); part records which.  The two never run in the     *)
(* same behaviour, so the states are the sum of the two models, not their *)
(* product.                                                                *)
EXTENDS MCDebugOutput

CONSTANTS FormatFlagChoices, MaxCalls

VARIABLES part, construction, debug, ref, fresh, calls, live

Fmt == INSTANCE DebugFormat

\* Flags passed to the single-instance constructor and setters.
MCFormatChoices ==
  {{}, {"NoSpace"}, {"Hex"}, {"Color"}, {"DisableColors"},
   {"NoNewlineAtTheEnd"}}

\* The single instance of DebugFormat while the nested instances run: a
\* Debug{nullptr} already destroyed, which wrote nothing.
FormatIdle ==
  LET c == [out |-> Null, fl |-> {}, loc |-> FALSE, precision |-> "default"]
  IN /\ construction = c
     /\ debug = Fmt!Construct(c.out, c.fl, c.loc, c.precision)
     /\ ref = debug
     /\ fresh = debug
     /\ calls = 0
     /\ live = FALSE

allVars == <<part, vars, construction, debug, ref, fresh, calls, live>>

WritesInit ==
  \/ part = "instances" /\ Init /\ FormatIdle
  \/ part = "format" /\ Init /\ Fmt!FormatInit

WritesNext ==
  \/ /\ part = "instances" /\ Next
     /\ UNCHANGED <<part, construction, debug, ref, fresh, calls, live>>
  \/ part = "format" /\ Fmt!FormatNext /\ UNCHANGED <<part, vars>>

WritesSpec == WritesInit /\ [][WritesNext]_allVars

\* The type invariant of DebugFormat, and part names one of the two models.
FormatTypeOK == part \in {"instances", "format"} /\ Fmt!FormatTypeOK

\* A destroyed instance that wrote something ends its text with exactly one
\* newline unless NoNewlineAtTheEnd (cleanupOnDestruction()).
NewlineEndsWrittenText == Fmt!NewlineEndsWrittenText

\* operator<<(unsigned char) under Flag::Color writes one escape sequence
\* that reads as one value, with no space inside it and the flags restored.
ShadeIsOneValue == Fmt!ShadeIsOneValue

\* print() writes an integer in hex exactly after "0x" and puts std::dec back.
HexOnlyWhereMarked == Fmt!HexOnlyWhereMarked

\* A pending source location is written once, first, with ": " before a value.
SourceLocationLeads == Fmt!SourceLocationLeads

\* The float overloads' std::setprecision() makes the text independent of
\* the precision the stream had before.
OutputIndependentOfStreamPrecision == Fmt!OutputIndependentOfStreamPrecision
=============================================================================
