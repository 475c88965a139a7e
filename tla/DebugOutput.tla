---------------------------- MODULE DebugOutput ----------------------------
(***************************************************************************)
(* Scoped output redirection and colour state of Utility::Debug, Warning,  *)
(* Error and Fatal (src/src/Corrade/Utility/Debug.cpp).                    *)
(*                                                                         *)
(* Every Debug-derived instance saves the global (per-thread) output of    *)
(* its kind and the global colour when it is constructed, installs its own *)
(* output, and puts both back when it is destroyed.  C++ scoping destroys  *)
(* instances in reverse order of construction, so the live instances form  *)
(* a stack.  What a stream shows is abstracted to the colour attributes    *)
(* the last escape sequence written to it selected; the text itself,      *)
(* spacing, hexadecimal formatting and newlines are left out.  Streams     *)
(* attached to the terminal (Debug::isTty()) share one display.            *)
(***************************************************************************)
EXTENDS Naturals, Sequences, FiniteSets, SequencesExt

CONSTANTS
  Streams,      \* std::ostream objects instances may write to
  Cout, Cerr,   \* std::cout and std::cerr, members of Streams
  Null,         \* a null DebugStream: output disabled
  Terminal,     \* the streams for which Debug::isTty() holds
  Colors,       \* the Debug::Color values used
  Default,      \* Debug::Color::Default
  FlagChoices,  \* sets of public Debug::Flag a caller may pass
  CallerOps,    \* the operations callers apply to live instances
  ConstructKinds, \* the classes callers construct instances of
  MaxDepth,     \* bound on the number of simultaneously live instances
  InnermostOnly, \* callers only use the innermost live instance
  NestedDestruction \* instances die in reverse order of construction

\* The operations on a live instance, as names for CallerOps, and
\* "assert" for an assertion message.
Ops == {"color", "resetColor", "print", "shade", "setFlags",
        "setImmediateFlags", "sourceLocation", "assert"}

\* The classes of Debug.cpp sharing the instance state.
Kinds == {"Debug", "Warning", "Error", "Fatal"}

ASSUME /\ {Cout, Cerr} \subseteq Streams /\ Null \notin Streams
       /\ Terminal \subseteq Streams /\ Default \in Colors
       /\ CallerOps \subseteq Ops /\ ConstructKinds \subseteq Kinds
       /\ MaxDepth \in Nat \ {0} /\ InnermostOnly \in BOOLEAN
       /\ NestedDestruction \in BOOLEAN

\* The public flags the model distinguishes, and the one internal flag of
\* Debug::InternalFlag (above PublicFlagMask) that decides anything but
\* the trailing newline, which is not modelled.
PublicFlags == {"DisableColors", "NoSpace", "Color"}
InternalFlags == {"ColorWritten"}
ASSUME FlagChoices \subseteq SUBSET PublicFlags

\* The constructors without an explicit stream use the current global one.
Inherit == "inherit"

\* All streams attached to the terminal end up on the same display.
Sink(s) == IF s \in Terminal THEN "tty" ELSE s
Sinks == {Sink(s) : s \in Streams}

ColorState == [color : Colors, bold : BOOLEAN, inverted : BOOLEAN]
Plain(c) == [color |-> c, bold |-> FALSE, inverted |-> FALSE]

VARIABLES
  debugGlobals, \* struct DebugGlobals: current outputs and colour
  stack,        \* live instances, innermost last
  shown,        \* colour attributes each sink currently displays
  exited        \* std::exit() was called from ~Fatal()

vars == <<debugGlobals, stack, shown, exited>>

Instance == [kind : Kinds, output : Streams \cup {Null},
             flags : SUBSET (PublicFlags \cup InternalFlags),
             immediateFlags : SUBSET PublicFlags,
             previousGlobalOutput : Streams \cup {Null},
             previousKindOutput : Streams \cup {Null},
             previousColor : ColorState,
             sourceLocation : BOOLEAN]

\* The global a kind redirects: Warning has warningOutput, Error and its
\* subclass Fatal have errorOutput, Debug itself has output.
KindGlobal(kind) ==
  CASE kind = "Debug"   -> "output"
    [] kind = "Warning" -> "warningOutput"
    [] OTHER            -> "errorOutput"

-----------------------------------------------------------------------------
(* Initial state: the initializer of debugGlobals.                         *)

Init ==
  /\ debugGlobals = [output |-> Cout, warningOutput |-> Cerr,
                     errorOutput |-> Cerr, color |-> Plain(Default)]
  /\ stack = <<>>
  /\ shown = [k \in Sinks |-> Plain(Default)]
  /\ exited = FALSE

-----------------------------------------------------------------------------
(* Construction.  Debug(output, flags) saves and replaces the global       *)
(* output and saves the global colour; Warning and Error first run         *)
(* Debug(flags), which re-installs the current global output, and then     *)
(* save and replace their own global.  The flags-only constructors pass    *)
(* the current global of the kind.  _immediateFlags starts as NoSpace.     *)
(* With loc, the temporary is wrapped by operator! in a                    *)
(* DebugSourceLocation, which records a pending source location before    *)
(* anything else happens to it.                                            *)

\* Mutant: the flags-only constructors store their marker instead of
\* reading the current global output.
ConstructWithoutInherit(kind, out, fl, loc) ==
  LET g == KindGlobal(kind)
  IN
  /\ ~exited
  /\ Len(stack) < MaxDepth
  /\ loc => "sourceLocation" \in CallerOps
  /\ stack' = Append(stack,
        [kind |-> kind, output |-> out, flags |-> fl,
         immediateFlags |-> {"NoSpace"},
         previousGlobalOutput |-> debugGlobals.output,
         previousKindOutput |-> debugGlobals[g],
         previousColor |-> debugGlobals.color,
         sourceLocation |-> loc])
  /\ debugGlobals' = [debugGlobals EXCEPT ![g] = out]
  /\ UNCHANGED <<shown, exited>>

\* Mutant: the saved output is taken after the global was replaced.
ConstructSavingAfterAssign(kind, out, fl, loc) ==
  LET g      == KindGlobal(kind)
      target == IF out = Inherit THEN debugGlobals[g] ELSE out
  IN
  /\ ~exited
  /\ Len(stack) < MaxDepth
  /\ loc => "sourceLocation" \in CallerOps
  /\ stack' = Append(stack,
        [kind |-> kind, output |-> target, flags |-> fl,
         immediateFlags |-> {"NoSpace"},
         previousGlobalOutput |-> debugGlobals.output,
         previousKindOutput |-> target,
         previousColor |-> debugGlobals.color,
         sourceLocation |-> loc])
  /\ debugGlobals' = [debugGlobals EXCEPT ![g] = target]
  /\ UNCHANGED <<shown, exited>>

Construct(kind, out, fl, loc) ==
  LET g      == KindGlobal(kind)
      target == IF out = Inherit THEN debugGlobals[g] ELSE out
  IN
  /\ ~exited
  /\ Len(stack) < MaxDepth
  /\ loc => "sourceLocation" \in CallerOps
  /\ stack' = Append(stack,
        [kind |-> kind, output |-> target, flags |-> fl,
         immediateFlags |-> {"NoSpace"},
         previousGlobalOutput |-> debugGlobals.output,
         previousKindOutput |-> debugGlobals[g],
         previousColor |-> debugGlobals.color,
         sourceLocation |-> loc])
  /\ debugGlobals' = [debugGlobals EXCEPT ![g] = target]
  /\ UNCHANGED <<shown, exited>>

\* Implementation::errorOutputForAssert() (Assert.cpp): the temporary an
\* assertion message is printed to, Error{Error::defaultOutput()}, on
\* std::cerr whatever errorOutput is redirected to.
ErrorOutputForAssert ==
  /\ "assert" \in CallerOps
  /\ Construct("Error", Cerr, {}, FALSE)

-----------------------------------------------------------------------------
(* Colour.  colorInternal() / invertedColorInternal() return early         *)
(* without an output or with DisableColors in _flags; otherwise they mark  *)
(* the instance, write the escape sequence and record the colour           *)
(* globally.  resetColorInternal() returns early unless a colour was       *)
(* written, and otherwise writes and records the colour saved at           *)
(* construction.                                                           *)

\* Mutant: the modifier does not set ColorWritten.
ColorModifierWithoutMark(i, st) ==
  /\ IF stack[i].output = Null \/ "DisableColors" \in stack[i].flags
     THEN UNCHANGED <<stack, debugGlobals, shown>>
     ELSE /\ UNCHANGED stack
          /\ debugGlobals' = [debugGlobals EXCEPT !.color = st]
          /\ shown' = [shown EXCEPT ![Sink(stack[i].output)] = st]
  /\ UNCHANGED exited

ColorModifier(i, st) ==
  /\ IF stack[i].output = Null \/ "DisableColors" \in stack[i].flags
     THEN UNCHANGED <<stack, debugGlobals, shown>>
     ELSE /\ stack' = [stack EXCEPT ![i].flags = @ \cup {"ColorWritten"}]
          /\ debugGlobals' = [debugGlobals EXCEPT !.color = st]
          /\ shown' = [shown EXCEPT ![Sink(stack[i].output)] = st]
  /\ UNCHANGED exited

\* Debug::color(c) and Debug::boldColor(c)
Color(i, c, bold) == ColorModifier(i, [color |-> c, bold |-> bold, inverted |-> FALSE])

\* Mutant: colorBold is left as it was.
InvertedColorKeepingBold(i, c) ==
  ColorModifier(i, [color |-> c, bold |-> debugGlobals.color.bold, inverted |-> TRUE])

\* Debug::invertedColor(c)
InvertedColor(i, c) == ColorModifier(i, [color |-> c, bold |-> FALSE, inverted |-> TRUE])

\* resetColorInternal() on instance i, shared by the resetColor modifier and
\* by cleanupOnDestruction().
ResetColorNeeded(inst) == inst.output # Null /\ "ColorWritten" \in inst.flags
\* Mutant: the reset sequence is written but debugGlobals not updated.
ResetColorOutputOnly(i) ==
  IF ResetColorNeeded(stack[i])
  THEN /\ stack' = [stack EXCEPT ![i].flags = @ \ {"ColorWritten"}]
       /\ UNCHANGED debugGlobals
       /\ shown' = [shown EXCEPT ![Sink(stack[i].output)] = stack[i].previousColor]
  ELSE UNCHANGED <<stack, debugGlobals, shown>>
ResetColorInternal(i) ==
  IF ResetColorNeeded(stack[i])
  THEN /\ stack' = [stack EXCEPT ![i].flags = @ \ {"ColorWritten"}]
       /\ debugGlobals' = [debugGlobals EXCEPT !.color = stack[i].previousColor]
       /\ shown' = [shown EXCEPT ![Sink(stack[i].output)] = stack[i].previousColor]
  ELSE UNCHANGED <<stack, debugGlobals, shown>>

\* Debug::resetColor
ResetColor(i) == ResetColorInternal(i) /\ UNCHANGED exited

-----------------------------------------------------------------------------
(* Printing.  Debug::print() returns early without an output; otherwise it *)
(* prints the pending source location and the value and clears            *)
(* _immediateFlags.  Every operator<< for a value goes through it.        *)

Printed(inst) ==
  IF inst.output = Null THEN inst
  ELSE [inst EXCEPT !.sourceLocation = FALSE, !.immediateFlags = {}]

PrintValue(i) ==
  /\ stack' = [stack EXCEPT ![i] = Printed(@)]
  /\ UNCHANGED <<debugGlobals, shown, exited>>

\* Debug::setFlags() keeps the internal flags; setImmediateFlags()
\* replaces _immediateFlags outright.
SetFlags(i, fl) ==
  /\ stack' = [stack EXCEPT ![i].flags = fl \cup (@ \cap InternalFlags)]
  /\ UNCHANGED <<debugGlobals, shown, exited>>

\* Mutant: the internal flags are kept as setFlags() does.
SetImmediateFlagsKeepingInternal(i, fl) ==
  /\ stack' = [stack EXCEPT ![i].immediateFlags = fl \cup (stack[i].flags \cap InternalFlags)]
  /\ UNCHANGED <<debugGlobals, shown, exited>>

SetImmediateFlags(i, fl) ==
  /\ stack' = [stack EXCEPT ![i].immediateFlags = fl]
  /\ UNCHANGED <<debugGlobals, shown, exited>>

\* operator<<(unsigned char): with Flag::Color the value is drawn as a grey
\* shade, with DisableColors as shade characters only, otherwise as a
\* 24-bit colour sequence that ends with the reset "\033[0m"; the flags are
\* set to NoSpace around the inner prints and restored afterwards.
\* Without Flag::Color it prints the number.
PrintGreyShade(i) ==
  LET inst      == stack[i]
      immediate == inst.immediateFlags \cup (inst.flags \cap PublicFlags)
  IN
  /\ stack' = [stack EXCEPT ![i] = Printed(@)]
  /\ IF "Color" \in immediate /\ "DisableColors" \notin immediate
        /\ inst.output # Null
     THEN shown' = [shown EXCEPT ![Sink(inst.output)] = Plain(Default)]
     ELSE UNCHANGED shown
  /\ UNCHANGED <<debugGlobals, exited>>

-----------------------------------------------------------------------------
(* Destruction of live instance i.  ~Warning and Error's                   *)
(* cleanupOnDestruction() put back their own global first, then            *)
(* Debug::cleanupOnDestruction() prints a pending source location, resets  *)
(* the colour, ends the line and puts back the global output.  ~Fatal runs *)
(* both cleanups itself and calls std::exit().                             *)

\* Mutant: ~Fatal() runs both cleanups but never calls std::exit().
DestroyWithoutExit(i) ==
  LET top == stack[i]
      reset == ResetColorNeeded(top)
  IN
  /\ ~exited
  /\ stack' = RemoveAt(stack, i)
  /\ debugGlobals' =
       [debugGlobals EXCEPT ![KindGlobal(top.kind)] = top.previousKindOutput,
                            !.output = top.previousGlobalOutput,
                            !.color = IF reset THEN top.previousColor ELSE @]
  /\ shown' = IF reset THEN [shown EXCEPT ![Sink(top.output)] = top.previousColor]
              ELSE shown
  /\ exited' = FALSE

Destroy(i) ==
  LET top == stack[i]
      reset == ResetColorNeeded(top)
  IN
  /\ ~exited
  /\ stack' = RemoveAt(stack, i)
  /\ debugGlobals' =
       [debugGlobals EXCEPT ![KindGlobal(top.kind)] = top.previousKindOutput,
                            !.output = top.previousGlobalOutput,
                            !.color = IF reset THEN top.previousColor ELSE @]
  /\ shown' = IF reset THEN [shown EXCEPT ![Sink(top.output)] = top.previousColor]
              ELSE shown
  /\ exited' = (top.kind = "Fatal")

\* The instances that may die next.  Automatic storage duration destroys
\* the innermost first.  Without NestedDestruction any live one may: an
\* instance held in a std::optional or on the heap, or, in a build without
\* CORRADE_BUILD_MULTITHREADED, where debugGlobals is not thread_local, the
\* innermost instance of another thread nesting its own scopes.
Destructible == IF NestedDestruction THEN {Len(stack)} \ {0} ELSE 1..Len(stack)

-----------------------------------------------------------------------------

\* The instances a caller can stream into.  An outer named instance stays
\* usable while inner ones are alive unless InnermostOnly restricts the
\* callers to the usual one-expression temporaries.
Usable == IF InnermostOnly THEN {Len(stack)} \ {0} ELSE 1..Len(stack)

\* An operation op applied by a caller to live instance i.
Use(op, i) == ~exited /\ op \in CallerOps /\ i \in Usable

Next ==
  \/ \E k \in ConstructKinds, out \in Streams \cup {Null, Inherit}, fl \in FlagChoices,
        loc \in BOOLEAN : Construct(k, out, fl, loc)
  \/ ErrorOutputForAssert
  \/ \E i \in 1..Len(stack) :
       \/ Use("color", i) /\ \E c \in Colors, b \in BOOLEAN : Color(i, c, b)
       \/ Use("color", i) /\ \E c \in Colors : InvertedColor(i, c)
       \/ Use("resetColor", i) /\ ResetColor(i)
       \/ Use("print", i) /\ PrintValue(i)
       \/ Use("shade", i) /\ PrintGreyShade(i)
       \/ Use("setFlags", i) /\ \E fl \in FlagChoices : SetFlags(i, fl)
       \/ Use("setImmediateFlags", i) /\ \E fl \in FlagChoices : SetImmediateFlags(i, fl)
  \/ \E i \in Destructible : Destroy(i)

Spec == Init /\ [][Next]_vars

-----------------------------------------------------------------------------
(* Refinement: DebugOutput implements DebugRedirection.  A live instance  *)
(* is an open scope on the global of its kind, holding the output its     *)
(* constructor saved; a Fatal instance is the scope whose end exits.      *)
(* The colour operations and printing are stuttering steps of the         *)
(* abstract specification: they never touch an output global.             *)

RedirectedGlobals == {"output", "warningOutput", "errorOutput"}

Redirection == INSTANCE DebugRedirection WITH
  Globals <- RedirectedGlobals,
  Outputs <- Streams \cup {Null},
  InitialOutput <- [output |-> Cout, warningOutput |-> Cerr, errorOutput |-> Cerr],
  current <- [g \in RedirectedGlobals |-> debugGlobals[g]],
  saved <- [i \in 1..Len(stack) |->
              [global |-> KindGlobal(stack[i].kind),
               output |-> stack[i].previousKindOutput,
               exits |-> stack[i].kind = "Fatal"]],
  halted <- exited

\* The constructors and destructors of Debug, Warning, Error and Fatal,
\* with every colour, flag and printing operation in between, behave as
\* nested redirection scopes: a constructor saves exactly the output its
\* global names and installs its own, a destructor puts back exactly what
\* its constructor saved and leaves every other global as it is (so the
\* Debug(flags) base of Warning and Error hands the output global back
\* unchanged), and std::exit() is reached from ~Fatal and nowhere else.
RedirectionRefined == Redirection!Spec

-----------------------------------------------------------------------------
(* Properties                                                              *)

\* Type invariant; _immediateFlags never holds internal flags (the comment
\* in setImmediateFlags()).
TypeOK ==
  /\ debugGlobals \in [output : Streams \cup {Null},
                       warningOutput : Streams \cup {Null},
                       errorOutput : Streams \cup {Null},
                       color : ColorState]
  /\ stack \in Seq(Instance) /\ Len(stack) <= MaxDepth
  /\ shown \in [Sinks -> ColorState]
  /\ exited \in BOOLEAN

\* The output installed by the innermost live instance of a kind.
InnermostOutput(kinds, dflt) ==
  LET j == SelectLastInSeq(stack, LAMBDA inst : inst.kind \in kinds)
  IN IF j = 0 THEN dflt ELSE stack[j].output

\* Scoped redirection: however instances of the different kinds are
\* nested, constructed with or without an explicit stream and destroyed,
\* each global output is the one installed by the innermost live instance
\* of its kind, or the default stream when there is none (the save in the
\* constructors and the restore in the destructors of Debug.cpp).
ScopedGlobalOutputs ==
  ~exited =>
    /\ debugGlobals.output = InnermostOutput({"Debug"}, Cout)
    /\ debugGlobals.warningOutput = InnermostOutput({"Warning"}, Cerr)
    /\ debugGlobals.errorOutput = InnermostOutput({"Error", "Fatal"}, Cerr)

\* Once every instance is destroyed (and the program did not exit), every
\* stream displays the default colour again and the global colour is the
\* default: colours set inside a scope do not leak out of it
\* (resetColorInternal() called from cleanupOnDestruction()).
ColorsRestoredWhenIdle ==
  (stack = <<>> /\ ~exited) =>
    /\ \A k \in Sinks : shown[k] = Plain(Default)
    /\ debugGlobals.color = Plain(Default)

\* The colour recorded in debugGlobals is what the terminal displays: the
\* state resetColorInternal() of an inner instance saves and writes back is
\* the one actually on screen.
TerminalShowsTrackedColor ==
  Terminal # {} => shown["tty"] = debugGlobals.color

\* CORRADE_INTERNAL_ASSERT in print() and cleanupOnDestruction(): while a
\* source location is pending, _immediateFlags contains NoSpace.
SourceLocationHasNoSpace ==
  \A i \in 1..Len(stack) :
    stack[i].sourceLocation => "NoSpace" \in stack[i].immediateFlags

\* CORRADE_INTERNAL_ASSERT in resetColorInternal(): a saved colour, and the
\* global colour it comes from, is never both bold and inverted.
NeverBoldAndInverted ==
  /\ ~(debugGlobals.color.bold /\ debugGlobals.color.inverted)
  /\ \A i \in 1..Len(stack) :
       ~(stack[i].previousColor.bold /\ stack[i].previousColor.inverted)

=============================================================================
