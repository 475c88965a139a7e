--------------------------- MODULE MCDebugOutput ---------------------------
(* Model-checking instance of DebugOutput.                                 *)
EXTENDS DebugOutput

CONSTANTS cout, cerr, buf, red, default, null

\* std::cout and std::cerr, both attached to the terminal.
TtyStreams == {cout, cerr}
\* The same plus a std::ostringstream the caller redirects into.
TtyAndBufferStreams == {cout, cerr, buf}

MCColors == {default, red}
\* Only the default colour: the colour modifiers still run but cannot
\* change what is displayed, for runs about output redirection.
MCDefaultOnly == {default}

\* Construction and setter flags: none, colours disabled, and grey-shade
\* drawing of unsigned char values.
MCFlagChoices == {{}, {"DisableColors"}, {"Color"}}
\* The same without Flag::Color, so operator<<(unsigned char) never draws
\* a colour sequence.
MCFlagChoicesNoShade == {{}, {"DisableColors"}}
\* Only what matters to the pending source location: NoSpace or nothing.
MCFlagChoicesSpacing == {{}, {"NoSpace"}}
MCFlagChoicesNone == {{}}
\* No flag, or grey-shade drawing of unsigned char values.
MCFlagChoicesShade == {{}, {"Color"}}

\* Classes constructed per run.
AllKinds == Kinds
DebugAndFatal == {"Debug", "Fatal"}
DebugOnly == {"Debug"}

\* Caller operations per run.
\* None: only construction and destruction.
MCNoOps == {}
MCScopeOps == {"sourceLocation", "print", "shade", "assert"}
MCColorOps == {"color", "resetColor", "print", "setFlags"}
MCColorFlagOps == MCColorOps \cup {"setImmediateFlags"}
MCShadeOps == {"color", "resetColor", "print", "shade", "setFlags",
              "setImmediateFlags"}
MCLocationOps == {"sourceLocation", "print", "setImmediateFlags"}
=============================================================================
