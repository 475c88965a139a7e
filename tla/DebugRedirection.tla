-------------------------- MODULE DebugRedirection --------------------------
(***************************************************************************)
(* What scoped output redirection promises, without instances, flags or   *)
(* colours.  Each global names a current output.  Entering a scope saves  *)
(* the current output of one global and installs another; leaving the     *)
(* innermost scope puts the saved output back and touches no other        *)
(* global.  Scopes nest: only the innermost one can be left.  A scope may *)
(* be marked as ending the program, which happens exactly when that scope *)
(* is left and never otherwise.                                            *)
(*                                                                         *)
(* DebugOutput implements this with Globals the three outputs of struct   *)
(* DebugGlobals and a scope per live Debug, Warning, Error or Fatal        *)
(* instance (Debug.cpp).                                                  *)
(***************************************************************************)
EXTENDS Sequences, SequencesExt

CONSTANTS
  Globals,        \* the redirectable globals
  Outputs,        \* what a global can name
  InitialOutput   \* [Globals -> Outputs]: the outputs before any scope

VARIABLES
  current,  \* [Globals -> Outputs]: the output each global names now
  saved,    \* open scopes, innermost last: the global, its saved output
            \* and whether leaving it ends the program
  halted    \* the program ended

vars == <<current, saved, halted>>

Scope == [global : Globals, output : Outputs, exits : BOOLEAN]

Init ==
  /\ current = InitialOutput
  /\ saved = <<>>
  /\ halted = FALSE

\* A scope opens on global g and installs out.
Enter(g, out, exits) ==
  /\ ~halted
  /\ saved' = Append(saved, [global |-> g, output |-> current[g], exits |-> exits])
  /\ current' = [current EXCEPT ![g] = out]
  /\ UNCHANGED halted

\* The innermost scope closes: its global names the saved output again.
Leave ==
  LET top == Last(saved) IN
  /\ ~halted
  /\ saved # <<>>
  /\ current' = [current EXCEPT ![top.global] = top.output]
  /\ saved' = Front(saved)
  /\ halted' = top.exits

Next ==
  \/ \E g \in Globals, out \in Outputs, e \in BOOLEAN : Enter(g, out, e)
  \/ Leave

Spec == Init /\ [][Next]_vars

TypeOK ==
  /\ current \in [Globals -> Outputs]
  /\ saved \in Seq(Scope)
  /\ halted \in BOOLEAN

=============================================================================
