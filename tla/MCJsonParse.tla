---------------------------- MODULE MCJsonParse ----------------------------
(* Model-checking instance of JsonParse.                                   *)
EXTENDS JsonParse

\* The tokens of {"a": [1, true, null, "s"]} in depth-first order, with
\* the child counts the tokenizer writes: one scalar of each type in an
\* array under an object key.  The bool comes before the null, so a
\* parseLiterals() call can fail between them.
Tok(t, k, c) == [type |-> t, key |-> k, count |-> c]
MCShape == << Tok("Object", FALSE, 6),
              Tok("String", TRUE, 5), Tok("Array", FALSE, 4),
                Tok("Number", FALSE, 0), Tok("Bool", FALSE, 0),
                Tok("Null", FALSE, 0), Tok("String", FALSE, 0) >>

\* Every literal class.
AllLiterals == NumberLiterals \cup {"null", "true", "plain", "escaped", "invalid"}
\* Every class whose value the 32-bit layout can hold.
FiniteLiterals == AllLiterals \ {"overflow"}
\* Only what the big-endian question needs: valid literals and strings.
ValidLiterals == {"small", "null", "true", "plain", "escaped"}
\* The builds per run.
Target64 == [bits |-> 64, bigEndian |-> FALSE]
Target32 == [bits |-> 32, bigEndian |-> FALSE]
Target32BE == [bits |-> 32, bigEndian |-> TRUE]
LittleEndianTargets == {Target64, Target32}
Targets32 == {Target32}
Targets32BE == {Target32BE}
=============================================================================
