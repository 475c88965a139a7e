------------------------------- MODULE MCJson -------------------------------
(* Model-checking instance of the JSON models: one behaviour either scans  *)
(* a symbol stream into tokens and walks them (JsonTokens), or runs bulk   *)
(* parse calls on a tokenized document (JsonParse, through MCJsonParse);   *)
(* part records which.  The other model stays in a fixed initial state,   *)
(* so the states are the sum of the two models, not their product.        *)
EXTENDS MCJsonParse

CONSTANT MaxLen

VARIABLES part, text, tokens, stack, expect, result

Tk == INSTANCE JsonTokens

tokenVars == <<text, tokens, stack, expect, result>>
allVars == <<part, vars, tokenVars>>

\* The parse model while symbols are scanned: the first document and
\* build, loaded by fromString() without options (nothing parsed yet).
ParseIdle ==
  /\ target = CHOOSE t \in Targets : TRUE
  /\ literal = CHOOSE d \in Documents(Len(Shape)) : TRUE
  /\ word = Tokenized.word
  /\ parsedBy = Tokenized.parsedBy
  /\ allocs = Tokenized.allocs

JsonInit ==
  \/ part = "parse" /\ Init /\ Tk!Init
  \/ part = "tokenize" /\ ParseIdle /\ Tk!Init

JsonNext ==
  \/ part = "parse" /\ Next /\ UNCHANGED <<part, tokenVars>>
  \/ part = "tokenize" /\ Tk!Next /\ UNCHANGED <<part, vars>>

JsonSpec == JsonInit /\ [][JsonNext]_allVars

\* The type invariant of JsonTokens, and part names one of the two models.
TokensTypeOK == part \in {"parse", "tokenize"} /\ Tk!TypeOK

\* The scan accepts exactly the documents of the reference grammar and
\* builds their depth-first token array with its child counts.
TokenizerMatchesGrammar == Tk!TokenizerMatchesGrammar

\* firstChild(), next() and the iterators read the tokenized text back.
NavigationReconstructsText == Tk!NavigationReconstructsText

\* parent(), children() and find(index) agree with the iteration.
NavigationIsConsistent == Tk!NavigationIsConsistent

\* The type invariant of JsonParse: at most one owned buffer per string.
ParseTypeOK == part = "parse" => TypeOK

\* A token some call parsed keeps its type and first child and is
\* accepted by its accessor.
TokensDecode == part = "parse" => ParsedTokensDecode

\* A successful bulk call repeated at once changes nothing.
RepeatedCallIsNoOp == part = "parse" => RepeatedParseIsNoOp

\* A successful bulk call leaves every token of its kind in the subtree
\* readable, whatever earlier calls stored.
CallParsesSubtree == part = "parse" => SuccessfulCallParsesSubtree

\* fromString() succeeds exactly when every literal its options cover is
\* valid, and then each covered token reads back through its accessor.
FromStringHonoured == part = "parse" => FromStringHonoursOptions
=============================================================================
