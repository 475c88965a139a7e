----------------------------- MODULE JsonTokens -----------------------------
(***************************************************************************)
(* Tokenization of JSON text into Corrade's flat token array, and the     *)
(* navigation over that array implemented inline in Utility/Json.h.       *)
(*                                                                         *)
(* Json.cpp is not part of the repository: the tokenizer is modelled from *)
(* spec.md section 4.2 (an explicit stack of open containers, a           *)
(* provisional zero child count backpatched when the container closes).   *)
(* firstChild(), next() and the object/array iterators are modelled from  *)
(* Json.h.                                                                 *)
(*                                                                         *)
(* The text is abstracted to a sequence of lexical symbols: brackets and  *)
(* separators, "s" for a string and "n" for a number.  Whitespace is      *)
(* skipped by the tokenizer and does not appear; a scalar's span is found *)
(* by a scan that does not depend on the nesting, so a scalar is one      *)
(* symbol.  null, true and false take the same path as numbers.           *)
(* The text is chosen one symbol at a time as the scan reaches it, which  *)
(* enumerates every text of at most MaxLen symbols.                       *)
(***************************************************************************)
EXTENDS Naturals, Sequences, SequencesExt

CONSTANT MaxLen   \* bound on the number of symbols in the text

ASSUME MaxLen \in Nat \ {0}

Symbols == {"{", "}", "[", "]", ",", ":", "s", "n"}
Scalars == {"s", "n"}

\* JsonToken::Type, inferred from the first byte of the token.
TokenType == [s \in {"{", "[", "s", "n"} |->
                CASE s = "{" -> "Object" [] s = "[" -> "Array"
                  [] s = "s" -> "String" [] OTHER -> "Number"]

\* A token: its type, whether it is an object key, and its child count,
\* the number of all tokens nested under it.
Token == [type : {"Object", "Array", "String", "Number"}, key : BOOLEAN,
          count : Nat]

\* What the scan accepts next.
Expectations == {"value", "valueOrClose", "keyOrClose", "key", "colon",
                 "commaOrClose", "end"}

VARIABLES
  text,    \* the symbols read so far
  tokens,  \* the token array built so far
  stack,   \* indices of open containers and of keys awaiting their value
  expect,  \* what the scan accepts next
  result   \* "scan" while reading, then "ok" or "error"

vars == <<text, tokens, stack, expect, result>>

Init ==
  /\ text = <<>>
  /\ tokens = <<>>
  /\ stack = <<>>
  /\ expect = "value"
  /\ result = "scan"

-----------------------------------------------------------------------------
(* One step of the scan per symbol.                                       *)

\* A value ended (a scalar, or a closing bracket): a key waiting for it
\* gets its child count backpatched and is popped.  ts and st are the
\* token array and the stack after the value itself was handled.
ValueEnded(ts, st) ==
  IF st # <<>> /\ ts[Last(st)].key
  THEN /\ tokens' = [ts EXCEPT ![Last(st)].count = Len(ts) - Last(st)]
       /\ stack' = Front(st)
       /\ expect' = "commaOrClose"
  ELSE /\ tokens' = ts
       /\ stack' = st
       /\ expect' = IF st = <<>> THEN "end" ELSE "commaOrClose"

Read(sym) ==
  /\ result = "scan"
  /\ Len(text) < MaxLen
  /\ text' = Append(text, sym)

\* Mutant: the container's index is taken before it is appended.
OpenContainerPushingOldLength(sym) ==
  /\ sym \in {"{", "["}
  /\ expect \in {"value", "valueOrClose"}
  /\ Read(sym)
  /\ tokens' = Append(tokens, [type |-> TokenType[sym], key |-> FALSE, count |-> 0])
  /\ stack' = Append(stack, Len(tokens))
  /\ expect' = IF sym = "{" THEN "keyOrClose" ELSE "valueOrClose"
  /\ UNCHANGED result

\* '{' or '[' in value position: a new container with a provisional zero
\* child count is pushed.
OpenContainer(sym) ==
  /\ sym \in {"{", "["}
  /\ expect \in {"value", "valueOrClose"}
  /\ Read(sym)
  /\ tokens' = Append(tokens, [type |-> TokenType[sym], key |-> FALSE, count |-> 0])
  /\ stack' = Append(stack, Len(tokens) + 1)
  /\ expect' = IF sym = "{" THEN "keyOrClose" ELSE "valueOrClose"
  /\ UNCHANGED result

\* A scalar in value position.
Scalar(sym) ==
  /\ sym \in Scalars
  /\ expect \in {"value", "valueOrClose"}
  /\ Read(sym)
  /\ ValueEnded(Append(tokens, [type |-> TokenType[sym], key |-> FALSE, count |-> 0]), stack)
  /\ UNCHANGED result

\* A string in key position becomes a key token waiting for its value.
Key ==
  /\ expect \in {"keyOrClose", "key"}
  /\ Read("s")
  /\ tokens' = Append(tokens, [type |-> "String", key |-> TRUE, count |-> 0])
  /\ stack' = Append(stack, Len(tokens) + 1)
  /\ expect' = "colon"
  /\ UNCHANGED result

Colon ==
  /\ expect = "colon"
  /\ Read(":")
  /\ expect' = "value"
  /\ UNCHANGED <<tokens, stack, result>>

Comma ==
  /\ expect = "commaOrClose"
  /\ Read(",")
  /\ expect' = IF tokens[Last(stack)].type = "Object" THEN "key" ELSE "value"
  /\ UNCHANGED <<tokens, stack, result>>

\* Mutant: a closing bracket is not matched against the open container.
CloseAnyBracket(sym) ==
  /\ \/ sym = "}" /\ expect \in {"keyOrClose", "commaOrClose"}
     \/ sym = "]" /\ expect \in {"valueOrClose", "commaOrClose"}
  /\ stack # <<>>
  /\ Read(sym)
  /\ ValueEnded([tokens EXCEPT ![Last(stack)].count = Len(tokens) - Last(stack)],
                Front(stack))
  /\ UNCHANGED result

\* '}' or ']' closing the container on top of the stack: its child count
\* is backpatched to the number of tokens added since it was opened.
Close(sym) ==
  /\ \/ sym = "}" /\ expect \in {"keyOrClose", "commaOrClose"}
     \/ sym = "]" /\ expect \in {"valueOrClose", "commaOrClose"}
  /\ stack # <<>>
  /\ tokens[Last(stack)].type = IF sym = "}" THEN "Object" ELSE "Array"
  /\ Read(sym)
  /\ ValueEnded([tokens EXCEPT ![Last(stack)].count = Len(tokens) - Last(stack)],
                Front(stack))
  /\ UNCHANGED result

\* Whether the scan accepts sym in the current state.
Accepted(sym) ==
  \/ sym \in {"{", "["} /\ expect \in {"value", "valueOrClose"}
  \/ sym \in Scalars /\ expect \in {"value", "valueOrClose"}
  \/ sym = "s" /\ expect \in {"keyOrClose", "key"}
  \/ sym = ":" /\ expect = "colon"
  \/ sym = "," /\ expect = "commaOrClose"
  \/ sym \in {"}", "]"} /\ stack # <<>>
     /\ \/ sym = "}" /\ expect \in {"keyOrClose", "commaOrClose"}
                     /\ tokens[Last(stack)].type = "Object"
        \/ sym = "]" /\ expect \in {"valueOrClose", "commaOrClose"}
                     /\ tokens[Last(stack)].type = "Array"

\* Any other symbol, including anything after the top-level value, is a
\* structural error: tokenizing fails and no token array is produced.
Reject(sym) ==
  /\ ~Accepted(sym)
  /\ Read(sym)
  /\ result' = "error"
  /\ UNCHANGED <<tokens, stack, expect>>

\* The end of the text: exactly one complete top-level value is required.
Finish ==
  /\ result = "scan"
  /\ result' = IF expect = "end" THEN "ok" ELSE "error"
  /\ UNCHANGED <<text, tokens, stack, expect>>

Next ==
  \/ \E sym \in Symbols :
       \/ OpenContainer(sym)
       \/ Scalar(sym)
       \/ Close(sym)
       \/ Reject(sym)
  \/ Key
  \/ Colon
  \/ Comma
  \/ Finish

Spec == Init /\ [][Next]_vars

-----------------------------------------------------------------------------
(* Navigation over a token array ts (Json.h).                             *)

\* Mutant: firstChild() without the object-key case.
FirstChildWithoutKey(ts, i) ==
  IF ts[i].type \in {"Object", "Array"} /\ ts[i].count # 0 THEN i + 1 ELSE 0

\* JsonToken::firstChild(): the next token if this is an object or array
\* with children, or an object key; 0 stands for nullptr.
FirstChild(ts, i) ==
  IF (ts[i].type \in {"Object", "Array"} /\ ts[i].count # 0) \/ ts[i].key
  THEN i + 1 ELSE 0

\* JsonToken::next(): skips the token and all tokens nested under it.
NextToken(ts, i) == i + ts[i].count + 1

\* The indices a JsonIterator visits from begin to end, advancing with
\* next() and stopping when it compares equal to end.  A walk that would
\* step past end (or past the array) never terminates in the code; it is
\* cut short with the marker 0.
RECURSIVE IteratorWalk(_, _, _)
IteratorWalk(ts, j, end) ==
  IF j = end THEN <<>>
  ELSE IF j > end \/ j > Len(ts) THEN <<0>>
  ELSE <<j>> \o IteratorWalk(ts, NextToken(ts, j), end)

\* asObject() / asArray(): a view from the first child to next().
Items(ts, i) == IteratorWalk(ts, i + 1, NextToken(ts, i))

\* JsonToken::children(): the child token tree, the childCount() tokens
\* right after the token.
Children(ts, i) == (i + 1)..(i + ts[i].count)

\* Mutant: the first enclosing token found from the front, not the back.
ParentOutermost(ts, i) ==
  LET enclosing == {j \in 1..(i - 1) : i \in Children(ts, j)}
  IN IF enclosing = {} THEN 0 ELSE Min(enclosing)

\* JsonToken::parent(): traversing the token list backwards, the first
\* token whose child token tree contains this one; 0 (nullptr) for the root.
Parent(ts, i) ==
  LET enclosing == {j \in 1..(i - 1) : i \in Children(ts, j)}
  IN IF enclosing = {} THEN 0 ELSE Max(enclosing)

\* JsonToken::find(std::size_t index) on an array: the index-th item,
\* reached by next() from the first child, or 0 (nullptr) at the end.
FindIndex(ts, i, n) ==
  LET RECURSIVE Walk(_, _)
      Walk(j, k) == IF j >= NextToken(ts, i) THEN 0
                    ELSE IF k = n THEN j ELSE Walk(NextToken(ts, j), k + 1)
  IN Walk(i + 1, 0)

RECURSIVE JoinWithCommas(_)
JoinWithCommas(parts) ==
  IF Len(parts) <= 1 THEN FlattenSeq(parts)
  ELSE Head(parts) \o <<",">> \o JoinWithCommas(Tail(parts))

\* The text a traversal with firstChild() / iterators / JsonObjectItem::
\* value() reads back from token i.
RECURSIVE Unparse(_, _)
Unparse(ts, i) ==
  IF i = 0 \/ i > Len(ts) THEN <<"!">>
  ELSE CASE ts[i].type = "Object" ->
              <<"{">> \o JoinWithCommas([k \in DOMAIN Items(ts, i) |->
                  LET key == Items(ts, i)[k] IN
                  IF key = 0 \/ ~ts[key].key THEN <<"!">>
                  ELSE <<"s", ":">> \o Unparse(ts, FirstChild(ts, key))]) \o <<"}">>
         [] ts[i].type = "Array" ->
              <<"[">> \o JoinWithCommas([k \in DOMAIN Items(ts, i) |->
                  Unparse(ts, Items(ts, i)[k])]) \o <<"]">>
         [] ts[i].type = "String" -> <<"s">>
         [] OTHER -> <<"n">>

-----------------------------------------------------------------------------
(* Reference: a recursive-descent parser of the same symbol grammar.  It  *)
(* returns "ok" with the position after the value and the tokens in       *)
(* depth-first order, "more" if the text ends before the value is         *)
(* complete, or "err".                                                     *)

More == [st |-> "more", next |-> 0, toks |-> <<>>]
Err  == [st |-> "err", next |-> 0, toks |-> <<>>]

RECURSIVE RefValue(_, _), RefMembers(_, _, _, _)
RefValue(t, p) ==
  IF p > Len(t) THEN More
  ELSE IF t[p] \in Scalars
    THEN [st |-> "ok", next |-> p + 1,
          toks |-> <<[type |-> TokenType[t[p]], key |-> FALSE, count |-> 0]>>]
  ELSE IF t[p] \in {"{", "["}
    THEN LET close == IF t[p] = "{" THEN "}" ELSE "]"
             body  == IF p + 1 > Len(t) THEN More
                      ELSE IF t[p + 1] = close
                        THEN [st |-> "ok", next |-> p + 2, toks |-> <<>>]
                      ELSE RefMembers(t, p + 1, t[p] = "{", close)
         IN IF body.st # "ok" THEN body
            ELSE [body EXCEPT !.toks = <<[type |-> TokenType[t[p]], key |-> FALSE,
                                          count |-> Len(body.toks)]>> \o @]
  ELSE Err

\* The members of a container from position p up to and including close.
RefMembers(t, p, isObject, close) ==
  LET v == IF ~isObject THEN RefValue(t, p)
           ELSE IF p > Len(t) THEN More
           ELSE IF t[p] # "s" THEN Err
           ELSE IF p + 1 > Len(t) THEN More
           ELSE IF t[p + 1] # ":" THEN Err
           ELSE LET w == RefValue(t, p + 2)
                IN [w EXCEPT !.toks = <<[type |-> "String", key |-> TRUE,
                                         count |-> Len(w.toks)]>> \o @]
  IN IF v.st # "ok" THEN v
     ELSE IF v.next > Len(t) THEN More
     ELSE IF t[v.next] = close
       THEN [v EXCEPT !.next = v.next + 1]
     ELSE IF t[v.next] = ","
       THEN LET r == RefMembers(t, v.next + 1, isObject, close)
            IN IF r.st # "ok" THEN r ELSE [r EXCEPT !.toks = v.toks \o @]
     ELSE Err

\* The whole text: one value and nothing after it.
RefDocument(t) ==
  LET v == RefValue(t, 1)
  IN IF v.st = "ok" /\ v.next <= Len(t) THEN Err ELSE v

-----------------------------------------------------------------------------
(* Properties                                                              *)

TypeOK ==
  /\ text \in Seq(Symbols) /\ Len(text) <= MaxLen
  /\ tokens \in Seq(Token)
  /\ stack \in Seq(1..Len(tokens))
  /\ expect \in Expectations
  /\ result \in {"scan", "ok", "error"}

\* The explicit-stack scan decides exactly what the recursive grammar
\* decides, at the same symbol: it fails on a symbol exactly when no
\* continuation of the text read so far is a JSON value, fails at the end
\* exactly when the text is empty or incomplete, and on success produces
\* the depth-first token array with the child counts the grammar gives.
TokenizerMatchesGrammar ==
  LET ref == RefDocument(text) IN
  /\ result = "scan" => ref.st # "err"
  /\ result = "ok" => ref.st = "ok" /\ tokens = ref.toks
  /\ result = "error" => ref.st = "err" \/ (ref.st = "more" /\ expect # "end")

\* Traversing a successfully tokenized array with firstChild(), next()
\* and the object/array iterators reads back exactly the text, and next()
\* of the root is one past the last token.
NavigationReconstructsText ==
  result = "ok" =>
    /\ NextToken(tokens, 1) = Len(tokens) + 1
    /\ Unparse(tokens, 1) = text

\* The childCount() documentation: for a string that is an object key it
\* always returns 1.
KeyChildCountIsOne ==
  result = "ok" => \A i \in DOMAIN tokens : tokens[i].key => tokens[i].count = 1

\* parent(), children() and find(index) agree with the iteration: the
\* root has no parent; every other token's parent is the key whose value
\* it is or the container whose firstChild()/next() iteration visits it;
\* a container's child token tree is exactly its items and their trees;
\* and find(n) on an array gives an item, whose parent is the array,
\* exactly for the n below the number of items.
NavigationIsConsistent ==
  LET ts == tokens IN
  result = "ok" =>
    /\ Parent(ts, 1) = 0
    /\ \A i \in 2..Len(ts) :
         LET p == Parent(ts, i) IN
         /\ p # 0
         /\ IF ts[p].key THEN FirstChild(ts, p) = i ELSE i \in Range(Items(ts, p))
    /\ \A i \in DOMAIN ts : ts[i].type \in {"Object", "Array"} =>
         Children(ts, i) = UNION {{j} \cup Children(ts, j) : j \in Range(Items(ts, i))}
    /\ \A i \in DOMAIN ts : ts[i].type = "Array" =>
         \A n \in 0..Len(ts) :
           LET f == FindIndex(ts, i, n) IN
           /\ (f # 0) <=> (n < Len(Items(ts, i)))
           /\ f # 0 => Parent(ts, f) = i

=============================================================================
