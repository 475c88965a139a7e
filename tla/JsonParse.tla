------------------------------ MODULE JsonParse ------------------------------
(***************************************************************************)
(* Selective parsing of a tokenized JSON document and the storage of a    *)
(* token (Utility/Json.h).                                                 *)
(*                                                                         *)
(* A token keeps its type, parse state and flags in one word and shares a *)
(* second 64-bit word between the child count and the parsed payload (the *)
(* union at the end of JsonToken).  On 64-bit targets the type and parsed *)
(* type are bit fields of _sizeFlagsParsedTypeType.  On 32-bit targets    *)
(* the shared word is NaN-boxed: when its eleven exponent bits are all    *)
(* set it holds the type, FlagParsed, FlagStringKey and a 32-bit child    *)
(* count; otherwise it is a parsed number and its parsed type is in       *)
(* _sizeParsedType.  A word is modelled as a record of those fields.      *)
(*                                                                         *)
(* type(), isParsed(), parsedType(), firstChild() and the as*() accessor  *)
(* assertions are the inline code of Json.h.  The bulk parse calls and    *)
(* what they store are in Json.cpp, which is not part of the repository:  *)
(* they are modelled from their documentation in Json.h and from spec.md  *)
(* section 4.3.  A stored payload is written through the union member of  *)
(* its C++ type; a member narrower than the word occupies its low bytes   *)
(* on a little-endian target and its high bytes on a big-endian one.      *)
(*                                                                         *)
(* Literal values are abstracted to classes that the validation rules     *)
(* tell apart.                                                             *)
(***************************************************************************)
EXTENDS Integers, Sequences, SequencesExt, FiniteSets

CONSTANTS
  Shape,      \* the tokenized document: [type, key, count] per token
  Literals,   \* the literal classes the document's scalars are drawn from
  Targets     \* the builds: word size (CORRADE_TARGET_32BIT) and byte order
              \* (CORRADE_TARGET_BIG_ENDIAN)

ASSUME Targets \subseteq [bits : {32, 64}, bigEndian : BOOLEAN]

VARIABLES
  target,   \* the build the document is parsed on
  literal,  \* the literal class of each token's text
  word,     \* the storage of each token
  parsedBy, \* the operation that last stored a value into the token
  allocs    \* owned string buffers allocated for unescaped strings

vars == <<target, literal, word, parsedBy, allocs>>

Types == {"Object", "Array", "Null", "Bool", "Number", "String"}
ParsedTypes == {"None", "Double", "Float", "UnsignedInt", "Int", "UnsignedLong",
                "Long", "Other"}

\* Number literals: 42, -1, 4294967296, 6755399441055744 (above 2^52),
\* 10000000000000000 (above 2^53), 42.0 and 1e999 (beyond the double range).
NumberLiterals == {"small", "negative", "big", "big53", "huge", "fraction",
                   "overflow"}
LiteralsOf(t) ==
  CASE t = "Number" -> NumberLiterals
    [] t = "Null"   -> {"null", "invalid"}
    [] t = "Bool"   -> {"true", "invalid"}
    [] t = "String" -> {"plain", "escaped", "invalid"}
    [] OTHER        -> {"none"}

Tokens == DOMAIN Shape
Container(i) == Shape[i].type \in {"Object", "Array"}

\* ParsedType::Size aliases UnsignedLong on 64-bit and UnsignedInt on 32-bit.
SizeType == IF target.bits = 64 THEN "UnsignedLong" ELSE "UnsignedInt"

\* The bulk operations of Json; parseLongs() exists on 64-bit only.
Ops == {"Literals", "Doubles", "Floats", "UnsignedInts", "Ints", "UnsignedLongs",
        "Sizes", "StringKeys", "Strings"} \cup (IF target.bits = 64 THEN {"Longs"} ELSE {})

\* The token's words.  On 64-bit, parsedType is the field of
\* _sizeFlagsParsedTypeType and nan is unused; on 32-bit, nan, type,
\* flagParsed and key are fields of _childCountFlagsTypeNan and parsedType
\* is the field of _sizeParsedType.  payload is what the low bytes of the
\* shared word hold: the child count, or Written for a value written
\* through another union member.
Written == -1
Word == [nan : BOOLEAN, type : Types \cup {"Invalid"}, flagParsed : BOOLEAN,
         parsedType : ParsedTypes, key : BOOLEAN, payload : Nat \cup {Written}]

-----------------------------------------------------------------------------
(* Json.h, inline.                                                         *)

\* Mutant: type() reads the stored type without checking the NaN bits.
TypeOfIgnoringNan(w) == w.type

\* JsonToken::type()
TypeOf(w) == IF target.bits = 64 \/ w.nan THEN w.type ELSE "Number"

\* JsonToken::isParsed()
IsParsed(w) ==
  IF target.bits = 64 THEN w.parsedType # "None"
  ELSE IF w.nan THEN w.flagParsed ELSE TRUE

\* JsonToken::parsedType()
ParsedTypeOf(w) ==
  IF target.bits = 32 /\ w.nan THEN IF w.flagParsed THEN "Other" ELSE "None"
  ELSE w.parsedType

\* Mutant: the object-key case of firstChild() is left out.
HasFirstChildWithoutKey(w) ==
  /\ target.bits = 32 => w.nan
  /\ TypeOf(w) \in {"Object", "Array"} /\ w.payload # 0

\* JsonToken::firstChild() is not null: an object or array with a nonzero
\* child count, or an object key; on 32-bit only while NaN is set.
HasFirstChild(w) ==
  /\ target.bits = 32 => w.nan
  /\ \/ TypeOf(w) \in {"Object", "Array"} /\ w.payload # 0
     \/ w.key

\* The CORRADE_ASSERT of the accessor matching a bulk operation: asNull()
\* and asBool() check type() and isParsed(), asString() the same for
\* String, the numeric accessors check parsedType() only.
AccessorAccepts(op, t, w) ==
  CASE op = "Literals" -> TypeOf(w) = t /\ IsParsed(w)
    [] op \in {"StringKeys", "Strings"} -> TypeOf(w) = "String" /\ IsParsed(w)
    [] op = "Doubles" -> ParsedTypeOf(w) = "Double"
    [] op = "Floats" -> ParsedTypeOf(w) = "Float"
    [] op = "UnsignedInts" -> ParsedTypeOf(w) = "UnsignedInt"
    [] op = "Ints" -> ParsedTypeOf(w) = "Int"
    [] op = "UnsignedLongs" -> ParsedTypeOf(w) = "UnsignedLong"
    [] op = "Longs" -> ParsedTypeOf(w) = "Long"
    [] op = "Sizes" -> ParsedTypeOf(w) = SizeType

-----------------------------------------------------------------------------
(* The parse operations, from their documentation in Json.h.              *)

\* The tokens an operation acts on.
Relevant(op, w) ==
  CASE op = "Literals" -> TypeOf(w) \in {"Null", "Bool"}
    [] op = "StringKeys" -> TypeOf(w) = "String" /\ w.key
    [] op = "Strings" -> TypeOf(w) = "String"
    [] OTHER -> TypeOf(w) = "Number"

\* Mutant: parseSizes() always produces UnsignedLong.
OpTypeSizeAsLong(op) ==
  CASE op = "Doubles" -> "Double" [] op = "Floats" -> "Float"
    [] op = "UnsignedInts" -> "UnsignedInt" [] op = "Ints" -> "Int"
    [] op \in {"UnsignedLongs", "Sizes"} -> "UnsignedLong" [] op = "Longs" -> "Long"
    [] OTHER -> "Other"

\* The parsed type a numeric operation produces.
OpType(op) ==
  CASE op = "Doubles" -> "Double" [] op = "Floats" -> "Float"
    [] op = "UnsignedInts" -> "UnsignedInt" [] op = "Ints" -> "Int"
    [] op = "UnsignedLongs" -> "UnsignedLong" [] op = "Longs" -> "Long"
    [] op = "Sizes" -> SizeType [] OTHER -> "Other"

\* Mutant: numbers parsed as any type are skipped.
SkippedWhenParsed(op, w) == IsParsed(w)

\* Already parsed tokens are skipped: literals and strings when parsed at
\* all, numbers when parsed as the requested type (others are reparsed).
Skipped(op, w) ==
  IF op \in {"Literals", "StringKeys", "Strings"} THEN IsParsed(w)
  ELSE ParsedTypeOf(w) = OpType(op)

\* The literal classes an operation accepts: exact literals, any number
\* for the floating-point types, integers without a fractional part or
\* exponent in the type's range (52 and 53 bits for the long types), and
\* strings with valid escapes.
Valid(op) ==
  CASE op = "Literals" -> {"null", "true"}
    [] op \in {"Doubles", "Floats"} -> NumberLiterals
    [] op = "UnsignedInts" \/ (op = "Sizes" /\ target.bits = 32) -> {"small"}
    [] op = "Ints" -> {"small", "negative"}
    [] op = "UnsignedLongs" \/ op = "Sizes" -> {"small", "big"}
    [] op = "Longs" -> {"small", "negative", "big", "big53"}
    [] OTHER -> {"plain", "escaped"}

\* A payload narrower than the shared word written through its union
\* member: the low bytes change; on a big-endian 32-bit target those are
\* the bytes holding the NaN exponent, the type and the flags.
NarrowWrite(w) ==
  IF target.bits = 32 /\ target.bigEndian
  THEN [w EXCEPT !.nan = FALSE, !.type = "Invalid", !.flagParsed = FALSE,
                 !.key = FALSE, !.payload = Written]
  ELSE [w EXCEPT !.payload = Written]

\* What a successful parse of token i stores: a literal or a string is
\* marked parsed (ParsedTypeOther on 64-bit, FlagParsed on 32-bit).  Null stores no payload, a
\* bool and an escaped string (as an owned String pointer) write a narrow
\* member, an escape-free string is referenced in place.  On 32-bit a
\* number writes the whole shared word: a double as its bits, which keep
\* the NaN exponent for an infinite value, and any other type with the
\* exponent cleared and its parsed type put into _sizeParsedType.
Stored(op, i, w) ==
  LET marked == IF target.bits = 64 THEN [w EXCEPT !.parsedType = "Other"]
                ELSE [w EXCEPT !.flagParsed = TRUE]
  IN
  CASE op = "Literals" /\ TypeOf(w) = "Null" -> marked
    [] op = "Literals" -> NarrowWrite(marked)
    [] op \in {"StringKeys", "Strings"} /\ literal[i] = "escaped" -> NarrowWrite(marked)
    [] op \in {"StringKeys", "Strings"} -> marked
    [] target.bits = 64 -> [w EXCEPT !.parsedType = OpType(op), !.payload = Written]
    [] op = "Doubles" ->
         [nan |-> literal[i] = "overflow", type |-> "Invalid", flagParsed |-> FALSE,
          key |-> FALSE, parsedType |-> "Double", payload |-> Written]
    [] OTHER ->
         [nan |-> FALSE, type |-> "Invalid", flagParsed |-> FALSE, key |-> FALSE,
          parsedType |-> OpType(op), payload |-> Written]

\* The words the tokenizer writes: objects and arrays are parsed from the
\* start, everything else is unparsed; the shared word holds the count.
TokenizedWord(i) ==
  [nan |-> TRUE, type |-> Shape[i].type, flagParsed |-> Container(i),
   parsedType |-> IF Container(i) THEN "Other" ELSE "None",
   key |-> Shape[i].key, payload |-> Shape[i].count]

\* The literal classes token i can have in this model.
Allowed(i) == LiteralsOf(Shape[i].type) \cap (Literals \cup {"none"})

\* Every assignment of allowed literal classes to the first n tokens.
RECURSIVE Documents(_)
Documents(n) ==
  IF n = 0 THEN {<<>>}
  ELSE {Append(d, l) : d \in Documents(n - 1), l \in Allowed(n)}

\* Mutant: the string buffer is allocated before the skip check.
ParseCallAllocatingSkipped(op, r, st) ==
  LET subtree == [k \in 1..Shape[r].count + 1 |-> r + k - 1]
      todo    == SelectSeq(subtree, LAMBDA i : Relevant(op, st.word[i])
                                               /\ ~Skipped(op, st.word[i]))
      bad     == SelectInSeq(todo, LAMBDA i : literal[i] \notin Valid(op))
      done    == ToSet(IF bad = 0 THEN todo ELSE SubSeq(todo, 1, bad - 1))
      reached == {i \in ToSet(subtree) : Relevant(op, st.word[i])}
  IN [word |-> [i \in Tokens |-> IF i \in done THEN Stored(op, i, st.word[i])
                                 ELSE st.word[i]],
      parsedBy |-> [i \in Tokens |-> IF i \in done THEN op ELSE st.parsedBy[i]],
      allocs |-> st.allocs + Cardinality({i \in reached : literal[i] = "escaped"}),
      ok |-> bad = 0]

\* Json::parse*(token) applied to the state st (the words, parsedBy and
\* allocs): the tokens of the subtree in depth-first order that the
\* operation acts on and does not skip are parsed one after the other;
\* the first invalid one ends the call with false, and the tokens parsed
\* before it keep their new state.
ParseCall(op, r, st) ==
  LET subtree == [k \in 1..Shape[r].count + 1 |-> r + k - 1]
      todo    == SelectSeq(subtree, LAMBDA i : Relevant(op, st.word[i])
                                               /\ ~Skipped(op, st.word[i]))
      bad     == SelectInSeq(todo, LAMBDA i : literal[i] \notin Valid(op))
      done    == ToSet(IF bad = 0 THEN todo ELSE SubSeq(todo, 1, bad - 1))
  IN [word |-> [i \in Tokens |-> IF i \in done THEN Stored(op, i, st.word[i])
                                 ELSE st.word[i]],
      parsedBy |-> [i \in Tokens |-> IF i \in done THEN op ELSE st.parsedBy[i]],
      allocs |-> st.allocs + Cardinality({i \in done : literal[i] = "escaped"}),
      ok |-> bad = 0]

-----------------------------------------------------------------------------
(* Json::fromString() and fromFile(): tokenizing, then the bulk calls the *)
(* options stand for, on the root.                                         *)

OptionSet == {"ParseLiterals", "ParseDoubles", "ParseFloats", "ParseStringKeys",
              "ParseStrings"}

\* Mutant: with both number options, ParseFloats runs after ParseDoubles.
OptionCallsFloatsLast(opts) ==
  (IF "ParseLiterals" \in opts THEN <<"Literals">> ELSE <<>>)
  \o (IF "ParseDoubles" \in opts THEN <<"Doubles">> ELSE <<>>)
  \o (IF "ParseFloats" \in opts THEN <<"Floats">> ELSE <<>>)
  \o (IF "ParseStrings" \in opts THEN <<"Strings">>
      ELSE IF "ParseStringKeys" \in opts THEN <<"StringKeys">> ELSE <<>>)

\* The bulk calls an option set stands for: ParseDoubles takes precedence
\* over ParseFloats, and ParseStrings implies ParseStringKeys.
OptionCalls(opts) ==
  (IF "ParseLiterals" \in opts THEN <<"Literals">> ELSE <<>>)
  \o (IF "ParseDoubles" \in opts THEN <<"Doubles">>
      ELSE IF "ParseFloats" \in opts THEN <<"Floats">> ELSE <<>>)
  \o (IF "ParseStrings" \in opts THEN <<"Strings">>
      ELSE IF "ParseStringKeys" \in opts THEN <<"StringKeys">> ELSE <<>>)

Tokenized == [word |-> [i \in Tokens |-> TokenizedWord(i)],
              parsedBy |-> [i \in Tokens |-> "none"], allocs |-> 0, ok |-> TRUE]

\* The document fromString(text, opts) returns; with ok false it prints an
\* error and returns NullOpt.
FromString(opts) ==
  LET Apply(acc, op) == IF acc.ok THEN ParseCall(op, 1, acc) ELSE acc
  IN FoldLeft(Apply, Tokenized, OptionCalls(opts))

\* A document loaded with any options that succeed.
Init ==
  /\ target \in Targets
  /\ literal \in Documents(Len(Shape))
  /\ \E opts \in SUBSET OptionSet :
       LET doc == FromString(opts) IN
       /\ doc.ok
       /\ word = doc.word
       /\ parsedBy = doc.parsedBy
       /\ allocs = doc.allocs

State == [word |-> word, parsedBy |-> parsedBy, allocs |-> allocs]

Parse(op, r) ==
  LET res == ParseCall(op, r, State) IN
  /\ word' = res.word
  /\ parsedBy' = res.parsedBy
  /\ allocs' = res.allocs
  /\ UNCHANGED <<target, literal>>

Next == \E op \in Ops, r \in Tokens : Parse(op, r)

Spec == Init /\ [][Next]_vars

-----------------------------------------------------------------------------
(* Properties                                                              *)

\* Type invariant; every string is unescaped into an owned buffer at most
\* once.
TypeOK ==
  /\ target \in Targets
  /\ literal \in [Tokens -> UNION {LiteralsOf(t) : t \in Types}]
  /\ word \in [Tokens -> Word]
  /\ parsedBy \in [Tokens -> Ops \cup {"none"}]
  /\ allocs \in 0..Cardinality({i \in Tokens : Shape[i].type = "String"})

\* Whatever sequence of bulk parse calls of different kinds ran, every
\* token still reports the type the tokenizer gave it and has a first
\* child exactly when it has children, and a token last parsed by
\* an operation passes the assertion of that operation's accessor
\* (isParsed() documents that a parsed value "can be accessed ... and the
\* call will not fail"): the payload written into the union never
\* corrupts the type, flags or child count read from the same word.
ParsedTokensDecode ==
  \A i \in Tokens :
    /\ TypeOf(word[i]) = Shape[i].type
    /\ HasFirstChild(word[i]) = (Shape[i].count > 0)
    /\ parsedBy[i] # "none" => AccessorAccepts(parsedBy[i], Shape[i].type, word[i])

\* In every reachable state, a bulk call that succeeds, repeated at once
\* on the same subtree, changes no token and allocates no string
\* (spec.md section 8, idempotence: already parsed tokens are skipped).
RepeatedParseIsNoOp ==
  \A op \in Ops, r \in Tokens :
    LET once == ParseCall(op, r, State)
        twice == ParseCall(op, r, once)
    IN once.ok => twice.word = once.word /\ twice.allocs = once.allocs

\* From every reachable state, a bulk call that returns true leaves every
\* token of its subtree that it acts on accessible through the matching
\* accessor (the documentation of Json::parse*(): "causes all ... tokens
\* in token and its children to become" the parsed type), whatever an
\* earlier call of another kind stored there.
SuccessfulCallParsesSubtree ==
  \A op \in Ops, r \in Tokens :
    LET once == ParseCall(op, r, State) IN
    once.ok =>
      \A i \in r..r + Shape[r].count :
        Relevant(op, TokenizedWord(i)) => AccessorAccepts(op, Shape[i].type, once.word[i])

\* fromString() with options fails exactly when a token one of them
\* covers is invalid, and otherwise returns a document in which every
\* covered token is accessible through the option's accessor: numbers as
\* doubles under ParseDoubles even together with ParseFloats, as floats
\* under ParseFloats alone, null and bool under ParseLiterals, keys under
\* ParseStringKeys and every string under ParseStrings.
FromStringHonoursOptions ==
  \A opts \in SUBSET OptionSet :
    LET doc == FromString(opts)
        Covers(i) ==
          CASE Shape[i].type \in {"Null", "Bool"} /\ "ParseLiterals" \in opts -> {"Literals"}
            [] Shape[i].type = "Number" /\ "ParseDoubles" \in opts -> {"Doubles"}
            [] Shape[i].type = "Number" /\ "ParseFloats" \in opts -> {"Floats"}
            [] Shape[i].type = "String" /\ "ParseStrings" \in opts -> {"Strings"}
            [] Shape[i].key /\ "ParseStringKeys" \in opts -> {"StringKeys"}
            [] OTHER -> {}
    IN /\ doc.ok <=> \A i \in Tokens : \A op \in Covers(i) : literal[i] \in Valid(op)
       /\ doc.ok => \A i \in Tokens : \A op \in Covers(i) :
                      AccessorAccepts(op, Shape[i].type, doc.word[i])

=============================================================================
