# TLA+ models of Corrade's Debug output, JSON tokens and parsing, and StringView algorithms

This directory holds TLA+ specifications of parts of the Corrade sources under
`src/`, the TLC configurations that check them, and `PROJECT.json`. That file
lists the components, runs, mutants, the mapping from definitions to source
lines, the findings and the hazards.

## The system

The repository contains six source files:

| File | What it is |
|------|------------|
| `Utility/Debug.cpp` | The `Debug`, `Warning`, `Error` and `Fatal` output classes. Each instance redirects a per-thread global output (`debugGlobals`) for its lifetime, writes ANSI colour sequences and restores the previous colour and output on destruction. |
| `Utility/Assert.cpp` | `errorOutputForAssert()`, an `Error` constructed on the default error output. |
| `Utility/DebugStream.h` | A pointer wrapper between `std::ostream*` and the opaque `StreamFwd*`. |
| `Utility/Json.h` | The JSON tokenizer's public interface, plus the inline code of the token record: `type()`, `isParsed()`, `parsedType()`, `firstChild()`, `next()`, the `as*()` accessors and the object/array iterators. `Json.cpp` is not in the repository. The tokenizer and the selective parser are therefore described only by `spec.md`. |
| `Containers/StringView.cpp` | String-view algorithms: character search and count, with SSE2/AVX2/NEON/WASM/scalar variants; substring search; split, partition and join; prefix/suffix/trim; comparisons. |
| `Containers/Test/StaticArrayTest.cpp` | Tests of a container whose header is not in the repository. |

### How the Debug parts interact

* **Redirection.** `debugGlobals` holds the current `output`, `warningOutput` and `errorOutput`, plus the last colour written. Every constructor saves the globals it replaces, and every destructor puts them back.
* **Warning and Error.** These first run `Debug{flags}`, which saves and re-installs the current global output. They then save and replace their own global.
* **Colour.** Colour modifiers write an escape sequence to the instance's stream and record the colour globally. `resetColorInternal()` writes back the colour the instance saved when it was constructed.
* **Fatal.** `~Fatal` runs both cleanups and calls `std::exit`.

## Modules

### `DebugOutput.tla` (Debug.cpp)

State:
* `debugGlobals`: the struct `DebugGlobals`, with one colour record for `color`/`colorBold`/`colorInverted`.
* `stack`: the live instances, innermost last. Each holds `_output`, `_flags`, `_immediateFlags`, the saved outputs and colour, and whether a source location is pending.
* `shown`: the colour each output sink displays. All terminal streams share one sink, `"tty"`.
* `exited`: whether `std::exit` was called.

Actions, with the code each one models:

| Action | Code |
|--------|------|
| `Construct(kind, out, fl, loc)` | All constructors. An explicit stream, or `Inherit` for the flags-only forms. `loc` is `operator!` wrapping the temporary in a `DebugSourceLocation`. |
| `Color`, `InvertedColor` via `ColorModifier` | `colorInternal` / `invertedColorInternal`, including the early return without an output or with `DisableColors`. |
| `ResetColor` | The `resetColor` modifier, which calls `resetColorInternal`. |
| `PrintValue` | Any `operator<<` that goes through `print()`. |
| `PrintGreyShade` | `operator<<(unsigned char)`. With `Flag::Color` and without `DisableColors`, it ends with a raw `"\033[0m"`. |
| `SetFlags`, `SetImmediateFlags` | The setters. `setFlags` keeps the internal bits. |
| `ErrorOutputForAssert` | `errorOutputForAssert()` in Assert.cpp: an `Error` temporary on the default error output (`cerr`). |
| `Destroy(i)` | The destructor chain of live instance `i`, one of `Destructible`: `~Warning`, or `Error::cleanupOnDestruction`, then `Debug::cleanupOnDestruction`. For `~Fatal`, also the exit. |

With `NestedDestruction`, only the innermost instance is destroyed, as automatic storage duration guarantees. Without it, any live instance may be destroyed next: an instance in a `std::optional` or on the heap, or, in a build without `CORRADE_BUILD_MULTITHREADED` where `debugGlobals` is not thread_local, the innermost instance of another thread. With `InnermostOnly` they also only stream into the innermost instance, as one-expression temporaries do. Without it, an outer named instance can still be used while inner ones live.

Abstractions:
* The text written is not modelled here (`DebugFormat` models it). An escape sequence is modelled by its effect on `shown`.
* The `ValueWritten` flag only decides the trailing newline, so it is left out.
* Colours are `Default` plus one other. Which non-default colour is used does not matter to any property.

### `DebugRedirection.tla` (what Debug.cpp promises about redirection)

An abstract specification of scoped redirection, with no instances, flags or colours:
* `current` is the output each global names;
* `saved` is the stack of open scopes, each with its global, the output it saved and whether leaving it ends the program;
* `halted` says whether the program has ended.

`Enter` opens a scope on one global and installs an output. `Leave` closes the innermost scope, puts its saved output back and halts exactly when that scope was marked as ending the program.

`DebugOutput` implements it. `Redirection == INSTANCE DebugRedirection WITH ...` maps:
* `current` to the three outputs of `debugGlobals`;
* each live instance to a scope on the global of its kind (`output` for Debug, `warningOutput` for Warning, `errorOutput` for Error and Fatal), with the output it saved;
* `halted` to `exited`, with only Fatal scopes marked as exiting.

Every other Debug step (colours, prints, flags, the inner `Debug{flags}` of Warning/Error) must then be a stuttering step of the abstract specification. `RedirectionRefined == Redirection!Spec` is checked as a PROPERTY.

### `MCDebugOutput.tla`

Model values for the streams (`cout`, `cerr`, a non-terminal `buf`, `null`) and for the colours, plus the input sets per run.

### `DebugFormat.tla` (Debug.cpp, what one instance writes)

One instance, from construction to destruction, with the text it writes to its stream as a sequence of tokens. A token is a piece of text (`" "`, `"0x"`, `": "`, the escape-sequence pieces, `"newline"`, the source location) or a value of a kind (`"int"`, `"float"`, a string) with its base or precision. The instance record holds `_output`, `_flags` (with the internal `ValueWritten`), `_immediateFlags`, the pending source location, and the base and precision the stream is in.

| Definition | Code |
|------------|------|
| `Construct` | `Debug::Debug(output, flags)`: `_immediateFlags = NoSpace`; `DebugSourceLocation` sets the pending location. |
| `Flags`, `ImmediateFlags`, `SetFlags`, `SetImmediateFlags` | The four flag accessors; `setFlags()` keeps the bits above `PublicFlagMask`. |
| `PrintValue` = `PrintSourceLocation` then `WriteValue` | `print()`: nothing without an output; the pending `file:line: ` (or the internal assertion if `NoSpace` was cleared); a space unless `NoSpace`; `"0x"` and `std::hex` for an integral value under `Hex`; the value; `std::dec` back (`ResetBase`); `_immediateFlags` cleared and `ValueWritten` set. |
| `PrintFloat` | `operator<<(float)`, `(double)`: `std::setprecision()` on the stream, then `print()`. |
| `PrintUnsignedChar` | `operator<<(unsigned char)`: the number, the shade characters under `DisableColors`, or `"\033[38;2;"` followed by the ten prints of `ShadeSequence` under `flags() | NoSpace` and `setFlags()` back to the saved flags. |
| `CleanupOnDestruction` | The text part of `cleanupOnDestruction()`: a pending source location, then the newline if `ValueWritten` and not `NoNewlineAtTheEnd`. |

The actions (`PrintString`, `PrintInt`, `PrintFloatingPoint`, `PrintShade`, `SetFlagsCall`, `SetImmediateFlagsCall`, `Destruct`) apply one call to three copies of the instance:
* `debug` is the instance itself;
* `ref` draws a shade as one value, the reference the escape sequence is compared with;
* `fresh` starts on a stream with the default precision, while `debug` may start on a stream an earlier `operator<<(double)` left at double precision.

Colours and the global outputs are `DebugOutput`'s; this module leaves them out.

### `MCDebugWrites.tla`

Composes `DebugOutput` (through `MCDebugOutput`) and `DebugFormat` for the `debug_colors` run. The variable `part` chosen in `WritesInit` says which model a behaviour follows; the other model stays in a fixed idle state, so the state space is the sum of the two. The DebugFormat properties are re-exported under their own names.

### `MCStringView.tla`

Composes `StringFind` and `StringSplit` the same way for the `string_view` run, renaming their `op` and `result` variables through `INSTANCE ... WITH`. Its `AtMostTwoMatches` gives `StringFind`'s constant operator `Haystacks`: every string of a size with no, one or two occurrences of the character.

### `MCStringFind.tla`

Instantiates `StringFind` alone at the code's real width (`Lanes = 16`) for the `neon_block_wrap` run. `NeonWrapHaystacks` is the one 80-byte string with the character at every odd offset from 17 to 47.

### `JsonTokens.tla` (Json.h, with the tokenizer from spec.md)

`Json.cpp` is not in the repository. The tokenizer is therefore modelled from `spec.md` §4.2 (its definitions are marked `spec_modelled` in `PROJECT.json`). Token navigation is modelled from the inline code of `Json.h`.

* **Input.** A bounded stream of symbols: brackets, `,`, `:`, a string `s` and a number `n`.
* **State.** `text` is the symbols read so far. `tokens` is the token array: type, whether a string is a key, and the child count. `stack` is the indices of open containers and waiting keys. `expect` is what the grammar allows next. `result` is `"scan"`, `"ok"` or `"error"`.
* **Actions.** One per kind of symbol: `OpenContainer`, `Scalar`, `Key`, `Colon`, `Comma`, `Close`. A value that ends backpatches the child count of the key waiting for it. `Close` backpatches the container's count. `Reject` takes any symbol the grammar does not allow. `Finish` accepts a complete document.
* **Navigation.** `FirstChild`, `NextToken` (`next()` as `this + childCount + 1`), `IteratorWalk` and `Items` (the iterators), and `Unparse`, which rebuilds text from tokens. `Children` is the child range of `children()`. `Parent` is `parent()`: the nearest earlier token whose range contains the token. `FindIndex` is `find(std::size_t)` of an array: it walks `next()` from the first child and answers 0 (null) at the array's end.
* **Reference.** A recursive-descent grammar, `RefDocument`.

### `JsonParse.tla` (Json.h token storage, with the selective parser from spec.md)

The document is a fixed token array (`Shape`: type, key flag, child count) whose scalar tokens get a literal class in `Init` (`small`, `negative`, `big`, `big53`, `huge`, `fraction`, `overflow` for numbers; `true`/`null`; `plain`/`escaped` strings; `invalid` for text the parser rejects). `target` is the build: 64-bit, or 32-bit little- or big-endian.

* **State.** `word` is each token's storage as a record of the bits the decoders read: the NaN exponent bits (32-bit only), the type, `FlagParsed`, the parsed type, `FlagStringKey` and the payload (the child count, or `Written` once a parsed value overwrites it). `parsedBy` is the operation that last stored into the token. `allocs` counts owned string buffers.
* **Decoders.** `TypeOf`, `IsParsed`, `ParsedTypeOf`, `HasFirstChild` and `AccessorAccepts` translate `type()`, `isParsed()`, `parsedType()`, `firstChild()` and the assertions of `asNull()` … `asSize()` for both layouts.
* **Parse.** `Parse(op, r)` is one bulk call (`parseLiterals`, `parseDoubles`, `parseFloats`, `parse(Unsigned)Ints`, `parse(Unsigned)Longs` on 64-bit, `parseSizes`, `parseStrings`) on the subtree of token `r`. It skips tokens of other types and tokens already parsed as the requested kind, stops at the first token it cannot convert, and stores what the spec says it stores, through the union member of the value's C++ type. `NarrowWrite` is the byte-order rule: a member narrower than the word lands on the NaN/type bytes on a big-endian 32-bit target. These parse rules are `spec_modelled`, because `Json.cpp` is not in the repository.
* **fromString options.** `Init` also picks a set of `Json::Option`s. `OptionCalls` is the order in which `Json::fromString()` runs the bulk calls for them: literals; then doubles, or floats if doubles were not asked for; then strings, or string keys only. `FromString` folds those calls over the freshly tokenized document and stops at the first failing one, so the initial state is the document `fromString` returns (or the failure).

### `MCJsonParse.tla`

The document `{"a": [1, true, null, "s"]}` (7 tokens: an object, a key, an array and one scalar of each kind), the literal sets and the target sets.

### `MCJson.tla`

Composes `JsonTokens` and `MCJsonParse` the same way for the `json` run. In the `tokenize` part the parse model rests on the first document loaded without options (`ParseIdle`); in the `parse` part the tokenizer stays at its initial state. The parse-side properties are guarded by `part = "parse"`, so TLC evaluates them only in parse states.

### `StringFind.tla` (StringView.cpp, character search and count)

Each CPU variant of `stringFindCharacter` and `stringCountCharacter` is an operator that follows the code's block structure:
* the scalar head below one vector;
* the unaligned first vector;
* aligned blocks of four vectors (two for the AVX2 count), then single vectors;
* the overlapping unaligned tail.

Modelling choices:
* A haystack is the set of offsets that match. A movemask is the set of matching lanes in a window. `_tzcnt`/`__builtin_ctz` is the least lane. The NEON nibble mask takes `ctzll >> 2`.
* The four-vector block test is `BlockHit`. On x86 and WASM it is the movemask or `any_true` of the OR of the four compares, so it is "some lane matched". On NEON it is `vaddvq_u8(vorrq_u8(maskAB, maskCD))` (line 554): `NarrowedNibbles` is one byte of `vshrn_n_u16(eq, 4)` (0x0f for an even lane, 0xf0 for an odd one), and `NeonBlockSum` adds the sixteen bytes of the OR modulo 256, as the `uint8` lanes do.
* Vector widths are scaled down together. 128-bit vectors have `Lanes` lanes and 256-bit ones have `2 * Lanes`. The integer widths the masks are shifted in scale with them: `int`/`unsigned` has `2 * Lanes` bits and `unsigned long long` has `4 * Lanes`.
* Every operator also returns the loads it made and the variable shifts it performed.
* A one-call caller picks the CPU, the size, the alignment of `data` and the haystack (from the constant operator `Haystacks`) in `Init`. Its three actions (`Find`, `Count`, `FindLast`) call the dispatched functions.

### `StringSplit.tla` (StringView.cpp, search, split, partition, join, comparisons, affixes)

Strings are sequences over two byte values, and pointers are offsets. The module covers:
* `stringFindString`/`stringFindLastString` and the four `stringFind*Any` loops;
* `split(char)`, `split(StringView)`, `splitWithoutEmptyParts` and `splitOnAnyWithoutEmptyParts`;
* `partition`/`partitionLast`;
* `join`/`joinWithoutEmptyParts`, `operator+` (`Concat`) and `operator*` (`Repeat`). These are modelled down to their `memcpy` calls into the precomputed buffer;
* the comparison operators (`Compare`: `memcmp` of the common prefix, then the sizes);
* `hasPrefix`/`hasSuffix` of a view and of a character, and `exceptPrefix`/`exceptSuffix` of a view, including their assertion.

Every byte a search reads goes through `ByteAt`, which answers `OutOfView` outside the view and records the offset. `stringFindLastString` and the backward `*Any` loops return the set of offsets they read together with the index.

A one-call caller enumerates the inputs, with one action per function. The properties compare the results with independent recursive definitions:
* `Pieces`: greedy leftmost prefix stripping;
* `RefJoin`;
* first and last occurrence as minimum and maximum of a set;
* `LexLess`, a recursive lexicographic order, and `IsPrefix`/`IsSuffix` of SequencesExt.

## Runs

| Run | Expect | What it shows |
|-----|--------|---------------|
| `debug_scopes` | pass | Up to 3 nested instances of every kind are constructed on cout or cerr, explicitly or inherited, with source locations, prints, grey shades and `errorOutputForAssert()` temporaries. After every step, each global output is the one installed by the innermost live instance of its kind (`ScopedGlobalOutputs`), and the whole behaviour implements the abstract `DebugRedirection` specification (`RedirectionRefined`): no step other than a construction or destruction changes a global output, and the program exits exactly when a Fatal is destroyed. |
| `debug_colors` | pass | In the `instances` part, two nested temporaries (Debug or Fatal) on the terminal use every colour modifier, resets, `setFlags` and `setImmediateFlags`. Once all are destroyed, every sink and `debugGlobals` are in the default colour again (`ColorsRestoredWhenIdle`). A saved colour is never both bold and inverted (`NeverBoldAndInverted`, the internal assertion at line 285). The colour in `debugGlobals` is always the colour on screen (`TerminalShowsTrackedColor`). In the `format` part, one instance on cout or a null stream, with any single flag, a pending location or not, and a stream at default or double precision, takes up to 3 calls and is destroyed. Its text ends with exactly one newline when it wrote anything, unless `NoNewlineAtTheEnd`, however `setFlags()` was called in between (`NewlineEndsWrittenText`). A grey shade is one value: with the escape sequence collapsed the text equals the reference, with no space inside the sequence and the caller's flags back (`ShadeIsOneValue`). An integer is hex exactly after `"0x"`, and the stream is back in decimal (`HexOnlyWhereMarked`). A pending location is written once, first, with `": "` exactly when a value follows (`SourceLocationLeads`). The text does not depend on the precision the stream was left in (`OutputIndependentOfStreamPrecision`). |
| `debug_shade_reset` | violation | Adding grey shades breaks `TerminalShowsTrackedColor`. The shade's `"\033[0m"` is not recorded. |
| `debug_stale_color` | violation | With named instances and a string buffer among the streams, the colour an instance saved at construction is stale by the time it restores it: after an outer reset, or when a buffer instance saved the terminal's colour. The output stays coloured when every instance is gone. |
| `debug_location_assert` | violation | `setImmediateFlags({})` on a `!Debug{}` temporary reaches the internal assertion at lines 506/566. |
| `debug_unnested` | violation | Without `NestedDestruction`: two Debug instances redirect the global output, and the outer one is destroyed first. Its destructor puts back the output it saved (line 520) while the inner redirection is still live, so `ScopedGlobalOutputs` fails; destroying the inner one afterwards re-installs the stream of the instance already gone. This is what two threads do to a shared `debugGlobals` in a build without `CORRADE_BUILD_MULTITHREADED`, and what an instance in a `std::optional` does. |
| `json` | pass | In the `tokenize` part, every symbol stream of up to 11 symbols: the tokenizer accepts exactly the documents of the reference grammar and produces its tokens (`TokenizerMatchesGrammar`). Walking the tokens with `firstChild()`/`next()` and the iterators rebuilds the text (`NavigationReconstructsText`). `parent()`, `children()` and `find(index)` agree with each other and with the iterators for every token (`NavigationIsConsistent`). In the `parse` part, on the 64-bit and the 32-bit little-endian layouts, every sequence of bulk parse calls of every kind on every subtree, over every combination of literal classes except out-of-range numbers: every token keeps its type and `firstChild()` answer, and a token some call parsed is accepted by its accessor (`TokensDecode`); repeating a successful call changes nothing (`RepeatedCallIsNoOp`); a successful call leaves every token of its kind in the subtree readable (`CallParsesSubtree`); owned strings are allocated at most once per string token (`ParseTypeOK`). For every option set, `fromString` succeeds exactly when every literal its options cover is valid, and then each covered token reads back through its accessor (`FromStringHonoured`). |
| `json_key_count` | violation | The `childCount()` documentation says an object key's count is always 1. In a token array laid out as spec.md describes, the key's count covers its whole value subtree, so `{"s":["s"]}` gives a key count above 1. |
| `json_infinity_32` | violation | On 32-bit, `parseDoubles()` on the literal `1e999` stores infinity, whose bits are the NaN box; `type()` then no longer reports Number and `asDouble()` asserts. |
| `json_big_endian_32` | violation | On 32-bit big-endian, `parseLiterals()` on `true` stores `_parsedBool` over the NaN/type bytes; `type()` reports Number and `asBool()` asserts. |
| `string_view` | pass | In the `find` part: all five find and count variants, for sizes up to 40, every alignment and up to two matches, return memchr's result and the exact count (`FindMatchesReference`, `CountMatchesReference`). They load only bytes of the string, with aligned loads aligned (`LoadsWithinString`). They never shift a mask by its integer's width or more (`ShiftsWithinWidth`). In the `split` part: searches, splits and partitions of every string up to 6 bytes, and joins of up to 3 strings, match the reference definitions (`SearchMatchesReference`, `SplitMatchesReference`, `PartitionAtOccurrence`, `JoinMatchesReference`). `join()`, `operator+` and `operator*` write exactly their allocated buffer, so the `out == end` assertions hold (`JoinFillsBuffer`). The backward searches read only bytes of the view (`LastSearchesReadWithinView`). The six comparison operators agree with lexicographic order on every pair of strings up to 3 bytes (`ComparisonsMatchLexicographicOrder`). The affix tests and `exceptPrefix`/`exceptSuffix` match `IsPrefix`/`IsSuffix` and assert exactly when the affix is absent (`AffixesMatchReference`). |
| `neon_block_wrap` | violation | At the code's 16-byte width, NEON `stringFindCharacter()` on an 80-byte string with the character at every odd offset from 17 to 47 ("a,a,a,..." searched for `,`) returns nullptr. The block test adds sixteen `0xf0` bytes, 0xf00, which is 0 in 8 bits, so the four vectors holding every match are skipped. The comment at line 552 presents the one OR and horizontal add as equivalent to ORing all four masks; the wrap makes it not. |

`CHECK_DEADLOCK FALSE` is set in every Debug configuration, because `~Fatal` ends the program and no step follows. The JSON and StringView callers also set it: they make one call and stop. There are no liveness properties and no fairness is assumed. In the default build `debugGlobals` is thread_local, so each thread has its own nesting (the shared case is the `debug_unnested` run). Every operation is synchronous and every loop in it is bounded by the size of its input, so nothing is ever waited for; termination of a call is a property of each operator being a finite definition, which TLC evaluates.

### Bounds

* **Nesting depth.** Redirection and its refinement are checked to depth 3, which nests a Warning or Error (itself two saves) inside another scope and a Fatal around both. The colour runs are checked to depth 2: the save/restore pairs need two levels to go wrong. Depth 3 with all colour operations and flags takes several million states and exceeds the run budget.
* **Kinds and streams.** The colour runs construct `Debug` and `Fatal` only. Warning and Error share `Debug`'s colour code, so two kinds are enough there. Redirection uses all four kinds and four stream choices.
* **JSON.** Streams of 11 symbols are enough for two levels of nesting, a key with a container value and a trailing comma. Seven symbols are enough for the key-count counterexample.
* **JsonParse.** Seven tokens hold one scalar of every type, a key and two container levels, so a call on the root, on the array and on a single scalar all differ, and a key's `firstChild()` is exercised. Every literal class is tried on every scalar, and every call is tried in every order; the parse state a token can reach only depends on the calls made on it, so longer documents add no case.
* **DebugFormat.** Three calls per instance reach every pair of a flag change and a value, and a source location, a value and a second value with the flag change between them; a shade is ten inner prints, so one call already writes fourteen tokens. Each constructor or setter call passes one flag or none; flags combine across calls, for example `Hex` from the constructor with `Color` from `setImmediateFlags()`, which draws a shade with hex integers.
* **StringFind.** `Lanes = 2`, so AVX2 vectors have 4 lanes. Sizes up to 40 run the 256-bit four-vector search loop twice after the unaligned first vector, and cover every size below, at, and between block boundaries. `align` covers every residue modulo the 256-bit width. Up to two matches are enough for one match to shadow another in the same or a later block. The properties concern block boundaries, alignment, and lane positions relative to the mask width. None of these depends on the absolute lane count, so scaling the widths down together keeps every case, except one: the NEON block sum has `Lanes / 2` bytes per mask half, and at `Lanes = 2` no combination of them wraps modulo 256; a wrap needs sixteen matching even or odd lanes. The `neon_block_wrap` run therefore uses the real `Lanes = 16` on the one size and haystack that shows it, since the full space of haystacks at that width is far beyond TLC.
* **StringSplit.** Two byte values let a delimiter both occur and not occur, and let two-byte delimiters overlap. Six bytes hold three delimiters. Joins of three strings put empty strings first, last and in the middle. Comparisons and affix tests take every pair of strings of up to 3 bytes, so equal, prefix, longer and shorter pairs all occur; `operator*` takes counts 0 to 3.
* **fromString.** Every subset of the five options is tried; with the literal classes this covers a covered invalid literal, an uncovered one, and float/double and string/string-key alternatives.

## Mutants

Each property of a passing run is shown to fail under a mutant of the code it is about. Each mutant operator sits right before the definition it replaces. `PROJECT.json` pairs each one with its property. The Debug mutants are:
* `ConstructWithoutInherit`: the flags-only constructors do not read the global.
* `ConstructSavingAfterAssign`: the saved output is taken after the assignment.
* `ColorModifierWithoutMark`: `ColorWritten` is not set.
* `InvertedColorKeepingBold`: `colorBold` is not cleared.
* `ResetColorOutputOnly`: `debugGlobals` is not updated.
* `DestroyWithoutExit`: `~Fatal` does not exit (breaks the refinement).

The DebugFormat mutants are:
* `SetImmediateFlagsKeepingInternal`: `ValueWritten` leaks into `_immediateFlags` (`FormatTypeOK`).
* `SetFlagsDroppingInternal`: `setFlags()` assigns `_flags` outright, so the trailing newline is lost.
* `PrintUnsignedCharKeepingNoSpace`: the saved flags are not set back after the shade.
* `ResetBaseAfterClear`: `std::dec` is only written when `Hex` is still set after `_immediateFlags` was cleared.
* `PrintSourceLocationKeepingPending`: `_sourceLocationFile` is not reset after printing.
* `PrintFloatKeepingPrecision`: no `std::setprecision()`.

The others:
* **JSON.** `OpenContainerPushingOldLength`, `CloseAnyBracket` (no bracket-type check), `FirstChildWithoutKey`.
* **JsonParse.**
  * `TypeOfIgnoringNan`: 32-bit `type()` without the NaN check.
  * `HasFirstChildWithoutKey`: `firstChild()` ignores `FlagStringKey`.
  * `OpTypeSizeAsLong`: `parseSizes()` stores a long on 32-bit.
  * `SkippedWhenParsed`: a token parsed as any kind is skipped.
  * `ParseCallAllocatingSkipped`: skipped strings are still copied.
* **StringFind.**
  * `ScalarFirstReturningJ`: `return j` instead of `j - 1` after the post-increment.
  * `FirstLaneWithoutShift`: NEON `ctzll` without `>> 2`.
  * `FindAligned1UntilEnd`: `i < end` instead of `i + 16 <= end`.
  * `SignExtend`: no `uint32` cast.
  * `CountAvx2FirstInUnsigned`: `1u` instead of `1ull`.
* **StringSplit.**
  * `StringFindStringBeforeLast`: `data < max`.
  * `SplitAlwaysSuffix`: no `isEmpty()` check.
  * `PartitionLastSwapped`: partition's not-found order.
  * `JoinLoopCopyingEmpty`: no `if(stringSize)`.
  * `JoinLoopAlwaysDelimiting`: no `out != end`.
  * `JoinWithoutEmptyPartsUntrimmed`: no `totalSize -= delimiterSize`.
  * `StringFindLastStringFromEnd`: the backward search starts one byte too late.
  * `StringFindLastAnyScanAtI`: the backward loop tests `*i` instead of `*(i - 1)`.
  * `CompareLessEqualStrict`: `<=` computed with `<`.
  * `HasSuffixStrict`: `size <= suffix.size()` returns false.
* **JSON navigation and options.** `ParentOutermost`: `parent()` picks the outermost enclosing token. `OptionCallsFloatsLast`: `ParseFloats` runs even when `ParseDoubles` was given.

## Not modelled

* **isTty and the WINAPI console colour path.** These are environment queries. The set of terminal streams is a constant instead.
* **Hex inside the grey-shade escape sequence.** With `Flag::Hex` in `_flags` and `Flag::Color`, the integers of the SGR sequence (line 633) are printed as `0x..`, which a terminal does not read as a colour. `HexOnlyWhereMarked` accepts this, because the code marks those integers; no run checks the stricter rule, which would need a separate violation run.
* **Float precision left on the stream.** `operator<<(float)` and `(double)` never restore the stream's precision, so plain `std::cout << x` after a Debug on cout prints with Debug's precision. Writes to the stream outside Debug are not modelled; within Debug, `OutputIndependentOfStreamPrecision` checks that this leftover never matters.
* **Value spellings.** Digits, `char32_t` as `U+XXXX`, and the `Color` names are not modelled: a value is a token of its kind and base.
* **StaticArrayTest.cpp.** It is test code.
* **JSON on-the-fly parsing.** `parseObject()`, `parseArray()`, the `parse*()` calls that return `Containers::Optional` and `fromFile` are in `Json.cpp`, which is not in the repository; the bulk calls and `fromString`'s options are modelled from their documentation.
* **JSON queries.** `asString()`, the `as*Array()` views and `find(StringView)` are read-only and depend on string contents, which are abstracted; `parent()`, `children()` and `find(std::size_t)` are modelled.
* **Literal text.** Number and string text is abstracted to the classes the parse rules tell apart; the conversion itself (`strtod`, escape decoding) is in `Json.cpp`.
* **Inline StringView members.** The `trimmed*` family and `exceptPrefix(std::size_t)` are inline members of `StringView.h`, which is not in the repository.
* **Pointer formation.** `stringFindLastString` and `stringFindLastCharacter` form `data - 1` (see the hazards). Pointers are offsets in the model, so forming that pointer is not represented; what the run checks is that no byte outside the view is read.
* **DebugStream.h.** A pointer conversion with no state of its own: a stream is a model value, and `Null` is the null `DebugStream` whose `operator StreamFwd*` every `if(!_output)` tests.
* **`Error::isDefaultErrorOutput`.** A read-only query.

## Plan

1. Done: the Debug scopes and colours.
2. Done: the JSON tokenizer (from spec.md) and token navigation (from Json.h), checked against a recursive reference grammar. This includes the key child count counterexample.
3. Done: StringView character search and count, all CPU variants.
4. Done: StringView substring search, split, partition and join.
5. Done: the JSON selective parser (from spec.md §4.3) and the token layouts of `Json.h` on 64-bit, 32-bit and 32-bit big-endian targets, with two findings.
6. Done: the abstract redirection specification and its refinement by `DebugOutput`.
7. Done: comparisons, affixes, `operator+`/`operator*`, read tracking of the backward searches, `parent()`/`children()`/`find(index)`, `fromString` options and `errorOutputForAssert()`.
8. Done: Debug value formatting (`DebugFormat`): spacing, hex, source location, float precision, the grey-shade sequence and the trailing newline.
9. Done: out-of-order destruction and shared globals (`debug_unnested`).
10. Later: the `Debug::Flag::Packed` container printing and `operator<<` of containers, which live in `Debug.h` and are not in the repository.
8. Done: the NEON block test at its real 8-bit width, with a finding; the two JSON pass runs composed into one.
