----------------------------- MODULE StringFind -----------------------------
(***************************************************************************)
(* Character search and count of Containers/StringView.cpp: the           *)
(* stringFindCharacter and stringCountCharacter implementations for each  *)
(* CPU (SSE2, AVX2, NEON, WASM SIMD128, scalar), picked once by the CPU    *)
(* dispatcher, and stringFindLastCharacter.                                *)
(*                                                                         *)
(* A haystack is the set of offsets (from data) of the bytes equal to the *)
(* searched character.  A vector compare + movemask is the set of         *)
(* matching lanes of the loaded window; tzcnt is its least element.  The  *)
(* 128-bit vectors have Lanes lanes and the 256-bit ones 2 * Lanes; the   *)
(* code's 16 and 32 are scaled down together, and so are the widths of    *)
(* the integers the lane masks are shifted in (int and unsigned: 32 bits, *)
(* twice the 128-bit lane count; unsigned long long: 64 bits).  Align is  *)
(* the address of data modulo the 256-bit vector size.                    *)
(*                                                                         *)
(* Every implementation returns its result together with the loads it     *)
(* performed, as [at |-> offset, width |-> lanes, aligned |-> BOOLEAN],   *)
(* and the variable shifts it performed, as [amount, bits].               *)
(***************************************************************************)
EXTENDS Naturals, Sequences, FiniteSets, FiniteSetsExt

CONSTANTS
  Lanes,       \* lanes of a 128-bit vector (16 in the code)
  MaxSize,     \* bound on the string size
  Haystacks(_),  \* the sets of matching offsets of a string of a size
  Cpus         \* the dispatched implementations checked

ASSUME /\ Lanes \in Nat \ {0} /\ MaxSize \in Nat
       /\ Cpus \subseteq {"avx2", "sse2", "neon", "wasm", "scalar"}

\* nullptr
NotFound == -1

\* The integer widths of the shifted masks: int / unsigned in the 128-bit
\* code and unsigned in the 256-bit code, and unsigned long long.
IntBits == 2 * Lanes
LongLongBits == 4 * Lanes

Load(at, w, aligned) == [at |-> at, width |-> w, aligned |-> aligned]
Shift(amount, bits) == [amount |-> amount, bits |-> bits]

\* _mm_movemask_epi8(_mm_cmpeq_epi8(chunk, vn1)) for the w-lane window at
\* offset at, as the set of matching lanes.
Mask(hay, at, w) == {k \in 0..(w - 1) : at + k \in hay}

\* The aligned pointer after data: (data + w) & ~(w - 1), as an offset.
AlignUp(w, align) == w - (align % w)

\* The scalar head for fewer bytes than a vector: the unrolled switch
\* (SSE2, WASM) or the loop (NEON), checking bytes in order.
ScalarFirstReturningJ(hay, size) ==
  IF hay \cap 0..(size - 1) = {} THEN NotFound ELSE Min(hay \cap 0..(size - 1)) + 1
ScalarFirst(hay, size) ==
  IF hay \cap 0..(size - 1) = {} THEN NotFound ELSE Min(hay \cap 0..(size - 1))

-----------------------------------------------------------------------------
(* stringFindCharacter                                                     *)

\* The index of the first set lane of a found mask: _tzcnt_u32 on x86 and
\* WASM; on NEON the mask has four bits per lane ("shift right and
\* narrow") and the lane is __builtin_ctzll(mask) >> 2.
FirstLaneWithoutShift(cpu, m) ==
  IF cpu = "neon" THEN Min({4 * k + b : k \in m, b \in 0..3}) ELSE Min(m)
FirstLane(cpu, m) ==
  IF cpu = "neon"
  THEN Min({4 * k + b : k \in m, b \in 0..3}) \div 4
  ELSE Min(m)

Found(res, loads) == [res |-> res, loads |-> loads, shifts |-> {}]

\* The handling of remaining less than a vector: an unaligned load ending
\* at end, overlapping with bytes already searched.
FindTail(cpu, w, hay, size, i, loads) ==
  IF i < size
  THEN LET m == Mask(hay, size - w, w)
           ls == Append(loads, Load(size - w, w, FALSE))
       IN Found(IF m # {} THEN size - w + FirstLane(cpu, m) ELSE NotFound, ls)
  ELSE Found(NotFound, loads)

\* Remaining less than four aligned vectors, one at a time.
RECURSIVE FindAligned1UntilEnd(_, _, _, _, _, _)
FindAligned1UntilEnd(cpu, w, hay, size, i, loads) ==
  IF i < size
  THEN LET m == Mask(hay, i, w)
           ls == Append(loads, Load(i, w, TRUE))
       IN IF m # {} THEN Found(i + FirstLane(cpu, m), ls)
          ELSE FindAligned1UntilEnd(cpu, w, hay, size, i + w, ls)
  ELSE FindTail(cpu, w, hay, size, i, loads)
RECURSIVE FindAligned1(_, _, _, _, _, _)
FindAligned1(cpu, w, hay, size, i, loads) ==
  IF i + w <= size
  THEN LET m == Mask(hay, i, w)
           ls == Append(loads, Load(i, w, TRUE))
       IN IF m # {} THEN Found(i + FirstLane(cpu, m), ls)
          ELSE FindAligned1(cpu, w, hay, size, i + w, ls)
  ELSE FindTail(cpu, w, hay, size, i, loads)

\* Byte j of NEON's vshrn_n_u16(eq, 4): lane 2j gives its low nibble and
\* lane 2j + 1 its high nibble, 0xf each when the lane matched.
NarrowedNibbles(m, j) ==
  (IF 2 * j \in m THEN 15 ELSE 0) + (IF 2 * j + 1 \in m THEN 240 ELSE 0)

\* vaddvq_u8(vorrq_u8(maskAB, maskCD)): maskAB holds the narrowed A in its
\* low half and B in its high half, maskCD likewise C and D; the OR of the
\* nibbles of A and C is the nibbles of the union of their lanes.  The
\* horizontal add is of uint8 lanes and wraps modulo 256.
NeonBlockSum(ms, w) ==
  LET half(m) == MapThenSumSet(LAMBDA j : NarrowedNibbles(m, j), 0..(w \div 2 - 1))
  IN (half(ms[0] \cup ms[2]) + half(ms[1] \cup ms[3])) % 256

\* The test of a four-vector block: NEON's horizontal add is non-zero; on
\* x86 and WASM the movemask or any_true of the OR of the four compares.
BlockHit(cpu, ms, w) ==
  IF cpu = "neon" THEN NeonBlockSum(ms, w) # 0
  ELSE \E k \in 0..3 : ms[k] # {}

\* Four aligned vectors at a time; if the block test passes, the first
\* vector with a match gives the position.
RECURSIVE FindAligned4(_, _, _, _, _, _)
FindAligned4(cpu, w, hay, size, i, loads) ==
  IF i + 4 * w <= size
  THEN LET ms == [k \in 0..3 |-> Mask(hay, i + k * w, w)]
           ls == loads \o [k \in 1..4 |-> Load(i + (k - 1) * w, w, TRUE)]
           hit == {k \in 0..3 : ms[k] # {}}
       IN IF BlockHit(cpu, ms, w)
          THEN Found(i + Min(hit) * w + FirstLane(cpu, ms[Min(hit)]), ls)
          ELSE FindAligned4(cpu, w, hay, size, i + 4 * w, ls)
  ELSE FindAligned1(cpu, w, hay, size, i, loads)

\* At least w bytes: an unaligned first vector, then aligned vectors from
\* the next aligned position (overlapping the first one unless data was
\* aligned).
FindVector(cpu, w, hay, size, align) ==
  LET m == Mask(hay, 0, w) IN
  IF m # {} THEN Found(FirstLane(cpu, m), <<Load(0, w, FALSE)>>)
  ELSE FindAligned4(cpu, w, hay, size, AlignUp(w, align), <<Load(0, w, FALSE)>>)

\* The SSE2+BMI1, NEON and WASM implementations: the scalar head below
\* one vector, the vector search otherwise.
FindSse2(hay, size, align) ==
  IF size < Lanes THEN Found(ScalarFirst(hay, size), <<>>)
  ELSE FindVector("sse2", Lanes, hay, size, align)

FindNeon(hay, size, align) ==
  IF size < Lanes THEN Found(ScalarFirst(hay, size), <<>>)
  ELSE FindVector("neon", Lanes, hay, size, align)

FindWasm(hay, size, align) ==
  IF size < Lanes THEN Found(ScalarFirst(hay, size), <<>>)
  ELSE FindVector("wasm", Lanes, hay, size, align)

\* AVX2+BMI1: below one 256-bit vector it delegates to the SSE2 variant.
FindAvx2(hay, size, align) ==
  IF size < 2 * Lanes THEN FindSse2(hay, size, align)
  ELSE FindVector("avx2", 2 * Lanes, hay, size, align)

\* The scalar implementation: std::memchr.
Memchr(hay, size) == Found(ScalarFirst(hay, size), <<>>)

\* stringFindCharacter(): the implementation the dispatcher picked.
FindCharacter(cpu, hay, size, align) ==
  CASE cpu = "avx2" -> FindAvx2(hay, size, align)
    [] cpu = "sse2" -> FindSse2(hay, size, align)
    [] cpu = "neon" -> FindNeon(hay, size, align)
    [] cpu = "wasm" -> FindWasm(hay, size, align)
    [] OTHER        -> Memchr(hay, size)

\* stringFindLastCharacter(): a backward loop from the last byte, skipped
\* for a null data pointer.
FindLastCharacter(hay, size, isNull) ==
  LET RECURSIVE Back(_)
      Back(i) == IF i < 0 THEN NotFound ELSE IF i \in hay THEN i ELSE Back(i - 1)
  IN IF isNull THEN NotFound ELSE Back(size - 1)

-----------------------------------------------------------------------------
(* stringCountCharacter                                                    *)

Counted(n, loads, shifts) == [res |-> n, loads |-> loads, shifts |-> shifts]

\* The number of set bits of the masks of k consecutive aligned vectors at
\* i, each shifted by w * j and or-ed into one 64-bit popcnt operand.
\* Movemask returns a signed int; the 256-bit two-vector loop widens it
\* with std::uint64_t(std::uint32_t(...)) so that a set top lane does not
\* sign-extend into the upper half.  The 128-bit masks have 16 bits and
\* are never negative.
SignExtend(m, w) == IF w - 1 \in m THEN m \cup (w..(2 * w - 1)) ELSE m
ZeroExtend(m, w) == m
Widened(k, w, m) == IF k = 2 /\ w = 2 * Lanes THEN ZeroExtend(m, w) ELSE m
CountVectors(k, w, hay, i) ==
  Cardinality(UNION {{j * w + b : b \in Widened(k, w, Mask(hay, i + j * w, w))} :
                     j \in 0..(k - 1)})

AlignedLoads(k, w, i) == [j \in 1..k |-> Load(i + (j - 1) * w, w, TRUE)]

\* for(; i + k*w <= end; i += k*w) count += popcnt(masks)
RECURSIVE CountLoop(_, _, _, _, _, _)
CountLoop(k, w, hay, size, i, acc) ==
  IF i + k * w <= size
  THEN CountLoop(k, w, hay, size, i + k * w,
          [acc EXCEPT !.res = @ + CountVectors(k, w, hay, i),
                      !.loads = @ \o AlignedLoads(k, w, i)])
  ELSE [acc EXCEPT !.i = i]

\* if(i + k*w <= end) { count += popcnt(masks); i += k*w; }
CountOnce(k, w, hay, size, acc) ==
  IF acc.i + k * w <= size
  THEN [acc EXCEPT !.res = @ + CountVectors(k, w, hay, acc.i),
                   !.loads = @ \o AlignedLoads(k, w, acc.i),
                   !.i = @ + k * w]
  ELSE acc

\* The unaligned first vector, masked to the bytes before the aligned i
\* with (1 << (i - data)) - 1 in an integer of the given width.
CountFirst(w, hay, i, bits) ==
  [res |-> Cardinality(Mask(hay, 0, w) \cap 0..(i - 1)),
   loads |-> <<Load(0, w, FALSE)>>, shifts |-> {Shift(i, bits)}, i |-> i]

\* The unaligned last vector ending at end, masked to the bytes from i
\* with ~((1 << (i + w - end)) - 1).
CountTail(w, hay, size, bits, acc) ==
  IF acc.i < size
  THEN LET cut == acc.i + w - size IN
       [acc EXCEPT !.res = @ + Cardinality({b \in Mask(hay, size - w, w) : b >= cut}),
                   !.loads = Append(@, Load(size - w, w, FALSE)),
                   !.shifts = @ \cup {Shift(cut, bits)}]
  ELSE acc

\* The scalar head of the SIMD variants and the scalar implementation.
CountScalar(hay, size) == Cardinality(hay \cap 0..(size - 1))

\* SSE2+POPCNT: four vectors at a time, then two, then one, then the tail.
CountSse2(hay, size, align) ==
  IF size < Lanes THEN Counted(CountScalar(hay, size), <<>>, {})
  ELSE LET first == CountFirst(Lanes, hay, AlignUp(Lanes, align), IntBits)
           four == CountLoop(4, Lanes, hay, size, first.i, first)
           two == CountOnce(2, Lanes, hay, size, four)
           one == CountOnce(1, Lanes, hay, size, two)
           r == CountTail(Lanes, hay, size, IntBits, one)
       IN Counted(r.res, r.loads, r.shifts)

\* WASM SIMD128: a direct translation of the SSE2 variant.
CountWasm(hay, size, align) == CountSse2(hay, size, align)

CountAvx2FirstInUnsigned(hay, size, align) ==
  IF size < 2 * Lanes THEN CountSse2(hay, size, align)
  ELSE LET w == 2 * Lanes
           first == CountFirst(w, hay, AlignUp(w, align), IntBits)
           two == CountLoop(2, w, hay, size, first.i, first)
           one == CountOnce(1, w, hay, size, two)
           r == CountTail(w, hay, size, IntBits, one)
       IN Counted(r.res, r.loads, r.shifts)

\* AVX2+POPCNT: below one 256-bit vector it delegates to SSE2; the first
\* mask is computed in unsigned long long, the tail mask in unsigned.
CountAvx2(hay, size, align) ==
  IF size < 2 * Lanes THEN CountSse2(hay, size, align)
  ELSE LET w == 2 * Lanes
           first == CountFirst(w, hay, AlignUp(w, align), LongLongBits)
           two == CountLoop(2, w, hay, size, first.i, first)
           one == CountOnce(1, w, hay, size, two)
           r == CountTail(w, hay, size, IntBits, one)
       IN Counted(r.res, r.loads, r.shifts)

\* stringCountCharacter(): NEON has no count variant and uses the scalar
\* loop.
CountCharacter(cpu, hay, size, align) ==
  CASE cpu = "avx2" -> CountAvx2(hay, size, align)
    [] cpu = "sse2" -> CountSse2(hay, size, align)
    [] cpu = "wasm" -> CountWasm(hay, size, align)
    [] OTHER        -> Counted(CountScalar(hay, size), <<>>, {})

-----------------------------------------------------------------------------
(* A caller: one call of stringFindCharacter(), stringCountCharacter() or *)
(* stringFindLastCharacter() on a string of the CPU the dispatcher found. *)

VARIABLES cpu, op, size, align, isNull, hay, result
vars == <<cpu, op, size, align, isNull, hay, result>>

NoResult == [res |-> NotFound, loads |-> <<>>, shifts |-> {}]

\* A StringView of size 0 may have a null data pointer; a non-empty one
\* never does.
Init == /\ cpu \in Cpus
        /\ op = "idle"
        /\ size \in 0..MaxSize
        /\ align \in 0..(2 * Lanes - 1)
        /\ isNull \in IF size = 0 THEN BOOLEAN ELSE {FALSE}
        /\ hay \in Haystacks(size)
        /\ result = NoResult

Call(o, r) == /\ op = "idle"
              /\ op' = o
              /\ result' = r
              /\ UNCHANGED <<cpu, size, align, isNull, hay>>

Find == Call("find", FindCharacter(cpu, hay, size, align))
Count == Call("count", CountCharacter(cpu, hay, size, align))
FindLast == Call("findLast", [NoResult EXCEPT !.res = FindLastCharacter(hay, size, isNull)])

Next == Find \/ Count \/ FindLast

Spec == Init /\ [][Next]_vars

-----------------------------------------------------------------------------
(* Reference definitions and properties                                    *)

Matches == hay \cap 0..(size - 1)
RefFirst == IF Matches = {} THEN NotFound ELSE Min(Matches)
RefLast == IF Matches = {} THEN NotFound ELSE Max(Matches)

Loads == [at : 0..MaxSize, width : {Lanes, 2 * Lanes}, aligned : BOOLEAN]

TypeOK == /\ cpu \in Cpus
          /\ op \in {"idle", "find", "count", "findLast"}
          /\ hay \subseteq 0..(size - 1)
          /\ result.res \in {NotFound} \cup 0..(MaxSize - 1)
          /\ result.loads \in Seq(Loads)
          /\ result.shifts \subseteq [amount : Int, bits : {IntBits, LongLongBits}]

\* Every SIMD variant, whatever its block structure, the alignment of the
\* data and the overlap of its first and last vectors with the aligned
\* ones, returns the first occurrence, as memchr does; the backward loop
\* returns the last one.
FindMatchesReference ==
  /\ op = "find" => result.res = RefFirst
  /\ op = "findLast" => result.res = RefLast

\* Every count variant counts each occurrence exactly once: the masked
\* first vector, the blocks of four, two and one aligned vectors and the
\* masked overlapping tail partition the string.
CountMatchesReference ==
  op = "count" => result.res = Cardinality(Matches)

\* Every vector load reads only bytes of the string, and every load the
\* code does with an aligned-load instruction is at an address aligned to
\* the vector size.
LoadsWithinString ==
  \A k \in DOMAIN result.loads :
    LET l == result.loads[k] IN
    /\ l.at >= 0
    /\ l.at + l.width <= size
    /\ l.aligned => (align + l.at) % l.width = 0

\* No mask is built with a shift by the width of its integer type or more
\* (undefined behaviour: x86 masks the shift amount, so 1 << 32 is 1).
ShiftsWithinWidth ==
  \A sh \in result.shifts : 0 <= sh.amount /\ sh.amount < sh.bits

=============================================================================
