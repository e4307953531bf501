------------------------------ MODULE Datapath ------------------------------
(***************************************************************************)
(* How the generated simulation computes with values of any size: ValR     *)
(* (simValType.h) chooses the C++ type that holds a value and the mask that*)
(* keeps it in its size, expressionSimEngine and LogicSimEngine compose    *)
(* them into the statements of a cycle.                                    *)
(*                                                                         *)
(* A register of "size" bits is loaded, cycle after cycle, with expressions*)
(* of its own value and an operand.  The model runs them with a word of    *)
(* WordBits bits where the code has 64, and with Natives for 8, 16, 32, 64.*)
(***************************************************************************)
EXTENDS Integers, Sequences, SequencesExt, FiniteSetsExt, Bitwise

CONSTANTS
  WordBits,  (* bitSizeOfUll                                                *)
  Natives,   (* the sizes of the C++ types of at most a word                *)
  Sizes,     (* the sizes of registers that are checked                     *)
  SliceFrom  (* the sizes of registers a slice is taken from                *)

ASSUME DatapathAssumption ==
  /\ WordBits \in Nat \ {0}
  /\ Natives \subseteq 1..WordBits /\ WordBits \in Natives
  /\ Sizes \subseteq Nat \ {0} /\ SliceFrom \subseteq Nat \ {0}

VARIABLES
  size,   (* the size of the register                                       *)
  acc,    (* its value in the simulation                                    *)
  ref     (* history: the number a register of that size would hold         *)

vars == <<size, acc, ref>>

-----------------------------------------------------------------------------
(* A value of more than 64 bits: UintX<arrSize> of logicRep/valRep.h, a     *)
(* function from the positions 0..arrSize-1 (the least significant first)   *)
(* to words.  The loops over the words are kept where a result passes from  *)
(* one word to the next.                                                    *)

Base    == 2 ^ WordBits
AllOnes == Base - 1

Zero(n)        == [i \in 0..(n-1) |-> 0]
FromWord(n, x) == [Zero(n) EXCEPT ![0] = x]

(* The conversion to a value of n words.                                    *)
Resize(v, n) == [i \in 0..(n-1) |-> IF i \in DOMAIN v THEN v[i] ELSE 0]

BitAnd(u, v) == [i \in DOMAIN u |-> u[i] & v[i]]
BitOr(u, v)  == [i \in DOMAIN u |-> u[i] | v[i]]
BitXor(u, v) == [i \in DOMAIN u |-> u[i] ^^ v[i]]
BitNot(u)    == [i \in DOMAIN u |-> AllOnes - u[i]]

(* A word shifted left is cut to a word; what it loses is the high plate,   *)
(* which goes to the next word.                                             *)
Shl(v, amt) ==
  LET full == amt \div WordBits
      part == amt % WordBits
      low(i)  == IF i \in DOMAIN v THEN (v[i] * 2^part) % Base ELSE 0
      high(i) == IF i \in DOMAIN v /\ part # 0 THEN v[i] \div 2^(WordBits - part) ELSE 0
  IN  [i \in DOMAIN v |-> low(i - full) | high(i - full - 1)]

Shr(v, amt) ==
  LET full == amt \div WordBits
      part == amt % WordBits
      low(i)  == IF i \in DOMAIN v /\ part # 0 THEN (v[i] * 2^(WordBits - part)) % Base ELSE 0
      high(i) == IF i \in DOMAIN v THEN v[i] \div 2^part ELSE 0
  IN  [i \in DOMAIN v |-> low(i + full + 1) | high(i + full)]

(* The carry out of a word is read off its sum: a sum smaller than one of   *)
(* the words has wrapped.                                                   *)
Overflows(sum, x, y) == sum < x \/ sum < y

Add(u, v) ==
  LET sum(i, c) == (u[i] + v[i] + c) % Base
      carry[i \in DOMAIN u] ==
        IF i > 0 /\ Overflows(sum(i-1, carry[i-1]), u[i-1], v[i-1]) THEN 1 ELSE 0
  IN  [i \in DOMAIN u |-> sum(i, carry[i])]

Sub(u, v) == Add(Add(u, BitNot(v)), [i \in DOMAIN u |-> IF i = 0 THEN 1 ELSE 0])

(* Row i of the schoolbook multiplication, added to the rows before it.     *)
AddRow(sofar, u, v, i) ==
  LET step(s, k) ==
        LET j   == k - 1
            cur == u[i] * v[j] + s.sum[i+j] + s.carry
        IN  [sum |-> [s.sum EXCEPT ![i+j] = cur % Base], carry |-> cur \div Base]
      columns == [k \in 1..(Cardinality(DOMAIN u) - i) |-> k]
  IN  FoldLeft(step, [sum |-> sofar, carry |-> 0], columns).sum

Mul(u, v) ==
  LET n == Cardinality(DOMAIN u)
  IN  FoldLeft(LAMBDA s, k : AddRow(s, u, v, k - 1), Zero(n), [k \in 1..n |-> k])

(* The scans from the most significant word downwards stop at the first     *)
(* word that differs.                                                       *)
Differ(u, v)    == {i \in DOMAIN u : u[i] # v[i]}
Less(u, v)      == Differ(u, v) # {} /\ u[Max(Differ(u, v))] < v[Max(Differ(u, v))]
LessEqual(u, v) == Differ(u, v) = {} \/ Less(u, v)

(* Long division, one bit of u at a time from the top.                      *)
DivMod(u, v) ==
  LET n == Cardinality(DOMAIN u)
      step(s, bit) ==
        LET w == bit \div WordBits
            b == bit % WordBits
            down == [Shl(s.r, 1) EXCEPT ![0] = @ | ((u[w] \div 2^b) % 2)]
        IN  IF LessEqual(v, down)
            THEN [q |-> [s.q EXCEPT ![w] = @ | 2^b], r |-> Sub(down, v)]
            ELSE [q |-> s.q, r |-> down]
  IN  FoldLeft(step, [q |-> Zero(n), r |-> Zero(n)], [k \in 1..(n * WordBits) |-> n * WordBits - k])

(* "ones" ones from bit "start" on, in a value of n words that was 0.       *)
BuildMask(n, ones, start) ==
  LET top  == ones \div WordBits
      part == 2^(ones % WordBits) - 1
  IN  Shl([i \in 0..(n-1) |-> IF i < top THEN AllOnes ELSE IF i = top THEN part ELSE 0], start)

(* getBiValue *)
IsTrue(v) == \E i \in DOMAIN v : v[i] # 0

-----------------------------------------------------------------------------
(* The type of a value is the number of bits it occupies: that of the       *)
(* smallest native type, or of an array of words.                           *)
ArrSize(n)  == (n + WordBits - 1) \div WordBits
TypeFor(n)  == IF n <= WordBits THEN Min({t \in Natives : t >= n}) ELSE WordBits * ArrSize(n)
IsWide(t)   == t > WordBits
Length(t)   == t \div WordBits
Cut(t, x)   == x % 2^t

(* buildMask of ValR.  The whole word has INT64_MAX for its mask.           *)
Mask(t, n, start) ==
  IF IsWide(t)         THEN BuildMask(Length(t), n, start)
  ELSE IF n = WordBits THEN Cut(t, (2^(WordBits - 1) - 1) * 2^start)
  ELSE                      Cut(t, (2^n - 1) * 2^start)

(* The C++ operators: those of UintX, or those of the native types, whose   *)
(* result is cut to the type when it is masked or stored.                   *)
Both(t, a, b)    == IF IsWide(t) THEN BitAnd(a, b) ELSE a & b
Either(t, a, b)  == IF IsWide(t) THEN BitOr(a, b)  ELSE a | b
OneOf(t, a, b)   == IF IsWide(t) THEN BitXor(a, b) ELSE a ^^ b
Invert(t, a)     == IF IsWide(t) THEN BitNot(a)    ELSE 2^t - 1 - a
Left(t, a, n)    == IF IsWide(t) THEN Shl(a, n)    ELSE Cut(t, a * 2^n)
Right(t, a, n)   == IF IsWide(t) THEN Shr(a, n)    ELSE a \div 2^n
Plus(t, a, b)    == IF IsWide(t) THEN Add(a, b)    ELSE Cut(t, a + b)
Minus(t, a, b)   == IF IsWide(t) THEN Sub(a, b)    ELSE Cut(t, a - b)
Times(t, a, b)   == IF IsWide(t) THEN Mul(a, b)    ELSE Cut(t, a * b)
Over(t, a, b)    == IF IsWide(t) THEN DivMod(a, b).q ELSE a \div b
Rest(t, a, b)    == IF IsWide(t) THEN DivMod(a, b).r ELSE a % b
Below(t, a, b)   == IF IsWide(t) THEN Less(a, b)      ELSE a < b
AtMost(t, a, b)  == IF IsWide(t) THEN LessEqual(a, b) ELSE a <= b
NonZero(t, a)    == IF IsWide(t) THEN IsTrue(a)       ELSE a # 0

(* A literal of type t (UintX<n>({w0, w1, ..})).                            *)
Literal(t, x) ==
  IF IsWide(t) THEN [i \in 0..(Length(t) - 1) |-> (x \div Base^i) % Base] ELSE x

(* Mutant: an expression is not cut to its size. *)
NotEnforced(t, n, a) == a

EnforceSize(t, n, a) == Both(t, a, Mask(t, n, 0))

(* cast: from a native value to words, from words to a native value (which  *)
(* takes the first word), between numbers of words, between native types.   *)
Cast(from, to, a) ==
  CASE IsWide(from) /\ IsWide(to) -> Resize(a, Length(to))
    [] IsWide(from)               -> Cut(to, a[0])
    [] IsWide(to)                 -> FromWord(Length(to), a)
    [] OTHER                      -> Cut(to, a)

(* The n bits of a value a from bit "start" on, moved to bit 0 and cast.    *)
SliceTo(from, to, a, start, n) ==
  Cast(from, to, Both(from, Right(from, a, start), Mask(from, n, 0)))

(* genAssignAEqB: n bits of b replace the bits of a from "start" on.        *)
Merge(to, a, start, from, b, bStart, n) ==
  Either(to, Both(to, a, Invert(to, Mask(to, n, start))),
             Left(to, SliceTo(from, to, b, bStart, n), start))

-----------------------------------------------------------------------------
Numbers(n) == 0..(2^n - 1)
Type       == TypeFor(size)

(* The shifts a program may ask for: a native type is never shifted by its  *)
(* own size or more (C++ leaves that undefined).                            *)
Amounts == 0..(IF IsWide(Type) THEN Type ELSE Type - 1)

Load(code, number) ==
  /\ acc' = code
  /\ ref' = number
  /\ UNCHANGED size

(* The bit operators have no mask of their own, except the inversion.       *)
Bitwise(x) ==
  LET b == Literal(Type, x)
  IN  \/ Load(Both(Type, acc, b), ref & x)
      \/ Load(Either(Type, acc, b), ref | x)
      \/ Load(OneOf(Type, acc, b), ref ^^ x)

Inversion ==
  Load(EnforceSize(Type, size, Invert(Type, acc)), 2^size - 1 - ref)

Shift ==
  \E n \in Amounts :
    \/ Load(EnforceSize(Type, size, Left(Type, acc, n)), Cut(size, ref * 2^n))
    \/ Load(EnforceSize(Type, size, Right(Type, acc, n)), ref \div 2^n)

Arithmetic(x) ==
  LET b == Literal(Type, x)
  IN  \/ Load(EnforceSize(Type, size, Plus(Type, acc, b)), Cut(size, ref + x))
      \/ Load(EnforceSize(Type, size, Minus(Type, acc, b)), Cut(size, ref - x))
      \/ Load(EnforceSize(Type, size, Times(Type, acc, b)), Cut(size, ref * x))

(* The generated code tests the divisor first; a division by 0 gives 0.     *)
Division(x) ==
  LET b == Literal(Type, x)
  IN  IF ~NonZero(Type, b) THEN Load(Literal(Type, 0), 0)
      ELSE \/ Load(EnforceSize(Type, size, Over(Type, acc, b)), ref \div x)
           \/ Load(EnforceSize(Type, size, Rest(Type, acc, b)), ref % x)

(* cif(condition) acc <<= x, for each relation of acc and x.                *)
Choose(code, number, x) ==
  Load(IF code THEN Literal(Type, x) ELSE acc, IF number THEN x ELSE ref)

Relation(x) ==
  LET b == Literal(Type, x)
  IN  \/ Choose(Below(Type, acc, b), ref < x, x)
      \/ Choose(AtMost(Type, acc, b), ref <= x, x)
      \/ Choose(Below(Type, b, acc), ref > x, x)
      \/ Choose(AtMost(Type, b, acc), ref >= x, x)
      \/ Choose(acc = b, ref = x, x)
      \/ Choose(~NonZero(Type, acc), ref = 0, x)

(* A bit extended to the size of the register.                              *)
Extend(bit) ==
  Load(IF bit = 1 THEN Mask(Type, size, 0) ELSE Literal(Type, 0),
       IF bit = 1 THEN 2^size - 1 ELSE 0)

(* n bits of x, a value of "from" bits, replace bits of the register.  (The *)
(* whole register from the whole of one of its size is copied instead.)     *)
Move(from, x, start, xStart, n) ==
  LET before  == Cut(start, ref)
      between == Cut(n, x \div 2^xStart)
      after   == ref \div 2^(start + n)
      t       == TypeFor(from)
  IN  Load(IF n = size /\ n = from THEN Literal(t, x)
           ELSE Merge(Type, acc, start, t, Literal(t, x), xStart, n),
           before + between * 2^start + after * 2^(start + n))

-----------------------------------------------------------------------------
Init ==
  /\ size \in Sizes
  /\ acc = Literal(TypeFor(size), 0)
  /\ ref = 0

Next ==
  \/ \E x \in Numbers(size) :
       Bitwise(x) \/ Arithmetic(x) \/ Division(x) \/ Relation(x)
  \/ Inversion \/ Shift
  \/ \E bit \in {0, 1} : Extend(bit)
  \/ \E from \in SliceFrom : \E x \in Numbers(from) :
       \E n \in 1..Min({from, size}) :
         \E start \in 0..(size - n), xStart \in 0..(from - n) :
           Move(from, x, start, xStart, n)

Spec == Init /\ [][Next]_vars

-----------------------------------------------------------------------------
(* However the expressions of cycles follow one another, the simulation     *)
(* holds the number that a register of "size" bits would, every digit of it *)
(* in its word: "if this variable have only x bit we must set only x bit    *)
(* other 64-x must be exterminated" (expressionSim.cpp 76), nothing that a  *)
(* comparison or a shift to the right could see is left above the size, and *)
(* no bit of the size is lost.                                              *)
Exact == acc = Literal(Type, ref)
=============================================================================
