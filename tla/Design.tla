------------------------------ MODULE Design ------------------------------
(***************************************************************************)
(* What a design is made of and what it means: registers and memories that *)
(* load at an edge of the clock what a network of wires and expressions    *)
(* makes of them.  Nothing is computed in an order here.                   *)
(***************************************************************************)
EXTENDS Integers, Sequences, FiniteSets, FiniteSetsExt

CONSTANT
  Designs    \* functions from the elements of a design, which are numbers, to
             \* records with their kind and what belongs to it

Elements(d)      == DOMAIN d
OfKind(d, kinds) == {e \in DOMAIN d : d[e].kind \in kinds}
Stateful(d)      == OfKind(d, {"reg", "input", "mem"})

-----------------------------------------------------------------------------
(* An operand is an element, of which the bits are taken that start at the  *)
(* first and stop below the second number of a slice.                       *)
None == [of |-> 0, sl |-> <<0, 0>>]

Size(sl)      == sl[2] - sl[1]
Bit(v, k)     == (v \div 2^k) % 2
Part(v, sl)   == (v \div 2^sl[1]) % 2^Size(sl)
Worth(o, now) == Part(now[o.of], o.sl)

(* An event is a chain of arms with a condition, which may be none.  Of the *)
(* events of a register that have an arm to take which loads a bit, the one *)
(* of the highest priority decides, and of several the one that was added   *)
(* last.                                                                    *)
Takes(arm, now)   == arm.cond = None \/ Worth(arm.cond, now) # 0
Fires(ev, now)    == \E i \in DOMAIN ev.arms : Takes(ev.arms[i], now)
TakenArm(ev, now) == ev.arms[Min({i \in DOMAIN ev.arms : Takes(ev.arms[i], now)})]

Loads(ev, now, k) ==
  /\ Fires(ev, now)
  /\ LET arm == TakenArm(ev, now) IN k \in arm.des[1] .. arm.des[2] - 1

Deciding(pool, now, k) ==
  CHOOSE i \in DOMAIN pool :
    /\ Loads(pool[i], now, k)
    /\ \A j \in DOMAIN pool : Loads(pool[j], now, k) =>
         \/ pool[j].priority < pool[i].priority
         \/ pool[j].priority = pool[i].priority /\ j <= i

LoadedBit(pool, now, kept, k) ==
  IF \E i \in DOMAIN pool : Loads(pool[i], now, k)
  THEN LET arm == TakenArm(pool[Deciding(pool, now, k)], now)
       IN Bit(Worth(arm.val, now), k - arm.des[1])
  ELSE Bit(kept, k)

Loaded(ele, now, kept) ==
  MapThenSumSet(LAMBDA k : 2^k * LoadedBit(ele.pool, now, kept, k), 0 .. ele.size - 1)

Truth(holds) == IF holds THEN 1 ELSE 0

(* The signed number of n bits.                                             *)
Signed(v, n) == IF v >= 2^(n - 1) THEN v - 2^n ELSE v

BitsWhere(n, IsSet(_)) == MapThenSumSet(LAMBDA k : 2^k, {k \in 0 .. n - 1 : IsSet(k)})

Operation(ele, a, b) ==
  CASE ele.op = "land" -> Truth(a # 0 /\ b # 0)
    [] ele.op = "lor"  -> Truth(a # 0 \/ b # 0)
    [] ele.op = "lnot" -> Truth(a = 0)
    [] ele.op = "neq"  -> Truth(a # b)
    [] ele.op = "eq"   -> Truth(a = b)
    [] ele.op = "less" -> Truth(a < b)
    [] ele.op = "leq"  -> Truth(a <= b)
    [] ele.op = "slt"  -> Truth(Signed(a, Size(ele.a.sl)) < Signed(b, Size(ele.b.sl)))
    [] ele.op = "inv"  -> 2^ele.size - 1 - a
    [] ele.op = "and"  -> BitsWhere(ele.size, LAMBDA k : Bit(a, k) = 1 /\ Bit(b, k) = 1)
    [] ele.op = "or"   -> BitsWhere(ele.size, LAMBDA k : Bit(a, k) = 1 \/ Bit(b, k) = 1)
    [] ele.op = "xor"  -> BitsWhere(ele.size, LAMBDA k : Bit(a, k) # Bit(b, k))
    [] ele.op = "shl"  -> (a * 2^Min({b, ele.size})) % 2^ele.size
    [] ele.op = "shr"  -> a \div 2^Min({b, ele.size})
    [] ele.op = "plus"  -> (a + b) % 2^ele.size
    [] ele.op = "minus" -> (a - b) % 2^ele.size
    [] ele.op = "mul"   -> (a * b) % 2^ele.size
    [] ele.op = "ext"   -> IF a # 0 THEN 2^ele.size - 1 ELSE 0

(* The bits of the parts that were named before, that is, below part i.     *)
BitsBelow(parts, i) == MapThenSumSet(LAMBDA j : Size(parts[j].sl), 1 .. i - 1)

(* What an element is worth when the others are worth "now" and "held" is in *)
(* the registers and memories.                                               *)
Makes(d, e, now, held) ==
  CASE d[e].kind \in {"reg", "input"} -> held[e]
    [] d[e].kind = "val"  -> d[e].val
    [] d[e].kind = "expr" -> Operation(d[e], Worth(d[e].a, now), IF d[e].b = None THEN 0 ELSE Worth(d[e].b, now))
    [] d[e].kind = "nest" -> MapThenSumSet(LAMBDA i : 2^BitsBelow(d[e].parts, i) * Worth(d[e].parts[i], now), DOMAIN d[e].parts)
    [] d[e].kind = "read" -> held[d[e].mem][Worth(d[e].index, now)]
    [] d[e].kind = "wire" -> Loaded(d[e], now, 0)
    [] d[e].kind \in {"mem", "write"} -> 0

(* The network: what every element is worth.                                 *)
Settled(d, held) == LET now[e \in Elements(d)] == Makes(d, e, now, held) IN now

-----------------------------------------------------------------------------
(* An edge: every register and memory with this edge loads.  Of two writes  *)
(* to one cell the one that was made last counts.                           *)
Writes(d, m, edge, now, cell) ==
  {w \in OfKind(d, {"write"}) :
     d[w].mem = m /\ d[w].clk = edge /\ Worth(d[w].index, now) = cell
     /\ \E i \in DOMAIN d[w].pool : Fires(d[w].pool[i], now)}

CellLoads(d, m, edge, now, cell, kept) ==
  LET W == Writes(d, m, edge, now, cell)
  IN IF W = {} THEN kept ELSE Loaded(d[Max(W)], now, kept)

AtEdge(d, edge, held) ==
  LET now == Settled(d, held) IN
  [e \in DOMAIN held |->
     CASE d[e].kind = "reg" /\ d[e].clk = edge -> Loaded(d[e], now, held[e])
       [] d[e].kind = "reg" /\ d[e].clk # edge -> held[e]
       [] d[e].kind = "input" -> held[e]
       [] d[e].kind = "mem" -> [c \in DOMAIN held[e] |-> CellLoads(d, e, edge, now, c, held[e][c])]]

Cleared(d) ==
  [e \in Stateful(d) |-> IF d[e].kind = "mem" THEN [c \in 0 .. d[e].depth - 1 |-> 0] ELSE 0]
=============================================================================
