-------------------------------- MODULE MCKride --------------------------------
(***************************************************************************)
(* Programs for the Kride core.  Memory behind a program holds jumps to    *)
(* themselves, so every program ends in a loop of one instruction.         *)
(***************************************************************************)
EXTENDS KrideCompare

I(op, rd, rs1, rs2, imm) ==
  [op |-> op, rd |-> rd, rs1 |-> rs1, rs2 |-> rs2, imm |-> imm]

Li(rd, v)       == I("addi", rd, 0, 0, v)
Lw(rd, a, off)  == I("lw", rd, a, 0, off)
Sw(a, d, off)   == I("sw", 0, a, d, off)
Add(rd, a, b)   == I("add", rd, a, b, 0)
Mul(rd, a, b)   == I("mul", rd, a, b, 0)
Beq(a, b, off)  == I("beq", 0, a, b, off)
Bne(a, b, off)  == I("bne", 0, a, b, off)
Jal(rd, off)    == I("jal", rd, 0, 0, off)
Jalr(rd, a, off) == I("jalr", rd, a, 0, off)
Halt == Jal(0, 0)

Code(s) == [a \in Words |-> IF a < Len(s) THEN s[a+1] ELSE Halt]

(* Branches forward over loads, stores, products and each other; four       *)
(* stores at the most, so that they find a free row of the store buffer.    *)
Forward ==
  {Code(<<Li(1, 3), a, b, c, d, e, f>>) :
     a \in {Mul(2,1,1), Lw(2,1,1), Sw(0,1,4)},
     b \in {Lw(2,0,4), Jalr(3,1,2), Sw(1,1,1)},
     c \in {Beq(2,0,2), Bne(2,1,2), Bne(0,0,3), Add(1,2,2)},
     d \in {Sw(0,1,5), Bne(1,2,1), I("auipc",1,0,0,5)},
     e \in {Beq(0,1,2), Lw(3,0,5), Jal(2,2), Sw(0,1,7)},
     f \in {Sw(0,1,6), Mul(3,1,2)}}

(* Loops that count register 1 down.                                        *)
Loops ==
  {Code(<<Li(1, 3), x, I("addi",1,1,0,WORD-1), y, Bne(1,0,WORD-3), z, Beq(1,2,1)>>) :
     x \in {Mul(2,2,1), Lw(2,1,0), Beq(1,2,2), Jal(3,1)},
     y \in {Mul(2,2,1), Lw(3,2,1), Bne(1,2,1), Jalr(3,0,4), Add(2,2,1)},
     z \in {Add(3,2,1), Fill, Sw(0,2,1)}}

(* Loads and stores without a branch: the store buffer is full at times.    *)
Straight ==
  {Code(<<Li(1,2), Mul(2,1,1), Mul(2,2,1), a, Sw(0,1,1), Sw(0,1,2), b, c,
          Sw(0,1,3), d, Sw(0,2,4), e, Lw(3,0,4)>>) :
     a \in {Mul(2,2,1), Lw(2,2,1)},
     b \in {Sw(1,1,0), Lw(2,0,1)},
     c \in {Sw(0,1,1), Sw(1,2,0), Lw(2,0,2)},
     d \in {Sw(1,1,0), Lw(1,1,0), Lw(2,0,1)},
     e \in {Lw(1,1,1), Sw(0,2,1)}}

(* Sums that wait for each other until the ring is full, and a branch.      *)
Chains ==
  {Code(<<x, y>> \o [i \in 1..n |-> I("addi",1,1,0,1)] \o <<Beq(0,0,2), z>>) :
     n \in 8..11, x \in {Fill, Li(1,1)}, y \in {Lw(1,0,1), Mul(2,1,1)},
     z \in {Add(1,1,1), Beq(1,1,WORD-1)}}

Nothing == [a \in Words |-> Fill]

AllKinds == Forward \cup Loops \cup Straight \cup Chains \cup {Nothing}

(* Workloads for the bench: a file is a program and a cell of data; the     *)
(* program ends with a store of 1 to word 2, and goes on a little behind.   *)
Workload(s, d) ==
  [prog |-> Code(s \o <<Li(1,1), Sw(0,1,2), Mul(3,1,1)>>),
   data |-> [a \in Words |-> IF a = 3 THEN d ELSE 0]]

Sums == <<Li(1,3), Lw(2,0,3), Mul(3,1,2), Sw(0,3,1), Beq(1,2,2), Lw(3,0,2),
          Sw(0,3,0)>>

(* Registers 3 and 2 are read before they are written.                      *)
Jumps == <<Li(1,1), Add(2,3,2), Li(3,1), Lw(1,2,2), Bne(1,0,3), Sw(0,1,1),
           Add(2,1,1), Sw(1,2,3), Lw(3,0,1)>>

AloneOrInPairs ==
  {<<>>, <<Workload(Sums, 3), Workload(Jumps, 1)>>,
   <<Workload(Jumps, 2), Workload(Sums, 1)>>}
=============================================================================
