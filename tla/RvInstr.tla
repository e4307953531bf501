------------------------------- MODULE RvInstr -------------------------------
(***************************************************************************)
(* The instructions of the Kride examples (example/o3/core/isaParam.h) as  *)
(* far as the core tells them apart, and what each one means to a machine  *)
(* that executes one instruction after the other.  An address is counted   *)
(* in instructions and words, so the 4 of the code is 1 here; registers,   *)
(* addresses and program counters have the same few values, 0..WORD-1.     *)
(***************************************************************************)
EXTENDS Integers

CONSTANTS
  REG_NUM,   (* architectural registers, register 0 reads 0                 *)
  WORD       (* values of a register, cells of a memory: a power of two     *)

ASSUME InstrAssumption == REG_NUM \in Nat \ {0} /\ WORD \in Nat \ {0}

Regs  == 0..(REG_NUM - 1)
Words == 0..(WORD - 1)

Arith  == {"add", "mul"}
ArithI == {"addi"}
Branch == {"beq", "bne"}
Ops    == Arith \cup ArithI \cup Branch \cup
            {"auipc", "jal", "jalr", "lw", "sw", "illegal"}

Instr == [op : Ops, rd : Regs, rs1 : Regs, rs2 : Regs, imm : Words]

(* The memory is filled with 0 behind the program; 0 is no opcode.          *)
Fill == [op |-> "illegal", rd |-> 0, rs1 |-> 0, rs2 |-> 0, imm |-> 0]

Plus(a, b) == (a + b) % WORD

(* alu.h                                                                    *)
Alu(op, a, b) ==
  CASE op = "ADD" -> Plus(a, b)
    [] op = "MUL" -> (a * b) % WORD
    [] op = "SEQ" -> IF a = b THEN 1 ELSE 0
    [] op = "SNE" -> IF a # b THEN 1 ELSE 0
-----------------------------------------------------------------------------
(* The meaning of an instruction: the machine s = [pc, reg, mem] after it.  *)

Value(s, i) ==
  LET a == s.reg[i.rs1]
      b == s.reg[i.rs2]
  IN  CASE i.op = "add"            -> Plus(a, b)
        [] i.op = "mul"            -> (a * b) % WORD
        [] i.op = "addi"           -> Plus(a, i.imm)
        [] i.op = "auipc"          -> Plus(s.pc, i.imm)
        [] i.op = "lw"             -> s.mem[Plus(a, i.imm)]
        [] i.op \in {"jal","jalr"} -> Plus(s.pc, 1)

WritesRd(i) == i.op \notin Branch \cup {"sw", "illegal"} /\ i.rd # 0

Target(s, i) ==
  LET eq == s.reg[i.rs1] = s.reg[i.rs2]
  IN  CASE i.op = "jalr"       -> Plus(s.reg[i.rs1], i.imm)
        [] i.op = "jal"        -> Plus(s.pc, i.imm)
        [] i.op = "beq" /\ eq  -> Plus(s.pc, i.imm)
        [] i.op = "bne" /\ ~eq -> Plus(s.pc, i.imm)
        [] OTHER               -> Plus(s.pc, 1)

Execute(s, i) ==
  [pc  |-> Target(s, i),
   reg |-> IF WritesRd(i) THEN [s.reg EXCEPT ![i.rd] = Value(s, i)] ELSE s.reg,
   mem |-> IF i.op = "sw"
             THEN [s.mem EXCEPT ![Plus(s.reg[i.rs1], i.imm)] = s.reg[i.rs2]]
             ELSE s.mem]
=============================================================================
