-------------------------------- MODULE Riscv --------------------------------
(***************************************************************************)
(* The five stage core of example/riscv, made of the blocks of the library:*)
(* fetch, decode, execute and write back are pips whose zyncs hand an      *)
(* instruction on; execute takes it through a sequence of states, reads the*)
(* registers, computes, shifts bit by bit or goes to the memory.  A jump or*)
(* a branch that is taken kills what was fetched behind it; the value that *)
(* is being written back is passed to an instruction that reads it.        *)
(*                                                                         *)
(* One step is one clock cycle after the start node: the wires settle, then*)
(* all registers load together.  A pip is reduced to the states it has     *)
(* (module Pipeline): the fetch pip has no partner ahead of it and is      *)
(* always at its zync.  The 4 of the code is 1 here, so that a word is an  *)
(* address, and the memory has as many words as an address has values.     *)
(* Instructions and data share the memory and its read port; a program does*)
(* not write where its instructions are.                                   *)
(***************************************************************************)
EXTENDS Integers

CONSTANTS
  REG,             (* registers; register 0 reads 0                         *)
  WORD,            (* values of a register, words of the memory             *)
  BYTE, HALF,      (* values of the low part of a word that lb, lh move     *)
  AMOUNT,          (* values of the low part of a word that is an amount    *)
  Shift(_, _, _),  (* Shift(op, v, n): the value v shifted by n             *)
  Programs         (* the programs the core may be started with             *)

Regs    == 0 .. (REG - 1)
Words   == 0 .. (WORD - 1)

Plus(a, b) == (a + b) % WORD
Amount(v)  == v % AMOUNT
Signed(v)  == IF v < WORD \div 2 THEN v ELSE v - WORD

Shifts  == {"sll", "sr", "sra"}
AluOps  == {"add", "sub", "slt", "sltu"} \cup Shifts
Conds   == {"beq", "bne", "blt", "bltu", "bge", "bgeu"}
Sizes   == {"lsb", "lsh", "lsw"}

ShiftOp(uops) == CHOOSE op \in Shifts : op \in uops

(* One bit of a shift (execComplexAlu): the arithmetic one moves all bits   *)
(* but the highest, which stays.                                            *)
ShiftBit(op, v) ==
  CASE op = "sll" -> (2 * v) % WORD
    [] op = "sr"  -> v \div 2
    [] op = "sra" -> IF v < WORD \div 2 THEN v \div 2 ELSE v \div 2 + WORD \div 2

ASSUME RiscvAssumption ==
  /\ REG \in Nat \ {0}
  /\ WORD \in Nat \ {0} /\ WORD % 2 = 0
  /\ BYTE \in Nat \ {0} /\ BYTE % 2 = 0 /\ WORD % BYTE = 0
  /\ HALF \in Nat \ {0} /\ HALF % 2 = 0 /\ WORD % HALF = 0
  /\ AMOUNT \in Nat \ {0} /\ WORD % AMOUNT = 0

(* What a shift by n is: n shifts by one bit.                               *)
ASSUME ShiftAssumption ==
  \A op \in Shifts : \A v \in Words :
    /\ Shift(op, v, 0) = v
    /\ \A n \in 1 .. (AMOUNT - 1) : Shift(op, v, n) = Shift(op, ShiftBit(op, v), n - 1)

-----------------------------------------------------------------------------
(* Instructions: the rule of the decoder an instruction follows, the micro  *)
(* operations its function bits name, registers and the immediate value.    *)

UopsOf(rule) ==
  CASE rule = "opReg" -> {{op} : op \in AluOps}
    [] rule = "opImm" -> {{op} : op \in AluOps \ {"sub"}}
    [] rule = "load"  -> {{size} : size \in Sizes} \cup {{size, "usign"} : size \in {"lsb", "lsh"}}
    [] rule = "store" -> {{size} : size \in Sizes}
    [] rule = "br"    -> {{cond} : cond \in Conds}
    [] OTHER          -> {{}}

Rules == {"opReg", "opImm", "load", "store", "br", "jalr", "jal", "auipc", "lui"}

Instr ==
  UNION {[rule : {rule}, uops : UopsOf(rule), rd : Regs, rs0 : Regs, rs1 : Regs, imm : Words] :
           rule \in Rules \cup {"none"}}

(* The memory is 0 behind a program; 0 follows no rule.                     *)
Fill == [rule |-> "none", uops |-> {}, rd |-> 0, rs0 |-> 0, rs1 |-> 0, imm |-> 0]

ASSUME ProgramsAssumption == Programs \subseteq [Words -> Instr]

(* The part of a word that a load takes, what a store leaves in its word.   *)
Part(uops) == IF "lsb" \in uops THEN BYTE ELSE IF "lsh" \in uops THEN HALF ELSE WORD

Extended(uops, word) ==
  LET part == word % Part(uops)
  IN IF "usign" \in uops \/ part < Part(uops) \div 2 THEN part ELSE part + WORD - Part(uops)

Pooled(uops, word, v) == word - (word % Part(uops)) + (v % Part(uops))

Holds(uops, a, b) ==
  \/ "beq"  \in uops /\ a = b
  \/ "bne"  \in uops /\ a # b
  \/ "blt"  \in uops /\ Signed(a) < Signed(b)
  \/ "bltu" \in uops /\ a < b
  \/ "bge"  \in uops /\ ~(Signed(a) < Signed(b))
  \/ "bgeu" \in uops /\ ~(a < b)

(* execAlu: the operations that end in the cycle they begin in.             *)
AtOnce(uops, a, b) ==
  CASE "add"  \in uops -> Plus(a, b)
    [] "sub"  \in uops -> (a - b) % WORD
    [] "slt"  \in uops -> IF Signed(a) < Signed(b) THEN 1 ELSE 0
    [] "sltu" \in uops -> IF a < b THEN 1 ELSE 0
    [] OTHER           -> a

-----------------------------------------------------------------------------
(* What an instruction means: the machine s = [pc, reg, mem] after it.      *)

Result(s, i) ==
  LET a == s.reg[i.rs0]
      b == IF i.rule = "opReg" THEN s.reg[i.rs1] ELSE i.imm
  IN CASE i.rule \in {"opReg", "opImm"} ->
            IF \E op \in Shifts : op \in i.uops
              THEN Shift(ShiftOp(i.uops), a, Amount(b))
              ELSE AtOnce(i.uops, a, b)
       [] i.rule = "load"            -> Extended(i.uops, s.mem[Plus(a, i.imm)])
       [] i.rule \in {"jal", "jalr"} -> Plus(s.pc, 1)
       [] i.rule = "auipc"           -> Plus(s.pc, i.imm)
       [] i.rule = "lui"             -> i.imm

HasResult(i) == i.rule \notin {"store", "br", "none"} /\ i.rd # 0

Follower(s, i) ==
  CASE i.rule = "jal"  -> Plus(s.pc, i.imm)
    [] i.rule = "jalr" -> Plus(s.reg[i.rs0], i.imm)
    [] i.rule = "br" /\ Holds(i.uops, s.reg[i.rs0], s.reg[i.rs1]) -> Plus(s.pc, i.imm)
    [] OTHER           -> Plus(s.pc, 1)

Execute(s, i) ==
  LET a == Plus(s.reg[i.rs0], i.imm)
  IN [pc  |-> Follower(s, i),
      reg |-> IF HasResult(i) THEN [s.reg EXCEPT ![i.rd] = Result(s, i)] ELSE s.reg,
      mem |-> IF i.rule = "store"
                THEN [s.mem EXCEPT ![a] = Pooled(i.uops, @, s.reg[i.rs1])] ELSE s.mem]

-----------------------------------------------------------------------------
VARIABLES
  code,     (* the instructions in the memory                               *)
  curPc,    (* pc of CORE_DATA: the word that is being fetched              *)
  ft,       (* FETCH_DATA: the fetched instruction and its address          *)
  decode,   (* the decode pip: "wait", or "send" when it has an instruction *)
  dc,       (* DECODE_DATA: the decoded instruction                         *)
  exec,     (* the execute pip: "wait", or the state its sequence is in     *)
  wbData,   (* EXEC_DATA: the result                                        *)
  writing,  (* the write back pip is in its body                            *)
  regFile,  (* the registers                                                *)
  memBlk    (* the data in the memory                                       *)

riscvVars == <<code, curPc, ft, decode, dc, exec, wbData, writing, regFile, memBlk>>

(* Mop and micro operations of a rule, and the operands it sets: the first  *)
(* and the second may be registers, the second and the third the immediate  *)
(* value; an operand the rule does not set is reset.                        *)
MopOf(rule) ==
  CASE rule \in {"opReg", "opImm"} -> "op"
    [] rule \in {"load", "store"}  -> "ldst"
    [] rule = "br"                 -> "br"
    [] rule \in {"jal", "jalr"}    -> "jal"
    [] rule \in {"auipc", "lui"}   -> "ldpc"

Always(rule) ==
  CASE rule = "load" -> {"isload"} [] rule \in {"jal", "auipc"} -> {"needpc"} [] OTHER -> {}

ReadsFirst  == {"opReg", "opImm", "load", "store", "br", "jalr"}
ReadsSecond == {"opReg", "store", "br"}
ImmSecond   == {"opImm", "jalr", "jal", "auipc", "lui"}
ImmThird    == {"load", "store", "br"}

OnlyIndex(opr, idx) == [opr EXCEPT !.valid = FALSE, !.idx = idx]
Imm(v)              == [valid |-> TRUE, idx |-> 0, data |-> v]

(* genDecodeLogic: the zero word behind a program lacks the prefix, it only *)
(* resets the mop.                                                          *)
Decoded(i) ==
  IF i.rule = "none"
    THEN [dc EXCEPT !.pc = ft.pc, !.mop = "none", !.uops = {}]
    ELSE [pc   |-> ft.pc,
          mop  |-> MopOf(i.rule),
          uops |-> i.uops \cup Always(i.rule),
          rs1  |-> OnlyIndex(dc.rs1, IF i.rule \in ReadsFirst THEN i.rs0 ELSE 0),
          rs2  |-> IF i.rule \in ImmSecond THEN Imm(i.imm)
                   ELSE OnlyIndex(dc.rs2, IF i.rule \in ReadsSecond THEN i.rs1 ELSE 0),
          rs3  |-> IF i.rule \in ImmThird THEN Imm(i.imm) ELSE OnlyIndex(dc.rs3, 0),
          des  |-> IF i.rule \in {"store", "br"} THEN 0 ELSE i.rd]

-----------------------------------------------------------------------------
(* The wires of a cycle.                                                    *)

IsUopSet(uop) == uop \in dc.uops
ShiftSet      == dc.mop = "op" /\ \E op \in Shifts : IsUopSet(op)

(* execAlu: the fetch goes on with the next word until it is told better.   *)
MisPredic ==
  /\ exec = "alu"
  /\ dc.mop = "jal" \/ (dc.mop = "br" /\ Holds(dc.uops, dc.rs1.data, dc.rs2.data))

NewPc ==
  CASE dc.mop = "br"       -> Plus(dc.pc, dc.rs3.data)
    [] IsUopSet("needpc")  -> Plus(dc.pc, dc.rs2.data)
    [] OTHER               -> Plus(dc.rs1.data, dc.rs2.data)

(* The third par picks nothing and ends at once, shifts until the amount is *)
(* used up, or waits for its read, which the memory serves first.           *)
ShiftAgain == Amount(dc.rs2.data) > 1

SlaveFin ==
  \/ exec = "alu" /\ ~ShiftSet /\ dc.mop # "ldst"
  \/ exec = "shift" /\ ~ShiftAgain
  \/ exec = "mem"

ExecReady == exec = "wait" \/ SlaveFin

(* kill: the zyncs of fetch and of decode are reset.                        *)
DecodeSent  == decode = "send" /\ ~MisPredic /\ ExecReady
DecodeReady == decode = "wait" \/ DecodeSent

(* buildReadFlow: the last reader goes first.                               *)
ReadFin == DecodeReady /\ exec # "mem"

Fetched == ReadFin /\ ~MisPredic

Address == Plus(dc.rs1.data, dc.rs3.data)

(* accessRegData: an operand that is no immediate value comes from the      *)
(* write back, if it is just written, or from the register.                 *)
BypassIdx == IF writing /\ wbData.valid THEN wbData.idx ELSE 0

(* Mutant: without the bypass. *)
AccessStale(opr) ==
  IF opr.valid THEN opr
  ELSE [opr EXCEPT !.valid = TRUE, !.data = IF opr.idx = 0 THEN 0 ELSE regFile[opr.idx]]

Accessed(opr) ==
  IF opr.valid THEN opr
  ELSE [opr EXCEPT !.valid = TRUE,
                   !.data  = IF opr.idx = 0 THEN 0
                             ELSE IF BypassIdx = opr.idx THEN wbData.data ELSE regFile[opr.idx]]

(* One turn of the loop: no bit for an amount of 0, one otherwise.          *)
ShiftTurn ==
  IF Amount(dc.rs2.data) > 0 THEN ShiftBit(ShiftOp(dc.uops), wbData.data) ELSE wbData.data

(* The result at the end of execAlu.                                        *)
AluData ==
  CASE dc.mop = "op"                           -> AtOnce(dc.uops, dc.rs1.data, dc.rs2.data)
    [] dc.mop = "jal"                          -> Plus(dc.pc, 1)
    [] dc.mop = "ldpc" /\ IsUopSet("needpc")   -> Plus(dc.pc, dc.rs2.data)
    [] dc.mop = "ldpc" /\ ~IsUopSet("needpc")  -> dc.rs2.data

-----------------------------------------------------------------------------
(* The registers load.                                                      *)

NextExec ==
  CASE ExecReady                       -> IF DecodeSent THEN "regs" ELSE "wait"
    [] exec = "regs"                   -> "alu"
    [] exec = "alu" /\ ShiftSet        -> "shift"
    [] exec = "alu" /\ dc.mop = "ldst" -> "mem"
    [] OTHER                           -> exec

NextDc ==
  IF DecodeSent THEN Decoded(ft.instr)
  ELSE CASE exec = "regs"  -> [dc EXCEPT !.rs1 = Accessed(@), !.rs2 = Accessed(@)]
         [] exec = "shift" -> [dc EXCEPT !.rs2.data = IF ShiftAgain THEN @ - 1 ELSE @]
         [] OTHER          -> dc

NextWbData ==
  CASE exec = "regs"  -> [valid |-> FALSE, idx |-> dc.des, data |-> 0]
    [] exec = "alu" /\ dc.mop \in {"op", "jal", "ldpc"} ->
         [wbData EXCEPT !.valid = TRUE, !.data = AluData]
    [] exec = "shift" -> [wbData EXCEPT !.data = ShiftTurn]
    [] exec = "mem"   -> [wbData EXCEPT !.valid = IsUopSet("isload"),
                                        !.data  = Extended(dc.uops, memBlk[Address])]
    [] OTHER          -> wbData

RiscvInit ==
  /\ code \in Programs
  /\ curPc = 0
  /\ ft = [pc |-> 0, instr |-> Fill]
  /\ decode = "wait"
  /\ LET none == [valid |-> FALSE, idx |-> 0, data |-> 0]
     IN /\ dc = [pc |-> 0, mop |-> "none", uops |-> {}, rs1 |-> none, rs2 |-> none,
                 rs3 |-> none, des |-> 0]
        /\ wbData = none
  /\ exec = "wait"
  /\ writing = FALSE
  /\ regFile = [r \in Regs |-> 0]
  /\ memBlk = [a \in Words |-> 0]

RiscvNext ==
  /\ curPc'   = IF MisPredic THEN NewPc ELSE IF Fetched THEN Plus(curPc, 1) ELSE curPc
  /\ ft'      = IF Fetched THEN [pc |-> curPc, instr |-> code[curPc]] ELSE ft
  /\ decode'  = IF MisPredic THEN "wait"
                ELSE IF DecodeReady THEN IF Fetched THEN "send" ELSE "wait" ELSE decode
  /\ dc'      = NextDc
  /\ exec'    = NextExec
  /\ wbData'  = NextWbData
  /\ writing' = SlaveFin
  /\ regFile' = IF BypassIdx # 0 THEN [regFile EXCEPT ![wbData.idx] = wbData.data] ELSE regFile
  /\ memBlk'  = IF exec = "mem" /\ ~IsUopSet("isload")
                  THEN [memBlk EXCEPT ![Address] = Pooled(dc.uops, @, dc.rs2.data)] ELSE memBlk
  /\ UNCHANGED code

RiscvSpec == RiscvInit /\ [][RiscvNext]_riscvVars

-----------------------------------------------------------------------------
(* Properties.                                                              *)

Opr  == [valid : BOOLEAN, idx : Regs, data : Words]
Uops == AluOps \cup Conds \cup Sizes \cup {"usign", "isload", "needpc"}

(* Every register holds a value of its kind.                                *)
RiscvTypeOK ==
  /\ code \in [Words -> Instr] /\ curPc \in Words
  /\ ft \in [pc : Words, instr : Instr]
  /\ decode \in {"wait", "send"}
  /\ dc \in [pc : Words, mop : {"op", "ldst", "br", "jal", "ldpc", "none"}, uops : SUBSET Uops,
             rs1 : Opr, rs2 : Opr, rs3 : Opr, des : Regs]
  /\ exec \in {"wait", "regs", "alu", "shift", "mem"}
  /\ wbData \in Opr /\ writing \in BOOLEAN
  /\ regFile \in [Regs -> Words] /\ memBlk \in [Words -> Words]

(* The machine a program sees: the oldest instruction that has not left the *)
(* execute stage, and the registers with the result that is being written.  *)
OldestPc ==
  IF exec # "wait" THEN dc.pc ELSE IF decode = "send" THEN ft.pc ELSE curPc

SeenRegs == IF BypassIdx # 0 THEN [regFile EXCEPT ![wbData.idx] = wbData.data] ELSE regFile

Hart == INSTANCE Isa WITH prog <- code, pc <- OldestPc, reg <- SeenRegs, mem <- memBlk, Ports <- 1

(* The core executes its program one instruction after the other: no        *)
(* instruction reads a register before the one ahead of it has its result,  *)
(* what was fetched behind a jump leaves no trace, and a shift of many      *)
(* cycles or a load that takes the read port from the fetch changes nothing *)
(* but the time.                                                            *)
ImplementsHart == Hart!Spec

(* Every instruction leaves the execute stage: a shift ends, a load gets    *)
(* the memory, and a fetch that was refused is tried again.                 *)
KeepsExecuting == []<>SlaveFin
=============================================================================
