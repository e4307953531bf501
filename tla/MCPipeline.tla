----------------------------- MODULE MCPipeline -----------------------------
(***************************************************************************)
(* Pipelines of a few stages, programs for the core that is made of such   *)
(* stages, and requests for the cache server.  A behaviour runs one of the *)
(* three while the others stand still.                                     *)
(***************************************************************************)
EXTENDS Pipeline, Riscv, Cache, Sequences

CONSTANT Parts      (* of "stages", "core" and "cache"                       *)

VARIABLE part       (* the one that runs                                     *)

(* The plain states before the zync of each stage.                          *)
FourStages  == <<0, 1, 2, 1>>
ThreeStages == <<0, 2, 1>>

-----------------------------------------------------------------------------
(* The shifts of the instruction set, as arithmetic.                        *)
MCShift(op, v, n) ==
  CASE op = "sll" -> (v * 2^n) % WORD
    [] op = "sr"  -> v \div 2^n
    [] op = "sra" -> (Signed(v) \div 2^n) % WORD

I(rule, uops, rd, rs0, rs1, imm) ==
  [rule |-> rule, uops |-> uops, rd |-> rd, rs0 |-> rs0, rs1 |-> rs1, imm |-> imm]

Op(u, rd, a, b)      == I("opReg", {u}, rd, a, b, 0)
OpI(u, rd, a, v)     == I("opImm", {u}, rd, a, 0, v)
Load(us, rd, a, v)   == I("load", us, rd, a, 0, v)
Store(u, a, b, v)    == I("store", {u}, 0, a, b, v)
Br(u, a, b, v)       == I("br", {u}, 0, a, b, v)
Jal(rd, v)           == I("jal", {}, rd, 0, 0, v)
Jalr(rd, a, v)       == I("jalr", {}, rd, a, 0, v)
Lui(rd, v)           == I("lui", {}, rd, 0, 0, v)
Auipc(rd, v)         == I("auipc", {}, rd, 0, 0, v)

Code(s) == [a \in Words |-> IF a < Len(s) THEN s[a + 1] ELSE IF a = Len(s) THEN Jal(0, 0) ELSE Fill]

(* Results that the next instruction reads, shifts by 0 to 3, parts of      *)
(* words, branches and jumps over instructions that must leave no trace.    *)
Forwards ==
  {Code(<<Lui(1, v), a, b, c, Op("add", 1, 1, 2), d, Store("lsw", 0, 1, 3), Op("add", 2, 2, 1)>>) :
     v \in {3, 10, 13},
     a \in {OpI("add", 2, 1, 7), Op("sub", 2, 0, 1), Store("lsb", 1, 1, 2), Auipc(2, 5)},
     b \in {Op(u, 1, 1, 2) : u \in {"sll", "sr", "sra", "slt"}} \cup
           {OpI(u, 1, 1, 1) : u \in {"sll", "sra"}} \cup
           {Load({"lsb"}, 2, 1, 2), Load({"lsh", "usign"}, 1, 0, 12), Store("lsh", 1, 2, 1)},
     c \in {Br(u, 1, 2, 2) : u \in Conds} \cup {Jal(2, 3), Jalr(1, 0, 6), Load({"lsw"}, 1, 1, 2), Fill},
     d \in {Br("bne", 1, 0, 2), Load({"lsh"}, 1, 0, 12), Op("sra", 1, 1, 1), Op("sltu", 2, 2, 1)}}

(* Loops: register 1 is counted down.                                       *)
Loops ==
  {Code(<<OpI("add", 1, 0, 3), a, OpI("add", 1, 1, WORD - 1), b, Br("bne", 1, 0, WORD - 3)>>) :
     a \in {Op("sll", 2, 1, 1), Load({"lsw"}, 2, 1, 0), Jal(2, 1), Br("blt", 2, 1, 1)},
     b \in {Store("lsw", 1, 2, 0), Op("add", 2, 2, 1), Op("sr", 2, 2, 1), Fill}}

-----------------------------------------------------------------------------
(* A write and a load of a row in each of two banks.                        *)
MCWorkload ==
  LET request(load, b, r, v) == [isLoad |-> load, bank |-> b, row |-> r, value |-> v]
  IN  {request(FALSE, 0, 0, 1), request(TRUE, 0, 0, 0), request(FALSE, 1, 1, 1),
       request(TRUE, 1, 1, 0)}

-----------------------------------------------------------------------------
Nothing == Code(<<>>)

MCPrograms   == Forwards \cup Loops \cup {Nothing}
MCNoPrograms == {Nothing}

CoreCycle  == part = "core" /\ RiscvNext /\ UNCHANGED <<vars, cacheVars, part>>
StageCycle == part = "stages" /\ Next /\ UNCHANGED <<riscvVars, cacheVars, part>>
QuietStage == part = "stages" /\ QuietCycle /\ UNCHANGED <<riscvVars, cacheVars, part>>
CacheClock == part = "cache" /\ Clock /\ UNCHANGED <<vars, riscvVars, part>>
CacheBench == /\ part = "cache"
              /\ \E packet \in Workload : PushDataSim(packet)
              /\ UNCHANGED <<vars, riscvVars, part>>

MCInit == /\ Init /\ RiscvInit /\ CacheInit
          /\ part \in Parts
          /\ part = "core" <=> code # Nothing
          /\ part # "cache" => curBankItr = 0
MCNext == StageCycle \/ CoreCycle \/ CacheClock \/ CacheBench
MCVars == <<vars, riscvVars, cacheVars, part>>
MCSpec == MCInit /\ [][MCNext]_MCVars
MCFair == MCSpec /\ WF_MCVars(QuietStage) /\ WF_MCVars(CoreCycle) /\ WF_MCVars(CacheClock)

(* What is offered to the stages is delivered, every instruction of the     *)
(* core leaves its execute stage, and a full ring of the cache gets room: a *)
(* refusal that does not last, a shift, a load that takes the read port, a  *)
(* fetch that is tried again, an outgress that looks at another bank and a  *)
(* bank that clears its rows only delay.                                    *)
Progress == /\ part = "stages" => Delivered
            /\ part = "core" => KeepsExecuting
            /\ part = "cache" => KeepsServing
=============================================================================
