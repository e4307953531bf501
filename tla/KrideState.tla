------------------------------ MODULE KrideState ------------------------------
(***************************************************************************)
(* What the lockstep bench sees of a core at the end of a cycle, and when  *)
(* it takes two cores for equal (example/o3/simCompare/simState.h,         *)
(* simStateKride.cpp, simStateCmp.cpp).  The snapshot is taken when the    *)
(* wires have settled and before the registers load.  The comparison is    *)
(* not an equality: a field is compared only where the core still uses it. *)
(***************************************************************************)
EXTENDS Kride

(* generatePipState: a stage is idle without a token, and stalled while its *)
(* zync waits.                                                              *)
PipState(token, goes) ==
  IF token THEN (IF goes THEN "RUNNING" ELSE "STALL") ELSE "IDLE"

ImmType(op) == CASE op = "sw" -> "S" [] op = "auipc" -> "U" [] OTHER -> "I"

Opcode(op) == IF op \in Branch THEN "branch" ELSE op

(* recruitValue                                                             *)
Recruit(s) ==
  [fetch    |-> [st |-> PipState(TRUE, Fetches(s.w, s.decoded)), pc |-> fe.curPc],
   decode   |-> [st |-> PipState(fe.dc, s.decoded), raw |-> fe.raw],
   dispatch |-> [st |-> PipState(fe.dp, s.dispatched), pc |-> fe.pc,
                 desEqSrc1 |-> fe.desEqSrc1, desEqSrc2 |-> fe.desEqSrc2,
                 dp |-> <<fe.dcd1, fe.dcd2>>],
   rsv      |-> rs,
   exec     |-> [u \in Units |->
                   PipState(ex[u].full, u = "ls" => LsGoes(s.w))],
   ldst     |-> [effAddr |-> EffAddr, st2 |-> PipState(ls2.full, TRUE),
                 src |-> ls2.src, stBufHit |-> ls2.hit,
                 stBufData |-> ls2.data, loadData |-> dmem[cmd.addr]],
   rob      |-> [comPtr |-> comPtr, status |-> s.n, ent |-> rob],
   stbuf    |-> sb,
   tagMgmt  |-> tg,
   arf      |-> arf,
   rrf      |-> rrf]
-----------------------------------------------------------------------------
(* SimState::compare; l is the core whose use of a field decides.           *)
Same(l, r, fields) == \A f \in fields : l[f] = r[f]

FetchCompare(l, r) == l.st = r.st /\ (l.st = "RUNNING" => l.pc = r.pc)

(* The second instruction is compared when it is not one.                   *)
DecodeCompare(l, r) ==
  /\ l.st = r.st
  /\ l.st = "RUNNING" =>
       /\ Same(l.raw, r.raw, {"inst1", "invalid2", "pc", "npc"})
       /\ l.raw.invalid2 => l.raw.inst2 = r.raw.inst2

DispInstrCompare(l, r) ==
  /\ l.invalid = r.invalid
  /\ ~l.invalid =>
       /\ ImmType(l.op) = ImmType(r.op)
       /\ Same(l, r, {"aluOp", "rsEnt", "isBranch", "pred", "spec", "specTag",
                      "rdIdx", "rdUse", "rs1", "selA", "use1", "rs2", "selB",
                      "use2"})

DispatchCompare(l, r) ==
  /\ l.st = r.st
  /\ l.st = "RUNNING" =>
       /\ Same(l, r, {"pc", "desEqSrc1", "desEqSrc2"})
       /\ \A k \in 1..2 : DispInstrCompare(l.dp[k], r.dp[k])

(* A row of station u.  A field the station has no register for counts as 0 *)
(* on both sides; an operand is compared when it is there.                  *)
RsvFields(u) ==
  {"rrftag", "rdUse", "specTag"}
  \cup CASE u \in {"alu1", "alu2"} -> {"sortBit", "pc", "aluOp"}
         [] u = "br"               -> {"pc", "aluOp", "imm", "pred"}
         [] u = "ls"               -> {"pc"}
         [] u = "mul"              -> {}

RsvCompare(u, l, r) ==
  LET chosen(sel, reg) == u \in {"alu1", "alu2"} => sel = reg
  IN  /\ l.busy = r.busy
      /\ l.busy =>
           /\ Same(l, r, RsvFields(u))
           /\ u = "br" => Opcode(l.op) = Opcode(r.op)
           /\ l.v1 /\ chosen(l.selA, "rs1") => l.p1 = r.p1
           /\ l.v2 /\ chosen(l.selB, "rs2") => l.p2 = r.p2

(* The entries behind the issue are marked not busy: only what the memory   *)
(* unit makes of them is compared.                                          *)
ExecCompare(l, r) ==
  /\ l.exec = r.exec
  /\ l.exec["ls"] = "RUNNING" => l.ldst.effAddr = r.ldst.effAddr
  /\ l.ldst.st2 = r.ldst.st2
  /\ l.ldst.st2 = "RUNNING" =>
       /\ Same(l.ldst.src, r.ldst.src, {"rrftag", "rdUse", "spec", "specTag"})
       /\ l.ldst.src.rdUse =>
            /\ l.ldst.stBufHit = r.ldst.stBufHit
            /\ Same(l.ldst, r.ldst,
                    IF l.ldst.stBufHit THEN {"stBufData"} ELSE {"loadData"})

(* From the commit pointer up to the request pointer; of a full ring this   *)
(* is nothing.                                                              *)
Round(com, req) == {p \in Ptrs : (p - com) % RRF_NUM < (req - com) % RRF_NUM}

RobCompare(l, r, req) ==
  /\ Same(l, r, {"comPtr", "status"})
  /\ \A p \in Round(l.comPtr, req) :
       /\ l.ent[p].wbFin = r.ent[p].wbFin
       /\ l.ent[p].wbFin =>
            Same(l.ent[p], r.ent[p], {"storeBit", "rdUse", "rdIdx"})

(* Mutant: the data of a store is not compared. *)
StbufCompareBlind(l, r) ==
  /\ Same(l, r, {"finPtr", "comPtr", "retPtr"})
  /\ \A i \in StRows :
       /\ l.ent[i].busy = r.ent[i].busy
       /\ l.ent[i].busy =>
            Same(l.ent[i], r.ent[i], {"complete", "spec", "specTag", "mem_addr"})

StbufCompare(l, r) ==
  /\ Same(l, r, {"finPtr", "comPtr", "retPtr"})
  /\ \A i \in StRows :
       /\ l.ent[i].busy = r.ent[i].busy
       /\ l.ent[i].busy => Same(l.ent[i], r.ent[i],
            {"complete", "spec", "specTag", "mem_addr", "data"})

TagCompare(l, r) ==
  /\ Same(l, r, {"valid", "brdepth", "tagreg"})
  /\ \A t \in Tags : l.valid[t] => l.fixTag[t] = r.fixTag[t]

(* The rename table and its copies; the registers are not compared.         *)
ArfCompare(l, r) ==
  /\ l.busy = r.busy
  /\ \A t \in RenRows : \A x \in Regs :
       l.busy[t][x] => l.rename[t][x] = r.rename[t][x]

(* Mutant: a result is compared before it is there. *)
RrfCompareEarly(l, r, com) ==
  /\ Same(l, r, {"freenum", "reqPtr", "nextRrfCycle"})
  /\ \A p \in Round(com, l.reqPtr) :
       l.valid[p] = r.valid[p] /\ l.data[p] = r.data[p]

RrfCompare(l, r, com) ==
  /\ Same(l, r, {"freenum", "reqPtr", "nextRrfCycle"})
  /\ \A p \in Round(com, l.reqPtr) :
       /\ l.valid[p] = r.valid[p]
       /\ l.valid[p] => l.data[p] = r.data[p]

Compare(l, r) ==
  /\ FetchCompare(l.fetch, r.fetch)
  /\ DecodeCompare(l.decode, r.decode)
  /\ DispatchCompare(l.dispatch, r.dispatch)
  /\ \A u \in Units : \A i \in DOMAIN l.rsv[u] :
       RsvCompare(u, l.rsv[u][i], r.rsv[u][i])
  /\ ExecCompare(l, r)
  /\ RobCompare(l.rob, r.rob, l.rrf.reqPtr)
  /\ StbufCompare(l.stbuf, r.stbuf)
  /\ TagCompare(l.tagMgmt, r.tagMgmt)
  /\ ArfCompare(l.arf, r.arf)
  /\ RrfCompare(l.rrf, r.rrf, l.rob.comPtr)

(* compareMemOp: the direction and the address.  Written data that differs  *)
(* is printed and counts as equal.                                          *)
MemOpCompare(l, r) == l.we = r.we /\ l.addr = r.addr
=============================================================================
