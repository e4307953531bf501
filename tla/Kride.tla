--------------------------------- MODULE Kride ---------------------------------
(***************************************************************************)
(* The Kride out-of-order core (example/o3/core): two instructions per     *)
(* cycle are fetched, decoded and dispatched in order, issued to two       *)
(* adders, a multiplier, a branch unit and a memory unit when their        *)
(* operands are there, and committed in order.  Branches are predicted     *)
(* not taken; a branch unit that finds a prediction wrong throws away what *)
(* was decoded behind the branch.                                          *)
(*                                                                         *)
(* One step is one clock cycle: the wires settle, then all registers load  *)
(* together.  A pip of the code is a bit that says whether the stage is    *)
(* executing or waits for its zync (module Pipeline shows that a stage has *)
(* no other state); hold and kill of a stage's channel are terms of the    *)
(* conditions under which its zync lets go.  The memories are outside of   *)
(* the core and answer as simulation/o3_sim.cpp makes them answer: an      *)
(* instruction word in the cycle of its address, data in the cycle after.  *)
(***************************************************************************)
EXTENDS KrideRegs, KrideStBuf

CONSTANT Programs       (* the programs the core may be started with        *)

ASSUME ProgramAssumption == Programs \subseteq [Words -> Instr]

(* The instruction memory is read in groups of four words (selLog).         *)
ASSUME FetchAssumption == WORD % 4 = 0

VARIABLES
  prog,     (* instruction memory                                           *)
  fe,       (* fetch, decode and dispatch stages                            *)
  tg,       (* tag generator and fix table                                  *)
  arf, rrf, (* registers                                                    *)
  rob,      (* reorder buffer; its index is the ring entry of the result    *)
  comPtr,   (* next entry to be committed                                   *)
  rs,       (* reservation stations                                         *)
  alloc,    (* allocation pointers of the in-order stations                 *)
  ex,       (* execution stage behind each station                          *)
  ls2,      (* second stage of the memory unit                              *)
  sb,       (* store buffer                                                 *)
  dmem, cmd,(* data memory, and the command it got in the last cycle        *)
  clk,      (* level of the clock                                           *)
  apc       (* history: address of the next instruction to be committed     *)

vars == <<prog, fe, tg, arf, rrf, rob, comPtr, rs, alloc, ex, ls2, sb, dmem,
          cmd, clk, apc>>
-----------------------------------------------------------------------------
(* decoder.h                                                                *)

Station(op) ==
  CASE op \in {"lw", "sw"}                    -> "ls"
    [] op \in Branch \cup {"jal", "jalr"}     -> "br"
    [] op = "mul"                             -> "mul"
    [] OTHER                                  -> "alu"

AluOp(op) == CASE op = "beq" -> "SEQ" [] op = "bne" -> "SNE"
               [] op = "mul" -> "MUL" [] OTHER -> "ADD"

(* decode: the fields of a lane.  The tag generator fills spec and specTag. *)
Decode(i, invalid, pred) ==
  [op |-> i.op, aluOp |-> AluOp(i.op), imm |-> i.imm, invalid |-> invalid,
   rsEnt |-> Station(i.op),
   isBranch |-> Station(i.op) = "br" /\ ~invalid,
   pred |-> pred,
   rdIdx |-> i.rd, rdUse |-> i.op \notin Branch \cup {"sw", "illegal"},
   rs1 |-> i.rs1, use1 |-> i.op \notin {"jal", "auipc"},
   selA |-> IF i.op \in {"jal", "jalr", "auipc"} THEN "pc" ELSE "rs1",
   rs2 |-> i.rs2, use2 |-> i.op \in Arith \cup Branch \cup {"sw"},
   selB |-> IF i.op \in Arith \cup Branch THEN "rs2" ELSE "imm",
   spec |-> FALSE, specTag |-> 0]

DecReset == Decode(Fill, FALSE, 0)

(* An entry that was never written; the reset leaves busy at 0.             *)
Blank ==
  [busy |-> FALSE, sortBit |-> 0, pc |-> 0, rrftag |-> 0, rdUse |-> FALSE,
   op |-> "illegal", aluOp |-> "ADD", selA |-> "rs1", selB |-> "imm",
   imm |-> 0, spec |-> FALSE, specTag |-> 0, pred |-> 0,
   v1 |-> FALSE, p1 |-> 0, v2 |-> FALSE, p2 |-> 0]

RobReset == [wbFin |-> FALSE, isBranch |-> FALSE, storeBit |-> FALSE,
             rdUse |-> FALSE, rdIdx |-> 0]

RawReset == [invalid2 |-> FALSE, pc |-> 0, npc |-> 0, inst1 |-> Fill, inst2 |-> Fill]

(* After the reset the first pip executes and the others wait.              *)
FeReset ==
  [curPc |-> 0, raw |-> RawReset, dc |-> FALSE, dp |-> FALSE,
   dcd1 |-> DecReset, dcd2 |-> DecReset, pc |-> 0,
   desEqSrc1 |-> FALSE, desEqSrc2 |-> FALSE]

RsReset == [u \in Units |-> [i \in 0..(EntNum(u)-1) |-> Blank]]

ExReset == [u \in Units |-> [full |-> FALSE, src |-> Blank]]

Init ==
  /\ prog \in Programs
  /\ fe = FeReset
  /\ tg = TagReset
  /\ arf = ArfReset
  /\ rrf = RrfReset
  /\ rob = [p \in Ptrs |-> RobReset]
  /\ comPtr = 0
  /\ rs = RsReset
  /\ alloc = [u \in InOrder |-> 0]
  /\ ex = ExReset
  /\ ls2 = [full |-> FALSE, src |-> Blank, hit |-> FALSE, data |-> 0]
  /\ sb = StReset
  /\ dmem = [a \in Words |-> 0]
  /\ cmd = [we |-> FALSE, addr |-> 0, data |-> 0]
  /\ clk = 0
  /\ apc = 0
-----------------------------------------------------------------------------
(* Execution units: what they drive in this cycle.                          *)

(* execBranch.h                                                             *)
CalAddr(e) ==
  LET taken == Alu(e.aluOp, e.p1, e.p2) % 2 = 1
  IN  CASE e.op = "jalr"                          -> Plus(e.p1, e.imm)
        [] e.op # "jalr" /\ (e.op = "jal" \/ taken) -> Plus(e.pc, e.imm)
        [] OTHER                                  -> Plus(e.pc, 1)

(* The wires of broadCast.h.                                                *)
Wires ==
  LET b == ex["br"].src
      right == b.pred = CalAddr(b)
  IN  [mis |-> ex["br"].full /\ ~right, suc |-> ex["br"].full /\ right,
       tag |-> b.specTag, fixTag |-> tg.fixTag[b.specTag],
       rrftag |-> b.rrftag, calAddr |-> CalAddr(b)]

(* srcSel.h, alu.h, multiplier.h                                            *)
SrcA(e) == IF e.selA = "pc" THEN e.pc ELSE e.p1
SrcB(e) == IF e.selB = "rs2" THEN e.p2 ELSE e.imm

Result(u) == LET e == ex[u].src
             IN  IF u = "br" THEN Plus(e.pc, 1) ELSE Alu(e.aluOp, SrcA(e), SrcB(e))

(* execLdSt.h, second stage: the data of the store buffer, or of the memory *)
ResolvedData == IF ls2.hit THEN ls2.data ELSE dmem[cmd.addr]

Finishing == {u \in Units \ {"ls"} : ex[u].full}

(* Results written back and bypassed in this cycle, and the entries of the  *)
(* reorder buffer that are told.                                            *)
ByPasses ==
  {[tag |-> ex[u].src.rrftag, val |-> Result(u)] :
     u \in {v \in Finishing : ex[v].src.rdUse}}
  \cup IF ls2.full /\ ls2.src.rdUse
         THEN {[tag |-> ls2.src.rrftag, val |-> ResolvedData]} ELSE {}

WrittenBack ==
  {ex[u].src.rrftag : u \in Finishing}
  \cup IF ls2.full THEN {ls2.src.rrftag} ELSE {}

(* execLdSt.h, first stage.                                                 *)
EffAddr == Plus(ex["ls"].src.p1, ex["ls"].src.imm)
IsLoad  == ex["ls"].src.rdUse

LsKilled(w) == CheckIsKill(w, ex["ls"].src)

LsGoes(w) == ex["ls"].full /\ ~LsKilled(w) /\ (IsLoad \/ ~IsFull(sb))
-----------------------------------------------------------------------------
(* rob.cpp, rrf.h onCommit: how many entries are committed.                 *)

(* Mutant: the mark of an entry that was committed before is believed. *)
CommittedStale(w) ==
  LET one == ~w.mis /\ rob[comPtr].wbFin
      two == /\ rob[Inc(comPtr, 1)].wbFin
             /\ ~rob[comPtr].isBranch /\ ~rob[comPtr].storeBit
  IN  IF ~one THEN 0 ELSE IF ~two THEN 1 ELSE 2

Committed(w) ==
  LET one == ~w.mis /\ Rem(rrf, comPtr) > 0 /\ rob[comPtr].wbFin
      two == /\ Rem(rrf, comPtr) > 1 /\ rob[Inc(comPtr, 1)].wbFin
             /\ ~rob[comPtr].isBranch /\ ~rob[comPtr].storeBit
  IN  IF ~one THEN 0 ELSE IF ~two THEN 1 ELSE 2

(* The commit port k, as the register file sees it.                         *)
ComPort(n, k) ==
  LET p == Inc(comPtr, k-1)
  IN  [en |-> n >= k /\ rob[p].rdUse, ptr |-> p, rd |-> rob[p].rdIdx,
       data |-> rrf.data[p]]

StoreCommitted(n) == \E k \in 1..n : rob[Inc(comPtr, k-1)].storeBit
-----------------------------------------------------------------------------
(* dispatch.h                                                               *)

Lane(k) == IF k = 1 THEN fe.dcd1 ELSE fe.dcd2
Size == IF fe.dcd2.invalid THEN 1 ELSE 2     (* instructions of the group    *)

(* The two rows a station offers: the adders' tables are interleaved.       *)
AluTable == Interleave(rs["alu1"], rs["alu2"])

Offer(s) ==
  LET t == IF s = "alu" THEN AluTable ELSE rs[s]
      row(i) == [busy |-> t[i].busy, idx |-> i]
      one == IF s \in InOrder THEN row(alloc[s]) ELSE FreeIndex(t, None)
      two == IF s \in InOrder THEN row(Wrap(t, alloc[s] + 1))
                              ELSE FreeIndex(t, one.idx)
  IN  <<one, two>>

Stations == {"alu", "mul", "br", "ls"}

Required(s, k) == Lane(k).rsEnt = s /\ ~Lane(k).invalid

(* isAlocatableForRsv                                                       *)
Allocatable(s) ==
  LET f == Offer(s)
  IN  Bit(~f[1].busy) + Bit(~f[2].busy) >= Bit(Required(s, 1)) + Bit(Required(s, 2))

IsDispatchable(n) ==
  (\A s \in Stations : Allocatable(s)) /\ IsRenamable(rrf, Size, n)

Dispatches(w, n) == fe.dp /\ ~w.mis /\ ~w.suc /\ IsDispatchable(n)

(* srcOpr.h: operand rs of lane k.                                          *)
(* Mutant: a result that is being bypassed is not seen. *)
FromRegsBlind(r, bps) ==
  LET t == arf.rename[Master][r]
  IN  CASE ~arf.busy[Master][r]              -> [v |-> TRUE, p |-> arf.reg[r]]
        [] arf.busy[Master][r] /\ rrf.valid[t] -> [v |-> TRUE, p |-> rrf.data[t]]
        [] OTHER                             -> [v |-> FALSE, p |-> t]

FromRegs(r, bps) ==
  LET t == arf.rename[Master][r]
      busy == arf.busy[Master][r]
  IN  CASE ~busy                   -> [v |-> TRUE, p |-> arf.reg[r]]
        [] busy /\ rrf.valid[t]    -> [v |-> TRUE, p |-> rrf.data[t]]
        [] busy /\ ~rrf.valid[t] /\ Served(bps, t)
                                   -> [v |-> TRUE, p |-> ValueOf(bps, t)]
        [] OTHER                   -> [v |-> FALSE, p |-> t]

(* The first lane of the group may be the producer of the second.           *)
SrcOpr(k, r, use, desEqSrc, bps) ==
  LET o == CASE r = 0                       -> [v |-> TRUE, p |-> 0]
             [] r # 0 /\ k = 2 /\ desEqSrc  -> [v |-> FALSE, p |-> rrf.reqPtr]
             [] OTHER                       -> FromRegs(r, bps)
  IN  [v |-> o.v \/ ~use, p |-> o.p]

(* cvtdecInstrToRsv                                                         *)
Entry(k, bps) ==
  LET d  == Lane(k)
      o1 == SrcOpr(k, d.rs1, d.use1, fe.desEqSrc1, bps)
      o2 == SrcOpr(k, d.rs2, d.use2, fe.desEqSrc2, bps)
  IN  [busy |-> TRUE, sortBit |-> 1, pc |-> Plus(fe.pc, k-1),
       rrftag |-> Inc(rrf.reqPtr, k-1), rdUse |-> d.rdUse, op |-> d.op,
       aluOp |-> d.aluOp, selA |-> d.selA, selB |-> d.selB, imm |-> d.imm,
       spec |-> d.spec, specTag |-> d.specTag, pred |-> d.pred,
       v1 |-> o1.v, p1 |-> o1.p, v2 |-> o2.v, p2 |-> o2.p]

(* Unit and row lane k is written to: the second lane takes the second row  *)
(* if the first one takes the first.                                        *)
RowOf(k) ==
  LET s == Lane(k).rsEnt
      f == Offer(s)
      i == IF k = 2 /\ fe.dcd1.rsEnt = s THEN f[2].idx ELSE f[1].idx
  IN  IF s = "alu" THEN [unit |-> IF i % 2 = 1 THEN "alu2" ELSE "alu1",
                         row |-> i \div 2]
                   ELSE [unit |-> s, row |-> i]

(* The entries written to unit u: of two to one row the second lane's.      *)
Writes(u, bps) ==
  LET at(i) == {k \in 1..Size : RowOf(k) = [unit |-> u, row |-> i]}
  IN  [i \in {j \in DOMAIN rs[u] : at(j) # {}} |->
         Entry(IF 2 \in at(i) THEN 2 ELSE 1, bps)]

Rename(k) ==
  LET d == Lane(k)
  IN  [en |-> d.rdUse /\ ~d.invalid, ptr |-> Inc(rrf.reqPtr, k-1),
       rd |-> d.rdIdx, isBranch |-> d.isBranch, specTag |-> d.specTag]

(* Rob::onDispatch.                                                         *)
RobEntry(k) ==
  [wbFin |-> FALSE, isBranch |-> Lane(k).isBranch,
   storeBit |-> Lane(k).op = "sw", rdUse |-> Lane(k).rdUse,
   rdIdx |-> Lane(k).rdIdx]
-----------------------------------------------------------------------------
(* fetch.h, decoder.h: the in-order stages.                                 *)

(* selLog: two instructions of the group of four the address is in.         *)
Fetched ==
  LET sel == fe.curPc % 4
      odd == sel % 2 = 1
      npc == Plus(fe.curPc, IF odd THEN 1 ELSE 2)
  IN  [invalid2 |-> odd, pc |-> fe.curPc, npc |-> npc,
       inst1 |-> prog[fe.curPc],
       inst2 |-> prog[(fe.curPc - sel) + ((sel + 1) % 4)]]

Dcw1 == Decode(fe.raw.inst1, FALSE, Plus(fe.raw.pc, 1))
Dcw2 == Decode(fe.raw.inst2, fe.raw.invalid2, fe.raw.npc)

Decodes(w, dispatched) ==
  /\ fe.dc /\ ~w.mis /\ ~w.suc
  /\ IsAllGenble(tg, Dcw1.isBranch, Dcw2.isBranch)
  /\ fe.dp => dispatched

Fetches(w, decoded) == ~w.mis /\ ~w.suc /\ (fe.dc => decoded)

(* The decoded group, with the tags of the tag generator.                   *)
DecodedGroup(f) ==
  LET b1 == Dcw1.isBranch
      b2 == Dcw2.isBranch
  IN  [f EXCEPT
         !.pc = fe.raw.pc,
         !.dcd1 = [Dcw1 EXCEPT !.spec = GenSpec1(tg), !.specTag = GenTag1(tg, b1)],
         !.dcd2 = [Dcw2 EXCEPT !.spec = GenSpec2(tg, b1),
                               !.specTag = GenTag2(tg, b1, b2)],
         !.desEqSrc1 = Dcw1.rdUse /\ Dcw2.rs1 = Dcw1.rdIdx,
         !.desEqSrc2 = Dcw1.rdUse /\ Dcw2.rs2 = Dcw1.rdIdx]

(* PipStage::onMisPred and onSucPred, DpMod::onSucPred, FetchStage::incPc.  *)
(* Mutant: a group that waits for dispatch does not hear of a success. *)
FrontSucDeaf(f, w) == f

FrontSuc(f, w) ==
  [f EXCEPT !.dcd1.spec = @ /\ f.dcd1.specTag # w.tag,
            !.dcd2.spec = @ /\ f.dcd2.specTag # w.tag]

FrontNext(w, fetched, decoded, dispatched) ==
  LET f0 == IF w.suc THEN FrontSuc(fe, w) ELSE fe
      f1 == IF decoded THEN DecodedGroup(f0) ELSE f0
      f2 == IF fetched THEN [f1 EXCEPT !.raw = Fetched, !.curPc = Fetched.npc] ELSE f1
  IN  [f2 EXCEPT !.curPc = IF w.mis THEN w.calAddr ELSE @,
                 !.dc = ~w.mis /\ (fetched \/ (@ /\ ~decoded)),
                 !.dp = ~w.mis /\ (decoded \/ (@ /\ ~dispatched))]
-----------------------------------------------------------------------------
(* Issue: the row of unit u that moves to the execution stage.  A           *)
(* mispredict holds every issue.                                            *)
Issued(u, w) ==
  CASE w.mis                                       -> None
    [] ~w.mis /\ u = "ls" /\ ex["ls"].full /\ ~LsGoes(w) -> None
    [] ~w.mis /\ u = "br"                          -> IIssue(rs[u], alloc[u])
    [] ~w.mis /\ u = "ls" /\ (~ex["ls"].full \/ LsGoes(w))
                                                   -> IIssue(rs[u], alloc[u])
    [] OTHER                                       -> OIssue(u, rs[u])

(* onIssue and tryOwSpecBit.                                                *)
ExecNext(u, w, i, stays) ==
  [full |-> i # None \/ stays,
   src |-> IF i = None THEN ex[u].src
           ELSE [rs[u][i] EXCEPT !.spec = @ /\ ~CheckIsSuc(w, rs[u][i])]]

AllocNext(u, w, dispatched) ==
  LET lanes == {k \in 1..Size : Required(u, k)}
  IN  CASE dispatched /\ lanes # {} ->
             Wrap(rs[u], RowOf(IF 2 \in lanes THEN 2 ELSE 1).row + 1)
        [] w.mis  -> AllocMisPred(rs[u], alloc[u], Killed(w))
        [] OTHER  -> alloc[u]

(* The store buffer, and the command for the data memory: a load has the    *)
(* port before a store that wants to retire.                                *)
Loading(w) == LsGoes(w) /\ IsLoad
Storing(w) == LsGoes(w) /\ ~IsLoad
Retiring(w) == StRetire(sb, w) /\ ~Loading(w)

StBufNext(w, n) ==
  LET s0 == IF w.mis THEN StMisPred(sb, Killed(w)) ELSE sb
      s1 == [s0 EXCEPT
               !.ent = StEnt(sb, w, StoreCommitted(n), Retiring(w)),
               !.comPtr = IF StoreCommitted(n) THEN StInc(@) ELSE @,
               !.retPtr = IF Retiring(w) THEN StInc(@) ELSE @]
  IN  IF Storing(w) THEN StNew(s1, sb, w, ex["ls"].src, EffAddr) ELSE s1

CmdNext(w) ==
  IF Loading(w)
    THEN [we |-> FALSE, addr |-> EffAddr, data |-> 0]
    ELSE [we |-> Retiring(w), addr |-> sb.ent[sb.retPtr].mem_addr,
          data |-> sb.ent[sb.retPtr].data]

(* simulation/o3_sim.cpp: the command of a cycle takes effect in the next.  *)
DmemNext == IF cmd.we THEN [dmem EXCEPT ![cmd.addr] = cmd.data] ELSE dmem
-----------------------------------------------------------------------------
(* The memory as the committed program left it: a committed store may still *)
(* be in the buffer.                                                        *)
StDist(i) == (i - sb.retPtr) % STBUF_ENT_NUM

CommittedMem ==
  [a \in Words |->
     LET c == {i \in StRows : sb.ent[i].busy /\ sb.ent[i].complete
                              /\ sb.ent[i].mem_addr = a}
     IN  IF c = {} THEN DmemNext[a]
         ELSE sb.ent[CHOOSE i \in c : \A j \in c : StDist(j) <= StDist(i)].data]

(* The address behind n instructions of the program.                        *)
ApcNext(n) ==
  LET s0 == [pc |-> apc, reg |-> arf.reg, mem |-> CommittedMem]
      s1 == Execute(s0, prog[s0.pc])
  IN  CASE n = 0 -> apc [] n = 1 -> s1.pc
        [] n = 2 -> Execute(s1, prog[s1.pc]).pc

Tick == clk' = 1 - clk

(* The wires of the cycle, as they settle.                                  *)
Settled ==
  LET w == Wires
      n == Committed(w)
      dispatched == Dispatches(w, n)
  IN  [w |-> w, n |-> n, dispatched |-> dispatched, decoded |-> Decodes(w, dispatched)]

(* The registers and the data memory after a cycle with these wires.        *)
CoreNext(wires) ==
  LET w == wires.w
      bps == ByPasses
      wb == WrittenBack
      n == wires.n
      dispatched == wires.dispatched
      decoded == wires.decoded
      fetched == Fetches(w, decoded)
      size == IF dispatched THEN Size ELSE 0
      issue == [u \in Units |-> Issued(u, w)]
      renamed == RrfCycle(rrf, size, n, bps)
      com == ArfCommit(arf, <<ComPort(n, 1), ComPort(n, 2)>>)
  IN  [fe |-> FrontNext(w, fetched, decoded, dispatched),
       tg |-> CASE w.mis   -> TagMisPred(tg, w.tag)
                [] w.suc   -> TagSucPred(tg, w.tag)
                [] decoded -> Allocate(tg, Dcw1.isBranch, Dcw2.isBranch)
                [] OTHER   -> tg,
       arf |-> CASE w.mis      -> ArfMisPred(com, w.tag)
                 [] w.suc      -> ArfSucPred(com, tg, w.tag)
                 [] dispatched -> ArfRename(com, tg, <<Rename(1), Rename(2)>>)
                 [] OTHER      -> com,
       rrf |-> IF w.mis THEN RrfMisPred(renamed, w.rrftag, comPtr) ELSE renamed,
       rob |-> [p \in Ptrs |->
                  IF \E k \in 1..size : p = Inc(rrf.reqPtr, k-1)
                    THEN RobEntry(IF p = rrf.reqPtr THEN 1 ELSE 2)
                    ELSE [rob[p] EXCEPT !.wbFin = @ \/ p \in wb]],
       comPtr |-> Inc(comPtr, n),
       rs |-> [u \in Units |->
                 RsvCycle(rs[u], w, bps, issue[u],
                          rrf.nextRrfCycle /\ u \in {"alu1", "alu2"},
                          IF dispatched THEN Writes(u, bps) ELSE <<>>)],
       alloc |-> [u \in InOrder |-> AllocNext(u, w, dispatched)],
       ex |-> [u \in Units |->
                 ExecNext(u, w, issue[u],
                          u = "ls" /\ ex[u].full /\ ~LsGoes(w) /\ ~LsKilled(w))],
       ls2 |-> IF LsGoes(w)
                 THEN LET f == StSearch(sb, EffAddr)
                      IN  [full |-> TRUE, src |-> ex["ls"].src,
                           hit |-> f.hit, data |-> f.data]
                 ELSE [ls2 EXCEPT !.full = FALSE],
       sb |-> StBufNext(w, n),
       dmem |-> DmemNext,
       cmd |-> CmdNext(w)]

(* The core and its memories become s.                                      *)
Becomes(s) ==
  /\ fe' = s.fe /\ tg' = s.tg /\ arf' = s.arf /\ rrf' = s.rrf
  /\ rob' = s.rob /\ comPtr' = s.comPtr
  /\ rs' = s.rs /\ alloc' = s.alloc /\ ex' = s.ex
  /\ ls2' = s.ls2 /\ sb' = s.sb /\ dmem' = s.dmem /\ cmd' = s.cmd

(* n instructions are committed and the core becomes s.                     *)
Cycle(n, s) ==
  /\ Becomes(s)
  /\ apc' = ApcNext(n)
  /\ Tick
  /\ UNCHANGED prog

Next == \E wires \in {Settled} : \E s \in {CoreNext(wires)} : Cycle(wires.n, s)

Spec == Init /\ [][Next]_vars
-----------------------------------------------------------------------------
(* Properties.  Age 0 is the ring entry that is committed next.             *)

Age(p) == (p - comPtr) % RRF_NUM
InFlight == {p \in Ptrs : Age(p) < Rem(rrf, comPtr)}

Busy == UNION {{<<u, i>> : i \in {j \in DOMAIN rs[u] : rs[u][j].busy}} :
                 u \in Units}
Full == {u \in Units : ex[u].full}
Row(x) == rs[x[1]][x[2]]

(* Nothing is lost and nothing is done twice: an instruction of the ring    *)
(* that has no result yet is in exactly one station or unit, and these hold *)
(* nothing else: not what a mispredict took back, and not what is finished. *)
OnePlace ==
  \A p \in Ptrs :
    Cardinality({x \in Busy : Row(x).rrftag = p})
      + Cardinality({u \in Full : ex[u].src.rrftag = p})
      + Bit(ls2.full /\ ls2.src.rrftag = p)
    = Bit(p \in InFlight /\ ~rob[p].wbFin)

(* An operand that waits will be served: its producer is older, is still    *)
(* to finish and has a result.                                              *)
Serves(p, e) ==
  p \in InFlight /\ Age(p) < Age(e.rrftag) /\ rob[p].rdUse /\ ~rob[p].wbFin

OperandArrives ==
  \A x \in Busy : /\ ~Row(x).v1 => Serves(Row(x).p1, Row(x))
                  /\ ~Row(x).v2 => Serves(Row(x).p2, Row(x))

(* The unresolved branches, with an age: those that wait for dispatch are   *)
(* younger than those of the ring.                                          *)
Unresolved ==
  {[tag |-> Row(x).specTag, age |-> Age(Row(x).rrftag)] :
     x \in {y \in Busy : y[1] = "br"}}
  \cup {[tag |-> ex[u].src.specTag, age |-> Age(ex[u].src.rrftag)] :
          u \in {"br"} \cap Full}
  \cup {[tag |-> Lane(k).specTag, age |-> RRF_NUM + k] :
          k \in {j \in 1..Size : fe.dp /\ Lane(j).isBranch}}

(* The fix table knows what a mispredict has to kill: the row of a branch   *)
(* has the tags of that branch and of all branches behind it, no others.    *)
FixExact ==
  /\ tg.brdepth = Cardinality(Unresolved)
  /\ {t \in Tags : tg.valid[t]} = {b.tag : b \in Unresolved}
  /\ \A b \in Unresolved :
       tg.fixTag[b.tag] = {c.tag : c \in {d \in Unresolved : d.age >= b.age}}

(* Whatever still calls itself speculative carries the tag of a branch that *)
(* is unresolved; a stale one would die with a branch it never was behind.  *)
Speculative ==
  {e \in {Row(x) : x \in Busy} \cup {ex[u].src : u \in Full}
         \cup {Lane(k) : k \in IF fe.dp THEN 1..Size ELSE {}} : e.spec}
  \cup {e \in {sb.ent[i] : i \in StRows} : e.busy /\ e.spec}

SpecOwned == \A e \in Speculative : tg.valid[e.specTag]

(* The rename table of row t names, for every register, the youngest of the *)
(* instructions younger than "age" that write it.                           *)
RowRight(t, age) ==
  \A r \in Regs :
    LET w == {p \in InFlight : Age(p) < age /\ rob[p].rdUse /\ rob[p].rdIdx = r}
    IN  /\ arf.busy[t][r] = (w # {})
        /\ w # {} => /\ arf.rename[t][r] \in w
                     /\ \A p \in w : Age(p) <= Age(arf.rename[t][r])

(* The table decode reads covers all instructions of the ring, and the copy *)
(* of a branch those up to the branch: what must be known again when the    *)
(* branch turns out mispredicted.                                           *)
TablesRight ==
  /\ RowRight(Master, RRF_NUM)
  /\ \A b \in Unresolved : b.age < RRF_NUM => RowRight(b.tag, b.age + 1)
=============================================================================
