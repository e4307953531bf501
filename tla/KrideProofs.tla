------------------------------ MODULE KrideProofs ------------------------------
(***************************************************************************)
(* Proofs about the Kride core and its lockstep bench, for every size of   *)
(* the core, every program and every sequence of workloads.                *)
(***************************************************************************)
EXTENDS KrideCompare, KrideRsvProofs

-----------------------------------------------------------------------------
(* The store buffer keeps its pointers in its rows.                         *)

StoreBufferOk(s) ==
  /\ DOMAIN s = {"ent", "finPtr", "comPtr", "retPtr"}
  /\ DOMAIN s.ent = StRows
  /\ s.finPtr \in StRows /\ s.comPtr \in StRows /\ s.retPtr \in StRows

(* The rows of the store buffer, and the one behind a row.                 *)
LEMMA StRowsAre ==
  /\ STBUF_ENT_NUM \in Nat \ {0}
  /\ \A p \in StRows : StInc(p) \in StRows
<1>1. STBUF_ENT_NUM \in Nat \ {0}
  BY StBufAssumption DEF PowerOfTwo
<1>2. ASSUME NEW p \in StRows PROVE StInc(p) \in StRows
  BY <1>1 DEF StRows, StInc
<1> QED
  BY <1>1, <1>2

(* The pointers a mispredict leaves are rows.                              *)
LEMMA StMisPredOk ==
  ASSUME NEW s, StoreBufferOk(s), NEW killed
  PROVE  StoreBufferOk(StMisPred(s, killed))
<1> DEFINE b1 == SearchIdx(s.ent, TRUE, "first", killed)
           e1 == SearchIdx(s.ent, TRUE, "last", killed)
           b0 == SearchIdx(s.ent, FALSE, "first", killed)
           f  == CASE ~e1.valid \/ ~b0.valid -> s.finPtr
                   [] e1.valid /\ b0.valid /\ RoundTheEnd(s.ent, b1, e1) -> b0.idx
                   [] OTHER -> StInc(e1.idx)
           c  == IF e1.valid THEN s.comPtr ELSE s.finPtr
           r  == IF e1.valid THEN s.retPtr ELSE s.finPtr
<1>1. Table(s.ent, STBUF_ENT_NUM)
  BY StBufAssumption DEF Table, StoreBufferOk, StRows
<1>2. b0.idx \in StRows
  BY <1>1, SearchFirstFree DEF StRows
<1>3. e1.idx \in StRows
  BY <1>1, SearchLast DEF StRows
<1>4. StMisPred(s, killed) = [s EXCEPT !.finPtr = f, !.comPtr = c, !.retPtr = r]
  BY DEF StMisPred
<1> HIDE DEF b0, b1, e1
<1>5. StInc(e1.idx) \in StRows
  BY <1>3, StRowsAre
<1>6. f \in StRows /\ c \in StRows /\ r \in StRows
  BY <1>2, <1>5 DEF StoreBufferOk
<1> HIDE DEF f, c, r
<1> QED
  BY <1>4, <1>6 DEF StoreBufferOk

(* A cycle keeps the shape of the store buffer.                            *)
LEMMA StBufNextOk ==
  ASSUME StoreBufferOk(sb), NEW w, NEW n
  PROVE  StoreBufferOk(StBufNext(w, n))
<1> DEFINE s0 == IF w.mis THEN StMisPred(sb, Killed(w)) ELSE sb
           e  == StEnt(sb, w, StoreCommitted(n), Retiring(w))
           c  == IF StoreCommitted(n) THEN StInc(s0.comPtr) ELSE s0.comPtr
           r  == IF Retiring(w) THEN StInc(s0.retPtr) ELSE s0.retPtr
           s1 == [s0 EXCEPT !.ent = e, !.comPtr = c, !.retPtr = r]
           s2 == StNew(s1, sb, w, ex["ls"].src, EffAddr)
<1>1. StoreBufferOk(s0)
  BY StMisPredOk
<1>2. StBufNext(w, n) = IF Storing(w) THEN s2 ELSE s1
  BY DEF StBufNext
<1>3. DOMAIN e = StRows
  BY DEF StEnt
<1> HIDE DEF s0, e
<1>4. c \in StRows /\ r \in StRows
  BY <1>1, StRowsAre DEF StoreBufferOk
<1> HIDE DEF c, r
<1>5. StoreBufferOk(s1) /\ s1.ent = e
  <2> DEFINE s3 == s1
  <2>1. s3 = [s0 EXCEPT !.ent = e, !.comPtr = c, !.retPtr = r]
    OBVIOUS
  <2> HIDE DEF s3
  <2>2. StoreBufferOk(s3) /\ s3.ent = e
    BY <1>1, <1>3, <1>4, <2>1 DEF StoreBufferOk
  <2> QED BY <2>2 DEF s3
<1> HIDE DEF s1
<1>6. StInc(sb.finPtr) \in StRows
  BY StRowsAre DEF StoreBufferOk
<1>7. StoreBufferOk(s2)
  <2> DEFINE x == [busy |-> TRUE, complete |-> FALSE,
                   spec |-> ex["ls"].src.spec /\ ~CheckIsSuc(w, ex["ls"].src),
                   specTag |-> ex["ls"].src.specTag,
                   mem_addr |-> EffAddr, data |-> ex["ls"].src.p2]
             y == [s1.ent EXCEPT ![sb.finPtr] = x]
  <2>1. s2 = [s1 EXCEPT !.ent = y, !.finPtr = StInc(sb.finPtr)]
    BY DEF StNew
  <2>2. DOMAIN y = StRows
    BY <1>5 DEF StoreBufferOk
  <2> HIDE DEF x, y, s2
  <2> QED BY <1>5, <1>6, <2>1, <2>2 DEF StoreBufferOk
<1> QED
  BY <1>2, <1>5, <1>7

-----------------------------------------------------------------------------
(* What the bench compares decides what reaches the memory.                 *)

ControlOk ==
  /\ DOMAIN ctl = {"phase", "job", "retard", "retarted", "errorIndexs", "upset"}
  /\ ctl.retard \in BOOLEAN
  /\ ctl.phase \in {"alone", "init", "run", "done"}

IsCore(c) ==
  DOMAIN c = {"fe", "tg", "arf", "rrf", "rob", "comPtr", "rs", "alloc", "ex",
              "ls2", "sb", "dmem", "cmd"}

CInv == ControlOk /\ IsCore(ride) /\ StoreBufferOk(sb) /\ SameMemory

(* A change of a register of the slave is not one of its memory.            *)
LEMMA MemoryNotAltered ==
  ASSUME NEW c, IsCore(c), NEW d \in AlteredCore(c)
  PROVE  IsCore(d) /\ d.dmem = c.dmem /\ d.cmd = c.cmd
<1> DEFINE Good(x) == IsCore(x) /\ x.dmem = c.dmem /\ x.cmd = c.cmd
<1>1. ASSUME NEW v PROVE Good([c EXCEPT !.rs = v])
  BY DEF IsCore
<1>2. ASSUME NEW v PROVE Good([c EXCEPT !.ex = v])
  BY DEF IsCore
<1>3. ASSUME NEW v PROVE Good([c EXCEPT !.sb = v])
  BY DEF IsCore
<1>4. ASSUME NEW v PROVE Good([c EXCEPT !.rob = v])
  BY DEF IsCore
<1>5. ASSUME NEW v PROVE Good([c EXCEPT !.fe = v])
  BY DEF IsCore
<1>6. ASSUME NEW v PROVE Good([c EXCEPT !.arf = v])
  BY DEF IsCore
<1>7. ASSUME NEW v PROVE Good([c EXCEPT !.rrf = v])
  BY DEF IsCore
<1>8. ASSUME NEW v PROVE Good([c EXCEPT !.ls2 = v])
  BY DEF IsCore
<1>9. ASSUME NEW v PROVE Good([c EXCEPT !.tg = v])
  BY DEF IsCore
<1> HIDE DEF Good
<1>10. Good(d)
  <2> DEFINE
        A1 == UNION {UNION {{[c EXCEPT !.rs[u][i] = e] : e \in AlteredRow(c.rs[u][i])} :
                            i \in (0..1) \cap DOMAIN c.rs[u]} : u \in Units}
        A2 == UNION {{[c EXCEPT !.ex[u].src = e] : e \in AlteredOperand(c.ex[u].src)} :
                     u \in Units}
        A3 == UNION {{[c EXCEPT !.sb.ent[i] = e] : e \in AlteredStore(c.sb.ent[i])} :
                     i \in StRows}
        A4 == UNION {{[c EXCEPT !.rob[p] = e] : e \in AlteredRob(c.rob[p])} : p \in Ptrs}
        A5 == {[c EXCEPT !.fe.dcd1 = x] : x \in AlteredLane(c.fe.dcd1)}
        A6 == {[c EXCEPT !.arf.reg[x] = Plus(@, 1)] : x \in Regs \ {0}}
        A7 == {[c EXCEPT !.arf.rename[Master][x] = Inc(@, 1)] : x \in Regs}
        A8 == {[c EXCEPT !.rrf.data[p] = Plus(@, 1)] : p \in Ptrs}
        A9 == {[c EXCEPT !.rrf.valid[p] = ~@] : p \in Ptrs}
        A10 == {[c EXCEPT !.fe.curPc = Plus(@, 1)], [c EXCEPT !.ls2.data = Plus(@, 1)],
                [c EXCEPT !.ls2.hit = ~@], [c EXCEPT !.tg.tagreg = TagAfter(@)]}
  <2>1. d \in A1 => Good(d)
    BY <1>1
  <2>2. d \in A2 => Good(d)
    BY <1>2
  <2>3. d \in A3 => Good(d)
    BY <1>3
  <2>4. d \in A4 => Good(d)
    BY <1>4
  <2>5. d \in A5 => Good(d)
    BY <1>5
  <2>6. d \in A6 \/ d \in A7 => Good(d)
    BY <1>6
  <2>7. d \in A8 \/ d \in A9 => Good(d)
    BY <1>7
  <2>8. d \in A10 => Good(d)
    BY <1>5, <1>8, <1>9
  <2>9. d \in A1 \cup A2 \cup A3 \cup A4 \cup A5 \cup A6 \cup A7 \cup A8 \cup A9 \cup A10
    BY DEF AlteredCore
  <2> HIDE DEF A1, A2, A3, A4, A5, A6, A7, A8, A9, A10
  <2> QED
    BY <2>1, <2>2, <2>3, <2>4, <2>5, <2>6, <2>7, <2>8, <2>9
<1> QED
  BY <1>10 DEF Good

(* A cycle of the slave yields a core.                                     *)
LEMMA CoreNextIsCore ==
  IsCore(Ride!CoreNext(Ride!Settled))
<1> DEFINE c == Ride!CoreNext(Ride!Settled)
<1>1. DOMAIN c = {"fe", "tg", "arf", "rrf", "rob", "comPtr", "rs", "alloc", "ex",
                  "ls2", "sb", "dmem", "cmd"}
  BY DEF Ride!CoreNext
<1> QED
  BY <1>1 DEF IsCore

(* A command that both cores give, after everything the bench compares is   *)
(* equal, is the same command.                                              *)
LEMMA SameCommand ==
  ASSUME StoreBufferOk(sb), NEW l, NEW r, DoCompare(l, r)
  PROVE  LET a == CmdNext(l.w)
             b == Ride!CmdNext(r.w)
         IN  /\ a.we = b.we
             /\ a.we => a = b
<1> DEFINE a == CmdNext(l.w)
           b == Ride!CmdNext(r.w)
<1>1. a.we = b.we /\ a.addr = b.addr
  BY DEF DoCompare, MemOpCompare
<1>2. /\ sb.retPtr = ride.sb.retPtr
      /\ \A i \in StRows : sb.ent[i].busy => sb.ent[i].data = ride.sb.ent[i].data
  BY DEF DoCompare, Compare, StbufCompare, Same, Recruit, Ride!Recruit
<1>3. a = IF Loading(l.w) THEN [we |-> FALSE, addr |-> EffAddr, data |-> 0]
          ELSE [we |-> Retiring(l.w), addr |-> sb.ent[sb.retPtr].mem_addr,
                data |-> sb.ent[sb.retPtr].data]
  BY DEF CmdNext
<1>4. b = IF Ride!Loading(r.w) THEN [we |-> FALSE, addr |-> Ride!EffAddr, data |-> 0]
          ELSE [we |-> Ride!Retiring(r.w), addr |-> ride.sb.ent[ride.sb.retPtr].mem_addr,
                data |-> ride.sb.ent[ride.sb.retPtr].data]
  BY DEF Ride!CmdNext
<1>5. Retiring(l.w) => sb.ent[sb.retPtr].busy
  BY DEF Retiring, StRetire
<1> HIDE DEF a, b
<1>6. ASSUME a.we PROVE a = b
  <2>1. ~Loading(l.w) /\ ~Ride!Loading(r.w) /\ Retiring(l.w)
    BY <1>1, <1>3, <1>4, <1>6
  <2>2. sb.ent[sb.retPtr].data = ride.sb.ent[ride.sb.retPtr].data
    BY <1>2, <1>5, <2>1 DEF StoreBufferOk
  <2> QED BY <1>1, <1>3, <1>4, <2>1, <2>2
<1> QED
  BY <1>1, <1>6 DEF a, b

(* The bench begins with equal memories.                                   *)
LEMMA CInitOk == CompareInit => CInv
<1> SUFFICES ASSUME CompareInit PROVE CInv
  OBVIOUS
<1>1. ControlOk /\ ctl.phase # "run"
  BY DEF CompareInit, ControlOk
<1>2. IsCore(ride)
  BY DEF CompareInit, Core, IsCore
<1>3. StoreBufferOk(sb)
  <2>1. 0 \in StRows
    BY StRowsAre DEF StRows
  <2> QED BY <2>1 DEF CompareInit, Init, StReset, StoreBufferOk
<1> QED
  BY <1>1, <1>2, <1>3 DEF CInv, SameMemory

(* What a cycle of the master does to its memory and store buffer.          *)
LEMMA CycleMemory ==
  ASSUME StoreBufferOk(sb), Becomes(CoreNext(Settled))
  PROVE  /\ StoreBufferOk(sb')
         /\ dmem' = DmemNext /\ cmd' = CmdNext(Settled.w)
<1> DEFINE s == CoreNext(Settled)
<1>1. /\ s.sb = StBufNext(Settled.w, Settled.n) /\ s.dmem = DmemNext
      /\ s.cmd = CmdNext(Settled.w)
  BY DEF CoreNext
<1>2. sb' = s.sb /\ dmem' = s.dmem /\ cmd' = s.cmd
  BY DEF Becomes
<1> HIDE DEF s
<1> QED
  BY <1>1, <1>2, StBufNextOk

(* No step of the bench lets the memories differ unnoticed.                *)
LEMMA CNextOk == CInv /\ [CompareNext]_compareVars => CInv'
<1> SUFFICES ASSUME CInv, [CompareNext]_compareVars PROVE CInv'
  OBVIOUS
<1> USE DEF CInv
<1>1. ASSUME Alone(Settled, CoreNext(Settled)) PROVE CInv'
  <2>1. ctl' = ctl /\ ride' = ride /\ ctl.phase # "run"
    BY <1>1 DEF Alone
  <2>2. StoreBufferOk(sb)'
    BY <1>1, CycleMemory DEF Alone, Cycle
  <2> QED BY <2>1, <2>2 DEF ControlOk, IsCore, SameMemory
<1>2. ASSUME NEW m, NEW s, WorkloadInit(m, s) PROVE CInv'
  <2> DEFINE data == Loaded(jobs[ctl.job].data)
             a == AfterReset(m)
             b == AfterReset(s)
             x == Started(m, data)
             y == Started(s, data)
  <2>1. ride' = y /\ sb' = x.sb /\ dmem' = x.dmem /\ cmd' = x.cmd
    BY <1>2 DEF WorkloadInit, Becomes
  <2>2. /\ x = [a EXCEPT !.dmem = data,
                 !.cmd = [we |-> FALSE, addr |-> m.sb.ent[0].mem_addr,
                          data |-> m.sb.ent[0].data]]
        /\ y = [b EXCEPT !.dmem = data,
                 !.cmd = [we |-> FALSE, addr |-> s.sb.ent[0].mem_addr,
                          data |-> s.sb.ent[0].data]]
    BY DEF Started
  <2>3. /\ IsCore(a) /\ IsCore(b)
        /\ a.sb = [StReset EXCEPT !.ent = [i \in StRows |->
                     [m.sb.ent[i] EXCEPT !.busy = FALSE, !.complete = FALSE,
                                         !.spec = FALSE]]]
    BY DEF AfterReset, IsCore
  <2> HIDE DEF a, b, x, y, data
  <2>4. /\ x.sb = a.sb /\ x.dmem = data /\ x.cmd.we = FALSE
        /\ y.dmem = data /\ y.cmd.we = FALSE /\ IsCore(y)
    BY <2>2, <2>3 DEF IsCore
  <2>5. StoreBufferOk(a.sb)
    <3>1. 0 \in StRows
      BY StRowsAre DEF StRows
    <3> QED BY <2>3, <3>1 DEF StoreBufferOk, StReset
  <2>6. ControlOk'
    BY <1>2 DEF WorkloadInit, ControlOk
  <2> QED BY <2>1, <2>4, <2>5, <2>6 DEF SameMemory
<1>3. ASSUME CompareCycle(Settled, Ride!Settled, CoreNext(Settled),
                          Ride!CoreNext(Ride!Settled))
      PROVE  CInv'
  <2> DEFINE l == Settled
             r == Ride!Settled
             m == CoreNext(Settled)
             s == Ride!CoreNext(Ride!Settled)
             bad == ctl.retard \/ ~DoCompare(l, r)
  <2>1. ride' = s /\ Becomes(m) /\ ctl.phase = "run"
    BY <1>3 DEF CompareCycle, Cycle
  <2>2. s.dmem = Ride!DmemNext /\ s.cmd = Ride!CmdNext(r.w) /\ IsCore(s)
    BY CoreNextIsCore DEF Ride!CoreNext
  <2>3. StoreBufferOk(sb)' /\ dmem' = DmemNext /\ cmd' = CmdNext(l.w)
    BY <2>1, CycleMemory
  <2>4. ctl' = IF Ends(bad, m, s)
               THEN [ctl EXCEPT !.phase = IF ctl.job = Len(jobs) THEN "done" ELSE "init",
                                !.job = IF ctl.job = Len(jobs) THEN @ ELSE @ + 1,
                                !.retard = bad,
                                !.errorIndexs = IF bad THEN @ \cup {ctl.job} ELSE @]
               ELSE [ctl EXCEPT !.retard = bad, !.retarted = @ + Bit(bad)]
    BY <1>3 DEF CompareCycle
  <2> HIDE DEF m, s, l, r
  <2>5. ControlOk' /\ (ctl'.phase = "run" => ctl'.retard = bad)
    BY <2>1, <2>4 DEF ControlOk
  <2>6. ASSUME ctl'.phase = "run", ~ctl'.retard
        PROVE  dmem' = s.dmem /\ cmd'.we = s.cmd.we /\ (cmd'.we => cmd' = s.cmd)
    <3>1. ~ctl.retard /\ DoCompare(l, r)
      BY <2>5, <2>6
    <3>2. dmem = ride.dmem /\ cmd.we = ride.cmd.we /\ (cmd.we => cmd = ride.cmd)
      BY <2>1, <3>1 DEF SameMemory
    <3>3. DmemNext = Ride!DmemNext
      BY <3>2 DEF DmemNext, Ride!DmemNext
    <3>4. cmd'.we = s.cmd.we /\ (cmd'.we => cmd' = s.cmd)
      BY <2>2, <2>3, <3>1, SameCommand
    <3> QED BY <2>2, <2>3, <3>3, <3>4
  <2> QED BY <2>1, <2>2, <2>3, <2>5, <2>6 DEF SameMemory
<1>4. ASSUME Upset PROVE CInv'
  <2>1. ride' \in AlteredCore(ride) /\ UNCHANGED vars
        /\ ctl' = [ctl EXCEPT !.upset = TRUE]
    BY <1>4 DEF Upset
  <2>2. IsCore(ride') /\ ride'.dmem = ride.dmem /\ ride'.cmd = ride.cmd
    BY <2>1, MemoryNotAltered
  <2>3. ControlOk' /\ ctl'.phase = ctl.phase /\ ctl'.retard = ctl.retard
    BY <2>1 DEF ControlOk
  <2>4. sb' = sb /\ dmem' = dmem /\ cmd' = cmd
    BY <2>1 DEF vars
  <2> QED BY <2>2, <2>3, <2>4 DEF SameMemory
<1>5. ASSUME UNCHANGED compareVars PROVE CInv'
  BY <1>5 DEF compareVars, vars, ControlOk, IsCore, SameMemory, StoreBufferOk
<1> QED
  BY <1>1, <1>2, <1>3, <1>4, <1>5 DEF CompareNext, Summarized

(* Whatever the core does, as long as the bench has reported no difference  *)
(* both cores have written the same words to the same places of their       *)
(* memories, though it is never the data of a write that it compares.       *)
THEOREM SameWrites == CompareSpec => []SameMemory
<1>1. CInv => SameMemory
  BY DEF CInv
<1> QED
  BY <1>1, CInitOk, CNextOk, PTL DEF CompareSpec

RP == INSTANCE RingProofs WITH g <- tg, free <- rrf.freenum, req <- rrf.reqPtr,
                               com <- comPtr

-----------------------------------------------------------------------------
(* The invariant of the core.                                               *)

(* Where an instruction can be between decode and its result: a lane of the *)
(* dispatch stage, a row of a station, the execution stage behind a station *)
(* (row Ex), or the second stage of the memory unit (row Ls2).              *)
Ex  == -1
Ls2 == -2

Spots ==
  {x \in (Units \cup {"lane"}) \X Int :
     IF x[1] = "lane" THEN x[2] \in 1..2
     ELSE x[2] \in 0..(EntNum(x[1]) - 1) \/ x[2] = Ex \/ x = <<"ls", Ls2>>}

Held(x) ==
  CASE x[1] = "lane"              -> fe.dp /\ x[2] <= Size
    [] x[1] # "lane" /\ x[2] = Ex  -> ex[x[1]].full
    [] x[1] # "lane" /\ x[2] = Ls2 -> ls2.full
    [] OTHER                      -> rs[x[1]][x[2]].busy

At(x) ==
  CASE x[1] = "lane"              -> Lane(x[2])
    [] x[1] # "lane" /\ x[2] = Ex  -> ex[x[1]].src
    [] x[1] # "lane" /\ x[2] = Ls2 -> ls2.src
    [] OTHER                      -> rs[x[1]][x[2]]

(* A lane has the age that it gets when it is dispatched.                   *)
Waiting == Rem(rrf, comPtr)

AgeAt(x) == IF x[1] = "lane" THEN Waiting + x[2] - 1 ELSE Age(At(x).rrftag)

IsBr(x) == x[1] = "br" \/ (x[1] = "lane" /\ Lane(x[2]).isBranch)

EntryFields ==
  {"busy", "sortBit", "pc", "rrftag", "rdUse", "op", "aluOp", "selA", "selB",
   "imm", "spec", "specTag", "pred", "v1", "p1", "v2", "p2"}

IsEntry(e) ==
  /\ DOMAIN e = EntryFields
  /\ e.busy \in BOOLEAN /\ e.rdUse \in BOOLEAN /\ e.spec \in BOOLEAN
  /\ e.v1 \in BOOLEAN /\ e.v2 \in BOOLEAN
  /\ e.specTag \in Tags /\ e.rrftag \in Ptrs

LaneFields ==
  {"op", "aluOp", "imm", "invalid", "rsEnt", "isBranch", "pred", "rdIdx",
   "rdUse", "rs1", "use1", "selA", "rs2", "use2", "selB", "spec", "specTag"}

IsLane(d) ==
  /\ DOMAIN d = LaneFields
  /\ d.invalid \in BOOLEAN /\ d.rdUse \in BOOLEAN /\ d.spec \in BOOLEAN
  /\ d.use1 \in BOOLEAN /\ d.use2 \in BOOLEAN
  /\ d.specTag \in Tags
  /\ d.rsEnt \in Stations
  /\ d.isBranch = (d.rsEnt = "br" /\ ~d.invalid)

RobFields == {"wbFin", "isBranch", "storeBit", "rdUse", "rdIdx"}

Shapes ==
  /\ DOMAIN rs = Units /\ DOMAIN ex = Units
  /\ \A u \in Units : /\ DOMAIN rs[u] = 0..(EntNum(u)-1)
                      /\ \A i \in DOMAIN rs[u] : IsEntry(rs[u][i])
                      /\ ex[u].full \in BOOLEAN /\ IsEntry(ex[u].src)
  /\ \A u \in InOrder : alloc[u] \in 0..(EntNum(u)-1)
  /\ {"full", "src"} \subseteq DOMAIN ls2 /\ ls2.full \in BOOLEAN /\ IsEntry(ls2.src)
  /\ \A p \in Ptrs : /\ DOMAIN rob[p] = RobFields
                     /\ rob[p].wbFin \in BOOLEAN /\ rob[p].rdUse \in BOOLEAN

FrontOk ==
  /\ DOMAIN fe = {"curPc", "raw", "dc", "dp", "dcd1", "dcd2", "pc",
                  "desEqSrc1", "desEqSrc2"}
  /\ fe.dc \in BOOLEAN /\ fe.dp \in BOOLEAN /\ fe.raw.invalid2 \in BOOLEAN
  /\ IsLane(fe.dcd1) /\ IsLane(fe.dcd2) /\ ~fe.dcd1.invalid
  /\ fe.desEqSrc1 \in BOOLEAN /\ fe.desEqSrc2 \in BOOLEAN
  /\ fe.desEqSrc1 => fe.dcd1.rdUse
  /\ fe.desEqSrc2 => fe.dcd1.rdUse

(* What is in a station or unit is in the ring, without a result.           *)
Sound ==
  \A x \in Spots : Held(x) /\ x[1] # "lane" =>
    LET e == At(x)
    IN  e.rrftag \in InFlight /\ ~rob[e.rrftag].wbFin /\ e.rdUse = rob[e.rrftag].rdUse

Apart ==
  \A x, y \in Spots : Held(x) /\ Held(y) /\ AgeAt(x) = AgeAt(y) => x = y

TagsHeld ==
  /\ \A x \in Spots : Held(x) /\ IsBr(x) => tg.valid[At(x).specTag]
  /\ \A t \in Tags : tg.valid[t] =>
       \E x \in Spots : Held(x) /\ IsBr(x) /\ At(x).specTag = t

Behind(t) == Tagging!Behind(t)

(* What is behind a branch says so, with a tag that is not older; the tag   *)
(* of a branch behind it is younger.                                        *)
InTheirOrder ==
  \A x, y \in Spots :
    Held(x) /\ IsBr(x) /\ Held(y) /\ AgeAt(x) < AgeAt(y)
      => /\ At(y).spec
         /\ Behind(At(y).specTag) <= Behind(At(x).specTag)
         /\ IsBr(y) => Behind(At(y).specTag) # Behind(At(x).specTag)
(* What waits in a station that issues in order, and its age.               *)
AgesIn(u) == [i \in 0..(EntNum(u)-1) |-> Age(rs[u][i].rrftag)]
RowsIn(u) == {i \in 0..(EntNum(u)-1) : rs[u][i].busy}
InRing(u) == RingAge(RowsIn(u), AgesIn(u), alloc[u], EntNum(u))

(* The branches wait in the order of their ages.                            *)
BrOrder ==
  /\ InRing("br")
  /\ ex["br"].full => \A i \in RowsIn("br") : Age(ex["br"].src.rrftag) < AgesIn("br")[i]

(* A result that is there is valid.                                         *)
ResultsValid == \A p \in InFlight : rob[p].rdUse /\ rob[p].wbFin => rrf.valid[p]

RowsRight ==
  /\ RowRight(Master, RRF_NUM)
  /\ \A x \in Spots : Held(x) /\ IsBr(x) => RowRight(At(x).specTag, AgeAt(x) + 1)
  /\ \A t \in Tags : ~tg.valid[t] => RowRight(t, RRF_NUM)

TablesOk ==
  /\ DOMAIN arf = {"reg", "busy", "rename"}
  /\ DOMAIN rrf = {"valid", "data", "freenum", "reqPtr", "nextRrfCycle"}

-----------------------------------------------------------------------------
(* What a cycle does, register by register.                                 *)
Count == Committed(Wires)
Goes  == Dispatches(Wires, Count)
Fills == Decodes(Wires, Goes)
Took  == IF Goes THEN Size ELSE 0
Issue(u) == Issued(u, Wires)

ClockEdge == Becomes(CoreNext(Settled))

Com == ArfCommit(arf, <<ComPort(Count, 1), ComPort(Count, 2)>>)
Renamed == RrfCycle(rrf, Took, Count, ByPasses)
Stays(u) == u = "ls" /\ ex[u].full /\ ~LsGoes(Wires) /\ ~LsKilled(Wires)
NextFe ==
  FrontNext(Wires, Fetches(Wires, Fills), Fills, Goes)
NextTg ==
  CASE Wires.mis -> TagMisPred(tg, Wires.tag)
       [] Wires.suc -> TagSucPred(tg, Wires.tag)
       [] Fills     -> Allocate(tg, Dcw1.isBranch, Dcw2.isBranch)
       [] OTHER     -> tg
NextComptr ==
  Inc(comPtr, Count)
NextAlloc ==
  [u \in InOrder |-> AllocNext(u, Wires, Goes)]
NextArf ==
  CASE Wires.mis -> ArfMisPred(Com, Wires.tag)
       [] Wires.suc -> ArfSucPred(Com, tg, Wires.tag)
       [] Goes      -> ArfRename(Com, tg, <<Rename(1), Rename(2)>>)
       [] OTHER     -> Com
NextRrf ==
  IF Wires.mis THEN RrfMisPred(Renamed, Wires.rrftag, comPtr)
  ELSE Renamed
NextRob ==
  [p \in Ptrs |->
    IF \E k \in 1..Took : p = Inc(rrf.reqPtr, k-1)
      THEN RobEntry(IF p = rrf.reqPtr THEN 1 ELSE 2)
      ELSE [rob[p] EXCEPT !.wbFin = @ \/ p \in WrittenBack]]
NextRs ==
  [u \in Units |->
    RsvCycle(rs[u], Wires, ByPasses, Issue(u),
             rrf.nextRrfCycle /\ u \in {"alu1", "alu2"},
             IF Goes THEN Writes(u, ByPasses) ELSE <<>>)]
NextEx ==
  [u \in Units |-> ExecNext(u, Wires, Issue(u), Stays(u))]
NextLs2 ==
  IF LsGoes(Wires)
    THEN [full |-> TRUE, src |-> ex["ls"].src,
          hit |-> StSearch(sb, EffAddr).hit,
          data |-> StSearch(sb, EffAddr).data]
    ELSE [ls2 EXCEPT !.full = FALSE]

(* The registers after a clock edge.                                        *)
LEMMA Edge ==
  ASSUME ClockEdge
  PROVE  /\ fe' = NextFe /\ tg' = NextTg /\ comPtr' = NextComptr
         /\ alloc' = NextAlloc /\ arf' = NextArf /\ rrf' = NextRrf
         /\ rob' = NextRob /\ rs' = NextRs /\ ex' = NextEx /\ ls2' = NextLs2
<1> DEFINE s == CoreNext(Settled)
<1>1. s.fe = NextFe
  BY DEF CoreNext, Settled, Count, Goes, Fills, Took, Com, Renamed, Issue, Stays, NextFe
<1>2. s.tg = NextTg
  BY DEF CoreNext, Settled, Count, Goes, Fills, Took, Com, Renamed, Issue, Stays, NextTg
<1>3. s.comPtr = NextComptr
  BY DEF CoreNext, Settled, Count, Goes, Fills, Took, Com, Renamed, Issue, Stays, NextComptr
<1>4. s.alloc = NextAlloc
  BY DEF CoreNext, Settled, Count, Goes, Fills, Took, Com, Renamed, Issue, Stays, NextAlloc
<1>5. s.arf = NextArf
  BY DEF CoreNext, Settled, Count, Goes, Fills, Took, Com, Renamed, Issue, Stays, NextArf
<1>6. s.rrf = NextRrf
  BY DEF CoreNext, Settled, Count, Goes, Fills, Took, Com, Renamed, Issue, Stays, NextRrf
<1>7. s.rob = NextRob
  BY DEF CoreNext, Settled, Count, Goes, Fills, Took, Com, Renamed, Issue, Stays, NextRob
<1>8. s.rs = NextRs
  BY DEF CoreNext, Settled, Count, Goes, Fills, Took, Com, Renamed, Issue, Stays, NextRs
<1>9. s.ex = NextEx
  BY DEF CoreNext, Settled, Count, Goes, Fills, Took, Com, Renamed, Issue, Stays, NextEx
<1>10. s.ls2 = NextLs2
  BY DEF CoreNext, Settled, Count, Goes, Fills, Took, Com, Renamed, Issue, Stays, NextLs2
<1>11. /\ fe' = s.fe /\ tg' = s.tg /\ arf' = s.arf /\ rrf' = s.rrf
       /\ rob' = s.rob /\ comPtr' = s.comPtr
       /\ rs' = s.rs /\ alloc' = s.alloc /\ ex' = s.ex /\ ls2' = s.ls2
  BY DEF ClockEdge, Becomes
<1> HIDE DEF s
<1> QED
  BY <1>1, <1>2, <1>3, <1>4, <1>5, <1>6, <1>7, <1>8, <1>9, <1>10, <1>11

-----------------------------------------------------------------------------
(* Tags and ring entries, as modules TagRing and RrfRing have them.         *)
TagsOk == Tagging!TagsRight
RingOk == Ring!Accounts

(* The unresolved branches have the tags behind tagreg, and each fix row    *)
(* names the branches that are not older.                                   *)
LEMMA TagFacts ==
  ASSUME TagsOk
  PROVE  /\ tg.tagreg \in 0..BRANCH_ENT_NUM /\ tg.brdepth \in 0..BRANCH_ENT_NUM
         /\ \A t \in Tags :
              /\ tg.valid[t] \in BOOLEAN
              /\ Behind(t) \in 0..BRANCH_ENT_NUM
              /\ tg.valid[t] <=> Behind(t) < tg.brdepth
              /\ tg.valid[t] => tg.fixTag[t] = {u \in Tags : Behind(u) <= Behind(t)}
         /\ \A t, u \in Tags : Behind(t) = Behind(u) => t = u
<1>1. BRANCH_ENT_NUM \in Nat \ {0} /\ Tags = 0..BRANCH_ENT_NUM
      /\ SPECTAG_LEN = BRANCH_ENT_NUM + 1
  BY TagAssumption DEF Tags, SPECTAG_LEN
<1>2. tg.tagreg \in 0..BRANCH_ENT_NUM /\ tg.brdepth \in 0..BRANCH_ENT_NUM
      /\ tg.valid \in [Tags -> BOOLEAN]
  BY <1>1 DEF TagsOk, Tagging!TagsRight, Tagging!TagType, Tagging!Tags, Tagging!SPECTAG_LEN,
               Tags, SPECTAG_LEN
<1>3. \A t \in Tags : tg.valid[t] \in BOOLEAN
  BY <1>2
<1>4. \A t \in Tags : Behind(t) \in 0..BRANCH_ENT_NUM
  BY <1>1, <1>2 DEF Behind, Tagging!Behind, Tagging!SPECTAG_LEN
<1>5. \A t \in Tags : /\ tg.valid[t] <=> Behind(t) < tg.brdepth
                      /\ tg.valid[t] => tg.fixTag[t] = {u \in Tags : Behind(u) <= Behind(t)}
  BY DEF TagsOk, Tagging!TagsRight, Behind, Tagging!Tags, Tagging!SPECTAG_LEN, Tags, SPECTAG_LEN
<1>6. \A t, u \in Tags : Behind(t) = Behind(u) => t = u
  BY <1>1, <1>2 DEF Behind, Tagging!Behind, Tagging!SPECTAG_LEN
<1> QED
  BY <1>2, <1>3, <1>4, <1>5, <1>6

(* A decoded group leaves the tags right.                                   *)
LEMMA TagsDecode ==
  ASSUME TagsOk, NEW br1 \in BOOLEAN, NEW br2 \in BOOLEAN,
         IsAllGenble(tg, br1, br2), tg' = Allocate(tg, br1, br2)
  PROVE  TagsOk'
<1>1. RP!TagsRight
  BY DEF TagsOk, Tagging!TagsRight, RP!TagsRight, Tagging!TagType, RP!TagType,
         Tagging!Behind, RP!Behind, RP!Tags, Tags, RP!SPECTAG_LEN, SPECTAG_LEN,
         Tagging!Tags, Tagging!SPECTAG_LEN
<1>2. RP!Decoded(br1, br2)
  BY DEF RP!Decoded, RP!IsAllGenble, IsAllGenble, RP!Allocate, Allocate, RP!AddNew, AddNew,
         RP!GenTag1, GenTag1, RP!GenTag2, GenTag2, RP!TagAfter, TagAfter, RP!Bit, Bit,
         RP!Tags, Tags, RP!SPECTAG_LEN, SPECTAG_LEN,
         Tagging!Tags, Tagging!SPECTAG_LEN
<1>3. RP!TagsRight'
  BY <1>1, <1>2, RP!DecodedKeeps, TagAssumption, RrfAssumption, InstrAssumption
<1> QED
  BY <1>3 DEF TagsOk, Tagging!TagsRight, RP!TagsRight, Tagging!TagType, RP!TagType,
         Tagging!Behind, RP!Behind, RP!Tags, Tags, RP!SPECTAG_LEN, SPECTAG_LEN,
         Tagging!Tags, Tagging!SPECTAG_LEN

(* The oldest branch succeeds: its tag is free again.                       *)
LEMMA TagsSuc ==
  ASSUME TagsOk, NEW t \in Tags, tg.brdepth # 0, Behind(t) = tg.brdepth - 1,
         tg' = TagSucPred(tg, t)
  PROVE  TagsOk'
<1>1. RP!TagsRight
  BY DEF TagsOk, Tagging!TagsRight, RP!TagsRight, Tagging!TagType, RP!TagType,
         Tagging!Behind, RP!Behind, RP!Tags, Tags, RP!SPECTAG_LEN, SPECTAG_LEN,
         Tagging!Tags, Tagging!SPECTAG_LEN
<1>2. RP!Oldest(t) /\ t \in RP!Tags
  BY DEF RP!Oldest, Tagging!Behind, RP!Behind, RP!SPECTAG_LEN, SPECTAG_LEN,
         Tagging!Tags, Tagging!SPECTAG_LEN, Behind,
         Tags, RP!Tags
<1>4. tg' = RP!TagSucPred(tg, t)
  BY DEF RP!TagSucPred, TagSucPred, Tags, RP!Tags, RP!SPECTAG_LEN, SPECTAG_LEN,
         Tagging!Tags, Tagging!SPECTAG_LEN
<1>3. RP!TagsRight'
  BY <1>1, <1>2, <1>4, RP!SucPredKeeps, TagAssumption, RrfAssumption, InstrAssumption
<1> QED
  BY <1>3 DEF TagsOk, Tagging!TagsRight, RP!TagsRight, Tagging!TagType, RP!TagType,
         Tagging!Behind, RP!Behind, RP!Tags, Tags, RP!SPECTAG_LEN, SPECTAG_LEN,
         Tagging!Tags, Tagging!SPECTAG_LEN

(* A mispredict frees every tag.                                            *)
LEMMA TagsMis ==
  ASSUME TagsOk, NEW t \in Tags, tg' = TagMisPred(tg, t)
  PROVE  TagsOk'
<1>1. RP!TagsRight
  BY DEF TagsOk, Tagging!TagsRight, RP!TagsRight, Tagging!TagType, RP!TagType,
         Tagging!Behind, RP!Behind, RP!Tags, Tags, RP!SPECTAG_LEN, SPECTAG_LEN,
         Tagging!Tags, Tagging!SPECTAG_LEN
<1>2. t \in RP!Tags
  BY DEF Tags, RP!Tags, RP!SPECTAG_LEN, SPECTAG_LEN,
         Tagging!Tags, Tagging!SPECTAG_LEN
<1>4. tg' = RP!TagMisPred(tg, t)
  BY DEF RP!TagMisPred, TagMisPred, Tags, RP!Tags, RP!SPECTAG_LEN, SPECTAG_LEN,
         Tagging!Tags, Tagging!SPECTAG_LEN,
         RP!TagReset, TagReset, RP!TagBefore, TagBefore
<1>3. RP!TagsRight'
  BY <1>1, <1>2, <1>4, RP!MisPredKeeps, TagAssumption, RrfAssumption, InstrAssumption
<1> QED
  BY <1>3 DEF TagsOk, Tagging!TagsRight, RP!TagsRight, Tagging!TagType, RP!TagType,
         Tagging!Behind, RP!Behind, RP!Tags, Tags, RP!SPECTAG_LEN, SPECTAG_LEN,
         Tagging!Tags, Tagging!SPECTAG_LEN

(* The tags are right after a reset.                                        *)
LEMMA TagsReset ==
  ASSUME tg = TagReset PROVE TagsOk
<1>1. RP!TagInit
  BY DEF RP!TagInit, RP!TagReset, TagReset, RP!Tags, Tags, RP!SPECTAG_LEN, SPECTAG_LEN,
         Tagging!Tags, Tagging!SPECTAG_LEN
<1>2. RP!TagsRight
  BY <1>1, RP!ResetRight, TagAssumption, RrfAssumption, InstrAssumption
<1> QED
  BY <1>2 DEF TagsOk, Tagging!TagsRight, RP!TagsRight, Tagging!TagType, RP!TagType,
         Tagging!Behind, RP!Behind, RP!Tags, Tags, RP!SPECTAG_LEN, SPECTAG_LEN,
         Tagging!Tags, Tagging!SPECTAG_LEN

(* The size of the ring.                                                    *)
LEMMA RingSize == RRF_NUM \in Nat /\ RRF_NUM >= 4 /\ Ptrs = 0..(RRF_NUM-1)
  BY RrfAssumption DEF Ptrs

(* There is one tag more than branches.                                     *)
LEMMA TagSize ==
  /\ BRANCH_ENT_NUM \in Nat \ {0} /\ Tags = 0..BRANCH_ENT_NUM
  /\ SPECTAG_LEN = BRANCH_ENT_NUM + 1
  BY TagAssumption DEF Tags, SPECTAG_LEN

(* The sizes of the stations.                                               *)
LEMMA StationSize ==
  /\ \A u \in Units : EntNum(u) \in Nat \ {0} /\ PowerOfTwo(EntNum(u))
  /\ EntNum("br") = BRANCH_ENT_NUM
<1>1. EntNum("br") = BRANCH_ENT_NUM
  BY DEF EntNum
<1> QED
  BY <1>1, RsvAssumption DEF PowerOfTwo

(* How far a pointer is behind another one.                                 *)
Gap(c, p) == IF p >= c THEN p - c ELSE p - c + RRF_NUM

(* The gap between two pointers is their difference modulo the size of the  *)
(* ring.                                                                    *)
LEMMA GapIs ==
  ASSUME NEW c \in Ptrs, NEW p \in Ptrs
  PROVE  (p - c) % RRF_NUM = Gap(c, p) /\ Gap(c, p) \in Ptrs
<1>1. CASE p >= c
  <2> DEFINE d == p - c
  <2>1. d \in 0..(RRF_NUM-1)
    BY <1>1, RingSize
  <2> HIDE DEF d
  <2>2. d % RRF_NUM = d
    BY <2>1, RingSize
  <2> QED BY <1>1, <2>1, <2>2, RingSize DEF Gap, d
<1>2. CASE ~(p >= c)
  <2> DEFINE d == p - c + RRF_NUM
  <2>1. d \in 0..(RRF_NUM-1) /\ d - RRF_NUM = p - c
    BY <1>2, RingSize
  <2> HIDE DEF d
  <2>2. (d - RRF_NUM) % RRF_NUM = d
    BY <2>1, RingSize
  <2> QED BY <1>2, <2>1, <2>2, RingSize DEF Gap, d
<1> QED BY <1>1, <1>2

(* The counter of free entries says how far reqPtr is ahead of comPtr.      *)
LEMMA RingFacts ==
  ASSUME RingOk
  PROVE  /\ rrf.freenum \in 0..RRF_NUM /\ rrf.reqPtr \in Ptrs /\ comPtr \in Ptrs
         /\ Waiting \in 0..RRF_NUM /\ rrf.freenum = RRF_NUM - Waiting
         /\ Waiting = rrf.reqPtr - comPtr \/ Waiting = rrf.reqPtr - comPtr + RRF_NUM
<1>1. /\ rrf.freenum \in 0..RRF_NUM /\ rrf.reqPtr \in Ptrs /\ comPtr \in Ptrs
      /\ rrf.freenum + Waiting = RRF_NUM
  BY DEF RingOk, Ring!Accounts, Ring!Waiting, Ring!Ring, Ring!Rem, Rem, Ring!Ptrs, Ptrs,
         Waiting, RoundOver, Ring!RoundOver
<1>2. Waiting = rrf.reqPtr - comPtr \/ Waiting = RRF_NUM + rrf.reqPtr - comPtr
  BY <1>1, RingSize DEF Waiting, Rem
<1> DEFINE w == Waiting
           r == rrf.reqPtr
           f == rrf.freenum
<1>3. /\ f \in 0..RRF_NUM /\ r \in 0..(RRF_NUM-1) /\ comPtr \in 0..(RRF_NUM-1)
      /\ f + w = RRF_NUM /\ (w = r - comPtr \/ w = RRF_NUM + r - comPtr)
  BY <1>1, <1>2, RingSize
<1> HIDE DEF w, r, f
<1>4. w \in Int
  BY <1>3, RingSize
<1>5. w \in 0..RRF_NUM /\ f = RRF_NUM - w /\ (w = r - comPtr \/ w = r - comPtr + RRF_NUM)
  BY <1>3, <1>4, RingSize
<1> QED
  BY <1>1, <1>5 DEF w, r, f

(* n instructions are dispatched and c are committed.                       *)
LEMMA RingFlow ==
  ASSUME RingOk, NEW n \in 0..2, NEW c \in 0..2, c <= Waiting, rrf.freenum + c >= n,
         rrf'.freenum = rrf.freenum + c - n, rrf'.reqPtr = Inc(rrf.reqPtr, n),
         comPtr' = Inc(comPtr, c)
  PROVE  RingOk' /\ Waiting' = Waiting - c + n
<1>1. RP!Accounts
  BY DEF RingOk, Ring!Accounts, Ring!Waiting, Ring!Ring, Ring!Rem, Ring!Ptrs, Ring!RoundOver,
         RP!Accounts, RP!Waiting, RP!Ring, RP!Rem, RP!Ptrs, RP!RoundOver
<1>2. RP!Flow(n, c)
  BY DEF RP!Flow, RP!Waiting, RP!Ring, RP!Rem, RP!RoundOver, RP!IsRenamable, RP!Inc, Inc,
         Waiting, Rem, RoundOver
<1>3. RP!Accounts'
  BY <1>1, <1>2, RP!FlowKeeps, RrfAssumption, TagAssumption, InstrAssumption
<1>4. RingOk'
  BY <1>3 DEF RingOk, Ring!Accounts, Ring!Waiting, Ring!Ring, Ring!Rem, Ring!Ptrs,
         Ring!RoundOver, RP!Accounts, RP!Waiting, RP!Ring, RP!Rem, RP!Ptrs, RP!RoundOver
<1>5. (rrf.freenum + Waiting = RRF_NUM)' /\ rrf.freenum + Waiting = RRF_NUM
  BY <1>4 DEF RingOk, Ring!Accounts, Ring!Waiting, Ring!Ring, Ring!Rem, Rem,
         Waiting, RoundOver, Ring!RoundOver
<1>6. Waiting' \in Int /\ Waiting \in Int
  <2>1. (rrf.reqPtr \in Ptrs /\ comPtr \in Ptrs)' /\ rrf.reqPtr \in Ptrs /\ comPtr \in Ptrs
    BY <1>4 DEF RingOk, Ring!Accounts, Ring!Ptrs, Ptrs
  <2> QED BY <2>1, RingSize DEF Waiting, Rem
<1>7. rrf.freenum \in 0..RRF_NUM
  BY RingFacts
<1> QED
  BY <1>4, <1>5, <1>6, <1>7, RingSize

(* A mispredict turns reqPtr back to the entry behind the branch.           *)
LEMMA RingBack ==
  ASSUME RingOk, NEW p \in Ptrs, Age(p) < Waiting,
         rrf'.freenum = (IF comPtr >= Inc(p, 1) THEN comPtr - Inc(p, 1)
                         ELSE RRF_NUM - Inc(p, 1) + comPtr),
         rrf'.reqPtr = Inc(p, 1), comPtr' = comPtr
  PROVE  RingOk' /\ Waiting' = Age(p) + 1
<1>0. Age(p) = IF p >= comPtr THEN p - comPtr ELSE p - comPtr + RRF_NUM
  <2>1. comPtr \in Ptrs
    BY RingFacts
  <2> QED BY <2>1, GapIs DEF Age, Gap
<1>1. RP!Accounts
  BY DEF RingOk, Ring!Accounts, Ring!Waiting, Ring!Ring, Ring!Rem, Ring!Ptrs, Ring!RoundOver,
         RP!Accounts, RP!Waiting, RP!Ring, RP!Rem, RP!Ptrs, RP!RoundOver
<1>9. Age(p) \in Ptrs /\ p = Inc(comPtr, Age(p))
  <2>1. comPtr \in Ptrs
    BY RingFacts
  <2> QED BY <1>0, <2>1, RingSize DEF Inc
<1>2. RP!TakeBack(Age(p))
  <2>1. RP!Inc(comPtr, Age(p)) = p
    BY <1>9 DEF RP!Inc, Inc
  <2>2. RP!Waiting = Waiting
    BY DEF RP!Waiting, RP!Ring, RP!Rem, RP!RoundOver, Waiting, Rem, RoundOver
  <2>3. LET q == RP!RrfMisPred(RP!Ring, p, comPtr)
        IN  q.freenum = rrf'.freenum /\ q.reqPtr = rrf'.reqPtr
    BY DEF RP!RrfMisPred, RP!Ring, RP!Inc, Inc
  <2> QED BY <2>1, <2>2, <2>3 DEF RP!TakeBack
<1>3. RP!Accounts'
  <2>1. Age(p) \in RP!Ptrs
    BY <1>9 DEF RP!Ptrs, Ptrs
  <2> QED BY <1>1, <1>2, <2>1, RP!TakeBackKeeps, RrfAssumption, TagAssumption, InstrAssumption
<1>4. RingOk'
  BY <1>3 DEF RingOk, Ring!Accounts, Ring!Waiting, Ring!Ring, Ring!Rem, Ring!Ptrs,
         Ring!RoundOver, RP!Accounts, RP!Waiting, RP!Ring, RP!Rem, RP!Ptrs, RP!RoundOver
<1>5. (rrf.freenum + Waiting = RRF_NUM)'
  BY <1>4 DEF RingOk, Ring!Accounts, Ring!Waiting, Ring!Ring, Ring!Rem, Rem,
         Waiting, RoundOver, Ring!RoundOver
<1>6. Waiting' \in Int /\ comPtr \in Ptrs
  <2>1. (rrf.reqPtr \in Ptrs /\ comPtr \in Ptrs)' /\ rrf.reqPtr \in Ptrs /\ comPtr \in Ptrs
    BY <1>4 DEF RingOk, Ring!Accounts, Ring!Ptrs, Ptrs
  <2> QED BY <2>1, RingSize DEF Waiting, Rem
<1> DEFINE w == Waiting'
           f == rrf'.freenum
           m == Inc(p, 1)
<1>7. f + w = RRF_NUM /\ w \in Int
  BY <1>5, <1>6
<1>8. f = IF comPtr >= m THEN comPtr - m ELSE RRF_NUM - m + comPtr
  OBVIOUS
<1>10. m = IF p + 1 < RRF_NUM THEN p + 1 ELSE p + 1 - RRF_NUM
  BY DEF Inc
<1> HIDE DEF w, f, m
<1>11. w = Age(p) + 1
  BY <1>0, <1>6, <1>7, <1>8, <1>10, RingSize
<1> QED
  BY <1>4, <1>11 DEF w

(* Ages.                                                                    *)
LEMMA AgeIs ==
  ASSUME RingOk, NEW p \in Ptrs
  PROVE  Age(p) \in Ptrs /\ Age(p) = Gap(comPtr, p)
<1>1. comPtr \in Ptrs
  BY RingFacts
<1> QED BY <1>1, GapIs DEF Age

(* An age in the next cycle.                                                *)
LEMMA AgeIsThen ==
  ASSUME RingOk', NEW p \in Ptrs
  PROVE  Age(p)' \in Ptrs /\ Age(p)' = Gap(comPtr', p)
<1>1. comPtr' \in Ptrs
  BY DEF RingOk, Ring!Accounts, Ring!Ptrs, Ptrs
<1>2. Age(p)' = (p - comPtr') % RRF_NUM
  BY DEF Age
<1> QED BY <1>1, <1>2, GapIs

(* Two entries have two ages.                                               *)
LEMMA AgesDiffer ==
  ASSUME RingOk, NEW p \in Ptrs, NEW q \in Ptrs, Age(p) = Age(q)
  PROVE  p = q
<1>1. comPtr \in Ptrs
  BY RingFacts
<1>2. Gap(comPtr, p) = Gap(comPtr, q)
  BY AgeIs
<1> QED BY <1>1, <1>2, RingSize DEF Gap

(* The clock moves ages down by the number of commits.                      *)
LEMMA AgeMoves ==
  ASSUME RingOk, NEW c \in 0..2, comPtr' = Inc(comPtr, c), RingOk', NEW p \in Ptrs
  PROVE  Age(p)' = IF Age(p) >= c THEN Age(p) - c ELSE Age(p) - c + RRF_NUM
<1>1. comPtr \in Ptrs
  BY RingFacts
<1>2. Age(p)' = Gap(comPtr', p) /\ Age(p) = Gap(comPtr, p)
  BY AgeIs, AgeIsThen
<1>3. Gap(Inc(comPtr, c), p) = IF Gap(comPtr, p) >= c THEN Gap(comPtr, p) - c
                               ELSE Gap(comPtr, p) - c + RRF_NUM
  BY <1>1, RingSize DEF Gap, Inc
<1> QED BY <1>2, <1>3

(* The entries that are given out next.                                     *)
LEMMA AgeOfNext ==
  ASSUME RingOk, NEW c \in 0..2, c <= Waiting, comPtr' = Inc(comPtr, c), RingOk',
         NEW k \in 0..1, Waiting - c + k < RRF_NUM, NEW p, p = Inc(rrf.reqPtr, k)
  PROVE  p \in Ptrs /\ Age(p)' = Waiting - c + k
<1> DEFINE r == rrf.reqPtr
           w == Waiting
<1>1. comPtr \in Ptrs /\ r \in Ptrs /\ w \in 0..RRF_NUM
      /\ (w = r - comPtr \/ w = r - comPtr + RRF_NUM)
  BY RingFacts
<1>2. p = Inc(r, k) /\ w - c + k < RRF_NUM /\ c <= w
  OBVIOUS
<1> HIDE DEF r, w
<1>4. p \in Ptrs
  BY <1>1, <1>2, RingSize DEF Inc
<1>3. Age(p)' = Gap(Inc(comPtr, c), p)
  BY <1>4, AgeIsThen
<1>6. Gap(Inc(comPtr, c), p) = w - c + k
  BY <1>1, <1>2, RingSize DEF Inc, Gap
<1> QED BY <1>3, <1>4, <1>6 DEF w

-----------------------------------------------------------------------------
(* The wires.                                                               *)
LEMMA WireFacts ==
  ASSUME Shapes
  PROVE  /\ Wires.mis \in BOOLEAN /\ Wires.suc \in BOOLEAN
         /\ ~(Wires.mis /\ Wires.suc)
         /\ Wires.mis \/ Wires.suc <=> ex["br"].full
         /\ Wires.tag = ex["br"].src.specTag /\ Wires.tag \in Tags
         /\ Wires.fixTag = tg.fixTag[Wires.tag]
         /\ Wires.rrftag = ex["br"].src.rrftag /\ Wires.rrftag \in Ptrs
<1> DEFINE b == ex["br"].src
           right == b.pred = CalAddr(b)
           W == [mis |-> ex["br"].full /\ ~right, suc |-> ex["br"].full /\ right,
                 tag |-> b.specTag, fixTag |-> tg.fixTag[b.specTag],
                 rrftag |-> b.rrftag, calAddr |-> CalAddr(b)]
<1>1. Wires = W
  BY DEF Wires
<1>2. ex["br"].full \in BOOLEAN /\ b.specTag \in Tags /\ b.rrftag \in Ptrs
  BY DEF Shapes, Units, IsEntry
<1>3. right \in BOOLEAN
  OBVIOUS
<1>4. /\ W.mis = (ex["br"].full /\ ~right) /\ W.suc = (ex["br"].full /\ right)
      /\ W.tag = b.specTag /\ W.fixTag = tg.fixTag[b.specTag] /\ W.rrftag = b.rrftag
  OBVIOUS
<1> HIDE DEF W, right, b
<1>5. /\ Wires.mis \in BOOLEAN /\ Wires.suc \in BOOLEAN
      /\ ~(Wires.mis /\ Wires.suc)
      /\ Wires.mis \/ Wires.suc <=> ex["br"].full
  BY <1>1, <1>2, <1>3, <1>4
<1>6. /\ Wires.tag = ex["br"].src.specTag /\ Wires.tag \in Tags
      /\ Wires.fixTag = tg.fixTag[Wires.tag]
      /\ Wires.rrftag = ex["br"].src.rrftag /\ Wires.rrftag \in Ptrs
  BY <1>1, <1>2, <1>4 DEF b
<1> QED BY <1>5, <1>6

(* What commits is in flight and has its result.                            *)
LEMMA CountFacts ==
  ASSUME RingOk
  PROVE  /\ Count \in 0..2 /\ Count <= Waiting
         /\ Wires.mis => Count = 0
         /\ Count >= 1 => rob[comPtr].wbFin
         /\ Count = 2 => rob[Inc(comPtr, 1)].wbFin
<1> DEFINE w == Waiting
           one == ~Wires.mis /\ w > 0 /\ rob[comPtr].wbFin
           two == /\ w > 1 /\ rob[Inc(comPtr, 1)].wbFin
                  /\ ~rob[comPtr].isBranch /\ ~rob[comPtr].storeBit
<1>1. Count = IF ~one THEN 0 ELSE IF ~two THEN 1 ELSE 2
  BY DEF Count, Committed, Waiting
<1>2. w \in 0..RRF_NUM
  BY RingFacts
<1>3. one => w > 0
  OBVIOUS
<1>4. two => w > 1
  OBVIOUS
<1>5. one => ~Wires.mis /\ rob[comPtr].wbFin
  OBVIOUS
<1>6. two => rob[Inc(comPtr, 1)].wbFin
  OBVIOUS
<1> HIDE DEF w, one, two
<1>7. Count \in 0..2 /\ Count <= w
  BY <1>1, <1>2, <1>3, <1>4, RingSize
<1>8. /\ Wires.mis => Count = 0
      /\ Count >= 1 => rob[comPtr].wbFin
      /\ Count = 2 => rob[Inc(comPtr, 1)].wbFin
  BY <1>1, <1>5, <1>6
<1> QED BY <1>7, <1>8 DEF w

(* An entry that commits has its result.                                    *)
LEMMA CommittedDone ==
  ASSUME RingOk, NEW p \in Ptrs, Age(p) < Count
  PROVE  rob[p].wbFin
<1>1. comPtr \in Ptrs /\ Age(p) = Gap(comPtr, p) /\ Age(p) \in Ptrs
  BY RingFacts, AgeIs
<1>2. Count \in 0..2
  BY CountFacts
<1>3. p = Inc(comPtr, Age(p)) /\ (Age(p) = 0 => p = comPtr)
  BY <1>1, RingSize DEF Gap, Inc
<1>4. Age(p) = 0 \/ Age(p) = 1
  BY <1>1, <1>2, RingSize
<1>5. Count >= 1 /\ (Age(p) = 1 => Count = 2)
  BY <1>2, <1>4
<1> QED BY <1>3, <1>4, <1>5, CountFacts

(* When a group is dispatched.                                              *)
LEMMA GoFacts ==
  ASSUME Goes
  PROVE  /\ fe.dp /\ ~Wires.mis /\ ~Wires.suc
         /\ \A s \in Stations : Allocatable(s)
         /\ rrf.freenum + Count >= Size
  BY DEF Goes, Dispatches, IsDispatchable, IsRenamable

(* When a group is decoded.                                                 *)
LEMMA FillFacts ==
  ASSUME Fills
  PROVE  /\ fe.dc /\ ~Wires.mis /\ ~Wires.suc
         /\ IsAllGenble(tg, Dcw1.isBranch, Dcw2.isBranch)
         /\ fe.dp => Goes
  BY DEF Fills, Decodes

(* One entry of a station.                                                  *)
Cycled(e, i, u) ==
  [Wake(e, ByPasses) EXCEPT
     !.busy = @ /\ i # Issue(u) /\ ~CheckIsKill(Wires, e),
     !.spec = @ /\ ~CheckIsSuc(Wires, e),
     !.sortBit = IF rrf.nextRrfCycle /\ u \in {"alu1", "alu2"} THEN 0 ELSE @]

(* An entry after a cycle: it may leave the row, lose its speculation bit   *)
(* or be given an operand.                                                  *)
LEMMA EntryCycled ==
  ASSUME NEW e, IsEntry(e), NEW i, NEW u
  PROVE  LET f == Cycled(e, i, u)
         IN  /\ IsEntry(f)
             /\ f.rrftag = e.rrftag /\ f.rdUse = e.rdUse /\ f.specTag = e.specTag
             /\ f.busy <=> e.busy /\ i # Issue(u) /\ ~CheckIsKill(Wires, e)
             /\ f.spec <=> e.spec /\ ~CheckIsSuc(Wires, e)
             /\ f.v1 <=> e.v1 \/ (e.busy /\ Served(ByPasses, e.p1))
             /\ f.v2 <=> e.v2 \/ (e.busy /\ Served(ByPasses, e.p2))
             /\ ~f.v1 => f.p1 = e.p1
             /\ ~f.v2 => f.p2 = e.p2
<1> DEFINE s1 == e.busy /\ ~e.v1 /\ Served(ByPasses, e.p1)
           s2 == e.busy /\ ~e.v2 /\ Served(ByPasses, e.p2)
           q1 == IF s1 THEN ValueOf(ByPasses, e.p1) ELSE e.p1
           q2 == IF s2 THEN ValueOf(ByPasses, e.p2) ELSE e.p2
           v1 == e.v1 \/ s1
           v2 == e.v2 \/ s2
           w == [e EXCEPT !.v1 = v1, !.p1 = q1, !.v2 = v2, !.p2 = q2]
           b == e.busy /\ i # Issue(u) /\ ~CheckIsKill(Wires, e)
           sp == e.spec /\ ~CheckIsSuc(Wires, e)
           so == IF rrf.nextRrfCycle /\ u \in {"alu1", "alu2"} THEN 0 ELSE e.sortBit
           f == [w EXCEPT !.busy = b, !.spec = sp, !.sortBit = so]
<1>1. Wake(e, ByPasses) = w
  BY DEF Wake
<1>0. /\ DOMAIN e = EntryFields /\ e.busy \in BOOLEAN /\ e.rdUse \in BOOLEAN
      /\ e.spec \in BOOLEAN /\ e.v1 \in BOOLEAN /\ e.v2 \in BOOLEAN
      /\ e.specTag \in Tags /\ e.rrftag \in Ptrs
  BY DEF IsEntry
<1>2. /\ DOMAIN w = EntryFields
      /\ w.busy = e.busy /\ w.spec = e.spec /\ w.sortBit = e.sortBit
      /\ w.v1 = v1 /\ w.p1 = q1 /\ w.v2 = v2 /\ w.p2 = q2
      /\ w.rrftag = e.rrftag /\ w.rdUse = e.rdUse /\ w.specTag = e.specTag
  <2> DEFINE x == w
  <2>1. x = [e EXCEPT !.v1 = v1, !.p1 = q1, !.v2 = v2, !.p2 = q2]
    OBVIOUS
  <2> HIDE DEF x, v1, v2, q1, q2
  <2>2. /\ DOMAIN x = EntryFields
      /\ x.busy = e.busy /\ x.spec = e.spec /\ x.sortBit = e.sortBit
      /\ x.v1 = v1 /\ x.p1 = q1 /\ x.v2 = v2 /\ x.p2 = q2
      /\ x.rrftag = e.rrftag /\ x.rdUse = e.rdUse /\ x.specTag = e.specTag
    BY <1>0, <2>1 DEF EntryFields
  <2> QED BY <2>2 DEF x
<1> HIDE DEF w
<1>3. Cycled(e, i, u) = f
  BY <1>1, <1>2 DEF Cycled
<1>4. /\ DOMAIN f = EntryFields
      /\ f.busy = b /\ f.spec = sp
      /\ f.v1 = v1 /\ f.p1 = q1 /\ f.v2 = v2 /\ f.p2 = q2
      /\ f.rrftag = e.rrftag /\ f.rdUse = e.rdUse /\ f.specTag = e.specTag
  <2> DEFINE x == f
  <2>1. x = [w EXCEPT !.busy = b, !.spec = sp, !.sortBit = so]
    OBVIOUS
  <2> HIDE DEF x, b, sp, so, v1, v2, q1, q2
  <2>2. /\ DOMAIN x = EntryFields
        /\ x.busy = b /\ x.spec = sp
        /\ x.v1 = v1 /\ x.p1 = q1 /\ x.v2 = v2 /\ x.p2 = q2
        /\ x.rrftag = e.rrftag /\ x.rdUse = e.rdUse /\ x.specTag = e.specTag
    BY <1>2, <2>1 DEF EntryFields
  <2> QED BY <2>2 DEF x
<1> HIDE DEF f
<1>5. b \in BOOLEAN /\ sp \in BOOLEAN /\ v1 \in BOOLEAN /\ v2 \in BOOLEAN
  BY <1>0
<1>6. (~v1 => q1 = e.p1) /\ (~v2 => q2 = e.p2)
  OBVIOUS
<1>7. IsEntry(f)
  <2> HIDE DEF b, sp, v1, v2
  <2> QED BY <1>0, <1>4, <1>5 DEF IsEntry
<1>8. v1 = (e.v1 \/ (e.busy /\ Served(ByPasses, e.p1)))
  BY <1>0
<1>9. v2 = (e.v2 \/ (e.busy /\ Served(ByPasses, e.p2)))
  BY <1>0
<1> DEFINE g1 == (e.v1 \/ (e.busy /\ Served(ByPasses, e.p1)))
           g2 == (e.v2 \/ (e.busy /\ Served(ByPasses, e.p2)))
<1>10. v1 = g1 /\ v2 = g2
  BY <1>8, <1>9
<1>11. /\ f.busy <=> b
       /\ f.spec <=> sp
       /\ f.v1 <=> v1
       /\ f.v2 <=> v2
       /\ ~f.v1 => f.p1 = e.p1
       /\ ~f.v2 => f.p2 = e.p2
  <2> HIDE DEF b, sp, v1, v2, q1, q2
  <2> QED BY <1>4, <1>5, <1>6
<1> QED
  BY <1>3, <1>4, <1>7, <1>8, <1>9, <1>11

(* The rows of a station after a cycle.                                     *)
LEMMA RowThen ==
  ASSUME Shapes, ClockEdge, NEW u \in Units, NEW i \in 0..(EntNum(u)-1)
  PROVE  /\ DOMAIN rs' = Units /\ DOMAIN rs'[u] = 0..(EntNum(u)-1)
         /\ \/ /\ Goes
               /\ \E k \in 1..Size : /\ RowOf(k) = [unit |-> u, row |-> i]
                                     /\ rs'[u][i] = Entry(k, ByPasses)
            \/ /\ rs'[u][i] = Cycled(rs[u][i], i, u)
               /\ Goes => ~\E k \in 1..Size : RowOf(k) = [unit |-> u, row |-> i]
<1> DEFINE turn == rrf.nextRrfCycle /\ u \in {"alu1", "alu2"}
           W == IF Goes THEN Writes(u, ByPasses) ELSE <<>>
           at(j) == {k \in 1..Size : RowOf(k) = [unit |-> u, row |-> j]}
           R == RsvCycle(rs[u], Wires, ByPasses, Issue(u), turn, W)
<1>1. rs' = NextRs
  BY Edge
<1>2. DOMAIN rs' = Units /\ rs'[u] = R
  BY <1>1 DEF NextRs
<1>3. DOMAIN rs[u] = 0..(EntNum(u)-1) /\ i \in DOMAIN rs[u]
  BY DEF Shapes
<1>4. R = [j \in DOMAIN rs[u] |->
             IF j \in DOMAIN W THEN W[j]
             ELSE [Wake(rs[u][j], ByPasses) EXCEPT
                     !.busy = @ /\ j # Issue(u) /\ ~CheckIsKill(Wires, rs[u][j]),
                     !.spec = @ /\ ~CheckIsSuc(Wires, rs[u][j]),
                     !.sortBit = IF turn THEN 0 ELSE @]]
  BY DEF RsvCycle
<1>5. DOMAIN R = 0..(EntNum(u)-1)
  BY <1>3, <1>4
<1>6. R[i] = IF i \in DOMAIN W THEN W[i] ELSE Cycled(rs[u][i], i, u)
  BY <1>3, <1>4 DEF Cycled
<1>7. Goes => /\ i \in DOMAIN W <=> at(i) # {}
              /\ at(i) # {} => W[i] = Entry(IF 2 \in at(i) THEN 2 ELSE 1, ByPasses)
  BY <1>3 DEF Writes
<1>8. ~Goes => i \notin DOMAIN W
  OBVIOUS
<1>9. Size \in {1, 2}
  BY DEF Size
<1> HIDE DEF W, R, turn
<1>10. CASE Goes /\ at(i) # {}
  <2> DEFINE k == IF 2 \in at(i) THEN 2 ELSE 1
  <2>1. k \in at(i)
    BY <1>9, <1>10
  <2>2. k \in 1..Size /\ RowOf(k) = [unit |-> u, row |-> i]
    BY <2>1
  <2>3. rs'[u][i] = Entry(k, ByPasses)
    BY <1>2, <1>6, <1>7, <1>10
  <2> QED BY <1>2, <1>5, <1>10, <2>2, <2>3
<1>11. CASE ~(Goes /\ at(i) # {})
  <2>1. rs'[u][i] = Cycled(rs[u][i], i, u)
    BY <1>2, <1>6, <1>7, <1>8, <1>11
  <2> QED BY <1>2, <1>5, <1>11, <2>1
<1> QED BY <1>10, <1>11

(* An operand of a lane that is not there when the lane is dispatched.      *)
Awaits(k, r, desEqSrc, p) ==
  \/ k = 2 /\ desEqSrc /\ p = rrf.reqPtr
  \/ /\ arf.busy[Master][r] /\ p = arf.rename[Master][r]
     /\ ~rrf.valid[p] /\ ~Served(ByPasses, p)

(* An operand that is not there names an entry of the ring.                 *)
LEMMA SrcOprIs ==
  ASSUME NEW k, NEW r, NEW use \in BOOLEAN, NEW d \in BOOLEAN
  PROVE  LET o == SrcOpr(k, r, use, d, ByPasses)
         IN  /\ o.v \in BOOLEAN
             /\ ~o.v => r # 0 /\ Awaits(k, r, d, o.p)
<1> DEFINE t == arf.rename[Master][r]
           b == arf.busy[Master][r]
           f == FromRegs(r, ByPasses)
           o == CASE r = 0                -> [v |-> TRUE, p |-> 0]
                  [] r # 0 /\ k = 2 /\ d  -> [v |-> FALSE, p |-> rrf.reqPtr]
                  [] OTHER                -> f
<1>1. f = CASE ~b              -> [v |-> TRUE, p |-> arf.reg[r]]
            [] b /\ rrf.valid[t]    -> [v |-> TRUE, p |-> rrf.data[t]]
            [] b /\ ~rrf.valid[t] /\ Served(ByPasses, t)
                                   -> [v |-> TRUE, p |-> ValueOf(ByPasses, t)]
            [] OTHER                   -> [v |-> FALSE, p |-> t]
  BY DEF FromRegs
<1>2. f.v = TRUE \/ (f.v = FALSE /\ f.p = t /\ b /\ ~rrf.valid[t] /\ ~Served(ByPasses, t))
  BY <1>1
<1> HIDE DEF f
<1>3. SrcOpr(k, r, use, d, ByPasses) = [v |-> o.v \/ ~use, p |-> o.p]
  BY DEF SrcOpr, f
<1>4. \/ o.v = TRUE
      \/ o.v = FALSE /\ r # 0 /\ k = 2 /\ d /\ o.p = rrf.reqPtr
      \/ r # 0 /\ o = f
  OBVIOUS
<1> HIDE DEF o
<1>5. o.v \in BOOLEAN /\ (~o.v => r # 0 /\ Awaits(k, r, d, o.p))
  BY <1>2, <1>4 DEF Awaits
<1> QED BY <1>3, <1>5

(* The entry a lane writes into its station.                                *)
LEMMA EntryIs ==
  ASSUME Shapes, FrontOk, RingOk, NEW k \in 1..2
  PROVE  LET e == Entry(k, ByPasses)
             d == Lane(k)
         IN  /\ IsEntry(e) /\ e.busy
             /\ e.rrftag = Inc(rrf.reqPtr, k-1)
             /\ e.rdUse = d.rdUse /\ e.spec = d.spec /\ e.specTag = d.specTag
             /\ ~e.v1 => Awaits(k, d.rs1, fe.desEqSrc1, e.p1)
             /\ ~e.v2 => Awaits(k, d.rs2, fe.desEqSrc2, e.p2)
<1> DEFINE d == Lane(k)
           o1 == SrcOpr(k, d.rs1, d.use1, fe.desEqSrc1, ByPasses)
           o2 == SrcOpr(k, d.rs2, d.use2, fe.desEqSrc2, ByPasses)
           t == Inc(rrf.reqPtr, k-1)
           e == [busy |-> TRUE, sortBit |-> 1, pc |-> Plus(fe.pc, k-1),
       rrftag |-> t, rdUse |-> d.rdUse, op |-> d.op,
       aluOp |-> d.aluOp, selA |-> d.selA, selB |-> d.selB, imm |-> d.imm,
       spec |-> d.spec, specTag |-> d.specTag, pred |-> d.pred,
       v1 |-> o1.v, p1 |-> o1.p, v2 |-> o2.v, p2 |-> o2.p]
<1>1. Entry(k, ByPasses) = e
  BY DEF Entry
<1>2. IsLane(d)
  BY DEF FrontOk, Lane
<1>3. t \in Ptrs
  <2>1. rrf.reqPtr \in Ptrs
    BY RingFacts
  <2> QED BY <2>1, RingSize DEF Inc
<1>4. fe.desEqSrc1 \in BOOLEAN /\ fe.desEqSrc2 \in BOOLEAN
  BY DEF FrontOk
<1>5. d.use1 \in BOOLEAN /\ d.use2 \in BOOLEAN
  BY <1>2 DEF IsLane
<1>6. o1.v \in BOOLEAN /\ (~o1.v => Awaits(k, d.rs1, fe.desEqSrc1, o1.p))
  <2> DEFINE x == fe.desEqSrc1
             y == d.use1
  <2>1. x \in BOOLEAN /\ y \in BOOLEAN
    BY <1>4, <1>5
  <2>2. o1 = SrcOpr(k, d.rs1, y, x, ByPasses)
    OBVIOUS
  <2> HIDE DEF x, y, o1
  <2>3. o1.v \in BOOLEAN /\ (~o1.v => Awaits(k, d.rs1, x, o1.p))
    BY <2>1, <2>2, SrcOprIs
  <2> QED BY <2>3 DEF x
<1>7. o2.v \in BOOLEAN /\ (~o2.v => Awaits(k, d.rs2, fe.desEqSrc2, o2.p))
  <2> DEFINE x == fe.desEqSrc2
             y == d.use2
  <2>1. x \in BOOLEAN /\ y \in BOOLEAN
    BY <1>4, <1>5
  <2>2. o2 = SrcOpr(k, d.rs2, y, x, ByPasses)
    OBVIOUS
  <2> HIDE DEF x, y, o2
  <2>3. o2.v \in BOOLEAN /\ (~o2.v => Awaits(k, d.rs2, x, o2.p))
    BY <2>1, <2>2, SrcOprIs
  <2> QED BY <2>3 DEF x
<1> HIDE DEF d, o1, o2, t
<1>8. /\ e.busy = TRUE /\ e.rrftag = t /\ e.rdUse = d.rdUse
      /\ e.spec = d.spec /\ e.specTag = d.specTag
      /\ e.v1 = o1.v /\ e.p1 = o1.p /\ e.v2 = o2.v /\ e.p2 = o2.p
      /\ DOMAIN e = EntryFields
  BY DEF EntryFields
<1> HIDE DEF e
<1>9. IsEntry(e)
  BY <1>2, <1>3, <1>6, <1>7, <1>8 DEF IsEntry, IsLane
<1> QED
  BY <1>1, <1>6, <1>7, <1>8, <1>9 DEF d, t

(* The stages behind the stations.                                          *)
LEMMA ExThen ==
  ASSUME Shapes, ClockEdge, NEW u \in Units
  PROVE  LET e == ex'[u].src
             r == rs[u][Issue(u)]
         IN  /\ DOMAIN ex' = Units
             /\ ex'[u].full \in BOOLEAN
             /\ ex'[u].full <=> Issue(u) # None \/ Stays(u)
             /\ Issue(u) = None => e = ex[u].src
             /\ Issue(u) # None /\ IsEntry(r) =>
                  /\ IsEntry(e)
                  /\ e.rrftag = r.rrftag /\ e.rdUse = r.rdUse
                  /\ e.specTag = r.specTag
                  /\ e.spec <=> r.spec /\ ~CheckIsSuc(Wires, r)
<1> DEFINE i == Issue(u)
           r == rs[u][i]
           b == r.spec /\ ~CheckIsSuc(Wires, r)
           f == [r EXCEPT !.spec = b]
<1>1. ex' = NextEx
  BY Edge
<1>2. ex'[u] = [full |-> i # None \/ Stays(u),
                src |-> IF i = None THEN ex[u].src ELSE f]
  BY <1>1 DEF NextEx, ExecNext
<1>3. DOMAIN ex' = Units
  BY <1>1 DEF NextEx
<1>4. IsEntry(r) => /\ IsEntry(f)
                    /\ f.rrftag = r.rrftag /\ f.rdUse = r.rdUse
                    /\ f.specTag = r.specTag
                    /\ f.spec <=> b
  <2> SUFFICES ASSUME IsEntry(r)
               PROVE  /\ IsEntry(f)
                      /\ f.rrftag = r.rrftag /\ f.rdUse = r.rdUse
                      /\ f.specTag = r.specTag
                      /\ f.spec <=> b
    OBVIOUS
  <2> DEFINE x == f
  <2>1. x = [r EXCEPT !.spec = b] /\ b \in BOOLEAN /\ DOMAIN r = EntryFields
    BY DEF IsEntry
  <2> HIDE DEF x, b, r
  <2>2. /\ DOMAIN x = EntryFields /\ x.spec = b
        /\ \A g \in EntryFields \ {"spec"} : x[g] = r[g]
    BY <2>1 DEF EntryFields
  <2>3. /\ x.busy = r.busy /\ x.rdUse = r.rdUse /\ x.v1 = r.v1 /\ x.v2 = r.v2
        /\ x.specTag = r.specTag /\ x.rrftag = r.rrftag
    BY <2>2 DEF EntryFields
  <2>4. IsEntry(x)
    BY <2>1, <2>2, <2>3 DEF IsEntry
  <2> QED BY <2>1, <2>2, <2>3, <2>4 DEF x
<1> HIDE DEF f, b
<1>5. ex'[u].src = (IF i = None THEN ex[u].src ELSE f) /\ ex'[u].full = (i # None \/ Stays(u))
  BY <1>2
<1> QED BY <1>3, <1>4, <1>5 DEF b

(* The second stage of the memory unit after a cycle.                       *)
LEMMA Ls2Then ==
  ASSUME Shapes, ClockEdge
  PROVE  /\ {"full", "src"} \subseteq DOMAIN ls2'
         /\ ls2'.full \in BOOLEAN
         /\ ls2'.full <=> LsGoes(Wires)
         /\ ls2'.src = IF LsGoes(Wires) THEN ex["ls"].src ELSE ls2.src
<1>1. ls2' = NextLs2
  BY Edge
<1>2. CASE LsGoes(Wires)
  BY <1>1, <1>2 DEF NextLs2
<1>3. CASE ~LsGoes(Wires)
  <2>1. ls2' = [ls2 EXCEPT !.full = FALSE]
    BY <1>1, <1>3 DEF NextLs2
  <2>2. {"full", "src"} \subseteq DOMAIN ls2
    BY DEF Shapes
  <2> QED BY <1>3, <2>1, <2>2
<1> QED BY <1>2, <1>3

(* The row that issues.                                                     *)
LEMMA StationTable ==
  ASSUME Shapes, NEW u \in Units
  PROVE  Table(rs[u], EntNum(u))
  BY StationSize DEF Table, Shapes

(* What issues is a busy row of its station.                                *)
LEMMA IssueIs ==
  ASSUME Shapes, NEW u \in Units, Issue(u) # None
  PROVE  /\ Issue(u) \in 0..(EntNum(u)-1) /\ rs[u][Issue(u)].busy
         /\ ~Wires.mis
         /\ u \in InOrder => Issue(u) = CheckIdx(rs[u], alloc[u])
         /\ u = "ls" => ~ex["ls"].full \/ LsGoes(Wires)
<1> DEFINE m == Wires.mis
           full == ex["ls"].full
           goes == LsGoes(Wires)
           n == EntNum(u)
           t == rs[u]
<1>1. Issue(u) = CASE m                         -> None
    [] ~m /\ u = "ls" /\ full /\ ~goes -> None
    [] ~m /\ u = "br"                          -> IIssue(t, alloc[u])
    [] ~m /\ u = "ls" /\ (~full \/ goes)
                                                   -> IIssue(t, alloc[u])
    [] OTHER                                       -> OIssue(u, t)
  BY DEF Issue, Issued
<1>2. Table(t, n)
  BY StationTable
<1> HIDE DEF m, full, goes, t, n
<1>3. /\ ~m
      /\ u = "ls" => ~full \/ goes
      /\ u \in InOrder => Issue(u) = IIssue(t, alloc[u])
      /\ u \notin InOrder => Issue(u) = OIssue(u, t)
  BY <1>1 DEF InOrder
<1>4. CASE u \in InOrder
  <2>1. alloc[u] \in 0..(n-1)
    BY <1>4 DEF Shapes, n
  <2>2. IIssue(t, alloc[u]) # None
    BY <1>3, <1>4
  <2>3. /\ IIssue(t, alloc[u]) = CheckIdx(t, alloc[u])
        /\ IIssue(t, alloc[u]) \in 0..(n-1) /\ Ready(t[IIssue(t, alloc[u])])
    BY <1>2, <2>1, <2>2, IIssueIs
  <2> QED BY <1>3, <1>4, <2>3 DEF Ready, m, full, goes, n, t
<1>5. CASE u \notin InOrder
  <2>1. OIssue(u, t) # None
    BY <1>3, <1>5
  <2>2. OIssue(u, t) \in 0..(n-1) /\ Ready(t[OIssue(u, t)])
    BY <1>2, <2>1, OIssueIs
  <2> QED BY <1>3, <1>5, <2>2 DEF Ready, m, full, goes, n, t, InOrder
<1> QED BY <1>4, <1>5

(* The reorder buffer and the ring after a cycle.                           *)
Given(p) == \E k \in 1..Took : p = Inc(rrf.reqPtr, k-1)

(* A row of the reorder buffer after a cycle: given to a lane, or finished, *)
(* or as before.                                                            *)
LEMMA RobThen ==
  ASSUME Shapes, RingOk, ClockEdge, NEW p \in Ptrs
  PROVE  /\ \A k \in 1..Took : p = Inc(rrf.reqPtr, k-1) => rob'[p] = RobEntry(k)
         /\ ~Given(p) => /\ DOMAIN rob'[p] = RobFields
                         /\ rob'[p].wbFin <=> rob[p].wbFin \/ p \in WrittenBack
                         /\ rob'[p].wbFin \in BOOLEAN
                         /\ rob'[p].rdUse = rob[p].rdUse
                         /\ rob'[p].rdIdx = rob[p].rdIdx
<1> DEFINE e == rob[p]
           r == rrf.reqPtr
           b == rob[p].wbFin \/ p \in WrittenBack
           x == [e EXCEPT !.wbFin = b]
<1>1. rob' = NextRob
  BY Edge
<1>2. rob'[p] = IF Given(p) THEN RobEntry(IF p = r THEN 1 ELSE 2) ELSE x
  BY <1>1 DEF NextRob, Given
<1>3. DOMAIN e = RobFields /\ e.wbFin \in BOOLEAN
  BY DEF Shapes
<1>4. b \in BOOLEAN
  BY <1>3
<1> HIDE DEF e
<1>5. DOMAIN x = RobFields /\ x.wbFin = b /\ x.rdUse = e.rdUse /\ x.rdIdx = e.rdIdx
  BY <1>3 DEF RobFields
<1> HIDE DEF x, b
<1>6. ~Given(p) => /\ DOMAIN rob'[p] = RobFields
                   /\ rob'[p].wbFin = b
                   /\ rob'[p].wbFin \in BOOLEAN
                   /\ rob'[p].rdUse = e.rdUse
                   /\ rob'[p].rdIdx = e.rdIdx
  BY <1>2, <1>4, <1>5
<1>7. Took \in 0..2 /\ r \in Ptrs
  BY RingFacts DEF Took, Size
<1>8. ASSUME NEW k \in 1..Took, p = Inc(r, k-1)
      PROVE  rob'[p] = RobEntry(k)
  <2>1. Given(p)
    BY <1>8 DEF Given
  <2>2. k = 1 \/ k = 2
    BY <1>7
  <2>3. p = r <=> k = 1
    BY <1>7, <1>8, <2>2, RingSize DEF Inc
  <2>4. k = IF p = r THEN 1 ELSE 2
    BY <2>2, <2>3
  <2> QED BY <1>2, <2>1, <2>4
<1> QED BY <1>6, <1>8 DEF e, b, r

(* The renaming registers after a cycle.                                    *)
LEMMA RrfThen ==
  ASSUME Shapes, RingOk, TablesOk, ClockEdge
  PROVE  /\ DOMAIN rrf' = {"valid", "data", "freenum", "reqPtr", "nextRrfCycle"}
         /\ \A p \in Ptrs : rrf'.valid[p] <=> ~Given(p) /\ (Served(ByPasses, p) \/ rrf.valid[p])
         /\ ~Wires.mis => /\ rrf'.freenum = rrf.freenum + Count - Took
                          /\ rrf'.reqPtr = Inc(rrf.reqPtr, Took)
         /\ Wires.mis => /\ rrf'.freenum = LET m == Inc(Wires.rrftag, 1)
                                           IN  IF comPtr >= m THEN comPtr - m
                                                              ELSE RRF_NUM - m + comPtr
                         /\ rrf'.reqPtr = Inc(Wires.rrftag, 1)
<1> DEFINE R == Renamed
           m == Inc(Wires.rrftag, 1)
           f == IF comPtr >= m THEN comPtr - m ELSE RRF_NUM - m + comPtr
<1>1. rrf' = IF Wires.mis THEN [R EXCEPT !.reqPtr = m, !.freenum = f] ELSE R
  <2>1. rrf' = NextRrf
    BY Edge
  <2> QED BY <2>1 DEF NextRrf, RrfMisPred
<1>2. /\ DOMAIN R = {"valid", "data", "freenum", "reqPtr", "nextRrfCycle"}
      /\ R.freenum = rrf.freenum + Count - Took
      /\ R.reqPtr = Inc(rrf.reqPtr, Took)
      /\ R.valid = [p \in Ptrs |->
                    ~(\E k \in 0..(Took-1) : p = Inc(rrf.reqPtr, k))
                    /\ ((\E b \in ByPasses : b.tag = p) \/ rrf.valid[p])]
  BY DEF Renamed, RrfCycle
<1>3. Took \in 0..2
  BY DEF Took, Size
<1>4. ASSUME NEW p \in Ptrs
      PROVE  Given(p) <=> \E k \in 0..(Took-1) : p = Inc(rrf.reqPtr, k)
  <2>1. ASSUME NEW k \in 1..Took, p = Inc(rrf.reqPtr, k-1)
        PROVE  \E j \in 0..(Took-1) : p = Inc(rrf.reqPtr, j)
    <3>1. k - 1 \in 0..(Took-1)
      BY <1>3
    <3> QED BY <2>1, <3>1
  <2>2. ASSUME NEW k \in 0..(Took-1), p = Inc(rrf.reqPtr, k)
        PROVE  Given(p)
    <3>1. k + 1 \in 1..Took /\ (k + 1) - 1 = k
      BY <1>3
    <3> QED BY <2>2, <3>1 DEF Given
  <2> QED BY <2>1, <2>2 DEF Given
<1> HIDE DEF R, m, f
<1>5. rrf'.valid = R.valid /\ DOMAIN rrf' = DOMAIN R
      /\ (~Wires.mis => rrf' = R)
      /\ (Wires.mis => rrf'.reqPtr = m /\ rrf'.freenum = f)
  BY <1>1, <1>2
<1>6. ASSUME NEW p \in Ptrs
      PROVE  rrf'.valid[p] <=> ~Given(p) /\ (Served(ByPasses, p) \/ rrf.valid[p])
  BY <1>2, <1>4, <1>5 DEF Served
<1> QED BY <1>2, <1>5, <1>6 DEF m, f

(* The stages in front of the stations.                                     *)
(* Lane d becomes e when a branch succeeds, or nothing happens to it.       *)
Cleared(e, d) ==
  /\ DOMAIN e = LaneFields
  /\ e.spec = (d.spec /\ ~(Wires.suc /\ d.specTag = Wires.tag))
  /\ \A f \in LaneFields \ {"spec"} : e[f] = d[f]

(* The decode and dispatch stages after a cycle.                            *)
LEMMA FrontThen ==
  ASSUME FrontOk, TagsOk, Shapes, ClockEdge
  PROVE  /\ DOMAIN fe' = {"curPc", "raw", "dc", "dp", "dcd1", "dcd2", "pc",
                          "desEqSrc1", "desEqSrc2"}
         /\ fe'.dc \in BOOLEAN /\ fe'.raw.invalid2 \in BOOLEAN
         /\ fe'.dp = (~Wires.mis /\ (Fills \/ (fe.dp /\ ~Goes)))
         /\ Fills =>
              /\ fe'.dcd1 = [Dcw1 EXCEPT !.spec = GenSpec1(tg),
                                         !.specTag = GenTag1(tg, Dcw1.isBranch)]
              /\ fe'.dcd2 = [Dcw2 EXCEPT !.spec = GenSpec2(tg, Dcw1.isBranch),
                                         !.specTag = GenTag2(tg, Dcw1.isBranch, Dcw2.isBranch)]
              /\ fe'.desEqSrc1 = (Dcw1.rdUse /\ Dcw2.rs1 = Dcw1.rdIdx)
              /\ fe'.desEqSrc2 = (Dcw1.rdUse /\ Dcw2.rs2 = Dcw1.rdIdx)
         /\ ~Fills =>
              /\ Cleared(fe'.dcd1, fe.dcd1) /\ Cleared(fe'.dcd2, fe.dcd2)
              /\ fe'.desEqSrc1 = fe.desEqSrc1 /\ fe'.desEqSrc2 = fe.desEqSrc2
<1> DEFINE w == Wires
           fetched == Fetches(w, Fills)
           F == {"curPc", "raw", "dc", "dp", "dcd1", "dcd2", "pc",
                 "desEqSrc1", "desEqSrc2"}
           s1 == fe.dcd1.spec /\ fe.dcd1.specTag # w.tag
           s2 == fe.dcd2.spec /\ fe.dcd2.specTag # w.tag
           f0 == IF w.suc THEN FrontSuc(fe, w) ELSE fe
           f1 == IF Fills THEN DecodedGroup(f0) ELSE f0
           f2 == IF fetched THEN [f1 EXCEPT !.raw = Fetched, !.curPc = Fetched.npc] ELSE f1
           f3 == [f2 EXCEPT !.curPc = IF w.mis THEN w.calAddr ELSE @,
                            !.dc = ~w.mis /\ (fetched \/ (@ /\ ~Fills)),
                            !.dp = ~w.mis /\ (Fills \/ (@ /\ ~Goes))]
           d1 == [Dcw1 EXCEPT !.spec = GenSpec1(tg),
                              !.specTag = GenTag1(tg, Dcw1.isBranch)]
           d2 == [Dcw2 EXCEPT !.spec = GenSpec2(tg, Dcw1.isBranch),
                              !.specTag = GenTag2(tg, Dcw1.isBranch, Dcw2.isBranch)]
           q1 == Dcw1.rdUse /\ Dcw2.rs1 = Dcw1.rdIdx
           q2 == Dcw1.rdUse /\ Dcw2.rs2 = Dcw1.rdIdx
<1>1. fe' = f3
  <2>1. fe' = NextFe
    BY Edge
  <2> QED BY <2>1 DEF NextFe, FrontNext
<1>2. DOMAIN fe = F /\ fe.raw.invalid2 \in BOOLEAN /\ IsLane(fe.dcd1) /\ IsLane(fe.dcd2)
      /\ fe.dc \in BOOLEAN /\ fe.dp \in BOOLEAN
  BY DEF FrontOk
<1>3. /\ DOMAIN f0 = F /\ f0.raw = fe.raw /\ f0.dc = fe.dc /\ f0.dp = fe.dp
      /\ f0.desEqSrc1 = fe.desEqSrc1 /\ f0.desEqSrc2 = fe.desEqSrc2
      /\ Cleared(f0.dcd1, fe.dcd1) /\ Cleared(f0.dcd2, fe.dcd2)
  <2>1. CASE ~w.suc
    <3>1. f0 = fe
      BY <2>1
    <3>2. fe.dcd1.spec = (fe.dcd1.spec /\ ~(w.suc /\ fe.dcd1.specTag = w.tag))
      BY <1>2, <2>1 DEF IsLane
    <3>3. fe.dcd2.spec = (fe.dcd2.spec /\ ~(w.suc /\ fe.dcd2.specTag = w.tag))
      BY <1>2, <2>1 DEF IsLane
    <3> QED BY <1>2, <3>1, <3>2, <3>3 DEF Cleared, IsLane
  <2>2. CASE w.suc
    <3>1. f0 = [fe EXCEPT !.dcd1.spec = s1, !.dcd2.spec = s2]
      BY <2>2 DEF FrontSuc
    <3>2. s1 = (fe.dcd1.spec /\ ~(w.suc /\ fe.dcd1.specTag = w.tag))
      BY <2>2
    <3>3. s2 = (fe.dcd2.spec /\ ~(w.suc /\ fe.dcd2.specTag = w.tag))
      BY <2>2
    <3> HIDE DEF s1, s2
    <3> DEFINE x == f0
               a == [fe.dcd1 EXCEPT !.spec = s1]
               b == [fe.dcd2 EXCEPT !.spec = s2]
    <3>4. x = [fe EXCEPT !.dcd1 = a, !.dcd2 = b]
      BY <3>1
    <3>5. Cleared(a, fe.dcd1)
      BY <1>2, <3>2 DEF Cleared, IsLane, LaneFields
    <3>6. Cleared(b, fe.dcd2)
      BY <1>2, <3>3 DEF Cleared, IsLane, LaneFields
    <3> HIDE DEF x, a, b
    <3>7. /\ DOMAIN x = F /\ x.raw = fe.raw /\ x.dc = fe.dc /\ x.dp = fe.dp
          /\ x.desEqSrc1 = fe.desEqSrc1 /\ x.desEqSrc2 = fe.desEqSrc2
          /\ x.dcd1 = a /\ x.dcd2 = b
      BY <1>2, <3>4
    <3> QED BY <3>5, <3>6, <3>7 DEF x
  <2> QED BY <2>1, <2>2
<1>4. /\ DOMAIN f1 = F /\ f1.raw = fe.raw /\ f1.dc = fe.dc /\ f1.dp = fe.dp
      /\ Fills => f1.dcd1 = d1 /\ f1.dcd2 = d2 /\ f1.desEqSrc1 = q1 /\ f1.desEqSrc2 = q2
      /\ ~Fills => f1 = f0
  <2>1. CASE Fills
    <3>1. f1 = [f0 EXCEPT !.pc = fe.raw.pc, !.dcd1 = d1, !.dcd2 = d2,
                          !.desEqSrc1 = q1, !.desEqSrc2 = q2]
      BY <2>1 DEF DecodedGroup
    <3> HIDE DEF f0, f1, d1, d2, q1, q2
    <3> QED BY <1>3, <2>1, <3>1
  <2>2. CASE ~Fills
    <3>1. f1 = f0
      BY <2>2
    <3> HIDE DEF f0, f1
    <3> QED BY <1>3, <2>2, <3>1
  <2> QED BY <2>1, <2>2
<1>5. Fetched.invalid2 \in BOOLEAN
  BY DEF Fetched
<1>6. /\ DOMAIN f2 = F /\ f2.raw.invalid2 \in BOOLEAN /\ f2.dc = fe.dc /\ f2.dp = fe.dp
      /\ f2.dcd1 = f1.dcd1 /\ f2.dcd2 = f1.dcd2
      /\ f2.desEqSrc1 = f1.desEqSrc1 /\ f2.desEqSrc2 = f1.desEqSrc2
  <2> HIDE DEF f1, fetched
  <2> DEFINE x == f2
             v == Fetched
  <2>1. CASE fetched
    <3>1. x = [f1 EXCEPT !.raw = v, !.curPc = v.npc]
      BY <2>1
    <3> HIDE DEF x, v
    <3>2. /\ DOMAIN x = F /\ x.raw = v /\ x.dc = f1.dc /\ x.dp = f1.dp
          /\ x.dcd1 = f1.dcd1 /\ x.dcd2 = f1.dcd2
          /\ x.desEqSrc1 = f1.desEqSrc1 /\ x.desEqSrc2 = f1.desEqSrc2
      BY <1>4, <3>1
    <3> QED BY <1>4, <1>5, <3>2 DEF x, v
  <2>2. CASE ~fetched
    <3>1. x = f1
      BY <2>2
    <3> QED BY <1>2, <1>4, <3>1 DEF x
  <2> QED BY <2>1, <2>2 DEF x
<1> HIDE DEF f2
<1>7. /\ DOMAIN f3 = F /\ f3.raw = f2.raw
      /\ f3.dc = (~w.mis /\ (fetched \/ (fe.dc /\ ~Fills)))
      /\ f3.dp = (~w.mis /\ (Fills \/ (fe.dp /\ ~Goes)))
      /\ f3.dcd1 = f2.dcd1 /\ f3.dcd2 = f2.dcd2
      /\ f3.desEqSrc1 = f2.desEqSrc1 /\ f3.desEqSrc2 = f2.desEqSrc2
  <2> DEFINE a == (~w.mis /\ (fetched \/ (fe.dc /\ ~Fills)))
             b == (~w.mis /\ (Fills \/ (fe.dp /\ ~Goes)))
             c == IF w.mis THEN w.calAddr ELSE f2.curPc
             x == f3
  <2>1. x = [f2 EXCEPT !.curPc = c, !.dc = a, !.dp = b]
    BY <1>6
  <2> HIDE DEF a, b, c, x
  <2>2. /\ DOMAIN x = F /\ x.raw = f2.raw /\ x.dc = a /\ x.dp = b
        /\ x.dcd1 = f2.dcd1 /\ x.dcd2 = f2.dcd2
        /\ x.desEqSrc1 = f2.desEqSrc1 /\ x.desEqSrc2 = f2.desEqSrc2
    BY <1>6, <2>1
  <2> QED BY <2>2 DEF a, b, x
<1> HIDE DEF f3, f1, f0, d1, d2, q1, q2, fetched
<1>8. fe'.dc \in BOOLEAN
  BY <1>1, <1>7
<1>9. /\ DOMAIN fe' = F /\ fe'.raw.invalid2 \in BOOLEAN
      /\ fe'.dp = (~w.mis /\ (Fills \/ (fe.dp /\ ~Goes)))
  BY <1>1, <1>6, <1>7
<1>10. Fills => /\ fe'.dcd1 = d1 /\ fe'.dcd2 = d2
                /\ fe'.desEqSrc1 = q1 /\ fe'.desEqSrc2 = q2
  BY <1>1, <1>4, <1>6, <1>7
<1>11. ~Fills => /\ Cleared(fe'.dcd1, fe.dcd1) /\ Cleared(fe'.dcd2, fe.dcd2)
                 /\ fe'.desEqSrc1 = fe.desEqSrc1 /\ fe'.desEqSrc2 = fe.desEqSrc2
  BY <1>1, <1>3, <1>4, <1>6, <1>7
<1> QED BY <1>8, <1>9, <1>10, <1>11 DEF d1, d2, q1, q2

(* The lanes after a cycle.                                                 *)
Tagged(c, s, t) == [c EXCEPT !.spec = s, !.specTag = t]

(* The decoder makes a lane.                                                *)
LEMMA DecodeIs ==
  ASSUME NEW i, NEW inv, NEW pred, NEW s, NEW t, t \in Tags,
         inv \in BOOLEAN, s \in BOOLEAN,
         NEW c, c = Decode(i, inv, pred), NEW y, y = Tagged(c, s, t)
  PROVE  /\ IsLane(y) /\ y.invalid = inv
         /\ y.isBranch = c.isBranch /\ c.isBranch \in BOOLEAN
         /\ y.rdUse = c.rdUse /\ c.rdUse \in BOOLEAN
         /\ y.spec = s /\ y.specTag = t
<1> DEFINE ent == Station(i.op)
           br == ent = "br" /\ ~inv
           rd == i.op \notin Branch \cup {"sw", "illegal"}
           u1 == i.op \notin {"jal", "auipc"}
           u2 == i.op \in Arith \cup Branch \cup {"sw"}
<1>1. ent \in Stations
  BY DEF Station, Stations
<1>2. br \in BOOLEAN /\ rd \in BOOLEAN /\ u1 \in BOOLEAN /\ u2 \in BOOLEAN
  OBVIOUS
<1>3. /\ DOMAIN c = LaneFields /\ c.invalid = inv /\ c.rsEnt = ent
      /\ c.isBranch = br /\ c.rdUse = rd /\ c.use1 = u1 /\ c.use2 = u2
  BY DEF Decode, LaneFields
<1>4. y = [c EXCEPT !.spec = s, !.specTag = t]
  BY DEF Tagged
<1> HIDE DEF ent, rd, u1, u2
<1>5. /\ DOMAIN y = LaneFields /\ y.invalid = inv /\ y.rsEnt = ent
      /\ y.rdUse = rd /\ y.use1 = u1 /\ y.use2 = u2
      /\ y.spec = s /\ y.specTag = t /\ y.isBranch = br
  <2> HIDE DEF br
  <2> QED BY <1>3, <1>4 DEF LaneFields
<1>6. IsLane(y)
  BY <1>1, <1>2, <1>5 DEF IsLane
<1> QED BY <1>2, <1>3, <1>5, <1>6

(* The tag generator gives tags.                                            *)
LEMMA GenFacts ==
  ASSUME TagsOk, NEW b1 \in BOOLEAN, NEW b2 \in BOOLEAN
  PROVE  /\ GenTag1(tg, b1) \in Tags /\ GenTag2(tg, b1, b2) \in Tags
         /\ GenSpec1(tg) \in BOOLEAN /\ GenSpec2(tg, b1) \in BOOLEAN
<1>1. tg.tagreg \in 0..BRANCH_ENT_NUM
  BY TagFacts
<1>2. \A t \in 0..BRANCH_ENT_NUM : TagAfter(t) \in 0..BRANCH_ENT_NUM
  BY TagSize DEF TagAfter
<1>3. GenTag1(tg, b1) \in 0..BRANCH_ENT_NUM
  BY <1>1, <1>2 DEF GenTag1
<1>4. GenTag2(tg, b1, b2) \in 0..BRANCH_ENT_NUM
  BY <1>2, <1>3 DEF GenTag2
<1> QED BY <1>3, <1>4, TagSize DEF GenSpec1, GenSpec2

(* The bits of the decoder that the tag generator reads.                    *)
LEMMA DcwFacts ==
  ASSUME FrontOk
  PROVE  /\ Dcw1.isBranch \in BOOLEAN /\ Dcw2.isBranch \in BOOLEAN
         /\ Dcw1.rdUse \in BOOLEAN
<1>1. fe.raw.invalid2 \in BOOLEAN
  BY DEF FrontOk
<1> QED BY <1>1 DEF Dcw1, Dcw2, Decode

(* A group that has just been decoded.                                      *)
LEMMA NewLanes ==
  ASSUME FrontOk, TagsOk, Shapes, ClockEdge, Fills
  PROVE  /\ IsLane(fe'.dcd1) /\ IsLane(fe'.dcd2)
         /\ ~fe'.dcd1.invalid
         /\ fe'.dcd1.rdUse = Dcw1.rdUse
         /\ fe'.dcd1.isBranch = Dcw1.isBranch /\ fe'.dcd2.isBranch = Dcw2.isBranch
         /\ fe'.dcd1.spec = GenSpec1(tg)
         /\ fe'.dcd2.spec = GenSpec2(tg, Dcw1.isBranch)
         /\ fe'.dcd1.specTag = GenTag1(tg, Dcw1.isBranch)
         /\ fe'.dcd2.specTag = GenTag2(tg, Dcw1.isBranch, Dcw2.isBranch)
<1> DEFINE b1 == Dcw1.isBranch
           b2 == Dcw2.isBranch
           s1 == GenSpec1(tg)
           s2 == GenSpec2(tg, b1)
           t1 == GenTag1(tg, b1)
           t2 == GenTag2(tg, b1, b2)
           i1 == fe.raw.inst1
           i2 == fe.raw.inst2
           v == fe.raw.invalid2
           n1 == Plus(fe.raw.pc, 1)
           n2 == fe.raw.npc
<1>1. b1 \in BOOLEAN /\ b2 \in BOOLEAN
  BY DcwFacts
<1>2. s1 \in BOOLEAN /\ s2 \in BOOLEAN /\ t1 \in Tags /\ t2 \in Tags
  <2> HIDE DEF b1, b2
  <2> QED BY <1>1, GenFacts
<1>3. v \in BOOLEAN
  BY DEF FrontOk
<1> DEFINE c1 == Decode(i1, FALSE, n1)
           c2 == Decode(i2, v, n2)
<1>4. /\ fe'.dcd1 = [c1 EXCEPT !.spec = s1, !.specTag = t1]
      /\ fe'.dcd2 = [c2 EXCEPT !.spec = s2, !.specTag = t2]
      /\ b1 = c1.isBranch /\ b2 = c2.isBranch /\ Dcw1.rdUse = c1.rdUse
  BY FrontThen DEF Dcw1, Dcw2
<1>7. c1 = Decode(i1, FALSE, n1) /\ c2 = Decode(i2, v, n2)
  OBVIOUS
<1> HIDE DEF b1, b2, s1, s2, t1, t2, i1, i2, v, n1, n2, c1, c2
<1> DEFINE y1 == fe'.dcd1
           y2 == fe'.dcd2
           no == FALSE
<1>8. /\ y1 = Tagged(c1, s1, t1) /\ no \in BOOLEAN
      /\ y2 = Tagged(c2, s2, t2) /\ c1 = Decode(i1, no, n1)
  BY <1>4, <1>7 DEF Tagged
<1> HIDE DEF y1, y2, no
<1>5. /\ IsLane(y1) /\ y1.invalid = no
      /\ y1.isBranch = b1 /\ y1.spec = s1 /\ y1.specTag = t1
      /\ y1.rdUse = Dcw1.rdUse
  BY <1>2, <1>4, <1>8, DecodeIs
<1>6. /\ IsLane(y2)
      /\ y2.isBranch = b2 /\ y2.spec = s2 /\ y2.specTag = t2
  BY <1>2, <1>3, <1>4, <1>7, <1>8, DecodeIs
<1> QED BY <1>5, <1>6 DEF b1, b2, s1, s2, t1, t2, y1, y2, no

(* A group that waits.                                                      *)
LEMMA OldLanes ==
  ASSUME FrontOk, TagsOk, Shapes, ClockEdge, ~Fills
  PROVE  /\ \A k \in 1..2 :
              /\ IsLane(Lane(k)')
              /\ Lane(k)'.invalid = Lane(k).invalid
              /\ Lane(k)'.rdUse = Lane(k).rdUse
              /\ Lane(k)'.isBranch = Lane(k).isBranch
              /\ Lane(k)'.specTag = Lane(k).specTag
              /\ Lane(k)'.spec <=> Lane(k).spec /\ ~(Wires.suc /\ Lane(k).specTag = Wires.tag)
         /\ fe'.desEqSrc1 = fe.desEqSrc1 /\ fe'.desEqSrc2 = fe.desEqSrc2
<1>1. ASSUME NEW d, NEW e, IsLane(d), Cleared(e, d)
      PROVE  /\ IsLane(e)
             /\ e.invalid = d.invalid /\ e.rdUse = d.rdUse /\ e.isBranch = d.isBranch
             /\ e.specTag = d.specTag
             /\ e.spec <=> d.spec /\ ~(Wires.suc /\ d.specTag = Wires.tag)
  <2>1. /\ e.invalid = d.invalid /\ e.rdUse = d.rdUse /\ e.isBranch = d.isBranch
        /\ e.specTag = d.specTag /\ e.use1 = d.use1 /\ e.use2 = d.use2
        /\ e.rsEnt = d.rsEnt
    BY <1>1 DEF Cleared, LaneFields
  <2>2. e.spec \in BOOLEAN /\ (e.spec <=> d.spec /\ ~(Wires.suc /\ d.specTag = Wires.tag))
    BY <1>1 DEF Cleared
  <2>3. IsLane(e)
    BY <1>1, <2>1, <2>2 DEF IsLane, Cleared
  <2> QED BY <2>1, <2>2, <2>3
<1>2. \A k \in 1..2 : IsLane(Lane(k)) /\ Cleared(Lane(k)', Lane(k))
  BY FrontThen DEF FrontOk, Lane
<1> QED BY <1>1, <1>2, FrontThen

(* A cycle leaves the shape of the front stages.                            *)
LEMMA FrontKept ==
  ASSUME FrontOk, TagsOk, Shapes, ClockEdge
  PROVE  FrontOk'
<1>1. /\ DOMAIN fe' = {"curPc", "raw", "dc", "dp", "dcd1", "dcd2", "pc",
                       "desEqSrc1", "desEqSrc2"}
      /\ fe'.dc \in BOOLEAN /\ fe'.dp \in BOOLEAN /\ fe'.raw.invalid2 \in BOOLEAN
  <2>1. fe'.dp = (~Wires.mis /\ (Fills \/ (fe.dp /\ ~Goes)))
    BY FrontThen
  <2>2. (~Wires.mis /\ (Fills \/ (fe.dp /\ ~Goes))) \in BOOLEAN
    OBVIOUS
  <2> QED BY <2>1, <2>2, FrontThen
<1>2. CASE Fills
  <2>1. /\ IsLane(fe'.dcd1) /\ IsLane(fe'.dcd2) /\ ~fe'.dcd1.invalid
        /\ fe'.dcd1.rdUse = Dcw1.rdUse
    BY <1>2, NewLanes
  <2>2. /\ fe'.desEqSrc1 = (Dcw1.rdUse /\ Dcw2.rs1 = Dcw1.rdIdx)
        /\ fe'.desEqSrc2 = (Dcw1.rdUse /\ Dcw2.rs2 = Dcw1.rdIdx)
    BY <1>2, FrontThen
  <2>3. /\ fe'.desEqSrc1 \in BOOLEAN /\ fe'.desEqSrc2 \in BOOLEAN
        /\ fe'.desEqSrc1 => fe'.dcd1.rdUse
        /\ fe'.desEqSrc2 => fe'.dcd1.rdUse
    BY <2>1, <2>2
  <2> QED BY <1>1, <2>1, <2>3 DEF FrontOk
<1>3. CASE ~Fills
  <2>1. \A k \in 1..2 : /\ IsLane(Lane(k)') /\ Lane(k)'.invalid = Lane(k).invalid
                        /\ Lane(k)'.rdUse = Lane(k).rdUse
    BY <1>3, OldLanes
  <2>2. Lane(1)' = fe'.dcd1 /\ Lane(2)' = fe'.dcd2 /\ Lane(1) = fe.dcd1
    BY DEF Lane
  <2>3. fe'.desEqSrc1 = fe.desEqSrc1 /\ fe'.desEqSrc2 = fe.desEqSrc2
    BY <1>3, OldLanes
  <2>4. /\ IsLane(fe'.dcd1) /\ IsLane(fe'.dcd2) /\ fe'.dcd1.invalid = fe.dcd1.invalid
        /\ fe'.dcd1.rdUse = fe.dcd1.rdUse
    BY <2>1, <2>2
  <2> QED BY <1>1, <2>3, <2>4 DEF FrontOk
<1> QED BY <1>2, <1>3

(* The rows the in-order stations offer.                                    *)
Round1(i, n) == IF i + 1 = n THEN 0 ELSE i + 1

(* An in-order station offers the row at its pointer and the next one.      *)
LEMMA OfferIs ==
  ASSUME Shapes, NEW s \in InOrder
  PROVE  LET n == EntNum(s)
             a == alloc[s]
             b == Round1(a, n)
         IN  /\ a \in 0..(n-1) /\ b \in 0..(n-1)
             /\ Offer(s)[1].busy = rs[s][a].busy /\ Offer(s)[1].idx = a
             /\ Offer(s)[2].busy = rs[s][b].busy /\ Offer(s)[2].idx = b
<1> DEFINE n == EntNum(s)
           a == alloc[s]
           t == rs[s]
           b == Wrap(t, a + 1)
<1>1. s \in Units /\ s # "alu"
  BY DEF InOrder, Units
<1>2. a \in 0..(n-1) /\ n \in Nat \ {0}
  BY <1>1, StationSize DEF Shapes
<1>3. Table(t, n)
  BY <1>1, StationTable
<1>4. Offer(s) = <<[busy |-> t[a].busy, idx |-> a], [busy |-> t[b].busy, idx |-> b]>>
  BY <1>1 DEF Offer
<1>5. b = Round1(a, n)
  <2> HIDE DEF t, n, a
  <2>1. a + 1 \in 0..n
    BY <1>2
  <2>2. Wrap(t, a + 1) = IF a + 1 = n THEN 0 ELSE a + 1
    BY <1>3, <2>1, WrapIs
  <2> QED BY <2>2 DEF Round1
<1>6. Round1(a, n) \in 0..(n-1)
  <2> HIDE DEF n, a
  <2> QED BY <1>2 DEF Round1
<1> QED BY <1>2, <1>4, <1>5, <1>6

(* The row of an in-order station that a lane gets.                         *)
LEMMA RowOfIs ==
  ASSUME Shapes, NEW s \in InOrder, NEW k \in 1..2, Lane(k).rsEnt = s
  PROVE  RowOf(k) = [unit |-> s,
                     row |-> IF k = 2 /\ fe.dcd1.rsEnt = s THEN Round1(alloc[s], EntNum(s))
                                                           ELSE alloc[s]]
<1> DEFINE i == IF k = 2 /\ fe.dcd1.rsEnt = s THEN Offer(s)[2].idx ELSE Offer(s)[1].idx
<1>1. s # "alu"
  BY DEF InOrder
<1>2. RowOf(k) = [unit |-> s, row |-> i]
  BY <1>1 DEF RowOf
<1>3. i = IF k = 2 /\ fe.dcd1.rsEnt = s THEN Round1(alloc[s], EntNum(s)) ELSE alloc[s]
  BY OfferIs
<1> QED BY <1>2, <1>3

(* The pointer of an in-order station after a cycle.                        *)
LEMMA AllocThen ==
  ASSUME Shapes, ClockEdge, NEW s \in InOrder
  PROVE  LET n == EntNum(s)
         IN  /\ DOMAIN alloc' = InOrder
             /\ alloc'[s] \in 0..(n-1)
             /\ ~Wires.mis => alloc'[s] =
                  IF Goes /\ Required(s, 2)
                    THEN Round1(IF fe.dcd1.rsEnt = s THEN Round1(alloc[s], n) ELSE alloc[s], n)
                  ELSE IF Goes /\ Required(s, 1) THEN Round1(alloc[s], n) ELSE alloc[s]
<1> DEFINE n == EntNum(s)
           lanes == {k \in 1..Size : Required(s, k)}
           k == IF 2 \in lanes THEN 2 ELSE 1
           r == RowOf(k).row
           m == AllocMisPred(rs[s], alloc[s], Killed(Wires))
<1>1. s \in Units /\ n \in Nat \ {0} /\ Table(rs[s], n)
  BY StationTable, StationSize DEF InOrder, Units
<1>2. alloc' = [u \in InOrder |-> AllocNext(u, Wires, Goes)]
  BY Edge DEF NextAlloc
<1>3. alloc'[s] = CASE Goes /\ lanes # {} -> Wrap(rs[s], r + 1)
                    [] Wires.mis -> m
                    [] OTHER     -> alloc[s]
  BY <1>2 DEF AllocNext
<1>4. Size \in {1, 2} /\ (Size = 1 <=> fe.dcd2.invalid)
  BY DEF Size
<1>5. (2 \in lanes <=> Required(s, 2)) /\ (1 \in lanes <=> Required(s, 1))
      /\ (lanes # {} <=> Required(s, 1) \/ Required(s, 2))
  BY <1>4 DEF Required, Lane
<1>6. alloc[s] \in 0..(n-1)
  BY DEF Shapes
<1>7. m \in 0..(n-1)
  BY <1>1, <1>6, AllocMisPredRow
<1>8. ASSUME NEW i \in 0..(n-1)
      PROVE  Round1(i, n) \in 0..(n-1) /\ Wrap(rs[s], i + 1) = Round1(i, n)
  <2> HIDE DEF n
  <2>1. i + 1 \in 0..n
    BY <1>1
  <2> QED BY <1>1, <2>1, WrapIs DEF Round1
<1>9. lanes # {} => r = IF Required(s, 2)
                          THEN IF fe.dcd1.rsEnt = s THEN Round1(alloc[s], n) ELSE alloc[s]
                          ELSE alloc[s]
  <2> SUFFICES ASSUME lanes # {}
               PROVE  r = IF Required(s, 2)
                          THEN IF fe.dcd1.rsEnt = s THEN Round1(alloc[s], n) ELSE alloc[s]
                          ELSE alloc[s]
    OBVIOUS
  <2>1. k \in 1..2 /\ Lane(k).rsEnt = s /\ (k = 2 <=> Required(s, 2))
    BY <1>5 DEF Required
  <2> HIDE DEF k
  <2>2. RowOf(k) = [unit |-> s, row |-> IF k = 2 /\ fe.dcd1.rsEnt = s THEN Round1(alloc[s], n)
                                                                      ELSE alloc[s]]
    BY <2>1, RowOfIs
  <2> QED BY <2>1, <2>2
<1> HIDE DEF lanes, r, m, n
<1>10. lanes # {} => r \in 0..(n-1) /\ Wrap(rs[s], r + 1) = Round1(r, n)
                     /\ Round1(r, n) \in 0..(n-1)
  BY <1>6, <1>8, <1>9
<1>11. alloc'[s] \in 0..(n-1)
  BY <1>3, <1>6, <1>7, <1>10
<1>12. ASSUME ~Wires.mis
       PROVE  alloc'[s] =
                  IF Goes /\ Required(s, 2)
                    THEN Round1(IF fe.dcd1.rsEnt = s THEN Round1(alloc[s], n) ELSE alloc[s], n)
                  ELSE IF Goes /\ Required(s, 1) THEN Round1(alloc[s], n) ELSE alloc[s]
  BY <1>3, <1>5, <1>9, <1>10, <1>12
<1> QED BY <1>2, <1>11, <1>12 DEF n

(* The row of the reorder buffer that a lane writes.                        *)
LEMMA RobEntryIs ==
  ASSUME FrontOk, NEW k \in 1..2
  PROVE  /\ DOMAIN RobEntry(k) = RobFields
         /\ RobEntry(k).wbFin = FALSE
         /\ RobEntry(k).rdUse = Lane(k).rdUse /\ Lane(k).rdUse \in BOOLEAN
         /\ RobEntry(k).rdIdx = Lane(k).rdIdx
  BY DEF RobEntry, RobFields, FrontOk, IsLane, Lane

(* A cycle leaves the shape of the stations, the units and the reorder      *)
(* buffer.                                                                  *)
LEMMA ShapesKept ==
  ASSUME Shapes, FrontOk, RingOk, ClockEdge
  PROVE  Shapes'
<1>1. DOMAIN rs' = Units /\ DOMAIN ex' = Units
  <2>1. "br" \in Units /\ 0 \in 0..(EntNum("br")-1)
    BY StationSize, TagSize DEF Units
  <2> QED BY <2>1, RowThen, ExThen
<1>2. ASSUME NEW u \in Units
      PROVE  /\ DOMAIN rs'[u] = 0..(EntNum(u)-1)
             /\ \A i \in DOMAIN rs'[u] : IsEntry(rs'[u][i])
             /\ ex'[u].full \in BOOLEAN /\ IsEntry(ex'[u].src)
  <2>1. DOMAIN rs'[u] = 0..(EntNum(u)-1)
    <3>1. 0 \in 0..(EntNum(u)-1)
      BY StationSize
    <3> QED BY <3>1, RowThen
  <2>2. ASSUME NEW i \in 0..(EntNum(u)-1) PROVE IsEntry(rs'[u][i])
    <3>1. ASSUME NEW k \in 1..Size, rs'[u][i] = Entry(k, ByPasses)
          PROVE  IsEntry(rs'[u][i])
      <4>1. k \in 1..2
        BY DEF Size
      <4> QED BY <3>1, <4>1, EntryIs
    <3>2. ASSUME rs'[u][i] = Cycled(rs[u][i], i, u)
          PROVE  IsEntry(rs'[u][i])
      <4>1. IsEntry(rs[u][i])
        BY DEF Shapes
      <4> QED BY <3>2, <4>1, EntryCycled
    <3> QED BY <3>1, <3>2, RowThen
  <2>3. ex'[u].full \in BOOLEAN
    BY ExThen
  <2>4. IsEntry(ex'[u].src)
    <3>1. CASE Issue(u) = None
      BY <3>1, ExThen DEF Shapes
    <3>2. CASE Issue(u) # None
      <4>1. IsEntry(rs[u][Issue(u)])
        BY <3>2, IssueIs DEF Shapes
      <4> QED BY <3>2, <4>1, ExThen
    <3> QED BY <3>1, <3>2
  <2> QED BY <2>1, <2>2, <2>3, <2>4
<1>3. \A u \in InOrder : alloc'[u] \in 0..(EntNum(u)-1)
  BY AllocThen
<1>4. {"full", "src"} \subseteq DOMAIN ls2' /\ ls2'.full \in BOOLEAN /\ IsEntry(ls2'.src)
  BY Ls2Then DEF Shapes, Units
<1>5. ASSUME NEW p \in Ptrs
      PROVE  DOMAIN rob'[p] = RobFields /\ rob'[p].wbFin \in BOOLEAN /\ rob'[p].rdUse \in BOOLEAN
  <2>1. CASE Given(p)
    <3>1. PICK k \in 1..Took : p = Inc(rrf.reqPtr, k-1)
      BY <2>1 DEF Given
    <3>2. k \in 1..2
      BY DEF Took, Size
    <3>3. rob'[p] = RobEntry(k)
      BY <3>1, RobThen
    <3> QED BY <3>2, <3>3, RobEntryIs
  <2>2. CASE ~Given(p)
    BY <2>2, RobThen DEF Shapes
  <2> QED BY <2>1, <2>2
<1>6. \A u : EntNum(u)' = EntNum(u)
  BY DEF EntNum
<1> QED BY <1>1, <1>2, <1>3, <1>4, <1>5, <1>6 DEF Shapes

-----------------------------------------------------------------------------
(* Where the instructions go.                                               *)
(* The invariant of the core. Where an entry is (Sound, Apart), which tags  *)
(* it carries (TagsHeld, InTheirOrder), where branches wait (BrOrder) and   *)
(* what the tables say (ResultsValid, RowsRight) depend on each other: none *)
(* is inductive alone.                                                      *)
CoreInv ==
  /\ Shapes /\ FrontOk /\ TablesOk /\ TagsOk /\ RingOk
  /\ Sound /\ Apart /\ TagsHeld /\ InTheirOrder /\ BrOrder
  /\ ResultsValid /\ RowsRight

BrSpot == <<"br", Ex>>

(* Every place is a lane, a row, an execution stage or the second memory    *)
(* stage.                                                                   *)
LEMMA SpotIs ==
  /\ \A k \in 1..2 : <<"lane", k>> \in Spots
  /\ \A u \in Units : <<u, Ex>> \in Spots /\ u # "lane"
  /\ \A u \in Units : \A i \in 0..(EntNum(u)-1) : <<u, i>> \in Spots /\ i # Ex /\ i # Ls2
  /\ <<"ls", Ls2>> \in Spots
  /\ \A x \in Spots :
       \/ \E k \in 1..2 : x = <<"lane", k>>
       \/ \E u \in Units : x = <<u, Ex>>
       \/ \E u \in Units : \E i \in 0..(EntNum(u)-1) : x = <<u, i>>
       \/ x = <<"ls", Ls2>>
<1>1. \A k \in 1..2 : <<"lane", k>> \in Spots
  BY DEF Spots
<1>2. ASSUME NEW u \in Units
      PROVE  u # "lane" /\ <<u, Ex>> \in Spots
  BY DEF Spots, Units, Ex
<1>3. ASSUME NEW u \in Units, NEW i \in 0..(EntNum(u)-1)
      PROVE  <<u, i>> \in Spots /\ i # Ex /\ i # Ls2
  <2>1. EntNum(u) \in Nat
    BY StationSize
  <2>2. i \in Int /\ i >= 0
    BY <2>1
  <2>3. u # "lane"
    BY DEF Units
  <2> QED BY <2>2, <2>3 DEF Spots, Ex, Ls2
<1>4. <<"ls", Ls2>> \in Spots
  BY DEF Spots, Units, Ls2, Ex
<1>5. ASSUME NEW x \in Spots
      PROVE  \/ \E k \in 1..2 : x = <<"lane", k>>
             \/ \E u \in Units : x = <<u, Ex>>
             \/ \E u \in Units : \E i \in 0..(EntNum(u)-1) : x = <<u, i>>
             \/ x = <<"ls", Ls2>>
  <2>1. /\ x = <<x[1], x[2]>> /\ x[1] \in Units \cup {"lane"}
        /\ IF x[1] = "lane" THEN x[2] \in 1..2
           ELSE x[2] \in 0..(EntNum(x[1]) - 1) \/ x[2] = Ex \/ x = <<"ls", Ls2>>
    BY DEF Spots
  <2> QED BY <2>1
<1> QED BY <1>1, <1>2, <1>3, <1>4, <1>5

(* A lane as a place.                                                       *)
LEMMA LaneSpot ==
  ASSUME NEW k \in 1..2
  PROVE  LET x == <<"lane", k>>
         IN  /\ Held(x) <=> fe.dp /\ k <= Size
             /\ At(x) = Lane(k) /\ AgeAt(x) = Waiting + k - 1
             /\ IsBr(x) <=> Lane(k).isBranch
  BY DEF Held, At, AgeAt, IsBr

(* An execution stage as a place.                                           *)
LEMMA ExSpot ==
  ASSUME NEW u \in Units
  PROVE  LET x == <<u, Ex>>
         IN  /\ Held(x) <=> ex[u].full
             /\ At(x) = ex[u].src /\ AgeAt(x) = Age(ex[u].src.rrftag)
             /\ IsBr(x) <=> u = "br"
<1>1. u # "lane" /\ Ex # Ls2
  BY DEF Units, Ex, Ls2
<1> DEFINE x == <<u, Ex>>
<1>2. x[1] = u /\ x[2] = Ex
  OBVIOUS
<1> HIDE DEF x
<1>4. Held(x) <=> ex[u].full
  BY <1>1, <1>2 DEF Held
<1>5. At(x) = ex[u].src
  BY <1>1, <1>2 DEF At
<1>6. AgeAt(x) = Age(ex[u].src.rrftag)
  BY <1>1, <1>2, <1>5 DEF AgeAt
<1>7. IsBr(x) <=> u = "br"
  BY <1>1, <1>2 DEF IsBr
<1> QED BY <1>4, <1>5, <1>6, <1>7 DEF x

(* A row of a station as a place.                                           *)
LEMMA RowSpot ==
  ASSUME NEW u \in Units, NEW i \in 0..(EntNum(u)-1)
  PROVE  LET x == <<u, i>>
         IN  /\ Held(x) <=> rs[u][i].busy
             /\ At(x) = rs[u][i] /\ AgeAt(x) = Age(rs[u][i].rrftag)
             /\ IsBr(x) <=> u = "br"
<1>1. u # "lane" /\ i # Ex /\ i # Ls2
  BY SpotIs
<1> QED BY <1>1 DEF Held, At, AgeAt, IsBr

(* The second memory stage as a place.                                      *)
LEMMA Ls2Spot ==
  LET x == <<"ls", Ls2>>
  IN  /\ Held(x) <=> ls2.full
      /\ At(x) = ls2.src /\ AgeAt(x) = Age(ls2.src.rrftag)
      /\ ~IsBr(x)
  BY DEF Held, At, AgeAt, IsBr, Ex, Ls2

(* What is at a place.                                                      *)
LEMMA AtFacts ==
  ASSUME Shapes, FrontOk, NEW x \in Spots
  PROVE  /\ At(x).specTag \in Tags /\ At(x).spec \in BOOLEAN /\ At(x).rdUse \in BOOLEAN
         /\ x[1] # "lane" => At(x).rrftag \in Ptrs
<1>1. ASSUME NEW k \in 1..2, x = <<"lane", k>>
      PROVE  At(x).specTag \in Tags /\ At(x).spec \in BOOLEAN /\ At(x).rdUse \in BOOLEAN
             /\ x[1] = "lane"
  <2>1. IsLane(Lane(k))
    BY DEF FrontOk, Lane
  <2> QED BY <1>1, <2>1, LaneSpot DEF IsLane
<1>2. ASSUME NEW u \in Units, x = <<u, Ex>>
      PROVE  IsEntry(At(x))
  <2>1. At(x) = ex[u].src
    BY <1>2, ExSpot
  <2>2. IsEntry(ex[u].src)
    BY DEF Shapes
  <2> QED BY <2>1, <2>2
<1>3. ASSUME NEW u \in Units, NEW i \in 0..(EntNum(u)-1), x = <<u, i>>
      PROVE  IsEntry(At(x))
  <2>1. At(x) = rs[u][i]
    BY <1>3, RowSpot
  <2>2. IsEntry(rs[u][i])
    BY DEF Shapes
  <2> QED BY <2>1, <2>2
<1>4. ASSUME x = <<"ls", Ls2>>
      PROVE  IsEntry(At(x))
  BY <1>4, Ls2Spot DEF Shapes
<1>5. IsEntry(At(x)) \/ (At(x).specTag \in Tags /\ At(x).spec \in BOOLEAN
                         /\ At(x).rdUse \in BOOLEAN /\ x[1] = "lane")
  BY <1>1, <1>2, <1>3, <1>4, SpotIs
<1> QED BY <1>5 DEF IsEntry

(* The ring after a cycle.                                                  *)
LEMMA RingThen ==
  ASSUME CoreInv, ClockEdge
  PROVE  /\ RingOk' /\ Count \in 0..2 /\ Took \in 0..2 /\ Count <= Waiting
         /\ comPtr' = Inc(comPtr, Count)
         /\ ~Wires.mis => /\ Waiting' = Waiting - Count + Took
                          /\ Waiting - Count + Took <= RRF_NUM
         /\ Wires.mis => /\ Count = 0 /\ Took = 0 /\ ~Goes /\ ~Fills
                         /\ Age(Wires.rrftag) < Waiting
                         /\ Waiting' = Age(Wires.rrftag) + 1
<1> USE DEF CoreInv
<1>1. Count \in 0..2 /\ Count <= Waiting /\ (Wires.mis => Count = 0)
  BY CountFacts
<1>2. Took \in 0..2 /\ (Wires.mis => Took = 0 /\ ~Goes /\ ~Fills)
  BY GoFacts, FillFacts DEF Took, Size
<1>3. comPtr' = Inc(comPtr, Count)
  BY Edge DEF NextComptr
<1>4. CASE ~Wires.mis
  <2>1. rrf'.freenum = rrf.freenum + Count - Took /\ rrf'.reqPtr = Inc(rrf.reqPtr, Took)
    BY <1>4, RrfThen
  <2>2. rrf.freenum + Count >= Took
    <3>1. rrf.freenum \in 0..RRF_NUM
      BY RingFacts
    <3>2. Goes => rrf.freenum + Count >= Size
      BY GoFacts
    <3> QED BY <1>1, <3>1, <3>2, RingSize DEF Took
  <2>3. RingOk' /\ Waiting' = Waiting - Count + Took
    BY <1>1, <1>2, <1>3, <2>1, <2>2, RingFlow
  <2>4. rrf.freenum = RRF_NUM - Waiting /\ Waiting \in 0..RRF_NUM
    BY RingFacts
  <2>5. Waiting - Count + Took <= RRF_NUM
    BY <1>1, <1>2, <2>2, <2>4, RingSize
  <2> QED BY <1>1, <1>2, <1>3, <1>4, <2>3, <2>5
<1>5. CASE Wires.mis
  <2>1. /\ rrf'.freenum = LET m == Inc(Wires.rrftag, 1)
                          IN  IF comPtr >= m THEN comPtr - m ELSE RRF_NUM - m + comPtr
        /\ rrf'.reqPtr = Inc(Wires.rrftag, 1)
    BY <1>5, RrfThen
  <2>2. ex["br"].full /\ Wires.rrftag = ex["br"].src.rrftag /\ Wires.rrftag \in Ptrs
    BY <1>5, WireFacts
  <2>3. Wires.rrftag \in InFlight
    <3>1. "br" \in Units
      BY DEF Units
    <3>2. BrSpot \in Spots /\ Held(BrSpot) /\ BrSpot[1] # "lane"
          /\ At(BrSpot).rrftag = Wires.rrftag
      BY <2>2, <3>1, ExSpot, SpotIs DEF BrSpot
    <3> QED BY <3>2 DEF Sound
  <2>4. Age(Wires.rrftag) < Waiting
    BY <2>3 DEF InFlight, Waiting
  <2>5. comPtr' = comPtr
    <3>1. comPtr \in Ptrs
      BY RingFacts
    <3>2. Inc(comPtr, 0) = comPtr
      BY <3>1, RingSize DEF Inc
    <3> QED BY <1>1, <1>3, <1>5, <3>2
  <2> DEFINE p == Wires.rrftag
  <2>6. p \in Ptrs /\ Age(p) < Waiting
        /\ rrf'.freenum = (IF comPtr >= Inc(p, 1) THEN comPtr - Inc(p, 1)
                           ELSE RRF_NUM - Inc(p, 1) + comPtr)
        /\ rrf'.reqPtr = Inc(p, 1)
    BY <2>1, <2>2, <2>4
  <2> HIDE DEF p
  <2>7. RingOk' /\ Waiting' = Age(p) + 1
    BY <2>5, <2>6, RingBack
  <2> QED BY <1>1, <1>2, <1>3, <1>5, <2>4, <2>7 DEF p
<1> QED BY <1>4, <1>5

(* A lane as a place, after a cycle.                                        *)
LEMMA LaneSpotThen ==
  ASSUME NEW k \in 1..2
  PROVE  LET x == <<"lane", k>>
         IN  /\ Held(x)' <=> fe'.dp /\ k <= Size'
             /\ At(x)' = Lane(k)' /\ AgeAt(x)' = Waiting' + k - 1
             /\ IsBr(x)' <=> Lane(k)'.isBranch
  BY DEF Held, At, AgeAt, IsBr

(* An execution stage as a place, after a cycle.                            *)
LEMMA ExSpotThen ==
  ASSUME NEW u \in Units
  PROVE  LET x == <<u, Ex>>
         IN  /\ Held(x)' <=> ex'[u].full
             /\ At(x)' = ex'[u].src /\ AgeAt(x)' = Age(ex[u].src.rrftag)'
             /\ IsBr(x)' <=> u = "br"
<1>1. u # "lane" /\ Ex # Ls2
  BY DEF Units, Ex, Ls2
<1> DEFINE x == <<u, Ex>>
<1>2. x[1] = u /\ x[2] = Ex
  OBVIOUS
<1> HIDE DEF x
<1>4. Held(x)' <=> ex'[u].full
  BY <1>1, <1>2 DEF Held
<1>5. At(x)' = ex'[u].src
  BY <1>1, <1>2 DEF At
<1>6. AgeAt(x)' = Age(ex[u].src.rrftag)'
  BY <1>1, <1>2, <1>5 DEF AgeAt, Age
<1>7. IsBr(x)' <=> u = "br"
  BY <1>1, <1>2 DEF IsBr
<1> QED BY <1>4, <1>5, <1>6, <1>7 DEF x

(* A row of a station as a place, after a cycle.                            *)
LEMMA RowSpotThen ==
  ASSUME NEW u \in Units, NEW i \in 0..(EntNum(u)-1)
  PROVE  LET x == <<u, i>>
         IN  /\ Held(x)' <=> rs'[u][i].busy
             /\ At(x)' = rs'[u][i] /\ AgeAt(x)' = Age(rs[u][i].rrftag)'
             /\ IsBr(x)' <=> u = "br"
<1>1. u # "lane" /\ i # Ex /\ i # Ls2
  BY SpotIs
<1> DEFINE x == <<u, i>>
<1>2. x[1] = u /\ x[2] = i
  OBVIOUS
<1> HIDE DEF x
<1>4. Held(x)' <=> rs'[u][i].busy
  BY <1>1, <1>2 DEF Held
<1>5. At(x)' = rs'[u][i]
  BY <1>1, <1>2 DEF At
<1>6. AgeAt(x)' = Age(rs[u][i].rrftag)'
  BY <1>1, <1>2, <1>5 DEF AgeAt, Age
<1>7. IsBr(x)' <=> u = "br"
  BY <1>1, <1>2 DEF IsBr
<1> QED BY <1>4, <1>5, <1>6, <1>7 DEF x

(* The second memory stage as a place, after a cycle.                       *)
LEMMA Ls2SpotThen ==
  LET x == <<"ls", Ls2>>
  IN  /\ Held(x)' <=> ls2'.full
      /\ At(x)' = ls2'.src /\ AgeAt(x)' = Age(ls2.src.rrftag)'
      /\ ~IsBr(x)'
  BY DEF Held, At, AgeAt, IsBr, Ex, Ls2, Age

(* Where an instruction goes in a cycle.                                    *)
RowSpotOf(k) == <<RowOf(k).unit, RowOf(k).row>>

Dest(y) ==
  IF y[1] = "lane" THEN IF Goes THEN RowSpotOf(y[2]) ELSE y
  ELSE IF y = <<"ls", Ex>> THEN IF LsGoes(Wires) THEN <<"ls", Ls2>> ELSE y
  ELSE IF y[2] >= 0 /\ y[2] = Issue(y[1]) THEN <<y[1], Ex>> ELSE y

(* It has its result, or a mispredict takes it back.                        *)
Ended(y) ==
  \/ y[1] \in Units \ {"ls"} /\ y[2] = Ex
  \/ y[2] = Ls2
  \/ Wires.mis /\ (y[1] = "lane" \/ CheckIsKill(Wires, At(y)))

TagFor(y) == IF y[1] = "lane" THEN Inc(rrf.reqPtr, y[2]-1) ELSE At(y).rrftag

Carried(y, x) ==
  /\ At(x)'.specTag = At(y).specTag
  /\ At(x)'.rdUse = At(y).rdUse
  /\ At(y).spec /\ ~(Wires.suc /\ At(y).specTag = Wires.tag) => At(x)'.spec
  /\ At(x)'.spec => At(y).spec
  /\ At(x)'.spec /\ y # <<"ls", Ex>> => ~(Wires.suc /\ At(y).specTag = Wires.tag)
  /\ IsBr(x)' <=> IsBr(y)
  /\ x[1] # "lane" => At(x)'.rrftag = TagFor(y)

From(y, x) ==
  Held(y) /\ x = Dest(y) /\ ~Ended(y) /\ Carried(y, x) /\ (x[1] = "lane" => y = x /\ ~Goes)

(* A lane that waits has been in the lane.                                  *)
LEMMA FromLane ==
  ASSUME CoreInv, ClockEdge, NEW k \in 1..2, NEW x, x = <<"lane", k>>, Held(x)', ~Fills
  PROVE  From(x, x)
<1> USE DEF CoreInv
<1>1. fe'.dp /\ k <= Size'
  BY LaneSpotThen
<1>2. ~Wires.mis /\ fe.dp /\ ~Goes
  BY <1>1, FrontThen
<1>3. \A j \in 1..2 :
              /\ Lane(j)'.invalid = Lane(j).invalid
              /\ Lane(j)'.rdUse = Lane(j).rdUse
              /\ Lane(j)'.isBranch = Lane(j).isBranch
              /\ Lane(j)'.specTag = Lane(j).specTag
              /\ Lane(j)'.spec <=> Lane(j).spec /\ ~(Wires.suc /\ Lane(j).specTag = Wires.tag)
  BY OldLanes
<1>4. Size' = Size
  <2>1. 2 \in 1..2 /\ Lane(2) = fe.dcd2 /\ Lane(2)' = fe'.dcd2
    BY DEF Lane
  <2>2. fe'.dcd2.invalid = fe.dcd2.invalid
    BY <1>3, <2>1
  <2> QED BY <2>2 DEF Size
<1>5. Held(x)
  BY <1>1, <1>2, <1>4, LaneSpot
<1>6. x[1] = "lane" /\ x[2] = k /\ k # Ex /\ k # Ls2
  BY DEF Ex, Ls2
<1>7. Dest(x) = x
  BY <1>2, <1>6 DEF Dest
<1>8. ~Ended(x)
  <2>1. "lane" \notin Units
    BY DEF Units
  <2> QED BY <1>2, <1>6, <2>1 DEF Ended
<1>9. Carried(x, x)
  <2>1. At(x) = Lane(k) /\ At(x)' = Lane(k)' /\ (IsBr(x) <=> Lane(k).isBranch)
        /\ (IsBr(x)' <=> Lane(k)'.isBranch)
    BY LaneSpot, LaneSpotThen
  <2> QED BY <1>3, <1>6, <2>1 DEF Carried
<1> QED BY <1>2, <1>5, <1>7, <1>8, <1>9 DEF From

(* What a unit executes comes from its station.                             *)
LEMMA FromEx ==
  ASSUME CoreInv, ClockEdge, NEW u \in Units, NEW x, x = <<u, Ex>>, Held(x)'
  PROVE  \E y \in Spots : From(y, x)
<1> USE DEF CoreInv
<1>0. u # "lane" /\ x[1] = u /\ x[2] = Ex /\ Ex # Ls2 /\ ~(Ex >= 0)
  BY DEF Units, Ex, Ls2
<1>1. Issue(u) # None \/ Stays(u)
  <2>1. ex'[u].full
    BY ExSpotThen
  <2> QED BY <2>1, ExThen
<1>2. At(x)' = ex'[u].src /\ (IsBr(x)' <=> u = "br")
  BY ExSpotThen
<1>3. CASE Issue(u) # None
  <2> DEFINE i == Issue(u)
             y == <<u, i>>
             r == rs[u][i]
  <2>1. i \in 0..(EntNum(u)-1) /\ r.busy /\ ~Wires.mis
    BY <1>3, IssueIs
  <2>2. IsEntry(r)
    BY <2>1 DEF Shapes
  <2>3. /\ ex'[u].src.rrftag = r.rrftag /\ ex'[u].src.rdUse = r.rdUse
        /\ ex'[u].src.specTag = r.specTag
        /\ ex'[u].src.spec <=> r.spec /\ ~CheckIsSuc(Wires, r)
    BY <1>3, <2>2, ExThen
  <2>4. EntNum(u) \in Nat
    BY StationSize
  <2>5. i >= 0 /\ i \in Int
    BY <2>1, <2>4
  <2> HIDE DEF i
  <2>6. /\ y \in Spots /\ i # Ex /\ i # Ls2
        /\ Held(y) /\ At(y) = r /\ (IsBr(y) <=> u = "br")
    BY <2>1, SpotIs, RowSpot
  <2>7. y[1] = u /\ y[2] = i /\ y # <<"ls", Ex>>
    BY <2>6
  <2> HIDE DEF y, r
  <2>8. Dest(y) = x
    BY <1>0, <2>5, <2>7 DEF Dest, i
  <2>9. ~Ended(y)
    BY <2>1, <2>6, <2>7 DEF Ended
  <2>10. Carried(y, x)
    <3>1. TagFor(y) = r.rrftag
      BY <1>0, <2>6, <2>7 DEF TagFor
    <3> QED BY <1>2, <2>3, <2>6, <3>1 DEF Carried, CheckIsSuc
  <2> QED BY <1>0, <2>6, <2>8, <2>9, <2>10 DEF From
<1>4. CASE Issue(u) = None
  <2>1. Stays(u)
    BY <1>1, <1>4
  <2>2. u = "ls" /\ ex[u].full /\ ~LsGoes(Wires) /\ ~LsKilled(Wires)
    BY <2>1 DEF Stays
  <2>3. ex'[u].src = ex[u].src
    BY <1>4, ExThen
  <2>4. x \in Spots /\ Held(x) /\ At(x) = ex[u].src /\ (IsBr(x) <=> u = "br")
    BY <2>2, SpotIs, ExSpot
  <2>5. Dest(x) = x
    BY <1>0, <2>2 DEF Dest
  <2>6. ~Ended(x)
    BY <1>0, <2>2, <2>4 DEF Ended, LsKilled
  <2>7. Carried(x, x)
    <3>1. TagFor(x) = ex[u].src.rrftag
      BY <1>0, <2>4 DEF TagFor
    <3> QED BY <1>2, <2>2, <2>3, <2>4, <3>1 DEF Carried
  <2> QED BY <1>0, <2>4, <2>5, <2>6, <2>7 DEF From
<1> QED BY <1>3, <1>4

(* A lane that is filled.                                                   *)
LEMMA LaneHeld ==
  ASSUME FrontOk, fe.dp, NEW k \in 1..Size
  PROVE  /\ k \in 1..2 /\ <<"lane", k>> \in Spots /\ Held(<<"lane", k>>)
         /\ ~Lane(k).invalid /\ At(<<"lane", k>>) = Lane(k)
         /\ Lane(k).isBranch <=> Lane(k).rsEnt = "br"
         /\ IsBr(<<"lane", k>>) <=> Lane(k).isBranch
         /\ RowOf(k).unit = "br" <=> Lane(k).rsEnt = "br"
         /\ RowOf(k).unit = "ls" <=> Lane(k).rsEnt = "ls"
<1>1. Size \in {1, 2} /\ (Size = 2 <=> ~fe.dcd2.invalid) /\ fe.dcd2.invalid \in BOOLEAN
  BY DEF Size, FrontOk, IsLane
<1>2. k = 1 \/ (k = 2 /\ Size = 2)
  BY <1>1
<1>3. k \in 1..2 /\ k <= Size
  BY <1>1, <1>2
<1>4. ~Lane(k).invalid /\ IsLane(Lane(k))
  BY <1>1, <1>2 DEF Lane, FrontOk
<1>5. <<"lane", k>> \in Spots /\ Held(<<"lane", k>>) /\ At(<<"lane", k>>) = Lane(k)
      /\ (IsBr(<<"lane", k>>) <=> Lane(k).isBranch)
  BY <1>3, SpotIs, LaneSpot
<1>6. /\ RowOf(k).unit = "br" <=> Lane(k).rsEnt = "br"
      /\ RowOf(k).unit = "ls" <=> Lane(k).rsEnt = "ls"
  <2> DEFINE s == Lane(k).rsEnt
             f == Offer(s)
             i == IF k = 2 /\ fe.dcd1.rsEnt = s THEN f[2].idx ELSE f[1].idx
  <2>1. RowOf(k) = IF s = "alu" THEN [unit |-> IF i % 2 = 1 THEN "alu2" ELSE "alu1",
                                      row |-> i \div 2]
                                ELSE [unit |-> s, row |-> i]
    BY DEF RowOf
  <2> HIDE DEF s, i
  <2>2. CASE s = "alu"
    BY <2>1, <2>2 DEF s
  <2>3. CASE s # "alu"
    BY <2>1, <2>3 DEF s
  <2> QED BY <2>2, <2>3
<1>7. Lane(k).isBranch <=> Lane(k).rsEnt = "br"
  BY <1>4 DEF IsLane
<1> QED BY <1>3, <1>4, <1>5, <1>6, <1>7

(* What is in a row was there, in another row, or in a lane.                *)
LEMMA FromRow ==
  ASSUME CoreInv, ClockEdge, NEW u \in Units, NEW i \in 0..(EntNum(u)-1),
         NEW x, x = <<u, i>>, Held(x)'
  PROVE  \E y \in Spots : From(y, x)
<1> USE DEF CoreInv
<1>0. u # "lane" /\ x[1] = u /\ x[2] = i /\ i # Ex /\ i # Ls2
  BY SpotIs
<1>1. rs'[u][i].busy /\ At(x)' = rs'[u][i] /\ (IsBr(x)' <=> u = "br")
  BY RowSpotThen
<1>2. ASSUME Goes, NEW k \in 1..Size, RowOf(k) = [unit |-> u, row |-> i],
             rs'[u][i] = Entry(k, ByPasses)
      PROVE  \E y \in Spots : From(y, x)
  <2> DEFINE y == <<"lane", k>>
  <2>1. fe.dp /\ ~Wires.mis /\ ~Wires.suc
    BY <1>2, GoFacts
  <2>2. /\ k \in 1..2 /\ y \in Spots /\ Held(y) /\ At(y) = Lane(k)
        /\ IsBr(y) <=> u = "br"
    BY <1>2, <2>1, LaneHeld
  <2>3. /\ rs'[u][i].rrftag = Inc(rrf.reqPtr, k-1)
        /\ rs'[u][i].rdUse = Lane(k).rdUse /\ rs'[u][i].spec = Lane(k).spec
        /\ rs'[u][i].specTag = Lane(k).specTag
    BY <1>2, <2>2, EntryIs
  <2>4. y[1] = "lane" /\ y[2] = k
    OBVIOUS
  <2> HIDE DEF y
  <2>5. Dest(y) = x
    BY <1>2, <2>4 DEF Dest, RowSpotOf
  <2>6. ~Ended(y)
    <3>1. "lane" \notin Units /\ k # Ls2
      BY <2>2 DEF Units, Ls2
    <3> QED BY <2>1, <2>4, <3>1 DEF Ended
  <2>7. Carried(y, x)
    <3>1. TagFor(y) = Inc(rrf.reqPtr, k-1)
      BY <2>4 DEF TagFor
    <3> QED BY <1>1, <2>1, <2>2, <2>3, <3>1 DEF Carried
  <2> QED BY <1>0, <2>2, <2>5, <2>6, <2>7 DEF From
<1>3. ASSUME rs'[u][i] = Cycled(rs[u][i], i, u)
      PROVE  From(x, x) /\ x \in Spots
  <2> DEFINE e == rs[u][i]
             f == Cycled(e, i, u)
  <2>1. IsEntry(e)
    BY DEF Shapes
  <2>2. /\ f.rrftag = e.rrftag /\ f.rdUse = e.rdUse /\ f.specTag = e.specTag
        /\ f.busy <=> e.busy /\ i # Issue(u) /\ ~CheckIsKill(Wires, e)
        /\ f.spec <=> e.spec /\ ~CheckIsSuc(Wires, e)
    BY <2>1, EntryCycled
  <2>3. At(x) = e /\ (Held(x) <=> e.busy) /\ (IsBr(x) <=> u = "br") /\ x \in Spots
    BY RowSpot, SpotIs
  <2>4. At(x)' = f /\ f.busy
    BY <1>1, <1>3
  <2> HIDE DEF e, f
  <2>5. Held(x) /\ i # Issue(u) /\ ~CheckIsKill(Wires, e)
    BY <2>2, <2>3, <2>4
  <2>6. Dest(x) = x
    BY <1>0, <2>5 DEF Dest
  <2>7. ~Ended(x)
    BY <1>0, <2>3, <2>5 DEF Ended
  <2>8. Carried(x, x)
    <3>1. TagFor(x) = e.rrftag
      BY <1>0, <2>3 DEF TagFor
    <3> QED BY <1>1, <2>2, <2>3, <2>4, <3>1 DEF Carried, CheckIsSuc
  <2> QED BY <1>0, <2>3, <2>5, <2>6, <2>7, <2>8 DEF From
<1> QED BY <1>2, <1>3, RowThen

(* The second memory stage is filled from the first one.                    *)
LEMMA FromLs ==
  ASSUME CoreInv, ClockEdge, NEW x, x = <<"ls", Ls2>>, Held(x)'
  PROVE  \E y \in Spots : From(y, x)
<1> USE DEF CoreInv
<1> DEFINE y == <<"ls", Ex>>
<1>1. LsGoes(Wires) /\ ls2'.src = ex["ls"].src
  <2>1. ls2'.full
    BY Ls2SpotThen
  <2> QED BY <2>1, Ls2Then
<1>2. "ls" \in Units
  BY DEF Units
<1>3. y \in Spots /\ (Held(y) <=> ex["ls"].full) /\ At(y) = ex["ls"].src /\ ~IsBr(y)
  BY <1>2, ExSpot, SpotIs
<1>4. At(x)' = ls2'.src /\ ~IsBr(x)'
  BY Ls2SpotThen
<1>5. ex["ls"].full /\ ~CheckIsKill(Wires, ex["ls"].src)
  BY <1>1 DEF LsGoes, LsKilled
<1>6. y[1] = "ls" /\ y[2] = Ex /\ Ex # Ls2 /\ x[1] = "ls"
  BY DEF Ex, Ls2
<1>7. Dest(y) = x
  BY <1>1, <1>6 DEF Dest
<1>8. ~Ended(y)
  BY <1>3, <1>5, <1>6 DEF Ended
<1>9. Carried(y, x)
  <2>1. TagFor(y) = ex["ls"].src.rrftag
    BY <1>3, <1>6 DEF TagFor
  <2> QED BY <1>1, <1>3, <1>4, <2>1 DEF Carried
<1> QED BY <1>3, <1>5, <1>6, <1>7, <1>8, <1>9 DEF From

(* Whatever is somewhere after a cycle has been somewhere before, but for   *)
(* a group that was decoded in it.                                          *)
LEMMA Origin ==
  ASSUME CoreInv, ClockEdge, NEW x \in Spots, Held(x)', ~(Fills /\ x[1] = "lane")
  PROVE  \E y \in Spots : From(y, x)
<1>1. ASSUME NEW k \in 1..2, x = <<"lane", k>>
      PROVE  \E y \in Spots : From(y, x)
  <2>1. x[1] = "lane"
    BY <1>1
  <2>2. From(x, x)
    BY <1>1, <2>1, FromLane
  <2> QED BY <2>2
<1>2. ASSUME NEW u \in Units, x = <<u, Ex>>
      PROVE  \E y \in Spots : From(y, x)
  BY <1>2, FromEx
<1>3. ASSUME NEW u \in Units, NEW i \in 0..(EntNum(u)-1), x = <<u, i>>
      PROVE  \E y \in Spots : From(y, x)
  BY <1>3, FromRow
<1>4. ASSUME x = <<"ls", Ls2>>
      PROVE  \E y \in Spots : From(y, x)
  BY <1>4, FromLs
<1> QED BY <1>1, <1>2, <1>3, <1>4, SpotIs

-----------------------------------------------------------------------------
(* Ages from cycle to cycle.                                                *)
LEMMA HeldAge ==
  ASSUME CoreInv, NEW x \in Spots, Held(x)
  PROVE  /\ AgeAt(x) \in Int /\ AgeAt(x) >= Count /\ AgeAt(x) >= 0
         /\ x[1] = "lane" => /\ x = <<"lane", x[2]>> /\ x[2] \in 1..2 /\ x[2] <= Size /\ fe.dp
                             /\ AgeAt(x) = Waiting + x[2] - 1
                             /\ AgeAt(x) >= Waiting
         /\ x[1] # "lane" => /\ At(x).rrftag \in Ptrs /\ AgeAt(x) = Age(At(x).rrftag)
                             /\ AgeAt(x) < Waiting
                             /\ At(x).rrftag \in InFlight /\ ~rob[At(x).rrftag].wbFin
                             /\ At(x).rdUse = rob[At(x).rrftag].rdUse
<1> USE DEF CoreInv
<1>1. Count \in 0..2 /\ Count <= Waiting
  BY CountFacts
<1>2. Waiting \in 0..RRF_NUM
  BY RingFacts
<1>3. CASE x[1] = "lane"
  <2>1. PICK k \in 1..2 : x = <<"lane", k>>
    <3>1. x = <<x[1], x[2]>> /\ x[2] \in 1..2
      BY <1>3 DEF Spots
    <3> QED BY <1>3, <3>1
  <2>2. fe.dp /\ k <= Size /\ AgeAt(x) = Waiting + k - 1
    BY <2>1, LaneSpot
  <2>3. x[2] = k /\ x = <<"lane", x[2]>>
    BY <2>1
  <2>4. Waiting + k - 1 \in Int /\ Waiting + k - 1 >= Waiting /\ Waiting + k - 1 >= Count
        /\ Waiting + k - 1 >= 0
    BY <1>1, <1>2, RingSize
  <2> QED BY <1>3, <2>2, <2>3, <2>4
<1>4. CASE x[1] # "lane"
  <2> DEFINE p == At(x).rrftag
  <2>1. p \in InFlight /\ ~rob[p].wbFin /\ At(x).rdUse = rob[p].rdUse
    BY <1>4 DEF Sound
  <2>2. p \in Ptrs /\ AgeAt(x) = Age(p)
    BY <1>4, AtFacts DEF AgeAt
  <2>3. Age(p) < Waiting
    BY <2>1 DEF InFlight, Waiting
  <2>4. ~(Age(p) < Count)
    BY <2>1, <2>2, CommittedDone
  <2> HIDE DEF p
  <2>5. Age(p) \in Ptrs
    BY <2>2, AgeIs
  <2>6. Age(p) \in Int /\ Age(p) >= Count /\ Age(p) >= 0
    BY <1>1, <2>4, <2>5, RingSize
  <2> QED BY <1>4, <2>1, <2>2, <2>3, <2>6 DEF p
<1> QED BY <1>3, <1>4

(* The branch in the branch unit is the oldest of all.                      *)
LEMMA BrSpotIs ==
  ASSUME CoreInv, ex["br"].full
  PROVE  /\ BrSpot \in Spots /\ Held(BrSpot) /\ IsBr(BrSpot)
         /\ At(BrSpot).specTag = Wires.tag /\ At(BrSpot).rrftag = Wires.rrftag
         /\ AgeAt(BrSpot) = Age(Wires.rrftag)
         /\ Ended(BrSpot) /\ BrSpot[1] # "lane"
         /\ tg.valid[Wires.tag]
<1> USE DEF CoreInv
<1>1. "br" \in Units
  BY DEF Units
<1>2. /\ BrSpot \in Spots /\ Held(BrSpot) /\ IsBr(BrSpot) /\ At(BrSpot) = ex["br"].src
      /\ AgeAt(BrSpot) = Age(ex["br"].src.rrftag)
  BY <1>1, ExSpot, SpotIs DEF BrSpot
<1>3. Wires.tag = ex["br"].src.specTag /\ Wires.rrftag = ex["br"].src.rrftag
  BY WireFacts
<1>4. Ended(BrSpot) /\ BrSpot[1] # "lane"
  <2>1. BrSpot[1] = "br" /\ BrSpot[2] = Ex
    BY DEF BrSpot
  <2> QED BY <1>1, <2>1 DEF Ended
<1>5. tg.valid[Wires.tag]
  BY <1>2, <1>3 DEF TagsHeld
<1> QED BY <1>2, <1>3, <1>4, <1>5

(* The branch in the branch unit is older than the other branches, and so   *)
(* is its tag.                                                              *)
LEMMA BranchesBehind ==
  ASSUME CoreInv, ex["br"].full, NEW y \in Spots, Held(y), IsBr(y), y # BrSpot
  PROVE  /\ AgeAt(BrSpot) < AgeAt(y)
         /\ Behind(At(y).specTag) < Behind(Wires.tag)
         /\ At(y).specTag # Wires.tag
<1> USE DEF CoreInv
<1>0. /\ BrSpot \in Spots /\ Held(BrSpot) /\ IsBr(BrSpot) /\ BrSpot[1] # "lane"
      /\ At(BrSpot).specTag = Wires.tag /\ At(BrSpot).rrftag = Wires.rrftag
      /\ AgeAt(BrSpot) = Age(Wires.rrftag) /\ tg.valid[Wires.tag]
  BY BrSpotIs
<1>1. AgeAt(BrSpot) < AgeAt(y)
  <2>1. CASE y[1] = "lane"
    <3>1. AgeAt(y) \in Int /\ AgeAt(y) >= Waiting
      BY <2>1, HeldAge
    <3>2. AgeAt(BrSpot) \in Int /\ AgeAt(BrSpot) < Waiting
      BY <1>0, HeldAge
    <3>3. Waiting \in Int
      BY RingFacts, RingSize
    <3> QED BY <3>1, <3>2, <3>3
  <2>2. CASE y[1] # "lane"
    <3>1. y[1] = "br"
      BY <2>2 DEF IsBr
    <3>2. PICK i \in 0..(EntNum("br")-1) : y = <<"br", i>>
      BY <3>1, SpotIs DEF BrSpot
    <3>3. "br" \in Units /\ EntNum("br") = BRANCH_ENT_NUM
      BY StationSize DEF Units
    <3>4. rs["br"][i].busy /\ AgeAt(y) = Age(rs["br"][i].rrftag)
      BY <3>2, <3>3, RowSpot
    <3>5. i \in RowsIn("br") /\ AgeAt(y) = AgesIn("br")[i]
      BY <3>2, <3>3, <3>4 DEF RowsIn, AgesIn
    <3>6. Age(ex["br"].src.rrftag) < AgesIn("br")[i]
      BY <3>5 DEF BrOrder
    <3> QED BY <1>0, <3>5, <3>6, WireFacts
  <2> QED BY <2>1, <2>2
<1>2. /\ Behind(At(y).specTag) <= Behind(Wires.tag)
      /\ Behind(At(y).specTag) # Behind(Wires.tag)
  BY <1>0, <1>1 DEF InTheirOrder
<1>3. Wires.tag \in Tags /\ At(y).specTag \in Tags
  BY AtFacts, WireFacts
<1>4. Behind(At(y).specTag) \in 0..BRANCH_ENT_NUM /\ Behind(Wires.tag) \in 0..BRANCH_ENT_NUM
  BY <1>3, TagFacts
<1> DEFINE a == Behind(At(y).specTag)
           b == Behind(Wires.tag)
<1>5. a \in Int /\ b \in Int /\ a <= b /\ a # b
  BY <1>2, <1>4, TagSize
<1> HIDE DEF a, b
<1>6. a < b
  BY <1>5
<1> QED BY <1>1, <1>2, <1>6 DEF a, b

(* What a mispredict leaves is older than the branch, and no branch.        *)
LEMMA Survivor ==
  ASSUME CoreInv, Wires.mis, NEW y \in Spots, Held(y), ~Ended(y)
  PROVE  y[1] # "lane" /\ AgeAt(y) < Age(Wires.rrftag) /\ ~IsBr(y)
<1> USE DEF CoreInv
<1>0. ex["br"].full
  BY WireFacts
<1>1. /\ BrSpot \in Spots /\ Held(BrSpot) /\ IsBr(BrSpot) /\ BrSpot[1] # "lane"
      /\ At(BrSpot).specTag = Wires.tag /\ At(BrSpot).rrftag = Wires.rrftag
      /\ AgeAt(BrSpot) = Age(Wires.rrftag) /\ tg.valid[Wires.tag] /\ Ended(BrSpot)
  BY <1>0, BrSpotIs
<1>2. y[1] # "lane" /\ ~CheckIsKill(Wires, At(y)) /\ y # BrSpot
  BY <1>1 DEF Ended
<1>3. ~(AgeAt(BrSpot) < AgeAt(y))
  <2>1. SUFFICES ASSUME AgeAt(BrSpot) < AgeAt(y) PROVE FALSE
    OBVIOUS
  <2>2. At(y).spec /\ Behind(At(y).specTag) <= Behind(Wires.tag)
    BY <1>1, <2>1 DEF InTheirOrder
  <2>3. At(y).specTag \in Tags /\ Wires.tag \in Tags
    BY AtFacts, WireFacts
  <2>4. tg.fixTag[Wires.tag] = {u \in Tags : Behind(u) <= Behind(Wires.tag)}
    BY <1>1, <2>3, TagFacts
  <2>5. Wires.fixTag = tg.fixTag[Wires.tag]
    BY WireFacts
  <2> QED BY <1>2, <2>2, <2>3, <2>4, <2>5 DEF CheckIsKill
<1>4. AgeAt(BrSpot) # AgeAt(y)
  BY <1>1, <1>2 DEF Apart
<1>5. AgeAt(BrSpot) \in Int /\ AgeAt(y) \in Int
  BY <1>1, HeldAge
<1>6. AgeAt(y) < AgeAt(BrSpot)
  BY <1>3, <1>4, <1>5
<1>7. ~IsBr(y)
  BY <1>0, <1>2, <1>3, BranchesBehind
<1> QED BY <1>1, <1>2, <1>6, <1>7

(* Everything grows older by what is committed.                             *)
LEMMA AgeFollows ==
  ASSUME CoreInv, ClockEdge, NEW x \in Spots, NEW y \in Spots, From(y, x),
         NEW p, p = TagFor(y)
  PROVE  /\ AgeAt(x)' = AgeAt(y) - Count
         /\ AgeAt(x)' \in Int /\ AgeAt(x)' >= 0
         /\ x[1] # "lane" => /\ p \in Ptrs /\ At(x)'.rrftag = p
                             /\ AgeAt(x)' = Age(p)'
                             /\ AgeAt(x)' < Waiting'
         /\ x[1] = "lane" => AgeAt(x)' >= Waiting'
<1> USE DEF CoreInv
<1>0. Held(y) /\ x = Dest(y) /\ ~Ended(y) /\ Carried(y, x) /\ (x[1] = "lane" => y = x /\ ~Goes)
  BY DEF From
<1>1. /\ RingOk' /\ Count \in 0..2 /\ Took \in 0..2 /\ Count <= Waiting
      /\ comPtr' = Inc(comPtr, Count)
      /\ ~Wires.mis => /\ Waiting' = Waiting - Count + Took
                       /\ Waiting - Count + Took <= RRF_NUM
      /\ Wires.mis => Count = 0 /\ Waiting' = Age(Wires.rrftag) + 1
  BY RingThen
<1>2. Waiting \in 0..RRF_NUM /\ Waiting \in Int
  BY RingFacts, RingSize
<1>3. AgeAt(y) \in Int /\ AgeAt(y) >= Count
  BY <1>0, HeldAge
<1>4. Count \in Int /\ Took \in Int
  BY <1>1
<1>5. CASE x[1] = "lane"
  <2>1. y = x /\ ~Goes
    BY <1>0, <1>5
  <2>2. ~Wires.mis
    BY <1>0, <1>5, <2>1 DEF Ended
  <2>3. Waiting' = Waiting - Count
    BY <1>1, <1>2, <1>4, <2>1, <2>2 DEF Took
  <2>4. x = <<"lane", x[2]>> /\ x[2] \in 1..2 /\ AgeAt(x) = Waiting + x[2] - 1
    BY <1>0, <1>5, <2>1, HeldAge
  <2>5. AgeAt(x)' = Waiting' + x[2] - 1
    BY <1>5 DEF AgeAt
  <2> DEFINE k == x[2]
             a == AgeAt(x)
             b == AgeAt(x)'
             v == Waiting'
             w == Waiting
  <2>6. k \in 1..2 /\ a = w + k - 1 /\ b = v + k - 1 /\ v = w - Count /\ w \in Int
        /\ a >= Count
    BY <1>2, <1>3, <2>1, <2>3, <2>4, <2>5
  <2> HIDE DEF k, a, b, v, w
  <2>7. b = a - Count /\ b \in Int /\ b >= 0 /\ b >= v
    BY <1>4, <2>6
  <2> QED BY <1>5, <2>1, <2>7 DEF a, b, v
<1>6. CASE x[1] # "lane"
  <2>1. At(x)'.rrftag = p
    BY <1>0, <1>6 DEF Carried
  <2>2. AgeAt(x)' = (p - comPtr') % RRF_NUM
    BY <1>6, <2>1 DEF AgeAt, Age
  <2> DEFINE b == AgeAt(x)'
             a == AgeAt(y)
             w == Waiting
             v == Waiting'
  <2>3. CASE y[1] = "lane"
    <3>1. Goes
      BY <1>0, <1>6, <2>3 DEF Dest
    <3>2. ~Wires.mis /\ Took = Size
      BY <3>1, GoFacts DEF Took
    <3>3. y[2] \in 1..2 /\ y[2] <= Size /\ a = w + y[2] - 1
      BY <1>0, <2>3, HeldAge
    <3> DEFINE k == y[2]
               j == k - 1
    <3>4. p = Inc(rrf.reqPtr, j)
      BY <2>3 DEF TagFor
    <3>5. k \in 1..2 /\ k <= Took /\ a = w + k - 1 /\ v = w - Count + Took
          /\ w - Count + Took <= RRF_NUM /\ j = k - 1
      BY <1>1, <3>2, <3>3
    <3>6. RRF_NUM \in Int
      BY RingSize
    <3>7. w \in Int
      BY <1>2
    <3> HIDE DEF k, j, a, w, v
    <3>8. j \in 0..1 /\ w - Count + j < RRF_NUM
      BY <1>4, <3>5, <3>6, <3>7
    <3> PICK c \in 0..2, n \in 0..1 : c = Count /\ n = j
      BY <1>1, <3>8
    <3>9. p \in Ptrs /\ Age(p)' = w - Count + j
      <4>1. c <= Waiting /\ comPtr' = Inc(comPtr, c) /\ RingOk'
        BY <1>1
      <4>2. Waiting - c + n < RRF_NUM /\ p = Inc(rrf.reqPtr, n)
        BY <3>4, <3>8 DEF w
      <4>3. p \in Ptrs /\ Age(p)' = Waiting - c + n
        BY <4>1, <4>2, AgeOfNext
      <4> QED BY <4>3 DEF w
    <3>10. b = w - Count + j
      BY <2>2, <3>9 DEF Age
    <3>11. b = a - Count /\ b \in Int /\ b >= 0 /\ b < v
      <4>1. Count <= w
        BY <1>1 DEF w
      <4> HIDE DEF b
      <4> QED BY <1>4, <3>5, <3>7, <3>10, <4>1
    <3> QED BY <1>6, <2>1, <3>9, <3>10, <3>11 DEF a, v
  <2>4. CASE y[1] # "lane"
    <3>1. p = At(y).rrftag
      BY <2>4 DEF TagFor
    <3>2. p \in Ptrs /\ a = Age(p) /\ a < w
      BY <1>0, <2>4, <3>1, HeldAge
    <3>3. Age(p)' = IF Age(p) >= Count THEN Age(p) - Count ELSE Age(p) - Count + RRF_NUM
      <4> PICK c \in 0..2 : c = Count
        BY <1>1
      <4>1. comPtr' = Inc(comPtr, c) /\ RingOk'
        BY <1>1
      <4>2. Age(p)' = IF Age(p) >= c THEN Age(p) - c ELSE Age(p) - c + RRF_NUM
        BY <3>2, <4>1, AgeMoves
      <4> QED BY <4>2
    <3>4. b = Age(p)'
      BY <2>2 DEF Age
    <3>5. b = a - Count
      BY <1>3, <3>2, <3>3, <3>4
    <3>6. b < v
      <4>1. CASE ~Wires.mis
        <5>1. v = w - Count + Took
          BY <1>1, <4>1
        <5>2. Took >= 0
          BY <1>1
        <5> HIDE DEF a, b, v, w
        <5>3. a \in Int /\ w \in Int
          BY <1>2, <1>3 DEF a, w
        <5> QED BY <1>4, <3>2, <3>5, <5>1, <5>2, <5>3
      <4>2. CASE Wires.mis
        <5>1. a < Age(Wires.rrftag)
          BY <1>0, <4>2, Survivor
        <5>2. v = Age(Wires.rrftag) + 1 /\ Count = 0
          BY <1>1, <4>2
        <5>3. Age(Wires.rrftag) \in Int
          BY WireFacts, AgeIs, RingSize
        <5> HIDE DEF a, b, v, w
        <5>4. a \in Int
          BY <1>3 DEF a
        <5> QED BY <3>5, <5>1, <5>2, <5>3, <5>4
      <4> QED BY <4>1, <4>2
    <3>7. b \in Int /\ b >= 0
      BY <1>3, <1>4, <3>5
    <3> QED BY <1>6, <2>1, <3>2, <3>4, <3>5, <3>6, <3>7
  <2> QED BY <2>3, <2>4
<1> QED BY <1>5, <1>6

-----------------------------------------------------------------------------
(* The entries of the ring in this cycle and the next.                      *)
LEMMA GivenAge ==
  ASSUME CoreInv, ClockEdge, NEW k \in 1..Took, NEW p, p = Inc(rrf.reqPtr, k-1)
  PROVE  /\ ~Wires.mis /\ Goes /\ k \in 1..Size /\ p \in Ptrs /\ Given(p)
         /\ Age(p)' = Waiting - Count + k - 1
         /\ Age(p)' < Waiting' /\ Age(p)' >= Waiting - Count
<1> USE DEF CoreInv
<1>1. /\ RingOk' /\ Count \in 0..2 /\ Took \in 0..2 /\ Count <= Waiting
      /\ comPtr' = Inc(comPtr, Count)
      /\ ~Wires.mis => /\ Waiting' = Waiting - Count + Took
                       /\ Waiting - Count + Took <= RRF_NUM
  BY RingThen
<1>2. Waiting \in 0..RRF_NUM
  BY RingFacts
<1>3. Goes /\ Took = Size
  BY <1>1 DEF Took
<1>4. ~Wires.mis
  BY <1>3, GoFacts
<1> DEFINE w == Waiting
           v == Waiting'
<1>5. w \in Int /\ v = w - Count + Took /\ w - Count + Took <= RRF_NUM /\ RRF_NUM \in Int
  BY <1>1, <1>2, <1>4, RingSize
<1> PICK c \in 0..2 : c = Count
  BY <1>1
<1> PICK n : n = k - 1
  OBVIOUS
<1>6. n \in 0..1 /\ Waiting - c + n < RRF_NUM /\ Waiting - c + n = w - Count + k - 1
  <2> HIDE DEF v
  <2>1. k \in 1..2 /\ k <= Took
    BY <1>1
  <2> QED BY <1>1, <1>5, <2>1
<1>7. c <= Waiting /\ comPtr' = Inc(comPtr, c) /\ RingOk' /\ p = Inc(rrf.reqPtr, n)
  BY <1>1
<1>8. p \in Ptrs /\ Age(p)' = Waiting - c + n
  BY <1>6, <1>7, AgeOfNext
<1> DEFINE a == Age(p)'
<1>9. a = w - Count + k - 1
  BY <1>6, <1>8
<1> HIDE DEF a, v, w
<1>10. a < v /\ a >= w - Count
  <2>1. k \in 1..2 /\ k <= Took
    BY <1>1
  <2> QED BY <1>1, <1>5, <1>9, <2>1
<1>11. Given(p)
  BY DEF Given
<1> QED BY <1>3, <1>4, <1>8, <1>9, <1>10, <1>11 DEF a, v, w

(* An entry that does not commit goes on.                                   *)
LEMMA KeptEntry ==
  ASSUME CoreInv, ClockEdge, NEW p \in Ptrs, Age(p) < Waiting, Age(p) >= Count
  PROVE  /\ ~Given(p) /\ Age(p)' = Age(p) - Count
         /\ ~Wires.mis \/ Age(p) <= Age(Wires.rrftag) => Age(p)' < Waiting'
<1> USE DEF CoreInv
<1>1. /\ RingOk' /\ Count \in 0..2 /\ Took \in 0..2 /\ Count <= Waiting
      /\ comPtr' = Inc(comPtr, Count)
      /\ ~Wires.mis => /\ Waiting' = Waiting - Count + Took
                       /\ Waiting - Count + Took <= RRF_NUM
      /\ Wires.mis => Count = 0 /\ Waiting' = Age(Wires.rrftag) + 1
  BY RingThen
<1>2. Waiting \in 0..RRF_NUM
  BY RingFacts
<1> PICK c \in 0..2 : c = Count
  BY <1>1
<1>3. Age(p)' = Age(p) - Count
  <2>1. comPtr' = Inc(comPtr, c) /\ RingOk'
    BY <1>1
  <2>2. Age(p)' = IF Age(p) >= c THEN Age(p) - c ELSE Age(p) - c + RRF_NUM
    BY <2>1, AgeMoves
  <2> QED BY <2>2
<1>4. Age(p) \in Int
  BY AgeIs, RingSize
<1> DEFINE w == Waiting
           v == Waiting'
           a == Age(p)
           b == Age(p)'
           r == Age(Wires.rrftag)
<1>5. w \in Int /\ a \in Int /\ a < w /\ b = a - c /\ (~Wires.mis => v = w - c + Took)
      /\ (Wires.mis => c = 0 /\ v = r + 1)
  BY <1>1, <1>2, <1>3, <1>4, RingSize
<1>6. r \in Int
  BY WireFacts, AgeIs, RingSize
<1>7. ~Given(p)
  <2>1. SUFFICES ASSUME NEW k \in 1..Took, p = Inc(rrf.reqPtr, k-1) PROVE FALSE
    BY DEF Given
  <2>2. b >= w - c
    BY <2>1, GivenAge
  <2> HIDE DEF w, v, a, b, r
  <2> QED BY <1>5, <2>2
<1>8. ~Wires.mis \/ a <= r => b < v
  <2> HIDE DEF w, v, a, b, r
  <2>1. CASE ~Wires.mis
    <3>1. Took >= 0 /\ Took \in Int
      BY <1>1
    <3> QED BY <1>5, <2>1, <3>1
  <2>2. CASE Wires.mis
    BY <1>5, <1>6, <2>2
  <2> QED BY <2>1, <2>2
<1> QED BY <1>3, <1>7, <1>8

(* An entry that is in flight after a cycle and was not given in it was in  *)
(* flight.                                                                  *)
LEMMA EntryBefore ==
  ASSUME CoreInv, ClockEdge, NEW p \in Ptrs, Age(p)' < Waiting', ~Given(p)
  PROVE  /\ Age(p) < Waiting /\ Age(p) >= Count
         /\ Wires.mis => Age(p) <= Age(Wires.rrftag)
<1> USE DEF CoreInv
<1>1. /\ RingOk' /\ Count \in 0..2 /\ Took \in 0..2 /\ Count <= Waiting
      /\ comPtr' = Inc(comPtr, Count)
      /\ ~Wires.mis => /\ Waiting' = Waiting - Count + Took
                       /\ Waiting - Count + Took <= RRF_NUM
      /\ Wires.mis => /\ Count = 0 /\ Waiting' = Age(Wires.rrftag) + 1
                      /\ Age(Wires.rrftag) < Waiting
  BY RingThen
<1>2. Waiting \in 0..RRF_NUM
  BY RingFacts
<1> PICK c \in 0..2 : c = Count
  BY <1>1
<1>3. Age(p)' = IF Age(p) >= c THEN Age(p) - c ELSE Age(p) - c + RRF_NUM
  <2>1. comPtr' = Inc(comPtr, c) /\ RingOk'
    BY <1>1
  <2> QED BY <2>1, AgeMoves
<1>4. Age(p) \in Ptrs
  BY AgeIs
<1> DEFINE w == Waiting
           v == Waiting'
           a == Age(p)
           b == Age(p)'
           r == Age(Wires.rrftag)
<1>5. w \in Int /\ a \in Int /\ a >= 0 /\ a < RRF_NUM /\ RRF_NUM \in Int /\ w <= RRF_NUM
      /\ b = (IF a >= c THEN a - c ELSE a - c + RRF_NUM)
      /\ (~Wires.mis => v = w - c + Took /\ w - c + Took <= RRF_NUM)
      /\ (Wires.mis => c = 0 /\ v = r + 1 /\ r < w) /\ b < v /\ c <= w
  BY <1>1, <1>2, <1>3, <1>4, RingSize
<1>6. r \in Int
  BY WireFacts, AgeIs, RingSize
<1>7. Wires.mis => a < w /\ a >= c /\ a <= r
  <2> HIDE DEF w, v, a, b, r
  <2> QED BY <1>5, <1>6
<1>8. ~Wires.mis => b < w - c
  <2> SUFFICES ASSUME ~Wires.mis, ~(b < w - c) PROVE FALSE
    OBVIOUS
  <2> PICK k : k = b - (w - c) + 1
    OBVIOUS
  <2>1. k \in 1..Took /\ b = w - c + k - 1
    <3> HIDE DEF w, v, a, b, r
    <3>1. b \in Int /\ w \in Int /\ b >= w - c /\ b < w - c + Took /\ c \in Int /\ Took \in Int
      BY <1>1, <1>5
    <3> QED BY <3>1
  <2> PICK q : q = Inc(rrf.reqPtr, k-1)
    OBVIOUS
  <2>2. q \in Ptrs /\ Given(q) /\ Age(q)' = Waiting - Count + k - 1
    BY <2>1, GivenAge
  <2>3. Age(q)' = Age(p)'
    BY <2>1, <2>2
  <2>4. p = q
    <3>1. Age(q)' = Gap(comPtr', q) /\ Age(p)' = Gap(comPtr', p)
      BY <1>1, <2>2, AgeIsThen
    <3>2. comPtr' \in Ptrs
      BY <1>1 DEF RingOk, Ring!Accounts, Ring!Ptrs, Ptrs
    <3>3. Gap(comPtr', q) = Gap(comPtr', p)
      BY <2>3, <3>1
    <3> QED BY <2>2, <3>2, <3>3, RingSize DEF Gap
  <2> QED BY <2>2, <2>4
<1>9. ~Wires.mis => a < w /\ a >= c
  <2> HIDE DEF w, v, a, b, r
  <2> QED BY <1>5, <1>8
<1> QED BY <1>7, <1>9

(* What is in flight, by age.                                               *)
LEMMA InFlightIs ==
  /\ InFlight = {p \in Ptrs : Age(p) < Waiting}
  /\ InFlight' = {p \in Ptrs : Age(p)' < Waiting'}
  BY DEF InFlight, Waiting, Age

-----------------------------------------------------------------------------
(* Where the instructions are after a cycle.                                *)
LEMMA Finishes ==
  ASSUME CoreInv, NEW p \in WrittenBack
  PROVE  /\ \E z \in Spots : /\ Held(z) /\ Ended(z) /\ z[1] # "lane"
                             /\ At(z).rrftag = p
         /\ p \in Ptrs /\ (rob[p].rdUse => Served(ByPasses, p))
<1> USE DEF CoreInv
<1>1. ASSUME NEW u \in Units \ {"ls"}, ex[u].full, p = ex[u].src.rrftag
      PROVE  /\ \E z \in Spots : /\ Held(z) /\ Ended(z) /\ z[1] # "lane"
                                 /\ At(z).rrftag = p
             /\ p \in Ptrs /\ (rob[p].rdUse => Served(ByPasses, p))
  <2> DEFINE z == <<u, Ex>>
  <2>1. z \in Spots /\ Held(z) /\ At(z) = ex[u].src /\ z[1] # "lane"
    BY <1>1, SpotIs, ExSpot
  <2>2. Ended(z)
    BY DEF Ended
  <2>3. p \in Ptrs /\ ex[u].src.rdUse = rob[p].rdUse
    BY <1>1, <2>1, HeldAge
  <2>4. ex[u].src.rdUse => Served(ByPasses, p)
    <3> SUFFICES ASSUME ex[u].src.rdUse PROVE Served(ByPasses, p)
      OBVIOUS
    <3> DEFINE b == [tag |-> ex[u].src.rrftag, val |-> Result(u)]
    <3>1. b \in ByPasses
      BY <1>1 DEF ByPasses, Finishing
    <3>2. b.tag = p
      BY <1>1
    <3> QED BY <3>1, <3>2 DEF Served
  <2> QED BY <1>1, <2>1, <2>2, <2>3, <2>4
<1>2. ASSUME ls2.full, p = ls2.src.rrftag
      PROVE  /\ \E z \in Spots : /\ Held(z) /\ Ended(z) /\ z[1] # "lane"
                                 /\ At(z).rrftag = p
             /\ p \in Ptrs /\ (rob[p].rdUse => Served(ByPasses, p))
  <2> DEFINE z == <<"ls", Ls2>>
  <2>1. z \in Spots /\ Held(z) /\ At(z) = ls2.src /\ z[1] # "lane"
    BY <1>2, SpotIs, Ls2Spot
  <2>2. Ended(z)
    BY DEF Ended
  <2>3. p \in Ptrs /\ ls2.src.rdUse = rob[p].rdUse
    BY <1>2, <2>1, HeldAge
  <2>4. ls2.src.rdUse => Served(ByPasses, p)
    <3> SUFFICES ASSUME ls2.src.rdUse PROVE Served(ByPasses, p)
      OBVIOUS
    <3> DEFINE b == [tag |-> ls2.src.rrftag, val |-> ResolvedData]
    <3>1. b \in ByPasses
      BY <1>2 DEF ByPasses
    <3>2. b.tag = p
      BY <1>2
    <3> QED BY <3>1, <3>2 DEF Served
  <2> QED BY <1>2, <2>1, <2>2, <2>3, <2>4
<1>3. \/ \E u \in Units \ {"ls"} : ex[u].full /\ p = ex[u].src.rrftag
      \/ ls2.full /\ p = ls2.src.rrftag
  BY DEF WrittenBack, Finishing
<1> QED BY <1>1, <1>2, <1>3

(* What does not end in this cycle writes no result back.                   *)
LEMMA NotFinished ==
  ASSUME CoreInv, NEW y \in Spots, Held(y), y[1] # "lane", ~Ended(y)
  PROVE  At(y).rrftag \notin WrittenBack
<1>1. SUFFICES ASSUME At(y).rrftag \in WrittenBack PROVE FALSE
  OBVIOUS
<1>2. PICK z \in Spots : Held(z) /\ Ended(z) /\ z[1] # "lane" /\ At(z).rrftag = At(y).rrftag
  BY <1>1, Finishes
<1>3. AgeAt(z) = AgeAt(y)
  BY <1>2, HeldAge
<1>4. z = y
  BY <1>2, <1>3 DEF CoreInv, Apart
<1> QED BY <1>2, <1>4

(* A lane that leaves gets the entry that reqPtr counts for it.             *)
LEMMA DestOfLane ==
  ASSUME CoreInv, NEW y \in Spots, Held(y), y[1] = "lane", NEW x, x = Dest(y), x[1] # "lane"
  PROVE  /\ Goes /\ Took = Size /\ y[2] \in 1..Took /\ y[2] \in 1..2 /\ At(y) = Lane(y[2])
         /\ TagFor(y) = Inc(rrf.reqPtr, y[2]-1)
<1>1. Goes
  BY DEF Dest
<1>2. y = <<"lane", y[2]>> /\ y[2] \in 1..2 /\ y[2] <= Size
  BY HeldAge
<1>3. At(y) = Lane(y[2])
  BY <1>2 DEF At
<1>4. Took = Size /\ Size \in {1, 2}
  BY <1>1 DEF Took, Size
<1>5. TagFor(y) = Inc(rrf.reqPtr, y[2]-1)
  BY DEF TagFor
<1>6. y[2] \in 1..Took
  BY <1>2, <1>4
<1> QED BY <1>1, <1>2, <1>3, <1>4, <1>5, <1>6

(* A cycle leaves what is in a station or unit in the ring, without a       *)
(* result.                                                                  *)
LEMMA SoundKept ==
  ASSUME CoreInv, ClockEdge
  PROVE  Sound'
<1> USE DEF CoreInv
<1>0. ASSUME NEW x \in Spots, Held(x)', x[1] # "lane", NEW p, p = At(x)'.rrftag
      PROVE  p \in InFlight' /\ ~rob'[p].wbFin /\ At(x)'.rdUse = rob'[p].rdUse
  <2>1. PICK y \in Spots : From(y, x)
    BY <1>0, Origin
  <2> PICK q : q = TagFor(y)
    OBVIOUS
  <2>2. q \in Ptrs /\ p = q /\ AgeAt(x)' = Age(q)' /\ AgeAt(x)' < Waiting'
    BY <1>0, <2>1, AgeFollows
  <2>3. p \in InFlight'
    BY <2>2, InFlightIs
  <2>4. Held(y) /\ x = Dest(y) /\ ~Ended(y) /\ Carried(y, x)
    BY <2>1 DEF From
  <2>5. At(x)'.rdUse = At(y).rdUse
    BY <2>4 DEF Carried
  <2>6. CASE y[1] = "lane"
    <3>1. /\ y[2] \in 1..Took /\ y[2] \in 1..2 /\ At(y) = Lane(y[2])
          /\ q = Inc(rrf.reqPtr, y[2]-1)
      BY <1>0, <2>4, <2>6, DestOfLane
    <3>2. rob'[p] = RobEntry(y[2])
      BY <2>2, <3>1, RobThen
    <3> QED BY <2>3, <2>5, <3>1, <3>2, RobEntryIs
  <2>7. CASE y[1] # "lane"
    <3>1. q = At(y).rrftag
      BY <2>7 DEF TagFor
    <3>2. AgeAt(y) = Age(q) /\ Age(q) < Waiting /\ Age(q) >= Count
          /\ ~rob[q].wbFin /\ At(y).rdUse = rob[q].rdUse
      BY <2>4, <2>7, <3>1, HeldAge
    <3>3. ~Given(q)
      BY <2>2, <3>2, KeptEntry
    <3>4. q \notin WrittenBack
      BY <2>4, <2>7, <3>1, NotFinished
    <3>5. ~rob'[q].wbFin /\ rob'[q].rdUse = rob[q].rdUse
      BY <2>2, <3>2, <3>3, <3>4, RobThen
    <3> QED BY <2>2, <2>3, <2>5, <3>2, <3>5
  <2> QED BY <2>6, <2>7
<1> QED BY <1>0 DEF Sound

(* Arithmetic.                                                              *)
LEMMA SameDifference ==
  ASSUME NEW a \in Int, NEW b \in Int, NEW c \in Int, a - c = b - c PROVE a = b
  OBVIOUS

(* Arithmetic.                                                              *)
LEMMA SameSum ==
  ASSUME NEW a \in Int, NEW b \in Int, NEW c \in Int, c + a - 1 = c + b - 1 PROVE a = b
  OBVIOUS

(* Arithmetic.                                                              *)
LEMMA SmallerDifference ==
  ASSUME NEW a \in Int, NEW b \in Int, NEW c \in Int, a - c < b - c PROVE a < b
  OBVIOUS

(* The number in flight after a cycle is a number.                          *)
LEMMA WaitingThen ==
  ASSUME CoreInv, ClockEdge PROVE Waiting' \in Int
<1>1. RingOk'
  BY RingThen
<1>2. rrf'.reqPtr \in Ptrs /\ comPtr' \in Ptrs
  BY <1>1 DEF RingOk, Ring!Accounts, Ring!Ptrs, Ptrs
<1> QED BY <1>2, RingSize DEF Waiting, Rem

(* After a cycle there are still no two instructions with one age.          *)
LEMMA ApartKept ==
  ASSUME CoreInv, ClockEdge
  PROVE  Apart'
<1> USE DEF CoreInv
<1>1. SUFFICES ASSUME NEW x1 \in Spots, NEW x2 \in Spots, Held(x1)', Held(x2)',
                      AgeAt(x1)' = AgeAt(x2)'
               PROVE  x1 = x2
  BY DEF Apart
<1>2. ASSUME ~(Fills /\ x1[1] = "lane"), ~(Fills /\ x2[1] = "lane")
      PROVE  x1 = x2
  <2>1. PICK y1 \in Spots : From(y1, x1)
    BY <1>1, <1>2, Origin
  <2>2. PICK y2 \in Spots : From(y2, x2)
    BY <1>1, <1>2, Origin
  <2> PICK p1, p2 : p1 = TagFor(y1) /\ p2 = TagFor(y2)
    OBVIOUS
  <2>3. AgeAt(x1)' = AgeAt(y1) - Count /\ AgeAt(x2)' = AgeAt(y2) - Count
    BY <2>1, <2>2, AgeFollows
  <2>4. Held(y1) /\ Held(y2) /\ x1 = Dest(y1) /\ x2 = Dest(y2)
    BY <2>1, <2>2 DEF From
  <2>5. AgeAt(y1) = AgeAt(y2)
    <3>1. AgeAt(y1) \in Int /\ AgeAt(y2) \in Int /\ Count \in Int
      BY <2>4, HeldAge, RingThen
    <3>2. AgeAt(y1) - Count = AgeAt(y2) - Count
      BY <1>1, <2>3
    <3> QED BY <3>1, <3>2, SameDifference
  <2>6. y1 = y2
    BY <2>4, <2>5 DEF Apart
  <2> QED BY <2>4, <2>6
<1>3. ASSUME NEW x \in Spots, NEW z \in Spots, Fills, x[1] = "lane", z[1] # "lane",
             Held(x)', Held(z)'
      PROVE  AgeAt(x)' # AgeAt(z)'
  <2>1. PICK y \in Spots : From(y, z)
    BY <1>3, Origin
  <2> PICK p : p = TagFor(y)
    OBVIOUS
  <2>2. AgeAt(z)' < Waiting' /\ AgeAt(z)' \in Int
    BY <1>3, <2>1, AgeFollows
  <2>3. AgeAt(x)' = Waiting' + x[2] - 1 /\ x[2] \in 1..2
    BY <1>3 DEF AgeAt, Spots
  <2>4. Waiting' \in Int
    <3>1. RingOk'
      BY RingThen
    <3>2. rrf'.reqPtr \in Ptrs /\ comPtr' \in Ptrs
      BY <3>1 DEF RingOk, Ring!Accounts, Ring!Ptrs, Ptrs
    <3> QED BY <3>2, RingSize DEF Waiting, Rem
  <2> QED BY <2>2, <2>3, <2>4
<1>4. CASE x1[1] = "lane" /\ x2[1] = "lane" /\ Fills
  <2>1. AgeAt(x1)' = Waiting' + x1[2] - 1 /\ x1[2] \in 1..2 /\ x1 = <<"lane", x1[2]>>
    BY <1>4 DEF AgeAt, Spots
  <2>2. AgeAt(x2)' = Waiting' + x2[2] - 1 /\ x2[2] \in 1..2 /\ x2 = <<"lane", x2[2]>>
    BY <1>4 DEF AgeAt, Spots
  <2>3. Waiting' \in Int
    <3>1. RingOk'
      BY RingThen
    <3>2. rrf'.reqPtr \in Ptrs /\ comPtr' \in Ptrs
      BY <3>1 DEF RingOk, Ring!Accounts, Ring!Ptrs, Ptrs
    <3> QED BY <3>2, RingSize DEF Waiting, Rem
  <2>4. x1[2] = x2[2]
    <3>1. Waiting' + x1[2] - 1 = Waiting' + x2[2] - 1
      BY <1>1, <2>1, <2>2
    <3>2. x1[2] \in Int /\ x2[2] \in Int
      BY <2>1, <2>2
    <3> QED BY <2>3, <3>1, <3>2, SameSum
  <2> QED BY <2>1, <2>2, <2>4
<1> QED BY <1>1, <1>2, <1>3, <1>4

-----------------------------------------------------------------------------
(* The tags of a group that is decoded, and those of the branches before it. *)
LEMMA TagAfterFacts ==
  ASSUME NEW r \in Tags
  PROVE  /\ TagAfter(r) \in Tags
         /\ TagAfter(r) = IF r = BRANCH_ENT_NUM THEN 0 ELSE r + 1
<1> QED BY TagSize DEF TagAfter

(* The tags after a group was decoded.                                      *)
LEMMA BehindAfter ==
  ASSUME TagsOk, NEW b1 \in BOOLEAN, NEW b2 \in BOOLEAN,
         IsAllGenble(tg, b1, b2), tg' = Allocate(tg, b1, b2), NEW t \in Tags
  PROVE  /\ tg.valid[t] => Behind(t)' = Behind(t) + Bit(b1) + Bit(b2)
         /\ t = GenTag1(tg, b1) => Behind(t)' = Bit(b2) /\ (b1 => ~tg.valid[t])
         /\ t = GenTag2(tg, b1, b2) => Behind(t)' = 0 /\ (b2 => ~tg.valid[t])
         /\ tg'.valid[t] <=> \/ tg.valid[t]
                             \/ b1 /\ t = GenTag1(tg, b1)
                             \/ b2 /\ t = GenTag2(tg, b1, b2)
<1> DEFINE r == tg.tagreg
           t1 == GenTag1(tg, b1)
           t2 == GenTag2(tg, b1, b2)
           a == AddNew(tg, b1, b2)
           N == BRANCH_ENT_NUM
<1>1. tg \in Tagging!TagType
  BY DEF TagsOk, Tagging!TagsRight
<1>2. DOMAIN tg = {"brdepth", "tagreg", "valid", "fixTag"}
      /\ DOMAIN tg.valid = Tags /\ r \in Tags
  BY <1>1 DEF Tagging!TagType, Tagging!Tags, Tags, Tagging!SPECTAG_LEN, SPECTAG_LEN
<1>3. /\ a.valid = [u \in Tags |-> tg.valid[u] \/ (b1 /\ u = t1) \/ (b2 /\ u = t2)]
      /\ DOMAIN a = {"brdepth", "tagreg", "valid", "fixTag"}
  <2> DEFINE new == (IF b1 THEN {t1} ELSE {}) \cup (IF b2 THEN {t2} ELSE {})
             vs == [u \in Tags |-> tg.valid[u] \/ u \in new]
             fs == [u \in Tags |->
                      IF tg.valid[u] THEN tg.fixTag[u] \cup new
                      ELSE IF b2 /\ u = t2 THEN {t2}
                      ELSE IF b1 /\ u = t1 THEN new ELSE tg.fixTag[u]]
  <2>1. a = [tg EXCEPT !.valid = vs, !.fixTag = fs]
    BY DEF AddNew
  <2>2. vs = [u \in Tags |-> tg.valid[u] \/ (b1 /\ u = t1) \/ (b2 /\ u = t2)]
    BY DEF t1, t2
  <2> HIDE DEF a, vs, fs
  <2>3. a.valid = vs /\ DOMAIN a = DOMAIN tg
    BY <1>2, <2>1
  <2> QED BY <1>2, <2>2, <2>3
<1>4. tg'.tagreg = t2 /\ tg'.valid = a.valid
  <2> DEFINE d == a.brdepth + Bit(b1) + Bit(b2)
  <2>1. tg' = [a EXCEPT !.tagreg = t2, !.brdepth = d]
    BY DEF Allocate
  <2> HIDE DEF a, t2, d
  <2> QED BY <1>3, <2>1
<1>5. N \in Nat \ {0} /\ Tags = 0..N /\ SPECTAG_LEN = N + 1
  BY TagSize
<1>6. t1 = (IF b1 THEN TagAfter(r) ELSE r) /\ t2 = (IF b2 THEN TagAfter(t1) ELSE t1)
  BY DEF GenTag1, GenTag2
<1>7. t1 \in Tags /\ t2 \in Tags
  <2> HIDE DEF t1, t2, r
  <2> QED BY <1>2, <1>6, TagAfterFacts
<1>8. /\ t1 = (IF b1 THEN IF r = N THEN 0 ELSE r + 1 ELSE r)
      /\ t2 = (IF b2 THEN IF t1 = N THEN 0 ELSE t1 + 1 ELSE t1)
  <2> HIDE DEF t1, t2, r
  <2> QED BY <1>2, <1>6, <1>7, TagAfterFacts
<1> DEFINE m == Behind(t)
           n == Behind(t)'
<1>9. /\ m = (IF t <= r THEN r - t ELSE r - t + N + 1)
      /\ n = (IF t <= t2 THEN t2 - t ELSE t2 - t + N + 1)
  <2>1. n = IF t <= tg'.tagreg THEN tg'.tagreg - t ELSE tg'.tagreg - t + SPECTAG_LEN
    BY DEF Behind, Tagging!Behind, Tagging!SPECTAG_LEN, SPECTAG_LEN
  <2>2. m = IF t <= r THEN r - t ELSE r - t + SPECTAG_LEN
    BY DEF Behind, Tagging!Behind, Tagging!SPECTAG_LEN, SPECTAG_LEN
  <2>3. r \in Int /\ t \in Int /\ t2 \in Int
    BY <1>2, <1>5, <1>7
  <2> HIDE DEF m, n, r, t2
  <2> QED BY <1>4, <1>5, <2>1, <2>2, <2>3
<1>10. /\ tg.valid[t] <=> m < tg.brdepth
       /\ tg.brdepth \in 0..N
       /\ tg.brdepth + Bit(b1) + Bit(b2) <= N
  BY TagFacts DEF IsAllGenble
<1>11. tg'.valid[t] <=> tg.valid[t] \/ (b1 /\ t = t1) \/ (b2 /\ t = t2)
  <2> HIDE DEF t1, t2, a
  <2> QED BY <1>3, <1>4
<1> DEFINE d == tg.brdepth
           vd == tg.valid[t]
<1>12. /\ vd => n = m + Bit(b1) + Bit(b2)
       /\ t = t1 => n = Bit(b2) /\ (b1 => ~vd)
       /\ t = t2 => n = 0 /\ (b2 => ~vd)
  <2> HIDE DEF t1, t2, a, m, n, d, r, N, vd
  <2>1. /\ d \in Int /\ 0 <= d /\ d <= N /\ d + Bit(b1) + Bit(b2) <= N
        /\ N \in Int /\ N >= 1 /\ t \in Int /\ 0 <= t /\ t <= N
        /\ r \in Int /\ 0 <= r /\ r <= N
        /\ t1 \in Int /\ t2 \in Int
        /\ 0 <= t1 /\ t1 <= N /\ 0 <= t2 /\ t2 <= N
    BY <1>2, <1>5, <1>7, <1>10 DEF d, N
  <2>2. vd <=> m < d
    BY <1>10 DEF d, vd
  <2>3. CASE b1 /\ b2
    BY <1>8, <1>9, <2>1, <2>2, <2>3 DEF Bit
  <2>4. CASE b1 /\ ~b2
    BY <1>8, <1>9, <2>1, <2>2, <2>4 DEF Bit
  <2>5. CASE ~b1 /\ b2
    BY <1>8, <1>9, <2>1, <2>2, <2>5 DEF Bit
  <2>6. CASE ~b1 /\ ~b2
    BY <1>8, <1>9, <2>1, <2>2, <2>6 DEF Bit
  <2> QED BY <2>3, <2>4, <2>5, <2>6
<1> QED BY <1>11, <1>12

(* What becomes of the tags in a cycle.                                     *)
LEMMA TagSteps ==
  ASSUME CoreInv, ClockEdge
  PROVE  /\ Wires.mis => tg' = TagMisPred(tg, Wires.tag)
         /\ Wires.suc => tg' = TagSucPred(tg, Wires.tag)
         /\ Fills => /\ tg' = Allocate(tg, Dcw1.isBranch, Dcw2.isBranch)
                     /\ IsAllGenble(tg, Dcw1.isBranch, Dcw2.isBranch)
                     /\ Dcw1.isBranch \in BOOLEAN /\ Dcw2.isBranch \in BOOLEAN
         /\ ~Wires.mis /\ ~Wires.suc /\ ~Fills => tg' = tg
<1>1. tg' = NextTg
  BY Edge
<1>2. ~(Wires.mis /\ Wires.suc)
  BY WireFacts DEF CoreInv
<1>3. Fills => /\ ~Wires.mis /\ ~Wires.suc
               /\ IsAllGenble(tg, Dcw1.isBranch, Dcw2.isBranch)
  BY FillFacts
<1>4. Dcw1.isBranch \in BOOLEAN /\ Dcw2.isBranch \in BOOLEAN
  BY DcwFacts DEF CoreInv
<1> QED BY <1>1, <1>2, <1>3, <1>4 DEF NextTg

(* The tags when nothing is decoded.                                        *)
LEMMA BehindKept ==
  ASSUME CoreInv, ClockEdge, ~Wires.mis, ~Fills, NEW t \in Tags
  PROVE  /\ Behind(t)' = Behind(t)
         /\ tg'.valid[t] <=> tg.valid[t] /\ ~(Wires.suc /\ t = Wires.tag)
<1>1. tg \in Tagging!TagType
  BY DEF CoreInv, TagsOk, Tagging!TagsRight
<1>2. DOMAIN tg = {"brdepth", "tagreg", "valid", "fixTag"} /\ DOMAIN tg.valid = Tags
      /\ tg.valid \in [Tags -> BOOLEAN]
  BY <1>1 DEF Tagging!TagType, Tagging!Tags, Tags, Tagging!SPECTAG_LEN, SPECTAG_LEN
<1>3. CASE ~Wires.suc
  <2>1. tg' = tg
    BY <1>3, TagSteps
  <2> QED BY <1>3, <2>1 DEF Behind, Tagging!Behind
<1>4. CASE Wires.suc
  <2>1. tg' = TagSucPred(tg, Wires.tag)
    BY <1>4, TagSteps
  <2> DEFINE w == Wires.tag
             d == tg.brdepth - 1
             fs == [u \in Tags |-> IF u = w THEN {} ELSE tg.fixTag[u] \ {w}]
  <2>2. tg' = [tg EXCEPT !.brdepth = d, !.valid[w] = FALSE, !.fixTag = fs]
    BY <2>1 DEF TagSucPred
  <2>3. w \in Tags
    BY WireFacts DEF CoreInv
  <2> HIDE DEF w, d, fs
  <2>4. tg'.tagreg = tg.tagreg /\ tg'.valid = [tg.valid EXCEPT ![w] = FALSE]
    BY <1>2, <2>2
  <2>5. tg'.valid[t] <=> tg.valid[t] /\ t # w
    BY <1>2, <2>3, <2>4
  <2> QED BY <1>4, <2>4, <2>5 DEF Behind, Tagging!Behind, w
<1> QED BY <1>3, <1>4

(* A branch that is somewhere has a tag in use, so there is a branch.       *)
LEMMA BranchTag ==
  ASSUME CoreInv, NEW y \in Spots, Held(y), IsBr(y)
  PROVE  /\ At(y).specTag \in Tags /\ tg.valid[At(y).specTag]
         /\ Behind(At(y).specTag) \in Int
         /\ Behind(At(y).specTag) < tg.brdepth /\ tg.brdepth # 0
<1>1. At(y).specTag \in Tags
  BY AtFacts DEF CoreInv
<1>2. tg.valid[At(y).specTag]
  BY DEF CoreInv, TagsHeld
<1>3. /\ Behind(At(y).specTag) \in 0..BRANCH_ENT_NUM
      /\ Behind(At(y).specTag) < tg.brdepth
  BY <1>1, <1>2, TagFacts DEF CoreInv
<1> QED BY <1>1, <1>2, <1>3, TagSize

(* After a cycle what is behind a branch still says so.                     *)
LEMMA InTheirOrderKept ==
  ASSUME CoreInv, ClockEdge
  PROVE  InTheirOrder'
<1> DEFINE b1 == Dcw1.isBranch
           b2 == Dcw2.isBranch
<1>1. SUFFICES ASSUME NEW x \in Spots, NEW y \in Spots, Held(x)', IsBr(x)', Held(y)',
                      AgeAt(x)' < AgeAt(y)'
               PROVE  /\ At(y)'.spec
                      /\ Behind(At(y).specTag)' <= Behind(At(x).specTag)'
                      /\ IsBr(y)' => Behind(At(y).specTag)' # Behind(At(x).specTag)'
  BY DEF InTheirOrder
<1> PICK tx, ty : tx = At(x)'.specTag /\ ty = At(y)'.specTag
  OBVIOUS
<1>2. SUFFICES /\ At(y)'.spec
               /\ Behind(ty)' <= Behind(tx)'
               /\ IsBr(y)' => Behind(ty)' # Behind(tx)'
  OBVIOUS
<1>3. CASE ~(Fills /\ x[1] = "lane") /\ ~(Fills /\ y[1] = "lane")
  <2>1. PICK x0 \in Spots : From(x0, x)
    BY <1>1, <1>3, Origin
  <2>2. PICK y0 \in Spots : From(y0, y)
    BY <1>1, <1>3, Origin
  <2>3. /\ Held(x0) /\ ~Ended(x0) /\ IsBr(x0) /\ At(x0).specTag = tx
        /\ Held(y0) /\ ~Ended(y0) /\ At(y0).specTag = ty
        /\ IsBr(y)' <=> IsBr(y0)
        /\ At(y0).spec /\ ~(Wires.suc /\ ty = Wires.tag) => At(y)'.spec
    BY <1>1, <2>1, <2>2 DEF From, Carried
  <2>4. ~Wires.mis
    BY <2>3, Survivor
  <2> PICK px, py : px = TagFor(x0) /\ py = TagFor(y0)
    OBVIOUS
  <2>5. AgeAt(x0) < AgeAt(y0)
    <3>1. AgeAt(x)' = AgeAt(x0) - Count /\ AgeAt(y)' = AgeAt(y0) - Count
      BY <2>1, <2>2, AgeFollows
    <3>2. AgeAt(x0) \in Int /\ AgeAt(y0) \in Int /\ Count \in Int
      BY <2>3, HeldAge, RingThen
    <3>3. AgeAt(x0) - Count < AgeAt(y0) - Count
      BY <1>1, <3>1
    <3> QED BY <3>2, <3>3, SmallerDifference
  <2>6. At(y0).spec /\ Behind(ty) <= Behind(tx) /\ (IsBr(y0) => Behind(ty) # Behind(tx))
    BY <2>3, <2>5 DEF CoreInv, InTheirOrder
  <2>7. /\ tx \in Tags /\ tg.valid[tx] /\ Behind(tx) \in Int /\ Behind(tx) < tg.brdepth
    BY <2>3, BranchTag
  <2>8. ty \in Tags /\ Behind(ty) \in Int /\ tg.brdepth \in Int
    <3>1. ty \in Tags
      BY <2>3, AtFacts DEF CoreInv
    <3>2. Behind(ty) \in 0..BRANCH_ENT_NUM /\ tg.brdepth \in 0..BRANCH_ENT_NUM
      BY <3>1, TagFacts DEF CoreInv
    <3> QED BY <3>1, <3>2, TagSize
  <2>9. tg.valid[ty]
    <3>1. Behind(ty) < tg.brdepth
      BY <2>6, <2>7, <2>8
    <3> QED BY <2>8, <3>1, TagFacts DEF CoreInv
  <2>10. At(y)'.spec
    <3>1. ASSUME Wires.suc, ty = Wires.tag PROVE FALSE
      <4>1. ex["br"].full
        BY <3>1, WireFacts DEF CoreInv
      <4>2. x0 # BrSpot
        BY <2>3, <4>1, BrSpotIs
      <4>3. Behind(tx) < Behind(Wires.tag)
        BY <2>3, <4>1, <4>2, BranchesBehind
      <4> QED BY <2>6, <2>7, <2>8, <3>1, <4>3
    <3> QED BY <2>3, <2>6, <3>1
  <2>11. CASE ~Fills
    <3>1. Behind(tx)' = Behind(tx) /\ Behind(ty)' = Behind(ty)
      BY <2>4, <2>7, <2>8, <2>11, BehindKept
    <3> QED BY <2>3, <2>6, <2>10, <3>1
  <2>12. CASE Fills
    <3>1. /\ tg' = Allocate(tg, b1, b2) /\ IsAllGenble(tg, b1, b2)
          /\ b1 \in BOOLEAN /\ b2 \in BOOLEAN
      BY <2>12, TagSteps
    <3> HIDE DEF b1, b2
    <3>2. Behind(tx)' = Behind(tx) + Bit(b1) + Bit(b2)
          /\ Behind(ty)' = Behind(ty) + Bit(b1) + Bit(b2)
      BY <2>7, <2>8, <2>9, <3>1, BehindAfter DEF CoreInv
    <3> PICK m, n : m = Behind(tx) /\ n = Behind(ty)
      OBVIOUS
    <3>3. m \in Int /\ n \in Int /\ n <= m /\ (IsBr(y0) => n # m)
      BY <2>6, <2>7, <2>8
    <3>4. n + Bit(b1) + Bit(b2) <= m + Bit(b1) + Bit(b2)
          /\ (n # m => n + Bit(b1) + Bit(b2) # m + Bit(b1) + Bit(b2))
      BY <3>3 DEF Bit
    <3> QED BY <2>3, <2>10, <3>2, <3>3, <3>4
  <2> QED BY <2>11, <2>12
<1>4. ASSUME Fills
      PROVE  /\ tg' = Allocate(tg, b1, b2) /\ IsAllGenble(tg, b1, b2)
             /\ b1 \in BOOLEAN /\ b2 \in BOOLEAN /\ TagsOk
             /\ fe'.dcd1.isBranch = b1 /\ fe'.dcd2.isBranch = b2
             /\ fe'.dcd1.spec = GenSpec1(tg) /\ fe'.dcd2.spec = GenSpec2(tg, b1)
             /\ fe'.dcd1.specTag = GenTag1(tg, b1)
             /\ fe'.dcd2.specTag = GenTag2(tg, b1, b2)
             /\ GenTag1(tg, b1) \in Tags /\ GenTag2(tg, b1, b2) \in Tags
  <2>1. /\ tg' = Allocate(tg, b1, b2) /\ IsAllGenble(tg, b1, b2)
        /\ b1 \in BOOLEAN /\ b2 \in BOOLEAN
    BY <1>4, TagSteps
  <2>2. GenTag1(tg, b1) \in Tags /\ GenTag2(tg, b1, b2) \in Tags
    <3> HIDE DEF b1, b2
    <3> QED BY <2>1, GenFacts DEF CoreInv
  <2> QED BY <1>4, <2>1, <2>2, NewLanes DEF CoreInv
<1>5. ASSUME NEW k \in 1..2, Fills, y = <<"lane", k>>
      PROVE  /\ At(y)'.spec = (IF k = 1 THEN GenSpec1(tg) ELSE GenSpec2(tg, b1))
             /\ ty = (IF k = 1 THEN GenTag1(tg, b1) ELSE GenTag2(tg, b1, b2))
             /\ Behind(ty)' = IF k = 1 THEN Bit(b2) ELSE 0
             /\ IsBr(y)' <=> IF k = 1 THEN b1 ELSE b2
  <2>1. At(y)' = Lane(k)' /\ (IsBr(y)' <=> Lane(k)'.isBranch)
    BY <1>5, LaneSpotThen
  <2>2. Lane(k)' = IF k = 1 THEN fe'.dcd1 ELSE fe'.dcd2
    BY DEF Lane
  <2>3. /\ ty = (IF k = 1 THEN GenTag1(tg, b1) ELSE GenTag2(tg, b1, b2))
        /\ At(y)'.spec = (IF k = 1 THEN GenSpec1(tg) ELSE GenSpec2(tg, b1))
        /\ IsBr(y)' <=> IF k = 1 THEN b1 ELSE b2
    BY <1>4, <1>5, <2>1, <2>2
  <2>4. Behind(ty)' = IF k = 1 THEN Bit(b2) ELSE 0
    <3> HIDE DEF b1, b2
    <3>1. ty \in Tags
      BY <1>4, <1>5, <2>3
    <3> QED BY <1>4, <1>5, <2>3, <3>1, BehindAfter
  <2> QED BY <2>3, <2>4
<1>6. CASE Fills /\ y[1] = "lane" /\ x[1] # "lane"
  <2>1. PICK k \in 1..2 : y = <<"lane", k>>
    BY <1>6 DEF Spots
  <2>2. PICK x0 \in Spots : From(x0, x)
    BY <1>1, <1>6, Origin
  <2>3. Held(x0) /\ IsBr(x0) /\ At(x0).specTag = tx
    BY <1>1, <2>2 DEF From, Carried
  <2>4. tx \in Tags /\ tg.valid[tx] /\ Behind(tx) \in Int /\ tg.brdepth # 0
    BY <2>3, BranchTag
  <2>5. At(y)'.spec
    BY <1>5, <1>6, <2>1, <2>4 DEF GenSpec1, GenSpec2
  <2>6. Behind(tx) \in 0..BRANCH_ENT_NUM
    BY <2>4, TagFacts DEF CoreInv
  <2> HIDE DEF b1, b2
  <2>7. Behind(tx)' = Behind(tx) + Bit(b1) + Bit(b2)
    BY <1>4, <1>6, <2>4, BehindAfter
  <2> PICK m : m = Behind(tx)
    OBVIOUS
  <2>8. m \in Int /\ m >= 0 /\ Behind(tx)' = m + Bit(b1) + Bit(b2)
    BY <2>6, <2>7, TagSize
  <2>9. Behind(ty)' = (IF k = 1 THEN Bit(b2) ELSE 0) /\ (IsBr(y)' <=> IF k = 1 THEN b1 ELSE b2)
    BY <1>5, <1>6, <2>1
  <2>10. CASE k = 1
    <3>1. Bit(b2) <= m + Bit(b1) + Bit(b2) /\ (b1 => Bit(b2) # m + Bit(b1) + Bit(b2))
      BY <2>8 DEF Bit
    <3> QED BY <2>5, <2>8, <2>9, <2>10, <3>1
  <2>11. CASE k = 2
    <3>1. 0 <= m + Bit(b1) + Bit(b2) /\ (b2 => 0 # m + Bit(b1) + Bit(b2))
      BY <2>8 DEF Bit
    <3> QED BY <2>5, <2>8, <2>9, <2>11, <3>1
  <2> QED BY <2>10, <2>11
<1>7. CASE Fills /\ x[1] = "lane" /\ y[1] # "lane"
  <2>1. PICK y0 \in Spots : From(y0, y)
    BY <1>1, <1>7, Origin
  <2> PICK p : p = TagFor(y0)
    OBVIOUS
  <2>2. AgeAt(y)' < Waiting' /\ AgeAt(y)' \in Int
    BY <1>7, <2>1, AgeFollows
  <2>3. AgeAt(x)' = Waiting' + x[2] - 1 /\ x[2] \in 1..2
    BY <1>7 DEF AgeAt, Spots
  <2>4. Waiting' \in Int
    BY WaitingThen
  <2> QED BY <1>1, <2>2, <2>3, <2>4
<1>8. CASE Fills /\ x[1] = "lane" /\ y[1] = "lane"
  <2>1. AgeAt(x)' = Waiting' + x[2] - 1 /\ x[2] \in 1..2 /\ x = <<"lane", x[2]>>
    BY <1>8 DEF AgeAt, Spots
  <2>2. AgeAt(y)' = Waiting' + y[2] - 1 /\ y[2] \in 1..2 /\ y = <<"lane", y[2]>>
    BY <1>8 DEF AgeAt, Spots
  <2>3. Waiting' \in Int
    BY WaitingThen
  <2>4. x = <<"lane", 1>> /\ y = <<"lane", 2>>
    <3> PICK w, i, j : w = Waiting' /\ i = x[2] /\ j = y[2]
      OBVIOUS
    <3>1. w + i - 1 < w + j - 1 /\ w \in Int /\ i \in 1..2 /\ j \in 1..2
      BY <1>1, <2>1, <2>2, <2>3
    <3>2. i = 1 /\ j = 2
      BY <3>1
    <3> QED BY <2>1, <2>2, <3>2
  <2>5. /\ At(y)'.spec = GenSpec2(tg, b1) /\ Behind(ty)' = 0 /\ (IsBr(y)' <=> b2)
    BY <1>5, <1>8, <2>4
  <2>6. At(x)' = fe'.dcd1 /\ (IsBr(x)' <=> fe'.dcd1.isBranch)
    BY <2>4, LaneSpotThen DEF Lane
  <2>7. b1 /\ tx = GenTag1(tg, b1)
    BY <1>1, <1>4, <1>8, <2>6
  <2>8. Behind(tx)' = Bit(b2)
    <3> HIDE DEF b1, b2
    <3> QED BY <1>4, <1>8, <2>7, BehindAfter
  <2>9. At(y)'.spec
    BY <2>5, <2>7 DEF GenSpec2
  <2> QED BY <2>5, <2>8, <2>9 DEF Bit
<1> QED BY <1>3, <1>6, <1>7, <1>8

-----------------------------------------------------------------------------
(* A station that issues in order: a group that is dispatched finds room.   *)
LEMMA RingRoom ==
  ASSUME CoreInv, Goes, NEW u \in InOrder, InRing(u), NEW k \in 1..Size, Lane(k).rsEnt = u
  PROVE  /\ RowOf(k) = [unit |-> u, row |-> RowOf(k).row]
         /\ RowOf(k).row = IF k = 2 /\ fe.dcd1.rsEnt = u
                             THEN Round1(alloc[u], EntNum(u)) ELSE alloc[u]
         /\ RowOf(k).row \in 0..(EntNum(u)-1)
         /\ ~rs[u][RowOf(k).row].busy
         /\ k = 2 /\ fe.dcd1.rsEnt = u => ~rs[u][alloc[u]].busy
<1> USE DEF CoreInv
<1> DEFINE n == EntNum(u)
           a == alloc[u]
           b == Round1(a, n)
           f == Offer(u)
           t == rs[u]
<1>1. u \in InOrder /\ u \in Stations
  BY DEF InOrder, Stations
<1>2. k \in 1..2 /\ ~Lane(k).invalid /\ fe.dp
  BY GoFacts, LaneHeld
<1>3. RowOf(k) = [unit |-> u, row |-> IF k = 2 /\ fe.dcd1.rsEnt = u THEN b ELSE a]
  BY <1>1, <1>2, RowOfIs
<1>4. /\ a \in 0..(n-1) /\ b \in 0..(n-1)
      /\ f[1].busy = t[a].busy /\ f[2].busy = t[b].busy
  BY <1>1, OfferIs
<1>5. Bit(~f[1].busy) + Bit(~f[2].busy) >= Bit(Required(u, 1)) + Bit(Required(u, 2))
  BY <1>1, GoFacts DEF Allocatable
<1>6. Required(u, k)
  BY <1>2 DEF Required
<1>7. k = 2 /\ fe.dcd1.rsEnt = u => Required(u, 1)
  BY DEF Required, Lane, FrontOk
<1>8. t[a].busy => t[b].busy
  <2>1. RingAge(RowsIn(u), AgesIn(u), a, n)
    BY DEF InRing
  <2>2. SUFFICES ASSUME t[a].busy PROVE t[b].busy
    OBVIOUS
  <2>3. a \in RowsIn(u)
    BY <1>4, <2>2 DEF RowsIn
  <2> HIDE DEF a, n, b
  <2>4. RowsIn(u) = 0..(n-1)
    BY <2>1, <2>3, RingFull
  <2> QED BY <1>4, <2>4 DEF RowsIn
<1>9. Required(u, 1) \in BOOLEAN /\ Required(u, 2) \in BOOLEAN
  BY DEF Required
<1>10. \A i \in 0..(n-1) : t[i].busy \in BOOLEAN
  <2>1. u \in Units
    BY DEF Units, InOrder
  <2> QED BY <1>1, <2>1 DEF Shapes, IsEntry
<1> DEFINE p == t[a].busy
           q == t[b].busy
           r1 == Required(u, 1)
           r2 == Required(u, 2)
<1>11. p \in BOOLEAN /\ q \in BOOLEAN /\ (p => q)
       /\ Bit(~p) + Bit(~q) >= Bit(r1) + Bit(r2)
  BY <1>4, <1>5, <1>8, <1>10
<1>12. (r1 \/ r2 => ~p) /\ (r1 /\ r2 => ~p /\ ~q)
  <2> HIDE DEF p, q, r1, r2
  <2> QED BY <1>9, <1>11 DEF Bit
<1>13. ~p /\ (k = 2 /\ fe.dcd1.rsEnt = u => ~q)
  <2> HIDE DEF p, q
  <2> QED BY <1>2, <1>6, <1>7, <1>12
<1> QED BY <1>3, <1>4, <1>13

(* The same of the branch station.                                          *)
LEMMA BranchRoom ==
  ASSUME CoreInv, Goes, NEW k \in 1..Size, Lane(k).rsEnt = "br"
  PROVE  /\ RowOf(k) = [unit |-> "br", row |-> RowOf(k).row]
         /\ RowOf(k).row = IF k = 2 /\ fe.dcd1.rsEnt = "br"
                             THEN Round1(alloc["br"], BRANCH_ENT_NUM) ELSE alloc["br"]
         /\ RowOf(k).row \in 0..(BRANCH_ENT_NUM-1)
<1>1. "br" \in InOrder /\ EntNum("br") = BRANCH_ENT_NUM /\ InRing("br")
  BY StationSize DEF InOrder, CoreInv, BrOrder
<1> QED BY <1>1, RingRoom

(* Two branches of a group get two rows: as many can be unresolved.         *)
LEMMA BranchRowsApart ==
  ASSUME CoreInv, Goes, Size = 2, Lane(1).rsEnt = "br", Lane(2).rsEnt = "br"
  PROVE  /\ RowOf(1).row = alloc["br"]
         /\ RowOf(2).row = Round1(alloc["br"], BRANCH_ENT_NUM)
         /\ RowOf(1).row # RowOf(2).row
<1> USE DEF CoreInv
<1> DEFINE x == <<"lane", 1>>
           y == <<"lane", 2>>
           n == BRANCH_ENT_NUM
           a == alloc["br"]
<1>1. /\ x \in Spots /\ Held(x) /\ IsBr(x) /\ y \in Spots /\ Held(y) /\ IsBr(y)
  <2>1. fe.dp /\ 1 \in 1..Size /\ 2 \in 1..Size
    BY GoFacts
  <2>2. x \in Spots /\ Held(x) /\ IsBr(x)
    BY <2>1, LaneHeld
  <2>3. y \in Spots /\ Held(y) /\ IsBr(y)
    BY <2>1, LaneHeld
  <2> QED BY <2>2, <2>3
<1>2. AgeAt(x) < AgeAt(y)
  <2>1. Waiting \in Int
    BY RingFacts, RingSize
  <2>2. AgeAt(x) = Waiting + 1 - 1 /\ AgeAt(y) = Waiting + 2 - 1
    BY LaneSpot
  <2> QED BY <2>1, <2>2
<1> DEFINE s == At(x).specTag
           t == At(y).specTag
<1>3. Behind(t) # Behind(s) /\ s \in Tags /\ t \in Tags
      /\ Behind(s) < tg.brdepth /\ Behind(t) < tg.brdepth
  BY <1>1, <1>2, BranchTag DEF InTheirOrder
<1>4. n # 1
  <2>1. /\ Behind(s) \in 0..n /\ Behind(t) \in 0..n /\ tg.brdepth \in 0..n
    BY <1>3, TagFacts
  <2> HIDE DEF s, t
  <2> QED BY <1>3, <2>1
<1>5. RowOf(1).row = a /\ RowOf(2).row = Round1(a, n) /\ a \in 0..(n-1)
  <2>1. 1 \in 1..Size /\ 2 \in 1..Size /\ fe.dcd1.rsEnt = "br"
    BY DEF Lane
  <2> QED BY <2>1, BranchRoom
<1>6. Round1(a, n) # a
  <2> HIDE DEF a, n
  <2>1. n \in Nat
    BY TagSize DEF n
  <2> QED BY <1>4, <1>5, <2>1 DEF Round1
<1> QED BY <1>5, <1>6

(* A branch that is not resolved goes on, with its tag.                     *)
LEMMA BranchGoes ==
  ASSUME CoreInv, ClockEdge, ~Wires.mis, NEW y \in Spots, Held(y), IsBr(y), y # BrSpot
  PROVE  \E x \in Spots : /\ Held(x)' /\ IsBr(x)' /\ x = Dest(y)
                          /\ At(x)'.specTag = At(y).specTag
<1> USE DEF CoreInv
<1> DEFINE n == BRANCH_ENT_NUM
<1>0. "br" \in Units /\ EntNum("br") = n
  BY StationSize DEF Units
<1>1. ASSUME NEW k \in 1..2, y = <<"lane", k>>, ~Goes
      PROVE  /\ Held(y)' /\ IsBr(y)' /\ y = Dest(y) /\ At(y)'.specTag = At(y).specTag
  <2>1. fe.dp /\ k <= Size /\ At(y) = Lane(k) /\ Lane(k).isBranch
    BY <1>1, LaneSpot
  <2>2. ~Fills
    BY <1>1, <2>1, FillFacts
  <2>3. fe'.dp
    BY <1>1, <2>1, FrontThen
  <2>4. Lane(k)'.specTag = Lane(k).specTag /\ Lane(k)'.isBranch
    BY <2>1, <2>2, OldLanes
  <2>5. Size' = Size
    <3>1. Lane(2)'.invalid = Lane(2).invalid
      BY <2>2, OldLanes
    <3> QED BY <3>1 DEF Size, Lane
  <2>6. Held(y)' /\ IsBr(y)' /\ At(y)' = Lane(k)'
    BY <1>1, <2>1, <2>3, <2>4, <2>5, LaneSpotThen
  <2>7. y = Dest(y)
    BY <1>1 DEF Dest
  <2> QED BY <2>1, <2>4, <2>6, <2>7
<1>2. ASSUME NEW k \in 1..2, y = <<"lane", k>>, Goes
      PROVE  \E x \in Spots : /\ Held(x)' /\ IsBr(x)' /\ x = Dest(y)
                              /\ At(x)'.specTag = At(y).specTag
  <2> PICK x, i : x = RowSpotOf(k) /\ i = RowOf(k).row
    OBVIOUS
  <2>1. fe.dp /\ k <= Size /\ At(y) = Lane(k) /\ Lane(k).isBranch /\ k \in 1..Size
    <3>1. fe.dp /\ k <= Size /\ At(y) = Lane(k) /\ Lane(k).isBranch
      BY <1>2, LaneSpot
    <3> QED BY <3>1 DEF Size
  <2>2. Lane(k).rsEnt = "br"
    BY <2>1, LaneHeld
  <2>3. /\ RowOf(k) = [unit |-> "br", row |-> i] /\ i \in 0..(n-1)
    BY <1>2, <2>1, <2>2, BranchRoom
  <2>4. x = <<"br", i>>
    BY <2>3 DEF RowSpotOf
  <2>5. PICK l \in 1..Size : RowOf(l) = [unit |-> "br", row |-> i]
                             /\ rs'["br"][i] = Entry(l, ByPasses)
    BY <1>0, <1>2, <2>1, <2>3, RowThen
  <2>6. l = k
    <3>0. RowOf(l).unit = "br"
      BY <2>5
    <3>1. l \in 1..2 /\ Lane(l).rsEnt = "br"
      BY <2>1, <3>0, LaneHeld
    <3>2. SUFFICES ASSUME l # k PROVE FALSE
      OBVIOUS
    <3>3. Size = 2 /\ Lane(1).rsEnt = "br" /\ Lane(2).rsEnt = "br"
      BY <2>1, <2>2, <3>1, <3>2 DEF Size
    <3>4. RowOf(1).row # RowOf(2).row
      BY <1>2, <3>3, BranchRowsApart
    <3>5. RowOf(k).row = RowOf(l).row
      BY <2>3, <2>5
    <3> QED BY <3>1, <3>2, <3>4, <3>5
  <2>7. rs'["br"][i].busy /\ rs'["br"][i].specTag = Lane(k).specTag
    BY <2>5, <2>6, EntryIs
  <2>8. x \in Spots
    BY <1>0, <2>3, <2>4, SpotIs
  <2>9. Held(x)' /\ IsBr(x)' /\ At(x)' = rs'["br"][i]
    BY <1>0, <2>3, <2>4, <2>7, RowSpotThen
  <2>10. x = Dest(y)
    BY <1>2 DEF Dest
  <2> QED BY <2>1, <2>7, <2>8, <2>9, <2>10
<1>3. ASSUME NEW i \in 0..(n-1), y = <<"br", i>>
      PROVE  \E x \in Spots : /\ Held(x)' /\ IsBr(x)' /\ x = Dest(y)
                              /\ At(x)'.specTag = At(y).specTag
  <2>1. rs["br"][i].busy /\ At(y) = rs["br"][i]
    BY <1>0, <1>3, RowSpot
  <2>2. IsEntry(rs["br"][i])
    BY <1>0 DEF Shapes
  <2>3. i >= 0 /\ i \in Int /\ i # Ex
    BY <1>0, <1>3, SpotIs, TagSize
  <2>4. CASE i = Issue("br")
    <3> DEFINE x == <<"br", Ex>>
    <3>1. Issue("br") # None
      BY <2>3, <2>4 DEF None
    <3>2. ex'["br"].full /\ ex'["br"].src.specTag = rs["br"][i].specTag
      BY <1>0, <2>2, <2>4, <3>1, ExThen
    <3>3. x \in Spots /\ Held(x)' /\ IsBr(x)' /\ At(x)' = ex'["br"].src
      BY <1>0, <3>2, SpotIs, ExSpotThen
    <3>4. x = Dest(y)
      BY <1>3, <2>3, <2>4 DEF Dest
    <3> HIDE DEF x
    <3> QED BY <2>1, <3>2, <3>3, <3>4
  <2>5. CASE i # Issue("br")
    <3>1. ASSUME Goes, NEW k \in 1..Size, RowOf(k) = [unit |-> "br", row |-> i]
          PROVE  FALSE
      <4>1. fe.dp
        BY <3>1, GoFacts
      <4>4. RowOf(k).unit = "br"
        BY <3>1
      <4>2. Lane(k).rsEnt = "br"
        BY <3>1, <4>1, <4>4, LaneHeld
      <4> PICK r : r = RowOf(k).row
        OBVIOUS
      <4>3. ~rs["br"][r].busy
        <5>1. Goes /\ k \in 1..Size
          BY <3>1
        <5>2. "br" \in InOrder /\ InRing("br")
          BY DEF InOrder, BrOrder
        <5> HIDE DEF CoreInv
        <5> QED BY <4>2, <5>1, <5>2, RingRoom
      <4>5. r = i
        BY <3>1
      <4> QED BY <2>1, <4>3, <4>5
    <3> DEFINE e == rs["br"][i]
               f == Cycled(e, i, "br")
    <3>2. rs'["br"][i] = f
      BY <1>0, <3>1, RowThen
    <3>3. f.specTag = e.specTag /\ (f.busy <=> e.busy /\ i # Issue("br") /\ ~CheckIsKill(Wires, e))
      BY <2>2, EntryCycled
    <3>4. ~CheckIsKill(Wires, e)
      BY DEF CheckIsKill
    <3>5. Held(y)' /\ IsBr(y)' /\ At(y)' = rs'["br"][i]
      <4>1. rs'["br"][i].busy
        BY <2>1, <2>5, <3>2, <3>3, <3>4
      <4> QED BY <1>0, <1>3, <4>1, RowSpotThen
    <3>6. y = Dest(y)
      BY <1>3, <2>3, <2>5 DEF Dest
    <3> HIDE DEF e, f
    <3> QED BY <2>1, <3>2, <3>3, <3>5, <3>6 DEF e
  <2> QED BY <2>4, <2>5
<1>4. \/ \E k \in 1..2 : y = <<"lane", k>>
      \/ \E i \in 0..(n-1) : y = <<"br", i>>
  <2>1. y[1] = "br" \/ y[1] = "lane"
    BY DEF IsBr
  <2>2. \/ \E k \in 1..2 : y = <<"lane", k>>
        \/ \E u \in Units : y = <<u, Ex>>
        \/ \E u \in Units : \E i \in 0..(EntNum(u)-1) : y = <<u, i>>
        \/ y = <<"ls", Ls2>>
    BY SpotIs
  <2>3. \A u \in Units : u # "lane"
    BY DEF Units
  <2>4. CASE \E u \in Units : y = <<u, Ex>>
    BY <2>1, <2>3, <2>4 DEF BrSpot
  <2>5. CASE \E u \in Units : \E i \in 0..(EntNum(u)-1) : y = <<u, i>>
    BY <1>0, <2>1, <2>3, <2>5
  <2>6. y # <<"ls", Ls2>>
    BY <2>1
  <2> QED BY <2>2, <2>4, <2>5, <2>6
<1> QED BY <1>1, <1>2, <1>3, <1>4

(* There is a tag at every distance.                                        *)
LEMMA TagWith ==
  ASSUME TagsOk, NEW d \in 0..BRANCH_ENT_NUM
  PROVE  \E u \in Tags : Behind(u) = d
<1> DEFINE r == tg.tagreg
           N == BRANCH_ENT_NUM
           u == IF d <= r THEN r - d ELSE r - d + N + 1
<1>1. r \in 0..N /\ N \in Nat \ {0} /\ Tags = 0..N /\ SPECTAG_LEN = N + 1
  BY TagFacts, TagSize
<1>2. Behind(u) = IF u <= r THEN r - u ELSE r - u + N + 1
  <2>1. Behind(u) = IF u <= r THEN r - u ELSE r - u + SPECTAG_LEN
    BY DEF Behind, Tagging!Behind, Tagging!SPECTAG_LEN, SPECTAG_LEN
  <2>2. u \in Int
    BY <1>1
  <2> HIDE DEF u, r
  <2> QED BY <1>1, <2>1, <2>2
<1> HIDE DEF r, N
<1>3. u \in 0..N /\ (IF u <= r THEN r - u ELSE r - u + N + 1) = d
  <2>1. d \in 0..N
    BY DEF N
  <2> QED BY <1>1, <2>1
<1> HIDE DEF u
<1> QED BY <1>1, <1>2, <1>3

(* The branch in the branch unit has the oldest of the tags.                *)
LEMMA OldestTag ==
  ASSUME CoreInv, ex["br"].full
  PROVE  tg.brdepth # 0 /\ Behind(Wires.tag) = tg.brdepth - 1
<1> USE DEF CoreInv
<1> DEFINE d == tg.brdepth
           w == Wires.tag
<1>1. w \in Tags /\ tg.valid[w]
  BY WireFacts, BrSpotIs
<1>2. Behind(w) \in 0..BRANCH_ENT_NUM /\ d \in 0..BRANCH_ENT_NUM /\ Behind(w) < d
  BY <1>1, TagFacts
<1>3. ASSUME Behind(w) # d - 1 PROVE FALSE
  <2>1. d - 1 \in 0..BRANCH_ENT_NUM /\ Behind(w) < d - 1
    <3> HIDE DEF d, w
    <3> QED BY <1>2, <1>3, TagSize
  <2>2. PICK u \in Tags : Behind(u) = d - 1
    <3> PICK e : e = d - 1
      OBVIOUS
    <3> QED BY <2>1, TagWith
  <2>3. tg.valid[u]
    <3>1. d - 1 < d
      BY <1>2, TagSize
    <3> QED BY <2>2, <3>1, TagFacts
  <2>4. PICK y \in Spots : Held(y) /\ IsBr(y) /\ At(y).specTag = u
    BY <2>3 DEF TagsHeld
  <2>5. y # BrSpot
    BY <1>3, <2>2, <2>4, BrSpotIs
  <2>6. Behind(u) < Behind(w)
    BY <2>4, <2>5, BranchesBehind
  <2> HIDE DEF d, w
  <2> QED BY <1>2, <2>1, <2>2, <2>6, TagSize
<1>4. d # 0
  BY <1>2, TagSize
<1> QED BY <1>3, <1>4

(* A cycle leaves the tags right.                                           *)
LEMMA TagsKept ==
  ASSUME CoreInv, ClockEdge
  PROVE  TagsOk'
<1> USE DEF CoreInv
<1>1. CASE Wires.mis
  BY <1>1, TagSteps, WireFacts, TagsMis
<1>2. CASE Wires.suc
  <2>1. tg.brdepth # 0 /\ Behind(Wires.tag) = tg.brdepth - 1
    BY <1>2, WireFacts, OldestTag
  <2> QED BY <1>2, <2>1, TagSteps, WireFacts, TagsSuc
<1>3. CASE Fills
  BY <1>3, TagSteps, TagsDecode
<1>4. CASE ~Wires.mis /\ ~Wires.suc /\ ~Fills
  <2>1. tg' = tg
    BY <1>4, TagSteps
  <2> QED BY <2>1 DEF TagsOk, Tagging!TagsRight, Tagging!TagType, Tagging!Behind
<1> QED BY <1>1, <1>2, <1>3, <1>4

(* The lanes of a group that has just been decoded, as places.              *)
LEMMA NewLaneSpot ==
  ASSUME CoreInv, ClockEdge, Fills, NEW k \in 1..2
  PROVE  LET x == <<"lane", k>>
             b == IF k = 1 THEN Dcw1.isBranch ELSE Dcw2.isBranch
         IN  /\ IsBr(x)' <=> b
             /\ b => Held(x)'
             /\ At(x)'.specTag = (IF k = 1 THEN GenTag1(tg, Dcw1.isBranch)
                                  ELSE GenTag2(tg, Dcw1.isBranch, Dcw2.isBranch))
             /\ At(x)'.spec = IF k = 1 THEN GenSpec1(tg) ELSE GenSpec2(tg, Dcw1.isBranch)
<1> USE DEF CoreInv
<1> DEFINE x == <<"lane", k>>
           b == IF k = 1 THEN Dcw1.isBranch ELSE Dcw2.isBranch
<1>1. /\ IsLane(fe'.dcd1) /\ IsLane(fe'.dcd2) /\ ~fe'.dcd1.invalid
      /\ fe'.dcd1.isBranch = Dcw1.isBranch /\ fe'.dcd2.isBranch = Dcw2.isBranch
      /\ fe'.dcd1.spec = GenSpec1(tg)
      /\ fe'.dcd2.spec = GenSpec2(tg, Dcw1.isBranch)
      /\ fe'.dcd1.specTag = GenTag1(tg, Dcw1.isBranch)
      /\ fe'.dcd2.specTag = GenTag2(tg, Dcw1.isBranch, Dcw2.isBranch)
  BY NewLanes
<1>2. Lane(k)' = IF k = 1 THEN fe'.dcd1 ELSE fe'.dcd2
  BY DEF Lane
<1>3. /\ Held(x)' <=> fe'.dp /\ k <= Size'
      /\ At(x)' = Lane(k)' /\ (IsBr(x)' <=> Lane(k)'.isBranch)
  BY LaneSpotThen
<1>4. fe'.dp
  BY FillFacts, FrontThen
<1>5. IsBr(x)' <=> b
  BY <1>1, <1>2, <1>3
<1>6. b => k <= Size'
  <2>1. CASE k = 1
    BY <2>1 DEF Size
  <2>2. CASE k = 2
    <3>1. b => ~fe'.dcd2.invalid
      BY <1>1, <2>2 DEF IsLane
    <3>2. ~fe'.dcd2.invalid => Size' = 2
      BY DEF Size
    <3> HIDE DEF b
    <3> QED BY <2>2, <3>1, <3>2
  <2> QED BY <2>1, <2>2
<1> QED BY <1>1, <1>2, <1>3, <1>4, <1>5, <1>6

(* After a cycle a tag is in use exactly if a branch has it.                *)
LEMMA TagsHeldKept ==
  ASSUME CoreInv, ClockEdge
  PROVE  TagsHeld'
<1> USE DEF CoreInv
<1> DEFINE b1 == Dcw1.isBranch
           b2 == Dcw2.isBranch
<1>1. ASSUME NEW x \in Spots, Held(x)', IsBr(x)', NEW t, t = At(x)'.specTag
      PROVE  tg'.valid[t]
  <2>1. CASE ~(Fills /\ x[1] = "lane")
    <3>1. PICK y \in Spots : From(y, x)
      BY <1>1, <2>1, Origin
    <3>2. Held(y) /\ ~Ended(y) /\ IsBr(y) /\ At(y).specTag = t
      BY <1>1, <3>1 DEF From, Carried
    <3>3. ~Wires.mis
      BY <3>2, Survivor
    <3>4. t \in Tags /\ tg.valid[t]
      BY <3>2, BranchTag
    <3>5. CASE Fills
      <4>1. /\ tg' = Allocate(tg, b1, b2) /\ IsAllGenble(tg, b1, b2)
            /\ b1 \in BOOLEAN /\ b2 \in BOOLEAN
        BY <3>5, TagSteps
      <4> HIDE DEF b1, b2
      <4> QED BY <3>4, <4>1, BehindAfter
    <3>6. CASE ~Fills
      <4>1. ASSUME Wires.suc PROVE t # Wires.tag
        <5>1. ex["br"].full
          BY <4>1, WireFacts
        <5>2. y # BrSpot
          BY <3>2, <5>1, BrSpotIs
        <5> QED BY <3>2, <5>1, <5>2, BranchesBehind
      <4> QED BY <3>3, <3>4, <3>6, <4>1, BehindKept
    <3> QED BY <3>5, <3>6
  <2>2. CASE Fills /\ x[1] = "lane"
    <3>1. PICK k \in 1..2 : x = <<"lane", k>>
      BY <2>2 DEF Spots
    <3>2. /\ IF k = 1 THEN b1 ELSE b2
          /\ t = IF k = 1 THEN GenTag1(tg, b1) ELSE GenTag2(tg, b1, b2)
      BY <1>1, <2>2, <3>1, NewLaneSpot
    <3>3. /\ tg' = Allocate(tg, b1, b2) /\ IsAllGenble(tg, b1, b2)
          /\ b1 \in BOOLEAN /\ b2 \in BOOLEAN
      BY <2>2, TagSteps
    <3> HIDE DEF b1, b2
    <3>4. t \in Tags
      BY <3>2, <3>3, GenFacts
    <3> QED BY <3>2, <3>3, <3>4, BehindAfter
  <2> QED BY <2>1, <2>2
<1>2. ASSUME NEW t \in Tags, tg'.valid[t]
      PROVE  \E x \in Spots : Held(x)' /\ IsBr(x)' /\ At(x)'.specTag = t
  <2>1. ~Wires.mis
    <3>1. SUFFICES ASSUME Wires.mis PROVE FALSE
      OBVIOUS
    <3>2. tg' = TagMisPred(tg, Wires.tag)
      BY <3>1, TagSteps
    <3> DEFINE r == TagBefore(Wires.tag)
    <3>3. tg' = [TagReset EXCEPT !.tagreg = r]
      BY <3>2 DEF TagMisPred
    <3> HIDE DEF r
    <3>4. tg'.valid = [u \in Tags |-> FALSE]
      BY <3>3 DEF TagReset
    <3> QED BY <1>2, <3>4
  <2>2. CASE tg.valid[t] /\ ~(Wires.suc /\ t = Wires.tag)
    <3>1. PICK y \in Spots : Held(y) /\ IsBr(y) /\ At(y).specTag = t
      BY <2>2 DEF TagsHeld
    <3>2. y # BrSpot
      <4>1. SUFFICES ASSUME y = BrSpot PROVE FALSE
        OBVIOUS
      <4>2. ex["br"].full
        BY <3>1, <4>1, ExSpot DEF BrSpot, Units
      <4>3. Wires.suc
        BY <2>1, <4>2, WireFacts
      <4> QED BY <2>2, <3>1, <4>1, <4>2, <4>3, BrSpotIs
    <3> QED BY <2>1, <3>1, <3>2, BranchGoes
  <2>3. CASE ~(tg.valid[t] /\ ~(Wires.suc /\ t = Wires.tag))
    <3>1. Fills
      BY <1>2, <2>1, <2>3, BehindKept
    <3>2. ~tg.valid[t]
      BY <2>3, <3>1, FillFacts
    <3>3. /\ tg' = Allocate(tg, b1, b2) /\ IsAllGenble(tg, b1, b2)
          /\ b1 \in BOOLEAN /\ b2 \in BOOLEAN
      BY <3>1, TagSteps
    <3>4. \/ b1 /\ t = GenTag1(tg, b1)
          \/ b2 /\ t = GenTag2(tg, b1, b2)
      <4> HIDE DEF b1, b2
      <4> QED BY <1>2, <3>2, <3>3, BehindAfter
    <3>5. PICK k \in 1..2 : /\ IF k = 1 THEN b1 ELSE b2
                            /\ t = IF k = 1 THEN GenTag1(tg, b1) ELSE GenTag2(tg, b1, b2)
      <4>1. 1 \in 1..2 /\ 2 \in 1..2
        OBVIOUS
      <4> HIDE DEF b1, b2
      <4> QED BY <3>4, <4>1
    <3> DEFINE x == <<"lane", k>>
    <3>6. Held(x)' /\ IsBr(x)' /\ At(x)'.specTag = t /\ x \in Spots
      BY <3>1, <3>5, NewLaneSpot, SpotIs
    <3> HIDE DEF x
    <3> QED BY <3>6
  <2> QED BY <2>2, <2>3
<1> QED BY <1>1, <1>2 DEF TagsHeld

(* Two lanes of a group are not given one row.                              *)
RowsDiffer(u) ==
  Goes /\ Size = 2 /\ Lane(1).rsEnt = u /\ Lane(2).rsEnt = u => RowOf(1).row # RowOf(2).row

(* The rows of a station that issues in order, after a cycle.               *)
LEMMA RingRowThen ==
  ASSUME CoreInv, ClockEdge, ~Wires.mis, NEW u \in InOrder, InRing(u), RowsDiffer(u),
         NEW i \in 0..(EntNum(u)-1)
  PROVE  /\ i \in RowsIn(u)' <=> \/ i \in RowsIn(u) /\ i # Issue(u)
                              \/ \E k \in 1..Took : Lane(k).rsEnt = u /\ RowOf(k).row = i
         /\ i \in RowsIn(u) /\ i # Issue(u) => AgesIn(u)'[i] = AgesIn(u)[i] - Count
         /\ \A k \in 1..Took : Lane(k).rsEnt = u /\ RowOf(k).row = i =>
              i \notin RowsIn(u) /\ AgesIn(u)'[i] = Waiting - Count + k - 1
<1> USE DEF CoreInv
<1>0. u \in Units
  BY DEF Units, InOrder
<1> DEFINE e == rs[u][i]
           f == rs'[u][i]
<1>1. /\ i \in RowsIn(u) <=> e.busy
      /\ i \in RowsIn(u)' <=> f.busy
      /\ AgesIn(u)[i] = Age(e.rrftag)
  BY DEF RowsIn, AgesIn
<1>2. ASSUME NEW p, p = f.rrftag PROVE AgesIn(u)'[i] = Age(p)'
  BY <1>2 DEF AgesIn, Age
<1>3. IsEntry(e)
  BY <1>0 DEF Shapes
<1>4. ASSUME NEW k \in 1..Took, Lane(k).rsEnt = u, RowOf(k).row = i
      PROVE  /\ f.busy /\ ~e.busy /\ AgesIn(u)'[i] = Waiting - Count + k - 1
  <2>1. Goes /\ k \in 1..Size /\ Took = Size
    <3>1. Goes
      BY DEF Took
    <3> QED BY <3>1 DEF Took
  <2>2. RowOf(k) = [unit |-> u, row |-> i] /\ ~e.busy
    BY <1>4, <2>1, RingRoom
  <2>3. PICK l \in 1..Size : RowOf(l) = [unit |-> u, row |-> i] /\ f = Entry(l, ByPasses)
    BY <1>0, <2>1, <2>2, RowThen
  <2>4. fe.dp
    BY <2>1, GoFacts
  <2>5. l = k
    <3>0. RowOf(l).unit = u /\ RowOf(l).row = i
      BY <2>3
    <3>1. l \in 1..2 /\ Lane(l).rsEnt = u /\ k \in 1..2
      BY <2>1, <2>4, <3>0, LaneHeld DEF InOrder
    <3>2. SUFFICES ASSUME l # k PROVE FALSE
      OBVIOUS
    <3>3. Size = 2 /\ Lane(1).rsEnt = u /\ Lane(2).rsEnt = u
      BY <1>4, <2>1, <3>1, <3>2 DEF Size
    <3>4. RowOf(1).row # RowOf(2).row
      BY <2>1, <3>3 DEF RowsDiffer
    <3> QED BY <1>4, <3>0, <3>1, <3>2, <3>4
  <2>6. k \in 1..2
    BY <2>1, <2>4, LaneHeld
  <2>7. f.busy /\ f.rrftag = Inc(rrf.reqPtr, k-1)
    BY <2>3, <2>5, <2>6, EntryIs
  <2> PICK p : p = f.rrftag
    OBVIOUS
  <2>8. Age(p)' = Waiting - Count + k - 1
    BY <2>7, GivenAge
  <2> QED BY <1>2, <2>2, <2>7, <2>8
<1>5. ASSUME ~\E k \in 1..Took : Lane(k).rsEnt = u /\ RowOf(k).row = i
      PROVE  f = Cycled(e, i, u)
  <2>1. ASSUME Goes, NEW k \in 1..Size, RowOf(k) = [unit |-> u, row |-> i]
        PROVE  FALSE
    <3>1. fe.dp /\ Took = Size
      BY <2>1, GoFacts DEF Took
    <3>2. RowOf(k).unit = u /\ RowOf(k).row = i
      BY <2>1
    <3>3. Lane(k).rsEnt = u
      BY <3>1, <3>2, LaneHeld DEF InOrder
    <3> QED BY <1>5, <3>1, <3>2, <3>3
  <2> QED BY <1>0, <2>1, RowThen
<1>6. f = Cycled(e, i, u) =>
        (f.busy <=> e.busy /\ i # Issue(u)) /\ f.rrftag = e.rrftag
  <2>1. ~CheckIsKill(Wires, e)
    BY DEF CheckIsKill
  <2> DEFINE c == Cycled(e, i, u)
  <2>2. (c.busy <=> e.busy /\ i # Issue(u) /\ ~CheckIsKill(Wires, e)) /\ c.rrftag = e.rrftag
    BY <1>3, EntryCycled
  <2> HIDE DEF c, e
  <2> QED BY <2>1, <2>2 DEF c, e
<1>7. e.busy /\ i # Issue(u) => AgesIn(u)'[i] = Age(e.rrftag) - Count /\ f.busy
  <2>1. SUFFICES ASSUME e.busy, i # Issue(u) PROVE AgesIn(u)'[i] = Age(e.rrftag) - Count /\ f.busy
    OBVIOUS
  <2>2. f.busy /\ f.rrftag = e.rrftag
    BY <1>4, <1>5, <1>6, <2>1
  <2> DEFINE x == <<u, i>>
  <2>3. x \in Spots /\ Held(x) /\ At(x) = e /\ x[1] # "lane" /\ AgeAt(x) = Age(e.rrftag)
    BY <1>0, <2>1, SpotIs, RowSpot
  <2> PICK p : p = e.rrftag
    OBVIOUS
  <2>4. p \in Ptrs /\ Age(p) < Waiting /\ Age(p) >= Count
    BY <2>3, HeldAge
  <2>5. Age(p)' = Age(p) - Count
    BY <2>4, KeptEntry
  <2> QED BY <1>2, <2>2, <2>5
<1> QED BY <1>1, <1>4, <1>5, <1>6, <1>7

(* A cycle without a mispredict leaves a ring: what issues is its oldest    *)
(* entry, what is dispatched follows its youngest.                          *)
LEMMA RingKept ==
  ASSUME CoreInv, ClockEdge, ~Wires.mis, NEW u \in InOrder, InRing(u), RowsDiffer(u)
  PROVE  /\ InRing(u)'
         /\ Issue(u) # None =>
              /\ Issue(u) \in RowsIn(u)
              /\ \A i \in RowsIn(u)' : AgesIn(u)[Issue(u)] - Count < AgesIn(u)'[i]
<1> USE DEF CoreInv
<1> DEFINE n == EntNum(u)
           a == alloc[u]
           B == RowsIn(u)
           c == Issue(u)
           B1 == {i \in B : i # c}
           h == AgesIn(u)'
<1>0. u \in Units /\ n \in Nat \ {0}
  BY StationSize DEF Units, InOrder
<1>1. RingAge(B, AgesIn(u), a, n)
  BY DEF InRing
<1>2. /\ RingAge(B1, AgesIn(u), a, n)
      /\ (c # None => c \in B /\ \A i \in B1 : AgesIn(u)[c] < AgesIn(u)[i])
  <2>1. CASE c = None
    <3>1. None \notin 0..(n-1)
      BY <1>0 DEF None
    <3>2. B1 = B
      BY <2>1, <3>1 DEF RowsIn
    <3> QED BY <1>1, <2>1, <3>2
  <2>2. CASE c # None
    <3>1. c \in 0..(n-1) /\ rs[u][c].busy /\ c = CheckIdx(rs[u], a)
      BY <1>0, <2>2, IssueIs
    <3>2. c \in B
      BY <3>1 DEF RowsIn
    <3>3. RingOf(rs[u], a, n)
      BY <1>1, RingRing DEF RowsIn
    <3>4. \A i \in 0..(n-1) : rs[u][i].busy => Pos(c, a, n) <= Pos(i, a, n)
      <4>1. Table(rs[u], n)
        BY <1>0, StationTable
      <4> QED BY <3>1, <3>3, <4>1, CheckIdxIs
    <3>5. \A i \in B : Pos(c, a, n) <= Pos(i, a, n)
      BY <3>4 DEF RowsIn
    <3>6. B1 = B \ {c}
      OBVIOUS
    <3> HIDE DEF B, B1, c, a, n
    <3> QED BY <1>1, <3>2, <3>5, <3>6, RingIssue
  <2> QED BY <2>1, <2>2
<1>3. \A i \in B : AgesIn(u)[i] \in Int
  BY <1>1 DEF RingAge
<1>4. /\ Count \in Int /\ Waiting \in Int
  BY RingThen, RingFacts, RingSize
<1>5. \A i \in B1 : h[i] = AgesIn(u)[i] - Count /\ h[i] \in Int /\ AgesIn(u)[i] < Waiting
  <2>1. SUFFICES ASSUME NEW i \in B1
                 PROVE  h[i] = AgesIn(u)[i] - Count /\ h[i] \in Int /\ AgesIn(u)[i] < Waiting
    OBVIOUS
  <2>2. i \in 0..(n-1) /\ i \in RowsIn(u) /\ i # Issue(u) /\ rs[u][i].busy
    BY DEF RowsIn
  <2>3. h[i] = AgesIn(u)[i] - Count
    BY <2>2, RingRowThen
  <2>4. AgesIn(u)[i] < Waiting
    <3> DEFINE x == <<u, i>>
    <3>1. x \in Spots /\ Held(x) /\ x[1] # "lane" /\ AgeAt(x) = Age(rs[u][i].rrftag)
      BY <1>0, <2>2, SpotIs, RowSpot
    <3>2. AgesIn(u)[i] = AgeAt(x)
      BY <2>2, <3>1 DEF AgesIn
    <3> HIDE DEF x
    <3> QED BY <3>1, <3>2, HeldAge
  <2>5. AgesIn(u)[i] \in Int
    BY <1>3, <2>2
  <2> HIDE DEF h
  <2> QED BY <1>4, <2>3, <2>4, <2>5
<1>6. RingAge(B1, h, a, n)
  <2>1. \A i, j \in B1 : AgesIn(u)[i] < AgesIn(u)[j] => h[i] < h[j]
    <3>1. SUFFICES ASSUME NEW i \in B1, NEW j \in B1, AgesIn(u)[i] < AgesIn(u)[j] PROVE h[i] < h[j]
      OBVIOUS
    <3>2. h[i] = AgesIn(u)[i] - Count /\ h[j] = AgesIn(u)[j] - Count
          /\ AgesIn(u)[i] \in Int /\ AgesIn(u)[j] \in Int
      BY <1>3, <1>5
    <3> HIDE DEF h, B1
    <3> QED BY <1>4, <3>1, <3>2
  <2> HIDE DEF B1, h, a, n
  <2> QED BY <1>2, <1>5, <2>1, RingSame
<1> DEFINE Br(k) == k \in 1..Took /\ Lane(k).rsEnt = u
           L1 == Waiting - Count
<1>7. RowsIn(u)' = B1 \cup {i \in 0..(n-1) : \E k \in 1..Took : Lane(k).rsEnt = u
                                                           /\ RowOf(k).row = i}
  <2>1. RowsIn(u)' \subseteq 0..(n-1) /\ B1 \subseteq 0..(n-1)
    BY DEF RowsIn
  <2>2. \A i \in 0..(n-1) : i \in B1 <=> i \in RowsIn(u) /\ i # Issue(u)
    OBVIOUS
  <2>3. \A i \in 0..(n-1) :
          i \in RowsIn(u)' <=> \/ i \in RowsIn(u) /\ i # Issue(u)
                            \/ \E k \in 1..Took : Lane(k).rsEnt = u /\ RowOf(k).row = i
    BY RingRowThen
  <2> HIDE DEF B1, n
  <2> QED BY <2>1, <2>2, <2>3
<1>8. \A k \in 1..Took : Lane(k).rsEnt = u =>
        /\ RowOf(k).row \in 0..(n-1) /\ RowOf(k).row \notin B
        /\ h[RowOf(k).row] = L1 + k - 1
  <2>1. SUFFICES ASSUME NEW k \in 1..Took, Lane(k).rsEnt = u
                 PROVE  /\ RowOf(k).row \in 0..(n-1) /\ RowOf(k).row \notin B
                        /\ h[RowOf(k).row] = L1 + k - 1
    OBVIOUS
  <2>2. Goes /\ k \in 1..Size
    <3>1. Goes
      BY DEF Took
    <3> QED BY <3>1 DEF Took
  <2>3. RowOf(k).row \in 0..(n-1)
    BY <2>1, <2>2, RingRoom
  <2> QED BY <2>1, <2>3, RingRowThen
<1>9. Goes <=> Took # 0
  BY DEF Took, Size
<1>10. /\ Goes => Took = Size
       /\ Size \in 1..2 /\ Took \in 0..2
  BY DEF Took, Size
<1> DEFINE b == Round1(a, n)
           Q(k) == k \in 1..Took /\ Lane(k).rsEnt = u
<1>11. alloc'[u] = IF Q(2) THEN Round1(IF Q(1) THEN b ELSE a, n)
                      ELSE IF Q(1) THEN b ELSE a
  <2>1. alloc'[u] =
          IF Goes /\ Required(u, 2)
            THEN Round1(IF fe.dcd1.rsEnt = u THEN Round1(a, n) ELSE a, n)
          ELSE IF Goes /\ Required(u, 1) THEN Round1(a, n) ELSE a
    BY <1>0, AllocThen
  <2>2. Goes /\ Required(u, 1) <=> Q(1)
    <3>1. ~Lane(1).invalid
      BY DEF FrontOk, Lane
    <3>2. Goes <=> 1 \in 1..Took
      BY <1>9, <1>10
    <3> QED BY <3>1, <3>2 DEF Required
  <2>3. Goes /\ Required(u, 2) <=> Q(2)
    <3>1. Goes /\ ~Lane(2).invalid <=> 2 \in 1..Took
      <4>1. Lane(2) = fe.dcd2
        BY DEF Lane
      <4>2. Size = 2 <=> ~Lane(2).invalid
        BY <4>1 DEF Size
      <4>3. 2 \in 1..Took <=> Took = 2
        BY <1>10
      <4> QED BY <1>9, <1>10, <4>2, <4>3
    <3> QED BY <3>1 DEF Required
  <2>4. Q(2) => (fe.dcd1.rsEnt = u <=> Q(1))
    <3>1. Lane(1) = fe.dcd1
      BY DEF Lane
    <3>2. 2 \in 1..Took => 1 \in 1..Took
      BY <1>10
    <3> QED BY <3>1, <3>2
  <2> QED BY <2>1, <2>2, <2>3, <2>4
<1>12. /\ Q(1) => RowOf(1).row = a
       /\ Q(2) => RowOf(2).row = (IF Q(1) THEN b ELSE a)
       /\ Q(1) /\ Q(2) => a # b
  <2>1. \A k : Q(k) => Goes /\ k \in 1..Size
    BY <1>9, <1>10
  <2>2. Q(1) => RowOf(1).row = a
    <3>1. Q(1) => RowOf(1).row = IF 1 = 2 /\ fe.dcd1.rsEnt = u THEN b ELSE a
      BY <2>1, RingRoom
    <3> QED BY <3>1
  <2>3. Q(2) => RowOf(2).row = (IF Q(1) THEN b ELSE a)
    <3>1. Q(2) => RowOf(2).row = IF 2 = 2 /\ fe.dcd1.rsEnt = u THEN b ELSE a
      BY <2>1, RingRoom
    <3>2. Q(2) => (fe.dcd1.rsEnt = u <=> Q(1))
      <4>1. Lane(1) = fe.dcd1
        BY DEF Lane
      <4>2. 2 \in 1..Took => 1 \in 1..Took
        BY <1>10
      <4> QED BY <4>1, <4>2
    <3> QED BY <3>1, <3>2
  <2>4. Q(1) /\ Q(2) => a # b
    <3>1. SUFFICES ASSUME Q(1), Q(2) PROVE a # b
      OBVIOUS
    <3>2. Goes /\ Size = 2
      BY <1>10, <2>1, <3>1
    <3>3. RowOf(1).row # RowOf(2).row
      BY <3>1, <3>2 DEF RowsDiffer
    <3> QED BY <2>2, <2>3, <3>1, <3>3
  <2> QED BY <2>2, <2>3, <2>4
<1>13. a \in 0..(n-1) /\ b \in 0..(n-1)
  <2>1. a \in 0..(n-1)
    BY <1>1 DEF RingAge
  <2> HIDE DEF a, n
  <2> QED BY <1>0, <2>1 DEF Round1
<1>14. \A i \in B1 : h[i] \in Int /\ h[i] < L1
  <2>1. SUFFICES ASSUME NEW i \in B1 PROVE h[i] \in Int /\ h[i] < L1
    OBVIOUS
  <2>2. /\ h[i] = AgesIn(u)[i] - Count /\ h[i] \in Int
        /\ AgesIn(u)[i] < Waiting /\ AgesIn(u)[i] \in Int
    BY <1>3, <1>5
  <2> HIDE DEF h, B1
  <2> QED BY <1>4, <2>2
<1>15. L1 \in Int
  BY <1>4
<1>16. RingAge(RowsIn(u)', h, alloc'[u], n)
  <2> DEFINE B2 == RowsIn(u)'
             a2 == alloc'[u]
             N1 == {i \in 0..(n-1) : \E k \in 1..Took : Lane(k).rsEnt = u
                                                      /\ RowOf(k).row = i}
  <2>0. SUFFICES RingAge(B2, h, a2, n)
    OBVIOUS
  <2>1. B2 = B1 \cup N1
    BY <1>7
  <2>2. CASE ~Q(1) /\ ~Q(2)
    <3>1. N1 = {}
      BY <1>10, <2>2
    <3>2. B2 = B1 /\ a2 = a
      BY <1>11, <2>1, <2>2, <3>1
    <3> HIDE DEF B2, a2, a, B1, n, h
    <3> QED BY <1>6, <3>2
  <2>3. ASSUME NEW k \in 1..2, Q(k), \A j \in 1..2 : Q(j) => j = k
        PROVE  RingAge(B2, h, a2, n)
    <3>1. RowOf(k).row = a /\ a2 = b
      BY <1>11, <1>12, <2>3
    <3>2. N1 = {a}
      <4>1. N1 \subseteq {a}
        BY <1>10, <2>3, <3>1
      <4>2. a \in N1
        BY <1>13, <2>3, <3>1
      <4> QED BY <4>1, <4>2
    <3>3. h[a] = L1 + k - 1 /\ a \notin B1
      BY <1>8, <2>3, <3>1
    <3>4. h[a] \in Int /\ \A i \in B1 : h[i] < h[a]
      <4> HIDE DEF h, B1, L1, a
      <4> QED BY <1>14, <1>15, <3>3
    <3>5. RingAge(B1 \cup {a}, h, b, n)
      <4>1. b = IF a + 1 = n THEN 0 ELSE a + 1
        BY DEF Round1
      <4> HIDE DEF h, B1, L1, a, b, n
      <4> QED BY <1>6, <3>3, <3>4, <4>1, RingWrite
    <3>6. B2 = B1 \cup {a}
      BY <2>1, <3>2
    <3> HIDE DEF h, B1, L1, a, b, n, B2, a2
    <3> QED BY <3>1, <3>5, <3>6
  <2>4. CASE Q(1) /\ Q(2)
    <3>1. RowOf(1).row = a /\ RowOf(2).row = b /\ a # b /\ a2 = Round1(b, n)
      BY <1>11, <1>12, <2>4
    <3>2. N1 = {a, b}
      <4>1. N1 \subseteq {a, b}
        BY <1>10, <3>1
      <4>2. a \in N1 /\ b \in N1
        BY <1>13, <2>4, <3>1
      <4> QED BY <4>1, <4>2
    <3>3. h[a] = L1 + 1 - 1 /\ a \notin B1 /\ h[b] = L1 + 2 - 1 /\ b \notin B1
      BY <1>8, <2>4, <3>1
    <3>4. h[a] \in Int /\ (\A i \in B1 : h[i] < h[a])
          /\ h[b] \in Int /\ (\A i \in B1 : h[i] < h[b]) /\ h[a] < h[b]
      <4> HIDE DEF h, B1, L1, a, b
      <4> QED BY <1>14, <1>15, <3>3
    <3> DEFINE B3 == B1 \cup {a}
    <3>5. RingAge(B3, h, b, n)
      <4>1. b = IF a + 1 = n THEN 0 ELSE a + 1
        BY DEF Round1
      <4> HIDE DEF h, B1, L1, a, b, n
      <4> QED BY <1>6, <3>3, <3>4, <4>1, RingWrite
    <3>6. b \notin B3 /\ \A i \in B3 : h[i] < h[b]
      BY <3>1, <3>3, <3>4
    <3>7. RingAge(B3 \cup {b}, h, a2, n)
      <4>1. a2 = IF b + 1 = n THEN 0 ELSE b + 1
        BY <3>1 DEF Round1
      <4> HIDE DEF h, B1, B3, L1, a, b, n, a2
      <4> QED BY <3>4, <3>5, <3>6, <4>1, RingWrite
    <3>8. B2 = B3 \cup {b}
      BY <2>1, <3>2
    <3> HIDE DEF h, B1, L1, a, b, n, B2, a2, B3
    <3> QED BY <3>7, <3>8
  <2> HIDE DEF B2, a2, N1, h
  <2>5. 1 \in 1..2 /\ 2 \in 1..2 /\ \A j \in 1..2 : j = 1 \/ j = 2
    OBVIOUS
  <2>6. CASE Q(1) /\ ~Q(2)
    BY <2>3, <2>5, <2>6
  <2>7. CASE ~Q(1) /\ Q(2)
    BY <2>3, <2>5, <2>7
  <2> QED BY <2>2, <2>4, <2>6, <2>7
<1>17. ASSUME c # None PROVE c \in B /\ \A i \in RowsIn(u)' : AgesIn(u)[c] - Count < h[i]
  <2>1. c \in B /\ \A j \in B1 : AgesIn(u)[c] < AgesIn(u)[j]
    BY <1>2, <1>17
  <2>2. AgesIn(u)[c] \in Int
    BY <1>3, <2>1
  <2>3. AgesIn(u)[c] < Waiting
    <3> DEFINE x == <<u, c>>
    <3>1. c \in 0..(n-1) /\ rs[u][c].busy
      BY <2>1 DEF RowsIn
    <3>2. x \in Spots /\ Held(x) /\ x[1] # "lane" /\ AgeAt(x) = Age(rs[u][c].rrftag)
      BY <1>0, <3>1, SpotIs, RowSpot
    <3>3. AgesIn(u)[c] = AgeAt(x)
      BY <3>1, <3>2 DEF AgesIn
    <3> HIDE DEF x
    <3> QED BY <3>2, <3>3, HeldAge
  <2>4. SUFFICES ASSUME NEW i \in RowsIn(u)' PROVE AgesIn(u)[c] - Count < h[i]
    BY <2>1
  <2>5. CASE i \in B1
    <3>1. h[i] = AgesIn(u)[i] - Count /\ AgesIn(u)[c] < AgesIn(u)[i] /\ AgesIn(u)[i] \in Int
      BY <1>3, <1>5, <2>1, <2>5
    <3> HIDE DEF c, h, B1
    <3> QED BY <1>4, <2>2, <3>1
  <2>6. CASE i \notin B1
    <3>1. PICK k \in 1..Took : Lane(k).rsEnt = u /\ RowOf(k).row = i
      BY <1>7, <2>4, <2>6
    <3>2. h[i] = L1 + k - 1 /\ k \in Int /\ k >= 1
      BY <1>8, <1>10, <3>1
    <3> HIDE DEF h, c
    <3> QED BY <1>4, <2>2, <2>3, <3>2
  <2> QED BY <2>5, <2>6
<1> QED BY <1>16, <1>17 DEF InRing

(* After a cycle the branches still wait in the order of their ages.        *)
LEMMA BrOrderKept ==
  ASSUME CoreInv, ClockEdge
  PROVE  BrOrder'
<1> USE DEF CoreInv
<1> DEFINE n == BRANCH_ENT_NUM
           c == Issue("br")
<1>0. "br" \in Units /\ "br" \in InOrder /\ EntNum("br") = n /\ n \in Nat \ {0}
  BY StationSize DEF Units, InOrder
<1>1. alloc'["br"] \in 0..(n-1)
  BY <1>0, AllocThen
<1>2. CASE Wires.mis
  <2>1. RowsIn("br")' = {}
    <3>1. SUFFICES ASSUME NEW i \in 0..(n-1), rs'["br"][i].busy PROVE FALSE
      BY <1>0 DEF RowsIn
    <3> DEFINE x == <<"br", i>>
    <3>2. Held(x)' /\ IsBr(x)' /\ x \in Spots /\ x[1] # "lane"
      BY <1>0, <3>1, RowSpotThen, SpotIs
    <3> HIDE DEF x
    <3>3. PICK y \in Spots : From(y, x)
      BY <3>2, Origin
    <3>4. Held(y) /\ ~Ended(y) /\ IsBr(y)
      BY <3>2, <3>3 DEF From, Carried
    <3> QED BY <1>2, <3>4, Survivor
  <2> QED BY <1>0, <1>1, <2>1 DEF BrOrder, InRing, RingAge
<1>3. CASE ~Wires.mis
  <2>1. RowsDiffer("br")
    BY BranchRowsApart DEF RowsDiffer
  <2>2. InRing("br")
    BY DEF BrOrder
  <2>3. /\ InRing("br")'
        /\ c # None => /\ c \in RowsIn("br")
                       /\ \A i \in RowsIn("br")' : AgesIn("br")[c] - Count < AgesIn("br")'[i]
    BY <1>0, <1>3, <2>1, <2>2, RingKept
  <2>4. ASSUME ex'["br"].full, NEW i \in RowsIn("br")', NEW p, p = ex'["br"].src.rrftag
        PROVE  Age(p)' < AgesIn("br")'[i]
    <3>1. c # None
      BY <1>0, <2>4, ExThen DEF Stays
    <3>2. c \in 0..(n-1) /\ rs["br"][c].busy
      BY <1>0, <2>3, <3>1 DEF RowsIn
    <3>3. p = rs["br"][c].rrftag
      <4>1. IsEntry(rs["br"][c])
        BY <1>0, <3>2 DEF Shapes
      <4> QED BY <1>0, <2>4, <3>1, <4>1, ExThen
    <3> DEFINE x == <<"br", c>>
    <3>4. x \in Spots /\ Held(x) /\ x[1] # "lane" /\ At(x) = rs["br"][c]
      BY <1>0, <3>2, SpotIs, RowSpot
    <3> HIDE DEF x
    <3>5. p \in Ptrs /\ Age(p) < Waiting /\ Age(p) >= Count
      BY <3>3, <3>4, HeldAge
    <3>6. Age(p)' = Age(p) - Count
      BY <3>5, KeptEntry
    <3>7. AgesIn("br")[c] = Age(p)
      BY <1>0, <3>2, <3>3 DEF AgesIn
    <3>8. AgesIn("br")[c] - Count < AgesIn("br")'[i]
      BY <2>3, <2>4, <3>1
    <3> QED BY <3>6, <3>7, <3>8
  <2>5. ex'["br"].full => \A i \in RowsIn("br")' : Age(ex["br"].src.rrftag)' < AgesIn("br")'[i]
    <3>1. SUFFICES ASSUME ex'["br"].full, NEW i \in RowsIn("br")'
                   PROVE  Age(ex["br"].src.rrftag)' < AgesIn("br")'[i]
      OBVIOUS
    <3> PICK p : p = ex'["br"].src.rrftag
      OBVIOUS
    <3>2. Age(p)' < AgesIn("br")'[i]
      BY <2>4, <3>1
    <3>3. Age(p)' = Age(ex["br"].src.rrftag)'
      BY DEF Age
    <3> QED BY <3>2, <3>3
  <2> QED BY <2>3, <2>5 DEF BrOrder
<1> QED BY <1>2, <1>3

-----------------------------------------------------------------------------
(* Results and tables.                                                      *)
LEMMA ResultsValidKept ==
  ASSUME CoreInv, ClockEdge
  PROVE  ResultsValid'
<1> USE DEF CoreInv
<1>1. SUFFICES ASSUME NEW p \in InFlight', rob'[p].rdUse, rob'[p].wbFin
               PROVE  rrf'.valid[p]
  BY DEF ResultsValid
<1>2. p \in Ptrs /\ Age(p)' < Waiting'
  BY InFlightIs
<1>3. ~Given(p)
  <2>1. SUFFICES ASSUME NEW k \in 1..Took, p = Inc(rrf.reqPtr, k-1) PROVE FALSE
    BY DEF Given
  <2>2. rob'[p] = RobEntry(k)
    BY <1>2, <2>1, RobThen
  <2>3. k \in 1..2
    <3>1. Took \in 0..2
      BY RingThen
    <3> QED BY <3>1
  <2> QED BY <1>1, <2>2, <2>3, RobEntryIs
<1>4. Age(p) < Waiting
  BY <1>2, <1>3, EntryBefore
<1>5. p \in InFlight
  BY <1>2, <1>4, InFlightIs
<1>6. rob[p].rdUse /\ (rob[p].wbFin \/ p \in WrittenBack)
  BY <1>1, <1>2, <1>3, RobThen
<1>7. Served(ByPasses, p) \/ rrf.valid[p]
  <2>1. CASE rob[p].wbFin
    BY <1>5, <1>6, <2>1 DEF ResultsValid
  <2>2. CASE p \in WrittenBack
    BY <1>6, <2>2, Finishes
  <2> QED BY <1>6, <2>1, <2>2
<1> QED BY <1>2, <1>3, <1>7, RrfThen

(* The instructions up to an age, and a table row that names the youngest   *)
(* writer of every register among the instructions of a set.                *)
Upto(age) == {p \in InFlight : Age(p) < age}
Writers(S, r) == {p \in S : rob[p].rdUse /\ rob[p].rdIdx = r}
Fits(f, g, S) ==
  \A r \in Regs : LET w == Writers(S, r)
                  IN  /\ f[r] = (w # {})
                      /\ w # {} => g[r] \in w /\ \A p \in w : Age(p) <= Age(g[r])

(* RowRight in terms of the instructions up to an age.                      *)
LEMMA RowFits ==
  ASSUME NEW t, NEW age
  PROVE  RowRight(t, age) <=> Fits(arf.busy[t], arf.rename[t], Upto(age))
<1>1. ASSUME NEW r
      PROVE  Writers(Upto(age), r)
               = {p \in InFlight : Age(p) < age /\ rob[p].rdUse /\ rob[p].rdIdx = r}
  BY DEF Writers, Upto
<1> QED BY <1>1 DEF RowRight, Fits

(* RowRight after a cycle.                                                  *)
LEMMA RowFitsThen ==
  ASSUME NEW t, NEW age
  PROVE  RowRight(t, age)' <=> Fits(arf.busy[t], arf.rename[t], Upto(age))'
<1>1. ASSUME NEW r
      PROVE  Writers(Upto(age), r)'
               = {p \in InFlight : Age(p) < age /\ rob[p].rdUse /\ rob[p].rdIdx = r}'
  BY DEF Writers, Upto
<1> QED BY <1>1 DEF RowRight, Fits

(* A commit clears the row of a register whose youngest writer it is.       *)
LEMMA CommitMatches ==
  ASSUME CoreInv, NEW p \in InFlight, rob[p].rdUse
  PROVE  Age(p) < Count <=>
           \E k \in 1..2 : LET c == ComPort(Count, k)
                           IN  c.en /\ c.rd = rob[p].rdIdx /\ c.ptr = p
<1> USE DEF CoreInv
<1>1. comPtr \in Ptrs /\ p \in Ptrs /\ Age(p) = Gap(comPtr, p) /\ Age(p) \in Ptrs
      /\ Count \in 0..2
  BY RingFacts, AgeIs, CountFacts DEF InFlight
<1>2. ASSUME NEW k \in 1..2
      PROVE  Inc(comPtr, k-1) = p <=> Age(p) = k - 1
  BY <1>1, RingSize DEF Gap, Inc
<1>3. ASSUME NEW k \in 1..2
      PROVE  LET c == ComPort(Count, k)
             IN  c.en /\ c.rd = rob[p].rdIdx /\ c.ptr = p <=> Count >= k /\ Age(p) = k - 1
  <2> DEFINE q == Inc(comPtr, k-1)
             c == [en |-> Count >= k /\ rob[q].rdUse, ptr |-> q, rd |-> rob[q].rdIdx,
                   data |-> rrf.data[q]]
  <2>1. ComPort(Count, k) = c
    BY DEF ComPort
  <2>2. c.en = (Count >= k /\ rob[q].rdUse) /\ c.ptr = q /\ c.rd = rob[q].rdIdx
    OBVIOUS
  <2>3. q = p <=> Age(p) = k - 1
    BY <1>2
  <2> HIDE DEF c, q
  <2> QED BY <2>1, <2>2, <2>3
<1>4. Age(p) < Count <=> \E k \in 1..2 : Count >= k /\ Age(p) = k - 1
  <2> DEFINE a == Age(p)
  <2>1. a \in Int /\ a >= 0 /\ Count \in 0..2
    BY <1>1, RingSize
  <2>2. a < Count => (a = 0 /\ Count >= 1) \/ (a = 1 /\ Count >= 2)
    <3> HIDE DEF a
    <3> QED BY <2>1
  <2>3. (a = 0 /\ Count >= 1) \/ (a = 1 /\ Count >= 2)
          => \E k \in 1..2 : Count >= k /\ a = k - 1
    <3>1. 1 \in 1..2 /\ 2 \in 1..2 /\ 1 - 1 = 0 /\ 2 - 1 = 1
      OBVIOUS
    <3> HIDE DEF a
    <3> QED BY <3>1
  <2>4. (\E k \in 1..2 : Count >= k /\ a = k - 1) => a < Count
    <3> HIDE DEF a
    <3> QED BY <2>1
  <2> QED BY <2>2, <2>3, <2>4
<1> QED BY <1>3, <1>4

(* The tables after the commits of a cycle.                                 *)
LEMMA ComIs ==
  ASSUME CoreInv, NEW t \in RenRows
  PROVE  /\ Com.rename = arf.rename
         /\ DOMAIN Com = {"reg", "busy", "rename"}
         /\ \A r \in Regs : Com.busy[t][r] =
              (arf.busy[t][r] /\ ~\E k \in 1..2 : LET c == ComPort(Count, k)
                                                  IN  c.en /\ c.rd = r /\ c.ptr = arf.rename[t][r])
<1> USE DEF CoreInv
<1> DEFINE com == <<ComPort(Count, 1), ComPort(Count, 2)>>
           bs == [u \in RenRows |-> [r \in Regs |->
                    arf.busy[u][r] /\ \A k \in 1..2 : ~Matches(com[k], arf, u, r)]]
           gs == [r \in Regs |->
        CASE com[2].en /\ com[2].rd = r /\ r # 0 -> com[2].data
          [] com[1].en /\ com[1].rd = r /\ r # 0
             /\ ~(com[2].en /\ com[2].rd = r)     -> com[1].data
          [] OTHER                                -> arf.reg[r]]
<1>1. Com = [arf EXCEPT !.busy = bs, !.reg = gs]
  BY DEF Com, ArfCommit
<1>2. DOMAIN arf = {"reg", "busy", "rename"}
  BY DEF TablesOk
<1>3. \A r \in Regs : bs[t][r] =
        (arf.busy[t][r] /\ ~\E k \in 1..2 : com[k].en /\ com[k].rd = r
                                             /\ com[k].ptr = arf.rename[t][r])
  BY DEF Matches
<1>4. \A k \in 1..2 : com[k] = ComPort(Count, k)
  OBVIOUS
<1> HIDE DEF bs, gs, com
<1>5. Com.rename = arf.rename /\ Com.busy = bs /\ DOMAIN Com = {"reg", "busy", "rename"}
  BY <1>1, <1>2
<1> QED BY <1>3, <1>4, <1>5

(* The commits of a cycle leave a table row right about the instructions    *)
(* that stay.                                                               *)
LEMMA ComFits ==
  ASSUME CoreInv, NEW t \in RenRows, NEW S, S \subseteq InFlight,
         Fits(arf.busy[t], arf.rename[t], S), NEW S1, S1 = {p \in S : Age(p) >= Count}
  PROVE  Fits(Com.busy[t], Com.rename[t], S1)
<1> USE DEF CoreInv
<1>1. SUFFICES ASSUME NEW r \in Regs
               PROVE  LET w == Writers(S1, r)
                      IN  /\ Com.busy[t][r] = (w # {})
                          /\ w # {} => /\ Com.rename[t][r] \in w
                                       /\ \A p \in w : Age(p) <= Age(Com.rename[t][r])
  BY DEF Fits
<1> DEFINE w == Writers(S, r)
           v == Writers(S1, r)
           q == arf.rename[t][r]
<1>2. /\ arf.busy[t][r] = (w # {})
      /\ w # {} => q \in w /\ \A p \in w : Age(p) <= Age(q)
  BY DEF Fits
<1>3. v = {p \in w : Age(p) >= Count}
  BY DEF Writers
<1>4. Count \in Int /\ \A p \in w : Age(p) \in Int /\ p \in InFlight /\ rob[p].rdUse
                                    /\ rob[p].rdIdx = r
  BY CountFacts, AgeIs, RingSize DEF Writers, InFlight
<1>5. /\ Com.rename[t][r] = q
      /\ Com.busy[t][r] =
           (arf.busy[t][r] /\ ~\E k \in 1..2 : LET c == ComPort(Count, k)
                                               IN  c.en /\ c.rd = r /\ c.ptr = q)
  BY ComIs
<1>6. w # {} => (Com.busy[t][r] <=> ~(Age(q) < Count))
  <2>1. SUFFICES ASSUME w # {} PROVE Com.busy[t][r] <=> ~(Age(q) < Count)
    OBVIOUS
  <2>2. q \in InFlight /\ rob[q].rdUse /\ rob[q].rdIdx = r
    BY <1>2, <1>4, <2>1
  <2>3. Age(q) < Count <=> \E k \in 1..2 : LET c == ComPort(Count, k)
                                           IN  c.en /\ c.rd = r /\ c.ptr = q
    <3> HIDE DEF q
    <3> QED BY <2>2, CommitMatches
  <2> HIDE DEF w, q
  <2> QED BY <1>2, <1>5, <2>1, <2>3
<1>7. Com.busy[t][r] \in BOOLEAN
  BY <1>5
<1>8. w = {} => ~Com.busy[t][r]
  BY <1>2, <1>5
<1>9. w # {} => (v # {} <=> ~(Age(q) < Count))
  <2> HIDE DEF w, v, q
  <2> QED BY <1>2, <1>3, <1>4
<1>10. v # {} => q \in v /\ \A p \in v : Age(p) <= Age(q)
  <2> HIDE DEF w, v, q
  <2> QED BY <1>2, <1>3, <1>4
<1>11. Com.busy[t][r] = (v # {})
  <2>1. w = {} => v = {}
    BY <1>3
  <2> HIDE DEF w, v, q
  <2> QED BY <1>6, <1>7, <1>8, <1>9, <2>1
<1> QED BY <1>5, <1>10, <1>11

(* The clock alone changes nothing: everybody's age goes down.              *)
LEMMA ClockFits ==
  ASSUME CoreInv, ClockEdge, NEW S, S \subseteq InFlight, \A p \in S : Age(p) >= Count,
         NEW f, NEW g, Fits(f, g, S)
  PROVE  Fits(f, g, S)'
<1> USE DEF CoreInv
<1>1. ASSUME NEW p \in S
      PROVE  /\ Age(p)' = Age(p) - Count /\ Age(p) \in Int /\ Count \in Int
             /\ rob'[p].rdUse = rob[p].rdUse /\ rob'[p].rdIdx = rob[p].rdIdx
  <2>1. p \in Ptrs /\ Age(p) < Waiting /\ Age(p) >= Count
    BY InFlightIs
  <2>2. ~Given(p) /\ Age(p)' = Age(p) - Count
    BY <2>1, KeptEntry
  <2>3. rob'[p].rdUse = rob[p].rdUse /\ rob'[p].rdIdx = rob[p].rdIdx
    BY <2>1, <2>2, RobThen
  <2>4. Age(p) \in Int /\ Count \in Int
    BY <2>1, AgeIs, CountFacts, RingSize
  <2> QED BY <2>2, <2>3, <2>4
<1>2. ASSUME NEW r PROVE Writers(S, r)' = Writers(S, r)
  BY <1>1 DEF Writers
<1>3. ASSUME NEW p \in S, NEW q \in S, Age(p) <= Age(q) PROVE Age(p)' <= Age(q)'
  <2>1. Age(p)' = Age(p) - Count /\ Age(q)' = Age(q) - Count
    BY <1>1
  <2>2. Age(p) \in Int /\ Age(q) \in Int /\ Count \in Int
    BY <1>1
  <2>3. Age(p) - Count <= Age(q) - Count
    BY <1>3, <2>2
  <2> QED BY <2>1, <2>3
<1>4. SUFFICES ASSUME NEW r \in Regs
               PROVE  LET w == Writers(S, r)
                      IN  /\ f[r] = (w # {})
                          /\ w # {} => g[r] \in w /\ \A p \in w : Age(p)' <= Age(g[r])'
  BY <1>2 DEF Fits
<1> DEFINE w == Writers(S, r)
<1>5. /\ f[r] = (w # {})
      /\ w # {} => g[r] \in w /\ \A p \in w : Age(p) <= Age(g[r])
  BY DEF Fits
<1>6. w \subseteq S
  BY DEF Writers
<1> PICK q : q = g[r]
  OBVIOUS
<1>7. w # {} => q \in w /\ \A p \in w : Age(p)' <= Age(q)'
  <2> HIDE DEF w
  <2> QED BY <1>3, <1>5, <1>6
<1> QED BY <1>5, <1>7

(* Instructions that are dispatched are the youngest of all.                *)
Laned(d) == {Inc(rrf.reqPtr, k-1) : k \in 1..d}
Covers(d, r) == {k \in 1..d : Lane(k).rdUse /\ Lane(k).rdIdx = r}
TakenRow(f, d) == [r \in Regs |-> f[r] \/ Covers(d, r) # {}]
TakenName(g, d) ==
  [r \in Regs |-> CASE 2 \in Covers(d, r) -> Inc(rrf.reqPtr, 1)
                    [] Covers(d, r) = {1} -> rrf.reqPtr
                    [] OTHER              -> g[r]]

(* A group that is dispatched is added to a table row.                      *)
LEMMA TakeFits ==
  ASSUME CoreInv, ClockEdge, Goes, NEW S, S \subseteq InFlight,
         \A p \in S : Age(p) >= Count, NEW f, NEW g, Fits(f, g, S)',
         NEW d \in 0..Took,
         NEW f2, f2 = TakenRow(f, d), NEW g2, g2 = TakenName(g, d),
         NEW T, T = S \cup Laned(d)
  PROVE  Fits(f2, g2, T)'
<1> USE DEF CoreInv
<1> PICK q1, q2 : q1 = Inc(rrf.reqPtr, 1-1) /\ q2 = Inc(rrf.reqPtr, 2-1)
  OBVIOUS
<1>1. q1 = rrf.reqPtr /\ q2 = Inc(rrf.reqPtr, 1)
  BY RingFacts, RingSize DEF Inc
<1>2. Took = Size /\ Took \in 1..2 /\ d \in 0..2
  <2>1. Took = Size /\ Size \in 1..2
    BY DEF Took, Size
  <2> QED BY <2>1
<1>3. ASSUME NEW k \in 1..Took, NEW p, p = Inc(rrf.reqPtr, k-1)
      PROVE  /\ p \in Ptrs /\ rob'[p].rdUse = Lane(k).rdUse /\ rob'[p].rdIdx = Lane(k).rdIdx
             /\ Age(p)' = Waiting - Count + k - 1
  <2>1. p \in Ptrs /\ Age(p)' = Waiting - Count + k - 1
    BY <1>3, GivenAge
  <2>2. rob'[p] = RobEntry(k)
    BY <1>3, <2>1, RobThen
  <2>3. k \in 1..2
    BY <1>2
  <2> QED BY <2>1, <2>2, <2>3, RobEntryIs
<1>4. Waiting \in Int /\ Count \in Int
  BY RingFacts, CountFacts, RingSize
<1>5. ASSUME NEW p \in S
      PROVE  /\ Age(p)' = Age(p) - Count /\ Age(p) \in Int /\ Age(p) < Waiting
             /\ Age(p)' < Waiting - Count
  <2>1. p \in Ptrs /\ Age(p) < Waiting /\ Age(p) >= Count
    BY InFlightIs
  <2>2. Age(p)' = Age(p) - Count
    BY <2>1, KeptEntry
  <2>3. Age(p) \in Int
    BY <2>1, AgeIs, RingSize
  <2>4. Age(p) - Count < Waiting - Count
    BY <1>4, <2>1, <2>3
  <2> QED BY <2>1, <2>2, <2>3, <2>4
<1>6. SUFFICES ASSUME NEW r \in Regs
               PROVE  LET w == Writers(T, r)'
                      IN  /\ f2[r] = (w # {})
                          /\ w # {} => g2[r] \in w /\ \A p \in w : Age(p)' <= Age(g2[r])'
  BY DEF Fits
<1> DEFINE w == Writers(S, r)'
           v == Writers(T, r)'
           C == Covers(d, r)
<1>7. /\ f[r] = (w # {})
      /\ w # {} => g[r] \in w /\ \A p \in w : Age(p)' <= Age(g[r])'
  BY DEF Fits
<1>8. w \subseteq S
  BY DEF Writers
<1>9. C \subseteq 1..2 /\ C \subseteq 1..Took /\ C \subseteq 1..d
  BY <1>2 DEF Covers
<1>10. v = w \cup {Inc(rrf.reqPtr, k-1) : k \in C}
  <2>1. \A p : p \in v <=> p \in T /\ rob'[p].rdUse /\ rob'[p].rdIdx = r
    BY DEF Writers
  <2>2. \A p : p \in w <=> p \in S /\ rob'[p].rdUse /\ rob'[p].rdIdx = r
    BY DEF Writers
  <2>3. \A p : p \in T <=> p \in S \/ \E k \in 1..d : p = Inc(rrf.reqPtr, k-1)
    BY DEF Laned
  <2>4. \A k \in 1..d : \A p : p = Inc(rrf.reqPtr, k-1) =>
          (rob'[p].rdUse /\ rob'[p].rdIdx = r <=> k \in C)
    <3>1. SUFFICES ASSUME NEW k \in 1..d, NEW p, p = Inc(rrf.reqPtr, k-1)
                   PROVE  rob'[p].rdUse /\ rob'[p].rdIdx = r <=> k \in C
      OBVIOUS
    <3>2. k \in 1..Took
      BY <1>2
    <3>3. rob'[p].rdUse = Lane(k).rdUse /\ rob'[p].rdIdx = Lane(k).rdIdx
      BY <1>3, <3>1, <3>2
    <3> QED BY <3>3 DEF Covers
  <2> HIDE DEF v, w, C
  <2> QED BY <1>9, <2>1, <2>2, <2>3, <2>4
<1>11. f2[r] = (f[r] \/ C # {}) /\ g2[r] = CASE 2 \in C -> q2
                    [] C = {1} -> q1
                    [] OTHER   -> g[r]
  BY <1>1 DEF TakenRow, TakenName
<1>12. /\ 1 \in C => q1 \in v /\ Age(q1)' = Waiting - Count + 1 - 1
       /\ 2 \in C => q2 \in v /\ Age(q2)' = Waiting - Count + 2 - 1
       /\ \A p \in v : p \in S \/ (1 \in C /\ p = q1) \/ (2 \in C /\ p = q2)
  <2>1. 1 \in C => q1 \in v
    BY <1>10
  <2>2. 2 \in C => q2 \in v
    BY <1>10
  <2>3. 1 \in C => Age(q1)' = Waiting - Count + 1 - 1
    BY <1>3, <1>9
  <2>4. 2 \in C => Age(q2)' = Waiting - Count + 2 - 1
    BY <1>3, <1>9
  <2>5. \A p \in v : p \in S \/ (1 \in C /\ p = q1) \/ (2 \in C /\ p = q2)
    <3>1. SUFFICES ASSUME NEW p \in v, p \notin S
                   PROVE  (1 \in C /\ p = q1) \/ (2 \in C /\ p = q2)
      OBVIOUS
    <3>2. PICK k \in C : p = Inc(rrf.reqPtr, k-1)
      BY <1>8, <1>10, <3>1
    <3>3. k = 1 \/ k = 2
      BY <1>9
    <3> QED BY <3>2, <3>3
  <2> QED BY <2>1, <2>2, <2>3, <2>4, <2>5
<1> PICK a : a = Waiting - Count
  OBVIOUS
<1>13. /\ a \in Int
       /\ 1 \in C => Age(q1)' = a
       /\ 2 \in C => Age(q2)' = a + 1
       /\ \A p \in S : Age(p)' < a /\ Age(p)' \in Int
  <2>1. a \in Int /\ a + 1 - 1 = a /\ a + 2 - 1 = a + 1
    BY <1>4
  <2>2. \A p \in S : Age(p)' \in Int
    <3>1. SUFFICES ASSUME NEW p \in S PROVE Age(p)' \in Int
      OBVIOUS
    <3>2. Age(p)' = Age(p) - Count /\ Age(p) \in Int
      BY <1>5
    <3> QED BY <1>4, <3>2
  <2> QED BY <1>5, <1>12, <2>1, <2>2
<1>14. CASE 2 \in C
  <2>1. g2[r] = q2 /\ v # {} /\ f2[r] = TRUE
    BY <1>11, <1>12, <1>14
  <2>2. \A p \in v : Age(p)' <= a + 1
    <3>1. SUFFICES ASSUME NEW p \in v PROVE Age(p)' <= a + 1
      OBVIOUS
    <3>2. p \in S \/ (1 \in C /\ p = q1) \/ (2 \in C /\ p = q2)
      BY <1>12
    <3>3. (Age(p)' < a /\ Age(p)' \in Int) \/ Age(p)' = a \/ Age(p)' = a + 1
      BY <1>13, <3>2
    <3> QED BY <1>13, <3>3
  <2> QED BY <1>12, <1>13, <1>14, <2>1, <2>2
<1>15. CASE 2 \notin C /\ 1 \in C
  <2>1. C = {1}
    BY <1>9, <1>15
  <2>2. g2[r] = q1 /\ v # {} /\ f2[r] = TRUE
    BY <1>11, <1>12, <1>15, <2>1
  <2>3. \A p \in v : Age(p)' <= a
    <3>1. SUFFICES ASSUME NEW p \in v PROVE Age(p)' <= a
      OBVIOUS
    <3>2. p \in S \/ (1 \in C /\ p = q1)
      BY <1>12, <1>15
    <3>3. (Age(p)' < a /\ Age(p)' \in Int) \/ Age(p)' = a
      BY <1>13, <3>2
    <3> QED BY <1>13, <3>3
  <2> QED BY <1>12, <1>13, <1>15, <2>2, <2>3
<1>16. CASE 2 \notin C /\ 1 \notin C
  <2>1. C = {}
    BY <1>9, <1>16
  <2>2. v = w
    BY <1>10, <2>1
  <2>3. g2[r] = g[r] /\ f2[r] = f[r]
    <3>1. f[r] \in BOOLEAN
      BY <1>7
    <3> QED BY <1>11, <2>1, <3>1
  <2> QED BY <1>7, <2>2, <2>3
<1> QED BY <1>14, <1>15, <1>16
(* The tables after a cycle.                                                *)
LEMMA ArfThen ==
  ASSUME CoreInv, ClockEdge
  PROVE  /\ DOMAIN arf' = {"reg", "busy", "rename"}
         /\ Goes => arf' = ArfRename(Com, tg, <<Rename(1), Rename(2)>>)
         /\ \A t \in RenRows :
              LET s == IF Wires.mis THEN Wires.tag
                       ELSE IF Wires.suc /\ (t = Wires.tag \/ (t # Master /\ ~tg.valid[t]))
                              THEN Master ELSE t
              IN  ~Goes => arf'.busy[t] = Com.busy[s] /\ arf'.rename[t] = Com.rename[s]
<1> USE DEF CoreInv
<1>1. arf' = NextArf /\ DOMAIN Com = {"reg", "busy", "rename"}
  BY Edge, ComIs DEF RenRows
<1>2. Goes => ~Wires.mis /\ ~Wires.suc
  BY GoFacts
<1>3. Wires.mis \in BOOLEAN /\ Wires.suc \in BOOLEAN /\ ~(Wires.mis /\ Wires.suc)
  BY WireFacts
<1> DEFINE C == Com
<1>4. DOMAIN C = {"reg", "busy", "rename"}
  BY <1>1
<1>5. arf' = CASE Wires.mis -> ArfMisPred(C, Wires.tag)
               [] Wires.suc -> ArfSucPred(C, tg, Wires.tag)
               [] Goes      -> ArfRename(C, tg, <<Rename(1), Rename(2)>>)
               [] OTHER     -> C
  BY <1>1 DEF NextArf
<1> SUFFICES
      /\ DOMAIN arf' = {"reg", "busy", "rename"}
      /\ Goes => arf' = ArfRename(C, tg, <<Rename(1), Rename(2)>>)
      /\ \A t \in RenRows :
           LET s == IF Wires.mis THEN Wires.tag
                    ELSE IF Wires.suc /\ (t = Wires.tag \/ (t # Master /\ ~tg.valid[t]))
                           THEN Master ELSE t
           IN  ~Goes => arf'.busy[t] = C.busy[s] /\ arf'.rename[t] = C.rename[s]
  OBVIOUS
<1> HIDE DEF C
<1>6. CASE Wires.mis
  <2>1. arf' = ArfMisPred(C, Wires.tag) /\ ~Goes
    BY <1>2, <1>3, <1>5, <1>6
  <2> QED BY <1>4, <1>6, <2>1 DEF ArfMisPred
<1>7. CASE Wires.suc /\ ~Wires.mis
  <2>1. arf' = ArfSucPred(C, tg, Wires.tag) /\ ~Goes
    BY <1>2, <1>5, <1>7
  <2>2. /\ DOMAIN arf' = {"reg", "busy", "rename"}
        /\ \A t \in RenRows :
             LET s == IF t = Wires.tag \/ (t # Master /\ ~tg.valid[t]) THEN Master ELSE t
             IN  arf'.busy[t] = C.busy[s] /\ arf'.rename[t] = C.rename[s]
    BY <1>4, <2>1 DEF ArfSucPred
  <2> QED BY <1>7, <2>1, <2>2
<1>8. CASE Goes
  <2>1. arf' = ArfRename(C, tg, <<Rename(1), Rename(2)>>)
    BY <1>2, <1>5, <1>8
  <2>2. DOMAIN arf' = {"reg", "busy", "rename"}
    BY <1>4, <2>1 DEF ArfRename
  <2> QED BY <1>8, <2>1, <2>2
<1>9. CASE ~Wires.mis /\ ~Wires.suc /\ ~Goes
  <2>1. arf' = C
    BY <1>5, <1>9
  <2> QED BY <1>4, <1>9, <2>1
<1> QED BY <1>3, <1>6, <1>7, <1>8, <1>9

(* A cycle leaves the shape of the tables.                                  *)
LEMMA TablesKept ==
  ASSUME CoreInv, ClockEdge
  PROVE  TablesOk'
BY ArfThen, RrfThen DEF CoreInv, TablesOk

(* A group that is dispatched adds its first d instructions to a row.       *)
LEMMA RenameRow ==
  ASSUME CoreInv, ClockEdge, Goes, NEW t \in RenRows, NEW d \in 0..Took,
         NEW ren, ren = <<Rename(1), Rename(2)>>,
         \A k \in 1..2 : Takes(tg, ren, t, k) <=> k \in 1..d /\ Lane(k).rdUse
  PROVE  /\ arf'.busy[t] = TakenRow(Com.busy[t], d)
         /\ arf'.rename[t] = TakenName(Com.rename[t], d)
<1> USE DEF CoreInv
<1> DEFINE C == Com
           last(r) == {k \in 1..2 : Takes(tg, ren, t, k) /\ ren[k].rd = r}
<1>1. DOMAIN C = {"reg", "busy", "rename"} /\ arf' = ArfRename(C, tg, ren)
  BY ComIs, ArfThen
<1>2. /\ ren[1].ptr = rrf.reqPtr /\ ren[2].ptr = Inc(rrf.reqPtr, 1)
      /\ \A k \in 1..2 : ren[k].rd = Lane(k).rdIdx
  <2>1. Inc(rrf.reqPtr, 1-1) = rrf.reqPtr
    BY RingFacts, RingSize DEF Inc
  <2>2. ren[1] = Rename(1) /\ ren[2] = Rename(2)
    OBVIOUS
  <2> QED BY <2>1, <2>2 DEF Rename
<1>3. Took \in 0..2
  BY RingThen
<1>4. \A r \in Regs : last(r) = Covers(d, r)
  BY <1>2, <1>3 DEF Covers
<1>5. /\ arf'.busy[t] = [r \in Regs |-> C.busy[t][r] \/ last(r) # {}]
      /\ arf'.rename[t] = [r \in Regs |-> CASE 2 \in last(r) -> ren[2].ptr
                                            [] last(r) = {1} -> ren[1].ptr
                                            [] OTHER         -> C.rename[t][r]]
  <2> HIDE DEF C
  <2> QED BY <1>1 DEF ArfRename
<1>6. arf'.busy[t] = [r \in Regs |-> C.busy[t][r] \/ Covers(d, r) # {}]
  <2> HIDE DEF C, last
  <2> QED BY <1>4, <1>5
<1>7. arf'.rename[t] = [r \in Regs |-> CASE 2 \in Covers(d, r) -> Inc(rrf.reqPtr, 1)
                                         [] Covers(d, r) = {1} -> rrf.reqPtr
                                         [] OTHER              -> C.rename[t][r]]
  <2> HIDE DEF C, last
  <2> QED BY <1>2, <1>4, <1>5
<1> QED BY <1>6, <1>7 DEF TakenRow, TakenName

-----------------------------------------------------------------------------
(* The instructions up to an age, in this cycle and the next.               *)
LEMMA UptoThen ==
  ASSUME CoreInv, ClockEdge, ~Wires.mis, NEW d \in 0..Took, NEW a \in Int, NEW b \in Int,
         \/ d = 0 /\ a <= Waiting /\ b = a - Count
         \/ a >= Waiting /\ b = Waiting - Count + d
         \/ a >= Waiting /\ b >= Waiting' /\ d = Took
  PROVE  Upto(b)' = {p \in Upto(a) : Age(p) >= Count} \cup Laned(d)
<1> USE DEF CoreInv
<1>1. /\ Count \in 0..2 /\ Took \in 0..2 /\ RingOk' /\ Waiting \in 0..RRF_NUM
      /\ Waiting' = Waiting - Count + Took
  BY RingThen, RingFacts
<1>2. /\ Upto(a) = {p \in Ptrs : Age(p) < Waiting /\ Age(p) < a}
      /\ Upto(b)' = {p \in Ptrs : Age(p)' < Waiting' /\ Age(p)' < b}
  BY InFlightIs DEF Upto
<1>3. Waiting' \in Int
  BY WaitingThen
<1>4. ASSUME NEW k \in 1..Took, NEW p, p = Inc(rrf.reqPtr, k-1)
      PROVE  /\ p \in Ptrs /\ Given(p)
             /\ p \in Upto(b)' <=> k <= d
             /\ p \in Laned(d) <=> k <= d
  <2>1. p \in Ptrs /\ Given(p) /\ Age(p)' = Waiting - Count + k - 1 /\ Age(p)' < Waiting'
    BY <1>4, GivenAge
  <2>2. Waiting - Count + k - 1 < b <=> k <= d
    <3> DEFINE W == Waiting
               V == Waiting'
               C == Count
               T == Took
    <3>1. /\ W \in Int /\ C \in Int /\ T \in Int /\ V = W - C + T
          /\ k \in 1..T /\ d \in 0..T
          /\ \/ d = 0 /\ a <= W /\ b = a - C
             \/ a >= W /\ b = W - C + d
             \/ a >= W /\ b >= V /\ d = T
      BY <1>1, RingSize
    <3>2. W - C + k - 1 < b <=> k <= d
      <4> HIDE DEF W, V, C, T
      <4> QED BY <3>1
    <3> QED BY <3>2
  <2>3. ASSUME NEW j \in 1..d, p = Inc(rrf.reqPtr, j-1) PROVE k <= d
    <3>1. j \in 1..Took
      BY <1>1
    <3>2. Age(p)' = Waiting - Count + j - 1
      BY <2>3, <3>1, GivenAge
    <3>3. k = j
      <4> DEFINE c == Waiting - Count
      <4>1. c + k - 1 = c + j - 1 /\ c \in Int
        BY <1>1, <2>1, <3>2, RingSize
      <4> HIDE DEF c
      <4> QED BY <4>1, SameSum
    <3> QED BY <3>3
  <2>4. k <= d => k \in 1..d
    BY <1>1
  <2>5. p \in Laned(d) <=> k <= d
    BY <1>4, <2>3, <2>4 DEF Laned
  <2>6. p \in Upto(b)' <=> k <= d
    BY <1>2, <2>1, <2>2
  <2> QED BY <2>1, <2>5, <2>6
<1>5. ASSUME NEW p \in Ptrs, ~Given(p)
      PROVE  p \in Upto(b)' <=> p \in Upto(a) /\ Age(p) >= Count
  <2> DEFINE A == Age(p)
             W == Waiting
             V == Waiting'
             C == Count
             T == Took
  <2>1. A \in Int /\ W \in Int /\ V \in Int /\ C \in Int /\ T \in 0..2 /\ V = W - C + T
    BY <1>1, AgeIs, RingSize, WaitingThen
  <2>2. A < W /\ A >= C => Age(p)' = A - C /\ Age(p)' < V
    BY KeptEntry
  <2>3. Age(p)' < V => A < W /\ A >= C
    BY <1>5, EntryBefore
  <2>4. /\ p \in Upto(a) <=> A < W /\ A < a
        /\ p \in Upto(b)' <=> Age(p)' < V /\ Age(p)' < b
    BY <1>2
  <2>5. \/ d = 0 /\ a <= W /\ b = a - C
        \/ a >= W /\ b = W - C + d
        \/ a >= W /\ b >= V /\ d = T
    OBVIOUS
  <2> SUFFICES p \in Upto(b)' <=> p \in Upto(a) /\ A >= C
    OBVIOUS
  <2> HIDE DEF A, W, V, C, T
  <2>6. ASSUME A < W, A >= C PROVE A - C < b <=> A < a
    BY <2>1, <2>5, <2>6
  <2> QED BY <2>2, <2>3, <2>4, <2>6
<1>6. \A p \in Ptrs : Given(p) <=> \E k \in 1..Took : p = Inc(rrf.reqPtr, k-1)
  BY DEF Given
<1>7. \A p \in Upto(a) : p \in Ptrs /\ (Age(p) >= Count => ~Given(p))
  BY <1>2, KeptEntry
<1>8. \A p \in Laned(d) : p \in Ptrs /\ \E k \in 1..Took : p = Inc(rrf.reqPtr, k-1)
  <2> SUFFICES ASSUME NEW k \in 1..d
               PROVE  k \in 1..Took /\ Inc(rrf.reqPtr, k-1) \in Ptrs
    BY DEF Laned
  <2>1. k \in 1..Took
    BY <1>1
  <2> QED BY <2>1, <1>4
<1> DEFINE U == Upto(a)
           V == Upto(b)'
           L == Laned(d)
           S == {p \in U : Age(p) >= Count}
<1>9. \A p \in V : p \in Ptrs
  BY <1>2
<1>10. ASSUME NEW p \in Ptrs PROVE p \in V <=> p \in S \/ p \in L
  <2>1. CASE Given(p)
    <3>1. PICK k \in 1..Took : p = Inc(rrf.reqPtr, k-1)
      BY <1>6, <2>1
    <3>2. p \in V <=> p \in L
      BY <1>4, <3>1
    <3>3. p \notin S
      BY <1>7, <2>1
    <3> QED BY <3>2, <3>3
  <2>2. CASE ~Given(p)
    <3>1. p \in V <=> p \in S
      BY <1>5, <2>2
    <3>2. p \notin L
      BY <1>6, <1>8, <2>2
    <3> QED BY <3>1, <3>2
  <2> QED BY <2>1, <2>2
<1>11. \A p \in S : p \in Ptrs
  BY <1>7
<1>12. \A p \in L : p \in Ptrs
  BY <1>8
<1> SUFFICES V = S \cup L
  OBVIOUS
<1> HIDE DEF U, V, L, S
<1> QED BY <1>9, <1>10, <1>11, <1>12

(* After a mispredict everything in flight is older than the branch, or the *)
(* branch.                                                                  *)
LEMMA UptoBack ==
  ASSUME CoreInv, ClockEdge, Wires.mis, NEW b \in Int, b >= Waiting'
  PROVE  Upto(b)' = {p \in Upto(AgeAt(BrSpot) + 1) : Age(p) >= Count}
<1> USE DEF CoreInv
<1>1. /\ Count = 0 /\ Took = 0 /\ RingOk' /\ Waiting \in Int
      /\ Age(Wires.rrftag) < Waiting /\ Waiting' = Age(Wires.rrftag) + 1
  BY RingThen, RingFacts, RingSize
<1>2. AgeAt(BrSpot) = Age(Wires.rrftag) /\ Wires.rrftag \in Ptrs
  BY WireFacts, BrSpotIs
<1> DEFINE q == Age(Wires.rrftag)
<1>3. q \in Int
  BY <1>2, AgeIs, RingSize
<1>4. /\ Upto(q + 1) = {p \in Ptrs : Age(p) < Waiting /\ Age(p) < q + 1}
      /\ Upto(b)' = {p \in Ptrs : Age(p)' < Waiting' /\ Age(p)' < b}
  BY InFlightIs DEF Upto
<1>5. ASSUME NEW p \in Ptrs
      PROVE  /\ Age(p) \in Int /\ Age(p) >= 0 /\ Age(p)' \in Int
             /\ Age(p) < Waiting => Age(p)' = Age(p)
             /\ Age(p)' < Waiting' => Age(p) < Waiting /\ Age(p) <= q
             /\ Age(p) < Waiting /\ Age(p) <= q => Age(p)' < Waiting'
  <2>1. Age(p) \in Int /\ Age(p) >= 0 /\ Age(p)' \in Int
    BY <1>1, AgeIs, AgeIsThen, RingSize
  <2>2. ~Given(p)
    BY <1>1 DEF Given
  <2>3. Age(p) < Waiting => /\ Age(p)' = Age(p) - Count
                            /\ ~Wires.mis \/ Age(p) <= Age(Wires.rrftag) => Age(p)' < Waiting'
    BY <1>1, <2>1, KeptEntry
  <2>4. Age(p)' < Waiting' => Age(p) < Waiting /\ Age(p) <= Age(Wires.rrftag)
    BY <2>2, EntryBefore
  <2>5. Age(p) - Count = Age(p)
    BY <1>1, <2>1
  <2> QED BY <2>1, <2>3, <2>4, <2>5
<1>6. ASSUME NEW p \in Ptrs
      PROVE  p \in Upto(b)' <=> p \in Upto(q + 1) /\ Age(p) >= Count
  <2> DEFINE A == Age(p)
             B == Age(p)'
             W == Waiting
             V == Waiting'
  <2>1. /\ p \in Upto(q + 1) <=> A < W /\ A < q + 1
        /\ p \in Upto(b)' <=> B < V /\ B < b
        /\ A \in Int /\ A >= 0 /\ B \in Int /\ q \in Int /\ W \in Int
        /\ A < W => B = A
        /\ B < V => A < W /\ A <= q
        /\ A < W /\ A <= q => B < V
        /\ b >= V /\ Count = 0 /\ V = q + 1
    BY <1>1, <1>3, <1>4, <1>5
  <2> SUFFICES p \in Upto(b)' <=> p \in Upto(q + 1) /\ A >= Count
    OBVIOUS
  <2> HIDE DEF A, B, W, V, q
  <2> QED BY <2>1
<1> HIDE DEF q
<1>7. Upto(b)' = {p \in Upto(q + 1) : Age(p) >= Count}
  BY <1>4, <1>6
<1> QED BY <1>2, <1>7 DEF q

(* A row goes on: it takes the first d instructions of the group that is    *)
(* dispatched, or is what the commits leave of row s.                       *)
LEMMA RowGoesOn ==
  ASSUME CoreInv, ClockEdge, NEW s \in RenRows, NEW t \in RenRows,
         NEW a, NEW b, NEW d \in 0..Took, RowRight(s, a),
         Upto(b)' = {p \in Upto(a) : Age(p) >= Count} \cup Laned(d),
         \/ /\ Goes
            /\ arf'.busy[t] = TakenRow(Com.busy[s], d)
            /\ arf'.rename[t] = TakenName(Com.rename[s], d)
         \/ /\ d = 0
            /\ arf'.busy[t] = Com.busy[s] /\ arf'.rename[t] = Com.rename[s]
  PROVE  RowRight(t, b)'
<1> USE DEF CoreInv
<1>1. PICK S : S = {p \in Upto(a) : Age(p) >= Count}
  OBVIOUS
<1>2. PICK f : f = Com.busy[s]
  OBVIOUS
<1>3. PICK g : g = Com.rename[s]
  OBVIOUS
<1>4. Fits(f, g, S)
  <2>1. Fits(arf.busy[s], arf.rename[s], Upto(a)) /\ Upto(a) \subseteq InFlight
    BY RowFits DEF Upto
  <2> QED BY <1>1, <1>2, <1>3, <2>1, ComFits
<1>5. S \subseteq InFlight /\ \A p \in S : Age(p) >= Count
  BY <1>1 DEF Upto
<1>6. Fits(f, g, S)'
  BY <1>4, <1>5, ClockFits
<1>7. PICK T : T = S \cup Laned(d)
  OBVIOUS
<1>8. Upto(b)' = T
  BY <1>1, <1>7
<1>9. PICK f2 : f2 = arf'.busy[t]
  OBVIOUS
<1>10. PICK g2 : g2 = arf'.rename[t]
  OBVIOUS
<1>11. Fits(f2, g2, T)'
  <2>1. CASE Goes /\ f2 = TakenRow(f, d) /\ g2 = TakenName(g, d)
    BY <1>5, <1>6, <1>7, <2>1, TakeFits
  <2>2. CASE d = 0 /\ f2 = f /\ g2 = g
    <3>1. Laned(d) = {}
      BY <2>2 DEF Laned
    <3>2. T = S
      BY <1>7, <3>1
    <3> QED BY <1>6, <2>2, <3>2
  <2> QED BY <1>2, <1>3, <1>9, <1>10, <2>1, <2>2
<1>12. Fits(arf.busy[t], arf.rename[t], Upto(b))'
  <2>1. Fits(f2, g2, T)' <=> Fits(arf.busy[t], arf.rename[t], Upto(b))'
    <3>1. ASSUME NEW r
          PROVE  Writers(T, r)' = Writers(Upto(b), r)'
      BY <1>8 DEF Writers
    <3> QED BY <1>9, <1>10, <3>1 DEF Fits
  <2> QED BY <1>11, <2>1
<1> QED BY <1>12, RowFitsThen

(* A mispredict: every row becomes that of the branch.                      *)
LEMMA RowGoesBack ==
  ASSUME CoreInv, ClockEdge, Wires.mis, NEW t \in RenRows, NEW b \in Int, b >= Waiting'
  PROVE  RowRight(t, b)'
<1> USE DEF CoreInv
<1>1. Took = 0 /\ ~Goes /\ Wires.tag \in Tags /\ ex["br"].full
  BY RingThen, WireFacts
<1>2. Laned(0) = {}
  BY DEF Laned
<1>3. Upto(b)' = {p \in Upto(AgeAt(BrSpot) + 1) : Age(p) >= Count} \cup Laned(0)
  BY <1>2, UptoBack
<1>4. Wires.tag \in RenRows
  BY <1>1 DEF RenRows
<1>5. RowRight(Wires.tag, AgeAt(BrSpot) + 1)
  <2>1. BrSpot \in Spots /\ Held(BrSpot) /\ IsBr(BrSpot) /\ At(BrSpot).specTag = Wires.tag
    BY <1>1, BrSpotIs
  <2> QED BY <2>1 DEF RowsRight
<1>6. arf'.busy[t] = Com.busy[Wires.tag] /\ arf'.rename[t] = Com.rename[Wires.tag]
  BY <1>1, ArfThen
<1>7. 0 \in 0..Took
  BY <1>1
<1>8. PICK a : a = AgeAt(BrSpot) + 1
  OBVIOUS
<1> QED BY <1>3, <1>4, <1>5, <1>6, <1>7, <1>8, RowGoesOn

(* The tags of two branches are different.                                  *)
LEMMA OtherTag ==
  ASSUME CoreInv, NEW x \in Spots, NEW y \in Spots, Held(x), Held(y), IsBr(x), IsBr(y),
         AgeAt(x) < AgeAt(y)
  PROVE  At(x).specTag # At(y).specTag
BY DEF CoreInv, InTheirOrder

(* The commands of a dispatch.                                              *)
LEMMA CommandIs ==
  ASSUME CoreInv, NEW k \in 1..2, NEW ren, ren = <<Rename(1), Rename(2)>>
  PROVE  /\ ren[k].en <=> k <= Size /\ Lane(k).rdUse
         /\ \A t \in Tags : Wants(ren[k], t) <=> Lane(k).isBranch /\ Lane(k).specTag = t
         /\ ~Wants(ren[k], Master)
         /\ Lane(k).isBranch => k <= Size
<1> USE DEF CoreInv
<1>1. ren[k] = Rename(k)
  OBVIOUS
<1>2. /\ IsLane(Lane(k))
      /\ k <= Size <=> ~Lane(k).invalid
  BY DEF FrontOk, Lane, Size, IsLane
<1>3. \A t \in Tags : t # Master
  BY TagSize DEF Master
<1>4. ren[k].en <=> k <= Size /\ Lane(k).rdUse
  <2>1. ren[k].en = (Lane(k).rdUse /\ ~Lane(k).invalid)
    BY <1>1 DEF Rename
  <2> QED BY <1>2, <2>1
<1>5. ren[k].isBranch = Lane(k).isBranch /\ ren[k].specTag = Lane(k).specTag
  BY <1>1 DEF Rename
<1>6. Lane(k).isBranch => k <= Size
  BY <1>2 DEF IsLane
<1> QED BY <1>3, <1>4, <1>5, <1>6 DEF Wants

(* A row that is in use by no branch follows the table of the decoder.      *)
LEMMA FreeRow ==
  ASSUME CoreInv, ClockEdge, NEW t \in RenRows,
         t = Master \/ (t \in Tags /\ (~tg.valid[t] \/ (Wires.suc /\ t = Wires.tag))),
         NEW b \in Int, b >= Waiting'
  PROVE  RowRight(t, b)'
<1> USE DEF CoreInv
<1>1. CASE Wires.mis
  BY <1>1, RowGoesBack
<1>2. CASE ~Wires.mis
  <2>1. /\ Took \in 0..2 /\ RRF_NUM \in Int /\ RRF_NUM >= Waiting /\ RRF_NUM >= 0
    BY RingThen, RingFacts, RingSize
  <2>2. Upto(b)' = {p \in Upto(RRF_NUM) : Age(p) >= Count} \cup Laned(Took)
    <3>1. Took \in 0..Took
      BY <2>1
    <3>2. PICK d \in 0..Took : d = Took
      BY <3>1
    <3> QED BY <1>2, <2>1, <3>2, UptoThen
  <2>3. Master \in RenRows /\ RowRight(Master, RRF_NUM)
    BY DEF RenRows, RowsRight
  <2>4. t \in Tags /\ ~tg.valid[t] => RowRight(t, RRF_NUM)
    BY DEF RowsRight
  <2>5. CASE Goes
    <3>1. ~Wires.suc
      BY <2>5, GoFacts
    <3>2. RowRight(t, RRF_NUM)
      BY <2>3, <2>4, <3>1
    <3>3. PICK ren : ren = <<Rename(1), Rename(2)>>
      OBVIOUS
    <3>4. ASSUME NEW k \in 1..2
          PROVE  Takes(tg, ren, t, k) <=> k \in 1..Took /\ Lane(k).rdUse
      <4>1. Took = Size
        BY <2>5 DEF Took
      <4>2. \A j \in 1..2 : ~Wants(ren[j], t)
        <5> SUFFICES ASSUME NEW j \in 1..2, Wants(ren[j], t) PROVE FALSE
          OBVIOUS
        <5>1. CASE t = Master
          BY <3>3, <5>1, CommandIs
        <5>2. CASE t \in Tags /\ ~tg.valid[t]
          <6>1. Lane(j).isBranch /\ Lane(j).specTag = t /\ j <= Size
            BY <3>3, <5>2, CommandIs
          <6>2. fe.dp
            BY <2>5, GoFacts
          <6>3. j \in 1..Size
            BY <2>1, <4>1, <6>1
          <6>4. <<"lane", j>> \in Spots /\ Held(<<"lane", j>>) /\ IsBr(<<"lane", j>>)
                /\ At(<<"lane", j>>).specTag = t
            BY <6>1, <6>2, <6>3, LaneHeld
          <6> QED BY <5>2, <6>4, BranchTag
        <5> QED BY <3>1, <5>1, <5>2
      <4>3. ren[k].en <=> k <= Size /\ Lane(k).rdUse
        BY <3>3, CommandIs
      <4>4. ~Kept(tg, ren, t)
        BY <3>1 DEF Kept
      <4>5. k \in 1..Took <=> k <= Size
        BY <2>1, <4>1
      <4> QED BY <4>2, <4>3, <4>4, <4>5 DEF Takes
    <3>5. PICK d \in 0..Took : d = Took
      BY <2>1
    <3>6. /\ arf'.busy[t] = TakenRow(Com.busy[t], d)
          /\ arf'.rename[t] = TakenName(Com.rename[t], d)
      BY <2>5, <3>3, <3>4, <3>5, RenameRow
    <3>7. Upto(b)' = {p \in Upto(RRF_NUM) : Age(p) >= Count} \cup Laned(d)
      BY <2>2, <3>5
    <3> QED BY <2>5, <3>2, <3>6, <3>7, RowGoesOn
  <2>6. CASE ~Goes
    <3>1. Took = 0
      BY <2>6 DEF Took
    <3>2. PICK d \in 0..Took : d = 0
      BY <3>1
    <3>3. Upto(b)' = {p \in Upto(RRF_NUM) : Age(p) >= Count} \cup Laned(d)
      BY <2>2, <3>1, <3>2
    <3>4. PICK s \in RenRows : /\ RowRight(s, RRF_NUM)
                               /\ arf'.busy[t] = Com.busy[s]
                               /\ arf'.rename[t] = Com.rename[s]
      <4>1. CASE Wires.suc /\ (t = Wires.tag \/ (t # Master /\ ~tg.valid[t]))
        <5>1. arf'.busy[t] = Com.busy[Master] /\ arf'.rename[t] = Com.rename[Master]
          BY <1>2, <2>6, <4>1, ArfThen
        <5> QED BY <2>3, <5>1
      <4>2. CASE ~(Wires.suc /\ (t = Wires.tag \/ (t # Master /\ ~tg.valid[t])))
        <5>1. arf'.busy[t] = Com.busy[t] /\ arf'.rename[t] = Com.rename[t]
          BY <1>2, <2>6, <4>2, ArfThen
        <5>2. RowRight(t, RRF_NUM)
          BY <2>3, <2>4, <4>2
        <5> QED BY <5>1, <5>2
      <4> QED BY <4>1, <4>2
    <3> QED BY <3>2, <3>3, <3>4, RowGoesOn
  <2> QED BY <2>5, <2>6
<1> QED BY <1>1, <1>2

(* The copy of a branch that is unresolved has the instructions up to it.   *)
LEMMA BranchRow ==
  ASSUME CoreInv, ClockEdge, ~Wires.mis, NEW x \in Spots, NEW y \in Spots, From(y, x), IsBr(y),
         NEW t, t = At(y).specTag, NEW b, b = AgeAt(x)' + 1
  PROVE  RowRight(t, b)'
<1> USE DEF CoreInv
<1> DEFINE t0 == At(y).specTag
<1>1. /\ Held(y) /\ ~Ended(y) /\ x = Dest(y)
      /\ AgeAt(x)' = AgeAt(y) - Count /\ AgeAt(y) \in Int /\ Count \in 0..2
      /\ Took \in 0..2 /\ Waiting \in Int /\ RRF_NUM \in Int
      /\ Waiting' = Waiting - Count + Took
  <2>1. PICK p : p = TagFor(y)
    OBVIOUS
  <2>2. Held(y) /\ ~Ended(y) /\ x = Dest(y)
    BY DEF From
  <2> QED BY <2>1, <2>2, AgeFollows, HeldAge, RingThen, RingFacts, RingSize
<1>2. t0 \in Tags /\ t0 \in RenRows /\ t0 # Master /\ tg.valid[t0]
  BY <1>1, BranchTag, TagSize DEF RenRows, Master
<1>3. RowRight(t0, AgeAt(y) + 1)
  BY <1>1 DEF RowsRight
<1>4. Wires.suc => t0 # Wires.tag
  <2> SUFFICES ASSUME Wires.suc PROVE t0 # Wires.tag
    OBVIOUS
  <2>1. ex["br"].full
    BY WireFacts
  <2>2. y # BrSpot
    BY <1>1, <2>1, BrSpotIs
  <2> QED BY <1>1, <2>1, <2>2, BranchesBehind
<1>5. t = At(y).specTag
  OBVIOUS
<1>6. PICK a : a = AgeAt(y) + 1
  OBVIOUS
<1>7. b = AgeAt(x)' + 1
  OBVIOUS
<1>8. a \in Int /\ b \in Int /\ b = a - Count
  <2> DEFINE A == AgeAt(y)
             B == AgeAt(x)'
             C == Count
  <2>1. A \in Int /\ C \in Int /\ B = A - C /\ a = A + 1 /\ b = B + 1
    BY <1>1, <1>6, <1>7
  <2> SUFFICES a \in Int /\ b \in Int /\ b = a - C
    OBVIOUS
  <2> HIDE DEF A, B, C
  <2> QED BY <2>1
<1>9. RowRight(t, a) /\ t \in RenRows
  BY <1>2, <1>3, <1>5, <1>6
<1>10. ~Goes => arf'.busy[t] = Com.busy[t] /\ arf'.rename[t] = Com.rename[t]
  <2>1. ~(Wires.suc /\ (t = Wires.tag \/ (t # Master /\ ~tg.valid[t])))
    BY <1>2, <1>4, <1>5
  <2> QED BY <1>9, <2>1, ArfThen
<1>11. PICK ren : ren = <<Rename(1), Rename(2)>>
  OBVIOUS
<1>12. ASSUME Goes, NEW j \in 1..2, Wants(ren[j], t)
       PROVE  /\ j <= Size /\ <<"lane", j>> \in Spots /\ Held(<<"lane", j>>)
              /\ IsBr(<<"lane", j>>) /\ At(<<"lane", j>>).specTag = t
              /\ AgeAt(<<"lane", j>>) = Waiting + j - 1
  <2>1. Lane(j).isBranch /\ Lane(j).specTag = t /\ j <= Size /\ fe.dp
    BY <1>2, <1>5, <1>11, <1>12, CommandIs, GoFacts
  <2>2. j \in 1..Size
    BY <2>1 DEF Size
  <2> QED BY <2>1, <2>2, LaneHeld, LaneSpot
<1>13. CASE y[1] # "lane"
  <2>1. AgeAt(y) < Waiting
    BY <1>1, <1>13, HeldAge
  <2>2. a <= Waiting
    BY <1>1, <1>6, <2>1
  <2>3. PICK d \in 0..Took : d = 0
    BY <1>1
  <2>4. Upto(b)' = {p \in Upto(a) : Age(p) >= Count} \cup Laned(d)
    BY <1>8, <2>2, <2>3, UptoThen
  <2>5. ASSUME Goes
        PROVE  /\ arf'.busy[t] = TakenRow(Com.busy[t], d)
               /\ arf'.rename[t] = TakenName(Com.rename[t], d)
    <3>1. ASSUME NEW j \in 1..2, Wants(ren[j], t) PROVE FALSE
      <4>1. /\ <<"lane", j>> \in Spots /\ Held(<<"lane", j>>)
            /\ IsBr(<<"lane", j>>) /\ At(<<"lane", j>>).specTag = t
            /\ AgeAt(<<"lane", j>>) = Waiting + j - 1
        BY <1>12, <2>5, <3>1
      <4>2. AgeAt(y) < AgeAt(<<"lane", j>>)
        BY <1>1, <2>1, <4>1
      <4> QED BY <1>1, <1>5, <4>1, <4>2, OtherTag
    <3>2. Kept(tg, ren, t)
      BY <1>2, <1>5, <3>1 DEF Kept
    <3>3. \A k \in 1..2 : Takes(tg, ren, t, k) <=> k \in 1..d /\ Lane(k).rdUse
      BY <2>3, <3>2 DEF Takes
    <3> QED BY <1>9, <1>11, <2>5, <3>3, RenameRow
  <2> QED BY <1>9, <1>10, <2>3, <2>4, <2>5, RowGoesOn
<1>14. CASE y[1] = "lane"
  <2>1. PICK k \in 1..2 : y = <<"lane", k>> /\ k <= Size /\ AgeAt(y) = Waiting + k - 1
    BY <1>1, <1>14, HeldAge
  <2>2. a >= Waiting /\ a = Waiting + k
    BY <1>1, <1>6, <2>1
  <2>3. At(y) = Lane(k) /\ Lane(k).isBranch /\ Lane(k).specTag = t
    BY <1>5, <2>1, LaneSpot
  <2>4. CASE ~Goes
    <3>1. Took = 0
      BY <2>4 DEF Took
    <3>2. PICK d \in 0..Took : d = 0
      BY <3>1
    <3>3. b >= Waiting' /\ d = Took
      <4> DEFINE W == Waiting
                 V == Waiting'
                 C == Count
                 T == Took
      <4>1. W \in Int /\ C \in Int /\ V = W - C + T /\ T = 0 /\ d = 0
            /\ a = W + k /\ b = a - C /\ k \in 1..2
        BY <1>1, <1>8, <2>2, <3>1, <3>2
      <4> SUFFICES b >= V /\ d = T
        OBVIOUS
      <4> HIDE DEF W, V, C, T
      <4> QED BY <4>1
    <3>4. Upto(b)' = {p \in Upto(a) : Age(p) >= Count} \cup Laned(d)
      BY <1>8, <2>2, <3>3, UptoThen
    <3> QED BY <1>9, <1>10, <2>4, <3>2, <3>4, RowGoesOn
  <2>5. CASE Goes
    <3>1. Took = Size
      BY <2>5 DEF Took
    <3>2. PICK d \in 0..Took : d = k
      BY <1>1, <2>1, <3>1
    <3>3. b = Waiting - Count + d
      <4> DEFINE W == Waiting
                 C == Count
      <4>1. W \in Int /\ C \in Int /\ a = W + k /\ b = a - C /\ k \in 1..2 /\ d = k
        BY <1>1, <1>8, <2>2, <3>2
      <4> SUFFICES b = W - C + d
        OBVIOUS
      <4> HIDE DEF W, C
      <4> QED BY <4>1
    <3>4. Upto(b)' = {p \in Upto(a) : Age(p) >= Count} \cup Laned(d)
      BY <1>8, <2>2, <3>3, UptoThen
    <3>5. Wants(ren[k], t)
      BY <1>2, <1>5, <1>11, <2>3, CommandIs
    <3>6. k = 2 => ~Wants(ren[1], t)
      <4> SUFFICES ASSUME k = 2, Wants(ren[1], t) PROVE FALSE
        OBVIOUS
      <4>1. /\ <<"lane", 1>> \in Spots /\ Held(<<"lane", 1>>)
            /\ IsBr(<<"lane", 1>>) /\ At(<<"lane", 1>>).specTag = t
            /\ AgeAt(<<"lane", 1>>) = Waiting + 1 - 1
        BY <1>12, <2>5
      <4>2. AgeAt(<<"lane", 1>>) < AgeAt(y)
        BY <1>1, <2>1, <4>1
      <4> QED BY <1>1, <1>5, <4>1, <4>2, OtherTag
    <3>7. ~Kept(tg, ren, t)
      <4>1. k = 1 \/ k = 2
        OBVIOUS
      <4> QED BY <3>5, <4>1 DEF Kept
    <3>8. ASSUME NEW j \in 1..2
          PROVE  Takes(tg, ren, t, j) <=> j \in 1..d /\ Lane(j).rdUse
      <4>1. ren[j].en <=> j <= Size /\ Lane(j).rdUse
        BY <1>11, CommandIs
      <4>2. j <= k => j <= Size
        BY <1>1, <2>1, <3>1
      <4>3. (j = 2 => ~Wants(ren[1], t)) <=> j <= k
        <5>1. (k = 1 \/ k = 2) /\ (j = 1 \/ j = 2)
          OBVIOUS
        <5>2. k = 1 => Wants(ren[1], t)
          BY <3>5
        <5> QED BY <3>6, <5>1, <5>2
      <4>4. j \in 1..d <=> j <= k
        BY <3>2
      <4> QED BY <3>7, <4>1, <4>2, <4>3, <4>4 DEF Takes
    <3>9. /\ arf'.busy[t] = TakenRow(Com.busy[t], d)
          /\ arf'.rename[t] = TakenName(Com.rename[t], d)
      BY <1>9, <1>11, <2>5, <3>8, RenameRow
    <3> QED BY <1>9, <2>5, <3>4, <3>9, RowGoesOn
  <2> QED BY <2>4, <2>5
<1> QED BY <1>13, <1>14

(* After a cycle every row of the tables is still right.                    *)
LEMMA RowsRightKept ==
  ASSUME CoreInv, ClockEdge
  PROVE  RowsRight'
<1> USE DEF CoreInv
<1>1. RRF_NUM \in Int /\ RRF_NUM >= Waiting'
  <2>1. RRF_NUM \in Int
    BY RingSize
  <2>2. CASE ~Wires.mis
    <3>1. Waiting' = Waiting - Count + Took /\ Waiting - Count + Took <= RRF_NUM
      BY <2>2, RingThen
    <3> QED BY <2>1, <3>1
  <2>3. CASE Wires.mis
    <3> DEFINE V == Waiting'
               q == Age(Wires.rrftag)
    <3>1. V = q + 1 /\ q < Waiting /\ Waiting \in 0..RRF_NUM
      BY <2>3, RingThen, RingFacts
    <3>2. q \in Int
      BY WireFacts, AgeIs, RingSize
    <3> SUFFICES RRF_NUM >= V
      BY <2>1
    <3> HIDE DEF V, q
    <3> QED BY <2>1, <3>1, <3>2
  <2> QED BY <2>1, <2>2, <2>3
<1>2. ASSUME NEW t \in Tags PROVE t \in RenRows
  BY DEF RenRows
<1>3. RowRight(Master, RRF_NUM)'
  <2>1. Master \in RenRows
    BY DEF RenRows
  <2>2. PICK b : b = RRF_NUM
    OBVIOUS
  <2>3. RowRight(Master, b)'
    BY <1>1, <2>1, <2>2, FreeRow
  <2> QED BY <2>2, <2>3
<1>4. ASSUME NEW t \in Tags, ~tg'.valid[t]
      PROVE  RowRight(t, RRF_NUM)'
  <2>1. Wires.mis \/ ~tg.valid[t] \/ (Wires.suc /\ t = Wires.tag)
    <3>1. CASE Fills
      <4>1. IsAllGenble(tg, Dcw1.isBranch, Dcw2.isBranch)
            /\ tg' = Allocate(tg, Dcw1.isBranch, Dcw2.isBranch)
            /\ Dcw1.isBranch \in BOOLEAN /\ Dcw2.isBranch \in BOOLEAN
        BY <3>1, TagSteps
      <4> QED BY <1>4, <4>1, BehindAfter
    <3>2. CASE ~Fills
      BY <1>4, <3>2, BehindKept
    <3> QED BY <3>1, <3>2
  <2>2. t \in RenRows
    BY <1>2
  <2>3. PICK b : b = RRF_NUM
    OBVIOUS
  <2>4. RowRight(t, b)'
    BY <1>1, <2>1, <2>2, <2>3, FreeRow, RowGoesBack
  <2> QED BY <2>3, <2>4
<1>5. ASSUME NEW x \in Spots, Held(x)', IsBr(x)'
      PROVE  RowRight(At(x).specTag, AgeAt(x) + 1)'
  <2> SUFFICES ASSUME NEW t, t = At(x)'.specTag, NEW b, b = AgeAt(x)' + 1
               PROVE  RowRight(t, b)'
    <3>1. PICK t : t = At(x)'.specTag
      OBVIOUS
    <3>2. PICK b : b = AgeAt(x)' + 1
      OBVIOUS
    <3>3. RowRight(t, b)'
      BY <3>1, <3>2
    <3> QED BY <3>1, <3>2, <3>3 DEF RowRight
  <2>1. CASE Fills /\ x[1] = "lane"
    <3>1. PICK k \in 1..2 : x = <<"lane", k>>
      BY <2>1 DEF Spots
    <3>2. IsAllGenble(tg, Dcw1.isBranch, Dcw2.isBranch)
          /\ tg' = Allocate(tg, Dcw1.isBranch, Dcw2.isBranch)
          /\ Dcw1.isBranch \in BOOLEAN /\ Dcw2.isBranch \in BOOLEAN
      BY <2>1, TagSteps
    <3>3. /\ IF k = 1 THEN Dcw1.isBranch ELSE Dcw2.isBranch
          /\ At(x)'.specTag = (IF k = 1 THEN GenTag1(tg, Dcw1.isBranch)
                               ELSE GenTag2(tg, Dcw1.isBranch, Dcw2.isBranch))
      BY <1>5, <2>1, <3>1, NewLaneSpot
    <3>5. t \in Tags
      BY <3>2, <3>3, GenFacts
    <3>6. ~tg.valid[t]
      BY <3>2, <3>3, <3>5, BehindAfter
    <3>8. b \in Int /\ b >= Waiting'
      <4>1. AgeAt(x)' = Waiting' + k - 1 /\ Waiting' \in Int
        BY <3>1, LaneSpotThen, WaitingThen
      <4> DEFINE V == Waiting'
                 B == AgeAt(x)'
      <4>2. B = V + k - 1 /\ V \in Int /\ b = B + 1
        BY <4>1
      <4> SUFFICES b \in Int /\ b >= V
        OBVIOUS
      <4> HIDE DEF V, B
      <4> QED BY <4>2
    <3> QED BY <1>2, <3>5, <3>6, <3>8, FreeRow
  <2>2. CASE ~(Fills /\ x[1] = "lane")
    <3>1. PICK y \in Spots : From(y, x)
      BY <1>5, <2>2, Origin
    <3>2. IsBr(y) /\ At(x)'.specTag = At(y).specTag /\ Held(y) /\ ~Ended(y)
      BY <1>5, <3>1 DEF From, Carried
    <3>3. ~Wires.mis
      BY <3>1, <3>2, Survivor
    <3>4. t = At(y).specTag
      BY <3>2
    <3> QED BY <3>1, <3>2, <3>3, <3>4, BranchRow
  <2> QED BY <2>1, <2>2
<1> QED BY <1>3, <1>4, <1>5 DEF RowsRight

-----------------------------------------------------------------------------
(* After a reset there is nothing anywhere.                                 *)
Fresh ==
  /\ fe = FeReset /\ tg = TagReset /\ arf = ArfReset /\ comPtr = 0
  /\ DOMAIN rrf = {"valid", "data", "freenum", "reqPtr", "nextRrfCycle"}
  /\ rrf.freenum = RRF_NUM /\ rrf.reqPtr = 0
  /\ rs = RsReset /\ alloc = [u \in InOrder |-> 0] /\ ex = ExReset
  /\ {"full", "src"} \subseteq DOMAIN ls2 /\ ls2.full = FALSE /\ IsEntry(ls2.src)
  /\ \A p \in Ptrs : /\ DOMAIN rob[p] = RobFields
                     /\ rob[p].wbFin \in BOOLEAN /\ rob[p].rdUse \in BOOLEAN
(* An entry after a reset.                                                  *)
LEMMA BlankIs == IsEntry(Blank) /\ Blank.busy = FALSE
<1>1. 0 \in Tags /\ 0 \in Ptrs
  BY TagSize, RingSize
<1> QED BY <1>1 DEF Blank, IsEntry, EntryFields

(* A lane after a reset.                                                    *)
LEMMA DecResetIs ==
  /\ IsLane(DecReset) /\ DecReset.invalid = FALSE /\ DecReset.isBranch \in BOOLEAN
  /\ DecReset.rdUse \in BOOLEAN
<1> DEFINE d == DecReset
<1>1. 0 \in Tags
  BY TagSize
<1>2. DOMAIN d = LaneFields
  BY DEF DecReset, Decode, LaneFields
<1>3. /\ d.invalid = FALSE /\ d.spec = FALSE /\ d.specTag = 0
      /\ d.rsEnt = Station(Fill.op) /\ d.isBranch = (Station(Fill.op) = "br" /\ ~FALSE)
      /\ d.rdUse \in BOOLEAN /\ d.use1 \in BOOLEAN /\ d.use2 \in BOOLEAN
  BY DEF DecReset, Decode
<1>4. Station(Fill.op) \in Stations
  BY DEF Station, Stations
<1> HIDE DEF d
<1>5. IsLane(d) /\ d.isBranch \in BOOLEAN
  BY <1>1, <1>2, <1>3, <1>4 DEF IsLane
<1> QED BY <1>3, <1>5 DEF d

(* The invariant holds after a reset.                                       *)
LEMMA FreshIs == Fresh => CoreInv
<1> SUFFICES ASSUME Fresh PROVE CoreInv
  OBVIOUS
<1> USE DEF Fresh
<1>1. \A u \in Units : EntNum(u) \in Nat \ {0}
  BY StationSize
<1>2. Shapes
  <2>1. DOMAIN rs = Units /\ DOMAIN ex = Units
    BY DEF RsReset, ExReset
  <2>2. ASSUME NEW u \in Units
        PROVE  /\ DOMAIN rs[u] = 0..(EntNum(u)-1)
               /\ \A i \in DOMAIN rs[u] : IsEntry(rs[u][i])
               /\ ex[u].full \in BOOLEAN /\ IsEntry(ex[u].src)
    BY BlankIs DEF RsReset, ExReset
  <2>3. ASSUME NEW u \in InOrder PROVE alloc[u] \in 0..(EntNum(u)-1)
    BY <1>1 DEF InOrder, Units
  <2> QED BY <2>1, <2>2, <2>3 DEF Shapes
<1>3. FrontOk
  BY DecResetIs DEF FeReset, RawReset, FrontOk
<1>4. TablesOk
  BY DEF TablesOk, ArfReset
<1>5. TagsOk
  BY TagsReset
<1>6. Waiting = 0
  BY RingSize DEF Waiting, Rem, RoundOver
<1>7. RingOk
  <2>1. Ring!Waiting = 0
    BY RingSize DEF Ring!Waiting, Ring!Rem, Ring!Ring, Ring!RoundOver
  <2> QED BY <2>1, RingSize DEF RingOk, Ring!Accounts, Ring!Ptrs
<1>8. ASSUME NEW x \in Spots, Held(x) PROVE FALSE
  <2>1. CASE \E k \in 1..2 : x = <<"lane", k>>
    BY <1>8, <2>1, LaneSpot DEF FeReset
  <2>2. CASE \E u \in Units : x = <<u, Ex>>
    BY <1>8, <2>2, ExSpot DEF ExReset
  <2>3. CASE \E u \in Units : \E i \in 0..(EntNum(u)-1) : x = <<u, i>>
    BY <1>8, <2>3, RowSpot, BlankIs DEF RsReset
  <2>4. CASE x = <<"ls", Ls2>>
    BY <1>8, <2>4, Ls2Spot
  <2> QED BY <2>1, <2>2, <2>3, <2>4, SpotIs
<1>9. \A t \in Tags : ~tg.valid[t]
  BY DEF TagReset
<1>10. BrOrder
  <2>1. RowsIn("br") = {}
    <3>1. "br" \in Units /\ EntNum("br") = BRANCH_ENT_NUM
      BY StationSize DEF Units
    <3>2. \A i \in 0..(BRANCH_ENT_NUM-1) : ~rs["br"][i].busy
      BY <3>1, BlankIs DEF RsReset
    <3> QED BY <3>1, <3>2 DEF RowsIn
  <2>2. alloc["br"] = 0 /\ ~ex["br"].full
    BY DEF InOrder, ExReset, Units
  <2> QED BY <2>1, <2>2, StationSize, TagSize DEF BrOrder, InRing, RingAge
<1>11. InFlight = {}
  <2>1. \A p \in Ptrs : ~(Age(p) < 0)
    BY <1>7, AgeIs, RingSize
  <2> QED BY <1>6, <2>1, InFlightIs
<1>12. ResultsValid
  BY <1>11 DEF ResultsValid
<1>13. RowsRight
  <2>1. ASSUME NEW t \in RenRows, NEW a PROVE RowRight(t, a)
    <3>1. \A r \in Regs : arf.busy[t][r] = FALSE
      BY DEF ArfReset
    <3> QED BY <1>11, <3>1 DEF RowRight
  <2> QED BY <1>8, <2>1 DEF RowsRight, RenRows
<1>14. Sound /\ Apart /\ TagsHeld /\ InTheirOrder
  BY <1>8, <1>9 DEF Sound, Apart, TagsHeld, InTheirOrder
<1> QED BY <1>2, <1>3, <1>4, <1>5, <1>7, <1>10, <1>12, <1>13, <1>14 DEF CoreInv

(* The invariant holds when a step resets the core.                         *)
LEMMA FreshThen == Fresh' => CoreInv'
BY FreshIs, PTL

(* The invariant holds in the initial states.                               *)
LEMMA InitIs == Init => CoreInv
<1> SUFFICES ASSUME Init PROVE CoreInv
  OBVIOUS
<1>1. Fresh
  BY BlankIs DEF Init, Fresh, RrfReset, RobReset, RobFields
<1> QED BY <1>1, FreshIs

(* A workload starts with a reset.                                          *)
LEMMA StartIs ==
  ASSUME CoreInv, NEW m, m = CoreNext(Settled), NEW data, Becomes(Started(m, data))
  PROVE  Fresh'
<1> USE DEF CoreInv
<1>1. m.ls2 = NextLs2 /\ m.rob = NextRob
  BY DEF CoreNext, Settled, NextLs2, NextRob, Took, Goes, Count
<1>2. /\ {"full", "src"} \subseteq DOMAIN NextLs2
      /\ IsEntry(NextLs2.src)
  <2>1. CASE LsGoes(Wires)
    <3>1. IsEntry(ex["ls"].src)
      BY DEF Shapes, Units
    <3> QED BY <2>1, <3>1 DEF NextLs2
  <2>2. CASE ~LsGoes(Wires)
    <3>1. NextLs2 = [ls2 EXCEPT !.full = FALSE]
      BY <2>2 DEF NextLs2
    <3> QED BY <3>1 DEF Shapes
  <2> QED BY <2>1, <2>2
<1>3. ASSUME NEW p \in Ptrs
      PROVE  DOMAIN NextRob[p] = RobFields /\ NextRob[p].rdUse \in BOOLEAN
  <2>1. CASE \E k \in 1..Took : p = Inc(rrf.reqPtr, k-1)
    <3>1. PICK k \in 1..2 : NextRob[p] = RobEntry(k)
      BY <2>1 DEF NextRob
    <3> QED BY <3>1, RobEntryIs
  <2>2. CASE ~\E k \in 1..Took : p = Inc(rrf.reqPtr, k-1)
    <3>1. NextRob[p] = [rob[p] EXCEPT !.wbFin = @ \/ p \in WrittenBack]
      BY <2>2 DEF NextRob
    <3>2. DOMAIN rob[p] = RobFields /\ rob[p].rdUse \in BOOLEAN
      BY DEF Shapes
    <3> QED BY <3>1, <3>2 DEF RobFields
  <2> QED BY <2>1, <2>2
<1>4. /\ fe' = FeReset /\ tg' = TagReset /\ arf' = ArfReset
      /\ rrf' = [RrfReset EXCEPT !.data = m.rrf.data]
      /\ rob' = [p \in Ptrs |-> [m.rob[p] EXCEPT !.wbFin = FALSE, !.isBranch = FALSE]]
      /\ comPtr' = 0 /\ rs' = RsReset /\ alloc' = [u \in InOrder |-> 0] /\ ex' = ExReset
      /\ ls2' = [m.ls2 EXCEPT !.full = FALSE]
  BY DEF Becomes, Started, AfterReset
<1>5. /\ DOMAIN rrf' = {"valid", "data", "freenum", "reqPtr", "nextRrfCycle"}
      /\ rrf'.freenum = RRF_NUM /\ rrf'.reqPtr = 0
  BY <1>4 DEF RrfReset
<1>6. {"full", "src"} \subseteq DOMAIN ls2' /\ ls2'.full = FALSE /\ IsEntry(ls2'.src)
  BY <1>1, <1>2, <1>4
<1>7. ASSUME NEW p \in Ptrs
      PROVE  /\ DOMAIN rob'[p] = RobFields
             /\ rob'[p].wbFin \in BOOLEAN /\ rob'[p].rdUse \in BOOLEAN
  <2>1. rob'[p] = [NextRob[p] EXCEPT !.wbFin = FALSE, !.isBranch = FALSE]
    BY <1>1, <1>4
  <2> QED BY <1>3, <2>1 DEF RobFields
<1> QED BY <1>4, <1>5, <1>6, <1>7 DEF Fresh

(* A clock edge keeps the invariant.                                        *)
LEMMA CoreKept ==
  ASSUME CoreInv, ClockEdge
  PROVE  CoreInv'
<1>1. Shapes' /\ FrontOk' /\ TablesOk' /\ TagsOk' /\ RingOk'
  BY ShapesKept, FrontKept, TablesKept, TagsKept, RingThen DEF CoreInv
<1>2. Sound' /\ Apart' /\ TagsHeld' /\ InTheirOrder' /\ BrOrder'
  BY SoundKept, ApartKept, TagsHeldKept, InTheirOrderKept, BrOrderKept
<1>3. ResultsValid' /\ RowsRight'
  BY ResultsValidKept, RowsRightKept
<1> QED BY <1>1, <1>2, <1>3 DEF CoreInv

-----------------------------------------------------------------------------
(* The steps of the bench, as the core sees them: a cycle, the start of a   *)
(* workload, or nothing.                                                    *)
Starts == Reloaded /\ \E data : Becomes(Started(CoreNext(Settled), data))
(* A step of the bench is a clock edge, a reset of the core, or leaves the  *)
(* core alone.                                                              *)
LEMMA CoreSteps ==
  ASSUME [CompareNext]_compareVars
  PROVE  ClockEdge \/ Starts \/ UNCHANGED vars
<1>1. ASSUME Alone(Settled, CoreNext(Settled)) PROVE ClockEdge
  BY <1>1 DEF Alone, Cycle, ClockEdge
<1>2. ASSUME NEW s, WorkloadInit(CoreNext(Settled), s) PROVE Starts
  BY <1>2 DEF WorkloadInit, Starts, Reloaded
<1>3. ASSUME NEW r, NEW s, CompareCycle(Settled, r, CoreNext(Settled), s) PROVE ClockEdge
  BY <1>3 DEF CompareCycle, Cycle, ClockEdge
<1>4. Upset \/ Summarized \/ UNCHANGED compareVars => UNCHANGED vars
  BY DEF Upset, Summarized, compareVars
<1> QED
  BY <1>1, <1>2, <1>3, <1>4 DEF CompareNext

(* A step that leaves the core alone keeps the invariant.                   *)
LEMMA CoreSame ==
  ASSUME CoreInv, UNCHANGED vars
  PROVE  CoreInv'
<1>1. /\ fe' = fe /\ tg' = tg /\ arf' = arf /\ rrf' = rrf /\ rob' = rob
      /\ comPtr' = comPtr /\ rs' = rs /\ alloc' = alloc /\ ex' = ex /\ ls2' = ls2
  BY DEF vars
<1> USE DEF CoreInv
<1>2. Shapes' /\ FrontOk' /\ TablesOk'
  BY <1>1 DEF Shapes, FrontOk, TablesOk
<1>3. TagsOk' /\ \A t \in Tags : Behind(t)' = Behind(t)
  BY <1>1 DEF TagsOk, Behind, Tagging!TagsRight, Tagging!Behind
<1>4. RingOk' /\ Waiting' = Waiting /\ \A p : Age(p)' = Age(p)
  BY <1>1 DEF RingOk, Ring!Accounts, Ring!Waiting, Ring!Ring, Ring!Rem, Ring!RoundOver,
              Waiting, Rem, RoundOver, Age
<1>5. /\ \A k : Lane(k)' = Lane(k)
      /\ Size' = Size
  BY <1>1 DEF Lane, Size
<1>6. /\ \A x : Held(x)' = Held(x) /\ At(x)' = At(x) /\ IsBr(x)' = IsBr(x)
      /\ \A x : AgeAt(x)' = AgeAt(x)
  BY <1>1, <1>4, <1>5 DEF Held, At, IsBr, AgeAt
<1>7. InFlight' = InFlight
  BY <1>1, <1>4 DEF InFlight, Waiting
<1>8. Sound' /\ Apart' /\ TagsHeld'
  BY <1>1, <1>6, <1>7 DEF Sound, Apart, TagsHeld
<1>9. InTheirOrder'
  BY <1>1, <1>6 DEF InTheirOrder, Behind, Tagging!Behind
<1>10. BrOrder' /\ ResultsValid'
  BY <1>1, <1>4, <1>7 DEF BrOrder, InRing, RowsIn, AgesIn, ResultsValid, Age
<1>11. RowsRight'
  BY <1>1, <1>6, <1>7 DEF RowsRight, RowRight, Age
<1> QED BY <1>2, <1>3, <1>4, <1>8, <1>9, <1>10, <1>11

(* The invariant holds when the bench starts.                               *)
LEMMA CoreInitOk == CompareInit => CoreInv
BY InitIs DEF CompareInit

(* A step of the bench keeps the invariant.                                 *)
LEMMA CoreNextOk == CoreInv /\ [CompareNext]_compareVars => CoreInv'
<1> SUFFICES ASSUME CoreInv, [CompareNext]_compareVars PROVE CoreInv'
  OBVIOUS
<1>1. ASSUME Starts PROVE CoreInv'
  <2>1. PICK data : Becomes(Started(CoreNext(Settled), data))
    BY <1>1 DEF Starts
  <2>2. Fresh'
    BY <2>1, StartIs
  <2> QED BY <2>2, FreshThen
<1> QED BY <1>1, CoreSteps, CoreKept, CoreSame

(* The core is right: what is in a station or a unit is in the ring without *)
(* a result, no two instructions have one age, a tag is in use exactly if   *)
(* an unresolved branch has it, what is behind a branch carries a tag that  *)
(* is not older, branches wait in order, and every row of the register      *)
(* tables names the youngest writer up to its branch.                       *)
THEOREM CoreIsRight == CompareSpec => []CoreInv
BY CoreInitOk, CoreNextOk, PTL DEF CompareSpec

-----------------------------------------------------------------------------
(* What the runs check, from the invariant.                                 *)

(* The branches of the core, as places.                                     *)
BranchSpots == {x \in Spots : Held(x) /\ IsBr(x)}
BranchAt(x) == [tag |-> At(x).specTag,
                age |-> IF x[1] = "lane" THEN RRF_NUM + x[2] ELSE AgeAt(x)]
(* The branches that FixExact speaks of are those in the dispatch stage,    *)
(* the branch station and the branch unit.                                  *)
LEMMA UnresolvedIs ==
  ASSUME CoreInv
  PROVE  Unresolved = {BranchAt(x) : x \in BranchSpots}
<1> USE DEF CoreInv
<1>1. ASSUME NEW b \in Unresolved PROVE \E x \in BranchSpots : b = BranchAt(x)
  <2>1. ASSUME NEW y \in Busy, y[1] = "br",
               b = [tag |-> Row(y).specTag, age |-> Age(Row(y).rrftag)]
        PROVE  \E x \in BranchSpots : b = BranchAt(x)
    <3>1. PICK u \in Units : \E i \in DOMAIN rs[u] : rs[u][i].busy /\ y = <<u, i>>
      BY DEF Busy
    <3>2. PICK i \in 0..(EntNum(u)-1) : rs[u][i].busy /\ y = <<u, i>>
      BY <3>1 DEF Shapes
    <3>3. u = "br"
      BY <2>1, <3>2
    <3>4. /\ y \in Spots /\ Held(y) /\ At(y) = rs[u][i] /\ AgeAt(y) = Age(rs[u][i].rrftag)
          /\ IsBr(y) /\ y[1] # "lane"
      BY <3>2, <3>3, SpotIs, RowSpot
    <3>5. Row(y) = rs[u][i]
      BY <3>2 DEF Row
    <3> QED BY <2>1, <3>4, <3>5 DEF BranchSpots, BranchAt
  <2>2. ASSUME NEW u \in {"br"} \cap Full,
               b = [tag |-> ex[u].src.specTag, age |-> Age(ex[u].src.rrftag)]
        PROVE  \E x \in BranchSpots : b = BranchAt(x)
    <3>1. u \in Units /\ u = "br" /\ ex[u].full
      BY DEF Full
    <3>2. PICK x : x = <<u, Ex>>
      OBVIOUS
    <3>3. /\ x \in Spots /\ Held(x) /\ At(x) = ex[u].src /\ AgeAt(x) = Age(ex[u].src.rrftag)
          /\ IsBr(x) /\ x[1] # "lane"
      BY <3>1, <3>2, SpotIs, ExSpot
    <3> QED BY <2>2, <3>3 DEF BranchSpots, BranchAt
  <2>3. ASSUME NEW k \in 1..Size, fe.dp, Lane(k).isBranch,
               b = [tag |-> Lane(k).specTag, age |-> RRF_NUM + k]
        PROVE  \E x \in BranchSpots : b = BranchAt(x)
    <3>1. PICK x : x = <<"lane", k>>
      OBVIOUS
    <3>2. x \in Spots /\ Held(x) /\ At(x) = Lane(k) /\ IsBr(x) /\ x[1] = "lane" /\ x[2] = k
      BY <2>3, <3>1, LaneHeld
    <3> QED BY <2>3, <3>2 DEF BranchSpots, BranchAt
  <2> QED BY <2>1, <2>2, <2>3 DEF Unresolved
<1>2. ASSUME NEW x \in BranchSpots PROVE BranchAt(x) \in Unresolved
  <2>1. x \in Spots /\ Held(x) /\ IsBr(x)
    BY DEF BranchSpots
  <2>2. CASE \E k \in 1..2 : x = <<"lane", k>>
    <3>1. PICK k \in 1..2 : x = <<"lane", k>>
      BY <2>2
    <3>2. fe.dp /\ k <= Size /\ At(x) = Lane(k) /\ Lane(k).isBranch
      BY <2>1, <3>1, LaneSpot
    <3>3. k \in {j \in 1..Size : fe.dp /\ Lane(j).isBranch}
      BY <3>2 DEF Size
    <3>4. BranchAt(x) = [tag |-> Lane(k).specTag, age |-> RRF_NUM + k]
      BY <3>1, <3>2 DEF BranchAt
    <3> QED BY <3>3, <3>4 DEF Unresolved
  <2>3. CASE \E u \in Units : x = <<u, Ex>>
    <3>1. PICK u \in Units : x = <<u, Ex>>
      BY <2>3
    <3>2. u = "br" /\ ex[u].full /\ At(x) = ex[u].src /\ AgeAt(x) = Age(ex[u].src.rrftag)
      BY <2>1, <3>1, ExSpot
    <3>3. BranchAt(x) = [tag |-> ex[u].src.specTag, age |-> Age(ex[u].src.rrftag)]
      BY <3>1, <3>2 DEF BranchAt
    <3>4. u \in {"br"} \cap Full
      BY <3>2 DEF Full
    <3> QED BY <3>3, <3>4 DEF Unresolved
  <2>4. CASE \E u \in Units : \E i \in 0..(EntNum(u)-1) : x = <<u, i>>
    <3>0. PICK u \in Units : \E i \in 0..(EntNum(u)-1) : x = <<u, i>>
      BY <2>4
    <3>1. PICK i \in 0..(EntNum(u)-1) : x = <<u, i>>
      BY <3>0
    <3>2. u = "br" /\ rs[u][i].busy /\ At(x) = rs[u][i] /\ AgeAt(x) = Age(rs[u][i].rrftag)
      BY <2>1, <3>1, RowSpot
    <3>3. Row(x) = rs[u][i] /\ x[1] = "br"
      BY <3>1, <3>2 DEF Row
    <3>4. x \in Busy
      <4>1. i \in DOMAIN rs[u]
        BY DEF Shapes
      <4> QED BY <3>1, <3>2, <4>1 DEF Busy
    <3>5. BranchAt(x) = [tag |-> Row(x).specTag, age |-> Age(Row(x).rrftag)]
      BY <3>2, <3>3 DEF BranchAt
    <3> QED BY <3>3, <3>4, <3>5 DEF Unresolved
  <2>5. CASE x = <<"ls", Ls2>>
    BY <2>1, <2>5, Ls2Spot
  <2> QED BY <2>1, <2>2, <2>3, <2>4, <2>5, SpotIs
<1> QED BY <1>1, <1>2

(* Branches are told apart by their ages and by their tags.                 *)
LEMMA BranchesApart ==
  ASSUME CoreInv, NEW x \in BranchSpots, NEW y \in BranchSpots
  PROVE  /\ At(x).specTag = At(y).specTag => x = y
         /\ BranchAt(y).age >= BranchAt(x).age
              <=> Behind(At(y).specTag) <= Behind(At(x).specTag)
<1> USE DEF CoreInv
<1>1. x \in Spots /\ y \in Spots /\ Held(x) /\ Held(y) /\ IsBr(x) /\ IsBr(y)
  BY DEF BranchSpots
<1>2. AgeAt(x) \in Int /\ AgeAt(y) \in Int
  BY <1>1, HeldAge
<1>3. AgeAt(x) = AgeAt(y) => x = y
  BY <1>1 DEF Apart
<1>4. Behind(At(x).specTag) \in Int /\ Behind(At(y).specTag) \in Int
  BY <1>1, BranchTag
<1>5. /\ AgeAt(x) < AgeAt(y) => Behind(At(y).specTag) < Behind(At(x).specTag)
      /\ AgeAt(y) < AgeAt(x) => Behind(At(x).specTag) < Behind(At(y).specTag)
  BY <1>1, <1>4 DEF InTheirOrder
<1>6. BranchAt(y).age >= BranchAt(x).age <=> AgeAt(y) >= AgeAt(x)
  <2> DEFINE W == Waiting
             A(z) == AgeAt(z)
  <2>1. W \in Int /\ RRF_NUM \in Int /\ W <= RRF_NUM
    BY RingFacts, RingSize
  <2>2. ASSUME NEW z \in BranchSpots
        PROVE  /\ A(z) \in Int
               /\ z[1] = "lane" => BranchAt(z).age = RRF_NUM + z[2] /\ z[2] \in 1..2
                                   /\ A(z) = W + z[2] - 1
               /\ z[1] # "lane" => BranchAt(z).age = A(z) /\ A(z) < W
    <3>1. z \in Spots /\ Held(z)
      BY DEF BranchSpots
    <3> QED BY <3>1, HeldAge DEF BranchAt
  <2> SUFFICES BranchAt(y).age >= BranchAt(x).age <=> A(y) >= A(x)
    OBVIOUS
  <2> HIDE DEF W, A
  <2>3. CASE x[1] = "lane" /\ y[1] = "lane"
    BY <2>1, <2>2, <2>3
  <2>4. CASE x[1] = "lane" /\ y[1] # "lane"
    BY <2>1, <2>2, <2>4
  <2>5. CASE x[1] # "lane" /\ y[1] = "lane"
    BY <2>1, <2>2, <2>5
  <2>6. CASE x[1] # "lane" /\ y[1] # "lane"
    BY <2>2, <2>6
  <2> QED BY <2>3, <2>4, <2>5, <2>6
<1> DEFINE a == AgeAt(x)
           c == AgeAt(y)
           d == Behind(At(x).specTag)
           e == Behind(At(y).specTag)
<1>7. /\ a \in Int /\ c \in Int /\ d \in Int /\ e \in Int
      /\ a = c => x = y
      /\ a < c => e < d
      /\ c < a => d < e
      /\ x = y => d = e
      /\ At(x).specTag = At(y).specTag => d = e
      /\ BranchAt(y).age >= BranchAt(x).age <=> c >= a
  BY <1>2, <1>3, <1>4, <1>5, <1>6
<1> SUFFICES /\ At(x).specTag = At(y).specTag => x = y
             /\ BranchAt(y).age >= BranchAt(x).age <=> e <= d
  OBVIOUS
<1> HIDE DEF a, c, d, e
<1> QED BY <1>7

(* The invariant implies FixExact.                                          *)
LEMMA FixIsExact == CoreInv => FixExact
<1> SUFFICES ASSUME CoreInv PROVE FixExact
  OBVIOUS
<1> USE DEF CoreInv
<1>1. Unresolved = {BranchAt(x) : x \in BranchSpots}
  BY UnresolvedIs
<1>2. ASSUME NEW x \in BranchSpots
      PROVE  /\ BranchAt(x).tag = At(x).specTag /\ At(x).specTag \in Tags
             /\ tg.valid[At(x).specTag]
             /\ Behind(At(x).specTag) \in 0..(tg.brdepth-1)
  <2>1. x \in Spots /\ Held(x) /\ IsBr(x)
    BY DEF BranchSpots
  <2>2. At(x).specTag \in Tags /\ tg.valid[At(x).specTag] /\ Behind(At(x).specTag) < tg.brdepth
    BY <2>1, BranchTag
  <2>3. Behind(At(x).specTag) \in 0..BRANCH_ENT_NUM /\ tg.brdepth \in 0..BRANCH_ENT_NUM
    BY <2>2, TagFacts
  <2> QED BY <2>2, <2>3, TagSize DEF BranchAt
<1>3. ASSUME NEW t \in Tags, tg.valid[t]
      PROVE  \E x \in BranchSpots : At(x).specTag = t
  BY <1>3 DEF TagsHeld, BranchSpots
<1>4. {t \in Tags : tg.valid[t]} = {b.tag : b \in Unresolved}
  BY <1>1, <1>2, <1>3
<1>5. ASSUME NEW x \in BranchSpots
      PROVE  tg.fixTag[At(x).specTag]
               = {c.tag : c \in {d \in Unresolved : d.age >= BranchAt(x).age}}
  <2> DEFINE t == At(x).specTag
             U == {c.tag : c \in {d \in Unresolved : d.age >= BranchAt(x).age}}
  <2>1. tg.fixTag[t] = {u \in Tags : Behind(u) <= Behind(t)}
    BY <1>2, TagFacts
  <2>2. ASSUME NEW u \in Tags, Behind(u) <= Behind(t) PROVE u \in U
    <3>1. tg.valid[u]
      <4>1. Behind(u) \in Int /\ Behind(t) \in 0..(tg.brdepth-1) /\ tg.brdepth \in Int
        BY <1>2, TagFacts, TagSize
      <4>2. Behind(u) < tg.brdepth
        BY <2>2, <4>1
      <4> QED BY <4>2, TagFacts
    <3>2. PICK y \in BranchSpots : At(y).specTag = u
      BY <1>3, <3>1
    <3>3. BranchAt(y).age >= BranchAt(x).age
      BY <2>2, <3>2, BranchesApart
    <3> QED BY <1>1, <1>2, <3>2, <3>3
  <2>3. ASSUME NEW u \in U PROVE u \in Tags /\ Behind(u) <= Behind(t)
    <3>1. PICK y \in BranchSpots : u = BranchAt(y).tag /\ BranchAt(y).age >= BranchAt(x).age
      BY <1>1
    <3> QED BY <1>2, <3>1, BranchesApart
  <2> HIDE DEF U
  <2> QED BY <2>1, <2>2, <2>3 DEF U
<1>6. \A b \in Unresolved :
        tg.fixTag[b.tag] = {c.tag : c \in {d \in Unresolved : d.age >= b.age}}
  BY <1>1, <1>2, <1>5
<1>7. tg.brdepth = Cardinality(Unresolved)
  <2> DEFINE S == 0..(tg.brdepth-1)
             B(b) == Behind(b.tag)
  <2>1. ASSUME NEW b \in Unresolved PROVE B(b) \in S
    BY <1>1, <1>2
  <2>2. ASSUME NEW b \in Unresolved, NEW c \in Unresolved, B(b) = B(c) PROVE b = c
    <3>1. PICK x \in BranchSpots : b = BranchAt(x)
      BY <1>1
    <3>2. PICK y \in BranchSpots : c = BranchAt(y)
      BY <1>1
    <3>3. Behind(At(x).specTag) = Behind(At(y).specTag)
      BY <1>2, <2>2, <3>1, <3>2
    <3>4. At(x).specTag = At(y).specTag
      BY <1>2, <3>3, TagFacts
    <3> QED BY <3>1, <3>2, <3>4, BranchesApart
  <2>3. ASSUME NEW i \in S PROVE \E b \in Unresolved : B(b) = i
    <3>1. tg.brdepth \in 0..BRANCH_ENT_NUM
      BY TagFacts
    <3>2. i \in 0..BRANCH_ENT_NUM /\ i < tg.brdepth
      BY <3>1, TagSize
    <3>3. PICK u \in Tags : Behind(u) = i
      BY <3>2, TagWith
    <3>4. tg.valid[u]
      BY <3>2, <3>3, TagFacts
    <3>5. PICK x \in BranchSpots : At(x).specTag = u
      BY <1>3, <3>4
    <3>6. BranchAt(x) \in Unresolved /\ BranchAt(x).tag = u
      BY <1>1, <1>2, <3>5
    <3> QED BY <3>3, <3>6
  <2>4. IsFiniteSet(S) /\ Cardinality(S) = tg.brdepth
    <3>1. tg.brdepth \in Nat
      BY TagFacts, TagSize
    <3> QED BY <3>1, FirstNumbers
  <2> HIDE DEF S, B
  <2> DEFINE g == [i \in S |-> CHOOSE b \in Unresolved : B(b) = i]
  <2>5. g \in [S -> Unresolved] /\ \A i \in S : B(g[i]) = i
    BY <2>3
  <2>6. \A b \in Unresolved : g[B(b)] = b
    BY <2>1, <2>2, <2>5
  <2> HIDE DEF g
  <2>7. g \in Bijection(S, Unresolved)
    BY <2>1, <2>5, <2>6 DEF Bijection, Injection, Surjection, IsInjective
  <2>8. ExistsBijection(S, Unresolved)
    BY <2>7 DEF ExistsBijection
  <2> QED BY <2>4, <2>8, FS_Bijection
<1> QED BY <1>4, <1>6, <1>7 DEF FixExact

(* A row of the fix table of TagGen (mpft.h) names exactly the unresolved   *)
(* branches that are not younger than its branch, wherever those branches   *)
(* are: what a mispredict kills by that mask (MPFT) is exactly what is      *)
(* behind the branch.                                                       *)
THEOREM FixIsRight == CompareSpec => []FixExact
BY CoreIsRight, FixIsExact, PTL

(* The invariant implies TablesRight.                                       *)
LEMMA TablesAreRight == CoreInv => TablesRight
<1> SUFFICES ASSUME CoreInv PROVE TablesRight
  OBVIOUS
<1>1. ASSUME NEW b \in Unresolved, b.age < RRF_NUM PROVE RowRight(b.tag, b.age + 1)
  <2>1. PICK x \in BranchSpots : b = BranchAt(x)
    BY UnresolvedIs
  <2>2. x \in Spots /\ Held(x) /\ IsBr(x)
    BY DEF BranchSpots
  <2>3. x[1] # "lane"
    <3> SUFFICES ASSUME x[1] = "lane" PROVE FALSE
      OBVIOUS
    <3>1. b.age = RRF_NUM + x[2] /\ x[2] \in 1..2
      BY <2>1, <2>2, HeldAge DEF BranchAt
    <3> QED BY <1>1, <3>1, RingSize
  <2>4. b.tag = At(x).specTag /\ b.age = AgeAt(x)
    BY <2>1, <2>3 DEF BranchAt
  <2> QED BY <2>2, <2>4 DEF CoreInv, RowsRight
<1> QED BY <1>1 DEF CoreInv, RowsRight, TablesRight

(* The copies of the rename table that the architectural register file      *)
(* keeps for the branches (Arf, arf.h) are what onMisPred has to find:      *)
(* the copy of an unresolved branch names the youngest writer up to the     *)
(* branch, the master the youngest of all.                                  *)
THEOREM TablesStayRight == CompareSpec => []TablesRight
BY CoreIsRight, TablesAreRight, PTL

-----------------------------------------------------------------------------
(* Tags and ring entries live as modules TagRing and RrfRing say.           *)
LEMMA TagStep ==
  ASSUME CoreInv, [CompareNext]_compareVars
  PROVE  [Tagging!TagNext \/ (Reloaded /\ Tagging!TagInit')]_tg
<1> USE DEF CoreInv
<1>1. Tagging!Tags = Tags
  BY DEF Tagging!Tags, Tags, Tagging!SPECTAG_LEN, SPECTAG_LEN
<1>2. ASSUME NEW t \in Tags, tg.brdepth # 0, Behind(t) = tg.brdepth - 1,
             tg' = TagMisPred(tg, t) \/ tg' = TagSucPred(tg, t)
      PROVE  Tagging!TagNext
  <2>1. Tagging!TagMisPred(tg, t) = TagMisPred(tg, t)
        /\ Tagging!TagSucPred(tg, t) = TagSucPred(tg, t)
    BY <1>1 DEF Tagging!TagMisPred, TagMisPred, Tagging!TagSucPred, TagSucPred,
                Tagging!TagReset, TagReset, Tagging!TagBefore, TagBefore,
                Tagging!SPECTAG_LEN, SPECTAG_LEN
  <2>2. Tagging!Oldest(t)
    BY <1>2 DEF Tagging!Oldest, Behind
  <2>3. Tagging!Resolved(t)
    BY <1>2, <2>1, <2>2 DEF Tagging!Resolved
  <2> QED BY <1>1, <2>3 DEF Tagging!TagNext
<1>3. ASSUME ClockEdge PROVE Tagging!TagNext \/ tg' = tg
  <2>1. CASE Wires.mis \/ Wires.suc
    <3>1. ex["br"].full /\ Wires.tag \in Tags
      BY <2>1, WireFacts
    <3>2. tg.brdepth # 0 /\ Behind(Wires.tag) = tg.brdepth - 1
      BY <3>1, OldestTag
    <3>3. tg' = TagMisPred(tg, Wires.tag) \/ tg' = TagSucPred(tg, Wires.tag)
      BY <1>3, <2>1, TagSteps
    <3> QED BY <1>2, <3>1, <3>2, <3>3
  <2>2. CASE Fills
    <3>1. PICK b1 \in BOOLEAN : b1 = Dcw1.isBranch
      BY <1>3, <2>2, TagSteps
    <3>2. PICK b2 \in BOOLEAN : b2 = Dcw2.isBranch
      BY <1>3, <2>2, TagSteps
    <3>3. IsAllGenble(tg, b1, b2) /\ tg' = Allocate(tg, b1, b2)
      BY <1>3, <2>2, <3>1, <3>2, TagSteps
    <3>4. Tagging!Decoded(b1, b2)
      BY <1>1, <3>3 DEF Tagging!Decoded, Tagging!IsAllGenble, IsAllGenble,
           Tagging!Allocate, Allocate, Tagging!AddNew, AddNew,
           Tagging!GenTag1, GenTag1, Tagging!GenTag2, GenTag2, Tagging!TagAfter, TagAfter,
           Tagging!Bit, Bit, Tagging!SPECTAG_LEN, SPECTAG_LEN
    <3> QED BY <3>4 DEF Tagging!TagNext
  <2>3. CASE ~Wires.mis /\ ~Wires.suc /\ ~Fills
    BY <1>3, <2>3, TagSteps
  <2> QED BY <2>1, <2>2, <2>3
<1>4. ASSUME Starts PROVE Reloaded /\ Tagging!TagInit'
  <2>1. Reloaded /\ tg' = TagReset
    BY <1>4 DEF Starts, Becomes, Started, AfterReset
  <2> QED BY <1>1, <2>1 DEF Tagging!TagInit, Tagging!TagReset, TagReset
<1>5. UNCHANGED vars => tg' = tg
  BY DEF vars
<1> QED BY <1>3, <1>4, <1>5, CoreSteps

(* A step of the core is a step of the abstract ring.                       *)
LEMMA RingStep ==
  ASSUME CoreInv, [CompareNext]_compareVars
  PROVE  [Ring!RingNext \/ (Reloaded /\ Ring!RingInit')]_(Ring!ringVars)
<1> USE DEF CoreInv
<1>1. ASSUME ClockEdge PROVE Ring!RingNext
  <2>1. /\ Count \in 0..2 /\ Took \in 0..2 /\ Count <= Waiting
        /\ comPtr' = Inc(comPtr, Count)
        /\ Wires.mis => Count = 0 /\ Age(Wires.rrftag) < Waiting
    BY <1>1, RingThen
  <2>2. comPtr \in Ptrs /\ rrf.freenum \in 0..RRF_NUM
    BY RingFacts
  <2>3. Ring!Waiting = Waiting
    BY DEF Ring!Waiting, Waiting, Ring!Rem, Rem, Ring!Ring, Ring!RoundOver, RoundOver
  <2>4. CASE ~Wires.mis
    <3>1. rrf'.freenum = rrf.freenum + Count - Took /\ rrf'.reqPtr = Inc(rrf.reqPtr, Took)
      BY <1>1, <2>4, RrfThen
    <3>2. PICK n \in 0..2 : n = Took
      BY <2>1
    <3>3. PICK c \in 0..2 : c = Count
      BY <2>1
    <3>4. rrf.freenum + c >= n
      <4>1. CASE Goes
        <5>1. rrf.freenum + Count >= Size /\ Took = Size
          BY <4>1, GoFacts DEF Took
        <5> QED BY <3>2, <3>3, <5>1
      <4>2. CASE ~Goes
        <5>1. n = 0
          BY <3>2, <4>2 DEF Took
        <5> QED BY <2>2, <5>1, RingSize
      <4> QED BY <4>1, <4>2
    <3>5. Ring!Flow(n, c)
      <4>1. Ring!IsRenamable(Ring!Ring, n, c)
        BY <3>4 DEF Ring!IsRenamable, Ring!Ring
      <4>2. \A p : Ring!Inc(p, n) = Inc(p, n) /\ Ring!Inc(p, c) = Inc(p, c)
        BY DEF Ring!Inc, Inc
      <4> QED BY <2>1, <2>3, <3>1, <3>2, <3>3, <4>1, <4>2 DEF Ring!Flow
    <3> QED BY <3>5 DEF Ring!RingNext
  <2>5. CASE Wires.mis
    <3>1. Wires.rrftag \in Ptrs
      BY WireFacts
    <3>2. PICK p \in Ptrs : p = Wires.rrftag
      BY <3>1
    <3>3. PICK b \in Ptrs : b = Age(p)
      BY AgeIs
    <3>4. Inc(comPtr, b) = p
      <4>1. b = Gap(comPtr, p)
        BY <3>3, AgeIs
      <4> QED BY <2>2, <4>1, RingSize DEF Gap, Inc
    <3>5. /\ rrf'.freenum = (IF comPtr >= Inc(p, 1) THEN comPtr - Inc(p, 1)
                             ELSE RRF_NUM - Inc(p, 1) + comPtr)
          /\ rrf'.reqPtr = Inc(p, 1)
      BY <1>1, <2>5, <3>2, RrfThen
    <3>6. comPtr' = comPtr
      BY <2>1, <2>2, <2>5, RingSize DEF Inc
    <3>7. Ring!TakeBack(b)
      <4> DEFINE q == Ring!RrfMisPred(Ring!Ring, Ring!Inc(comPtr, b), comPtr)
                 m == Inc(p, 1)
      <4>1. q.reqPtr = m /\ q.freenum = (IF comPtr >= m THEN comPtr - m
                                         ELSE RRF_NUM - m + comPtr)
        <5>1. Ring!Inc(comPtr, b) = p /\ Ring!Inc(p, 1) = m
          BY <3>4 DEF Ring!Inc, Inc
        <5> HIDE DEF m
        <5> QED BY <5>1 DEF Ring!RrfMisPred, Ring!Ring
      <4>2. b < Ring!Waiting
        BY <2>1, <2>3, <2>5, <3>2, <3>3
      <4>3. rrf'.freenum = q.freenum /\ rrf'.reqPtr = q.reqPtr
        BY <3>5, <4>1
      <4> QED BY <3>6, <4>2, <4>3 DEF Ring!TakeBack
    <3>8. b \in Ring!Ptrs
      BY DEF Ring!Ptrs, Ptrs
    <3> QED BY <3>7, <3>8 DEF Ring!RingNext
  <2> QED BY <2>4, <2>5
<1>2. ASSUME Starts PROVE Reloaded /\ Ring!RingInit'
  <2>1. Reloaded /\ rrf'.freenum = RRF_NUM /\ rrf'.reqPtr = 0 /\ comPtr' = 0
    <3>1. PICK data : Becomes(Started(CoreNext(Settled), data))
      BY <1>2 DEF Starts
    <3>2. Fresh'
      BY <3>1, StartIs
    <3> QED BY <1>2, <3>2 DEF Starts, Fresh
  <2> QED BY <2>1 DEF Ring!RingInit
<1>3. UNCHANGED vars => UNCHANGED Ring!ringVars
  BY DEF vars, Ring!ringVars
<1> QED BY <1>1, <1>2, <1>3, CoreSteps

(* The tags and the ring begin as the abstract ones.                        *)
LEMMA LifeBegins == CompareInit => Tagging!TagInit /\ Ring!RingInit
BY DEF CompareInit, Init, Tagging!TagInit, Tagging!TagReset, TagReset, Tagging!Tags, Tags,
       Tagging!SPECTAG_LEN, SPECTAG_LEN, Ring!RingInit, RrfReset

(* Every cycle of the core moves the tags (tagGen.h) and the counters of    *)
(* the ring (rrf.h) as modules TagRing and RrfRing allow: the detailed core *)
(* implements both, through a mispredict, a success and a reset.            *)
THEOREM LivesAsTold == CompareSpec => TagsAndRingLive
<1>1. CoreInv /\ [CompareNext]_compareVars
        => [Tagging!TagNext \/ (Reloaded /\ Tagging!TagInit')]_tg
  BY TagStep
<1>2. CoreInv /\ [CompareNext]_compareVars
        => [Ring!RingNext \/ (Reloaded /\ Ring!RingInit')]_(Ring!ringVars)
  BY RingStep
<1> QED BY <1>1, <1>2, LifeBegins, CoreIsRight, PTL DEF CompareSpec, TagsAndRingLive
-----------------------------------------------------------------------------
(* The types of what the core computes with: addresses are words, values    *)
(* are numbers, registers of an instruction are registers.                  *)
AluOps == {"ADD", "MUL", "SEQ", "SNE"}

EntryData(e) ==
  e.pc \in Int /\ e.imm \in Int /\ e.p1 \in Int /\ e.p2 \in Int /\ e.aluOp \in AluOps

LaneData(d) == d.rs1 \in Regs /\ d.rs2 \in Regs /\ d.imm \in Int /\ d.aluOp \in AluOps

StoreData(e) ==
  {"mem_addr", "data"} \subseteq DOMAIN e /\ e.mem_addr \in Words /\ e.data \in Int

FrontData ==
  /\ prog \in [Words -> Instr]
  /\ fe.curPc \in Words /\ fe.pc \in Int /\ fe.raw.pc \in Int
  /\ fe.raw.inst1 \in Instr /\ fe.raw.inst2 \in Instr
  /\ LaneData(fe.dcd1) /\ LaneData(fe.dcd2)

RegData ==
  /\ \A r \in Regs : arf.reg[r] \in Int
  /\ \A p \in Ptrs : rrf.data[p] \in Int

UnitData ==
  \A u \in Units : /\ EntryData(ex[u].src)
                   /\ \A i \in 0..(EntNum(u)-1) : EntryData(rs[u][i])

StoresData(s) == StoreBufferOk(s) /\ \A i \in StRows : StoreData(s.ent[i])

MemData ==
  /\ "data" \in DOMAIN ls2 /\ ls2.data \in Int
  /\ StoresData(sb)
  /\ dmem \in [Words -> Int] /\ cmd.addr \in Words /\ cmd.data \in Int

(* The workload that the bench is at is one of its list.                    *)
JobsData ==
  /\ jobs \in Benches
  /\ DOMAIN ctl = {"phase", "job", "retard", "retarted", "errorIndexs", "upset"}
  /\ ctl.phase \in {"init", "run"} => ctl.job \in 1..Len(jobs)

OperandsWait ==
  \A u \in Units : \A i \in 0..(EntNum(u)-1) : rs[u][i].busy =>
    /\ ~rs[u][i].v1 => Serves(rs[u][i].p1, rs[u][i])
    /\ ~rs[u][i].v2 => Serves(rs[u][i].p2, rs[u][i])

DataInv == FrontData /\ RegData /\ UnitData /\ MemData /\ JobsData

(* Addresses and values.                                                    *)
LEMMA PlusIs ==
  ASSUME NEW a \in Int, NEW b \in Int
  PROVE  Plus(a, b) \in Words /\ Plus(a, b) \in Int /\ Plus(a, 1) \in Words /\ Plus(a, 1) \in Int
         /\ Plus(a, 2) \in Words
<1>1. WORD \in Nat \ {0}
  BY InstrAssumption
<1> QED BY <1>1 DEF Plus, Words

(* The arithmetic unit yields numbers.                                      *)
LEMMA AluIs ==
  ASSUME NEW op \in AluOps, NEW a \in Int, NEW b \in Int
  PROVE  Alu(op, a, b) \in Int
<1>1. WORD \in Nat \ {0}
  BY InstrAssumption
<1>2. Plus(a, b) \in Int
  BY PlusIs
<1>3. (a * b) % WORD \in Int
  <2>1. a * b \in Int
    OBVIOUS
  <2> DEFINE c == a * b
  <2> HIDE DEF c
  <2>2. c \in Int => c % WORD \in Int
    BY <1>1
  <2> QED BY <2>1, <2>2 DEF c
<1> DEFINE p == Plus(a, b)
           m == (a * b) % WORD
           s == IF a = b THEN 1 ELSE 0
           n == IF a # b THEN 1 ELSE 0
<1>4. Alu(op, a, b) = CASE op = "ADD" -> p [] op = "MUL" -> m [] op = "SEQ" -> s
                        [] op = "SNE" -> n
  BY DEF Alu
<1>5. p \in Int /\ m \in Int /\ s \in Int /\ n \in Int
  BY <1>2, <1>3
<1> HIDE DEF p, m, s, n
<1> QED BY <1>4, <1>5 DEF AluOps

(* Where a branch goes is an address.                                       *)
LEMMA TargetIs ==
  ASSUME NEW e, EntryData(e)
  PROVE  CalAddr(e) \in Words
<1> USE DEF EntryData
<1>0. e.p1 \in Int /\ e.imm \in Int /\ e.pc \in Int
  OBVIOUS
<1>1. Plus(e.p1, e.imm) \in Words /\ Plus(e.pc, e.imm) \in Words /\ Plus(e.pc, 1) \in Words
  BY <1>0, PlusIs
<1> DEFINE j == e.op = "jalr"
           t == e.op # "jalr" /\ (e.op = "jal" \/ Alu(e.aluOp, e.p1, e.p2) % 2 = 1)
<1>2. CalAddr(e) = CASE j -> Plus(e.p1, e.imm) [] t -> Plus(e.pc, e.imm)
                     [] OTHER -> Plus(e.pc, 1)
  BY DEF CalAddr
<1>3. ~(j /\ t)
  OBVIOUS
<1> HIDE DEF j, t
<1> QED BY <1>1, <1>2, <1>3

(* What a unit computes is a number.                                        *)
LEMMA ResultIs ==
  ASSUME UnitData, NEW u \in Units
  PROVE  Result(u) \in Int
<1> DEFINE e == ex[u].src
           a == IF e.selA = "pc" THEN e.pc ELSE e.p1
           b == IF e.selB = "rs2" THEN e.p2 ELSE e.imm
<1>1. EntryData(e)
  BY DEF UnitData
<1>2. Result(u) = IF u = "br" THEN Plus(e.pc, 1) ELSE Alu(e.aluOp, a, b)
  BY DEF Result, SrcA, SrcB
<1> HIDE DEF e
<1>3. a \in Int /\ b \in Int /\ e.aluOp \in AluOps /\ e.pc \in Int
  BY <1>1 DEF EntryData
<1>4. Plus(e.pc, 1) \in Int
  BY <1>3, PlusIs
<1> HIDE DEF a, b
<1> QED BY <1>2, <1>3, <1>4, AluIs

(* So is what a load yields.                                                *)
LEMMA ResolvedIs ==
  ASSUME MemData
  PROVE  ResolvedData \in Int
BY DEF MemData, ResolvedData

(* Results that are bypassed are numbers.                                   *)
LEMMA BypassIs ==
  ASSUME UnitData, MemData
  PROVE  /\ \A b \in ByPasses : b.val \in Int
         /\ \A p : Served(ByPasses, p) => ValueOf(ByPasses, p) \in Int
<1>1. ASSUME NEW b \in ByPasses PROVE b.val \in Int
  <2>1. \/ \E u \in Units : b = [tag |-> ex[u].src.rrftag, val |-> Result(u)]
        \/ b = [tag |-> ls2.src.rrftag, val |-> ResolvedData]
    BY DEF ByPasses, Finishing
  <2> QED BY <2>1, ResultIs, ResolvedIs
<1>2. ASSUME NEW p, Served(ByPasses, p) PROVE ValueOf(ByPasses, p) \in Int
  <2> DEFINE c == CHOOSE b \in ByPasses : b.tag = p
  <2>1. \E b \in ByPasses : b.tag = p
    BY <1>2 DEF Served
  <2>2. c \in ByPasses
    BY <2>1
  <2> HIDE DEF c
  <2>3. c.val \in Int
    BY <1>1, <2>2
  <2> QED BY <2>3 DEF ValueOf, c
<1> QED BY <1>1, <1>2

-----------------------------------------------------------------------------
(* The front stages.                                                        *)

(* What is fetched is an instruction, and the next address is one.          *)
LEMMA FetchedIs ==
  ASSUME FrontData
  PROVE  /\ Fetched.npc \in Words /\ Fetched.pc \in Int
         /\ Fetched.inst1 \in Instr /\ Fetched.inst2 \in Instr
<1> DEFINE sel == fe.curPc % 4
           odd == sel % 2 = 1
           n   == Plus(fe.curPc, IF odd THEN 1 ELSE 2)
           a   == (fe.curPc - sel) + ((sel + 1) % 4)
<1>1. fe.curPc \in Words /\ prog \in [Words -> Instr]
  BY DEF FrontData
<1>2. WORD \in Nat \ {0} /\ WORD % 4 = 0
  BY InstrAssumption, FetchAssumption
<1>3. fe.curPc \in Int
  BY <1>1, <1>2 DEF Words
<1>4. n \in Words
  <2>1. Plus(fe.curPc, 1) \in Words /\ Plus(fe.curPc, 2) \in Words
    BY <1>3, PlusIs
  <2> QED BY <2>1
<1>5. a \in Words
  <2> DEFINE c == fe.curPc
  <2>1. c \in 0..(WORD-1)
    BY <1>1 DEF Words
  <2> HIDE DEF c
  <2>2. (c - (c % 4)) + (((c % 4) + 1) % 4) \in 0..(WORD-1)
    BY <1>2, <2>1
  <2> QED BY <2>2 DEF c, Words
<1>6. Fetched = [invalid2 |-> odd, pc |-> fe.curPc, npc |-> n,
                 inst1 |-> prog[fe.curPc], inst2 |-> prog[a]]
  BY DEF Fetched
<1> HIDE DEF odd, n, a
<1> QED BY <1>1, <1>3, <1>4, <1>5, <1>6

(* The decoder keeps the registers and the constant of an instruction.      *)
LEMMA DecodeData ==
  ASSUME NEW i \in Instr, NEW inv, NEW pred, NEW s, NEW t
  PROVE  LaneData([Decode(i, inv, pred) EXCEPT !.spec = s, !.specTag = t])
<1>1. i.rs1 \in Regs /\ i.rs2 \in Regs /\ i.imm \in Words
  BY DEF Instr
<1>2. i.imm \in Int
  BY <1>1, InstrAssumption DEF Words
<1>3. AluOp(i.op) \in AluOps
  BY DEF AluOp, AluOps
<1> DEFINE c == Decode(i, inv, pred)
           d == [c EXCEPT !.spec = s, !.specTag = t]
<1>4. /\ {"rs1", "rs2", "imm", "aluOp"} \subseteq DOMAIN c
      /\ c.rs1 = i.rs1 /\ c.rs2 = i.rs2 /\ c.imm = i.imm /\ c.aluOp = AluOp(i.op)
  BY DEF Decode
<1> HIDE DEF c
<1>5. d.rs1 = c.rs1 /\ d.rs2 = c.rs2 /\ d.imm = c.imm /\ d.aluOp = c.aluOp
  BY <1>4
<1> HIDE DEF d
<1>6. LaneData(d)
  BY <1>1, <1>2, <1>3, <1>4, <1>5 DEF LaneData
<1> QED BY <1>6 DEF c, d

(* The registers of the front stages that hold addresses and instructions.  *)
LEMMA FrontMoves ==
  ASSUME FrontOk, ClockEdge
  PROVE  /\ fe'.curPc \in {Wires.calAddr, Fetched.npc, fe.curPc}
         /\ fe'.pc \in {fe.raw.pc, fe.pc}
         /\ fe'.raw \in {Fetched, fe.raw}
<1> DEFINE F == {"curPc", "raw", "dc", "dp", "dcd1", "dcd2", "pc", "desEqSrc1", "desEqSrc2"}
           w == Wires
           fetched == Fetches(w, Fills)
           f0 == IF w.suc THEN FrontSuc(fe, w) ELSE fe
           f1 == IF Fills THEN DecodedGroup(f0) ELSE f0
           f2 == IF fetched THEN [f1 EXCEPT !.raw = Fetched, !.curPc = Fetched.npc] ELSE f1
           a  == IF w.mis THEN w.calAddr ELSE f2.curPc
           f3 == [f2 EXCEPT !.curPc = a,
                            !.dc = ~w.mis /\ (fetched \/ (@ /\ ~Fills)),
                            !.dp = ~w.mis /\ (Fills \/ (@ /\ ~Goes))]
<1>1. fe' = f3
  <2>1. fe' = NextFe
    BY Edge
  <2> QED BY <2>1 DEF NextFe, FrontNext
<1>2. DOMAIN fe = F
  BY DEF FrontOk
<1>3. DOMAIN f0 = F /\ f0.raw = fe.raw /\ f0.curPc = fe.curPc /\ f0.pc = fe.pc
  <2>1. CASE ~w.suc
    BY <1>2, <2>1
  <2>2. CASE w.suc
    <3> DEFINE b == [fe.dcd1 EXCEPT !.spec = fe.dcd1.spec /\ fe.dcd1.specTag # w.tag]
               c == [fe.dcd2 EXCEPT !.spec = fe.dcd2.spec /\ fe.dcd2.specTag # w.tag]
               x == f0
    <3>1. x = [fe EXCEPT !.dcd1 = b, !.dcd2 = c]
      BY <2>2 DEF FrontSuc
    <3> HIDE DEF x, b, c
    <3>2. DOMAIN x = F /\ x.raw = fe.raw /\ x.curPc = fe.curPc /\ x.pc = fe.pc
      BY <1>2, <3>1
    <3> QED BY <3>2 DEF x
  <2> QED BY <2>1, <2>2
<1> HIDE DEF f0
<1>4. DOMAIN f1 = F /\ f1.raw = fe.raw /\ f1.curPc = fe.curPc /\ f1.pc \in {fe.raw.pc, fe.pc}
  <2>1. CASE ~Fills
    BY <1>3, <2>1
  <2>2. CASE Fills
    <3> DEFINE b == [Dcw1 EXCEPT !.spec = GenSpec1(tg), !.specTag = GenTag1(tg, Dcw1.isBranch)]
               c == [Dcw2 EXCEPT !.spec = GenSpec2(tg, Dcw1.isBranch),
                                 !.specTag = GenTag2(tg, Dcw1.isBranch, Dcw2.isBranch)]
               q1 == Dcw1.rdUse /\ Dcw2.rs1 = Dcw1.rdIdx
               q2 == Dcw1.rdUse /\ Dcw2.rs2 = Dcw1.rdIdx
               p == fe.raw.pc
               x == f1
    <3>1. x = [f0 EXCEPT !.pc = p, !.dcd1 = b, !.dcd2 = c, !.desEqSrc1 = q1, !.desEqSrc2 = q2]
      BY <2>2 DEF DecodedGroup
    <3> HIDE DEF x, b, c, q1, q2, p
    <3>2. DOMAIN x = F /\ x.raw = f0.raw /\ x.curPc = f0.curPc /\ x.pc = p
      BY <1>3, <3>1
    <3> QED BY <1>3, <3>2 DEF x, p
  <2> QED BY <2>1, <2>2
<1> HIDE DEF f1
<1>5. /\ DOMAIN f2 = F /\ f2.raw \in {Fetched, fe.raw} /\ f2.pc = f1.pc
      /\ f2.curPc \in {Fetched.npc, fe.curPc}
  <2> HIDE DEF fetched
  <2>1. CASE ~fetched
    BY <1>4, <2>1
  <2>2. CASE fetched
    <3> DEFINE x == f2
               v == Fetched
               n == Fetched.npc
    <3>1. x = [f1 EXCEPT !.raw = v, !.curPc = n]
      BY <2>2
    <3> HIDE DEF x, v, n
    <3>2. DOMAIN x = F /\ x.raw = v /\ x.curPc = n /\ x.pc = f1.pc
      BY <1>4, <3>1
    <3> QED BY <3>2 DEF x, v, n
  <2> QED BY <2>1, <2>2
<1> HIDE DEF f2
<1>6. f3.curPc = a /\ f3.raw = f2.raw /\ f3.pc = f2.pc
  <2> DEFINE b == ~w.mis /\ (fetched \/ (f2.dc /\ ~Fills))
             c == ~w.mis /\ (Fills \/ (f2.dp /\ ~Goes))
             x == f3
  <2>1. x = [f2 EXCEPT !.curPc = a, !.dc = b, !.dp = c]
    OBVIOUS
  <2> HIDE DEF x, a, b, c
  <2>2. x.curPc = a /\ x.raw = f2.raw /\ x.pc = f2.pc
    BY <1>5, <2>1
  <2> QED BY <2>2 DEF x
<1> HIDE DEF f3
<1>7. a \in {w.calAddr, Fetched.npc, fe.curPc}
  BY <1>5
<1> HIDE DEF a
<1> QED BY <1>1, <1>4, <1>5, <1>6, <1>7

(* What the front stages hold stays what they hold.                         *)
LEMMA FrontDataKept ==
  ASSUME CoreInv, DataInv, ClockEdge, prog' = prog
  PROVE  FrontData'
<1> USE DEF CoreInv, DataInv
<1>1. Wires.calAddr \in Words
  <2>1. EntryData(ex["br"].src)
    BY DEF UnitData, Units
  <2>2. CalAddr(ex["br"].src) \in Words
    BY <2>1, TargetIs
  <2> QED BY <2>2 DEF Wires
<1>2. prog \in [Words -> Instr] /\ fe.curPc \in Words /\ fe.pc \in Int /\ fe.raw.pc \in Int
      /\ fe.raw.inst1 \in Instr /\ fe.raw.inst2 \in Instr
      /\ LaneData(fe.dcd1) /\ LaneData(fe.dcd2)
  BY DEF FrontData
<1>3. fe'.curPc \in Words /\ fe'.pc \in Int
  BY <1>1, <1>2, FetchedIs, FrontMoves
<1>4. fe'.raw.pc \in Int /\ fe'.raw.inst1 \in Instr /\ fe'.raw.inst2 \in Instr
  <2>1. CASE fe'.raw = Fetched
    BY <2>1, FetchedIs
  <2>2. CASE fe'.raw = fe.raw
    BY <1>2, <2>2
  <2> QED BY <2>1, <2>2, FrontMoves
<1>5. LaneData(fe'.dcd1) /\ LaneData(fe'.dcd2)
  <2>1. CASE Fills
    <3> DEFINE s1 == GenSpec1(tg)
               s2 == GenSpec2(tg, Dcw1.isBranch)
               t1 == GenTag1(tg, Dcw1.isBranch)
               t2 == GenTag2(tg, Dcw1.isBranch, Dcw2.isBranch)
    <3>1. fe'.dcd1 = [Dcw1 EXCEPT !.spec = s1, !.specTag = t1]
          /\ fe'.dcd2 = [Dcw2 EXCEPT !.spec = s2, !.specTag = t2]
      BY <2>1, FrontThen
    <3> HIDE DEF s1, s2, t1, t2
    <3>2. LaneData([Dcw1 EXCEPT !.spec = s1, !.specTag = t1])
      BY <1>2, DecodeData DEF Dcw1
    <3>3. LaneData([Dcw2 EXCEPT !.spec = s2, !.specTag = t2])
      BY <1>2, DecodeData DEF Dcw2
    <3> QED BY <3>1, <3>2, <3>3
  <2>2. CASE ~Fills
    <3>1. Cleared(fe'.dcd1, fe.dcd1) /\ Cleared(fe'.dcd2, fe.dcd2)
      BY <2>2, FrontThen
    <3>2. {"rs1", "rs2", "imm", "aluOp"} \subseteq LaneFields \ {"spec"}
      BY DEF LaneFields
    <3> QED BY <1>2, <3>1, <3>2 DEF Cleared, LaneData
  <2> QED BY <2>1, <2>2
<1>6. prog' \in [Words -> Instr]
  BY <1>2
<1> QED BY <1>3, <1>4, <1>5, <1>6 DEF FrontData

-----------------------------------------------------------------------------
(* Registers.                                                               *)

(* A commit writes numbers into the architectural registers.                *)
LEMMA ComData ==
  ASSUME RingOk, TablesOk, RegData
  PROVE  /\ DOMAIN Com = {"reg", "busy", "rename"}
         /\ \A r \in Regs : Com.reg[r] \in Int
<1> DEFINE c == <<ComPort(Count, 1), ComPort(Count, 2)>>
           b == [t \in RenRows |-> [r \in Regs |->
                   arf.busy[t][r] /\ \A k \in 1..2 : ~Matches(c[k], arf, t, r)]]
           g == [r \in Regs |->
                   CASE c[2].en /\ c[2].rd = r /\ r # 0 -> c[2].data
                     [] c[1].en /\ c[1].rd = r /\ r # 0
                        /\ ~(c[2].en /\ c[2].rd = r)     -> c[1].data
                     [] OTHER                            -> arf.reg[r]]
           x == Com
<1>1. x = [arf EXCEPT !.busy = b, !.reg = g]
  BY DEF Com, ArfCommit
<1>2. DOMAIN arf = {"reg", "busy", "rename"}
  BY DEF TablesOk
<1>3. c[1].data \in Int /\ c[2].data \in Int
  <2>1. comPtr \in Ptrs
    BY RingFacts
  <2>2. Inc(comPtr, 0) \in Ptrs /\ Inc(comPtr, 1) \in Ptrs
    BY <2>1, RingSize DEF Inc
  <2>3. ComPort(Count, 1).data = rrf.data[Inc(comPtr, 0)]
        /\ ComPort(Count, 2).data = rrf.data[Inc(comPtr, 1)]
    BY DEF ComPort
  <2> QED BY <2>2, <2>3 DEF RegData
<1>4. \A r \in Regs : arf.reg[r] \in Int
  BY DEF RegData
<1> HIDE DEF c, x, b
<1>5. ASSUME NEW r \in Regs PROVE g[r] \in Int
  <2> DEFINE m == c[2].en /\ c[2].rd = r /\ r # 0
             n == c[1].en /\ c[1].rd = r /\ r # 0 /\ ~(c[2].en /\ c[2].rd = r)
  <2>1. g[r] = CASE m -> c[2].data [] n -> c[1].data [] OTHER -> arf.reg[r]
    OBVIOUS
  <2>2. ~(m /\ n)
    OBVIOUS
  <2> HIDE DEF m, n, g
  <2> QED BY <1>3, <1>4, <2>1, <2>2
<1> HIDE DEF g
<1>6. DOMAIN x = {"reg", "busy", "rename"} /\ x.reg = g
  BY <1>1, <1>2
<1> QED BY <1>5, <1>6 DEF x

(* The data of the ring after a cycle.                                      *)
LEMMA RingData ==
  ASSUME RegData, UnitData, MemData
  PROVE  \A p \in Ptrs : NextRrf.data[p] \in Int
<1> DEFINE d == [p \in Ptrs |-> IF \E b \in ByPasses : b.tag = p
                                  THEN (CHOOSE b \in ByPasses : b.tag = p).val
                                  ELSE rrf.data[p]]
<1>1. Renamed.data = d
      /\ DOMAIN Renamed = {"valid", "data", "freenum", "reqPtr", "nextRrfCycle"}
  BY DEF Renamed, RrfCycle
<1>2. ASSUME NEW p \in Ptrs PROVE d[p] \in Int
  <2>1. CASE \E b \in ByPasses : b.tag = p
    <3>1. Served(ByPasses, p)
      BY <2>1 DEF Served
    <3>2. d[p] = ValueOf(ByPasses, p)
      BY <2>1 DEF ValueOf
    <3> HIDE DEF d
    <3> QED BY <3>1, <3>2, BypassIs
  <2>2. CASE ~\E b \in ByPasses : b.tag = p
    <3>1. d[p] = rrf.data[p]
      BY <2>2
    <3> HIDE DEF d
    <3> QED BY <3>1 DEF RegData
  <2> QED BY <2>1, <2>2
<1> HIDE DEF d
<1>3. NextRrf.data = d
  <2>1. CASE ~Wires.mis
    BY <1>1, <2>1 DEF NextRrf
  <2>2. CASE Wires.mis
    BY <1>1, <2>2 DEF NextRrf, RrfMisPred
  <2> QED BY <2>1, <2>2
<1> QED BY <1>2, <1>3

(* Registers hold numbers.                                                  *)
LEMMA RegDataKept ==
  ASSUME CoreInv, DataInv, ClockEdge
  PROVE  RegData'
<1> USE DEF CoreInv, DataInv
<1>1. ASSUME NEW r \in Regs PROVE arf'.reg[r] \in Int
  <2>1. /\ DOMAIN Com = {"reg", "busy", "rename"}
        /\ \A q \in Regs : Com.reg[q] \in Int
    BY ComData
  <2>2. arf' = NextArf
    BY Edge
  <2>3. arf'.reg = Com.reg
    <3> DEFINE c == Com
               m == ArfMisPred(c, Wires.tag)
               s == ArfSucPred(c, tg, Wires.tag)
               n == ArfRename(c, tg, <<Rename(1), Rename(2)>>)
    <3>1. DOMAIN c = {"reg", "busy", "rename"}
      BY <2>1
    <3> HIDE DEF c
    <3>2. m.reg = c.reg
      BY <3>1 DEF ArfMisPred
    <3>3. s.reg = c.reg
      BY <3>1 DEF ArfSucPred
    <3>4. n.reg = c.reg
      BY <3>1 DEF ArfRename
    <3> HIDE DEF m, s, n
    <3>5. arf' \in {m, s, n, c}
      BY <2>2 DEF NextArf, m, s, n, c
    <3> QED BY <3>2, <3>3, <3>4, <3>5 DEF c
  <2> QED BY <2>1, <2>3
<1>2. ASSUME NEW p \in Ptrs PROVE rrf'.data[p] \in Int
  <2>1. rrf' = NextRrf
    BY Edge
  <2>2. NextRrf.data[p] \in Int
    BY RingData
  <2> QED BY <2>1, <2>2
<1> QED BY <1>1, <1>2 DEF RegData

-----------------------------------------------------------------------------
(* Stations and units.                                                      *)

(* A register that waits for a result waits for an entry of the ring.       *)
LEMMA MasterWriter ==
  ASSUME CoreInv, NEW r \in Regs, arf.busy[Master][r]
  PROVE  /\ arf.rename[Master][r] \in InFlight
         /\ rob[arf.rename[Master][r]].rdUse
<1>1. Fits(arf.busy[Master], arf.rename[Master], Upto(RRF_NUM))
  BY RowFits DEF CoreInv, RowsRight
<1> DEFINE w == Writers(Upto(RRF_NUM), r)
           g == arf.rename[Master][r]
<1>2. w # {} /\ (w # {} => g \in w)
  BY <1>1 DEF Fits
<1> HIDE DEF g
<1>3. g \in InFlight /\ rob[g].rdUse
  BY <1>2 DEF Writers, Upto
<1> QED BY <1>3 DEF g

(* An operand of a lane is a number.                                        *)
LEMMA OperandData ==
  ASSUME CoreInv, DataInv, NEW k, NEW r \in Regs, NEW use, NEW d \in BOOLEAN
  PROVE  SrcOpr(k, r, use, d, ByPasses).p \in Int
<1> USE DEF CoreInv, DataInv
<1> DEFINE t == arf.rename[Master][r]
           b == arf.busy[Master][r]
           f == FromRegs(r, ByPasses)
           o == CASE r = 0                -> [v |-> TRUE, p |-> 0]
                  [] r # 0 /\ k = 2 /\ d  -> [v |-> FALSE, p |-> rrf.reqPtr]
                  [] OTHER                -> f
           x == rrf.valid[t]
           y == Served(ByPasses, t)
<1>1. f = CASE ~b              -> [v |-> TRUE, p |-> arf.reg[r]]
            [] b /\ x          -> [v |-> TRUE, p |-> rrf.data[t]]
            [] b /\ ~x /\ y    -> [v |-> TRUE, p |-> ValueOf(ByPasses, t)]
            [] OTHER           -> [v |-> FALSE, p |-> t]
  BY DEF FromRegs
<1>2. b => t \in Ptrs
  BY MasterWriter, InFlightIs
<1>3. arf.reg[r] \in Int /\ (b => rrf.data[t] \in Int /\ t \in Int)
      /\ (y => ValueOf(ByPasses, t) \in Int)
  BY <1>2, BypassIs, RingSize DEF RegData
<1>4. f.p \in Int
  <2> HIDE DEF f, b, x, y, t
  <2>1. CASE ~b
    BY <1>1, <1>3, <2>1
  <2>2. CASE b /\ x
    BY <1>1, <1>3, <2>2
  <2>3. CASE b /\ ~x /\ y
    BY <1>1, <1>3, <2>3
  <2>4. CASE b /\ ~x /\ ~y
    BY <1>1, <1>3, <2>4
  <2> QED BY <2>1, <2>2, <2>3, <2>4
<1>5. SrcOpr(k, r, use, d, ByPasses) = [v |-> o.v \/ ~use, p |-> o.p]
  BY DEF SrcOpr
<1>6. rrf.reqPtr \in Int
  BY RingFacts, RingSize
<1> HIDE DEF f
<1>7. o.p \in Int
  <2>1. CASE r = 0
    BY <2>1
  <2>2. CASE r # 0 /\ k = 2 /\ d
    BY <1>6, <2>2
  <2>3. CASE r # 0 /\ ~(k = 2 /\ d)
    BY <1>4, <2>3
  <2> QED BY <2>1, <2>2, <2>3
<1> HIDE DEF o
<1> QED BY <1>5, <1>7

(* So are the numbers of the entry that the lane becomes.                   *)
LEMMA EntryIsData ==
  ASSUME CoreInv, DataInv, NEW k \in 1..2
  PROVE  EntryData(Entry(k, ByPasses))
<1> USE DEF CoreInv, DataInv
<1> DEFINE d  == Lane(k)
           o1 == SrcOpr(k, d.rs1, d.use1, fe.desEqSrc1, ByPasses)
           o2 == SrcOpr(k, d.rs2, d.use2, fe.desEqSrc2, ByPasses)
           a  == Plus(fe.pc, k-1)
           t  == Inc(rrf.reqPtr, k-1)
           e == [busy |-> TRUE, sortBit |-> 1, pc |-> a,
                 rrftag |-> t, rdUse |-> d.rdUse, op |-> d.op,
                 aluOp |-> d.aluOp, selA |-> d.selA, selB |-> d.selB, imm |-> d.imm,
                 spec |-> d.spec, specTag |-> d.specTag, pred |-> d.pred,
                 v1 |-> o1.v, p1 |-> o1.p, v2 |-> o2.v, p2 |-> o2.p]
<1>1. Entry(k, ByPasses) = e
  BY DEF Entry
<1>2. LaneData(d)
  BY DEF FrontData, Lane
<1>3. a \in Int
  <2>1. fe.pc \in Int /\ k-1 \in Int
    BY DEF FrontData
  <2> QED BY <2>1, PlusIs
<1>4. o1.p \in Int /\ o2.p \in Int
  <2>1. d.rs1 \in Regs /\ d.rs2 \in Regs
    BY <1>2 DEF LaneData
  <2>2. fe.desEqSrc1 \in BOOLEAN /\ fe.desEqSrc2 \in BOOLEAN
    BY DEF FrontOk
  <2> HIDE DEF d
  <2> QED BY <2>1, <2>2, OperandData
<1> HIDE DEF d, o1, o2, a, t
<1>5. e.pc = a /\ e.imm = d.imm /\ e.p1 = o1.p /\ e.p2 = o2.p /\ e.aluOp = d.aluOp
  OBVIOUS
<1> HIDE DEF e
<1> QED BY <1>1, <1>2, <1>3, <1>4, <1>5 DEF EntryData, LaneData

(* An entry that goes on has numbers still.                                 *)
LEMMA CycledIsData ==
  ASSUME UnitData, MemData, NEW e, IsEntry(e), EntryData(e), NEW i, NEW u
  PROVE  EntryData(Cycled(e, i, u))
<1> DEFINE s1 == e.busy /\ ~e.v1 /\ Served(ByPasses, e.p1)
           s2 == e.busy /\ ~e.v2 /\ Served(ByPasses, e.p2)
           q1 == IF s1 THEN ValueOf(ByPasses, e.p1) ELSE e.p1
           q2 == IF s2 THEN ValueOf(ByPasses, e.p2) ELSE e.p2
           v1 == e.v1 \/ s1
           v2 == e.v2 \/ s2
           w == [e EXCEPT !.v1 = v1, !.p1 = q1, !.v2 = v2, !.p2 = q2]
           b == w.busy /\ i # Issue(u) /\ ~CheckIsKill(Wires, e)
           sp == w.spec /\ ~CheckIsSuc(Wires, e)
           so == IF rrf.nextRrfCycle /\ u \in {"alu1", "alu2"} THEN 0 ELSE w.sortBit
           f == [w EXCEPT !.busy = b, !.spec = sp, !.sortBit = so]
<1>1. Cycled(e, i, u) = f
  BY DEF Cycled, Wake
<1>2. q1 \in Int /\ q2 \in Int
  BY BypassIs DEF EntryData
<1>3. DOMAIN e = EntryFields
  BY DEF IsEntry
<1>4. /\ DOMAIN w = EntryFields /\ w.pc = e.pc /\ w.imm = e.imm /\ w.aluOp = e.aluOp
      /\ w.p1 = q1 /\ w.p2 = q2
  <2> DEFINE x == w
  <2>1. x = [e EXCEPT !.v1 = v1, !.p1 = q1, !.v2 = v2, !.p2 = q2]
    OBVIOUS
  <2> HIDE DEF x, v1, v2, q1, q2
  <2>2. /\ DOMAIN x = EntryFields /\ x.pc = e.pc /\ x.imm = e.imm /\ x.aluOp = e.aluOp
        /\ x.p1 = q1 /\ x.p2 = q2
    BY <1>3, <2>1 DEF EntryFields
  <2> QED BY <2>2 DEF x
<1> HIDE DEF w, q1, q2
<1>5. f.pc = w.pc /\ f.imm = w.imm /\ f.aluOp = w.aluOp /\ f.p1 = w.p1 /\ f.p2 = w.p2
  <2> HIDE DEF b, sp, so
  <2> QED BY <1>4 DEF EntryFields
<1> HIDE DEF f
<1> QED BY <1>1, <1>2, <1>4, <1>5 DEF EntryData

(* Stations and units hold numbers.                                         *)
LEMMA UnitDataKept ==
  ASSUME CoreInv, DataInv, ClockEdge
  PROVE  UnitData'
<1> USE DEF CoreInv, DataInv
<1>1. ASSUME NEW u \in Units, NEW i \in 0..(EntNum(u)-1) PROVE EntryData(rs'[u][i])
  <2>1. CASE \E k \in 1..Size : rs'[u][i] = Entry(k, ByPasses)
    <3>1. PICK k \in 1..Size : rs'[u][i] = Entry(k, ByPasses)
      BY <2>1
    <3>2. k \in 1..2
      BY DEF Size
    <3> QED BY <3>1, <3>2, EntryIsData
  <2>2. CASE rs'[u][i] = Cycled(rs[u][i], i, u)
    <3>1. IsEntry(rs[u][i]) /\ EntryData(rs[u][i])
      BY DEF Shapes, UnitData
    <3> QED BY <2>2, <3>1, CycledIsData
  <2> QED BY <2>1, <2>2, RowThen
<1>2. ASSUME NEW u \in Units PROVE EntryData(ex'[u].src)
  <2> DEFINE r == rs[u][Issue(u)]
             s == r.spec /\ ~CheckIsSuc(Wires, r)
             n == IF Issue(u) = None THEN ex[u].src ELSE [r EXCEPT !.spec = s]
  <2>1. ex'[u].src = n
    <3>1. ex' = NextEx
      BY Edge
    <3>2. ex'[u] = ExecNext(u, Wires, Issue(u), Stays(u))
      BY <3>1 DEF NextEx
    <3> QED BY <3>2 DEF ExecNext
  <2>2. CASE Issue(u) = None
    <3>1. EntryData(ex[u].src)
      BY DEF UnitData
    <3> QED BY <2>1, <2>2, <3>1
  <2>3. CASE Issue(u) # None
    <3>1. Issue(u) \in 0..(EntNum(u)-1)
      BY <2>3, IssueIs
    <3>2. IsEntry(r) /\ EntryData(r)
      BY <3>1 DEF Shapes, UnitData
    <3>3. n = [r EXCEPT !.spec = s]
      BY <2>3
    <3> HIDE DEF n, r, s
    <3>4. n.pc = r.pc /\ n.imm = r.imm /\ n.aluOp = r.aluOp /\ n.p1 = r.p1 /\ n.p2 = r.p2
      BY <3>2, <3>3 DEF IsEntry, EntryFields
    <3> QED BY <2>1, <3>2, <3>4 DEF EntryData
  <2> QED BY <2>2, <2>3
<1> QED BY <1>1, <1>2 DEF UnitData

-----------------------------------------------------------------------------
(* The store buffer and the memory.                                         *)

(* The address of the memory unit is a word.                                *)
LEMMA EffAddrIs ==
  ASSUME UnitData
  PROVE  EffAddr \in Words /\ ex["ls"].src.p2 \in Int
<1>1. EntryData(ex["ls"].src)
  BY DEF UnitData, Units
<1> QED BY <1>1, PlusIs DEF EffAddr, EntryData

(* What a load finds in the store buffer is a number.                       *)
LEMMA FoundIs ==
  ASSUME MemData, NEW addr
  PROVE  StSearch(sb, addr).data \in Int
<1> DEFINE q == [op |-> "newest", start |-> sb.finPtr, addr |-> addr]
           n == Reduce(q, sb.ent)
<1>1. DOMAIN sb.ent = 0..(STBUF_ENT_NUM-1) /\ PowerOfTwo(STBUF_ENT_NUM)
      /\ \A i \in StRows : StoreData(sb.ent[i])
  BY StBufAssumption DEF MemData, StoresData, StoreBufferOk, StRows
<1> HIDE DEF q
<1>2. n.idx \in StRows /\ n = Node(sb.ent, n.idx)
  BY <1>1, ReduceIsRow DEF StRows
<1>3. StSearch(sb, addr).data = n.slot.data
  BY DEF StSearch, q
<1> HIDE DEF n
<1>4. n.slot = sb.ent[n.idx]
  BY <1>2 DEF Node
<1> QED BY <1>1, <1>2, <1>3, <1>4 DEF StoreData

(* A cycle of the store buffer leaves words and numbers in it.              *)
LEMMA StoresKept ==
  ASSUME UnitData, MemData, NEW w, NEW n
  PROVE  StoresData(StBufNext(w, n))
<1> DEFINE s0 == IF w.mis THEN StMisPred(sb, Killed(w)) ELSE sb
           e  == StEnt(sb, w, StoreCommitted(n), Retiring(w))
           c  == IF StoreCommitted(n) THEN StInc(s0.comPtr) ELSE s0.comPtr
           r  == IF Retiring(w) THEN StInc(s0.retPtr) ELSE s0.retPtr
           s1 == [s0 EXCEPT !.ent = e, !.comPtr = c, !.retPtr = r]
           x  == [busy |-> TRUE, complete |-> FALSE,
                  spec |-> ex["ls"].src.spec /\ ~CheckIsSuc(w, ex["ls"].src),
                  specTag |-> ex["ls"].src.specTag,
                  mem_addr |-> EffAddr, data |-> ex["ls"].src.p2]
           y  == [s1.ent EXCEPT ![sb.finPtr] = x]
           s2 == [s1 EXCEPT !.ent = y, !.finPtr = StInc(sb.finPtr)]
<1>1. StBufNext(w, n) = IF Storing(w) THEN s2 ELSE s1
  BY DEF StBufNext, StNew
<1>2. StoreBufferOk(sb) /\ \A i \in StRows : StoreData(sb.ent[i])
  BY DEF MemData, StoresData
<1>3. StoreBufferOk(StBufNext(w, n))
  BY <1>2, StBufNextOk
<1>4. "ent" \in DOMAIN s0
  BY <1>2, StMisPredOk DEF StoreBufferOk
<1>5. DOMAIN e = StRows /\ \A i \in StRows : StoreData(e[i])
  <2>1. ASSUME NEW i \in StRows PROVE StoreData(e[i])
    <3> DEFINE a == sb.ent[i]
               b1 == a.spec /\ ~(w.suc /\ a.specTag = w.tag)
               b2 == (a.complete \/ (StoreCommitted(n) /\ i = sb.comPtr))
                       /\ ~(Retiring(w) /\ i = sb.retPtr)
               b3 == a.busy /\ ~(Retiring(w) /\ i = sb.retPtr) /\ ~CheckIsKill(w, a)
               f == e[i]
    <3>1. f = [a EXCEPT !.spec = b1, !.complete = b2, !.busy = b3]
      BY DEF StEnt
    <3>2. StoreData(a)
      BY <1>2
    <3> HIDE DEF a, b1, b2, b3, f
    <3>3. DOMAIN f = DOMAIN a
      BY <3>1
    <3>4. f["mem_addr"] = a["mem_addr"] /\ f["data"] = a["data"]
      BY <3>1, <3>2 DEF StoreData
    <3>5. StoreData(f)
      BY <3>2, <3>3, <3>4 DEF StoreData
    <3> QED BY <3>5 DEF f
  <2>2. DOMAIN e = StRows
    BY DEF StEnt
  <2> QED BY <2>1, <2>2
<1> HIDE DEF s0, e, c, r
<1>6. s1.ent = e /\ "ent" \in DOMAIN s1
  BY <1>4
<1> HIDE DEF s1
<1>7. StoreData(x)
  <2> DEFINE a == EffAddr
             b == ex["ls"].src.p2
  <2>1. a \in Words /\ b \in Int
    BY EffAddrIs
  <2> HIDE DEF a, b
  <2>2. {"mem_addr", "data"} \subseteq DOMAIN x /\ x.mem_addr = a /\ x.data = b
    BY DEF a, b
  <2> QED BY <2>1, <2>2 DEF StoreData
<1> HIDE DEF x
<1>8. \A i \in StRows : StoreData(y[i])
  BY <1>5, <1>6, <1>7
<1> HIDE DEF y
<1>9. s2.ent = y
  BY <1>6
<1> HIDE DEF s2
<1>10. \A i \in StRows : StoreData(StBufNext(w, n).ent[i])
  BY <1>1, <1>5, <1>6, <1>8, <1>9
<1> QED BY <1>3, <1>10 DEF StoresData

(* The second stage of the memory unit keeps a number.                      *)
LEMMA Ls2IsData ==
  ASSUME UnitData, MemData
  PROVE  "data" \in DOMAIN NextLs2 /\ NextLs2.data \in Int
<1>1. CASE LsGoes(Wires)
  <2> DEFINE h == StSearch(sb, EffAddr).hit
             d == StSearch(sb, EffAddr).data
  <2>1. d \in Int
    BY FoundIs
  <2>2. NextLs2 = [full |-> TRUE, src |-> ex["ls"].src, hit |-> h, data |-> d]
    BY <1>1 DEF NextLs2
  <2> HIDE DEF h, d
  <2> QED BY <2>1, <2>2
<1>2. CASE ~LsGoes(Wires)
  <2>1. NextLs2 = [ls2 EXCEPT !.full = FALSE]
    BY <1>2 DEF NextLs2
  <2> QED BY <2>1 DEF MemData
<1> QED BY <1>1, <1>2

(* The memory, and the command it gets, are made of words and numbers.      *)
LEMMA MemDataKept ==
  ASSUME CoreInv, DataInv, ClockEdge
  PROVE  MemData'
<1> USE DEF DataInv
<1>1. ls2' = NextLs2
  BY Edge
<1>2. sb' = StBufNext(Wires, Count) /\ dmem' = DmemNext /\ cmd' = CmdNext(Wires)
  <2> DEFINE s == CoreNext(Settled)
  <2>1. s.sb = StBufNext(Wires, Count)
    BY DEF CoreNext, Settled, Count
  <2>2. s.dmem = DmemNext
    BY DEF CoreNext, Settled
  <2>3. s.cmd = CmdNext(Wires)
    BY DEF CoreNext, Settled
  <2>4. sb' = s.sb /\ dmem' = s.dmem /\ cmd' = s.cmd
    BY DEF ClockEdge, Becomes
  <2> HIDE DEF s
  <2> QED BY <2>1, <2>2, <2>3, <2>4
<1>3. "data" \in DOMAIN ls2' /\ ls2'.data \in Int
  BY <1>1, Ls2IsData
<1>4. StoresData(StBufNext(Wires, Count))
  BY StoresKept
<1>5. StoresData(sb')
  BY <1>2, <1>4
<1>6. DmemNext \in [Words -> Int]
  BY DEF DmemNext, MemData
<1>7. CmdNext(Wires).addr \in Words /\ CmdNext(Wires).data \in Int
  <2>1. StoreData(sb.ent[sb.retPtr])
    BY DEF MemData, StoresData, StoreBufferOk
  <2> DEFINE a == EffAddr
             b == sb.ent[sb.retPtr].mem_addr
             d == sb.ent[sb.retPtr].data
             t == Retiring(Wires)
  <2>2. a \in Words /\ b \in Words /\ d \in Int
    BY <2>1, EffAddrIs DEF StoreData
  <2>3. CmdNext(Wires) = IF Loading(Wires) THEN [we |-> FALSE, addr |-> a, data |-> 0]
                                           ELSE [we |-> t, addr |-> b, data |-> d]
    BY DEF CmdNext
  <2> HIDE DEF a, b, d, t
  <2> QED BY <2>2, <2>3
<1>8. \A i \in StRows : StoreData(sb'.ent[i])
  BY <1>5 DEF StoresData
<1>9. StoreBufferOk(sb')
  BY <1>5 DEF StoresData
<1>10. StoresData(sb)'
  BY <1>8, <1>9 DEF StoresData
<1> QED BY <1>2, <1>3, <1>6, <1>7, <1>10 DEF MemData
-----------------------------------------------------------------------------
(* Operands that wait.                                                      *)

(* Ring entry p yields a result that is not there, to the entry t after it. *)
Yields(p, t) == p \in InFlight /\ Age(p) < Age(t) /\ rob[p].rdUse /\ ~rob[p].wbFin

(* A producer of an operand that still waits goes on being one.             *)
LEMMA StillYields ==
  ASSUME CoreInv, ClockEdge, NEW y \in Spots, Held(y), y[1] # "lane", ~Ended(y),
         NEW t, t = At(y).rrftag, NEW p, Yields(p, t), ~Served(ByPasses, p)
  PROVE  Yields(p, t)'
<1> USE DEF CoreInv
<1>1. p \in Ptrs /\ Age(p) < Waiting /\ Age(p) < Age(t) /\ rob[p].rdUse /\ ~rob[p].wbFin
  BY InFlightIs DEF Yields
<1>2. /\ t \in Ptrs /\ AgeAt(y) = Age(t) /\ Age(t) < Waiting /\ AgeAt(y) >= Count
  BY HeldAge
<1>3. Age(p) \in Int /\ Age(t) \in Int /\ Count \in Int /\ Age(Wires.rrftag) \in Int
  <2>1. Wires.rrftag \in Ptrs
    BY WireFacts
  <2> QED BY <1>1, <1>2, <2>1, AgeIs, CountFacts, RingSize
<1>4. Age(p) >= Count
  BY <1>1, <1>3, CommittedDone
<1>5. Wires.mis => Age(t) <= Age(Wires.rrftag) /\ Age(p) <= Age(Wires.rrftag)
  BY <1>1, <1>2, <1>3, Survivor
<1>6. ~Given(p) /\ Age(p)' = Age(p) - Count /\ Age(p)' < Waiting'
  BY <1>1, <1>4, <1>5, KeptEntry
<1>7. Age(t)' = Age(t) - Count
  BY <1>2, KeptEntry
<1>8. Age(p)' < Age(t)'
  BY <1>1, <1>3, <1>6, <1>7
<1>9. p \notin WrittenBack
  BY <1>1, Finishes
<1>10. rob'[p].rdUse /\ ~rob'[p].wbFin
  BY <1>1, <1>6, <1>9, RobThen
<1> QED BY <1>1, <1>6, <1>8, <1>10, InFlightIs DEF Yields

(* The producer that a lane finds in the table, or in the lane before it.   *)
LEMMA LaneAwaits ==
  ASSUME CoreInv, ClockEdge, Goes, NEW k \in 1..Size, NEW r \in Regs,
         NEW d \in BOOLEAN, d => fe.dcd1.rdUse, NEW p, Awaits(k, r, d, p),
         NEW t, t = Inc(rrf.reqPtr, k-1)
  PROVE  Yields(p, t)'
<1> USE DEF CoreInv
<1>1. Took = Size /\ Size \in 1..2
  BY DEF Took, Size
<1>2. Age(t)' = Waiting - Count + k - 1 /\ Age(t)' >= Waiting - Count
  BY <1>1, GivenAge
<1>3. Waiting \in Int /\ Count \in Int /\ rrf.reqPtr \in Ptrs
  BY RingFacts, CountFacts
<1>4. CASE k = 2 /\ d /\ p = rrf.reqPtr
  <2>1. 1 \in 1..Took /\ 1 \in 1..2 /\ p = Inc(rrf.reqPtr, 1-1)
    BY <1>1, <1>3, <1>4, RingSize DEF Inc
  <2>2. /\ p \in Ptrs /\ Age(p)' = Waiting - Count + 1 - 1 /\ Age(p)' < Waiting'
    BY <2>1, GivenAge
  <2>3. rob'[p] = RobEntry(1)
    BY <2>1, <2>2, RobThen
  <2>4. RobEntry(1).rdUse /\ ~RobEntry(1).wbFin
    BY <1>4, <2>1, RobEntryIs DEF Lane
  <2>5. Age(p)' < Age(t)'
    BY <1>2, <1>3, <1>4, <2>2
  <2> QED BY <2>2, <2>3, <2>4, <2>5, InFlightIs DEF Yields
<1>5. CASE /\ arf.busy[Master][r] /\ p = arf.rename[Master][r]
           /\ ~rrf.valid[p] /\ ~Served(ByPasses, p)
  <2>1. p \in InFlight /\ rob[p].rdUse
    BY <1>5, MasterWriter
  <2>2. p \in Ptrs /\ Age(p) < Waiting /\ rob[p].wbFin \in BOOLEAN
    BY <2>1, InFlightIs DEF Shapes
  <2>3. ~rob[p].wbFin
    BY <1>5, <2>1 DEF ResultsValid
  <2>4. Age(p) \in Int
    BY <2>2, AgeIs, RingSize
  <2>5. Age(p) >= Count
    BY <1>3, <2>2, <2>3, <2>4, CommittedDone
  <2>6. ~Wires.mis
    BY GoFacts
  <2>7. ~Given(p) /\ Age(p)' = Age(p) - Count /\ Age(p)' < Waiting'
    BY <2>2, <2>5, <2>6, KeptEntry
  <2>8. Age(p)' < Age(t)'
    BY <1>2, <1>3, <2>2, <2>4, <2>7
  <2>9. p \notin WrittenBack
    BY <1>5, <2>1, Finishes
  <2>10. rob'[p].rdUse /\ ~rob'[p].wbFin
    BY <2>1, <2>2, <2>3, <2>7, <2>9, RobThen
  <2> QED BY <2>2, <2>7, <2>8, <2>10, InFlightIs DEF Yields
<1> QED BY <1>4, <1>5 DEF Awaits

(* OperandsWait in terms of ring entries.                                   *)
WaitsRight(e) == (~e.v1 => Yields(e.p1, e.rrftag)) /\ (~e.v2 => Yields(e.p2, e.rrftag))

(* An operand that waits, in terms of ring entries, in this cycle and the   *)
(* next.                                                                    *)
LEMMA WaitsAre ==
  /\ OperandsWait <=>
       \A u \in Units : \A i \in 0..(EntNum(u)-1) : rs[u][i].busy => WaitsRight(rs[u][i])
  /\ OperandsWait' <=>
       \A u \in Units : \A i \in 0..(EntNum(u)-1) : rs'[u][i].busy => WaitsRight(rs[u][i])'
BY DEF OperandsWait, WaitsRight, Yields, Serves

(* After a cycle every operand that waits still has its producer.           *)
LEMMA OperandsWaitKept ==
  ASSUME CoreInv, DataInv, OperandsWait, ClockEdge
  PROVE  OperandsWait'
<1> USE DEF CoreInv
<1>1. SUFFICES ASSUME NEW u \in Units, NEW i \in 0..(EntNum(u)-1), rs'[u][i].busy
               PROVE  WaitsRight(rs[u][i])'
  BY WaitsAre
<1>2. PICK f : f = rs'[u][i]
  OBVIOUS
<1>3. SUFFICES (~f.v1 => Yields(f.p1, f.rrftag)') /\ (~f.v2 => Yields(f.p2, f.rrftag)')
  BY <1>2 DEF WaitsRight, Yields
<1>4. CASE f = Cycled(rs[u][i], i, u)
  <2>1. PICK e : e = rs[u][i]
    OBVIOUS
  <2>2. IsEntry(e)
    BY <2>1 DEF Shapes
  <2>3. /\ f.rrftag = e.rrftag /\ e.busy /\ ~CheckIsKill(Wires, e)
        /\ f.v1 <=> e.v1 \/ (e.busy /\ Served(ByPasses, e.p1))
        /\ f.v2 <=> e.v2 \/ (e.busy /\ Served(ByPasses, e.p2))
        /\ ~f.v1 => f.p1 = e.p1
        /\ ~f.v2 => f.p2 = e.p2
    BY <1>1, <1>2, <1>4, <2>1, <2>2, EntryCycled
  <2>4. WaitsRight(e)
    BY <2>1, <2>3, WaitsAre
  <2>5. PICK y : y = <<u, i>>
    OBVIOUS
  <2>6. y \in Spots /\ Held(y) /\ At(y) = e /\ y[1] # "lane"
    BY <2>1, <2>3, <2>5, SpotIs, RowSpot
  <2>7. ~Ended(y)
    <3>1. y[2] # Ex /\ y[2] # Ls2
      BY <2>5, SpotIs
    <3> QED BY <2>3, <2>6, <3>1 DEF Ended
  <2>8. ASSUME ~f.v1 PROVE Yields(f.p1, f.rrftag)'
    <3>1. Yields(f.p1, f.rrftag) /\ ~Served(ByPasses, f.p1) /\ f.rrftag = At(y).rrftag
      BY <2>3, <2>4, <2>6, <2>8 DEF WaitsRight
    <3> QED BY <2>6, <2>7, <3>1, StillYields
  <2>9. ASSUME ~f.v2 PROVE Yields(f.p2, f.rrftag)'
    <3>1. Yields(f.p2, f.rrftag) /\ ~Served(ByPasses, f.p2) /\ f.rrftag = At(y).rrftag
      BY <2>3, <2>4, <2>6, <2>9 DEF WaitsRight
    <3> QED BY <2>6, <2>7, <3>1, StillYields
  <2> QED BY <2>8, <2>9
<1>5. ASSUME Goes, NEW k \in 1..Size, f = Entry(k, ByPasses)
      PROVE  (~f.v1 => Yields(f.p1, f.rrftag)') /\ (~f.v2 => Yields(f.p2, f.rrftag)')
  <2>1. k \in 1..2
    BY DEF Size
  <2>2. /\ f.rrftag = Inc(rrf.reqPtr, k-1)
        /\ ~f.v1 => Awaits(k, Lane(k).rs1, fe.desEqSrc1, f.p1)
        /\ ~f.v2 => Awaits(k, Lane(k).rs2, fe.desEqSrc2, f.p2)
    BY <1>5, <2>1, EntryIs
  <2>3. Lane(k).rs1 \in Regs /\ Lane(k).rs2 \in Regs
    BY <2>1 DEF DataInv, FrontData, LaneData, Lane
  <2>4. /\ fe.desEqSrc1 \in BOOLEAN /\ fe.desEqSrc2 \in BOOLEAN
        /\ fe.desEqSrc1 => fe.dcd1.rdUse
        /\ fe.desEqSrc2 => fe.dcd1.rdUse
    BY DEF FrontOk
  <2>5. ASSUME ~f.v1 PROVE Yields(f.p1, f.rrftag)'
    BY <1>5, <2>2, <2>3, <2>4, <2>5, LaneAwaits
  <2>6. ASSUME ~f.v2 PROVE Yields(f.p2, f.rrftag)'
    BY <1>5, <2>2, <2>3, <2>4, <2>6, LaneAwaits
  <2> QED BY <2>5, <2>6
<1>6. \/ f = Cycled(rs[u][i], i, u)
      \/ Goes /\ \E k \in 1..Size : f = Entry(k, ByPasses)
  BY <1>2, RowThen
<1> QED BY <1>4, <1>5, <1>6

-----------------------------------------------------------------------------
(* The data when a workload starts.                                         *)

(* What a reset leaves.                                                     *)
DataFresh ==
  /\ prog \in [Words -> Instr] /\ fe = FeReset
  /\ arf = ArfReset /\ \A p \in Ptrs : rrf.data[p] \in Int
  /\ rs = RsReset /\ ex = ExReset
  /\ MemData

(* A reset leaves words and numbers everywhere.                             *)
LEMMA DataFreshIs == DataFresh /\ JobsData => DataInv
<1> SUFFICES ASSUME DataFresh, JobsData PROVE DataInv
  OBVIOUS
<1> USE DEF DataFresh
<1>1. Fill \in Instr /\ 0 \in Words /\ 0 \in Regs
  BY InstrAssumption DEF Fill, Instr, Ops, Words, Regs
<1>2. LaneData(DecReset)
  BY <1>1 DEF LaneData, DecReset, Decode, AluOp, AluOps, Fill, Arith, ArithI, Branch
<1>3. FrontData
  BY <1>1, <1>2 DEF FrontData, FeReset, RawReset
<1>4. RegData
  BY DEF RegData, ArfReset
<1>5. EntryData(Blank)
  BY DEF EntryData, Blank, AluOps
<1>6. UnitData
  BY <1>5 DEF UnitData, RsReset, ExReset
<1> QED BY <1>3, <1>4, <1>6 DEF DataInv

(* So does a step that resets.                                              *)
LEMMA DataFreshThen == DataFresh' /\ JobsData' => DataInv'
BY DataFreshIs, PTL

(* The data of a workload, with the last store of the workload before.      *)
LEMMA LoadedIs ==
  ASSUME MemData, JobsData, ctl.phase = "init"
  PROVE  /\ jobs[ctl.job].prog \in [Words -> Instr]
         /\ Loaded(jobs[ctl.job].data) \in [Words -> Int]
<1> DEFINE J == [prog : [Words -> Instr], data : [Words -> Words]]
           j == jobs[ctl.job]
<1>1. jobs \in Seq(J) /\ ctl.job \in 1..Len(jobs)
  BY BenchAssumption DEF JobsData
<1> HIDE DEF J
<1>2. j \in J
  BY <1>1
<1> HIDE DEF j
<1>3. j.prog \in [Words -> Instr] /\ j.data \in [Words -> Words]
  BY <1>2 DEF J
<1>4. PICK d : d = j.data
  OBVIOUS
<1>5. d \in [Words -> Int]
  BY <1>3, <1>4, InstrAssumption DEF Words
<1>6. cmd.addr \in Words /\ cmd.data \in Int
  BY DEF MemData
<1>7. [d EXCEPT ![cmd.addr] = cmd.data] \in [Words -> Int]
  BY <1>5, <1>6
<1>8. Loaded(d) \in [Words -> Int]
  BY <1>5, <1>7 DEF Loaded
<1> QED BY <1>3, <1>4, <1>8 DEF j

(* A workload starts with words and numbers everywhere.                     *)
LEMMA StartData ==
  ASSUME CoreInv, DataInv, NEW s, WorkloadInit(CoreNext(Settled), s)
  PROVE  DataFresh'
<1> USE DEF DataInv
<1> DEFINE data == Loaded(jobs[ctl.job].data)
           n == Started(CoreNext(Settled), data)
<1>1. Becomes(n) /\ prog' = jobs[ctl.job].prog /\ ctl.phase = "init"
  BY DEF WorkloadInit
<1>2. prog' \in [Words -> Instr] /\ data \in [Words -> Int]
  BY <1>1, LoadedIs
<1>3. PICK m : m = CoreNext(Settled)
  OBVIOUS
<1>4. m.sb = StBufNext(Wires, Count)
  BY <1>3 DEF CoreNext, Settled, Count
<1>5. m.rrf = NextRrf /\ m.ls2 = NextLs2
  BY <1>3 DEF CoreNext, Settled, Count, NextRrf, Renamed, Took, Goes, NextLs2
<1>6. PICK d : d = data
  OBVIOUS
<1>7. Becomes(Started(m, d))
  BY <1>1, <1>3, <1>6
<1>8. /\ fe' = FeReset /\ arf' = ArfReset
      /\ rrf' = [RrfReset EXCEPT !.data = m.rrf.data]
      /\ rs' = RsReset /\ ex' = ExReset
      /\ ls2' = [m.ls2 EXCEPT !.full = FALSE]
  BY <1>7 DEF Becomes, Started, AfterReset
<1>9. /\ sb' = [StReset EXCEPT !.ent = [i \in StRows |->
                 [m.sb.ent[i] EXCEPT !.busy = FALSE, !.complete = FALSE, !.spec = FALSE]]]
      /\ dmem' = d
      /\ cmd' = [we |-> FALSE, addr |-> m.sb.ent[0].mem_addr, data |-> m.sb.ent[0].data]
  BY <1>7 DEF Becomes, Started, AfterReset
<1>10. \A p \in Ptrs : rrf'.data[p] \in Int
  <2>1. rrf'.data = NextRrf.data
    BY <1>5, <1>8 DEF RrfReset
  <2> QED BY <2>1, RingData
<1>11. "data" \in DOMAIN ls2' /\ ls2'.data \in Int
  BY <1>5, <1>8, Ls2IsData
<1>12. \A i \in StRows : StoreData(m.sb.ent[i])
  BY <1>4, StoresKept DEF StoresData
<1>13. 0 \in StRows
  BY StRowsAre DEF StRows
<1>14. cmd'.addr \in Words /\ cmd'.data \in Int
  BY <1>9, <1>12, <1>13 DEF StoreData
<1>15. /\ DOMAIN sb' = {"ent", "finPtr", "comPtr", "retPtr"}
       /\ sb'.finPtr = 0 /\ sb'.comPtr = 0 /\ sb'.retPtr = 0
       /\ sb'.ent = [i \in StRows |->
            [m.sb.ent[i] EXCEPT !.busy = FALSE, !.complete = FALSE, !.spec = FALSE]]
  BY <1>9 DEF StReset
<1>16. ASSUME NEW i \in StRows PROVE StoreData(sb'.ent[i])
  <2>1. sb'.ent[i] = [m.sb.ent[i] EXCEPT !.busy = FALSE, !.complete = FALSE, !.spec = FALSE]
    BY <1>15
  <2>2. StoreData(m.sb.ent[i])
    BY <1>12
  <2> QED BY <2>1, <2>2 DEF StoreData
<1>17. StoreBufferOk(sb')
  BY <1>13, <1>15 DEF StoreBufferOk
<1>18. StoresData(sb)'
  BY <1>16, <1>17 DEF StoresData
<1>19. MemData'
  BY <1>2, <1>6, <1>9, <1>11, <1>14, <1>18 DEF MemData
<1> QED BY <1>2, <1>8, <1>10, <1>19 DEF DataFresh

(* The steps of the bench, with what they do to the program.                *)
LEMMA BenchSteps ==
  ASSUME [CompareNext]_compareVars
  PROVE  \/ ClockEdge /\ prog' = prog
         \/ \E s : WorkloadInit(CoreNext(Settled), s)
         \/ UNCHANGED vars
<1>1. ASSUME Alone(Settled, CoreNext(Settled)) PROVE ClockEdge /\ prog' = prog
  BY <1>1 DEF Alone, Cycle, ClockEdge
<1>2. ASSUME NEW r, NEW s, CompareCycle(Settled, r, CoreNext(Settled), s)
      PROVE  ClockEdge /\ prog' = prog
  BY <1>2 DEF CompareCycle, Cycle, ClockEdge
<1>3. Upset \/ Summarized \/ UNCHANGED compareVars => UNCHANGED vars
  BY DEF Upset, Summarized, compareVars
<1> QED
  BY <1>1, <1>2, <1>3 DEF CompareNext

(* The bench stays within its list.                                         *)
LEMMA JobsKept ==
  ASSUME JobsData, [CompareNext]_compareVars
  PROVE  JobsData'
<1> USE DEF JobsData
<1>1. jobs \in Seq([prog : [Words -> Instr], data : [Words -> Words]])
  BY BenchAssumption
<1>2. Len(jobs) \in Nat
  BY <1>1
<1>3. ASSUME Alone(Settled, CoreNext(Settled)) PROVE JobsData'
  BY <1>3 DEF Alone
<1>4. ASSUME NEW s, WorkloadInit(CoreNext(Settled), s) PROVE JobsData'
  BY <1>4 DEF WorkloadInit
<1>5. ASSUME NEW r, NEW s, CompareCycle(Settled, r, CoreNext(Settled), s) PROVE JobsData'
  <2>1. jobs' = jobs /\ ctl.phase = "run"
    BY <1>5 DEF CompareCycle
  <2> DEFINE last == ctl.job = Len(jobs)
  <2>2. PICK x, e, t : \/ ctl' = [ctl EXCEPT !.phase = IF last THEN "done" ELSE "init",
                                             !.job = IF last THEN @ ELSE @ + 1,
                                             !.retard = x, !.errorIndexs = e]
                       \/ ctl' = [ctl EXCEPT !.retard = x, !.retarted = t]
    BY <1>5 DEF CompareCycle
  <2>3. ctl.job \in 1..Len(jobs) /\ (~last => ctl.job + 1 \in 1..Len(jobs))
    BY <1>2, <2>1
  <2> QED BY <2>1, <2>2, <2>3
<1>6. Upset => JobsData'
  BY DEF Upset
<1>7. Summarized \/ UNCHANGED compareVars => JobsData'
  BY DEF Summarized, compareVars
<1> QED
  BY <1>3, <1>4, <1>5, <1>6, <1>7 DEF CompareNext

(* The types hold when the bench starts.                                    *)
LEMMA DataInit == CompareInit => DataInv
<1> SUFFICES ASSUME CompareInit PROVE DataInv
  OBVIOUS
<1> USE DEF CompareInit, Init
<1>1. JobsData
  <2>1. ctl.phase = "init" => jobs # <<>>
    OBVIOUS
  <2>2. jobs \in Seq([prog : [Words -> Instr], data : [Words -> Words]])
    BY BenchAssumption
  <2>3. jobs # <<>> => Len(jobs) \in Nat /\ Len(jobs) >= 1
    BY <2>2
  <2>4. ctl.phase # "run" /\ ctl.job = 1
    OBVIOUS
  <2> QED BY <2>1, <2>3, <2>4 DEF JobsData
<1>2. prog \in [Words -> Instr]
  BY ProgramAssumption
<1>3. MemData
  <2>1. 0 \in StRows
    BY StRowsAre DEF StRows
  <2>2. 0 \in Words /\ 0 \in Int
    BY InstrAssumption DEF Words
  <2>3. StoresData(sb)
    BY <2>1, <2>2 DEF StoresData, StoreBufferOk, StReset, StoreData
  <2> QED BY <2>2, <2>3 DEF MemData
<1>4. \A p \in Ptrs : rrf.data[p] \in Int
  BY DEF RrfReset
<1> QED BY <1>1, <1>2, <1>3, <1>4, DataFreshIs DEF DataFresh

(* A step that leaves the core alone leaves the types.                      *)
LEMMA DataSame ==
  ASSUME DataInv, UNCHANGED vars, JobsData'
  PROVE  DataInv'
<1>1. FrontData'
  BY DEF DataInv, FrontData, vars
<1>2. RegData'
  BY DEF DataInv, RegData, vars
<1>3. UnitData'
  BY DEF DataInv, UnitData, vars
<1>4. MemData'
  BY DEF DataInv, MemData, vars
<1> QED BY <1>1, <1>2, <1>3, <1>4 DEF DataInv

(* Every step of the bench keeps the types.                                 *)
LEMMA DataNextOk == CoreInv /\ DataInv /\ [CompareNext]_compareVars => DataInv'
<1> SUFFICES ASSUME CoreInv, DataInv, [CompareNext]_compareVars PROVE DataInv'
  OBVIOUS
<1>1. JobsData'
  BY JobsKept DEF DataInv
<1>2. ASSUME ClockEdge, prog' = prog PROVE DataInv'
  BY <1>1, <1>2, FrontDataKept, RegDataKept, UnitDataKept, MemDataKept DEF DataInv
<1>3. ASSUME NEW s, WorkloadInit(CoreNext(Settled), s) PROVE DataInv'
  BY <1>1, <1>3, StartData, DataFreshThen
<1>4. ASSUME UNCHANGED vars PROVE DataInv'
  BY <1>1, <1>4, DataSame
<1> QED BY <1>2, <1>3, <1>4, BenchSteps

(* Nothing waits after a reset.                                             *)
LEMMA NothingWaits == DataFresh => OperandsWait
<1> SUFFICES ASSUME DataFresh PROVE OperandsWait
  OBVIOUS
<1>1. \A u \in Units : \A i \in 0..(EntNum(u)-1) : rs[u][i] = Blank
  BY DEF DataFresh, RsReset
<1> QED BY <1>1, BlankIs DEF OperandsWait

(* So after a step that resets.                                             *)
LEMMA NothingWaitsThen == DataFresh' => OperandsWait'
BY NothingWaits, PTL

(* A step of the bench leaves every operand that waits its producer.        *)
LEMMA OperandsNextOk ==
  CoreInv /\ DataInv /\ OperandsWait /\ [CompareNext]_compareVars => OperandsWait'
<1> SUFFICES ASSUME CoreInv, DataInv, OperandsWait, [CompareNext]_compareVars
             PROVE  OperandsWait'
  OBVIOUS
<1>1. ASSUME ClockEdge PROVE OperandsWait'
  BY <1>1, OperandsWaitKept
<1>2. ASSUME NEW s, WorkloadInit(CoreNext(Settled), s) PROVE OperandsWait'
  BY <1>2, StartData, NothingWaitsThen
<1>3. ASSUME UNCHANGED vars PROVE OperandsWait'
  BY <1>3 DEF OperandsWait, Serves, InFlight, Age, Rem, RoundOver, vars
<1> QED BY <1>1, <1>2, <1>3, BenchSteps

(* Every address that is fetched from, stored to or sent to the memory is a *)
(* word, every operand, result and stored value a number, every register of *)
(* an instruction that waits for dispatch a register, and every operation   *)
(* that a station hands to its unit one that the unit has (alu.h,           *)
(* execBranch.h, storeBuf.h); in every program, workload and cycle.         *)
THEOREM TypesKept == CompareSpec => []DataInv
BY DataInit, DataNextOk, CoreIsRight, PTL DEF CompareSpec

(* Nothing waits when the bench starts.                                     *)
LEMMA OperandsBegin == CompareInit => OperandsWait
<1> SUFFICES ASSUME CompareInit PROVE OperandsWait
  OBVIOUS
<1>1. \A u \in Units : \A i \in 0..(EntNum(u)-1) : rs[u][i] = Blank
  BY DEF CompareInit, Init, RsReset
<1> QED BY <1>1, BlankIs DEF OperandsWait

(* The invariant implies OperandArrives.                                    *)
LEMMA OperandsArrive == CoreInv /\ OperandsWait => OperandArrives
<1> SUFFICES ASSUME CoreInv, OperandsWait PROVE OperandArrives
  OBVIOUS
<1>1. ASSUME NEW x \in Busy
      PROVE  /\ ~Row(x).v1 => Serves(Row(x).p1, Row(x))
             /\ ~Row(x).v2 => Serves(Row(x).p2, Row(x))
  <2>1. PICK u \in Units : x \in {<<u, i>> : i \in {j \in DOMAIN rs[u] : rs[u][j].busy}}
    BY <1>1 DEF Busy
  <2>2. PICK i \in DOMAIN rs[u] : x = <<u, i>> /\ rs[u][i].busy
    BY <2>1
  <2>3. i \in 0..(EntNum(u)-1) /\ Row(x) = rs[u][i]
    BY <2>2 DEF CoreInv, Shapes, Row
  <2> QED BY <2>2, <2>3 DEF OperandsWait
<1> QED BY <1>1 DEF OperandArrives

(* An operand that waits in a reservation station (rsv.h) names an entry of *)
(* the ring that is in flight, older than its instruction, without a        *)
(* result, and whose instruction writes a result: no instruction waits for  *)
(* a result that has been there before, or that a mispredict took back.     *)
(* Whatever the renaming read (srcOpr.h) in the cycle of a commit, of a     *)
(* bypass or of a mispredict.                                               *)
THEOREM OperandsServed == CompareSpec => []OperandArrives
<1>1. CompareSpec => []OperandsWait
  BY OperandsBegin, OperandsNextOk, CoreIsRight, TypesKept, PTL DEF CompareSpec
<1> QED BY <1>1, CoreIsRight, OperandsArrive, PTL

-----------------------------------------------------------------------------
(* Speculation that ends.  A store that cannot go on keeps its speculation  *)
(* bit, since only a row of a station and what is on the move hear of a     *)
(* success (rsv.h:64).  What follows holds until that happens.              *)
LdSpot == <<"ls", Ls2>>

StoresGoOn ==
  ~(Wires.suc /\ Stays("ls") /\ ex["ls"].src.spec /\ ex["ls"].src.specTag = Wires.tag)

(* The branch that x is behind.                                             *)
Owns(y, x) ==
  Held(y) /\ IsBr(y) /\ AgeAt(y) < AgeAt(x) /\ At(y).specTag = At(x).specTag

Owned ==
  \A x \in Spots :
    Held(x) /\ At(x).spec /\ ~IsBr(x) /\ x # LdSpot => \E y \in Spots : Owns(y, x)

(* What is speculative after a cycle was so before it, behind a branch that *)
(* has not succeeded in it.                                                 *)
LEMMA StillSpeculative ==
  ASSUME CoreInv, StoresGoOn, NEW x, NEW y \in Spots, From(y, x),
         x # LdSpot, At(x)'.spec
  PROVE  /\ At(y).spec /\ ~(Wires.suc /\ At(y).specTag = Wires.tag)
         /\ y # LdSpot
<1> USE DEF CoreInv
<1>1. At(y).spec /\ (y # <<"ls", Ex>> => ~(Wires.suc /\ At(y).specTag = Wires.tag))
      /\ Held(y) /\ x = Dest(y) /\ ~Ended(y)
  BY DEF From, Carried
<1>2. y # LdSpot
  BY <1>1 DEF Ended, LdSpot
<1>3. CASE y = <<"ls", Ex>>
  <2>1. "ls" \in Units /\ y[1] = "ls" /\ y[2] = Ex
    BY <1>3 DEF Units
  <2>2. At(y) = ex["ls"].src /\ ex["ls"].full
    BY <1>1, <1>3, <2>1, ExSpot
  <2>3. ~LsGoes(Wires)
    BY <1>1, <1>3 DEF Dest, LdSpot
  <2>4. ~LsKilled(Wires)
    BY <1>1, <2>2 DEF Ended, LsKilled, CheckIsKill
  <2>5. Stays("ls")
    BY <2>2, <2>3, <2>4 DEF Stays
  <2> QED BY <1>1, <1>2, <2>2, <2>5 DEF StoresGoOn
<1> QED BY <1>1, <1>2, <1>3

(* A branch that is not resolved goes on; its age and its tag are known.    *)
LEMMA BranchFrom ==
  ASSUME CoreInv, ClockEdge, ~Wires.mis, NEW y \in Spots, Held(y), IsBr(y), y # BrSpot
  PROVE  \E x \in Spots : /\ Held(x)' /\ IsBr(x)' /\ From(y, x)
                          /\ At(x)'.specTag = At(y).specTag
<1> USE DEF CoreInv
<1>1. PICK x \in Spots : /\ Held(x)' /\ IsBr(x)' /\ x = Dest(y)
                         /\ At(x)'.specTag = At(y).specTag
  BY BranchGoes
<1>2. ~(Fills /\ x[1] = "lane")
  <2>1. SUFFICES ASSUME Fills, x[1] = "lane" PROVE FALSE
    OBVIOUS
  <2>2. CASE y[1] = "lane"
    <3>1. fe.dp
      BY <2>2, HeldAge
    <3>2. Goes
      BY <2>1, <3>1, FillFacts
    <3>3. y[2] \in 1..Size
      BY <2>2, HeldAge DEF Size
    <3>4. x[1] = RowOf(y[2]).unit
      BY <1>1, <2>2, <3>2 DEF Dest, RowSpotOf
    <3> PICK k \in 1..Size : k = y[2]
      BY <3>3
    <3>5. Lane(k).rsEnt = "br"
      <4>1. y = <<"lane", k>> /\ k \in 1..2
        BY <2>2, HeldAge
      <4> QED BY <3>1, <4>1, LaneHeld
    <3>6. RowOf(k).unit = "br"
      BY <3>1, <3>5, LaneHeld
    <3> QED BY <2>1, <3>4, <3>6
  <2>3. CASE y[1] # "lane"
    <3>1. x[1] = y[1]
      BY <1>1, <2>3 DEF Dest
    <3> QED BY <2>1, <2>3, <3>1
  <2> QED BY <2>2, <2>3
<1>3. PICK z \in Spots : From(z, x)
  BY <1>1, <1>2, Origin
<1>4. Held(z) /\ IsBr(z) /\ At(z).specTag = At(y).specTag
  BY <1>1, <1>3 DEF From, Carried
<1>5. AgeAt(z) \in Int /\ AgeAt(y) \in Int
  BY <1>4, HeldAge
<1>6. AgeAt(z) = AgeAt(y)
  <2>1. ~(AgeAt(z) < AgeAt(y)) /\ ~(AgeAt(y) < AgeAt(z))
    BY <1>4 DEF InTheirOrder
  <2> QED BY <1>5, <2>1
<1>7. z = y
  BY <1>4, <1>6 DEF Apart
<1> QED BY <1>1, <1>3, <1>7

(* What a mispredict kills, in a station or a unit, is behind the branch.   *)
LEMMA KilledBehind ==
  ASSUME CoreInv, Owned, Wires.mis, NEW y \in Spots, Held(y), y # LdSpot, y # BrSpot,
         CheckIsKill(Wires, At(y))
  PROVE  AgeAt(BrSpot) < AgeAt(y)
<1> USE DEF CoreInv
<1>1. ex["br"].full
  BY WireFacts
<1>2. CASE IsBr(y)
  BY <1>1, <1>2, BranchesBehind
<1>3. CASE ~IsBr(y)
  <2>1. PICK z \in Spots : Owns(z, y)
    BY <1>3 DEF Owned, CheckIsKill
  <2>2. Held(z) /\ IsBr(z) /\ AgeAt(z) < AgeAt(y)
    BY <2>1 DEF Owns
  <2>3. z = BrSpot \/ AgeAt(BrSpot) < AgeAt(z)
    BY <1>1, <2>2, BranchesBehind
  <2>4. BrSpot \in Spots /\ Held(BrSpot)
    BY <1>1, BrSpotIs
  <2>5. AgeAt(BrSpot) \in Int /\ AgeAt(z) \in Int /\ AgeAt(y) \in Int
    BY <2>2, <2>4, HeldAge
  <2> QED BY <2>2, <2>3, <2>5
<1> QED BY <1>2, <1>3

(* After a mispredict nothing is speculative.                               *)
LEMMA NothingSpeculative ==
  ASSUME CoreInv, Owned, Wires.mis, NEW y \in Spots, Held(y), ~Ended(y), y # LdSpot
  PROVE  ~At(y).spec
<1> USE DEF CoreInv
<1>1. ex["br"].full
  BY WireFacts
<1>2. y[1] # "lane" /\ AgeAt(y) < Age(Wires.rrftag) /\ ~IsBr(y)
  BY Survivor
<1>3. SUFFICES ASSUME At(y).spec PROVE FALSE
  OBVIOUS
<1>4. PICK z \in Spots : Owns(z, y)
  BY <1>2, <1>3 DEF Owned
<1>5. Held(z) /\ IsBr(z) /\ AgeAt(z) < AgeAt(y)
  BY <1>4 DEF Owns
<1>6. AgeAt(BrSpot) = Age(Wires.rrftag) /\ BrSpot \in Spots /\ Held(BrSpot)
  BY <1>1, BrSpotIs
<1>7. z = BrSpot \/ AgeAt(BrSpot) < AgeAt(z)
  BY <1>1, <1>5, BranchesBehind
<1>8. AgeAt(BrSpot) \in Int /\ AgeAt(z) \in Int /\ AgeAt(y) \in Int
  BY <1>5, <1>6, HeldAge
<1> QED BY <1>2, <1>5, <1>6, <1>7, <1>8

(* What is in a place after a cycle of a success, or of none, is behind the *)
(* branch that it was behind.                                               *)
LEMMA StillOwned ==
  ASSUME CoreInv, ClockEdge, Owned, StoresGoOn, ~Wires.mis,
         NEW x \in Spots, NEW y \in Spots, From(y, x), x # LdSpot, At(x)'.spec, ~IsBr(x)'
  PROVE  \E z \in Spots : Owns(z, x)'
<1> USE DEF CoreInv
<1>1. At(y).spec /\ ~(Wires.suc /\ At(y).specTag = Wires.tag) /\ y # LdSpot
  BY StillSpeculative
<1>2. Held(y) /\ ~IsBr(y) /\ At(x)'.specTag = At(y).specTag
  BY DEF From, Carried
<1>3. PICK z \in Spots : Owns(z, y)
  BY <1>1, <1>2 DEF Owned
<1>4. Held(z) /\ IsBr(z) /\ AgeAt(z) < AgeAt(y) /\ At(z).specTag = At(y).specTag
  BY <1>3 DEF Owns
<1>5. z # BrSpot
  <2>1. SUFFICES ASSUME z = BrSpot PROVE FALSE
    OBVIOUS
  <2>2. "br" \in Units /\ z = <<"br", Ex>>
    BY <2>1 DEF Units, BrSpot
  <2>3. ex["br"].full
    BY <1>4, <2>2, ExSpot
  <2>4. Wires.suc /\ At(z).specTag = Wires.tag
    BY <2>1, <2>3, WireFacts, BrSpotIs
  <2> QED BY <1>1, <1>4, <2>4
<1>6. PICK b \in Spots : /\ Held(b)' /\ IsBr(b)' /\ From(z, b)
                         /\ At(b)'.specTag = At(z).specTag
  BY <1>4, <1>5, BranchFrom
<1>7. AgeAt(b)' = AgeAt(z) - Count /\ AgeAt(x)' = AgeAt(y) - Count
  BY <1>6, AgeFollows
<1>8. AgeAt(z) \in Int /\ AgeAt(y) \in Int /\ Count \in Int
  BY <1>2, <1>4, HeldAge, CountFacts
<1>9. AgeAt(b)' < AgeAt(x)'
  BY <1>4, <1>7, <1>8
<1> QED BY <1>2, <1>4, <1>6, <1>9 DEF Owns

(* The lanes of a group that has just been decoded are behind the youngest  *)
(* branch, or the second is behind the first.                               *)
LEMMA LaneOwned ==
  ASSUME CoreInv, ClockEdge, Fills, NEW k \in 1..2, NEW x, x = <<"lane", k>>,
         At(x)'.spec, ~IsBr(x)'
  PROVE  \E z \in Spots : Owns(z, x)'
<1> USE DEF CoreInv
<1> DEFINE b1 == Dcw1.isBranch
           b2 == Dcw2.isBranch
<1>1. b1 \in BOOLEAN /\ b2 \in BOOLEAN /\ ~Wires.mis /\ ~Wires.suc /\ (fe.dp => Goes)
  BY DcwFacts, FillFacts
<1>2. AgeAt(x)' = Waiting' + k - 1 /\ Waiting' \in Int
  BY LaneSpotThen, WaitingThen
<1>3. CASE k = 2 /\ b1
  <2> DEFINE z == <<"lane", 1>>
  <2>1. 1 \in 1..2 /\ z \in Spots /\ ~b2
    BY <1>3, SpotIs, NewLaneSpot
  <2>2. IsBr(z)' /\ Held(z)' /\ At(z)'.specTag = GenTag1(tg, b1)
    BY <1>3, <2>1, NewLaneSpot
  <2>3. At(x)'.specTag = GenTag2(tg, b1, b2)
    BY <1>3, NewLaneSpot
  <2>4. GenTag2(tg, b1, b2) = GenTag1(tg, b1)
    BY <2>1 DEF GenTag2
  <2>5. AgeAt(z)' = Waiting' + 1 - 1
    BY <2>1, LaneSpotThen
  <2>6. AgeAt(z)' < AgeAt(x)'
    <3>1. \A w \in Int : w + 1 - 1 < w + 2 - 1
      OBVIOUS
    <3>2. AgeAt(x)' = Waiting' + 2 - 1
      BY <1>2, <1>3
    <3>3. Waiting' + 1 - 1 < Waiting' + 2 - 1
      BY <1>2, <3>1, Zenon
    <3> QED BY <2>5, <3>2, <3>3, Zenon
  <2> QED BY <2>1, <2>2, <2>3, <2>4, <2>6 DEF Owns
<1>4. CASE ~(k = 2 /\ b1)
  <2>1. /\ k = 1 => ~b1 /\ At(x)'.spec = GenSpec1(tg) /\ At(x)'.specTag = GenTag1(tg, b1)
        /\ k = 2 => /\ ~b1 /\ ~b2 /\ At(x)'.spec = GenSpec2(tg, b1)
                    /\ At(x)'.specTag = GenTag2(tg, b1, b2)
    <3>1. CASE k = 1
      BY <3>1, NewLaneSpot
    <3>2. CASE k = 2
      BY <1>4, <3>2, NewLaneSpot
    <3> QED BY <3>1, <3>2
  <2>2. At(x)'.specTag = tg.tagreg /\ tg.brdepth # 0
    <3>1. ~b1 /\ (k = 2 => ~b2)
      BY <2>1
    <3>2. GenTag1(tg, b1) = tg.tagreg /\ (k = 2 => GenTag2(tg, b1, b2) = tg.tagreg)
      BY <3>1 DEF GenTag1, GenTag2
    <3>3. GenSpec1(tg) = (tg.brdepth # 0) /\ GenSpec2(tg, b1) = (tg.brdepth # 0)
      BY <3>1 DEF GenSpec1, GenSpec2
    <3> HIDE DEF b1, b2
    <3> QED BY <1>1, <2>1, <3>2, <3>3
  <2>3. tg.tagreg \in Tags /\ tg.valid[tg.tagreg]
    <3>1. tg.tagreg \in Tags
      BY TagFacts, TagSize
    <3>2. Behind(tg.tagreg) = 0
      <4>1. tg.tagreg \in Int
        BY TagFacts, TagSize
      <4> QED BY <4>1, TagSize DEF Behind, Tagging!Behind, Tagging!SPECTAG_LEN
    <3> QED BY <2>2, <3>1, <3>2, TagFacts
  <2>4. PICK y \in Spots : Held(y) /\ IsBr(y) /\ At(y).specTag = tg.tagreg
    BY <2>3 DEF TagsHeld
  <2>5. y # BrSpot
    <3>1. "br" \in Units
      BY DEF Units
    <3>2. ~ex["br"].full
      BY <1>1, WireFacts
    <3> QED BY <2>4, <3>1, <3>2, ExSpot DEF BrSpot
  <2>6. PICK z \in Spots : /\ Held(z)' /\ IsBr(z)' /\ From(y, z)
                           /\ At(z)'.specTag = At(y).specTag
    BY <1>1, <2>4, <2>5, BranchFrom
  <2>7. z[1] # "lane"
    <3>1. SUFFICES ASSUME z[1] = "lane" PROVE FALSE
      OBVIOUS
    <3>2. y[1] = "lane" /\ ~Goes
      BY <2>6, <3>1 DEF From
    <3> QED BY <1>1, <2>4, <3>2, HeldAge
  <2>8. AgeAt(z)' < Waiting' /\ AgeAt(z)' \in Int
    BY <2>6, <2>7, AgeFollows
  <2>9. AgeAt(z)' < AgeAt(x)'
    BY <1>2, <2>8
  <2> QED BY <2>2, <2>4, <2>6, <2>9 DEF Owns
<1> QED BY <1>3, <1>4

(* After a cycle whatever is speculative is still behind the branch whose   *)
(* tag it has.                                                              *)
LEMMA OwnedKept ==
  ASSUME CoreInv, ClockEdge, Owned, StoresGoOn
  PROVE  Owned'
<1> USE DEF CoreInv
<1>1. SUFFICES ASSUME NEW x \in Spots, Held(x)', At(x)'.spec, ~IsBr(x)', x # LdSpot
               PROVE  \E z \in Spots : Owns(z, x)'
  BY DEF Owned, Owns
<1>2. CASE Fills /\ x[1] = "lane"
  <2>1. PICK k \in 1..2 : x = <<"lane", k>>
    BY <1>2 DEF Spots
  <2> QED BY <1>1, <1>2, <2>1, LaneOwned
<1>3. CASE ~(Fills /\ x[1] = "lane")
  <2>1. PICK y \in Spots : From(y, x)
    BY <1>1, <1>3, Origin
  <2>2. Held(y) /\ ~Ended(y)
    BY <2>1 DEF From
  <2>3. At(y).spec /\ y # LdSpot
    BY <1>1, <2>1, StillSpeculative
  <2>4. ~Wires.mis
    BY <2>2, <2>3, NothingSpeculative
  <2> QED BY <1>1, <2>1, <2>4, StillOwned
<1> QED BY <1>2, <1>3

(* A tag in use stays in use, but for the tag of a branch that succeeds.    *)
LEMMA TagStays ==
  ASSUME CoreInv, ClockEdge, ~Wires.mis, NEW t \in Tags, tg.valid[t],
         ~(Wires.suc /\ t = Wires.tag)
  PROVE  tg'.valid[t]
<1>1. CASE Fills
  BY <1>1, TagSteps, BehindAfter DEF CoreInv
<1>2. CASE ~Fills
  BY <1>2, BehindKept
<1> QED BY <1>1, <1>2

(* A mispredict kills every entry that has a tag in use.                    *)
LEMMA AllTagsDie ==
  ASSUME CoreInv, Wires.mis, NEW e, e.spec, e.specTag \in Tags, tg.valid[e.specTag]
  PROVE  CheckIsKill(Wires, e)
<1>1. ex["br"].full /\ Wires.fixTag = tg.fixTag[Wires.tag] /\ Wires.tag \in Tags
  BY WireFacts DEF CoreInv
<1>2. tg.valid[Wires.tag]
  BY <1>1, BrSpotIs
<1>3. tg.brdepth # 0 /\ Behind(Wires.tag) = tg.brdepth - 1
  BY <1>1, OldestTag
<1>4. PICK t \in Tags : t = e.specTag
  OBVIOUS
<1>5. tg.fixTag[Wires.tag] = {u \in Tags : Behind(u) <= Behind(Wires.tag)}
  BY <1>1, <1>2, TagFacts DEF CoreInv
<1>6. Behind(t) < tg.brdepth /\ Behind(t) \in 0..BRANCH_ENT_NUM /\ tg.brdepth \in Int
  BY <1>4, TagFacts, TagSize DEF CoreInv
<1>7. Behind(t) <= Behind(Wires.tag)
  BY <1>3, <1>6
<1> QED BY <1>1, <1>4, <1>5, <1>7 DEF CheckIsKill

(* The stores that are speculative have tags in use.                        *)
StoreFields == {"busy", "complete", "spec", "specTag"}
StoreOwned(e) ==
  /\ StoreFields \subseteq DOMAIN e
  /\ e.busy /\ e.spec => e.specTag \in Tags /\ tg.valid[e.specTag]
StoresOwned == \A i \in StRows : StoreOwned(sb.ent[i])

(* A store of the buffer after a cycle.                                     *)
LEMMA StoreRowKept ==
  ASSUME CoreInv, ClockEdge, NEW a, StoreOwned(a), NEW c2, NEW b3,
         b3 => a.busy /\ ~CheckIsKill(Wires, a),
         NEW f, f = [a EXCEPT !.spec = @ /\ ~(Wires.suc /\ a.specTag = Wires.tag),
                              !.complete = c2, !.busy = b3]
  PROVE  StoreOwned(f)'
<1> DEFINE s == a.spec /\ ~(Wires.suc /\ a.specTag = Wires.tag)
<1>1. f = [a EXCEPT !.spec = s, !.complete = c2, !.busy = b3]
  OBVIOUS
<1>2. StoreFields \subseteq DOMAIN a
  BY DEF StoreOwned
<1> HIDE DEF s
<1>3. DOMAIN f = DOMAIN a /\ f.specTag = a.specTag /\ f.spec = s /\ f.busy = b3
  BY <1>1, <1>2 DEF StoreFields
<1>4. ASSUME f.busy, f.spec PROVE f.specTag \in Tags /\ tg'.valid[f.specTag]
  <2>1. b3 /\ s
    BY <1>3, <1>4
  <2>2. a.spec /\ ~(Wires.suc /\ a.specTag = Wires.tag) /\ a.busy /\ ~CheckIsKill(Wires, a)
    BY <2>1 DEF s
  <2>3. a.specTag \in Tags /\ tg.valid[a.specTag]
    BY <2>2 DEF StoreOwned
  <2>4. ~Wires.mis
    BY <2>2, <2>3, AllTagsDie
  <2> QED BY <1>3, <2>2, <2>3, <2>4, TagStays
<1> QED BY <1>2, <1>3, <1>4 DEF StoreOwned

(* A store that enters the buffer.                                          *)
LEMMA NewStoreOwned ==
  ASSUME CoreInv, ClockEdge, Owned, LsGoes(Wires), NEW s, NEW x,
         s => ex["ls"].src.spec /\ ~CheckIsSuc(Wires, ex["ls"].src),
         StoreFields \subseteq DOMAIN x,
         x.spec = s, x.specTag = ex["ls"].src.specTag
  PROVE  StoreOwned(x)'
<1> DEFINE r == ex["ls"].src
<1>1. PICK y : y = <<"ls", Ex>>
  OBVIOUS
<1>2. ex["ls"].full /\ ~CheckIsKill(Wires, r)
  BY DEF LsGoes, LsKilled
<1>3. y \in Spots /\ Held(y) /\ At(y) = r /\ ~IsBr(y)
  <2>1. "ls" \in Units
    BY DEF Units
  <2> QED BY <1>1, <1>2, <2>1, SpotIs, ExSpot
<1>4. ~Ended(y) /\ y # LdSpot
  BY <1>1, <1>2, <1>3 DEF Ended, LdSpot, Ex, Ls2
<1>5. ASSUME x.busy, x.spec PROVE x.specTag \in Tags /\ tg'.valid[x.specTag]
  <2>1. At(y).spec /\ ~CheckIsSuc(Wires, r)
    BY <1>3, <1>5
  <2>2. ~Wires.mis
    BY <1>3, <1>4, <2>1, NothingSpeculative
  <2>3. PICK z \in Spots : Owns(z, y)
    BY <1>3, <1>4, <2>1 DEF Owned
  <2>4. Held(z) /\ IsBr(z) /\ At(z).specTag = r.specTag
    BY <1>3, <2>3 DEF Owns
  <2>5. r.specTag \in Tags /\ tg.valid[r.specTag]
    BY <2>4, BranchTag
  <2>6. ~(Wires.suc /\ r.specTag = Wires.tag)
    BY <1>3, <2>1 DEF CheckIsSuc
  <2> QED BY <2>2, <2>5, <2>6, TagStays
<1> QED BY <1>5 DEF StoreOwned

(* A row of the store buffer after a cycle: as before, or the store of the  *)
(* memory unit.                                                             *)
Remains(f, a) ==
  \E c2, b3 : /\ b3 => a.busy /\ ~CheckIsKill(Wires, a)
              /\ f = [a EXCEPT !.spec = @ /\ ~(Wires.suc /\ a.specTag = Wires.tag),
                                !.complete = c2, !.busy = b3]
Enters(f) ==
  /\ LsGoes(Wires) /\ StoreFields \subseteq DOMAIN f
  /\ f.specTag = ex["ls"].src.specTag
  /\ f.spec = (ex["ls"].src.spec /\ ~CheckIsSuc(Wires, ex["ls"].src))

(* What the store buffer puts in a row is one of these.                     *)
LEMMA StoreRowIs ==
  ASSUME StoreBufferOk(sb), NEW s, s = StBufNext(Wires, Count), NEW i \in StRows
  PROVE  \E f : f = s.ent[i] /\ (Remains(f, sb.ent[i]) \/ Enters(f))
<1> DEFINE w == Wires
           s0 == IF w.mis THEN StMisPred(sb, Killed(w)) ELSE sb
           e  == StEnt(sb, w, StoreCommitted(Count), Retiring(w))
           c  == IF StoreCommitted(Count) THEN StInc(s0.comPtr) ELSE s0.comPtr
           r  == IF Retiring(w) THEN StInc(s0.retPtr) ELSE s0.retPtr
           s1 == [s0 EXCEPT !.ent = e, !.comPtr = c, !.retPtr = r]
           x  == [busy |-> TRUE, complete |-> FALSE,
                  spec |-> ex["ls"].src.spec /\ ~CheckIsSuc(w, ex["ls"].src),
                  specTag |-> ex["ls"].src.specTag,
                  mem_addr |-> EffAddr, data |-> ex["ls"].src.p2]
           y  == [s1.ent EXCEPT ![sb.finPtr] = x]
           s2 == [s1 EXCEPT !.ent = y, !.finPtr = StInc(sb.finPtr)]
<1>1. s = IF Storing(w) THEN s2 ELSE s1
  BY DEF StBufNext, StNew
<1>2. "ent" \in DOMAIN s0
  BY StMisPredOk DEF StoreBufferOk
<1>3. DOMAIN e = StRows
  BY DEF StEnt
<1>4. Remains(e[i], sb.ent[i])
  <2> DEFINE a == sb.ent[i]
             b2 == (a.complete \/ (StoreCommitted(Count) /\ i = sb.comPtr))
                     /\ ~(Retiring(w) /\ i = sb.retPtr)
             b3 == a.busy /\ ~(Retiring(w) /\ i = sb.retPtr) /\ ~CheckIsKill(w, a)
  <2>1. e[i] = [a EXCEPT !.spec = @ /\ ~(w.suc /\ a.specTag = w.tag),
                         !.complete = b2, !.busy = b3]
    BY DEF StEnt
  <2>2. b3 => a.busy /\ ~CheckIsKill(w, a)
    OBVIOUS
  <2> HIDE DEF b2, b3, e
  <2> QED BY <2>1, <2>2 DEF Remains
<1> HIDE DEF s0, e, c, r
<1>5. s1.ent = e /\ "ent" \in DOMAIN s1
  BY <1>2
<1> HIDE DEF s1
<1>6. Storing(w) => Enters(x)
  BY DEF Storing, Enters, StoreFields
<1> HIDE DEF x
<1>7. y[i] = IF i = sb.finPtr THEN x ELSE e[i]
  BY <1>3, <1>5
<1> HIDE DEF y
<1>8. s2.ent = y
  BY <1>5
<1> HIDE DEF s2
<1>9. s.ent[i] = e[i] \/ (Storing(w) /\ s.ent[i] = x)
  BY <1>1, <1>5, <1>7, <1>8
<1> QED BY <1>4, <1>6, <1>9

(* The store buffer after a clock edge.                                     *)
LEMMA StoresEdge ==
  ASSUME ClockEdge PROVE sb' = StBufNext(Wires, Count)
<1>1. sb' = CoreNext(Settled).sb
  BY DEF ClockEdge, Becomes
<1>2. CoreNext(Settled).sb = StBufNext(Wires, Count)
  BY DEF CoreNext, Settled, Count
<1> QED BY <1>1, <1>2

(* After a cycle a store that is speculative has a tag in use.              *)
LEMMA StoresOwnedKept ==
  ASSUME CoreInv, ClockEdge, Owned, StoreBufferOk(sb), StoresOwned
  PROVE  StoresOwned'
<1>1. PICK s : s = StBufNext(Wires, Count)
  OBVIOUS
<1>2. sb' = s
  BY <1>1, StoresEdge
<1>3. ASSUME NEW i \in StRows PROVE StoreOwned(s.ent[i])'
  <2>1. PICK f : f = s.ent[i] /\ (Remains(f, sb.ent[i]) \/ Enters(f))
    BY <1>1, StoreRowIs
  <2>2. CASE Remains(f, sb.ent[i])
    <3>1. PICK a : a = sb.ent[i]
      OBVIOUS
    <3>2. PICK c2 : \E b3 : /\ b3 => a.busy /\ ~CheckIsKill(Wires, a)
                            /\ f = [a EXCEPT !.spec = @ /\ ~(Wires.suc /\ a.specTag = Wires.tag),
                                              !.complete = c2, !.busy = b3]
      BY <2>2, <3>1 DEF Remains
    <3>3. PICK b3 : /\ b3 => a.busy /\ ~CheckIsKill(Wires, a)
                    /\ f = [a EXCEPT !.spec = @ /\ ~(Wires.suc /\ a.specTag = Wires.tag),
                                      !.complete = c2, !.busy = b3]
      BY <3>2
    <3>4. StoreOwned(a)
      BY <3>1 DEF StoresOwned
    <3>5. StoreOwned(f)'
      BY ONLY <3>3, <3>4, CoreInv, ClockEdge, StoreRowKept
    <3> QED BY <2>1, <3>5
  <2>3. CASE Enters(f)
    <3>1. PICK h : h = (ex["ls"].src.spec /\ ~CheckIsSuc(Wires, ex["ls"].src))
      OBVIOUS
    <3>2. StoreOwned(f)'
      BY <2>3, <3>1, NewStoreOwned DEF Enters, StoreFields
    <3> QED BY <2>1, <3>2
  <2> QED BY <2>1, <2>2, <2>3
<1> QED BY <1>2, <1>3 DEF StoresOwned, StoreOwned

(* The invariant of speculation: in the pipeline and in the store buffer.   *)
OwnInv == Owned /\ StoresOwned

(* The invariants imply SpecOwned.                                          *)
LEMMA SpecIsOwnedNow == CoreInv /\ OwnInv => SpecOwned
<1> SUFFICES ASSUME CoreInv, OwnInv, NEW e \in Speculative PROVE tg.valid[e.specTag]
  BY DEF SpecOwned
<1> USE DEF CoreInv
<1>1. ASSUME NEW x \in Spots, Held(x), At(x) = e, e.spec, x # LdSpot
      PROVE  tg.valid[e.specTag]
  <2>1. CASE IsBr(x)
    BY <1>1, <2>1 DEF TagsHeld
  <2>2. CASE ~IsBr(x)
    <3>1. PICK y \in Spots : Owns(y, x)
      BY <1>1, <2>2 DEF OwnInv, Owned
    <3> QED BY <1>1, <3>1 DEF Owns, TagsHeld
  <2> QED BY <2>1, <2>2
<1>2. CASE e.spec /\ e \in {Row(x) : x \in Busy}
  <2>1. PICK x \in Busy : e = Row(x)
    BY <1>2
  <2>2. PICK u \in Units : x \in {<<u, i>> : i \in {j \in DOMAIN rs[u] : rs[u][j].busy}}
    BY DEF Busy
  <2>3. PICK i \in DOMAIN rs[u] : x = <<u, i>> /\ rs[u][i].busy
    BY <2>2
  <2>4. i \in 0..(EntNum(u)-1) /\ e = rs[u][i]
    BY <2>1, <2>3 DEF Shapes, Row
  <2>5. x \in Spots /\ Held(x) /\ At(x) = e /\ x # LdSpot
    BY <2>3, <2>4, SpotIs, RowSpot DEF LdSpot, Ls2
  <2> QED BY <1>1, <1>2, <2>5
<1>3. CASE e.spec /\ e \in {ex[u].src : u \in Full}
  <2>1. PICK u \in Units : ex[u].full /\ e = ex[u].src
    BY <1>3 DEF Full
  <2>2. PICK x : x = <<u, Ex>>
    OBVIOUS
  <2>3. x \in Spots /\ Held(x) /\ At(x) = e /\ x # LdSpot
    BY <2>1, <2>2, SpotIs, ExSpot DEF LdSpot, Ls2, Ex
  <2> QED BY <1>1, <1>3, <2>3
<1>4. CASE e.spec /\ e \in {Lane(k) : k \in IF fe.dp THEN 1..Size ELSE {}}
  <2>1. PICK k \in 1..Size : fe.dp /\ e = Lane(k)
    BY <1>4
  <2>2. PICK x : x = <<"lane", k>>
    OBVIOUS
  <2>3. x \in Spots /\ Held(x) /\ At(x) = e /\ x # LdSpot
    BY <2>1, <2>2, LaneHeld DEF LdSpot, Ls2
  <2> QED BY <1>1, <1>4, <2>3
<1>5. CASE e.busy /\ e.spec /\ \E i \in StRows : e = sb.ent[i]
  BY <1>5 DEF OwnInv, StoresOwned, StoreOwned
<1> QED BY <1>2, <1>3, <1>4, <1>5 DEF Speculative

(* No instruction is between decode and its result.                         *)
NothingHeld == \A x \in Spots : ~Held(x)

(* A reset leaves no instruction, so nothing is speculative.                *)
LEMMA FreshIsEmpty == Fresh => NothingHeld
<1> SUFFICES ASSUME Fresh, NEW x \in Spots, Held(x) PROVE FALSE
  BY DEF NothingHeld
<1> USE DEF Fresh
<1>1. CASE \E k \in 1..2 : x = <<"lane", k>>
  BY <1>1, LaneSpot DEF FeReset
<1>2. CASE \E u \in Units : x = <<u, Ex>>
  BY <1>2, ExSpot DEF ExReset
<1>3. CASE \E u \in Units : \E i \in 0..(EntNum(u)-1) : x = <<u, i>>
  BY <1>3, RowSpot, BlankIs DEF RsReset
<1>4. CASE x = <<"ls", Ls2>>
  BY <1>4, Ls2Spot
<1> QED BY <1>1, <1>2, <1>3, <1>4, SpotIs

(* The same of the state after a step.                                      *)
LEMMA FreshIsEmptyThen == Fresh' => NothingHeld'
BY FreshIsEmpty, PTL

(* Where nothing is, everything that is speculative has its branch.         *)
LEMMA EmptyIsOwned == NothingHeld => Owned
BY DEF NothingHeld, Owned

(* The same of the state after a step.                                      *)
LEMMA EmptyIsOwnedThen == NothingHeld' => Owned'
BY EmptyIsOwned, PTL

(* The reset of a workload leaves no speculative store.                     *)
LEMMA StartOwned ==
  ASSUME CoreInv, StoreBufferOk(sb), StoresOwned, NEW data,
         Becomes(Started(CoreNext(Settled), data))
  PROVE  StoresOwned'
<1>1. PICK s : s = StBufNext(Wires, Count)
  OBVIOUS
<1>2. CoreNext(Settled).sb = s
  BY <1>1 DEF CoreNext, Settled, Count
<1>3. PICK m : m = CoreNext(Settled)
  OBVIOUS
<1>4. m.sb = s
  BY <1>2, <1>3
<1>5. sb'.ent = [i \in StRows |->
                   [s.ent[i] EXCEPT !.busy = FALSE, !.complete = FALSE, !.spec = FALSE]]
  <2>1. sb' = Started(m, data).sb
    BY <1>3 DEF Becomes
  <2>2. Started(m, data).sb = AfterReset(m).sb
    BY DEF Started, AfterReset
  <2> DEFINE n == [i \in StRows |->
                     [m.sb.ent[i] EXCEPT !.busy = FALSE, !.complete = FALSE, !.spec = FALSE]]
  <2>3. AfterReset(m).sb = [StReset EXCEPT !.ent = n]
    BY DEF AfterReset
  <2> HIDE DEF n
  <2>4. sb'.ent = n
    BY <2>1, <2>2, <2>3 DEF StReset
  <2> QED BY <1>4, <2>4 DEF n
<1>6. ASSUME NEW i \in StRows PROVE StoreFields \subseteq DOMAIN s.ent[i]
  <2>1. PICK f : f = s.ent[i] /\ (Remains(f, sb.ent[i]) \/ Enters(f))
    BY <1>1, StoreRowIs
  <2>2. CASE Enters(f)
    BY <2>1, <2>2 DEF Enters
  <2>3. CASE Remains(f, sb.ent[i])
    <3>1. DOMAIN f = DOMAIN sb.ent[i]
      BY <2>3 DEF Remains
    <3> QED BY <2>1, <3>1 DEF StoresOwned, StoreOwned
  <2> QED BY <2>1, <2>2, <2>3
<1>7. ASSUME NEW i \in StRows
      PROVE  StoreFields \subseteq DOMAIN sb'.ent[i] /\ sb'.ent[i].spec = FALSE
  <2>1. PICK g : g = s.ent[i]
    OBVIOUS
  <2>2. sb'.ent[i] = [g EXCEPT !.busy = FALSE, !.complete = FALSE, !.spec = FALSE]
    BY <1>5, <2>1
  <2>3. StoreFields \subseteq DOMAIN g
    BY <1>6, <2>1
  <2> QED BY <2>2, <2>3 DEF StoreFields
<1> QED BY <1>7 DEF StoresOwned, StoreOwned

(* The invariant holds when the bench starts.                               *)
LEMMA OwnInitOk == CompareInit => OwnInv
<1> SUFFICES ASSUME CompareInit PROVE OwnInv
  OBVIOUS
<1>1. Fresh
  BY BlankIs DEF CompareInit, Init, Fresh, RrfReset, RobReset, RobFields
<1>2. Owned
  BY <1>1, FreshIsEmpty, EmptyIsOwned
<1>3. StoresOwned
  BY DEF CompareInit, Init, StReset, StoresOwned, StoreOwned, StoreFields
<1> QED BY <1>2, <1>3 DEF OwnInv

(* A step of the bench keeps it, as long as stores go on.                   *)
LEMMA OwnNextOk ==
  CoreInv /\ DataInv /\ StoresGoOn /\ OwnInv /\ [CompareNext]_compareVars => OwnInv'
<1> SUFFICES ASSUME CoreInv, DataInv, StoresGoOn, OwnInv, [CompareNext]_compareVars
             PROVE  OwnInv'
  OBVIOUS
<1>1. StoreBufferOk(sb) /\ Owned /\ StoresOwned
  BY DEF DataInv, MemData, StoresData, OwnInv
<1>2. ASSUME ClockEdge PROVE OwnInv'
  BY <1>1, <1>2, OwnedKept, StoresOwnedKept DEF OwnInv
<1>3. ASSUME Starts PROVE OwnInv'
  <2>1. PICK data : Becomes(Started(CoreNext(Settled), data))
    BY <1>3 DEF Starts
  <2>2. StoresOwned'
    BY <1>1, <2>1, StartOwned
  <2>3. Fresh'
    BY <2>1, StartIs
  <2> QED BY <2>2, <2>3, FreshIsEmptyThen, EmptyIsOwnedThen DEF OwnInv
<1>4. ASSUME UNCHANGED vars PROVE OwnInv'
  <2>1. /\ fe' = fe /\ tg' = tg /\ rrf' = rrf /\ comPtr' = comPtr /\ rs' = rs
        /\ ex' = ex /\ ls2' = ls2 /\ sb' = sb
    BY <1>4 DEF vars
  <2>2. Waiting' = Waiting /\ \A p : Age(p)' = Age(p)
    BY <2>1 DEF Waiting, Rem, RoundOver, Age
  <2>3. \A k : Lane(k)' = Lane(k)
    BY <2>1 DEF Lane
  <2>4. Size' = Size
    BY <2>1 DEF Size
  <2>5. \A x : /\ Held(x)' = Held(x) /\ At(x)' = At(x) /\ IsBr(x)' = IsBr(x)
    BY <2>1, <2>3, <2>4 DEF Held, At, IsBr
  <2>6. \A x : AgeAt(x)' = AgeAt(x)
    BY <2>2, <2>5 DEF AgeAt
  <2>7. Owned'
    BY <1>1, <2>5, <2>6 DEF Owned, Owns
  <2>8. StoresOwned'
    BY <1>1, <2>1 DEF StoresOwned, StoreOwned
  <2> QED BY <2>7, <2>8 DEF OwnInv
<1> QED BY <1>2, <1>3, <1>4, CoreSteps

(* Whatever is speculative in the core, in the store buffer too, is behind a *)
(* branch that is not resolved and whose tag it carries, so that it hears of *)
(* the outcome (checkIsKill, checkIsSuc of speculative.h), in every size,    *)
(* program and workload, until a store that cannot go on misses a success    *)
(* (rsv.h:64).                                                               *)
THEOREM SpecIsOwned == CompareSpec /\ []StoresGoOn => []SpecOwned
<1>1. CompareSpec /\ []StoresGoOn => []OwnInv
  BY OwnInitOk, OwnNextOk, CoreIsRight, TypesKept, PTL DEF CompareSpec
<1> QED BY <1>1, CoreIsRight, SpecIsOwnedNow, PTL

-----------------------------------------------------------------------------
(* Rows that are given once.  When only the last row of a station is free   *)
(* both lanes are offered it (orsv.h:57).                                   *)
RowsApart == Goes /\ Size = 2 => RowOf(1) # RowOf(2)

(* Two lanes of a group for one in-order station get two rows of it.        *)
LEMMA RowsDifferIn ==
  ASSUME CoreInv, RowsApart, NEW u \in InOrder, InRing(u)
  PROVE  RowsDiffer(u)
<1> USE DEF CoreInv
<1>1. SUFFICES ASSUME Goes, Size = 2, Lane(1).rsEnt = u, Lane(2).rsEnt = u
               PROVE  RowOf(1).row # RowOf(2).row
  BY DEF RowsDiffer
<1>2. 1 \in 1..Size /\ 2 \in 1..Size
  BY <1>1
<1>3. RowOf(1) = [unit |-> u, row |-> RowOf(1).row]
  BY <1>1, <1>2, RingRoom
<1>4. RowOf(2) = [unit |-> u, row |-> RowOf(2).row]
  BY <1>1, <1>2, RingRoom
<1>5. RowOf(1) # RowOf(2)
  BY <1>1 DEF RowsApart
<1> QED BY <1>3, <1>4, <1>5

(* The rows of a station after a mispredict.                                *)
LEMMA RowsLeft ==
  ASSUME CoreInv, ClockEdge, Wires.mis, NEW u \in Units, NEW i \in 0..(EntNum(u)-1)
  PROVE  /\ rs'[u][i].busy <=> BusyAfter(rs[u][i], Killed(Wires))
         /\ rs'[u][i].busy <=> rs[u][i].busy /\ ~CheckIsKill(Wires, rs[u][i])
         /\ rs'[u][i].rrftag = rs[u][i].rrftag
<1> USE DEF CoreInv
<1> DEFINE e == rs[u][i]
           f == rs'[u][i]
<1>1. IsEntry(e)
  BY DEF Shapes
<1>2. ~Goes
  BY RingThen
<1>3. f = Cycled(e, i, u)
  BY <1>2, RowThen
<1>4. Issue(u) # i
  <2>1. Issue(u) = None
    BY IssueIs
  <2>2. EntNum(u) \in Nat
    BY StationSize
  <2> QED BY <2>1, <2>2 DEF None
<1>5. f.rrftag = e.rrftag /\ (f.busy <=> e.busy /\ i # Issue(u) /\ ~CheckIsKill(Wires, e))
  <2> HIDE DEF e, f
  <2> QED BY <1>1, <1>3, EntryCycled
<1>6. BusyAfter(e, Killed(Wires)) <=> e.busy /\ ~CheckIsKill(Wires, e)
  BY DEF BusyAfter, Killed, CheckIsKill
<1> QED BY <1>4, <1>5, <1>6

(* Loads and stores wait in the order of their ages, after a mispredict too:*)
(* those that it takes back are the youngest.                               *)
LEMMA LsOrderKept ==
  ASSUME CoreInv, Owned, RowsApart, InRing("ls"), ClockEdge
  PROVE  InRing("ls")'
<1> USE DEF CoreInv
<1>0. "ls" \in Units /\ "ls" \in InOrder
  BY DEF Units, InOrder
<1>1. CASE ~Wires.mis
  BY <1>0, <1>1, RowsDifferIn, RingKept
<1>2. CASE Wires.mis
  <2> DEFINE n == EntNum("ls")
             t == rs["ls"]
             a == alloc["ls"]
             K == Killed(Wires)
             B == RowsIn("ls")
             g == AgesIn("ls")
             C == {i \in 0..(n-1) : BusyAfter(t[i], K)}
  <2>1. RowsIn("ls")' = C
    <3>1. \A i \in 0..(n-1) : rs'["ls"][i].busy <=> BusyAfter(t[i], K)
      BY <1>0, <1>2, RowsLeft
    <3> QED BY <3>1 DEF RowsIn
  <2>2. AgesIn("ls")' = g
    <3>1. comPtr' = comPtr
      <4>1. Count = 0 /\ comPtr' = Inc(comPtr, Count) /\ comPtr \in Ptrs
        BY <1>2, RingThen, RingFacts
      <4> QED BY <4>1, RingSize DEF Inc
    <3>2. \A i \in 0..(n-1) : rs'["ls"][i].rrftag = t[i].rrftag
      BY <1>0, <1>2, RowsLeft
    <3> QED BY <3>1, <3>2 DEF AgesIn, Age
  <2>3. alloc'["ls"] = AllocMisPred(t, a, K)
    <3>1. alloc' = NextAlloc
      BY Edge
    <3>2. alloc'["ls"] = AllocNext("ls", Wires, Goes)
      BY <1>0, <3>1 DEF NextAlloc
    <3>3. ~Goes
      BY <1>2, RingThen
    <3> QED BY <1>2, <3>2, <3>3 DEF AllocNext
  <2>4. \A i \in B : t[i].busy /\ i \in 0..(n-1)
    BY DEF RowsIn
  <2>5. \A i \in 0..(n-1) : BusyAfter(t[i], K) <=> t[i].busy /\ ~CheckIsKill(Wires, t[i])
    BY <1>2 DEF BusyAfter, Killed, CheckIsKill
  <2>6. C \subseteq B
    BY <2>5 DEF RowsIn
  <2>7. ASSUME NEW i \in C, NEW j \in B, g[j] < g[i] PROVE j \in C
    <3> DEFINE x == <<"ls", i>>
               y == <<"ls", j>>
    <3>1. i \in B /\ ~CheckIsKill(Wires, t[i]) /\ i \in 0..(n-1) /\ j \in 0..(n-1)
      BY <2>4, <2>5, <2>6, <2>7
    <3>2. x \in Spots /\ Held(x) /\ At(x) = t[i] /\ AgeAt(x) = g[i] /\ x # LdSpot
          /\ x[1] = "ls" /\ x[2] = i /\ i # Ex /\ i # Ls2
      BY <1>0, <2>4, <3>1, SpotIs, RowSpot DEF LdSpot, AgesIn
    <3>3. y \in Spots /\ Held(y) /\ At(y) = t[j] /\ AgeAt(y) = g[j] /\ y # LdSpot /\ y # BrSpot
      BY <1>0, <2>4, <3>1, SpotIs, RowSpot DEF LdSpot, BrSpot, AgesIn
    <3>4. ~Ended(x)
      BY <3>1, <3>2 DEF Ended
    <3>5. AgeAt(x) < Age(Wires.rrftag)
      BY <1>2, <3>2, <3>4, Survivor
    <3>6. SUFFICES ASSUME CheckIsKill(Wires, t[j]) PROVE FALSE
      BY <2>4, <2>5
    <3>7. AgeAt(BrSpot) < AgeAt(y)
      BY <1>2, <3>3, <3>6, KilledBehind
    <3>8. AgeAt(BrSpot) = Age(Wires.rrftag)
      BY <1>2, WireFacts, BrSpotIs
    <3>9. AgeAt(x) \in Int /\ AgeAt(y) \in Int /\ Age(Wires.rrftag) \in Int
      <4>1. Age(Wires.rrftag) \in Int
        BY WireFacts, AgeIs, RingSize
      <4> HIDE DEF x, y
      <4> QED BY <3>2, <3>3, <4>1, HeldAge
    <3> QED BY <2>7, <3>2, <3>3, <3>5, <3>7, <3>8, <3>9
  <2>8. Table(t, n)
    BY <1>0, StationTable
  <2>9. RingAge(B, g, a, n)
    BY DEF InRing
  <2> HIDE DEF B, C, g, a, n, t, K
  <2>10. RingAge(C, g, AllocMisPred(t, a, K), n)
    <3>1. C = {i \in 0..(n-1) : BusyAfter(t[i], K)}
      BY DEF C
    <3> QED BY <2>6, <2>7, <2>8, <2>9, <3>1, RingTurnsBack
  <2> QED BY <2>1, <2>2, <2>3, <2>10 DEF InRing, n
<1> QED BY <1>1, <1>2

(* A table in which any free row may be taken offers free rows, the second  *)
(* one only if there is a first one.                                        *)
LEMMA TwoOffers ==
  ASSUME NEW t, NEW n, Table(t, n), NEW one, one = FreeIndex(t, None),
         NEW two, two = FreeIndex(t, one.idx)
  PROVE  /\ one.idx \in 0..(n-1) /\ one.busy = t[one.idx].busy
         /\ two.idx \in 0..(n-1) /\ two.busy = t[two.idx].busy
         /\ (\E i \in 0..(n-1) : ~t[i].busy) => ~one.busy
<1>1. None \notin 0..(n-1)
  BY DEF None, Table, PowerOfTwo
<1>2. /\ one.idx \in 0..(n-1) /\ one.busy = t[one.idx].busy
      /\ (\E i \in 0..(n-1) : ~t[i].busy) => ~t[one.idx].busy
  BY <1>1, FreeIndexIs
<1>3. two.idx \in 0..(n-1) /\ two.busy = t[two.idx].busy
  BY FreeIndexIs
<1> QED BY <1>2, <1>3

(* Both adders are one table.                                               *)
LEMMA AluTableIs ==
  ASSUME Shapes
  PROVE  /\ Table(AluTable, 2 * ALU_ENT_NUM) /\ ALU_ENT_NUM \in Nat \ {0}
         /\ \A i \in 0..(2 * ALU_ENT_NUM - 1) :
              /\ i \div 2 \in 0..(ALU_ENT_NUM - 1)
              /\ AluTable[i] = rs[IF i % 2 = 1 THEN "alu2" ELSE "alu1"][i \div 2]
<1> DEFINE n == ALU_ENT_NUM
<1>1. "alu1" \in Units /\ "alu2" \in Units /\ EntNum("alu1") = n /\ EntNum("alu2") = n
  BY DEF Units, EntNum
<1>2. n \in Nat \ {0} /\ PowerOfTwo(n)
  BY <1>1, StationSize
<1>3. PowerOfTwo(2 * n)
  BY <1>2, Doubled
<1>4. Rows(rs["alu1"]) = n
  BY <1>1, <1>2, RowsAre DEF Shapes
<1>5. AluTable = [i \in 0..(2 * n - 1) |-> IF i % 2 = 0 THEN rs["alu1"][i \div 2]
                                                    ELSE rs["alu2"][i \div 2]]
  BY <1>4 DEF AluTable, Interleave
<1> HIDE DEF n
<1>6. ASSUME NEW i \in 0..(2 * n - 1)
      PROVE  i \div 2 \in 0..(n-1) /\ (i % 2 = 0 \/ i % 2 = 1)
  BY <1>2, <1>6
<1>7. ASSUME NEW i \in 0..(2 * n - 1)
      PROVE  AluTable[i] = rs[IF i % 2 = 1 THEN "alu2" ELSE "alu1"][i \div 2]
  <2>1. CASE i % 2 = 0
    BY <1>5, <2>1
  <2>2. CASE i % 2 = 1
    BY <1>5, <2>2
  <2> QED BY <1>6, <2>1, <2>2
<1>8. Table(AluTable, 2 * n)
  BY <1>3, <1>5 DEF Table
<1> QED BY <1>2, <1>6, <1>7, <1>8 DEF n

(* A group that is dispatched is written to rows that are free.             *)
LEMMA RowsFree ==
  ASSUME CoreInv, InRing("ls"), Goes, NEW k \in 1..Size
  PROVE  \E u \in Units : \E i \in 0..(EntNum(u)-1) :
           RowOf(k) = [unit |-> u, row |-> i] /\ ~rs[u][i].busy
<1> USE DEF CoreInv
<1>1. fe.dp /\ \A s \in Stations : Allocatable(s)
  BY GoFacts
<1>2. k \in 1..2 /\ ~Lane(k).invalid
  BY <1>1, LaneHeld
<1> DEFINE s == Lane(k).rsEnt
           f == Offer(s)
           j == IF k = 2 /\ fe.dcd1.rsEnt = s THEN 2 ELSE 1
           i == f[j].idx
<1>3. s \in Stations
  BY <1>2 DEF FrontOk, IsLane, Lane
<1>4. CASE s \in InOrder
  <2>1. InRing(s)
    BY <1>4 DEF InOrder, BrOrder
  <2>2. s \in Units
    BY <1>4 DEF InOrder, Units
  <2>3. RowOf(k) = [unit |-> s, row |-> RowOf(k).row] /\ ~rs[s][RowOf(k).row].busy
        /\ RowOf(k).row \in 0..(EntNum(s)-1)
    BY <1>4, <2>1, RingRoom
  <2> QED BY <2>2, <2>3
<1>5. CASE s \notin InOrder
  <2> DEFINE t == IF s = "alu" THEN AluTable ELSE rs[s]
             n == IF s = "alu" THEN 2 * ALU_ENT_NUM ELSE EntNum(s)
             one == FreeIndex(t, None)
             two == FreeIndex(t, one.idx)
  <2>1. s \in {"alu", "mul"} /\ (s # "alu" => s \in Units)
    BY <1>3, <1>5 DEF Stations, InOrder, Units
  <2>2. Table(t, n)
    BY <2>1, AluTableIs, StationTable
  <2>3. f[1] = one /\ f[2] = two
    BY <1>5 DEF Offer
  <2>4. /\ one.idx \in 0..(n-1) /\ one.busy = t[one.idx].busy
        /\ two.idx \in 0..(n-1) /\ two.busy = t[two.idx].busy
        /\ (\E r \in 0..(n-1) : ~t[r].busy) => ~one.busy
    <3> HIDE DEF t, n
    <3> QED BY <2>2, TwoOffers
  <2>5. Bit(~f[1].busy) + Bit(~f[2].busy) >= Bit(Required(s, 1)) + Bit(Required(s, 2))
    BY <1>1, <1>3 DEF Allocatable
  <2>6. Required(s, k) /\ (j = 2 => Required(s, 1) /\ Required(s, 2))
    <3>1. ~Lane(1).invalid
      BY DEF FrontOk, Lane
    <3> QED BY <1>2, <3>1 DEF Required, Lane
  <2>7. Required(s, 1) \in BOOLEAN /\ Required(s, 2) \in BOOLEAN
    BY DEF Required
  <2>8. ~f[j].busy
    <3> DEFINE p == one.busy
               q == two.busy
               r1 == Required(s, 1)
               r2 == Required(s, 2)
    <3>1. p => q
      BY <2>4
    <3>2. Bit(~p) + Bit(~q) >= Bit(r1) + Bit(r2)
      BY <2>3, <2>5
    <3>3. (r1 \/ r2 => ~p) /\ (r1 /\ r2 => ~p /\ ~q)
      <4> HIDE DEF p, q, r1, r2
      <4> QED BY <2>7, <3>1, <3>2 DEF Bit
    <3>4. r1 \/ r2
      BY <1>2, <2>6
    <3>5. ~p /\ (j = 2 => ~q)
      <4> HIDE DEF p, q, j
      <4> QED BY <2>6, <3>3, <3>4
    <3> QED BY <2>3, <3>5
  <2>9. i \in 0..(n-1) /\ ~t[i].busy
    BY <2>3, <2>4, <2>8
  <2>10. RowOf(k) = IF s = "alu" THEN [unit |-> IF i % 2 = 1 THEN "alu2" ELSE "alu1",
                                       row |-> i \div 2]
                                 ELSE [unit |-> s, row |-> i]
    BY DEF RowOf
  <2>11. CASE s = "alu"
    <3>1. \A m \in 0..(2 * ALU_ENT_NUM - 1) :
             /\ m \div 2 \in 0..(ALU_ENT_NUM - 1)
             /\ AluTable[m] = rs[IF m % 2 = 1 THEN "alu2" ELSE "alu1"][m \div 2]
      BY AluTableIs
    <3>2. PICK u : u = IF i % 2 = 1 THEN "alu2" ELSE "alu1"
      OBVIOUS
    <3>3. u \in Units /\ EntNum(u) = ALU_ENT_NUM
      BY <3>2 DEF Units, EntNum
    <3>4. i \div 2 \in 0..(ALU_ENT_NUM - 1) /\ AluTable[i] = rs[u][i \div 2]
      BY <2>9, <2>11, <3>1, <3>2
    <3>5. ~rs[u][i \div 2].busy
      BY <2>9, <2>11, <3>4
    <3>6. RowOf(k) = [unit |-> u, row |-> i \div 2]
      BY <2>10, <2>11, <3>2
    <3> QED BY <3>3, <3>4, <3>5, <3>6
  <2>12. CASE s # "alu"
    BY <2>1, <2>9, <2>10, <2>12
  <2> QED BY <2>11, <2>12
<1> QED BY <1>4, <1>5

(* What is in a station or unit and does not end in a cycle is in one after *)
(* it: no row that is left is given away, none that is busy is given.       *)
LEMMA StationGoes ==
  ASSUME CoreInv, InRing("ls"), ClockEdge, NEW y \in Spots, Held(y), y[1] # "lane", ~Ended(y)
  PROVE  \E x \in Spots : x[1] # "lane" /\ Held(x)' /\ At(x)'.rrftag = At(y).rrftag
<1> USE DEF CoreInv
<1>1. ASSUME NEW u \in Units, NEW i \in 0..(EntNum(u)-1), y = <<u, i>>
      PROVE  \E x \in Spots : x[1] # "lane" /\ Held(x)' /\ At(x)'.rrftag = At(y).rrftag
  <2> DEFINE e == rs[u][i]
  <2>1. At(y) = e /\ e.busy
    BY <1>1, RowSpot
  <2>2. IsEntry(e)
    BY DEF Shapes
  <2>3. ~CheckIsKill(Wires, e)
    BY <2>1 DEF Ended, CheckIsKill
  <2>4. CASE i = Issue(u)
    <3>1. Issue(u) # None
      BY <2>4, StationSize DEF None
    <3> PICK x : x = <<u, Ex>>
      OBVIOUS
    <3>2. ex'[u].full /\ ex'[u].src.rrftag = e.rrftag
      BY <2>2, <2>4, <3>1, ExThen
    <3>3. x \in Spots /\ x[1] # "lane" /\ Held(x)' /\ At(x)' = ex'[u].src
      BY <3>2, SpotIs, ExSpotThen
    <3> QED BY <2>1, <3>2, <3>3
  <2>5. CASE i # Issue(u)
    <3>1. ASSUME Goes, NEW k \in 1..Size, RowOf(k) = [unit |-> u, row |-> i]
          PROVE  FALSE
      <4>1. PICK v \in Units : \E j \in 0..(EntNum(v)-1) :
              RowOf(k) = [unit |-> v, row |-> j] /\ ~rs[v][j].busy
        BY <3>1, RowsFree
      <4>2. PICK j \in 0..(EntNum(v)-1) :
              RowOf(k) = [unit |-> v, row |-> j] /\ ~rs[v][j].busy
        BY <4>1
      <4>3. RowOf(k).unit = u /\ RowOf(k).row = i
        BY <3>1
      <4>4. v = u /\ j = i
        BY <4>2, <4>3
      <4> QED BY <2>1, <4>2, <4>4
    <3>2. rs'[u][i] = Cycled(e, i, u)
      BY <3>1, RowThen
    <3> DEFINE f == Cycled(e, i, u)
    <3>3. f.rrftag = e.rrftag /\ (f.busy <=> e.busy /\ i # Issue(u) /\ ~CheckIsKill(Wires, e))
      <4> HIDE DEF e, f
      <4> QED BY <2>2, EntryCycled DEF f
    <3>4. rs'[u][i].busy /\ rs'[u][i].rrftag = e.rrftag
      BY <2>1, <2>3, <2>5, <3>2, <3>3
    <3> PICK x : x = <<u, i>>
      OBVIOUS
    <3>5. x \in Spots /\ x[1] # "lane" /\ Held(x)' /\ At(x)' = rs'[u][i]
      <4>1. u # "lane" /\ <<u, i>> \in Spots
        BY SpotIs
      <4> QED BY <3>4, <4>1, RowSpotThen
    <3> QED BY <2>1, <3>4, <3>5
  <2> QED BY <2>4, <2>5
<1>2. ASSUME NEW u \in Units, y = <<u, Ex>>
      PROVE  \E x \in Spots : x[1] # "lane" /\ Held(x)' /\ At(x)'.rrftag = At(y).rrftag
  <2>1. u = "ls"
    BY <1>2 DEF Ended
  <2>2. At(y) = ex["ls"].src /\ ex["ls"].full
    BY <1>2, <2>1, ExSpot
  <2>3. ~LsKilled(Wires)
    BY <2>2 DEF Ended, LsKilled, CheckIsKill
  <2>4. CASE LsGoes(Wires)
    <3> PICK x : x = <<"ls", Ls2>>
      OBVIOUS
    <3>1. ls2'.full /\ ls2'.src = ex["ls"].src
      BY <2>4, Ls2Then
    <3>2. x \in Spots /\ x[1] # "lane" /\ Held(x)' /\ At(x)' = ls2'.src
      BY <3>1, SpotIs, Ls2SpotThen
    <3> QED BY <2>2, <3>1, <3>2
  <2>5. CASE ~LsGoes(Wires)
    <3>1. Stays("ls")
      BY <2>2, <2>3, <2>5 DEF Stays
    <3>2. Issue("ls") = None
      BY <1>2, <2>1, <2>2, <2>5, IssueIs
    <3>3. ex'["ls"].full /\ ex'["ls"].src = ex["ls"].src
      BY <1>2, <2>1, <3>1, <3>2, ExThen
    <3> PICK x : x = <<"ls", Ex>>
      OBVIOUS
    <3>4. x \in Spots /\ x[1] # "lane" /\ Held(x)' /\ At(x)' = ex'["ls"].src
      BY <1>2, <2>1, <3>3, SpotIs, ExSpotThen
    <3> QED BY <2>2, <3>3, <3>4
  <2> QED BY <2>4, <2>5
<1>3. y # <<"ls", Ls2>>
  BY DEF Ended
<1>4. \A k : y # <<"lane", k>>
  OBVIOUS
<1> QED BY <1>1, <1>2, <1>3, <1>4, SpotIs

(* What is in flight without a result is in a station or unit.              *)
Placed ==
  \A p \in InFlight : ~rob[p].wbFin =>
    \E x \in Spots : x[1] # "lane" /\ Held(x) /\ At(x).rrftag = p

(* A group that is dispatched is in its rows.                               *)
LEMMA GivenPlace ==
  ASSUME CoreInv, RowsApart, InRing("ls"), ClockEdge, NEW k \in 1..Took
  PROVE  \E x \in Spots : x[1] # "lane" /\ Held(x)' /\ At(x)'.rrftag = Inc(rrf.reqPtr, k-1)
<1> USE DEF CoreInv
<1>1. Goes /\ k \in 1..Size
  <2>1. Goes
    BY DEF Took
  <2> QED BY <2>1 DEF Took
<1>2. PICK u \in Units : \E i \in 0..(EntNum(u)-1) :
        RowOf(k) = [unit |-> u, row |-> i] /\ ~rs[u][i].busy
  BY <1>1, RowsFree
<1>3. PICK i \in 0..(EntNum(u)-1) : RowOf(k) = [unit |-> u, row |-> i]
  BY <1>2
<1>4. PICK l \in 1..Size : RowOf(l) = [unit |-> u, row |-> i] /\ rs'[u][i] = Entry(l, ByPasses)
  BY <1>1, <1>3, RowThen
<1>5. fe.dp
  BY <1>1, GoFacts
<1>6. k \in 1..2 /\ l \in 1..2
  BY <1>1, <1>5, LaneHeld
<1>7. l = k
  <2>1. SUFFICES ASSUME l # k PROVE FALSE
    OBVIOUS
  <2>2. Size = 2 /\ RowOf(1) = RowOf(2)
    BY <1>1, <1>3, <1>4, <1>6, <2>1 DEF Size
  <2> QED BY <1>1, <2>2 DEF RowsApart
<1>8. rs'[u][i].busy /\ rs'[u][i].rrftag = Inc(rrf.reqPtr, k-1)
  BY <1>4, <1>6, <1>7, EntryIs
<1> PICK x : x = <<u, i>>
  OBVIOUS
<1>9. x \in Spots /\ x[1] # "lane" /\ Held(x)' /\ At(x)' = rs'[u][i]
  <2>1. u # "lane" /\ <<u, i>> \in Spots
    BY SpotIs
  <2> QED BY <1>8, <2>1, RowSpotThen
<1> QED BY <1>8, <1>9

(* What a cycle finishes has its result.                                    *)
LEMMA FinishedIs ==
  ASSUME CoreInv, NEW y \in Spots, Held(y), y[1] # "lane", At(y).rrftag \notin WrittenBack
  PROVE  /\ ~(y[1] \in Units \ {"ls"} /\ y[2] = Ex)
         /\ y[2] # Ls2
<1>1. ASSUME NEW u \in Units \ {"ls"}, y = <<u, Ex>> PROVE FALSE
  <2>1. ex[u].full /\ At(y) = ex[u].src
    BY <1>1, ExSpot
  <2>2. u \in Finishing
    BY <2>1 DEF Finishing
  <2>3. ex[u].src.rrftag \in WrittenBack
    BY <2>2 DEF WrittenBack
  <2> QED BY <2>1, <2>3
<1>2. ASSUME y = <<"ls", Ls2>> PROVE FALSE
  <2>1. ls2.full /\ At(y) = ls2.src
    BY <1>2, Ls2Spot
  <2> QED BY <2>1 DEF WrittenBack
<1>3. Ex # Ls2
  BY DEF Ex, Ls2
<1> QED BY <1>1, <1>2, <1>3, SpotIs

(* After a cycle what is in flight without a result is in a station or      *)
(* unit: it was given a row, or was there and has not been taken back.      *)
LEMMA PlacedKept ==
  ASSUME CoreInv, Owned, RowsApart, InRing("ls"), Placed, ClockEdge
  PROVE  Placed'
<1> USE DEF CoreInv
<1>1. SUFFICES ASSUME NEW p \in Ptrs, Age(p)' < Waiting', ~rob'[p].wbFin
               PROVE  \E x \in Spots : x[1] # "lane" /\ Held(x)' /\ At(x)'.rrftag = p
  BY InFlightIs DEF Placed
<1>2. CASE Given(p)
  BY <1>2, GivenPlace DEF Given
<1>3. CASE ~Given(p)
  <2>1. /\ Age(p) < Waiting /\ (Wires.mis => Age(p) <= Age(Wires.rrftag))
    BY <1>1, <1>3, EntryBefore
  <2>2. ~rob[p].wbFin /\ p \notin WrittenBack
    BY <1>1, <1>3, RobThen
  <2>3. PICK y \in Spots : y[1] # "lane" /\ Held(y) /\ At(y).rrftag = p
    BY <2>1, <2>2, InFlightIs DEF Placed
  <2>4. ~(y[1] \in Units \ {"ls"} /\ y[2] = Ex) /\ y[2] # Ls2
    BY <2>2, <2>3, FinishedIs
  <2>5. ASSUME Wires.mis, CheckIsKill(Wires, At(y)) PROVE FALSE
    <3>1. y # LdSpot /\ y # BrSpot
      BY <2>4 DEF LdSpot, BrSpot, Units
    <3>2. AgeAt(BrSpot) < AgeAt(y)
      BY <2>3, <2>5, <3>1, KilledBehind
    <3>3. AgeAt(BrSpot) = Age(Wires.rrftag) /\ BrSpot \in Spots /\ Held(BrSpot)
      BY <2>5, WireFacts, BrSpotIs
    <3>4. AgeAt(y) = Age(p) /\ AgeAt(y) \in Int
      BY <2>3, HeldAge
    <3>5. AgeAt(BrSpot) \in Int
      BY <3>3, HeldAge
    <3> QED BY <2>1, <2>5, <3>2, <3>3, <3>4, <3>5
  <2>6. ~Ended(y)
    BY <2>3, <2>4, <2>5 DEF Ended
  <2> QED BY <2>3, <2>6, StationGoes
<1> QED BY <1>2, <1>3

(* Nothing that is in flight is in two places.                              *)
LEMMA OnlyPlace ==
  ASSUME CoreInv, NEW x \in Spots, Held(x), x[1] # "lane",
         NEW y \in Spots, Held(y), y[1] # "lane", At(x).rrftag = At(y).rrftag
  PROVE  x = y
<1>1. AgeAt(x) = AgeAt(y)
  BY HeldAge
<1> QED BY <1>1 DEF CoreInv, Apart

(* The rows and units that OnePlace counts, as places.                      *)
LEMMA BusyIs ==
  ASSUME CoreInv
  PROVE  /\ \A u \in Units : \A i \in 0..(EntNum(u)-1) : rs[u][i].busy => <<u, i>> \in Busy
         /\ \A x \in Busy : /\ x \in Spots /\ Held(x) /\ x[1] # "lane" /\ At(x) = Row(x)
                            /\ x[2] # Ex /\ x[2] # Ls2
<1> USE DEF CoreInv
<1>1. ASSUME NEW u \in Units, NEW i \in 0..(EntNum(u)-1), rs[u][i].busy
      PROVE  <<u, i>> \in Busy
  <2>1. i \in DOMAIN rs[u]
    BY DEF Shapes
  <2> QED BY <1>1, <2>1 DEF Busy
<1>2. ASSUME NEW x \in Busy
      PROVE  /\ x \in Spots /\ Held(x) /\ x[1] # "lane" /\ At(x) = Row(x)
             /\ x[2] # Ex /\ x[2] # Ls2
  <2>1. PICK u \in Units : x \in {<<u, i>> : i \in {j \in DOMAIN rs[u] : rs[u][j].busy}}
    BY DEF Busy
  <2>2. PICK i \in DOMAIN rs[u] : x = <<u, i>> /\ rs[u][i].busy
    BY <2>1
  <2>3. i \in 0..(EntNum(u)-1) /\ x[1] = u /\ x[2] = i /\ Row(x) = rs[u][i]
    BY <2>2 DEF Shapes, Row
  <2>4. u # "lane" /\ <<u, i>> \in Spots /\ i # Ex /\ i # Ls2
    BY <2>3, SpotIs
  <2>5. Held(x) /\ At(x) = rs[u][i]
    BY <2>2, <2>3, RowSpot
  <2> QED BY <2>2, <2>3, <2>4, <2>5
<1> QED BY <1>1, <1>2

(* The invariants imply OnePlace.                                           *)
LEMMA OnePlaceNow == CoreInv /\ Placed => OnePlace
<1> SUFFICES ASSUME CoreInv, Placed, NEW p \in Ptrs
             PROVE  Cardinality({x \in Busy : Row(x).rrftag = p})
                      + Cardinality({u \in Full : ex[u].src.rrftag = p})
                      + Bit(ls2.full /\ ls2.src.rrftag = p)
                    = Bit(p \in InFlight /\ ~rob[p].wbFin)
  BY DEF OnePlace
<1> USE DEF CoreInv
<1> DEFINE I == {x \in Busy : Row(x).rrftag = p}
           J == {u \in Full : ex[u].src.rrftag = p}
           b == ls2.full /\ ls2.src.rrftag = p
           live == p \in InFlight /\ ~rob[p].wbFin
           Here(x) == x \in Spots /\ Held(x) /\ x[1] # "lane" /\ At(x).rrftag = p
<1>1. \A x : Here(x) => live
  BY DEF Sound
<1>2. \A x, y : Here(x) /\ Here(y) => x = y
  BY OnlyPlace
<1>3. \A x \in I : Here(x) /\ x[2] # Ex /\ x[2] # Ls2
  BY BusyIs
<1>4. \A u \in J : u \in Units /\ Here(<<u, Ex>>)
  BY SpotIs, ExSpot DEF Full
<1>5. b => Here(<<"ls", Ls2>>)
  BY SpotIs, Ls2Spot
<1>6. live => \E x : Here(x)
  BY DEF Placed
<1>7. \A x : Here(x) => \/ x \in I
                        \/ \E u \in J : x = <<u, Ex>>
                        \/ b /\ x = <<"ls", Ls2>>
  <2>1. SUFFICES ASSUME NEW x, Here(x)
                 PROVE  \/ x \in I
                        \/ \E u \in J : x = <<u, Ex>>
                        \/ b /\ x = <<"ls", Ls2>>
    OBVIOUS
  <2>2. ASSUME NEW u \in Units, NEW i \in 0..(EntNum(u)-1), x = <<u, i>> PROVE x \in I
    <3>1. rs[u][i].busy /\ At(x) = rs[u][i]
      BY <2>1, <2>2, RowSpot
    <3>2. x \in Busy
      BY <2>2, <3>1, BusyIs
    <3> QED BY <2>1, <3>2, BusyIs
  <2>3. ASSUME NEW u \in Units, x = <<u, Ex>> PROVE u \in J
    BY <2>1, <2>3, ExSpot DEF Full
  <2>4. ASSUME x = <<"ls", Ls2>> PROVE b
    BY <2>1, <2>4, Ls2Spot
  <2> QED BY <2>1, <2>2, <2>3, <2>4, SpotIs
<1>8. Ex # Ls2
  BY DEF Ex, Ls2
<1>9. Cardinality({}) = 0 /\ \A z : Cardinality({z}) = 1
  BY FS_EmptySet, FS_Singleton
<1> HIDE DEF I, J, b, live, Here
<1>10. CASE ~live
  <2>1. I = {} /\ J = {} /\ ~b
    BY <1>1, <1>3, <1>4, <1>5, <1>10
  <2>2. Cardinality(I) = 0 /\ Cardinality(J) = 0
    BY <1>9, <2>1
  <2>3. Bit(b) = 0 /\ Bit(live) = 0
    BY <1>10, <2>1 DEF Bit
  <2> QED BY <2>2, <2>3 DEF I, J, b, live
<1>11. CASE live
  <2>1. PICK y : Here(y)
    BY <1>6, <1>11
  <2>2. ASSUME y \in I
        PROVE  Cardinality(I) + Cardinality(J) + Bit(b) = Bit(live)
    <3>1. I = {y}
      BY <1>2, <1>3, <2>1, <2>2
    <3>2. y[2] # Ex /\ y[2] # Ls2
      BY <1>3, <2>2
    <3>3. J = {}
      <4>1. SUFFICES ASSUME NEW u \in J PROVE FALSE
        OBVIOUS
      <4>2. y = <<u, Ex>>
        BY <1>2, <1>4, <2>1
      <4> QED BY <3>2, <4>2
    <3>4. ~b
      <4>1. SUFFICES ASSUME b PROVE FALSE
        OBVIOUS
      <4>2. y = <<"ls", Ls2>>
        BY <1>2, <1>5, <2>1, <4>1
      <4> QED BY <3>2, <4>2
    <3>5. Cardinality(I) = 1 /\ Cardinality(J) = 0
      BY <1>9, <3>1, <3>3
    <3>6. Bit(b) = 0 /\ Bit(live) = 1
      BY <1>11, <3>4 DEF Bit
    <3> QED BY <3>5, <3>6
  <2>3. ASSUME NEW u \in J, y = <<u, Ex>>
        PROVE  Cardinality(I) + Cardinality(J) + Bit(b) = Bit(live)
    <3>1. y[1] = u /\ y[2] = Ex
      BY <2>3
    <3>2. I = {}
      <4>1. SUFFICES ASSUME NEW x \in I PROVE FALSE
        OBVIOUS
      <4>2. x = y /\ x[2] # Ex
        BY <1>2, <1>3, <2>1
      <4> QED BY <3>1, <4>2
    <3>3. J = {u}
      <4>1. SUFFICES ASSUME NEW v \in J PROVE v = u
        BY <2>3
      <4>2. <<v, Ex>> = y
        BY <1>2, <1>4, <2>1
      <4> QED BY <2>3, <4>2
    <3>4. ~b
      <4>1. SUFFICES ASSUME b PROVE FALSE
        OBVIOUS
      <4>2. y = <<"ls", Ls2>>
        BY <1>2, <1>5, <2>1, <4>1
      <4> QED BY <1>8, <3>1, <4>2
    <3>5. Cardinality(I) = 0 /\ Cardinality(J) = 1
      BY <1>9, <3>2, <3>3
    <3>6. Bit(b) = 0 /\ Bit(live) = 1
      BY <1>11, <3>4 DEF Bit
    <3> QED BY <3>5, <3>6
  <2>4. ASSUME b, y = <<"ls", Ls2>>
        PROVE  Cardinality(I) + Cardinality(J) + Bit(b) = Bit(live)
    <3>1. y[2] = Ls2
      BY <2>4
    <3>2. I = {}
      <4>1. SUFFICES ASSUME NEW x \in I PROVE FALSE
        OBVIOUS
      <4>2. x = y /\ x[2] # Ls2
        BY <1>2, <1>3, <2>1
      <4> QED BY <3>1, <4>2
    <3>3. J = {}
      <4>1. SUFFICES ASSUME NEW u \in J PROVE FALSE
        OBVIOUS
      <4>2. y = <<u, Ex>>
        BY <1>2, <1>4, <2>1
      <4> QED BY <1>8, <3>1, <4>2
    <3>4. Cardinality(I) = 0 /\ Cardinality(J) = 0
      BY <1>9, <3>2, <3>3
    <3>5. Bit(b) = 1 /\ Bit(live) = 1
      BY <1>11, <2>4 DEF Bit
    <3> QED BY <3>4, <3>5
  <2>5. y \in I \/ (\E u \in J : y = <<u, Ex>>) \/ (b /\ y = <<"ls", Ls2>>)
    BY <1>7, <2>1
  <2>6. Cardinality(I) + Cardinality(J) + Bit(b) = Bit(live)
    BY <2>2, <2>3, <2>4, <2>5
  <2> QED BY <2>6 DEF I, J, b, live
<1> QED BY <1>10, <1>11

(* Where every instruction is; the loads and stores in the order of ages.   *)
PlaceInv == InRing("ls") /\ Placed

(* A reset leaves nothing in flight.                                        *)
LEMMA FreshIsPlaced == Fresh => PlaceInv
<1> SUFFICES ASSUME Fresh PROVE PlaceInv
  OBVIOUS
<1>1. CoreInv
  BY FreshIs
<1>2. "ls" \in Units /\ "ls" \in InOrder /\ EntNum("ls") \in Nat \ {0}
  BY StationSize DEF Units, InOrder
<1>3. InRing("ls")
  <2>1. RowsIn("ls") = {}
    <3>1. \A i \in 0..(EntNum("ls")-1) : ~rs["ls"][i].busy
      BY <1>2, BlankIs DEF Fresh, RsReset
    <3> QED BY <3>1 DEF RowsIn
  <2>2. alloc["ls"] \in 0..(EntNum("ls")-1)
    BY <1>1, <1>2 DEF CoreInv, Shapes
  <2> QED BY <1>2, <2>1, <2>2 DEF InRing, RingAge
<1>4. InFlight = {}
  <2>1. rrf.freenum = RRF_NUM
    BY DEF Fresh, RrfReset
  <2>2. \A p \in Ptrs : ~(Age(p) < Waiting)
    <3>1. Waiting = 0
      BY <1>1, <2>1, RingFacts, RingSize DEF CoreInv
    <3> QED BY <1>1, <3>1, AgeIs, RingSize DEF CoreInv
  <2> QED BY <2>2, InFlightIs
<1> QED BY <1>3, <1>4 DEF PlaceInv, Placed

(* The same of the state after a step.                                      *)
LEMMA FreshIsPlacedThen == Fresh' => PlaceInv'
BY FreshIsPlaced, PTL

(* The invariant holds when the bench starts.                               *)
LEMMA PlaceInitOk == CompareInit => PlaceInv
<1> SUFFICES ASSUME CompareInit PROVE PlaceInv
  OBVIOUS
<1>1. Fresh
  BY BlankIs DEF CompareInit, Init, Fresh, RrfReset, RobReset, RobFields
<1> QED BY <1>1, FreshIsPlaced

(* A step of the bench keeps it, as long as rows are given once.            *)
LEMMA PlaceNextOk ==
  CoreInv /\ OwnInv /\ RowsApart /\ PlaceInv /\ [CompareNext]_compareVars => PlaceInv'
<1> SUFFICES ASSUME CoreInv, OwnInv, RowsApart, PlaceInv, [CompareNext]_compareVars
             PROVE  PlaceInv'
  OBVIOUS
<1>1. Owned /\ InRing("ls") /\ Placed
  BY DEF OwnInv, PlaceInv
<1>2. ASSUME ClockEdge PROVE PlaceInv'
  BY <1>1, <1>2, LsOrderKept, PlacedKept DEF PlaceInv
<1>3. ASSUME Starts PROVE PlaceInv'
  <2>1. PICK data : Becomes(Started(CoreNext(Settled), data))
    BY <1>3 DEF Starts
  <2>2. Fresh'
    BY <2>1, StartIs
  <2> QED BY <2>2, FreshIsPlacedThen
<1>4. ASSUME UNCHANGED vars PROVE PlaceInv'
  <2>1. /\ fe' = fe /\ rrf' = rrf /\ rob' = rob /\ comPtr' = comPtr /\ rs' = rs
        /\ alloc' = alloc /\ ex' = ex /\ ls2' = ls2
    BY <1>4 DEF vars
  <2>2. Waiting' = Waiting /\ \A p : Age(p)' = Age(p)
    BY <2>1 DEF Waiting, Rem, RoundOver, Age
  <2>3. InFlight' = InFlight
    BY <2>1, <2>2 DEF InFlight, Waiting
  <2>4. \A k : Lane(k)' = Lane(k)
    BY <2>1 DEF Lane
  <2>5. Size' = Size
    BY <2>1 DEF Size
  <2>6. \A x : Held(x)' = Held(x) /\ At(x)' = At(x)
    BY <2>1, <2>4, <2>5 DEF Held, At
  <2>7. Placed'
    BY <1>1, <2>1, <2>3, <2>6 DEF Placed
  <2>8. InRing("ls")'
    BY <1>1, <2>1, <2>2 DEF InRing, RowsIn, AgesIn, Age
  <2> QED BY <2>7, <2>8 DEF PlaceInv
<1> QED BY <1>2, <1>3, <1>4, CoreSteps

(* A dispatched instruction that has no result is in exactly one place, a    *)
(* row, a unit or the second memory stage, in every size, program and        *)
(* workload, until a group whose two instructions are offered one row, the   *)
(* last of a station, is dispatched (orsv.h:57), or a store that cannot go   *)
(* on misses a success (rsv.h:64).                                           *)
THEOREM NothingIsLost == CompareSpec /\ []StoresGoOn /\ []RowsApart => []OnePlace
<1>1. CompareSpec /\ []StoresGoOn => []OwnInv
  BY OwnInitOk, OwnNextOk, CoreIsRight, TypesKept, PTL DEF CompareSpec
<1>2. CompareSpec /\ []StoresGoOn /\ []RowsApart => []PlaceInv
  BY <1>1, PlaceInitOk, PlaceNextOk, CoreIsRight, PTL DEF CompareSpec
<1>3. PlaceInv => Placed
  BY DEF PlaceInv
<1> QED BY <1>2, <1>3, CoreIsRight, OnePlaceNow, PTL

(* The station that both instructions of a group go to, the two adders being *)
(* one table, has two free rows.                                             *)
TableOf(s) == IF s = "alu" THEN AluTable ELSE rs[s]

RoomForTwo ==
  Goes /\ Size = 2 /\ Lane(1).rsEnt = Lane(2).rsEnt =>
    LET t == TableOf(Lane(1).rsEnt)
    IN  \E i, j \in DOMAIN t : i # j /\ ~t[i].busy /\ ~t[j].busy

(* What the two lanes of a group are offered by one station.                *)
LEMMA OneKind ==
  ASSUME CoreInv, Goes, Size = 2, Lane(1).rsEnt = Lane(2).rsEnt, NEW s, s = Lane(1).rsEnt
  PROVE  /\ s \in Stations /\ fe.dcd1.rsEnt = s
         /\ ~Offer(s)[1].busy /\ ~Offer(s)[2].busy
         /\ s \in InOrder => RowOf(1).row = Offer(s)[1].idx /\ RowOf(2).row = Offer(s)[2].idx
<1> USE DEF CoreInv
<1>1. fe.dp /\ 1 \in 1..Size /\ 2 \in 1..Size /\ \A u \in Stations : Allocatable(u)
  BY GoFacts
<1>2. ~Lane(1).invalid /\ ~Lane(2).invalid
  BY <1>1, LaneHeld
<1>3. s \in Stations /\ fe.dcd1.rsEnt = s
  BY <1>2 DEF FrontOk, IsLane, Lane, Stations
<1>4. Required(s, 1) /\ Required(s, 2) /\ Allocatable(s)
  BY <1>1, <1>2, <1>3 DEF Required
<1>5. ~Offer(s)[1].busy /\ ~Offer(s)[2].busy
  BY <1>4 DEF Allocatable, Bit
<1>6. ASSUME s \in InOrder
      PROVE  RowOf(1).row = Offer(s)[1].idx /\ RowOf(2).row = Offer(s)[2].idx
  <2>1. s # "alu"
    BY <1>6 DEF InOrder
  <2> QED BY <1>3, <2>1 DEF RowOf
<1> QED BY <1>3, <1>5, <1>6

(* A table in which any free row may be taken offers two rows exactly if two *)
(* are free.                                                                 *)
LEMMA TwoRows ==
  ASSUME NEW t, NEW n, Table(t, n), NEW one, one = FreeIndex(t, None),
         NEW two, two = FreeIndex(t, one.idx), ~one.busy, ~two.busy
  PROVE  one.idx # two.idx <=> \E i, j \in DOMAIN t : i # j /\ ~t[i].busy /\ ~t[j].busy
<1>1. DOMAIN t = 0..(n-1)
  BY DEF Table
<1>2. /\ one.idx \in 0..(n-1) /\ one.busy = t[one.idx].busy
      /\ two.idx \in 0..(n-1) /\ two.busy = t[two.idx].busy
  BY TwoOffers
<1>3. (\E i \in 0..(n-1) : ~t[i].busy /\ i # one.idx) => two.idx # one.idx
  BY FreeIndexIs
<1> QED BY <1>1, <1>2, <1>3

(* Two lanes for one station that does not issue in order.                  *)
LEMMA AnyRows ==
  ASSUME CoreInv, Goes, Size = 2, NEW s \in {"alu", "mul"}, Lane(1).rsEnt = s, Lane(2).rsEnt = s
  PROVE  RowOf(1) # RowOf(2) <=>
           LET t == TableOf(s) IN \E i, j \in DOMAIN t : i # j /\ ~t[i].busy /\ ~t[j].busy
<1> USE DEF CoreInv
<1> DEFINE t == TableOf(s)
           n == IF s = "alu" THEN 2 * ALU_ENT_NUM ELSE MUL_ENT_NUM
           one == FreeIndex(t, None)
           two == FreeIndex(t, one.idx)
           place(i) == IF s = "alu" THEN [unit |-> IF i % 2 = 1 THEN "alu2" ELSE "alu1",
                                          row |-> i \div 2]
                                    ELSE [unit |-> s, row |-> i]
<1>1. Table(t, n)
  <2>1. "mul" \in Units /\ EntNum("mul") = MUL_ENT_NUM
    BY DEF Units, EntNum
  <2> QED BY <2>1, AluTableIs, StationTable DEF TableOf
<1>2. Offer(s) = <<one, two>>
  BY DEF Offer, InOrder, TableOf
<1>3. ~one.busy /\ ~two.busy /\ fe.dcd1.rsEnt = s
  <2> HIDE DEF one, two
  <2> QED BY <1>2, OneKind
<1>4. one.idx \in 0..(n-1) /\ two.idx \in 0..(n-1)
  <2> HIDE DEF t, n
  <2> QED BY <1>1, TwoOffers
<1>5. one.idx # two.idx <=> \E i, j \in DOMAIN t : i # j /\ ~t[i].busy /\ ~t[j].busy
  <2> HIDE DEF t, n
  <2> QED BY <1>1, <1>3, TwoRows
<1>6. RowOf(1) = place(one.idx) /\ RowOf(2) = place(two.idx)
  <2> HIDE DEF one, two
  <2> QED BY <1>2, <1>3 DEF RowOf
<1>7. ASSUME NEW i \in 0..(n-1), NEW j \in 0..(n-1), place(i) = place(j)
      PROVE  i = j
  <2>1. i \in Nat /\ j \in Nat
    BY <1>1 DEF Table, PowerOfTwo
  <2>2. CASE s = "alu"
    <3>1. place(i).row = i \div 2 /\ place(j).row = j \div 2
          /\ place(i).unit = (IF i % 2 = 1 THEN "alu2" ELSE "alu1")
          /\ place(j).unit = (IF j % 2 = 1 THEN "alu2" ELSE "alu1")
      BY <2>2
    <3>2. i \div 2 = j \div 2 /\ (i % 2 = 1 <=> j % 2 = 1)
      BY <1>7, <3>1
    <3> QED BY <2>1, <3>2
  <2>3. CASE s # "alu"
    BY <1>7, <2>3
  <2> QED BY <2>2, <2>3
<1>8. RowOf(1) # RowOf(2) <=> one.idx # two.idx
  <2> HIDE DEF one, two, place, n, t
  <2> QED BY <1>4, <1>6, <1>7
<1> HIDE DEF one, two, t
<1> QED BY <1>5, <1>8 DEF t

(* Two lanes for one station that issues in order.                          *)
LEMMA OrderedRows ==
  ASSUME CoreInv, Goes, Size = 2, NEW s \in InOrder, Lane(1).rsEnt = s, Lane(2).rsEnt = s
  PROVE  RowOf(1) # RowOf(2) <=>
           LET t == TableOf(s) IN \E i, j \in DOMAIN t : i # j /\ ~t[i].busy /\ ~t[j].busy
<1> USE DEF CoreInv
<1> DEFINE t == TableOf(s)
           n == EntNum(s)
           a == alloc[s]
           b == Round1(a, n)
<1>1. s \in Units /\ s # "alu" /\ n \in Nat \ {0} /\ t = rs[s] /\ DOMAIN t = 0..(n-1)
  <2>1. s \in Units /\ s # "alu"
    BY DEF InOrder, Units
  <2> QED BY <2>1, StationSize, StationTable DEF Table, TableOf
<1>2. /\ a \in 0..(n-1) /\ b \in 0..(n-1)
      /\ Offer(s)[1].busy = t[a].busy /\ Offer(s)[1].idx = a
      /\ Offer(s)[2].busy = t[b].busy /\ Offer(s)[2].idx = b
  BY <1>1, OfferIs
<1>3. ~t[a].busy /\ ~t[b].busy /\ fe.dcd1.rsEnt = s
  BY <1>2, OneKind
<1>4. RowOf(1) = [unit |-> s, row |-> a] /\ RowOf(2) = [unit |-> s, row |-> b]
  <2>1. 1 \in 1..2 /\ 2 \in 1..2
    OBVIOUS
  <2> QED BY <1>3, <2>1, RowOfIs
<1>5. (\E i, j \in 0..(n-1) : i # j) => a # b
  <2> HIDE DEF a, n
  <2> QED BY <1>1, <1>2 DEF Round1
<1> HIDE DEF t, a, b, n
<1>6. (\E i, j \in DOMAIN t : i # j /\ ~t[i].busy /\ ~t[j].busy) <=> a # b
  BY <1>1, <1>2, <1>3, <1>5
<1>7. RowOf(1) # RowOf(2) <=> a # b
  BY <1>4
<1> QED BY <1>6, <1>7 DEF t

LEMMA RowsApartIs ==
  ASSUME CoreInv
  PROVE  RowsApart <=> RoomForTwo
<1> USE DEF CoreInv
<1>1. SUFFICES ASSUME Goes, Size = 2
               PROVE  RowOf(1) # RowOf(2) <=> RoomForTwo
  BY DEF RowsApart, RoomForTwo
<1>2. fe.dp /\ 1 \in 1..Size /\ 2 \in 1..Size
  BY <1>1, GoFacts
<1>3. ~Lane(1).invalid /\ ~Lane(2).invalid
  BY <1>2, LaneHeld
<1> DEFINE s == Lane(1).rsEnt
<1>4. s \in {"alu", "mul", "br", "ls"} /\ Lane(2).rsEnt \in {"alu", "mul", "br", "ls"}
  BY <1>3 DEF FrontOk, IsLane, Lane, Stations
<1>5. CASE Lane(2).rsEnt # s
  <2>1. ASSUME NEW k \in 1..2
        PROVE  \/ Lane(k).rsEnt # "alu" /\ RowOf(k).unit = Lane(k).rsEnt
               \/ Lane(k).rsEnt = "alu" /\ RowOf(k).unit \in {"alu1", "alu2"}
    BY DEF RowOf
  <2>2. RowOf(1).unit # RowOf(2).unit
    BY <1>4, <1>5, <2>1
  <2> QED BY <1>5, <2>2 DEF RoomForTwo
<1>6. CASE Lane(2).rsEnt = s
  <2>1. RoomForTwo <=> \E i, j \in DOMAIN TableOf(s) :
                          i # j /\ ~TableOf(s)[i].busy /\ ~TableOf(s)[j].busy
    BY <1>1, <1>6 DEF RoomForTwo
  <2>2. CASE s \in {"alu", "mul"}
    BY <1>1, <1>6, <2>1, <2>2, AnyRows
  <2>3. CASE s \in {"br", "ls"}
    <3>1. s \in InOrder
      BY <2>3 DEF InOrder
    <3> QED BY <1>1, <1>6, <2>1, <3>1, OrderedRows
  <2> QED BY <1>4, <2>2, <2>3
<1> QED BY <1>5, <1>6

(* Of every group that is dispatched both instructions get a row of their    *)
(* own, in every size, program and workload, except for two of one kind of   *)
(* which the station has only one row free: this one is offered twice        *)
(* (orsv.h:57).  The condition of NothingIsLost leaves out nothing else.     *)
THEOREM RowsGivenOnce == CompareSpec => [](RowsApart <=> RoomForTwo)
BY CoreIsRight, RowsApartIs, PTL
===============================================================================
