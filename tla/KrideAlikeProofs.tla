--------------------------- MODULE KrideAlikeProofs ---------------------------
(***************************************************************************)
(* The bench of the Kride core reports no workload without a cause.  Two   *)
(* cores that run the same program stay alike: they differ only in what is *)
(* read no more (rename registers that are not valid, rows of the store    *)
(* buffer that are free, entries of the reorder buffer that are not in     *)
(* flight), which is what the reset of a workload leaves different.        *)
(***************************************************************************)
EXTENDS KrideProofs

-----------------------------------------------------------------------------

(* The operators below are instantiated twice, with the registers of the    *)
(* master and with those of the slave.  Those that compute with their       *)
(* arguments only are the same operators; first those of the tags.          *)
LEMMA SameTagOps ==
  /\ \A g, x, y : Ride!IsAllGenble(g, x, y) = IsAllGenble(g, x, y)
  /\ \A g, x, y : Ride!Allocate(g, x, y) = Allocate(g, x, y)
  /\ \A g, t : Ride!TagSucPred(g, t) = TagSucPred(g, t)
  /\ \A g, t : Ride!TagMisPred(g, t) = TagMisPred(g, t)
  /\ \A w, e : Ride!CheckIsKill(w, e) = CheckIsKill(w, e)
  /\ \A w, e : Ride!CheckIsSuc(w, e) = CheckIsSuc(w, e)
<1>1. \A g, x, y : Ride!IsAllGenble(g, x, y) = IsAllGenble(g, x, y)
  BY DEF Ride!IsAllGenble, IsAllGenble, Ride!Bit, Bit
<1>2. \A g, x, y : Ride!Allocate(g, x, y) = Allocate(g, x, y)
  BY DEF Ride!Allocate, Ride!AddNew, Ride!GenTag2, Ride!GenTag1, Ride!TagAfter,
         Ride!SPECTAG_LEN, Ride!Tags, Ride!Bit,
         Allocate, AddNew, GenTag2, GenTag1, TagAfter, SPECTAG_LEN, Tags, Bit
<1>3. \A g, t : Ride!TagSucPred(g, t) = TagSucPred(g, t)
  BY DEF Ride!TagSucPred, Ride!Tags, Ride!SPECTAG_LEN, TagSucPred, Tags, SPECTAG_LEN
<1>4. \A g, t : Ride!TagMisPred(g, t) = TagMisPred(g, t)
  BY DEF Ride!TagMisPred, Ride!TagReset, Ride!TagBefore, Ride!Tags, Ride!SPECTAG_LEN,
         TagMisPred, TagReset, TagBefore, Tags, SPECTAG_LEN
<1>5. \A w, e : Ride!CheckIsKill(w, e) = CheckIsKill(w, e)
  BY DEF Ride!CheckIsKill, CheckIsKill
<1>6. \A w, e : Ride!CheckIsSuc(w, e) = CheckIsSuc(w, e)
  BY DEF Ride!CheckIsSuc, CheckIsSuc
<1> QED BY <1>1, <1>2, <1>3, <1>4, <1>5, <1>6

(* Both cores choose the same row of the same table.                        *)
LEMMA SameReduce ==
  \A q, t : Ride!Reduce(q, t) = Reduce(q, t)
<1>1. \A q, up : Ride!MuxPairs(q, up) = MuxPairs(q, up)
  BY DEF Ride!MuxPairs, Ride!SelectLeft, Ride!Ready, Ride!BusyAfter, Ride!Older, Ride!Newer,
         Ride!Rows, Ride!Cardinality, MuxPairs, SelectLeft, Ready, BusyAfter, Older, Newer,
         Rows, Cardinality
<1>2. \A q, up : Ride!NextLevel(q, up) = NextLevel(q, up)
  BY <1>1 DEF Ride!NextLevel, Ride!Rows, Ride!Cardinality, NextLevel, Rows, Cardinality
<1>3. \A q, t : Ride!Levels(q, t) = Levels(q, t)
  BY DEF Ride!Levels, Ride!NextLevel, Ride!MuxPairs, Ride!SelectLeft, Ride!Ready,
         Ride!BusyAfter, Ride!Older, Ride!Newer, Ride!Rows, Ride!Cardinality, Ride!Node,
         Levels, NextLevel, MuxPairs, SelectLeft, Ready,
         BusyAfter, Older, Newer, Rows, Cardinality, Node
<1> QED BY <1>3 DEF Ride!Reduce, Ride!Rows, Ride!Cardinality, Reduce, Rows, Cardinality

(* The reservation stations of both cores do the same with the same rows.   *)
LEMMA SameRsvOps ==
  /\ \A t, a : Ride!IIssue(t, a) = IIssue(t, a)
  /\ \A u, t : Ride!OIssue(u, t) = OIssue(u, t)
  /\ \A t, w, b, i, n, s : Ride!RsvCycle(t, w, b, i, n, s) = RsvCycle(t, w, b, i, n, s)
  /\ \A t, a, k : Ride!AllocMisPred(t, a, k) = AllocMisPred(t, a, k)
  /\ \A t, x : Ride!FreeIndex(t, x) = FreeIndex(t, x)
  /\ \A t, v, o, k : Ride!SearchIdx(t, v, o, k) = SearchIdx(t, v, o, k)
<1>a. \A t, v, o, k : Ride!SearchIdx(t, v, o, k) = SearchIdx(t, v, o, k)
  BY SameReduce DEF Ride!SearchIdx, Ride!BusyAfter, SearchIdx, BusyAfter
<1>b. /\ \A t, i : Ride!Wrap(t, i) = Wrap(t, i)
      /\ \A t, f, l : Ride!RoundTheEnd(t, f, l) = RoundTheEnd(t, f, l)
      /\ Ride!None = None
      /\ \A e : Ride!Ready(e) = Ready(e)
  BY DEF Ride!Wrap, Wrap, Ride!RoundTheEnd, RoundTheEnd, Ride!Rows, Ride!Cardinality,
         Rows, Cardinality, Ride!None, None, Ride!Ready, Ready
<1>1. \A t, a : Ride!IIssue(t, a) = IIssue(t, a)
  <2>1. \A t, a : Ride!CheckIdx(t, a) = CheckIdx(t, a)
    BY <1>a, <1>b DEF Ride!CheckIdx, CheckIdx
  <2> QED BY <2>1, <1>b DEF Ride!IIssue, IIssue
<1>2. \A u, t : Ride!OIssue(u, t) = OIssue(u, t)
  BY SameReduce, <1>b DEF Ride!OIssue, OIssue
<1>3. \A t, w, b, i, n, s : Ride!RsvCycle(t, w, b, i, n, s) = RsvCycle(t, w, b, i, n, s)
  BY DEF Ride!RsvCycle, Ride!Wake, Ride!Served, Ride!ValueOf, Ride!CheckIsSuc, Ride!CheckIsKill,
         RsvCycle, Wake, Served, ValueOf, CheckIsSuc, CheckIsKill
<1>4. \A t, a, k : Ride!AllocMisPred(t, a, k) = AllocMisPred(t, a, k)
  <2> SUFFICES ASSUME NEW t, NEW a, NEW k
               PROVE  Ride!AllocMisPred(t, a, k) = AllocMisPred(t, a, k)
    OBVIOUS
  <2>1. /\ \A v, o : Ride!SearchIdx(t, v, o, k) = SearchIdx(t, v, o, k)
        /\ Ride!Wrap(t, 1) = Wrap(t, 1)
        /\ LET e1 == SearchIdx(t, TRUE, "last", k)
           IN  Ride!Wrap(t, e1.idx + 1) = Wrap(t, e1.idx + 1)
    BY <1>a, <1>b
  <2> QED BY <2>1, <1>b DEF Ride!AllocMisPred, AllocMisPred
<1>5. \A t, x : Ride!FreeIndex(t, x) = FreeIndex(t, x)
  BY SameReduce DEF Ride!FreeIndex, FreeIndex
<1> QED BY <1>a, <1>1, <1>2, <1>3, <1>4, <1>5

(* The fields of a row of the store buffer.                                 *)
StoreParts == {"busy", "complete", "spec", "specTag", "mem_addr", "data"}

(* Alike: the front end, the stations and what else the reset clears are    *)
(* equal;                                                                   *)
SameParts ==
  /\ ride.fe = fe /\ ride.tg = tg /\ ride.arf = arf /\ ride.comPtr = comPtr
  /\ ride.rs = rs /\ ride.alloc = alloc /\ ride.ex = ex /\ ride.dmem = dmem

(* a rename register holds the same if it is valid;                         *)
RrfAlike(q, r) ==
  /\ r.valid = q.valid /\ r.freenum = q.freenum /\ r.reqPtr = q.reqPtr
  /\ r.nextRrfCycle = q.nextRrfCycle
  /\ \A p \in Ptrs : q.valid[p] => r.data[p] = q.data[p]

(* the reorder buffers hold the same where something is in flight;          *)
RobAlike(b, c) ==
  \A p \in Ptrs : /\ c[p].wbFin = b[p].wbFin /\ c[p].isBranch = b[p].isBranch
                  /\ p \in InFlight => c[p] = b[p]

(* the second memory stage holds the same if it is full;                    *)
Ls2Alike(l, k) ==
  /\ k.full = l.full
  /\ l.full => k.src = l.src /\ k.hit = l.hit /\ (l.hit => k.data = l.data)

(* the store buffers hold the same in busy rows, the same addresses in all; *)
StoresAlike(s, t) ==
  /\ t.finPtr = s.finPtr /\ t.comPtr = s.comPtr /\ t.retPtr = s.retPtr
  /\ \A i \in StRows :
       /\ t.ent[i].busy = s.ent[i].busy /\ t.ent[i].complete = s.ent[i].complete
       /\ t.ent[i].mem_addr = s.ent[i].mem_addr
       /\ s.ent[i].busy => t.ent[i] = s.ent[i]

(* the memory gets the same command, and the same data if it is a write.    *)
CmdAlike(c, d) == d.we = c.we /\ d.addr = c.addr /\ (c.we => d.data = c.data)

(* The master and the slave are alike.                                      *)
Alike ==
  /\ SameParts /\ RrfAlike(rrf, ride.rrf) /\ RobAlike(rob, ride.rob)
  /\ Ls2Alike(ls2, ride.ls2) /\ StoresAlike(sb, ride.sb) /\ CmdAlike(cmd, ride.cmd)

(* So do the decoder, the arithmetic, and the sets the code works with.     *)
LEMMA SamePureOps ==
  /\ \A a, b : Ride!Plus(a, b) = Plus(a, b)
  /\ \A o, a, b : Ride!Alu(o, a, b) = Alu(o, a, b)
  /\ \A e : Ride!CalAddr(e) = CalAddr(e)
  /\ \A e : Ride!SrcA(e) = SrcA(e) /\ Ride!SrcB(e) = SrcB(e)
  /\ \A p, n : Ride!Inc(p, n) = Inc(p, n)
  /\ \A i, v, p : Ride!Decode(i, v, p) = Decode(i, v, p)
  /\ \A l, r : Ride!Interleave(l, r) = Interleave(l, r)
  /\ \A b : Ride!Bit(b) = Bit(b)
  /\ Ride!InOrder = InOrder /\ Ride!Units = Units /\ Ride!Ptrs = Ptrs /\ Ride!None = None
  /\ Ride!StRows = StRows /\ Ride!Master = Master /\ Ride!Stations = Stations
<1>1. \A a, b : Ride!Plus(a, b) = Plus(a, b)
  BY DEF Ride!Plus, Plus
<1>2. \A o, a, b : Ride!Alu(o, a, b) = Alu(o, a, b)
  BY DEF Ride!Alu, Alu, Ride!Plus, Plus
<1>3. \A e : Ride!CalAddr(e) = CalAddr(e)
  BY DEF Ride!CalAddr, CalAddr, Ride!Alu, Alu, Ride!Plus, Plus
<1>4. \A e : Ride!SrcA(e) = SrcA(e) /\ Ride!SrcB(e) = SrcB(e)
  BY DEF Ride!SrcA, SrcA, Ride!SrcB, SrcB
<1>5. \A p, n : Ride!Inc(p, n) = Inc(p, n)
  BY DEF Ride!Inc, Inc
<1>6. \A i, v, p : Ride!Decode(i, v, p) = Decode(i, v, p)
  BY DEF Ride!Decode, Decode, Ride!AluOp, AluOp, Ride!Station, Station, Ride!Branch, Branch,
         Ride!Arith, Arith
<1>7. \A l, r : Ride!Interleave(l, r) = Interleave(l, r)
  BY DEF Ride!Interleave, Interleave, Ride!Rows, Rows, Ride!Cardinality, Cardinality
<1>8. \A b : Ride!Bit(b) = Bit(b)
  BY DEF Ride!Bit, Bit
<1>9. /\ Ride!InOrder = InOrder /\ Ride!Units = Units /\ Ride!Ptrs = Ptrs /\ Ride!None = None
      /\ Ride!StRows = StRows /\ Ride!Master = Master /\ Ride!Stations = Stations
  BY DEF Ride!InOrder, InOrder, Ride!Units, Units, Ride!Ptrs, Ptrs, Ride!None, None,
         Ride!StRows, StRows, Ride!Master, Master, Ride!Stations, Stations
<1> QED BY <1>1, <1>2, <1>3, <1>4, <1>5, <1>6, <1>7, <1>8, <1>9

(* Equal front ends and stages make the same wires.                         *)
LEMMA SameWires ==
  ASSUME SameParts
  PROVE  /\ Ride!Wires = Wires
         /\ \A u : Ride!Result(u) = Result(u)
         /\ Ride!Finishing = Finishing
         /\ Ride!EffAddr = EffAddr /\ Ride!IsLoad = IsLoad
         /\ \A w : Ride!LsKilled(w) = LsKilled(w)
<1>1. Ride!Wires = Wires
  BY SamePureOps DEF Ride!Wires, Wires, SameParts
<1>2. \A u : Ride!Result(u) = Result(u)
  BY SamePureOps DEF Ride!Result, Result, SameParts
<1>3. Ride!Finishing = Finishing
  BY SamePureOps DEF Ride!Finishing, Finishing, SameParts
<1>4. Ride!EffAddr = EffAddr /\ Ride!IsLoad = IsLoad
  BY SamePureOps DEF Ride!EffAddr, EffAddr, Ride!IsLoad, IsLoad, SameParts
<1>5. \A w : Ride!LsKilled(w) = LsKilled(w)
  BY SameTagOps DEF Ride!LsKilled, LsKilled, SameParts
<1> QED BY <1>1, <1>2, <1>3, <1>4, <1>5

(* Equal dispatch stages offer the lanes the same rows of the stations.     *)
LEMMA SameLanes ==
  ASSUME SameParts
  PROVE  /\ \A k : Ride!Lane(k) = Lane(k)
         /\ Ride!Size = Size
         /\ Ride!AluTable = AluTable
         /\ \A s : Ride!Offer(s) = Offer(s)
         /\ \A s, k : Ride!Required(s, k) = Required(s, k)
         /\ \A s : Ride!Allocatable(s) = Allocatable(s)
         /\ \A k : Ride!RowOf(k) = RowOf(k)
         /\ \A k : Ride!RobEntry(k) = RobEntry(k)
<1>1. \A k : Ride!Lane(k) = Lane(k)
  BY DEF Ride!Lane, Lane, SameParts
<1>2. Ride!Size = Size
  BY DEF Ride!Size, Size, SameParts
<1>3. Ride!AluTable = AluTable
  BY SamePureOps DEF Ride!AluTable, AluTable, SameParts
<1>4. \A s : Ride!Offer(s) = Offer(s)
  <2> SUFFICES ASSUME NEW s PROVE Ride!Offer(s) = Offer(s)
    OBVIOUS
  <2>1. \A t, i : Ride!Wrap(t, i) = Wrap(t, i)
    BY DEF Ride!Wrap, Wrap, Ride!Rows, Rows, Ride!Cardinality, Cardinality
  <2> QED BY <1>3, <2>1, SamePureOps, SameRsvOps DEF Ride!Offer, Offer, SameParts
<1>5. \A s, k : Ride!Required(s, k) = Required(s, k)
  BY <1>1 DEF Ride!Required, Required
<1>6. \A s : Ride!Allocatable(s) = Allocatable(s)
  BY <1>4, <1>5, SamePureOps DEF Ride!Allocatable, Allocatable
<1>7. \A k : Ride!RowOf(k) = RowOf(k)
  BY <1>1, <1>4 DEF Ride!RowOf, RowOf, SameParts
<1>8. \A k : Ride!RobEntry(k) = RobEntry(k)
  BY <1>1 DEF Ride!RobEntry, RobEntry
<1> QED BY <1>1, <1>2, <1>3, <1>4, <1>5, <1>6, <1>7, <1>8

(* Equal front ends fetch and decode the same.                              *)
LEMMA SameFront ==
  ASSUME SameParts
  PROVE  /\ Ride!Dcw1 = Dcw1 /\ Ride!Dcw2 = Dcw2
         /\ \A w, d : Ride!Decodes(w, d) = Decodes(w, d)
         /\ \A w, d : Ride!Fetches(w, d) = Fetches(w, d)
         /\ \A w, f, d, g : Ride!FrontNext(w, f, d, g) = FrontNext(w, f, d, g)
<1>1. Ride!Dcw1 = Dcw1 /\ Ride!Dcw2 = Dcw2
  BY SamePureOps DEF Ride!Dcw1, Dcw1, Ride!Dcw2, Dcw2, SameParts
<1>2. \A w, d : Ride!Decodes(w, d) = Decodes(w, d)
  BY <1>1, SameTagOps DEF Ride!Decodes, Decodes, SameParts
<1>3. \A w, d : Ride!Fetches(w, d) = Fetches(w, d)
  BY DEF Ride!Fetches, Fetches, SameParts
<1>4. Ride!Fetched = Fetched
  BY SamePureOps DEF Ride!Fetched, Fetched, SameParts
<1>5. \A f : Ride!DecodedGroup(f) = DecodedGroup(f)
  <2>1. /\ \A g, b : Ride!GenTag1(g, b) = GenTag1(g, b) /\ Ride!GenSpec2(g, b) = GenSpec2(g, b)
        /\ \A g : Ride!GenSpec1(g) = GenSpec1(g)
        /\ \A g, b, c : Ride!GenTag2(g, b, c) = GenTag2(g, b, c)
    BY DEF Ride!GenTag1, GenTag1, Ride!GenTag2, GenTag2, Ride!GenSpec1, GenSpec1,
           Ride!GenSpec2, GenSpec2, Ride!TagAfter, TagAfter, Ride!SPECTAG_LEN, SPECTAG_LEN
  <2> QED BY <1>1, <2>1 DEF Ride!DecodedGroup, DecodedGroup, SameParts
<1>6. \A f, w : Ride!FrontSuc(f, w) = FrontSuc(f, w)
  BY DEF Ride!FrontSuc, FrontSuc
<1>7. \A w, f, d, g : Ride!FrontNext(w, f, d, g) = FrontNext(w, f, d, g)
  <2> SUFFICES ASSUME NEW w, NEW f, NEW d, NEW g
               PROVE  Ride!FrontNext(w, f, d, g) = FrontNext(w, f, d, g)
    OBVIOUS
  <2> DEFINE L(f0, group, word) ==
               LET f1 == IF d THEN group ELSE f0
                   f2 == IF f THEN [f1 EXCEPT !.raw = word, !.curPc = word.npc] ELSE f1
               IN  [f2 EXCEPT !.curPc = IF w.mis THEN w.calAddr ELSE @,
                              !.dc = ~w.mis /\ (f \/ (@ /\ ~d)),
                              !.dp = ~w.mis /\ (d \/ (@ /\ ~g))]
             a == IF w.suc THEN FrontSuc(fe, w) ELSE fe
             b == IF w.suc THEN Ride!FrontSuc(ride.fe, w) ELSE ride.fe
  <2>1. FrontNext(w, f, d, g) = L(a, DecodedGroup(a), Fetched)
    BY DEF FrontNext
  <2>2. Ride!FrontNext(w, f, d, g) = L(b, Ride!DecodedGroup(b), Ride!Fetched)
    BY DEF Ride!FrontNext
  <2>3. a = b
    BY <1>6 DEF SameParts
  <2> HIDE DEF L, a, b
  <2> QED BY <2>1, <2>2, <2>3, <1>4, <1>5
<1> QED BY <1>1, <1>2, <1>3, <1>7

(* The rows of the store buffer that the pointers name.                     *)
LEMMA StoreRowsAlike ==
  ASSUME DataInv, Alike
  PROVE  /\ StoreBufferOk(sb)
         /\ ride.sb.finPtr = sb.finPtr /\ ride.sb.comPtr = sb.comPtr
         /\ ride.sb.retPtr = sb.retPtr
         /\ \A i \in StRows :
              /\ ride.sb.ent[i].busy = sb.ent[i].busy
              /\ ride.sb.ent[i].complete = sb.ent[i].complete
              /\ ride.sb.ent[i].mem_addr = sb.ent[i].mem_addr
              /\ sb.ent[i].busy => ride.sb.ent[i] = sb.ent[i]
BY DEF DataInv, MemData, StoresData, Alike, StoresAlike

(* The same instructions leave the stations and the memory stages, and what *)
(* is bypassed and written back is equal.                                   *)
LEMMA SameMoves ==
  ASSUME DataInv, Alike
  PROVE  /\ \A w : Ride!LsGoes(w) = LsGoes(w)
         /\ \A w : Ride!Loading(w) = Loading(w) /\ Ride!Storing(w) = Storing(w)
         /\ \A w : Ride!Retiring(w) = Retiring(w)
         /\ Ride!ByPasses = ByPasses
         /\ Ride!WrittenBack = WrittenBack
<1>0. SameParts
  BY DEF Alike
<1>1. \A w : Ride!LsGoes(w) = LsGoes(w)
  <2>1. Ride!IsFull(ride.sb) = IsFull(sb)
    BY StoreRowsAlike DEF Ride!IsFull, IsFull, StoreBufferOk
  <2> QED BY <1>0, <2>1, SameWires DEF Ride!LsGoes, LsGoes, SameParts
<1>2. \A w : Ride!Loading(w) = Loading(w) /\ Ride!Storing(w) = Storing(w)
  BY <1>0, <1>1, SameWires DEF Ride!Loading, Loading, Ride!Storing, Storing
<1>3. \A w : Ride!Retiring(w) = Retiring(w)
  <2>1. \A w : Ride!StRetire(ride.sb, w) = StRetire(sb, w)
    BY StoreRowsAlike DEF Ride!StRetire, StRetire, StoreBufferOk
  <2> QED BY <1>2, <2>1 DEF Ride!Retiring, Retiring
<1>4. Ride!ByPasses = ByPasses
  <2>1. ls2.full => /\ ride.ls2.src = ls2.src
                    /\ Ride!ResolvedData = ResolvedData
    BY <1>0 DEF Alike, Ls2Alike, CmdAlike, Ride!ResolvedData, ResolvedData, SameParts
  <2>2. (IF ride.ls2.full /\ ride.ls2.src.rdUse
          THEN {[tag |-> ride.ls2.src.rrftag, val |-> Ride!ResolvedData]} ELSE {})
        = (IF ls2.full /\ ls2.src.rdUse
            THEN {[tag |-> ls2.src.rrftag, val |-> ResolvedData]} ELSE {})
    BY <2>1 DEF Alike, Ls2Alike
  <2>3. {[tag |-> ride.ex[u].src.rrftag, val |-> Ride!Result(u)] :
           u \in {v \in Ride!Finishing : ride.ex[v].src.rdUse}}
        = {[tag |-> ex[u].src.rrftag, val |-> Result(u)] :
             u \in {v \in Finishing : ex[v].src.rdUse}}
    BY <1>0, SameWires DEF SameParts
  <2> QED BY <2>2, <2>3 DEF Ride!ByPasses, ByPasses
<1>5. Ride!WrittenBack = WrittenBack
  <2>1. (IF ride.ls2.full THEN {ride.ls2.src.rrftag} ELSE {})
        = (IF ls2.full THEN {ls2.src.rrftag} ELSE {})
    BY DEF Alike, Ls2Alike
  <2>2. {ride.ex[u].src.rrftag : u \in Ride!Finishing} = {ex[u].src.rrftag : u \in Finishing}
    BY <1>0, SameWires DEF SameParts
  <2> QED BY <2>1, <2>2 DEF Ride!WrittenBack, WrittenBack
<1> QED BY <1>1, <1>2, <1>3, <1>4, <1>5

(* The same instructions are committed: only what is in flight is looked at.*)
LEMMA SameCount ==
  ASSUME CoreInv, Alike
  PROVE  Ride!Committed(Wires) = Count
<1>1. RingOk /\ comPtr \in Ptrs /\ Inc(comPtr, 1) \in Ptrs
  BY RingFacts, RingSize DEF CoreInv, Inc
<1>2. Waiting > 0 => comPtr \in InFlight
  <2>1. Age(comPtr) = 0
    BY <1>1, AgeIs, RingSize DEF Gap
  <2> QED BY <1>1, <2>1 DEF InFlight, Waiting
<1>3. Ride!Rem(ride.rrf, ride.comPtr) = Waiting
  BY DEF Alike, SameParts, RrfAlike, Ride!Rem, Rem, Ride!RoundOver, RoundOver, Waiting
<1>4. /\ ride.comPtr = comPtr /\ Ride!Inc(comPtr, 1) = Inc(comPtr, 1)
      /\ ride.rob[comPtr].wbFin = rob[comPtr].wbFin
      /\ ride.rob[comPtr].isBranch = rob[comPtr].isBranch
      /\ ride.rob[Inc(comPtr, 1)].wbFin = rob[Inc(comPtr, 1)].wbFin
      /\ Waiting > 0 => ride.rob[comPtr].storeBit = rob[comPtr].storeBit
  BY <1>1, <1>2, SamePureOps DEF Alike, SameParts, RobAlike
<1>5. Waiting \in Int
  BY <1>1, RingFacts
<1>6. CASE Waiting > 0
  BY <1>3, <1>4, <1>6 DEF Ride!Committed, Committed, Count, Waiting
<1>7. CASE ~(Waiting > 0)
  BY <1>3, <1>4, <1>7 DEF Ride!Committed, Committed, Count, Waiting
<1> QED BY <1>6, <1>7

(* All wires of the two cores settle alike.                                 *)
LEMMA SameSettled ==
  ASSUME CoreInv, DataInv, Alike
  PROVE  /\ Ride!Settled = Settled
         /\ Settled = [w |-> Wires, n |-> Count, dispatched |-> Goes, decoded |-> Fills]
<1>0. SameParts
  BY DEF Alike
<1>1. Ride!IsDispatchable(Count) = IsDispatchable(Count)
  <2>1. Ride!IsRenamable(ride.rrf, Ride!Size, Count) = IsRenamable(rrf, Size, Count)
    BY <1>0, SameLanes DEF Alike, RrfAlike, Ride!IsRenamable, IsRenamable
  <2>2. (\A s \in Ride!Stations : Ride!Allocatable(s)) = (\A s \in Stations : Allocatable(s))
    BY <1>0, SameLanes, SamePureOps
  <2> QED BY <2>1, <2>2 DEF Ride!IsDispatchable, IsDispatchable
<1>2. Ride!Dispatches(Wires, Count) = Goes
  BY <1>0, <1>1 DEF Ride!Dispatches, Dispatches, Goes, SameParts
<1>3. Ride!Decodes(Wires, Goes) = Fills
  BY <1>0, SameFront DEF Fills
<1>4. Ride!Settled = [w |-> Wires, n |-> Count, dispatched |-> Goes, decoded |-> Fills]
  BY <1>0, <1>2, <1>3, SameWires, SameCount DEF Ride!Settled
<1>5. Settled = [w |-> Wires, n |-> Count, dispatched |-> Goes, decoded |-> Fills]
  BY DEF Settled, Count, Goes, Fills
<1> QED BY <1>4, <1>5

-----------------------------------------------------------------------------
(* The register tables of both cores do the same with the same commands.    *)
LEMMA SameRegOps ==
  /\ \A a, c : Ride!ArfCommit(a, c) = ArfCommit(a, c)
  /\ \A a, g, r : Ride!ArfRename(a, g, r) = ArfRename(a, g, r)
  /\ \A a, g, t : Ride!ArfSucPred(a, g, t) = ArfSucPred(a, g, t)
  /\ \A a, t : Ride!ArfMisPred(a, t) = ArfMisPred(a, t)
  /\ \A q, n, c, b : Ride!RrfCycle(q, n, c, b) = RrfCycle(q, n, c, b)
  /\ \A q, m, c : Ride!RrfMisPred(q, m, c) = RrfMisPred(q, m, c)
<1>1. \A a, c : Ride!ArfCommit(a, c) = ArfCommit(a, c)
  BY DEF Ride!ArfCommit, ArfCommit, Ride!Matches, Matches, Ride!RenRows, RenRows, Ride!Tags, Tags,
         Ride!SPECTAG_LEN, SPECTAG_LEN, Ride!Master, Master, Ride!Regs, Regs
<1>2. \A a, g, r : Ride!ArfRename(a, g, r) = ArfRename(a, g, r)
  BY DEF Ride!ArfRename, ArfRename, Ride!RenRows, RenRows, Ride!Tags, Tags,
         Ride!SPECTAG_LEN, SPECTAG_LEN, Ride!Master, Master, Ride!Regs, Regs,
         Ride!Takes, Takes, Ride!Kept, Kept, Ride!Wants, Wants
<1>3. \A a, g, t : Ride!ArfSucPred(a, g, t) = ArfSucPred(a, g, t)
  BY DEF Ride!ArfSucPred, ArfSucPred, Ride!RenRows, RenRows, Ride!Tags, Tags,
         Ride!SPECTAG_LEN, SPECTAG_LEN, Ride!Master, Master
<1>4. \A a, t : Ride!ArfMisPred(a, t) = ArfMisPred(a, t)
  BY DEF Ride!ArfMisPred, ArfMisPred, Ride!RenRows, RenRows, Ride!Tags, Tags,
         Ride!SPECTAG_LEN, SPECTAG_LEN, Ride!Master, Master
<1>5. \A q, n, c, b : Ride!RrfCycle(q, n, c, b) = RrfCycle(q, n, c, b)
  BY DEF Ride!RrfCycle, RrfCycle, Ride!Inc, Inc, Ride!Ptrs, Ptrs
<1>6. \A q, m, c : Ride!RrfMisPred(q, m, c) = RrfMisPred(q, m, c)
  BY DEF Ride!RrfMisPred, RrfMisPred, Ride!Inc, Inc
<1> QED BY <1>1, <1>2, <1>3, <1>4, <1>5, <1>6

(* A commit port that is not enabled writes nothing, whatever data it shows.*)
LEMMA CommitsAlike ==
  ASSUME NEW a, NEW c1, NEW c2, NEW d1, NEW d2,
         c1.en = d1.en, c1.ptr = d1.ptr, c1.en => c1.rd = d1.rd /\ c1.data = d1.data,
         c2.en = d2.en, c2.ptr = d2.ptr, c2.en => c2.rd = d2.rd /\ c2.data = d2.data
  PROVE  ArfCommit(a, <<c1, c2>>) = ArfCommit(a, <<d1, d2>>)
<1> DEFINE L(busy, reg) == [a EXCEPT !.busy = busy, !.reg = reg]
           B(x, y) == [t \in RenRows |-> [r \in Regs |->
                        a.busy[t][r] /\ \A k \in 1..2 : ~Matches(<<x, y>>[k], a, t, r)]]
           R(x, y) == [r \in Regs |->
                        CASE <<x, y>>[2].en /\ <<x, y>>[2].rd = r /\ r # 0 -> <<x, y>>[2].data
                          [] <<x, y>>[1].en /\ <<x, y>>[1].rd = r /\ r # 0
                             /\ ~(<<x, y>>[2].en /\ <<x, y>>[2].rd = r)  -> <<x, y>>[1].data
                          [] OTHER                                -> a.reg[r]]
<1>1. /\ ArfCommit(a, <<c1, c2>>) = L(B(c1, c2), R(c1, c2))
      /\ ArfCommit(a, <<d1, d2>>) = L(B(d1, d2), R(d1, d2))
  BY DEF ArfCommit
<1>2. B(c1, c2) = B(d1, d2)
  <2>1. \A t, r : (\A k \in 1..2 : ~Matches(<<c1, c2>>[k], a, t, r))
                    <=> (\A k \in 1..2 : ~Matches(<<d1, d2>>[k], a, t, r))
    BY DEF Matches
  <2> QED BY <2>1
<1>3. R(c1, c2) = R(d1, d2)
  <2>1. ASSUME NEW r \in Regs
        PROVE  R(c1, c2)[r] = R(d1, d2)[r]
    <3>1. CASE c2.en
      BY <3>1
    <3>2. CASE ~c2.en
      BY <3>2
    <3> QED BY <3>1, <3>2
  <2> HIDE DEF R
  <2>2. R(c1, c2) = [r \in Regs |-> R(c1, c2)[r]] /\ R(d1, d2) = [r \in Regs |-> R(d1, d2)[r]]
    BY DEF R
  <2> QED BY <2>1, <2>2
<1> HIDE DEF L, B, R
<1> QED BY <1>1, <1>2, <1>3

(* The commit ports show the same where they are enabled.                   *)
LEMMA SamePorts ==
  ASSUME CoreInv, Alike, NEW k \in 1..2
  PROVE  LET c == ComPort(Count, k)
             d == Ride!ComPort(Count, k)
         IN  /\ d.en = c.en /\ d.ptr = c.ptr
             /\ c.en => d.rd = c.rd /\ d.data = c.data
<1> DEFINE p == Inc(comPtr, k-1)
<1>1. /\ RingOk /\ Count \in 0..2 /\ Count <= Waiting /\ comPtr \in Ptrs /\ p \in Ptrs
      /\ Waiting \in Int
  BY CountFacts, RingFacts, RingSize DEF CoreInv, Inc
<1>2. Age(p) = k - 1
  <2>1. Age(p) = Gap(comPtr, p)
    BY <1>1, AgeIs
  <2> QED BY <1>1, <2>1, RingSize DEF Gap, Inc
<1> HIDE DEF p
<1>3. Count >= k => p \in InFlight /\ rob[p].wbFin
  <2>1. Count >= k => Age(p) < Count
    BY <1>1, <1>2
  <2>2. Count >= k => Age(p) < Waiting
    BY <1>1, <1>2
  <2> QED BY <1>1, <2>1, <2>2, CommittedDone, InFlightIs
<1>4. Ride!Inc(ride.comPtr, k-1) = p
  BY SamePureOps DEF Alike, SameParts, p
<1>5. Count >= k => ride.rob[p] = rob[p]
  BY <1>1, <1>3 DEF Alike, RobAlike
<1>6. Count >= k /\ rob[p].rdUse => ride.rrf.data[p] = rrf.data[p]
  BY <1>1, <1>3 DEF Alike, RrfAlike, CoreInv, ResultsValid
<1>7. /\ ComPort(Count, k).en = (Count >= k /\ rob[p].rdUse)
      /\ ComPort(Count, k).ptr = p /\ ComPort(Count, k).rd = rob[p].rdIdx
      /\ ComPort(Count, k).data = rrf.data[p]
  BY DEF ComPort, p
<1>8. /\ Ride!ComPort(Count, k).en = (Count >= k /\ ride.rob[p].rdUse)
      /\ Ride!ComPort(Count, k).ptr = p /\ Ride!ComPort(Count, k).rd = ride.rob[p].rdIdx
      /\ Ride!ComPort(Count, k).data = ride.rrf.data[p]
  BY <1>4 DEF Ride!ComPort
<1>9. (Count >= k /\ ride.rob[p].rdUse) = (Count >= k /\ rob[p].rdUse)
  BY <1>5
<1>10. ComPort(Count, k).en => Count >= k /\ rob[p].rdUse
  BY <1>7
<1> QED BY <1>5, <1>6, <1>7, <1>8, <1>9, <1>10

(* Both cores commit to, and rename by, the same tables.                    *)
LEMMA SameTables ==
  ASSUME CoreInv, Alike
  PROVE  /\ Ride!ArfCommit(ride.arf, <<Ride!ComPort(Count, 1), Ride!ComPort(Count, 2)>>) = Com
         /\ \A k : Ride!Rename(k) = Rename(k)
<1>1. ArfCommit(arf, <<Ride!ComPort(Count, 1), Ride!ComPort(Count, 2)>>) = Com
  <2> DEFINE c1 == ComPort(Count, 1)
             c2 == ComPort(Count, 2)
             d1 == Ride!ComPort(Count, 1)
             d2 == Ride!ComPort(Count, 2)
  <2>1. /\ d1.en = c1.en /\ d1.ptr = c1.ptr
        /\ c1.en => d1.rd = c1.rd /\ d1.data = c1.data
    BY SamePorts
  <2>2. /\ d2.en = c2.en /\ d2.ptr = c2.ptr
        /\ c2.en => d2.rd = c2.rd /\ d2.data = c2.data
    BY SamePorts
  <2>3. Com = ArfCommit(arf, <<c1, c2>>)
    BY DEF Com
  <2> HIDE DEF c1, c2, d1, d2
  <2>4. ArfCommit(arf, <<c1, c2>>) = ArfCommit(arf, <<d1, d2>>)
    BY <2>1, <2>2, CommitsAlike
  <2> QED BY <2>3, <2>4 DEF d1, d2
<1>2. ride.arf = arf
  BY DEF Alike, SameParts
<1>3. \A k : Ride!Rename(k) = Rename(k)
  <2>1. \A k : Ride!Lane(k) = Lane(k)
    BY SameLanes DEF Alike
  <2>2. ride.rrf.reqPtr = rrf.reqPtr
    BY DEF Alike, RrfAlike
  <2> QED BY <2>1, <2>2, SamePureOps DEF Ride!Rename, Rename
<1> QED BY <1>1, <1>2, <1>3, SameRegOps

(* An operand that is taken from the register file, the rename registers or *)
(* a bypass is equal: a rename register that is not valid is not read.      *)
LEMMA SameOperands ==
  ASSUME CoreInv, DataInv, Alike, NEW k, NEW r \in Regs, NEW use, NEW d, NEW bps
  PROVE  Ride!SrcOpr(k, r, use, d, bps) = SrcOpr(k, r, use, d, bps)
<1>1. Ride!FromRegs(r, bps) = FromRegs(r, bps)
  <2> DEFINE t == arf.rename[Master][r]
  <2>1. arf.busy[Master][r] => t \in Ptrs
    BY MasterWriter DEF InFlight
  <2>2. /\ ride.arf = arf /\ ride.rrf.valid = rrf.valid
        /\ arf.busy[Master][r] /\ rrf.valid[t] => ride.rrf.data[t] = rrf.data[t]
    BY <2>1 DEF Alike, SameParts, RrfAlike
  <2>3. Ride!Master = Master /\ \A p : /\ Ride!Served(bps, p) = Served(bps, p)
                                      /\ Ride!ValueOf(bps, p) = ValueOf(bps, p)
    BY SamePureOps DEF Ride!Served, Served, Ride!ValueOf, ValueOf
  <2>4. Ride!FromRegs(r, bps) =
          CASE ~arf.busy[Master][r] -> [v |-> TRUE, p |-> arf.reg[r]]
            [] arf.busy[Master][r] /\ rrf.valid[t] -> [v |-> TRUE, p |-> ride.rrf.data[t]]
            [] arf.busy[Master][r] /\ ~rrf.valid[t] /\ Served(bps, t)
                                       -> [v |-> TRUE, p |-> ValueOf(bps, t)]
            [] OTHER                   -> [v |-> FALSE, p |-> t]
    BY <2>2, <2>3 DEF Ride!FromRegs
  <2>5. FromRegs(r, bps) =
          CASE ~arf.busy[Master][r] -> [v |-> TRUE, p |-> arf.reg[r]]
            [] arf.busy[Master][r] /\ rrf.valid[t] -> [v |-> TRUE, p |-> rrf.data[t]]
            [] arf.busy[Master][r] /\ ~rrf.valid[t] /\ Served(bps, t)
                                       -> [v |-> TRUE, p |-> ValueOf(bps, t)]
            [] OTHER                   -> [v |-> FALSE, p |-> t]
    BY DEF FromRegs
  <2> HIDE DEF t
  <2>6. CASE arf.busy[Master][r] /\ rrf.valid[t]
    BY <2>2, <2>4, <2>5, <2>6
  <2>7. CASE ~(arf.busy[Master][r] /\ rrf.valid[t])
    BY <2>4, <2>5, <2>7
  <2> QED BY <2>6, <2>7
<1>2. ride.rrf.reqPtr = rrf.reqPtr
  BY DEF Alike, RrfAlike
<1> QED BY <1>1, <1>2 DEF Ride!SrcOpr, SrcOpr

(* The entries that are given to the stations are equal.                    *)
LEMMA SameEntries ==
  ASSUME CoreInv, DataInv, Alike
  PROVE  /\ \A k \in 1..2 : Ride!Entry(k, ByPasses) = Entry(k, ByPasses)
         /\ \A u : Ride!Writes(u, ByPasses) = Writes(u, ByPasses)
<1>0. SameParts /\ ride.fe = fe /\ ride.rs = rs /\ ride.rrf.reqPtr = rrf.reqPtr
  BY DEF Alike, SameParts, RrfAlike
<1>1. ASSUME NEW k \in 1..2
      PROVE  Ride!Entry(k, ByPasses) = Entry(k, ByPasses)
  <2>1. Lane(k).rs1 \in Regs /\ Lane(k).rs2 \in Regs
    BY DEF DataInv, FrontData, LaneData, Lane
  <2>2. /\ Ride!SrcOpr(k, Lane(k).rs1, Lane(k).use1, fe.desEqSrc1, ByPasses)
             = SrcOpr(k, Lane(k).rs1, Lane(k).use1, fe.desEqSrc1, ByPasses)
        /\ Ride!SrcOpr(k, Lane(k).rs2, Lane(k).use2, fe.desEqSrc2, ByPasses)
             = SrcOpr(k, Lane(k).rs2, Lane(k).use2, fe.desEqSrc2, ByPasses)
    BY <2>1, SameOperands
  <2>3. Ride!Lane(k) = Lane(k)
    BY <1>0, SameLanes
  <2>4. /\ Ride!Plus(ride.fe.pc, k-1) = Plus(fe.pc, k-1)
        /\ Ride!Inc(ride.rrf.reqPtr, k-1) = Inc(rrf.reqPtr, k-1)
    BY <1>0, SamePureOps
  <2>5. /\ Ride!SrcOpr(k, Lane(k).rs1, Lane(k).use1, ride.fe.desEqSrc1, ByPasses)
             = SrcOpr(k, Lane(k).rs1, Lane(k).use1, fe.desEqSrc1, ByPasses)
        /\ Ride!SrcOpr(k, Lane(k).rs2, Lane(k).use2, ride.fe.desEqSrc2, ByPasses)
             = SrcOpr(k, Lane(k).rs2, Lane(k).use2, fe.desEqSrc2, ByPasses)
    BY ONLY <1>0, <2>2
  <2> QED BY ONLY <2>3, <2>4, <2>5 DEF Ride!Entry, Entry
<1>2. ASSUME NEW u
      PROVE  Ride!Writes(u, ByPasses) = Writes(u, ByPasses)
  <2> DEFINE at(i) == {k \in 1..Size : RowOf(k) = [unit |-> u, row |-> i]}
             D == {j \in DOMAIN rs[u] : at(j) # {}}
  <2>1. \A k : Ride!RowOf(k) = RowOf(k)
    BY <1>0, SameLanes
  <2>2. Ride!Size = Size
    BY <1>0, SameLanes
  <2>3. Ride!Writes(u, ByPasses) = [i \in D |-> Ride!Entry(IF 2 \in at(i) THEN 2 ELSE 1, ByPasses)]
    BY <1>0, <2>1, <2>2 DEF Ride!Writes
  <2>4. Writes(u, ByPasses) = [i \in D |-> Entry(IF 2 \in at(i) THEN 2 ELSE 1, ByPasses)]
    BY DEF Writes
  <2> HIDE DEF D, at
  <2> QED BY <1>1, <2>3, <2>4
<1> QED BY <1>1, <1>2

-----------------------------------------------------------------------------
(* The registers of the slave after a cycle.                                *)
Slave == Ride!CoreNext(Ride!Settled)

(* Its wires are those of the master.                                       *)
LEMMA SlaveIs ==
  ASSUME CoreInv, DataInv, Alike
  PROVE  Slave = Ride!CoreNext([w |-> Wires, n |-> Count, dispatched |-> Goes,
                                decoded |-> Fills])
BY SameSettled DEF Slave

(* The slave fetches, decodes and takes tags like the master.               *)
LEMMA SlaveFront ==
  ASSUME CoreInv, DataInv, Alike
  PROVE  Slave.fe = NextFe /\ Slave.tg = NextTg /\ Slave.comPtr = NextComptr
<1>0. SameParts
  BY DEF Alike
<1>1. Slave.fe = Ride!FrontNext(Wires, Ride!Fetches(Wires, Fills), Fills, Goes)
  BY SlaveIs DEF Ride!CoreNext
<1>2. Slave.tg = CASE Wires.mis -> Ride!TagMisPred(ride.tg, Wires.tag)
                   [] Wires.suc -> Ride!TagSucPred(ride.tg, Wires.tag)
                   [] Fills     -> Ride!Allocate(ride.tg, Ride!Dcw1.isBranch, Ride!Dcw2.isBranch)
                   [] OTHER     -> ride.tg
  BY SlaveIs DEF Ride!CoreNext
<1>3. Slave.comPtr = Ride!Inc(ride.comPtr, Count)
  BY SlaveIs DEF Ride!CoreNext
<1>4. Slave.fe = NextFe
  BY <1>0, <1>1, SameFront DEF NextFe
<1>5. Slave.tg = NextTg
  BY <1>0, <1>2, SameFront, SameTagOps DEF NextTg, SameParts
<1>6. Slave.comPtr = NextComptr
  BY <1>0, <1>3, SamePureOps DEF NextComptr, SameParts
<1> QED BY <1>4, <1>5, <1>6

(* The registers of the slave and their rename tables become the master's.  *)
LEMMA SlaveArf ==
  ASSUME CoreInv, DataInv, Alike
  PROVE  Slave.arf = NextArf
<1> DEFINE C == Ride!ArfCommit(ride.arf, <<Ride!ComPort(Count, 1), Ride!ComPort(Count, 2)>>)
<1>0. SameParts
  BY DEF Alike
<1>1. Slave.arf = CASE Wires.mis -> Ride!ArfMisPred(C, Wires.tag)
                    [] Wires.suc -> Ride!ArfSucPred(C, ride.tg, Wires.tag)
                    [] Goes      -> Ride!ArfRename(C, ride.tg, <<Ride!Rename(1), Ride!Rename(2)>>)
                    [] OTHER     -> C
  BY SlaveIs DEF Ride!CoreNext
<1>2. C = Com
  BY SameTables
<1> HIDE DEF C
<1> QED BY <1>0, <1>1, <1>2, SameTables, SameRegOps DEF NextArf, SameParts

(* So do its stations and execution stages.                                 *)
LEMMA SlaveStations ==
  ASSUME CoreInv, DataInv, Alike
  PROVE  Slave.rs = NextRs /\ Slave.alloc = NextAlloc /\ Slave.ex = NextEx
<1>0. SameParts /\ ride.rs = rs /\ ride.ex = ex /\ ride.alloc = alloc
      /\ ride.rrf.nextRrfCycle = rrf.nextRrfCycle
      /\ Ride!Units = Units /\ Ride!InOrder = InOrder
  BY SamePureOps DEF Alike, SameParts, RrfAlike
<1>1. \A u : Ride!Issued(u, Wires) = Issue(u)
  BY <1>0, SameMoves, SameRsvOps, SamePureOps DEF Ride!Issued, Issued, Issue
<1>2. Slave.rs = NextRs
  <2>1. Slave.rs = [u \in Ride!Units |->
                     Ride!RsvCycle(ride.rs[u], Wires, Ride!ByPasses,
                        [v \in Ride!Units |-> Ride!Issued(v, Wires)][u],
                        ride.rrf.nextRrfCycle /\ u \in {"alu1", "alu2"},
                        IF Goes THEN Ride!Writes(u, Ride!ByPasses) ELSE <<>>)]
    BY SlaveIs DEF Ride!CoreNext
  <2>2. \A u \in Ride!Units : [v \in Ride!Units |-> Ride!Issued(v, Wires)][u] = Issue(u)
    BY <1>1
  <2>3. Ride!ByPasses = ByPasses /\ \A u : Ride!Writes(u, ByPasses) = Writes(u, ByPasses)
    BY SameMoves, SameEntries
  <2>4. ASSUME NEW u \in Units
        PROVE  Slave.rs[u] = NextRs[u]
    <3>1. Slave.rs[u] = Ride!RsvCycle(rs[u], Wires, ByPasses, Issue(u),
                          rrf.nextRrfCycle /\ u \in {"alu1", "alu2"},
                          IF Goes THEN Writes(u, ByPasses) ELSE <<>>)
      BY <1>0, <2>1, <2>2, <2>3
    <3>2. NextRs[u] = RsvCycle(rs[u], Wires, ByPasses, Issue(u),
                          rrf.nextRrfCycle /\ u \in {"alu1", "alu2"},
                          IF Goes THEN Writes(u, ByPasses) ELSE <<>>)
      BY DEF NextRs
    <3> QED BY <3>1, <3>2, SameRsvOps
  <2>5. Slave.rs = [u \in Units |-> Slave.rs[u]]
    BY <1>0, <2>1
  <2>6. NextRs = [u \in Units |-> NextRs[u]]
    BY DEF NextRs
  <2> QED BY <2>4, <2>5, <2>6
<1>3. Slave.alloc = NextAlloc
  <2>1. Slave.alloc = [u \in InOrder |-> Ride!AllocNext(u, Wires, Goes)]
    BY <1>0, SlaveIs DEF Ride!CoreNext
  <2>2. ASSUME NEW u
        PROVE  Ride!AllocNext(u, Wires, Goes) = AllocNext(u, Wires, Goes)
    <3> DEFINE lanes == {k \in 1..Size : Required(u, k)}
    <3>1. Ride!AllocNext(u, Wires, Goes) =
            CASE Goes /\ lanes # {} ->
                   Ride!Wrap(rs[u], RowOf(IF 2 \in lanes THEN 2 ELSE 1).row + 1)
              [] Wires.mis  -> Ride!AllocMisPred(rs[u], alloc[u], Ride!Killed(Wires))
              [] OTHER  -> alloc[u]
      BY <1>0, SameLanes DEF Ride!AllocNext
    <3>2. AllocNext(u, Wires, Goes) =
            CASE Goes /\ lanes # {} ->
                   Wrap(rs[u], RowOf(IF 2 \in lanes THEN 2 ELSE 1).row + 1)
              [] Wires.mis  -> AllocMisPred(rs[u], alloc[u], Killed(Wires))
              [] OTHER  -> alloc[u]
      BY DEF AllocNext
    <3>3. \A t, i : Ride!Wrap(t, i) = Wrap(t, i)
      BY DEF Ride!Wrap, Wrap, Ride!Rows, Rows, Ride!Cardinality, Cardinality
    <3>4. Ride!Killed(Wires) = Killed(Wires)
      BY DEF Ride!Killed, Killed
    <3> HIDE DEF lanes
    <3> QED BY <3>1, <3>2, <3>3, <3>4, SameRsvOps
  <2> QED BY <2>1, <2>2 DEF NextAlloc
<1>4. Slave.ex = NextEx
  <2>1. Slave.ex = [u \in Ride!Units |->
                      Ride!ExecNext(u, Wires, [v \in Ride!Units |-> Ride!Issued(v, Wires)][u],
                        u = "ls" /\ ride.ex[u].full /\ ~Ride!LsGoes(Wires)
                                 /\ ~Ride!LsKilled(Wires))]
    BY SlaveIs DEF Ride!CoreNext
  <2>2. \A u \in Ride!Units : [v \in Ride!Units |-> Ride!Issued(v, Wires)][u] = Issue(u)
    BY <1>1
  <2>3. \A u, i, y : Ride!ExecNext(u, Wires, i, y) = ExecNext(u, Wires, i, y)
    BY <1>0, SameTagOps, SamePureOps DEF Ride!ExecNext, ExecNext
  <2>4. ASSUME NEW u \in Units
        PROVE  Slave.ex[u] = NextEx[u]
    <3>1. (u = "ls" /\ ride.ex[u].full /\ ~Ride!LsGoes(Wires) /\ ~Ride!LsKilled(Wires))
            = Stays(u)
      BY <1>0, SameMoves, SameWires DEF Stays
    <3>2. Slave.ex[u] = Ride!ExecNext(u, Wires, Issue(u), Stays(u))
      BY <1>0, <2>1, <2>2, <3>1
    <3> QED BY <3>2, <2>3 DEF NextEx
  <2>5. Slave.ex = [u \in Units |-> Slave.ex[u]]
    BY <1>0, <2>1
  <2>6. NextEx = [u \in Units |-> NextEx[u]]
    BY DEF NextEx
  <2> QED BY <2>4, <2>5, <2>6
<1> QED BY <1>2, <1>3, <1>4

(* The rename registers of the slave become alike those of the master.      *)
LEMMA SlaveRrf ==
  ASSUME CoreInv, DataInv, Alike
  PROVE  RrfAlike(NextRrf, Slave.rrf)
<1> DEFINE q == RrfCycle(ride.rrf, Took, Count, ByPasses)
<1>0. SameParts /\ RrfAlike(rrf, ride.rrf) /\ ride.comPtr = comPtr
  BY DEF Alike, SameParts
<1>1. Slave.rrf = IF Wires.mis
                    THEN Ride!RrfMisPred(Ride!RrfCycle(ride.rrf, IF Goes THEN Ride!Size ELSE 0,
                                            Count, Ride!ByPasses), Wires.rrftag, ride.comPtr)
                    ELSE Ride!RrfCycle(ride.rrf, IF Goes THEN Ride!Size ELSE 0,
                                       Count, Ride!ByPasses)
  BY SlaveIs DEF Ride!CoreNext
<1>2. Slave.rrf = IF Wires.mis THEN RrfMisPred(q, Wires.rrftag, comPtr) ELSE q
  BY <1>0, <1>1, SameLanes, SameMoves, SameRegOps DEF Took
<1>3. /\ q.freenum = Renamed.freenum /\ q.reqPtr = Renamed.reqPtr
      /\ q.nextRrfCycle = Renamed.nextRrfCycle
  BY <1>0 DEF RrfAlike, RrfCycle, Renamed
<1>4. q.valid = Renamed.valid
  BY <1>0 DEF RrfAlike, RrfCycle, Renamed
<1>5. ASSUME NEW p \in Ptrs, Renamed.valid[p]
      PROVE  q.data[p] = Renamed.data[p]
  BY <1>0, <1>5 DEF RrfAlike, RrfCycle, Renamed
<1>6. /\ DOMAIN q = {"valid", "data", "freenum", "reqPtr", "nextRrfCycle"}
      /\ DOMAIN Renamed = {"valid", "data", "freenum", "reqPtr", "nextRrfCycle"}
  BY DEF RrfCycle, Renamed
<1> HIDE DEF q
<1>7. CASE Wires.mis
  BY <1>2, <1>3, <1>4, <1>5, <1>6, <1>7 DEF RrfMisPred, NextRrf, RrfAlike
<1>8. CASE ~Wires.mis
  BY <1>2, <1>3, <1>4, <1>5, <1>8 DEF NextRrf, RrfAlike
<1> QED BY <1>7, <1>8

(* The slave has the fields of a core, and both store buffers those of a    *)
(* store buffer.  A change of a register (Upset) adds no field to a record. *)
StoresShape(s) == StoreBufferOk(s) /\ \A i \in StRows : DOMAIN s.ent[i] = StoreParts

CoreShape(c) ==
  /\ IsCore(c) /\ StoresShape(c.sb)
  /\ DOMAIN c.rob = Ptrs /\ \A p \in Ptrs : DOMAIN c.rob[p] = RobFields
  /\ DOMAIN c.ls2 = {"full", "src", "hit", "data"}

SlaveShape == CoreShape(ride) /\ StoresShape(sb)

(* What is in flight after the cycle has the same entry in both reorder     *)
(* buffers.                                                                 *)
LEMMA SlaveRob ==
  ASSUME CoreInv, DataInv, Alike, SlaveShape, ClockEdge
  PROVE  \A p \in Ptrs : /\ Slave.rob[p].wbFin = rob'[p].wbFin
                         /\ Slave.rob[p].isBranch = rob'[p].isBranch
                         /\ p \in InFlight' => Slave.rob[p] = rob'[p]
<1>0. SameParts /\ RobAlike(rob, ride.rob) /\ ride.rrf.reqPtr = rrf.reqPtr /\ Shapes
  BY DEF Alike, RrfAlike, CoreInv
<1>1. Slave.rob = [p \in Ride!Ptrs |->
                  IF \E k \in 1..(IF Goes THEN Ride!Size ELSE 0) :
                       p = Ride!Inc(ride.rrf.reqPtr, k-1)
                    THEN Ride!RobEntry(IF p = ride.rrf.reqPtr THEN 1 ELSE 2)
                    ELSE [ride.rob[p] EXCEPT !.wbFin = @ \/ p \in Ride!WrittenBack]]
  BY SlaveIs DEF Ride!CoreNext
<1>2. \A p \in Ptrs : Slave.rob[p] =
        IF Given(p) THEN RobEntry(IF p = rrf.reqPtr THEN 1 ELSE 2)
        ELSE [ride.rob[p] EXCEPT !.wbFin = @ \/ p \in WrittenBack]
  BY <1>0, <1>1, SameLanes, SameMoves, SamePureOps DEF Given, Took
<1>3. \A p \in Ptrs : rob'[p] =
        IF Given(p) THEN RobEntry(IF p = rrf.reqPtr THEN 1 ELSE 2)
        ELSE [rob[p] EXCEPT !.wbFin = @ \/ p \in WrittenBack]
  BY Edge DEF NextRob, Given
<1>4. SUFFICES ASSUME NEW p \in Ptrs
               PROVE  /\ Slave.rob[p].wbFin = rob'[p].wbFin
                      /\ Slave.rob[p].isBranch = rob'[p].isBranch
                      /\ p \in InFlight' => Slave.rob[p] = rob'[p]
  OBVIOUS
<1>5. CASE Given(p)
  BY <1>2, <1>3, <1>5
<1>6. CASE ~Given(p)
  <2>1. /\ Slave.rob[p] = [ride.rob[p] EXCEPT !.wbFin = @ \/ p \in WrittenBack]
        /\ rob'[p] = [rob[p] EXCEPT !.wbFin = @ \/ p \in WrittenBack]
    BY <1>2, <1>3, <1>6
  <2>2. /\ DOMAIN ride.rob[p] = RobFields /\ DOMAIN rob[p] = RobFields
        /\ ride.rob[p].wbFin = rob[p].wbFin /\ ride.rob[p].isBranch = rob[p].isBranch
    BY <1>0 DEF SlaveShape, CoreShape, StoresShape, Shapes, RobAlike
  <2>3. p \in InFlight' => p \in InFlight
    BY <1>6, EntryBefore, InFlightIs
  <2>4. p \in InFlight' => ride.rob[p] = rob[p]
    BY <1>0, <2>3 DEF RobAlike
  <2> QED BY <2>1, <2>2, <2>4 DEF RobFields
<1> QED BY <1>5, <1>6

-----------------------------------------------------------------------------
(* Two tables among whose rows the reduction would choose alike, and two    *)
(* levels of the reduction that have arrived at the same rows.              *)
SameSelect(q, t, u, n) ==
  \A i, j \in 0..(n-1) :
    SelectLeft(q, Node(t, i), Node(t, j)) <=> SelectLeft(q, Node(u, i), Node(u, j))

SameRows(x, y) == DOMAIN x = DOMAIN y /\ \A i \in DOMAIN x : x[i].idx = y[i].idx

(* From such tables and levels the next level arrives at the same rows too. *)
LEMMA SameNext ==
  ASSUME NEW q, NEW t, NEW u, NEW n, SameSelect(q, t, u, n),
         NEW s, NEW x, InLevel(t, n, s, x), NEW z, NEW y, InLevel(u, n, z, y), SameRows(x, y)
  PROVE  SameRows(NextLevel(q, x), NextLevel(q, y))
<1>1. s \in Nat \ {0} /\ DOMAIN x = 0..(s-1) /\ DOMAIN y = 0..(s-1) /\ PowerOfTwo(s)
  BY DEF InLevel, SameRows, PowerOfTwo
<1>2. Rows(x) = s /\ Rows(y) = s
  BY <1>1, RowsAre
<1>3. CASE s = 1
  BY <1>2, <1>3 DEF NextLevel
<1>4. CASE s # 1
  <2>1. /\ NextLevel(q, x) = [i \in 0..(s \div 2 - 1) |->
                                IF SelectLeft(q, x[2*i], x[2*i+1]) THEN x[2*i] ELSE x[2*i+1]]
        /\ NextLevel(q, y) = [i \in 0..(s \div 2 - 1) |->
                                IF SelectLeft(q, y[2*i], y[2*i+1]) THEN y[2*i] ELSE y[2*i+1]]
    BY <1>2, <1>4 DEF NextLevel, MuxPairs
  <2>2. s \div 2 \in Nat \ {0} /\ s = 2 * (s \div 2)
    BY <1>1, <1>4, Halved
  <2>3. ASSUME NEW i \in 0..(s \div 2 - 1)
        PROVE  NextLevel(q, x)[i].idx = NextLevel(q, y)[i].idx
    <3> PICK a : a = 2*i
      OBVIOUS
    <3> PICK b : b = 2*i+1
      OBVIOUS
    <3>1. a \in 0..(s-1) /\ b \in 0..(s-1)
      BY <2>2
    <3>2. /\ x[a].idx = y[a].idx /\ x[b].idx = y[b].idx
          /\ x[a].idx \in 0..(n-1) /\ x[b].idx \in 0..(n-1)
          /\ x[a] = Node(t, x[a].idx) /\ x[b] = Node(t, x[b].idx)
      BY <1>1, <3>1 DEF InLevel, SameRows
    <3>4. DOMAIN y = 0..(z-1)
      BY DEF InLevel
    <3>3. y[a] = Node(u, x[a].idx) /\ y[b] = Node(u, x[b].idx)
      BY <1>1, <3>1, <3>2, <3>4 DEF InLevel
    <3>5. SelectLeft(q, x[a], x[b]) <=> SelectLeft(q, y[a], y[b])
      BY <3>2, <3>3 DEF SameSelect
    <3>6. /\ NextLevel(q, x)[i] = IF SelectLeft(q, x[a], x[b]) THEN x[a] ELSE x[b]
          /\ NextLevel(q, y)[i] = IF SelectLeft(q, y[a], y[b]) THEN y[a] ELSE y[b]
      BY <2>1
    <3> QED BY <3>2, <3>5, <3>6
  <2>4. DOMAIN NextLevel(q, x) = 0..(s \div 2 - 1) /\ DOMAIN NextLevel(q, y) = 0..(s \div 2 - 1)
    BY <2>1
  <2> QED BY <2>3, <2>4 DEF SameRows
<1> QED BY <1>3, <1>4

(* The reduction of tables that differ in nothing the choice looks at ends  *)
(* in the same row of both.                                                 *)
LEMMA SameChoice ==
  ASSUME NEW q, NEW t, NEW u, NEW n, PowerOfTwo(n), DOMAIN t = 0..(n-1), DOMAIN u = 0..(n-1),
         SameSelect(q, t, u, n)
  PROVE  /\ Reduce(q, u).idx = Reduce(q, t).idx
         /\ Reduce(q, t).idx \in 0..(n-1)
         /\ Reduce(q, t) = Node(t, Reduce(q, t).idx)
         /\ Reduce(q, u) = Node(u, Reduce(q, t).idx)
<1> DEFINE L == Levels(q, t)
           M == Levels(q, u)
           B == {d \in Nat : ~SameRows(L[d], M[d])}
<1>0. n \in Nat \ {0} /\ Rows(t) = n /\ Rows(u) = n
  BY RowsAre DEF PowerOfTwo
<1>1. /\ L[0] = LevelZero(t) /\ \A d \in Nat \ {0} : L[d] = NextLevel(q, L[d-1])
      /\ M[0] = LevelZero(u) /\ \A d \in Nat \ {0} : M[d] = NextLevel(q, M[d-1])
  BY LevelsAre
<1>2. /\ \A d \in Nat : \E s : InLevel(t, n, s, L[d])
      /\ \A d \in Nat : \E s : InLevel(u, n, s, M[d])
  BY LevelInv
<1>3. Reduce(q, t) = L[n][0] /\ Reduce(q, u) = M[n][0] /\ DOMAIN L[n] = {0}
  BY <1>0, ReduceIsRow DEF Reduce
<1> HIDE DEF L, M
<1>4. B = {}
  <2> SUFFICES ASSUME B # {} PROVE FALSE
    OBVIOUS
  <2>1. PICK d \in B : \A k \in B : d <= k
    <3> HIDE DEF B
    <3>1. B \in SUBSET Nat BY DEF B
    <3> QED BY <3>1, Least
  <2>2. d \in Nat /\ ~SameRows(L[d], M[d])
    BY <2>1
  <2>3. d # 0
    <3>1. SameRows(LevelZero(t), LevelZero(u))
      BY DEF LevelZero, Node, SameRows
    <3> QED BY <1>1, <2>2, <3>1
  <2>4. d - 1 \in Nat /\ SameRows(L[d-1], M[d-1]) /\ d \in Nat \ {0}
    BY <2>1, <2>2, <2>3
  <2>5. SameRows(NextLevel(q, L[d-1]), NextLevel(q, M[d-1]))
    <3>1. PICK s : InLevel(t, n, s, L[d-1])
      BY <1>2, <2>4
    <3>2. PICK z : InLevel(u, n, z, M[d-1])
      BY <1>2, <2>4
    <3> QED BY <2>4, <3>1, <3>2, SameNext
  <2> QED BY <1>1, <2>2, <2>4, <2>5
<1>5. SameRows(L[n], M[n])
  <2>1. n \in Nat /\ n \notin B
    BY <1>0, <1>4
  <2> QED BY <2>1
<1>6. Reduce(q, u).idx = Reduce(q, t).idx
  BY <1>3, <1>5 DEF SameRows
<1> QED BY <1>6, ReduceIsRow

-----------------------------------------------------------------------------
(* The tables of the store buffers have the same rows busy.                 *)
LEMMA StoresAre ==
  ASSUME DataInv, Alike, SlaveShape
  PROVE  /\ STBUF_ENT_NUM \in Nat \ {0} /\ PowerOfTwo(STBUF_ENT_NUM)
         /\ StRows = 0..(STBUF_ENT_NUM - 1)
         /\ DOMAIN sb.ent = StRows /\ DOMAIN ride.sb.ent = StRows
         /\ \A i \in StRows : BusyAfter(ride.sb.ent[i], {}) = BusyAfter(sb.ent[i], {})
         /\ \A i \in StRows : \A k : BusyAfter(ride.sb.ent[i], k) = BusyAfter(sb.ent[i], k)
<1>1. STBUF_ENT_NUM \in Nat \ {0} /\ PowerOfTwo(STBUF_ENT_NUM)
  BY StRowsAre, StBufAssumption
<1>2. DOMAIN sb.ent = StRows /\ DOMAIN ride.sb.ent = StRows
  BY DEF SlaveShape, CoreShape, StoresShape, StoreBufferOk
<1>3. ASSUME NEW i \in StRows, NEW k
      PROVE  BusyAfter(ride.sb.ent[i], k) = BusyAfter(sb.ent[i], k)
  <2>1. ride.sb.ent[i].busy = sb.ent[i].busy /\ (sb.ent[i].busy => ride.sb.ent[i] = sb.ent[i])
    BY StoreRowsAlike
  <2> QED BY <2>1 DEF BusyAfter
<1> QED BY <1>1, <1>2, <1>3 DEF StRows

(* A load finds a store in both buffers or in neither, and the same data.   *)
LEMMA SameFound ==
  ASSUME DataInv, Alike, SlaveShape, NEW addr
  PROVE  LET f == StSearch(sb, addr)
             g == StSearch(ride.sb, addr)
         IN  /\ g.hit = f.hit /\ (f.hit => g.data = f.data)
<1> DEFINE q == [op |-> "newest", start |-> sb.finPtr, addr |-> addr]
           t == sb.ent
           u == ride.sb.ent
           n == STBUF_ENT_NUM
<1>1. PowerOfTwo(n) /\ DOMAIN t = 0..(n-1) /\ DOMAIN u = 0..(n-1)
  BY StoresAre
<1>2. SameSelect(q, t, u, n)
  <2> SUFFICES ASSUME NEW i \in 0..(n-1), NEW j \in 0..(n-1)
               PROVE  SelectLeft(q, Node(t, i), Node(t, j))
                        <=> SelectLeft(q, Node(u, i), Node(u, j))
    BY DEF SameSelect
  <2>1. i \in StRows /\ j \in StRows
    BY DEF StRows
  <2>2. /\ u[i].busy = t[i].busy /\ u[i].mem_addr = t[i].mem_addr
        /\ u[j].busy = t[j].busy /\ u[j].mem_addr = t[j].mem_addr
    BY <2>1, StoreRowsAlike
  <2>3. Newer(q, Node(t, i), Node(t, j)) <=> Newer(q, Node(u, i), Node(u, j))
    BY <2>2 DEF Newer, Node
  <2>4. \A x, y : SelectLeft(q, x, y) = Newer(q, x, y)
    BY DEF SelectLeft
  <2> HIDE DEF q, t, u
  <2> QED BY <2>3, <2>4
<1>3. StSearch(sb, addr) = [hit |-> Reduce(q, t).slot.busy /\ Reduce(q, t).slot.mem_addr = addr,
                           data |-> Reduce(q, t).slot.data]
  BY DEF StSearch
<1>4. StSearch(ride.sb, addr) =
        [hit |-> Reduce(q, u).slot.busy /\ Reduce(q, u).slot.mem_addr = addr,
         data |-> Reduce(q, u).slot.data]
  <2>1. ride.sb.finPtr = sb.finPtr
    BY StoreRowsAlike
  <2> QED BY <2>1 DEF StSearch
<1>5. \A i \in 0..(n-1) : /\ u[i].busy = t[i].busy /\ u[i].mem_addr = t[i].mem_addr
                          /\ t[i].busy => u[i] = t[i]
  BY StoreRowsAlike DEF StRows
<1> HIDE DEF q, t, u, n
<1>6. PICK i \in 0..(n-1) : Reduce(q, t) = Node(t, i) /\ Reduce(q, u) = Node(u, i)
  BY <1>1, <1>2, SameChoice
<1>7. Reduce(q, t).slot = t[i] /\ Reduce(q, u).slot = u[i]
  BY <1>6 DEF Node
<1>8. /\ StSearch(sb, addr).hit = (t[i].busy /\ t[i].mem_addr = addr)
      /\ StSearch(sb, addr).data = t[i].data
  BY <1>3, <1>7
<1>9. /\ StSearch(ride.sb, addr).hit = (u[i].busy /\ u[i].mem_addr = addr)
      /\ StSearch(ride.sb, addr).data = u[i].data
  BY <1>4, <1>7
<1> QED BY <1>5, <1>8, <1>9

(* The search for the first or the last busy row ends in the same row.      *)
LEMMA SameSearch ==
  ASSUME DataInv, Alike, SlaveShape, NEW v, NEW o \in {"first", "last"}, NEW k
  PROVE  SearchIdx(ride.sb.ent, v, o, k) = SearchIdx(sb.ent, v, o, k)
<1> DEFINE q == [op |-> o, value |-> v, killed |-> k]
           t == sb.ent
           u == ride.sb.ent
           n == STBUF_ENT_NUM
<1>1. PowerOfTwo(n) /\ DOMAIN t = 0..(n-1) /\ DOMAIN u = 0..(n-1)
  BY StoresAre
<1>2. \A i \in 0..(n-1) : BusyAfter(u[i], k) = BusyAfter(t[i], k)
  BY StoresAre
<1>3. SearchIdx(t, v, o, k) = [valid |-> BusyAfter(Reduce(q, t).slot, k) = v,
                               idx |-> Reduce(q, t).idx]
  BY DEF SearchIdx
<1>4. SearchIdx(u, v, o, k) = [valid |-> BusyAfter(Reduce(q, u).slot, k) = v,
                               idx |-> Reduce(q, u).idx]
  BY DEF SearchIdx
<1>5. \A x, y : SelectLeft(q, x, y) = IF o = "first" THEN BusyAfter(x.slot, k) = v
                                                     ELSE BusyAfter(y.slot, k) # v
  BY DEF SelectLeft
<1> HIDE DEF q, t, u, n
<1>6. SameSelect(q, t, u, n)
  BY <1>2, <1>5 DEF SameSelect, Node
<1>7. PICK i \in 0..(n-1) : /\ Reduce(q, t) = Node(t, i) /\ Reduce(q, u) = Node(u, i)
                            /\ Reduce(q, u).idx = Reduce(q, t).idx
  BY <1>1, <1>6, SameChoice
<1>8. Reduce(q, t).slot = t[i] /\ Reduce(q, u).slot = u[i]
  BY <1>7 DEF Node
<1>9. (BusyAfter(u[i], k) = v) = (BusyAfter(t[i], k) = v)
  BY <1>2
<1> QED BY <1>3, <1>4, <1>7, <1>8, <1>9 DEF t, u

(* The second memory stage of the slave becomes alike that of the master.   *)
LEMMA SlaveLs2 ==
  ASSUME CoreInv, DataInv, Alike, SlaveShape
  PROVE  Ls2Alike(NextLs2, Slave.ls2)
<1>0. SameParts /\ ride.ex = ex /\ Ls2Alike(ls2, ride.ls2)
  BY DEF Alike, SameParts
<1>1. Slave.ls2 = IF Ride!LsGoes(Wires)
                    THEN [full |-> TRUE, src |-> ride.ex["ls"].src,
                          hit |-> Ride!StSearch(ride.sb, Ride!EffAddr).hit,
                          data |-> Ride!StSearch(ride.sb, Ride!EffAddr).data]
                    ELSE [ride.ls2 EXCEPT !.full = FALSE]
  BY SlaveIs DEF Ride!CoreNext
<1>2. \A s, a : Ride!StSearch(s, a) = StSearch(s, a)
  BY SameReduce DEF Ride!StSearch, StSearch
<1>3. Slave.ls2 = IF LsGoes(Wires)
                    THEN [full |-> TRUE, src |-> ex["ls"].src,
                          hit |-> StSearch(ride.sb, EffAddr).hit,
                          data |-> StSearch(ride.sb, EffAddr).data]
                    ELSE [ride.ls2 EXCEPT !.full = FALSE]
  BY <1>0, <1>1, <1>2, SameWires, SameMoves
<1>4. CASE LsGoes(Wires)
  <2>1. StSearch(ride.sb, EffAddr).hit = StSearch(sb, EffAddr).hit
        /\ (StSearch(sb, EffAddr).hit =>
              StSearch(ride.sb, EffAddr).data = StSearch(sb, EffAddr).data)
    BY SameFound
  <2> QED BY <1>3, <1>4, <2>1 DEF NextLs2, Ls2Alike
<1>5. CASE ~LsGoes(Wires)
  <2>1. "full" \in DOMAIN ride.ls2 /\ "full" \in DOMAIN ls2
    BY DEF SlaveShape, CoreShape, StoresShape, CoreInv, Shapes
  <2> QED BY <1>3, <1>5, <2>1 DEF NextLs2, Ls2Alike
<1> QED BY <1>4, <1>5

(* The operators of the store buffer are the same for both cores.           *)
LEMMA SameStoreOps ==
  /\ \A s, k : Ride!StMisPred(s, k) = StMisPred(s, k)
  /\ \A s, w, c, r : Ride!StEnt(s, w, c, r) = StEnt(s, w, c, r)
  /\ \A s, o, w, e, a : Ride!StNew(s, o, w, e, a) = StNew(s, o, w, e, a)
  /\ \A p : Ride!StInc(p) = StInc(p)
  /\ \A w : Ride!Killed(w) = Killed(w)
<1>0. \A p : Ride!StInc(p) = StInc(p)
  BY DEF Ride!StInc, StInc
<1>1. \A s, k : Ride!StMisPred(s, k) = StMisPred(s, k)
  <2>1. \A t, f, l : Ride!RoundTheEnd(t, f, l) = RoundTheEnd(t, f, l)
    BY DEF Ride!RoundTheEnd, RoundTheEnd, Ride!Rows, Rows, Ride!Cardinality, Cardinality
  <2> SUFFICES ASSUME NEW s, NEW k
               PROVE  Ride!StMisPred(s, k) = StMisPred(s, k)
    OBVIOUS
  <2>2. \A v, o : Ride!SearchIdx(s.ent, v, o, k) = SearchIdx(s.ent, v, o, k)
    BY SameRsvOps
  <2>3. \A e, f : Ride!RoundTheEnd(s.ent, e, f) = RoundTheEnd(s.ent, e, f)
    BY <2>1
  <2> QED BY <1>0, <2>2, <2>3 DEF Ride!StMisPred, StMisPred
<1>2. \A s, w, c, r : Ride!StEnt(s, w, c, r) = StEnt(s, w, c, r)
  BY DEF Ride!StEnt, StEnt, Ride!CheckIsKill, CheckIsKill, Ride!StRows, StRows
<1>3. \A s, o, w, e, a : Ride!StNew(s, o, w, e, a) = StNew(s, o, w, e, a)
  BY DEF Ride!StNew, StNew, Ride!CheckIsSuc, CheckIsSuc, Ride!StInc, StInc
<1>4. \A w : Ride!Killed(w) = Killed(w)
  BY DEF Ride!Killed, Killed
<1> QED BY <1>0, <1>1, <1>2, <1>3, <1>4

(* A mispredict turns the pointers of both buffers back to the same rows.   *)
LEMMA SameTurn ==
  ASSUME DataInv, Alike, SlaveShape, NEW k
  PROVE  LET m == StMisPred(sb, k)
             r == StMisPred(ride.sb, k)
         IN  /\ r.finPtr = m.finPtr /\ r.comPtr = m.comPtr /\ r.retPtr = m.retPtr
             /\ DOMAIN r = DOMAIN ride.sb /\ DOMAIN m = DOMAIN sb
<1> DEFINE e1 == SearchIdx(sb.ent, TRUE, "last", k)
           b0 == SearchIdx(sb.ent, FALSE, "first", k)
           b1 == SearchIdx(sb.ent, TRUE, "first", k)
           turned == RoundTheEnd(sb.ent, b1, e1)
           back(s) == [s EXCEPT !.finPtr = CASE ~e1.valid \/ ~b0.valid -> @
                                             [] e1.valid /\ b0.valid /\ turned -> b0.idx
                                             [] OTHER                  -> StInc(e1.idx),
                                !.comPtr = IF e1.valid THEN @ ELSE s.finPtr,
                                !.retPtr = IF e1.valid THEN @ ELSE s.finPtr]
<1>1. /\ SearchIdx(ride.sb.ent, TRUE, "last", k) = e1
      /\ SearchIdx(ride.sb.ent, FALSE, "first", k) = b0
      /\ SearchIdx(ride.sb.ent, TRUE, "first", k) = b1
  BY SameSearch
<1>2. RoundTheEnd(ride.sb.ent, b1, e1) = turned
  BY StoresAre DEF RoundTheEnd, Rows
<1>3. StMisPred(sb, k) = back(sb)
  BY DEF StMisPred
<1>4. StMisPred(ride.sb, k) = back(ride.sb)
  BY <1>1, <1>2 DEF StMisPred
<1>5. /\ DOMAIN sb = {"ent", "finPtr", "comPtr", "retPtr"}
      /\ DOMAIN ride.sb = {"ent", "finPtr", "comPtr", "retPtr"}
      /\ ride.sb.finPtr = sb.finPtr /\ ride.sb.comPtr = sb.comPtr
      /\ ride.sb.retPtr = sb.retPtr
  BY StoreRowsAlike DEF SlaveShape, CoreShape, StoresShape, StoreBufferOk
<1> HIDE DEF e1, b0, b1, turned
<1> QED BY <1>3, <1>4, <1>5

(* The same store is committed.                                             *)
LEMMA SameStoreCommit ==
  ASSUME CoreInv, Alike
  PROVE  Ride!StoreCommitted(Count) = StoreCommitted(Count)
<1>1. /\ RingOk /\ Count \in 0..2 /\ Count <= Waiting /\ comPtr \in Ptrs
      /\ Waiting \in Int
  BY CountFacts, RingFacts, RingSize DEF CoreInv
<1>2. ASSUME NEW k \in 1..Count
      PROVE  ride.rob[Inc(comPtr, k-1)] = rob[Inc(comPtr, k-1)]
  <2> PICK p : p = Inc(comPtr, k-1)
    OBVIOUS
  <2>1. p \in Ptrs /\ Gap(comPtr, p) = k - 1
    BY <1>1, RingSize DEF Gap, Inc
  <2>2. Age(p) = k - 1
    BY <1>1, <2>1, AgeIs
  <2>3. p \in InFlight
    BY <1>1, <2>1, <2>2, InFlightIs
  <2> QED BY <2>1, <2>3 DEF Alike, RobAlike
<1>3. \A k : Ride!Inc(ride.comPtr, k-1) = Inc(comPtr, k-1)
  BY SamePureOps DEF Alike, SameParts
<1> QED BY <1>2, <1>3 DEF Ride!StoreCommitted, StoreCommitted

(* A row of the buffers before the new store is put in: alike.              *)
LEMMA SameStoreRow ==
  ASSUME DataInv, Alike, SlaveShape, NEW c, NEW r, NEW i \in StRows
  PROVE  LET a == StEnt(sb, Wires, c, r)[i]
             b == StEnt(ride.sb, Wires, c, r)[i]
         IN  /\ b.busy = a.busy /\ b.complete = a.complete /\ b.mem_addr = a.mem_addr
             /\ a.busy => b = a
             /\ DOMAIN b = StoreParts /\ DOMAIN a = StoreParts
<1> DEFINE f(e) == [e EXCEPT
                      !.spec = @ /\ ~(Wires.suc /\ e.specTag = Wires.tag),
                      !.complete = (@ \/ (c /\ i = sb.comPtr)) /\ ~(r /\ i = sb.retPtr),
                      !.busy = @ /\ ~(r /\ i = sb.retPtr) /\ ~CheckIsKill(Wires, e)]
<1>1. /\ ride.sb.comPtr = sb.comPtr /\ ride.sb.retPtr = sb.retPtr
      /\ ride.sb.ent[i].busy = sb.ent[i].busy
      /\ ride.sb.ent[i].complete = sb.ent[i].complete
      /\ ride.sb.ent[i].mem_addr = sb.ent[i].mem_addr
      /\ sb.ent[i].busy => ride.sb.ent[i] = sb.ent[i]
  BY StoreRowsAlike
<1>2. StEnt(sb, Wires, c, r)[i] = f(sb.ent[i]) /\ StEnt(ride.sb, Wires, c, r)[i] = f(ride.sb.ent[i])
  BY <1>1 DEF StEnt
<1>3. ASSUME NEW e, DOMAIN e = StoreParts
      PROVE  /\ DOMAIN f(e) = StoreParts /\ f(e).mem_addr = e.mem_addr
             /\ f(e).complete = ((e.complete \/ (c /\ i = sb.comPtr)) /\ ~(r /\ i = sb.retPtr))
             /\ f(e).busy = (e.busy /\ ~(r /\ i = sb.retPtr) /\ ~CheckIsKill(Wires, e))
  <2>1. "mem_addr" \in StoreParts /\ "complete" \in StoreParts /\ "busy" \in StoreParts
    BY DEF StoreParts
  <2> HIDE DEF StoreParts
  <2>2. DOMAIN f(e) = StoreParts
    BY <1>3
  <2>3. f(e).mem_addr = e.mem_addr
    BY <1>3, <2>1
  <2>4. f(e).complete = ((e.complete \/ (c /\ i = sb.comPtr)) /\ ~(r /\ i = sb.retPtr))
    BY <1>3, <2>1
  <2>5. f(e).busy = (e.busy /\ ~(r /\ i = sb.retPtr) /\ ~CheckIsKill(Wires, e))
    BY <1>3, <2>1
  <2> QED BY <2>2, <2>3, <2>4, <2>5
<1>4. DOMAIN sb.ent[i] = StoreParts /\ DOMAIN ride.sb.ent[i] = StoreParts
  BY DEF SlaveShape, CoreShape, StoresShape
<1> HIDE DEF f
<1>5. CASE sb.ent[i].busy
  BY <1>1, <1>2, <1>3, <1>4, <1>5
<1>6. CASE ~sb.ent[i].busy
  <2>1. ~ride.sb.ent[i].busy
    BY <1>1, <1>6
  <2>2. /\ f(sb.ent[i]).busy = FALSE /\ f(ride.sb.ent[i]).busy = FALSE
    BY <1>3, <1>4, <1>6, <2>1
  <2>3. /\ f(ride.sb.ent[i]).complete = f(sb.ent[i]).complete
        /\ f(ride.sb.ent[i]).mem_addr = f(sb.ent[i]).mem_addr
        /\ DOMAIN f(ride.sb.ent[i]) = StoreParts /\ DOMAIN f(sb.ent[i]) = StoreParts
    BY <1>1, <1>3, <1>4
  <2> QED BY <1>2, <2>2, <2>3
<1> QED BY <1>5, <1>6

(* The store buffer of the slave becomes alike that of the master.          *)
LEMMA SlaveStores ==
  ASSUME CoreInv, DataInv, Alike, SlaveShape
  PROVE  StoresAlike(StBufNext(Wires, Count), Slave.sb)
<1> DEFINE C == StoreCommitted(Count)
           R == Retiring(Wires)
           first(s) == IF Wires.mis THEN StMisPred(s, Killed(Wires)) ELSE s
           next(s) == [first(s) EXCEPT
                         !.ent = StEnt(s, Wires, C, R),
                         !.comPtr = IF C THEN StInc(@) ELSE @,
                         !.retPtr = IF R THEN StInc(@) ELSE @]
           whole(s) == IF Storing(Wires) THEN StNew(next(s), s, Wires, ex["ls"].src, EffAddr)
                                         ELSE next(s)
<1>0. SameParts /\ ride.ex = ex
  BY DEF Alike, SameParts
<1>1. StBufNext(Wires, Count) = whole(sb)
  BY DEF StBufNext
<1>2. Slave.sb = whole(ride.sb)
  <2>1. Slave.sb = Ride!StBufNext(Wires, Count)
    BY SlaveIs DEF Ride!CoreNext
  <2>2. Ride!StoreCommitted(Count) = C /\ Ride!Retiring(Wires) = R
        /\ Ride!Storing(Wires) = Storing(Wires) /\ Ride!EffAddr = EffAddr
        /\ Ride!Killed(Wires) = Killed(Wires)
    BY <1>0, SameStoreCommit, SameMoves, SameWires, SameStoreOps
  <2> HIDE DEF C, R
  <2> QED BY <1>0, <2>1, <2>2, SameStoreOps DEF Ride!StBufNext
<1>3. /\ ride.sb.finPtr = sb.finPtr /\ ride.sb.comPtr = sb.comPtr
      /\ ride.sb.retPtr = sb.retPtr
      /\ DOMAIN sb = {"ent", "finPtr", "comPtr", "retPtr"}
      /\ DOMAIN ride.sb = {"ent", "finPtr", "comPtr", "retPtr"}
      /\ sb.finPtr \in StRows
  BY StoreRowsAlike DEF SlaveShape, CoreShape, StoresShape, StoreBufferOk
<1>4. /\ first(ride.sb).finPtr = first(sb).finPtr /\ first(ride.sb).comPtr = first(sb).comPtr
      /\ first(ride.sb).retPtr = first(sb).retPtr
      /\ DOMAIN first(sb) = {"ent", "finPtr", "comPtr", "retPtr"}
      /\ DOMAIN first(ride.sb) = {"ent", "finPtr", "comPtr", "retPtr"}
  BY <1>3, SameTurn
<1> HIDE DEF C, R, first
<1>5. /\ next(ride.sb).finPtr = next(sb).finPtr /\ next(ride.sb).comPtr = next(sb).comPtr
      /\ next(ride.sb).retPtr = next(sb).retPtr
      /\ next(ride.sb).ent = StEnt(ride.sb, Wires, C, R)
      /\ next(sb).ent = StEnt(sb, Wires, C, R)
      /\ DOMAIN next(sb) = {"ent", "finPtr", "comPtr", "retPtr"}
      /\ DOMAIN next(ride.sb) = {"ent", "finPtr", "comPtr", "retPtr"}
  BY <1>4
<1>6. \A i \in StRows :
        LET a == next(sb).ent[i]
            b == next(ride.sb).ent[i]
        IN  /\ b.busy = a.busy /\ b.complete = a.complete /\ b.mem_addr = a.mem_addr
            /\ a.busy => b = a
  BY <1>5, SameStoreRow
<1>7. DOMAIN next(sb).ent = StRows /\ DOMAIN next(ride.sb).ent = StRows
  BY <1>5 DEF StEnt
<1> HIDE DEF next
<1>8. CASE ~Storing(Wires)
  BY <1>1, <1>2, <1>5, <1>6, <1>8 DEF StoresAlike
<1>9. CASE Storing(Wires)
  <2> DEFINE x == [busy |-> TRUE, complete |-> FALSE,
                   spec |-> ex["ls"].src.spec /\ ~CheckIsSuc(Wires, ex["ls"].src),
                   specTag |-> ex["ls"].src.specTag,
                   mem_addr |-> EffAddr, data |-> ex["ls"].src.p2]
  <2>1. /\ whole(sb) = [next(sb) EXCEPT !.ent[sb.finPtr] = x, !.finPtr = StInc(sb.finPtr)]
        /\ whole(ride.sb) = [next(ride.sb) EXCEPT !.ent[sb.finPtr] = x,
                                                  !.finPtr = StInc(sb.finPtr)]
    BY <1>3, <1>9 DEF StNew
  <2> HIDE DEF x, whole
  <2>2. /\ whole(ride.sb).finPtr = whole(sb).finPtr /\ whole(ride.sb).comPtr = whole(sb).comPtr
        /\ whole(ride.sb).retPtr = whole(sb).retPtr
        /\ whole(sb).ent = [next(sb).ent EXCEPT ![sb.finPtr] = x]
        /\ whole(ride.sb).ent = [next(ride.sb).ent EXCEPT ![sb.finPtr] = x]
    BY <1>5, <2>1
  <2>3. ASSUME NEW i \in StRows
        PROVE  LET a == whole(sb).ent[i]
                   b == whole(ride.sb).ent[i]
               IN  /\ b.busy = a.busy /\ b.complete = a.complete /\ b.mem_addr = a.mem_addr
                   /\ a.busy => b = a
    <3>1. CASE i = sb.finPtr
      BY <1>3, <1>7, <2>2, <3>1
    <3>2. CASE i # sb.finPtr
      BY <1>3, <1>6, <1>7, <2>2, <3>2
    <3> QED BY <3>1, <3>2
  <2>4. StoresAlike(whole(sb), whole(ride.sb))
    BY ONLY <2>2, <2>3 DEF StoresAlike
  <2>5. StoresAlike(StBufNext(Wires, Count), Slave.sb)
    BY ONLY <1>1, <1>2, <2>4
  <2> QED BY <2>5
<1> QED BY <1>8, <1>9

(* So does the command to the memory, and the memory itself.                *)
LEMMA SlaveCmd ==
  ASSUME CoreInv, DataInv, Alike, SlaveShape
  PROVE  /\ CmdAlike(CmdNext(Wires), Slave.cmd) /\ Slave.cmd = Ride!CmdNext(Wires)
         /\ Slave.dmem = DmemNext
<1>0. SameParts /\ ride.dmem = dmem
  BY DEF Alike, SameParts
<1>1. Slave.cmd = Ride!CmdNext(Wires) /\ Slave.dmem = Ride!DmemNext
  BY SlaveIs DEF Ride!CoreNext
<1>2. Ride!DmemNext = DmemNext
  BY <1>0 DEF Ride!DmemNext, DmemNext, Alike, CmdAlike
<1>3. Ride!CmdNext(Wires) =
        IF Loading(Wires)
          THEN [we |-> FALSE, addr |-> EffAddr, data |-> 0]
          ELSE [we |-> Retiring(Wires), addr |-> ride.sb.ent[ride.sb.retPtr].mem_addr,
                data |-> ride.sb.ent[ride.sb.retPtr].data]
  BY <1>0, SameMoves, SameWires DEF Ride!CmdNext
<1>4. /\ ride.sb.retPtr = sb.retPtr /\ sb.retPtr \in StRows
      /\ ride.sb.ent[sb.retPtr].mem_addr = sb.ent[sb.retPtr].mem_addr
      /\ sb.ent[sb.retPtr].busy => ride.sb.ent[sb.retPtr] = sb.ent[sb.retPtr]
  BY StoreRowsAlike DEF StoreBufferOk
<1>5. Retiring(Wires) => sb.ent[sb.retPtr].busy
  BY DEF Retiring, StRetire
<1>6. CmdAlike(CmdNext(Wires), Ride!CmdNext(Wires))
  <2>1. CASE Loading(Wires)
    BY <1>3, <2>1 DEF CmdNext, CmdAlike
  <2>2. CASE ~Loading(Wires)
    <3>1. CmdNext(Wires) = [we |-> Retiring(Wires), addr |-> sb.ent[sb.retPtr].mem_addr,
                            data |-> sb.ent[sb.retPtr].data]
      BY <2>2 DEF CmdNext
    <3>2. Ride!CmdNext(Wires) = [we |-> Retiring(Wires), addr |-> sb.ent[sb.retPtr].mem_addr,
                            data |-> ride.sb.ent[sb.retPtr].data]
      BY <1>3, <1>4, <2>2
    <3> QED BY <1>4, <1>5, <3>1, <3>2 DEF CmdAlike
  <2> QED BY <2>1, <2>2
<1> QED BY <1>1, <1>2, <1>6

-----------------------------------------------------------------------------
(* Cores that are alike are alike after a cycle, whatever the program does. *)
LEMMA AlikeKept ==
  ASSUME CoreInv, DataInv, Alike, SlaveShape, ClockEdge, ride' = Slave
  PROVE  Alike'
<1>1. SameParts'
  <2>1. /\ Slave.fe = NextFe /\ Slave.tg = NextTg /\ Slave.comPtr = NextComptr
        /\ Slave.arf = NextArf
        /\ Slave.rs = NextRs /\ Slave.alloc = NextAlloc /\ Slave.ex = NextEx
        /\ Slave.dmem = DmemNext
    BY SlaveFront, SlaveArf, SlaveStations, SlaveCmd
  <2>2. dmem' = DmemNext
    BY CycleMemory DEF ClockEdge, SlaveShape, CoreShape, StoresShape
  <2> HIDE DEF Slave
  <2>3. /\ ride'.fe = fe' /\ ride'.tg = tg' /\ ride'.comPtr = comPtr' /\ ride'.arf = arf'
        /\ ride'.rs = rs' /\ ride'.alloc = alloc' /\ ride'.ex = ex' /\ ride'.dmem = dmem'
    BY <2>1, <2>2, Edge
  <2> QED BY <2>3 DEF SameParts
<1>2. RrfAlike(rrf, ride.rrf)'
  <2>1. RrfAlike(rrf', ride'.rrf)
    BY SlaveRrf, Edge
  <2> QED BY <2>1 DEF RrfAlike
<1>3. RobAlike(rob, ride.rob)'
  <2>1. \A p \in Ptrs : /\ ride'.rob[p].wbFin = rob'[p].wbFin
                        /\ ride'.rob[p].isBranch = rob'[p].isBranch
                        /\ p \in InFlight' => ride'.rob[p] = rob'[p]
    BY SlaveRob
  <2> QED BY <2>1 DEF RobAlike
<1>4. Ls2Alike(ls2, ride.ls2)'
  <2>1. Ls2Alike(ls2', ride'.ls2)
    BY SlaveLs2, Edge
  <2> QED BY <2>1 DEF Ls2Alike
<1>5. StoresAlike(sb, ride.sb)'
  <2>1. StoresAlike(sb', ride'.sb)
    BY SlaveStores, StoresEdge
  <2> QED BY <2>1 DEF StoresAlike
<1>6. CmdAlike(cmd, ride.cmd)'
  <2>1. cmd' = CmdNext(Wires)
    BY CycleMemory DEF ClockEdge, SlaveShape, CoreShape, StoresShape, Settled
  <2>2. CmdAlike(cmd', ride'.cmd)
    BY <2>1, SlaveCmd
  <2> QED BY <2>2 DEF CmdAlike
<1> QED BY <1>1, <1>2, <1>3, <1>4, <1>5, <1>6 DEF Alike

(* The part of the rings that the bench compares is what is in flight.      *)
LEMMA RoundIsInFlight ==
  ASSUME CoreInv
  PROVE  Round(comPtr, rrf.reqPtr) \subseteq InFlight
<1>1. /\ rrf.reqPtr \in Ptrs /\ comPtr \in Ptrs /\ Waiting \in Int /\ RingOk
      /\ Waiting >= 0 /\ Waiting <= RRF_NUM
      /\ Waiting = rrf.reqPtr - comPtr \/ Waiting = rrf.reqPtr - comPtr + RRF_NUM
  BY RingFacts, RingSize DEF CoreInv
<1>2. (rrf.reqPtr - comPtr) % RRF_NUM = Gap(comPtr, rrf.reqPtr)
  BY <1>1, GapIs
<1>3. Gap(comPtr, rrf.reqPtr) <= Waiting
  BY <1>1, RingSize DEF Gap
<1>4. ASSUME NEW p \in Round(comPtr, rrf.reqPtr)
      PROVE  p \in InFlight
  <2>1. p \in Ptrs /\ Age(p) < Gap(comPtr, rrf.reqPtr)
    BY <1>2 DEF Round, Age
  <2>2. Age(p) \in Ptrs
    BY <1>1, <2>1, AgeIs
  <2>3. Gap(comPtr, rrf.reqPtr) \in Ptrs
    BY <1>1, GapIs
  <2> PICK a : a = Age(p)
    OBVIOUS
  <2> PICK b : b = Gap(comPtr, rrf.reqPtr)
    OBVIOUS
  <2> PICK c : c = Waiting
    OBVIOUS
  <2>4. a \in Int /\ b \in Int /\ c \in Int /\ a < b /\ b <= c
    BY <1>1, <1>3, <2>1, <2>2, <2>3, RingSize
  <2>5. a < c
    BY <2>4
  <2> QED BY <2>1, <2>5, InFlightIs
<1> QED BY <1>4

(* The bench finds no difference of cores that are alike.                   *)
LEMMA AlikeCompares ==
  ASSUME CoreInv, DataInv, Alike, SlaveShape
  PROVE  DoCompare(Settled, Ride!Settled)
<1> DEFINE S == [w |-> Wires, n |-> Count, dispatched |-> Goes, decoded |-> Fills]
           l == Recruit(S)
           r == Ride!Recruit(S)
<1>0. /\ SameParts /\ RrfAlike(rrf, ride.rrf) /\ RobAlike(rob, ride.rob)
      /\ Ls2Alike(ls2, ride.ls2) /\ StoresAlike(sb, ride.sb) /\ CmdAlike(cmd, ride.cmd)
  BY DEF Alike
<1>1. Settled = S /\ Ride!Settled = S
  BY SameSettled
<1>p. \A t, g : Ride!PipState(t, g) = PipState(t, g)
  BY DEF Ride!PipState, PipState
<1>2. r.fetch = l.fetch
  BY <1>0, <1>p, SameFront DEF Recruit, Ride!Recruit, SameParts
<1>3. r.decode = l.decode
  BY <1>0, <1>p DEF Recruit, Ride!Recruit, SameParts
<1>4. r.dispatch = l.dispatch
  BY <1>0, <1>p DEF Recruit, Ride!Recruit, SameParts
<1>5. r.rsv = l.rsv /\ r.tagMgmt = l.tagMgmt /\ r.arf = l.arf
  BY <1>0 DEF Recruit, Ride!Recruit, SameParts
<1>6. r.exec = l.exec
  <2>1. Ride!LsGoes(S.w) = LsGoes(S.w) /\ Ride!Units = Units /\ ride.ex = ex
    BY <1>0, SameMoves, SamePureOps DEF SameParts
  <2>2. ASSUME NEW u
        PROVE  Ride!PipState(ride.ex[u].full, u = "ls" => Ride!LsGoes(S.w))
                 = PipState(ex[u].full, u = "ls" => LsGoes(S.w))
    BY <1>p, <2>1
  <2>3. /\ r.exec = [u \in Ride!Units |->
                       Ride!PipState(ride.ex[u].full, u = "ls" => Ride!LsGoes(S.w))]
        /\ l.exec = [u \in Units |-> PipState(ex[u].full, u = "ls" => LsGoes(S.w))]
    BY DEF Recruit, Ride!Recruit
  <2> QED BY <2>1, <2>2, <2>3
<1>7. /\ r.ldst.effAddr = l.ldst.effAddr /\ r.ldst.st2 = l.ldst.st2
      /\ ls2.full => r.ldst.src = l.ldst.src /\ r.ldst.stBufHit = l.ldst.stBufHit
      /\ ls2.full /\ l.ldst.stBufHit => r.ldst.stBufData = l.ldst.stBufData
      /\ r.ldst.loadData = l.ldst.loadData
      /\ l.ldst.st2 = "RUNNING" => ls2.full
  <2>1. r.ldst.effAddr = l.ldst.effAddr
    BY <1>0, SameWires DEF Recruit, Ride!Recruit
  <2>2. /\ l.ldst.st2 = PipState(ls2.full, TRUE) /\ r.ldst.st2 = Ride!PipState(ride.ls2.full, TRUE)
        /\ l.ldst.src = ls2.src /\ r.ldst.src = ride.ls2.src
        /\ l.ldst.stBufHit = ls2.hit /\ r.ldst.stBufHit = ride.ls2.hit
        /\ l.ldst.stBufData = ls2.data /\ r.ldst.stBufData = ride.ls2.data
        /\ l.ldst.loadData = dmem[cmd.addr] /\ r.ldst.loadData = ride.dmem[ride.cmd.addr]
    BY DEF Recruit, Ride!Recruit
  <2>3. /\ ride.ls2.full = ls2.full
        /\ ls2.full => ride.ls2.src = ls2.src /\ ride.ls2.hit = ls2.hit
                         /\ (ls2.hit => ride.ls2.data = ls2.data)
    BY <1>0 DEF Ls2Alike
  <2>4. ride.dmem = dmem /\ ride.cmd.addr = cmd.addr
    BY <1>0 DEF SameParts, CmdAlike
  <2>5. PipState(ls2.full, TRUE) = "RUNNING" => ls2.full
    BY DEF PipState
  <2>6. Ride!PipState(ride.ls2.full, TRUE) = PipState(ls2.full, TRUE)
    BY <1>p, <2>3
  <2> HIDE DEF l, r
  <2> QED BY ONLY <2>1, <2>2, <2>3, <2>4, <2>5, <2>6
<1>8. /\ r.rob.comPtr = l.rob.comPtr /\ r.rob.status = l.rob.status
      /\ l.rob.comPtr = comPtr /\ r.rob.ent = ride.rob /\ l.rob.ent = rob
      /\ r.stbuf = ride.sb /\ l.stbuf = sb /\ r.rrf = ride.rrf /\ l.rrf = rrf
  BY <1>0 DEF Recruit, Ride!Recruit, SameParts
<1> HIDE DEF l, r, S
<1>9. FetchCompare(l.fetch, r.fetch) /\ DecodeCompare(l.decode, r.decode)
      /\ DispatchCompare(l.dispatch, r.dispatch)
  BY <1>2, <1>3, <1>4 DEF FetchCompare, DecodeCompare, DispatchCompare, DispInstrCompare, Same
<1>10. \A u \in Units : \A i \in DOMAIN l.rsv[u] : RsvCompare(u, l.rsv[u][i], r.rsv[u][i])
  BY <1>5 DEF RsvCompare, Same
<1>11. ExecCompare(l, r)
  BY <1>6, <1>7 DEF ExecCompare, Same
<1>12. RobCompare(l.rob, r.rob, l.rrf.reqPtr)
  BY <1>0, <1>8, RoundIsInFlight DEF RobCompare, Same, RobAlike, InFlight
<1>13. StbufCompare(l.stbuf, r.stbuf)
  BY <1>0, <1>8 DEF StbufCompare, Same, StoresAlike
<1>14. TagCompare(l.tagMgmt, r.tagMgmt) /\ ArfCompare(l.arf, r.arf)
  BY <1>5 DEF TagCompare, ArfCompare, Same
<1>15. RrfCompare(l.rrf, r.rrf, l.rob.comPtr)
  BY <1>0, <1>8 DEF RrfCompare, Same, RrfAlike, Round
<1>16. Compare(l, r)
  BY <1>9, <1>10, <1>11, <1>12, <1>13, <1>14, <1>15 DEF Compare
<1>17. MemOpCompare(CmdNext(S.w), Ride!CmdNext(S.w))
  <2>1. S.w = Wires
    BY DEF S
  <2> QED BY <2>1, SlaveCmd DEF MemOpCompare, CmdAlike
<1> QED BY <1>1, <1>16, <1>17 DEF DoCompare, l, r

-----------------------------------------------------------------------------
(* The store buffer s after a cycle with the wires w, before a new store: c is*)
(* the commit, r the retirement of a store.                                 *)
Advanced(s, w, c, r) ==
  [(IF w.mis THEN StMisPred(s, Killed(w)) ELSE s) EXCEPT
     !.ent = StEnt(s, w, c, r),
     !.comPtr = IF c THEN StInc(@) ELSE @,
     !.retPtr = IF r THEN StInc(@) ELSE @]

(* A cycle keeps the fields of a store buffer.                              *)
LEMMA StoresShapeKept ==
  ASSUME NEW s, StoresShape(s), NEW w, NEW c, NEW r, NEW e, NEW a
  PROVE  /\ StoresShape(Advanced(s, w, c, r))
         /\ StoresShape(StNew(Advanced(s, w, c, r), s, w, e, a))
<1> DEFINE s0 == IF w.mis THEN StMisPred(s, Killed(w)) ELSE s
           p == IF c THEN StInc(s0.comPtr) ELSE s0.comPtr
           q == IF r THEN StInc(s0.retPtr) ELSE s0.retPtr
           z == StEnt(s, w, c, r)
           s1 == Advanced(s, w, c, r)
           x == [busy |-> TRUE, complete |-> FALSE, spec |-> e.spec /\ ~CheckIsSuc(w, e),
                 specTag |-> e.specTag, mem_addr |-> a, data |-> e.p2]
           s2 == StNew(s1, s, w, e, a)
<1>1. StoreBufferOk(s0) /\ StoreBufferOk(s)
  BY StMisPredOk DEF StoresShape
<1>2. DOMAIN z = StRows /\ \A i \in StRows : DOMAIN z[i] = StoreParts
  BY DEF StEnt, StoresShape
<1>3. s1 = [s0 EXCEPT !.ent = z, !.comPtr = p, !.retPtr = q]
  <2>1. DOMAIN s0 = {"ent", "finPtr", "comPtr", "retPtr"}
    BY <1>1 DEF StoreBufferOk
  <2> HIDE DEF z
  <2>2. s1 = [s0 EXCEPT !.ent = z, !.comPtr = IF c THEN StInc(@) ELSE @,
                        !.retPtr = IF r THEN StInc(@) ELSE @]
    BY DEF Advanced, z
  <2> HIDE DEF s0, s1
  <2> QED BY <2>1, <2>2
<1>4. s2 = [s1 EXCEPT !.ent = [@ EXCEPT ![s.finPtr] = x], !.finPtr = StInc(s.finPtr)]
  BY DEF StNew
<1>5. DOMAIN x = StoreParts
  BY DEF StoreParts
<1> HIDE DEF s0, z, x, s1, s2
<1>6. p \in StRows /\ q \in StRows /\ StInc(s.finPtr) \in StRows /\ s.finPtr \in StRows
  BY <1>1, StRowsAre DEF StoreBufferOk
<1> HIDE DEF p, q
<1>7. StoreBufferOk(s1) /\ s1.ent = z
  BY <1>1, <1>2, <1>3, <1>6 DEF StoreBufferOk
<1>8. DOMAIN [z EXCEPT ![s.finPtr] = x] = StRows
      /\ \A i \in StRows : DOMAIN [z EXCEPT ![s.finPtr] = x][i] = StoreParts
  BY <1>2, <1>5, <1>6
<1>9. StoreBufferOk(s2) /\ s2.ent = [z EXCEPT ![s.finPtr] = x]
  <2>1. s1.ent = z /\ DOMAIN s1 = {"ent", "finPtr", "comPtr", "retPtr"}
    BY <1>7 DEF StoreBufferOk
  <2> PICK y : y = [z EXCEPT ![s.finPtr] = x]
    OBVIOUS
  <2>2. s2 = [s1 EXCEPT !.ent = y, !.finPtr = StInc(s.finPtr)]
    BY <1>4, <2>1
  <2>3. s2.ent = y /\ DOMAIN s2 = {"ent", "finPtr", "comPtr", "retPtr"}
        /\ s2.finPtr = StInc(s.finPtr) /\ s2.comPtr = s1.comPtr /\ s2.retPtr = s1.retPtr
    BY <2>1, <2>2
  <2> QED BY <1>6, <1>7, <1>8, <2>3 DEF StoreBufferOk
<1>10. StoresShape(s1) /\ StoresShape(s2)
  BY <1>2, <1>7, <1>8, <1>9 DEF StoresShape
<1> QED BY <1>10 DEF s1, s2

(* So it does in both cores.                                                *)
LEMMA BuffersKept ==
  ASSUME SlaveShape, NEW w, NEW n
  PROVE  StoresShape(StBufNext(w, n)) /\ StoresShape(Ride!StBufNext(w, n))
<1>1. StBufNext(w, n) =
        IF Storing(w) THEN StNew(Advanced(sb, w, StoreCommitted(n), Retiring(w)), sb, w,
                                 ex["ls"].src, EffAddr)
        ELSE Advanced(sb, w, StoreCommitted(n), Retiring(w))
  BY DEF StBufNext, Advanced
<1>2. Ride!StBufNext(w, n) =
        IF Ride!Storing(w)
          THEN StNew(Advanced(ride.sb, w, Ride!StoreCommitted(n), Ride!Retiring(w)), ride.sb, w,
                     ride.ex["ls"].src, Ride!EffAddr)
          ELSE Advanced(ride.sb, w, Ride!StoreCommitted(n), Ride!Retiring(w))
  BY SameStoreOps DEF Ride!StBufNext, Advanced
<1> QED BY <1>1, <1>2, StoresShapeKept DEF SlaveShape, CoreShape

(* A cycle of the slave keeps the fields of a core.                         *)
LEMMA SlaveCycleShape ==
  ASSUME SlaveShape
  PROVE  CoreShape(Ride!CoreNext(Ride!Settled))
<1> PICK v : v = Ride!Settled
  OBVIOUS
<1> DEFINE s == Ride!CoreNext(v)
<1>1. IsCore(s)
  BY CoreNextIsCore
<1>2. StoresShape(s.sb)
  BY BuffersKept DEF Ride!CoreNext
<1>3. DOMAIN s.rob = Ptrs
  BY SamePureOps DEF Ride!CoreNext
<1>4. ASSUME NEW p \in Ptrs PROVE DOMAIN s.rob[p] = RobFields
  <2>1. \A k : DOMAIN Ride!RobEntry(k) = RobFields
    BY DEF Ride!RobEntry, RobFields
  <2>2. \/ \E k : s.rob[p] = Ride!RobEntry(k)
        \/ s.rob[p] = [ride.rob[p] EXCEPT !.wbFin = @ \/ p \in Ride!WrittenBack]
    BY SamePureOps DEF Ride!CoreNext
  <2> QED BY <2>1, <2>2 DEF SlaveShape, CoreShape
<1>5. DOMAIN s.ls2 = {"full", "src", "hit", "data"}
  <2>1. \/ \E h, d : s.ls2 = [full |-> TRUE, src |-> ride.ex["ls"].src, hit |-> h, data |-> d]
        \/ s.ls2 = [ride.ls2 EXCEPT !.full = FALSE]
    BY DEF Ride!CoreNext
  <2> QED BY <2>1 DEF SlaveShape, CoreShape
<1> QED BY <1>1, <1>2, <1>3, <1>4, <1>5 DEF CoreShape

(* The store buffer has a first row.                                        *)
LEMMA RowZero == 0 \in StRows
<1>1. STBUF_ENT_NUM \in Nat \ {0}
  BY StRowsAre
<1> QED BY <1>1 DEF StRows

(* The start of a workload keeps them.                                      *)
LEMMA StartedShape ==
  ASSUME NEW c, CoreShape(c), NEW data
  PROVE  CoreShape(Started(c, data))
<1> PICK s : s = Started(c, data)
  OBVIOUS
<1> PICK ent : ent = [i \in StRows |-> [c.sb.ent[i] EXCEPT !.busy = FALSE, !.complete = FALSE,
                                                         !.spec = FALSE]]
  OBVIOUS
<1> PICK b : b = [p \in Ptrs |-> [c.rob[p] EXCEPT !.wbFin = FALSE, !.isBranch = FALSE]]
  OBVIOUS
<1>1. IsCore(s)
  BY DEF Started, AfterReset, IsCore
<1>2. s.sb = [ent |-> ent, finPtr |-> 0, comPtr |-> 0, retPtr |-> 0]
  BY DEF Started, AfterReset, StReset
<1>4. StoresShape(s.sb)
  <2>1. DOMAIN ent = StRows /\ \A i \in StRows : DOMAIN ent[i] = StoreParts
    BY DEF StoresShape, CoreShape
  <2>2. /\ DOMAIN s.sb = {"ent", "finPtr", "comPtr", "retPtr"}
        /\ s.sb.ent = ent /\ s.sb.finPtr = 0 /\ s.sb.comPtr = 0 /\ s.sb.retPtr = 0
    BY ONLY <1>2
  <2> QED BY RowZero, <2>1, <2>2 DEF StoresShape, StoreBufferOk
<1>5. s.rob = b /\ DOMAIN b = Ptrs /\ \A p \in Ptrs : DOMAIN b[p] = RobFields
  <2>1. s.rob = b
    BY DEF Started, AfterReset
  <2>2. DOMAIN b = Ptrs /\ \A p \in Ptrs : DOMAIN b[p] = RobFields
    BY DEF CoreShape
  <2> QED BY <2>1, <2>2
<1>6. DOMAIN s.ls2 = {"full", "src", "hit", "data"}
  <2>1. s.ls2 = [c.ls2 EXCEPT !.full = FALSE]
    BY DEF Started, AfterReset
  <2> QED BY <2>1 DEF CoreShape
<1> QED BY <1>1, <1>4, <1>5, <1>6 DEF CoreShape

(* A change of one register keeps them.                                     *)
LEMMA AlteredShape ==
  ASSUME NEW c, CoreShape(c), NEW d \in AlteredCore(c)
  PROVE  CoreShape(d)
<1>1. ASSUME NEW v PROVE CoreShape([c EXCEPT !.rs = v])
  BY DEF IsCore, CoreShape
<1>2. ASSUME NEW v PROVE CoreShape([c EXCEPT !.ex = v])
  BY DEF IsCore, CoreShape
<1>5. ASSUME NEW v PROVE CoreShape([c EXCEPT !.fe = v])
  BY DEF IsCore, CoreShape
<1>6. ASSUME NEW v PROVE CoreShape([c EXCEPT !.arf = v])
  BY DEF IsCore, CoreShape
<1>7. ASSUME NEW v PROVE CoreShape([c EXCEPT !.rrf = v])
  BY DEF IsCore, CoreShape
<1>9. ASSUME NEW v PROVE CoreShape([c EXCEPT !.tg = v])
  BY DEF IsCore, CoreShape
<1>3. ASSUME NEW i \in StRows, NEW e \in AlteredStore(c.sb.ent[i])
      PROVE  CoreShape([c EXCEPT !.sb.ent[i] = e])
  <2>1. DOMAIN e = StoreParts
    BY DEF AlteredStore, CoreShape, StoresShape
  <2> PICK x : x = [c.sb.ent EXCEPT ![i] = e]
    OBVIOUS
  <2>2. DOMAIN x = StRows /\ \A j \in StRows : DOMAIN x[j] = StoreParts
    BY <2>1 DEF CoreShape, StoresShape, StoreBufferOk
  <2> PICK y : y = [c.sb EXCEPT !.ent = x]
    OBVIOUS
  <2>3. /\ DOMAIN y = {"ent", "finPtr", "comPtr", "retPtr"}
        /\ y.ent = x /\ y.finPtr = c.sb.finPtr /\ y.comPtr = c.sb.comPtr /\ y.retPtr = c.sb.retPtr
    BY DEF CoreShape, StoresShape, StoreBufferOk
  <2>4. StoresShape(y)
    BY <2>2, <2>3 DEF CoreShape, StoresShape, StoreBufferOk
  <2>5. [c EXCEPT !.sb.ent[i] = e] = [c EXCEPT !.sb = y]
    BY <2>3
  <2>6. CoreShape([c EXCEPT !.sb = y])
    BY <2>4 DEF CoreShape, IsCore
  <2> QED BY <2>5, <2>6
<1>4. ASSUME NEW p \in Ptrs, NEW e \in AlteredRob(c.rob[p])
      PROVE  CoreShape([c EXCEPT !.rob[p] = e])
  <2>1. DOMAIN e = RobFields
    BY DEF AlteredRob, CoreShape
  <2> PICK x : x = [c.rob EXCEPT ![p] = e]
    OBVIOUS
  <2>2. DOMAIN x = Ptrs /\ \A q \in Ptrs : DOMAIN x[q] = RobFields
    BY <2>1 DEF CoreShape
  <2> QED BY <2>2 DEF CoreShape, IsCore
<1>8. /\ \A v : CoreShape([c EXCEPT !.ls2.data = v])
      /\ \A v : CoreShape([c EXCEPT !.ls2.hit = v])
  BY DEF CoreShape, IsCore
<1>10. CoreShape(d)
  <2> DEFINE
        A1 == UNION {UNION {{[c EXCEPT !.rs[u][i] = e] : e \in AlteredRow(c.rs[u][i])} :
                            i \in (0..1) \cap DOMAIN c.rs[u]} : u \in Units}
        A2 == UNION {{[c EXCEPT !.ex[u].src = e] : e \in AlteredOperand(c.ex[u].src)} :
                     u \in Units}
        A3 == UNION {{[c EXCEPT !.sb.ent[i] = e] : e \in AlteredStore(c.sb.ent[i])} :
                     i \in StRows}
        A4 == UNION {{[c EXCEPT !.rob[p] = e] : e \in AlteredRob(c.rob[p])} : p \in Ptrs}
        A5 == {[c EXCEPT !.fe.dcd1 = x] : x \in AlteredLane(c.fe.dcd1)}
        A6 == {[c EXCEPT !.arf.reg[x] = Plus(@, 1)] : x \in Regs \ {0}}
        A7 == {[c EXCEPT !.arf.rename[Master][x] = Inc(@, 1)] : x \in Regs}
        A8 == {[c EXCEPT !.rrf.data[p] = Plus(@, 1)] : p \in Ptrs}
        A9 == {[c EXCEPT !.rrf.valid[p] = ~@] : p \in Ptrs}
        A10 == {[c EXCEPT !.fe.curPc = Plus(@, 1)], [c EXCEPT !.ls2.data = Plus(@, 1)],
                [c EXCEPT !.ls2.hit = ~@], [c EXCEPT !.tg.tagreg = TagAfter(@)]}
  <2>1. d \in A1 => CoreShape(d)
    BY <1>1
  <2>2. d \in A2 => CoreShape(d)
    BY <1>2
  <2>3. d \in A3 => CoreShape(d)
    BY <1>3
  <2>4. d \in A4 => CoreShape(d)
    BY <1>4
  <2>5. d \in A5 => CoreShape(d)
    BY <1>5
  <2>6. d \in A6 \/ d \in A7 => CoreShape(d)
    BY <1>6
  <2>7. d \in A8 \/ d \in A9 => CoreShape(d)
    BY <1>7
  <2>8. d \in A10 => CoreShape(d)
    BY <1>5, <1>8, <1>9
  <2>9. d \in A1 \cup A2 \cup A3 \cup A4 \cup A5 \cup A6 \cup A7 \cup A8 \cup A9 \cup A10
    BY DEF AlteredCore
  <2> HIDE DEF A1, A2, A3, A4, A5, A6, A7, A8, A9, A10
  <2> QED
    BY <2>1, <2>2, <2>3, <2>4, <2>5, <2>6, <2>7, <2>8, <2>9
<1> QED BY <1>10

(* The cores come up with these fields.                                     *)
LEMMA ShapeInit == CompareInit => SlaveShape
<1> SUFFICES ASSUME CompareInit PROVE SlaveShape
  OBVIOUS
<1>1. /\ sb = StReset /\ ride.sb = sb /\ rob = [p \in Ptrs |-> RobReset] /\ ride.rob = rob
      /\ ls2 = [full |-> FALSE, src |-> Blank, hit |-> FALSE, data |-> 0] /\ ride.ls2 = ls2
      /\ IsCore(ride)
  BY DEF CompareInit, Init, Core, IsCore
<1>2. StoresShape(sb)
  BY <1>1, RowZero DEF StReset, StoresShape, StoreBufferOk, StoreParts
<1>3. DOMAIN rob = Ptrs /\ \A p \in Ptrs : DOMAIN rob[p] = RobFields
  BY <1>1 DEF RobReset, RobFields
<1> QED BY <1>1, <1>2, <1>3 DEF SlaveShape, CoreShape

(* Every step of the bench keeps them.                                      *)
LEMMA ShapeKept == SlaveShape /\ [CompareNext]_compareVars => SlaveShape'
<1> SUFFICES ASSUME SlaveShape, [CompareNext]_compareVars PROVE SlaveShape'
  OBVIOUS
<1>0. \A m : m = CoreNext(Settled) => StoresShape(m.sb)
  BY BuffersKept DEF CoreNext
<1>1. ASSUME Alone(Settled, CoreNext(Settled)) PROVE SlaveShape'
  <2> PICK m : m = CoreNext(Settled)
    OBVIOUS
  <2>1. ride' = ride /\ sb' = m.sb
    BY <1>1 DEF Alone, Cycle, Becomes
  <2> QED BY <1>0, <2>1 DEF SlaveShape
<1>2. ASSUME NEW m, m = CoreNext(Settled), NEW s, s = Ride!CoreNext(Ride!Settled),
             WorkloadInit(m, s)
      PROVE  SlaveShape'
  <2> PICK data : data = Loaded(jobs[ctl.job].data)
    OBVIOUS
  <2> PICK n : n = Started(m, data)
    OBVIOUS
  <2>1. ride' = Started(s, data) /\ sb' = n.sb
    BY <1>2 DEF WorkloadInit, Becomes
  <2>2. CoreShape(ride')
    BY <1>2, <2>1, SlaveCycleShape, StartedShape
  <2> PICK ent : ent = [i \in StRows |-> [m.sb.ent[i] EXCEPT !.busy = FALSE, !.complete = FALSE,
                                                             !.spec = FALSE]]
    OBVIOUS
  <2>3. n.sb = [ent |-> ent, finPtr |-> 0, comPtr |-> 0, retPtr |-> 0]
    BY DEF Started, AfterReset, StReset
  <2>4. DOMAIN ent = StRows /\ \A i \in StRows : DOMAIN ent[i] = StoreParts
    BY <1>0, <1>2 DEF StoresShape
  <2>5. /\ DOMAIN n.sb = {"ent", "finPtr", "comPtr", "retPtr"}
        /\ n.sb.ent = ent /\ n.sb.finPtr = 0 /\ n.sb.comPtr = 0 /\ n.sb.retPtr = 0
    BY ONLY <2>3
  <2>6. StoresShape(n.sb)
    BY RowZero, <2>4, <2>5 DEF StoresShape, StoreBufferOk
  <2> QED BY <2>1, <2>2, <2>6 DEF SlaveShape
<1>3. ASSUME NEW m, m = CoreNext(Settled), NEW s, s = Ride!CoreNext(Ride!Settled), NEW l, NEW r,
             CompareCycle(l, r, m, s)
      PROVE  SlaveShape'
  <2>1. ride' = s /\ sb' = m.sb
    BY <1>3 DEF CompareCycle, Cycle, Becomes
  <2> QED BY <1>0, <1>3, <2>1, SlaveCycleShape DEF SlaveShape
<1>4. ASSUME Upset PROVE SlaveShape'
  <2>1. ride' \in AlteredCore(ride) /\ sb' = sb
    BY <1>4 DEF Upset, vars
  <2> QED BY <2>1, AlteredShape DEF SlaveShape
<1>5. ASSUME UNCHANGED compareVars PROVE SlaveShape'
  <2>1. ride' = ride /\ sb' = sb
    BY <1>5 DEF compareVars, vars
  <2> QED BY <2>1 DEF SlaveShape
<1> QED
  BY <1>1, <1>2, <1>3, <1>4, <1>5 DEF CompareNext, Summarized

(* After a reset nothing is in flight.                                      *)
LEMMA FreshFliesNothing == Fresh => InFlight = {}
<1> SUFFICES ASSUME Fresh, NEW p \in InFlight PROVE FALSE
  OBVIOUS
<1>1. RRF_NUM \in Nat \ {0} /\ p \in Int /\ comPtr = 0
  BY RingSize DEF InFlight, Ptrs, Fresh
<1>2. Rem(rrf, comPtr) = 0
  BY <1>1 DEF Rem, RoundOver, Fresh
<1>3. Age(p) >= 0
  BY <1>1 DEF Age
<1>4. Age(p) \in Int
  BY <1>1 DEF Age
<1> QED BY <1>2, <1>3, <1>4 DEF InFlight

(* The same of the state after a step.                                      *)
LEMMA FreshFliesNothingThen == Fresh' => (InFlight = {})'
BY FreshFliesNothing, PTL

(* The reset of a workload leaves a read of the address in the first row.   *)
LEMMA StartedCmd ==
  ASSUME NEW c, NEW data
  PROVE  Started(c, data).cmd.we = FALSE /\ Started(c, data).cmd.addr = c.sb.ent[0].mem_addr
<1> PICK a : a = AfterReset(c)
  OBVIOUS
<1> PICK k : k = [we |-> FALSE, addr |-> c.sb.ent[0].mem_addr, data |-> c.sb.ent[0].data]
  OBVIOUS
<1>1. "cmd" \in DOMAIN a
  BY DEF AfterReset
<1>2. Started(c, data) = [a EXCEPT !.dmem = data, !.cmd = k]
  BY DEF Started
<1>3. Started(c, data).cmd = k
  BY ONLY <1>1, <1>2
<1>4. k.we = FALSE /\ k.addr = c.sb.ent[0].mem_addr
  OBVIOUS
<1> QED BY <1>3, <1>4

(* A workload begins with cores that are alike if the rows of their store   *)
(* buffers hold the same addresses (WorkloadInit adds it to guilty if not): *)
(* the other registers without a reset are not read before they are written.*)
LEMMA StartAlike ==
  ASSUME CoreInv, SlaveShape, NEW m, m = CoreNext(Settled),
         NEW s, s = Ride!CoreNext(Ride!Settled),
         WorkloadInit(m, s), Addresses(m) = Addresses(s)
  PROVE  Alike'
<1> PICK data : data = Loaded(jobs[ctl.job].data)
  OBVIOUS
<1> PICK x : x = Started(m, data)
  OBVIOUS
<1> PICK y : y = Started(s, data)
  OBVIOUS
<1>1. ride' = y /\ Becomes(x)
  BY DEF WorkloadInit
<1>2. Fresh'
  <2>1. Becomes(Started(m, data))
    BY <1>1
  <2> QED BY <2>1, StartIs
<1>3. /\ StoresShape(m.sb) /\ StoresShape(s.sb) /\ CoreShape(s)
  <2>1. StoresShape(m.sb)
    BY BuffersKept DEF CoreNext
  <2>2. CoreShape(s)
    BY SlaveCycleShape
  <2> QED BY <2>1, <2>2 DEF CoreShape
<1>4. SameParts'
  <2>1. /\ x.fe = y.fe /\ x.tg = y.tg /\ x.arf = y.arf /\ x.comPtr = y.comPtr
        /\ x.rs = y.rs /\ x.alloc = y.alloc /\ x.ex = y.ex /\ x.dmem = y.dmem
    BY DEF Started, AfterReset
  <2> QED BY <1>1, <2>1 DEF SameParts, Becomes
<1>5. RrfAlike(rrf', ride.rrf')
  <2>1. x.rrf = [RrfReset EXCEPT !.data = m.rrf.data]
        /\ y.rrf = [RrfReset EXCEPT !.data = s.rrf.data]
    BY DEF Started, AfterReset
  <2>2. /\ x.rrf.valid = [p \in Ptrs |-> FALSE] /\ y.rrf.valid = [p \in Ptrs |-> FALSE]
        /\ x.rrf.freenum = y.rrf.freenum /\ x.rrf.reqPtr = y.rrf.reqPtr
        /\ x.rrf.nextRrfCycle = y.rrf.nextRrfCycle
    BY <2>1 DEF RrfReset
  <2>3. \A p \in Ptrs : ~x.rrf.valid[p]
    BY <2>2
  <2> QED BY <1>1, <2>2, <2>3 DEF RrfAlike, Becomes
<1>6. RobAlike(rob, ride.rob)'
  <2>1. /\ x.rob = [p \in Ptrs |-> [m.rob[p] EXCEPT !.wbFin = FALSE, !.isBranch = FALSE]]
        /\ y.rob = [p \in Ptrs |-> [s.rob[p] EXCEPT !.wbFin = FALSE, !.isBranch = FALSE]]
    BY DEF Started, AfterReset
  <2>2. rob' = x.rob /\ ride'.rob = y.rob
    BY <1>1 DEF Becomes
  <2>3. InFlight' = {}
    BY <1>2, FreshFliesNothingThen
  <2>4. ASSUME NEW p \in Ptrs
        PROVE  y.rob[p].wbFin = x.rob[p].wbFin /\ y.rob[p].isBranch = x.rob[p].isBranch
    <3>1. DOMAIN x.rob[p] = RobFields
      BY <1>2, <2>2 DEF Fresh
    <3>3. /\ x.rob[p] = [m.rob[p] EXCEPT !.wbFin = FALSE, !.isBranch = FALSE]
          /\ y.rob[p] = [s.rob[p] EXCEPT !.wbFin = FALSE, !.isBranch = FALSE]
      BY ONLY <2>1, p \in Ptrs
    <3>2. DOMAIN s.rob[p] = RobFields /\ DOMAIN m.rob[p] = RobFields
      <4>1. DOMAIN s.rob[p] = RobFields
        BY <1>3 DEF CoreShape
      <4>2. DOMAIN m.rob[p] = RobFields
        BY ONLY <3>1, <3>3
      <4> QED BY <4>1, <4>2
    <3>4. x.rob[p].wbFin = FALSE /\ y.rob[p].wbFin = FALSE
      BY <3>2, <3>3 DEF RobFields
    <3>5. x.rob[p].isBranch = FALSE /\ y.rob[p].isBranch = FALSE
      BY <3>2, <3>3 DEF RobFields
    <3> QED BY <3>4, <3>5
  <2> QED BY <2>2, <2>3, <2>4 DEF RobAlike
<1>7. Ls2Alike(ls2', ride.ls2')
  <2>1. ls2'.full = FALSE
    BY <1>2 DEF Fresh
  <2>2. y.ls2 = [s.ls2 EXCEPT !.full = FALSE]
    BY DEF Started, AfterReset
  <2>3. y.ls2.full = FALSE
    BY <1>3, <2>2 DEF CoreShape
  <2> QED BY <1>1, <2>1, <2>3 DEF Ls2Alike
<1> PICK e : e = [i \in StRows |-> [m.sb.ent[i] EXCEPT !.busy = FALSE, !.complete = FALSE,
                                                       !.spec = FALSE]]
  OBVIOUS
<1> PICK f : f = [i \in StRows |-> [s.sb.ent[i] EXCEPT !.busy = FALSE, !.complete = FALSE,
                                                       !.spec = FALSE]]
  OBVIOUS
<1>8. \A i \in StRows : m.sb.ent[i].mem_addr = s.sb.ent[i].mem_addr
  <2>1. Addresses(m) = [i \in StRows |-> m.sb.ent[i].mem_addr]
        /\ Addresses(s) = [i \in StRows |-> s.sb.ent[i].mem_addr]
    BY DEF Addresses
  <2> QED BY ONLY <2>1, Addresses(m) = Addresses(s)
<1>9. StoresAlike(sb', ride.sb')
  <2>1. /\ x.sb = [ent |-> e, finPtr |-> 0, comPtr |-> 0, retPtr |-> 0]
        /\ y.sb = [ent |-> f, finPtr |-> 0, comPtr |-> 0, retPtr |-> 0]
    BY DEF Started, AfterReset, StReset
  <2>2. /\ x.sb.ent = e /\ x.sb.finPtr = 0 /\ x.sb.comPtr = 0 /\ x.sb.retPtr = 0
        /\ y.sb.ent = f /\ y.sb.finPtr = 0 /\ y.sb.comPtr = 0 /\ y.sb.retPtr = 0
    BY ONLY <2>1
  <2>3. ASSUME NEW i \in StRows
        PROVE  /\ f[i].busy = e[i].busy /\ f[i].complete = e[i].complete
               /\ f[i].mem_addr = e[i].mem_addr /\ ~e[i].busy
    <3>1. DOMAIN m.sb.ent[i] = StoreParts /\ DOMAIN s.sb.ent[i] = StoreParts
      BY <1>3 DEF StoresShape
    <3>2. /\ e[i] = [m.sb.ent[i] EXCEPT !.busy = FALSE, !.complete = FALSE, !.spec = FALSE]
          /\ f[i] = [s.sb.ent[i] EXCEPT !.busy = FALSE, !.complete = FALSE, !.spec = FALSE]
      OBVIOUS
    <3>3. e[i].busy = FALSE /\ f[i].busy = FALSE
      BY <3>1, <3>2 DEF StoreParts
    <3>4. e[i].complete = FALSE /\ f[i].complete = FALSE
      BY <3>1, <3>2 DEF StoreParts
    <3>5. e[i].mem_addr = m.sb.ent[i].mem_addr /\ f[i].mem_addr = s.sb.ent[i].mem_addr
      BY <3>1, <3>2 DEF StoreParts
    <3> QED BY <1>8, <3>3, <3>4, <3>5
  <2>4. StoresAlike(x.sb, y.sb)
    BY ONLY <2>2, <2>3 DEF StoresAlike
  <2> QED BY ONLY <1>1, <2>4 DEF Becomes
<1>10. CmdAlike(cmd', ride.cmd')
  <2>1. x.cmd.we = FALSE /\ x.cmd.addr = m.sb.ent[0].mem_addr
    BY StartedCmd
  <2>2. y.cmd.we = FALSE /\ y.cmd.addr = s.sb.ent[0].mem_addr
    BY StartedCmd
  <2>3. x.cmd.addr = y.cmd.addr
    BY <1>8, <2>1, <2>2, RowZero
  <2> QED BY <1>1, <2>1, <2>2, <2>3 DEF CmdAlike, Becomes
<1> QED BY <1>4, <1>5, <1>6, <1>7, <1>9, <1>10 DEF Alike

(* The inductive invariant: a workload that is not guilty runs on cores that*)
(* are alike, and no difference was noted in it.                            *)
Guilt ==
  /\ OnlyTheGuilty
  /\ ctl.phase = "run" /\ ctl.job \notin guilty => Alike /\ ~ctl.retard

(* Nothing runs and nothing is reported when the bench starts.              *)
LEMMA GuiltInit == CompareInit => Guilt
<1> SUFFICES ASSUME CompareInit PROVE Guilt
  OBVIOUS
<1>1. ctl.errorIndexs = {} /\ ctl.phase # "run"
  BY DEF CompareInit
<1> QED BY <1>1 DEF Guilt, OnlyTheGuilty

(* No step of the bench notes a difference in a workload that is not guilty.*)
LEMMA GuiltNext ==
  CoreInv /\ DataInv /\ CInv /\ SlaveShape /\ Guilt /\ [CompareNext]_compareVars => Guilt'
<1> SUFFICES ASSUME CoreInv, DataInv, CInv, SlaveShape, Guilt, [CompareNext]_compareVars
             PROVE  Guilt'
  OBVIOUS
<1>0. ControlOk
  BY DEF CInv
<1>1. ASSUME Alone(Settled, CoreNext(Settled)) PROVE Guilt'
  <2>1. ctl' = ctl /\ guilty' = guilty /\ ctl.phase # "run"
    BY <1>1 DEF Alone
  <2> QED BY <2>1 DEF Guilt, OnlyTheGuilty
<1>2. ASSUME NEW m, m = CoreNext(Settled), NEW s, s = Ride!CoreNext(Ride!Settled),
             WorkloadInit(m, s)
      PROVE  Guilt'
  <2>1. /\ ctl' = [ctl EXCEPT !.phase = "run", !.retard = FALSE, !.retarted = 0]
        /\ guilty' = IF Addresses(m) = Addresses(s) THEN guilty ELSE guilty \cup {ctl.job}
    BY <1>2 DEF WorkloadInit
  <2>2. ctl'.job = ctl.job /\ ctl'.errorIndexs = ctl.errorIndexs /\ ~ctl'.retard
    BY <1>0, <2>1 DEF ControlOk
  <2>3. OnlyTheGuilty'
    BY <2>1, <2>2 DEF Guilt, OnlyTheGuilty
  <2>4. ASSUME ctl'.job \notin guilty' PROVE Alike'
    <3>1. Addresses(m) = Addresses(s)
      BY <2>1, <2>2, <2>4
    <3> QED BY <1>2, <3>1, StartAlike
  <2> QED BY <2>2, <2>3, <2>4 DEF Guilt
<1>3. ASSUME CompareCycle(Settled, Ride!Settled, CoreNext(Settled),
                          Ride!CoreNext(Ride!Settled))
      PROVE  Guilt'
  <2> PICK bad : bad = (ctl.retard \/ ~DoCompare(Settled, Ride!Settled))
    OBVIOUS
  <2> PICK m : m = CoreNext(Settled)
    OBVIOUS
  <2> PICK s : s = Ride!CoreNext(Ride!Settled)
    OBVIOUS
  <2>1. /\ ride' = Slave /\ ClockEdge /\ ctl.phase = "run" /\ guilty' = guilty
    BY <1>3 DEF CompareCycle, Cycle, ClockEdge, Slave
  <2>2. ctl' = IF Ends(bad, m, s)
               THEN [ctl EXCEPT !.phase = IF ctl.job = Len(jobs) THEN "done" ELSE "init",
                                !.job = IF ctl.job = Len(jobs) THEN @ ELSE @ + 1,
                                !.retard = bad,
                                !.errorIndexs = IF bad THEN @ \cup {ctl.job} ELSE @]
               ELSE [ctl EXCEPT !.retard = bad, !.retarted = @ + Bit(bad)]
    BY <1>3 DEF CompareCycle
  <2>3. ASSUME ctl.job \notin guilty PROVE ~bad /\ Alike'
    <3>1. Alike /\ ~ctl.retard
      BY <2>1, <2>3 DEF Guilt
    <3>2. DoCompare(Settled, Ride!Settled)
      BY <3>1, AlikeCompares
    <3>3. Alike'
      BY <2>1, <3>1, AlikeKept
    <3> QED BY <3>1, <3>2, <3>3
  <2>4. CASE Ends(bad, m, s)
    <3>1. /\ ctl'.phase # "run"
          /\ ctl'.errorIndexs = IF bad THEN ctl.errorIndexs \cup {ctl.job} ELSE ctl.errorIndexs
      BY <1>0, <2>2, <2>4 DEF ControlOk
    <3> QED BY <2>1, <2>3, <3>1 DEF Guilt, OnlyTheGuilty
  <2>5. CASE ~Ends(bad, m, s)
    <3>1. ctl'.job = ctl.job /\ ctl'.errorIndexs = ctl.errorIndexs /\ ctl'.retard = bad
      BY <1>0, <2>2, <2>5 DEF ControlOk
    <3> QED BY <2>1, <2>3, <3>1 DEF Guilt, OnlyTheGuilty
  <2> QED BY <2>4, <2>5
<1>4. ASSUME Upset PROVE Guilt'
  <2>1. ctl' = [ctl EXCEPT !.upset = TRUE] /\ guilty' = guilty \cup {ctl.job}
    BY <1>4 DEF Upset
  <2>2. ctl'.job = ctl.job /\ ctl'.errorIndexs = ctl.errorIndexs
    BY <1>0, <2>1 DEF ControlOk
  <2> QED BY <2>1, <2>2 DEF Guilt, OnlyTheGuilty
<1>5. ASSUME UNCHANGED compareVars PROVE Guilt'
  BY <1>5 DEF compareVars, vars, Guilt, OnlyTheGuilty, Alike, SameParts, RrfAlike, RobAlike,
              Ls2Alike, StoresAlike, CmdAlike, InFlight, Age
<1> QED
  BY <1>1, <1>2, <1>3, <1>4, <1>5 DEF CompareNext, Summarized

(* The bench (CombCtrl) reports no workload without a cause: whatever was in*)
(* flight when a workload was cut off, and whatever the registers without a *)
(* reset still hold of it, a workload that begins with equal addresses in   *)
(* the store buffers, and in which no register of the slave is changed, is  *)
(* never listed among the errors, for every size of the core, every program *)
(* and every sequence of workloads.                                         *)
THEOREM OnlyGuiltyReported == CompareSpec => []OnlyTheGuilty
<1>1. CompareSpec => []CInv
  BY CInitOk, CNextOk, PTL DEF CompareSpec
<1>2. CompareSpec => []SlaveShape
  BY ShapeInit, ShapeKept, PTL DEF CompareSpec
<1>3. CompareSpec => []Guilt
  BY <1>1, <1>2, CoreIsRight, TypesKept, GuiltInit, GuiltNext, PTL DEF CompareSpec
<1>4. Guilt => OnlyTheGuilty
  BY DEF Guilt
<1> QED BY <1>3, <1>4, PTL
=============================================================================
