---------------------------- MODULE SimEngine ----------------------------
(***************************************************************************)
(* The C++ model that is generated for a design, and how the simulation    *)
(* runs it (sim/modelSimEngine).                                           *)
(*                                                                         *)
(* Wires and expressions become statements, each behind what it reads;    *)
(* a register has a second variable for its next value, a write to a       *)
(* memory a variable for its data, its index and whether it is set.  Every *)
(* edge of the clock is two functions, one that computes and one that      *)
(* moves.  A single cycle calls them one by one and lets others run in     *)
(* between; a long run loops over them until a traced condition holds or   *)
(* the limit is reached.                                                   *)
(***************************************************************************)
EXTENDS Integers, Sequences, SequencesExt, Design

-----------------------------------------------------------------------------
(* The order of the statements (ProxyBuildMng::doTopologySort): a           *)
(* depth-first search with a stack of its own, one action per round of its  *)
(* loop.                                                                    *)

CONSTANT
  Graphs     \* records: nodes, the sequence to be sorted, and dep, which gives
             \* each node the sequence of what it reads, in nodes or not

VARIABLES
  graph,     \* the graph that is sorted
  at,        \* the next element of the sequence to start from
  dfs,       \* the stack: elements with the index of the next dependency
  visited,   \* elements that have been on the stack
  result,    \* the elements sorted so far
  outcome    \* "sorting", "sorted", or "abort" when a cycle was met

sortVars == <<graph, at, dfs, visited, result, outcome>>

Meta(n)  == [mpd |-> n, nextDepIdx |-> 1]
InGraph  == ToSet(graph.nodes)
Resulted == ToSet(result)

ASSUME GraphsAssumption ==
  \A g \in Graphs :
    /\ g.nodes \in Seq(DOMAIN g.dep)
    /\ g.dep \in [DOMAIN g.dep -> Seq(DOMAIN g.dep)]

SortInit ==
  /\ graph \in Graphs
  /\ at = 1
  /\ dfs = <<>>
  /\ visited = {}
  /\ result = <<>>
  /\ outcome = "sorting"

-----------------------------------------------------------------------------
Top     == Last(dfs)
Deps    == graph.dep[Top.mpd]
FirstIn == Top.nextDepIdx = 1
Running == outcome = "sorting"

StartFrom ==
  /\ Running /\ dfs = <<>> /\ at <= Len(graph.nodes)
  /\ dfs' = <<Meta(graph.nodes[at])>>
  /\ at' = at + 1
  /\ UNCHANGED <<graph, visited, result, outcome>>

(* A register, or an element of another region.                             *)
OutOfRegion ==
  /\ Running /\ dfs # <<>> /\ Top.mpd \notin InGraph
  /\ dfs' = Front(dfs)
  /\ UNCHANGED <<graph, at, visited, result, outcome>>

(* Met again: done before, or still on the stack.                           *)
MeetAgain ==
  /\ Running /\ dfs # <<>> /\ Top.mpd \in InGraph
  /\ FirstIn /\ Top.mpd \in visited
  /\ IF Top.mpd \in Resulted
     THEN dfs' = Front(dfs) /\ outcome' = outcome
     ELSE dfs' = dfs /\ outcome' = "abort"
  /\ UNCHANGED <<graph, at, visited, result>>

Enter ==
  /\ Running /\ dfs # <<>> /\ Top.mpd \in InGraph
  /\ FirstIn => Top.mpd \notin visited
  /\ visited' = visited \cup {Top.mpd}

(* Mutant: an element is put down when it is entered. *)
SearchNextEarly ==
  /\ Enter
  /\ Top.nextDepIdx <= Len(Deps)
  /\ dfs' = Append([dfs EXCEPT ![Len(dfs)].nextDepIdx = @ + 1], Meta(Deps[Top.nextDepIdx]))
  /\ result' = IF Top.mpd \in Resulted THEN result ELSE Append(result, Top.mpd)
  /\ UNCHANGED <<graph, at, outcome>>

SearchNext ==
  /\ Enter
  /\ Top.nextDepIdx <= Len(Deps)
  /\ dfs' = Append([dfs EXCEPT ![Len(dfs)].nextDepIdx = @ + 1], Meta(Deps[Top.nextDepIdx]))
  /\ UNCHANGED <<graph, at, result, outcome>>

LastOut ==
  /\ Enter
  /\ Top.nextDepIdx > Len(Deps)
  /\ result' = IF Top.mpd \in Resulted THEN result ELSE Append(result, Top.mpd)
  /\ dfs' = Front(dfs)
  /\ UNCHANGED <<graph, at, outcome>>

AllTried ==
  /\ Running /\ dfs = <<>> /\ at > Len(graph.nodes)
  /\ outcome' = "sorted"
  /\ UNCHANGED <<graph, at, dfs, visited, result>>

SortNext ==
  StartFrom \/ OutOfRegion \/ MeetAgain \/ SearchNext \/ LastOut \/ AllTried

SortSpec == SortInit /\ [][SortNext]_sortVars

-----------------------------------------------------------------------------
(* Every element stands behind all elements it reads.                       *)
DepsFirst ==
  \A i \in DOMAIN result : \A d \in ToSet(graph.dep[result[i]]) \cap InGraph :
    \E j \in 1 .. i - 1 : result[j] = d

(* The stack is a path of the graph that comes back to where it was.        *)
StackIsCycle ==
  /\ \A i \in 1 .. Len(dfs) - 1 : dfs[i + 1].mpd \in ToSet(graph.dep[dfs[i].mpd])
  /\ \E i \in 1 .. Len(dfs) - 1 : dfs[i].mpd = Top.mpd

(* Whatever reads what: the elements come out complete and each behind what  *)
(* it reads, and the only graphs that are refused are those with a cycle.    *)
SortsOrAborts ==
  /\ outcome = "sorted" => Resulted = InGraph /\ DepsFirst
  /\ outcome = "abort" => StackIsCycle

-----------------------------------------------------------------------------
(* The generated model and its run.                                         *)

CONSTANTS
  Blocks,    \* [Designs -> the flow blocks of a design, a sequence of records:
             \* regs, its state registers; subs and cons, the blocks in it and
             \* those that continue it, which come before it]
  Traced,    \* [Designs -> the elements that end a long run]
  LongLimit, \* the longest long run
  MaxCycle   \* bound of the number of cycles

(* A block has a number above those of the blocks in it and of those that   *)
(* continue it.                                                             *)
ASSUME BlocksAssumption ==
  \A d \in Designs :
    /\ Blocks[d] \in Seq([regs : SUBSET OfKind(d, {"reg"}), subs : Seq(Nat), cons : Seq(Nat)])
    /\ \A b \in DOMAIN Blocks[d] :
         ToSet(Blocks[d][b].subs) \cup ToSet(Blocks[d][b].cons) \subseteq 1 .. b - 1

VARIABLES
  design,    \* the elements
  long,      \* how the model is run: setLongRunType
  phase,     \* what the simulation does next
  store,     \* the variables of the generated file
  limit,     \* _amtLimitLongRangeCycle
  count,     \* kathryn_longrangeCnt
  target,    \* _targetCycle
  perf,      \* the performance counters of the flow blocks, and their bits
  ran        \* history: the cycles in which the blocks ran

simVars == <<sortVars, design, long, phase, store, limit, count, target, perf, ran>>

-----------------------------------------------------------------------------
(* What goes where (ModuleSimEngine).                                       *)

OfKindSeq(d, kind) == SetToSortSeq(OfKind(d, {kind}), <)

RecruitStateLessEle(d) ==
  OfKindSeq(d, "wire") \o OfKindSeq(d, "expr") \o OfKindSeq(d, "val") \o OfKindSeq(d, "nest")

RecruitForMainOpVolatile(d) == RecruitStateLessEle(d) \o OfKindSeq(d, "read")
RecruitForFinalizeOp(d)     == OfKindSeq(d, "reg") \o OfKindSeq(d, "write")

ScreenClockMode(d, edge) ==
  SelectSeq(RecruitForFinalizeOp(d), LAMBDA e : d[e].clk = edge)

(* proxyBuildInit: what an element reads.                                   *)
EventDeps(pool) ==
  FlattenSeq([i \in DOMAIN pool |->
    FlattenSeq([k \in DOMAIN pool[i].arms |->
      LET arm == pool[i].arms[k] IN
      IF arm.cond = None THEN <<arm.val.of>> ELSE <<arm.val.of, arm.cond.of>>])])

ExpressionDeps(ele)     == IF ele.b = None THEN <<ele.a.of>> ELSE <<ele.a.of, ele.b.of>>
NestDeps(ele)           == [i \in DOMAIN ele.parts |-> ele.parts[i].of]
MemEleHolderDeps(ele)   == <<ele.index.of>> \o (IF ele.kind = "write" THEN EventDeps(ele.pool) ELSE <<>>)

ProxyBuildInit(d) ==
  [e \in DOMAIN d |->
     CASE d[e].kind = "expr" -> ExpressionDeps(d[e])
       [] d[e].kind = "nest" -> NestDeps(d[e])
       [] d[e].kind \in {"wire", "reg"} -> EventDeps(d[e].pool)
       [] d[e].kind \in {"read", "write"} -> MemEleHolderDeps(d[e])
       [] d[e].kind \in {"val", "input", "mem"} -> <<>>]

GraphOf(d) == [nodes |-> RecruitForMainOpVolatile(d), dep |-> ProxyBuildInit(d)]

-----------------------------------------------------------------------------
(* The statements of an element.  "now" holds the value of every variable.  *)

(* Mutant: the events run in the order in which they were added. *)
SortByArrival(pool) == pool

SortByPriority(pool) ==
  LET priorities == SetToSortSeq({pool[i].priority : i \in DOMAIN pool}, <)
  IN FlattenSeq([k \in DOMAIN priorities |->
                   SelectSeq(pool, LAMBDA ev : ev.priority = priorities[k])])

(* The bits of the destination are cleared and put in; the whole of one is  *)
(* copied to the whole of another of its size.                              *)
Clear(v, sl) == v - 2^sl[1] * Part(v, sl)

GenAssignAEqB(des, src, now, old) ==
  LET from == <<src.sl[1], src.sl[1] + Min({Size(src.sl), Size(des)})>>
  IN Clear(old, des) + 2^des[1] * Part(now[src.of], from)

CreateSimOp(ev, now, old) ==
  IF Fires(ev, now)
  THEN LET arm == TakenArm(ev, now) IN GenAssignAEqB(arm.des, arm.val, now, old)
  ELSE old

CreateOpWithSoleCondition(pool, now, old) ==
  FoldLeft(LAMBDA v, ev : CreateSimOp(ev, now, v), old, SortByPriority(pool))

ExpressionOp(ele, now) ==
  Operation(ele, Worth(ele.a, now), IF ele.b = None THEN 0 ELSE Worth(ele.b, now))

(* Part after part is put behind those that are there.                      *)
NestOp(ele, now, old) ==
  LET put == FoldLeft(LAMBDA s, o :
               [val |-> GenAssignAEqB(<<s.start, s.start + Size(o.sl)>>, o, now, s.val),
                start |-> s.start + Size(o.sl)],
               [val |-> old, start |-> 0], ele.parts)
  IN put.val

ReadOp(ele, now, mem) == mem[ele.mem][Worth(ele.index, now)]

CreateOp(d, now, mem, e) ==
  CASE d[e].kind = "wire" -> CreateOpWithSoleCondition(d[e].pool, now, now[e])
    [] d[e].kind = "expr" -> ExpressionOp(d[e], now)
    [] d[e].kind = "nest" -> NestOp(d[e], now, now[e])
    [] d[e].kind = "read" -> ReadOp(d[e], now, mem)
    [] d[e].kind = "val"  -> now[e]

(* Locals are declared with 0 each time; a literal stands for itself.       *)
LocalVariables(d, s) ==
  [e \in DOMAIN d |-> IF e \in DOMAIN s.val THEN s.val[e]
                      ELSE IF d[e].kind = "val" THEN d[e].val ELSE 0]

VolatileOps(d, s) ==
  FoldLeft(LAMBDA now, e : [now EXCEPT ![e] = CreateOp(d, now, s.mem, e)], LocalVariables(d, s), result)

-----------------------------------------------------------------------------
(* The functions of the generated file.                                     *)

Globals(d) == OfKind(d, {"reg", "input", "wire", "write"}) \cup Traced[d]

InitialStore(d) ==
  [val     |-> [e \in Globals(d) |-> 0],
   temp    |-> [e \in OfKind(d, {"reg"}) |-> 0],
   isSet   |-> [e \in OfKind(d, {"write"}) |-> FALSE],
   indexer |-> [e \in OfKind(d, {"write"}) |-> 0],
   mem     |-> [e \in OfKind(d, {"mem"}) |-> [c \in 0 .. d[e].depth - 1 |-> 0]]]

RegOp(d, now, s, e) ==
  [s EXCEPT !.temp[e] = CreateOpWithSoleCondition(d[e].pool, now, now[e])]

WriteOp(d, now, s, e) ==
  IF \E i \in DOMAIN d[e].pool : Fires(d[e].pool[i], now)
  THEN [s EXCEPT !.val[e] = CreateOpWithSoleCondition(d[e].pool, now, now[e]),
                 !.isSet[e] = TRUE, !.indexer[e] = Worth(d[e].index, now)]
  ELSE s

NonVolatileOp(d, now, s, e) ==
  IF d[e].kind = "reg" THEN RegOp(d, now, s, e) ELSE WriteOp(d, now, s, e)

(* MAINOP: nothing at all when nothing loads at the negative edge.          *)
Skipped(d, edge) == edge = "neg" /\ ScreenClockMode(d, edge) = <<>>

MainOp(d, edge, s) ==
  IF Skipped(d, edge) THEN s
  ELSE LET now == VolatileOps(d, s)
           s1  == [s EXCEPT !.val = [e \in DOMAIN s.val |-> now[e]]]
       IN FoldLeft(LAMBDA r, e : NonVolatileOp(d, now, r, e), s1, ScreenClockMode(d, edge))

(* Mutant: the mark of a write is not taken back. *)
CreateOpEndCycleStaysSet(d, s, e) ==
  IF d[e].kind = "write" /\ s.isSet[e]
  THEN [s EXCEPT !.mem[d[e].mem][s.indexer[e]] = s.val[e]] ELSE s

(* FIZOP: memories first, then registers.                                   *)
CreateOpEndCycle(d, s, e) ==
  IF d[e].kind = "write" /\ s.isSet[e]
  THEN [s EXCEPT !.mem[d[e].mem][s.indexer[e]] = s.val[e], !.isSet[e] = FALSE] ELSE s

CreateOpEndCycle2(d, s, e) ==
  IF d[e].kind = "reg" THEN [s EXCEPT !.val[e] = s.temp[e]] ELSE s

FinalizeOp(d, edge, s) ==
  LET s1 == FoldLeft(LAMBDA r, e : CreateOpEndCycle(d, r, e), s, ScreenClockMode(d, edge))
  IN FoldLeft(LAMBDA r, e : CreateOpEndCycle2(d, r, e), s1, ScreenClockMode(d, edge))

(* Mutant: the blocks that continue a block are left out. *)
CurBitsAlone(d, s) ==
  LET B == Blocks[d]
      bit[b \in DOMAIN B] ==
        (\E r \in B[b].regs : s.val[r] # 0) \/ \E k \in ToSet(B[b].subs) : bit[k]
  IN bit

(* PERF_COL: a block runs if one of its registers is set, or a block in it  *)
(* or one that continues a block in it runs.                                *)
CurBits(d, s) ==
  LET B == Blocks[d]
      bit[b \in DOMAIN B] ==
        \/ \E r \in B[b].regs : s.val[r] # 0
        \/ \E k \in ToSet(B[b].subs) : bit[k] \/ \E c \in ToSet(B[k].cons) : bit[c]
  IN bit

Increased(n, bits) == [b \in DOMAIN n |-> n[b] + (IF bits[b] THEN 1 ELSE 0)]

PerfCol(s) == perf' = Increased(perf, CurBits(design, s))

-----------------------------------------------------------------------------
Init ==
  /\ design \in Designs
  /\ SortInit /\ graph = GraphOf(design)
  /\ long \in BOOLEAN
  /\ phase = "build"
  /\ store = InitialStore(design)
  /\ limit = 0
  /\ count = 0
  /\ target = 0
  /\ perf = [b \in DOMAIN Blocks[design] |-> 0]
  /\ ran = perf

(* The model is generated; it is run only if the elements could be sorted.  *)
Build ==
  /\ phase = "build"
  /\ UNCHANGED <<design, long, store, limit, count, target, perf, ran>>
  /\ SortNext
  /\ phase' = IF outcome' = "sorted" THEN "front" ELSE "build"

StartCycle ==
  /\ phase = "front" /\ target < MaxCycle
  /\ phase' = "negMain"
  /\ count' = 0
  /\ IF long THEN limit' \in 1 .. LongLimit ELSE UNCHANGED limit
  /\ UNCHANGED <<design, long, store, target, perf, ran>>
  /\ UNCHANGED sortVars

(* A bench writes a signal through its ValRepBase, at the front of a cycle. *)
AssignSimValue ==
  /\ phase = "front" /\ target < MaxCycle
  /\ \E e \in OfKind(design, {"input", "reg"}) :
       \E v \in 0 .. 2^design[e].size - 1 : store' = [store EXCEPT !.val[e] = v]
  /\ UNCHANGED <<design, long, phase, limit, count, target, perf, ran>>
  /\ UNCHANGED sortVars

Step(from, to, s) ==
  /\ phase = from /\ phase' = to
  /\ store' = s
  /\ UNCHANGED <<design, long, limit, target>>
  /\ UNCHANGED sortVars

StartMainOpEleSimNeg   == Step("negMain", "negFinal", MainOp(design, "neg", store)) /\ UNCHANGED <<count, perf, ran>>
StartFinalizeEleSimNeg == Step("negFinal", "posMain", FinalizeOp(design, "neg", store)) /\ UNCHANGED <<count, perf, ran>>
StartMainOpEleSimPos   == Step("posMain", "posCollect", MainOp(design, "pos", store)) /\ UNCHANGED <<count, perf, ran>>

CurCycleCollectDataPos ==
  /\ Step("posCollect", "posFinal", store)
  /\ IF long THEN UNCHANGED perf ELSE PerfCol(store)
  /\ UNCHANGED <<count, ran>>

(* History: what is inside a block, at any depth.                           *)
Inside(d, b) ==
  LET B == Blocks[d]
      in[k \in DOMAIN B] == {k} \cup UNION {in[c] \cup UNION {in[e] : e \in ToSet(B[c].cons)} : c \in ToSet(B[k].subs)}
  IN in[b]

Ran(d, s) == [b \in DOMAIN Blocks[d] |-> \E k \in Inside(d, b) : \E r \in Blocks[d][k].regs : s.val[r] # 0]

StartFinalizeEleSimPos ==
  /\ Step("posFinal", IF long THEN "loop" ELSE "next", FinalizeOp(design, "pos", store))
  /\ ran' = Increased(ran, Ran(design, store))
  /\ IF long THEN PerfCol(store') ELSE UNCHANGED perf
  /\ count' = count + 1

(* The end of the loop of mainSim.                                          *)
CallBackCheck == \E e \in Traced[design] : store.val[e] # 0

LongRunGoesOn ==
  /\ phase = "loop" /\ ~CallBackCheck /\ count < limit
  /\ phase' = "negMain"
  /\ UNCHANGED <<design, long, store, limit, count, target, perf, ran>>
  /\ UNCHANGED sortVars

LongRunReturns ==
  /\ phase = "loop" /\ (CallBackCheck \/ count >= limit)
  /\ phase' = "next"
  /\ UNCHANGED <<design, long, store, limit, count, target, perf, ran>>
  /\ UNCHANGED sortVars

GenNextEvent ==
  /\ phase = "next"
  /\ phase' = "front"
  /\ target' = IF long THEN target + count ELSE target + 1
  /\ count' = 0
  /\ UNCHANGED <<design, long, store, limit, perf, ran>>
  /\ UNCHANGED sortVars

Next ==
  \/ Build
  \/ StartCycle \/ AssignSimValue
  \/ StartMainOpEleSimNeg \/ StartFinalizeEleSimNeg
  \/ StartMainOpEleSimPos \/ CurCycleCollectDataPos \/ StartFinalizeEleSimPos
  \/ LongRunGoesOn \/ LongRunReturns
  \/ GenNextEvent

Spec == Init /\ [][Next]_simVars

-----------------------------------------------------------------------------
(* Refinement of Hardware.                                                  *)

Held(d, s) ==
  [e \in Stateful(d) |-> IF d[e].kind = "mem" THEN s.mem[e] ELSE s.val[e]]

Level == IF phase \in {"posMain", "posCollect", "posFinal"} THEN "low" ELSE "high"

HW == INSTANCE Hardware WITH clk <- Level, value <- Held(design, store), cycles <- target + count

(* Whatever is wired to what, and however the statements are ordered: the    *)
(* generated model goes through the states of the design, in single cycles   *)
(* and in long runs, which take as many cycles as they say.                  *)
SimulatesHardware == HW!HardwareSpec

(* What others see of a wire, or of an expression that is traced, when they  *)
(* run between the two functions of the positive edge, is what the design    *)
(* makes of the registers of this cycle.                                     *)
CollectedSettled ==
  phase = "posCollect" =>
    \A e \in Globals(design) \ OfKind(design, {"write"}) :
      store.val[e] = Settled(design, Held(design, store))[e]

(* The performance counters count the cycles in which a block, or anything   *)
(* inside it, ran (single cycles; a long run counts after the edge).         *)
PerfExact == ~long /\ phase = "front" => perf = ran
=============================================================================
