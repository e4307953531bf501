----------------------------- MODULE KrideCompare -----------------------------
(***************************************************************************)
(* The lockstep bench of the Kride core (CombCtrl in                       *)
(* example/o3/simCompare/ctrl): workload after workload, two cores run the *)
(* same program cycle by cycle, and after every cycle the bench compares   *)
(* them.  The first difference ends the workload one cycle later.          *)
(*                                                                         *)
(* The master is the core of module Kride.  The slave of the code is the   *)
(* Verilog core RIDECORE, which is not part of the repository; here it is  *)
(* a second copy of the core.  Once, between any two cycles, one of its    *)
(* registers may be changed: this stands for whatever makes a core differ. *)
(***************************************************************************)
EXTENDS KrideState, Sequences

CONSTANT Benches    (* the sequences of workloads the bench may be given    *)

ASSUME BenchAssumption ==
  Benches \subseteq Seq([prog : [Words -> Instr], data : [Words -> Words]])

VARIABLES
  ride,     (* the slave: a record of the registers of a core               *)
  jobs,     (* the workloads: [prog, data] is the content of its file; none *)
            (* if the master runs on its own                                *)
  ctl,      (* the controller                                               *)
  guilty    (* history: the workloads that begin with, or get, a difference *)
            (* of the cores                                                 *)

compareVars == <<vars, ride, jobs, ctl, guilty>>

Ride == INSTANCE KrideState WITH
          fe <- ride.fe, tg <- ride.tg, arf <- ride.arf, rrf <- ride.rrf,
          rob <- ride.rob, comPtr <- ride.comPtr, rs <- ride.rs,
          alloc <- ride.alloc, ex <- ride.ex, ls2 <- ride.ls2, sb <- ride.sb,
          dmem <- ride.dmem, cmd <- ride.cmd

Core == [fe |-> fe, tg |-> tg, arf |-> arf, rrf |-> rrf, rob |-> rob,
            comPtr |-> comPtr, rs |-> rs, alloc |-> alloc, ex |-> ex,
            ls2 |-> ls2, sb |-> sb, dmem |-> dmem, cmd |-> cmd]

BELAYED_AFTER_MIS_CMP == 1
-----------------------------------------------------------------------------
(* doWorkloadInit *)

(* The registers after a cycle with the reset wire at 1: those without a    *)
(* reset event load what they would have loaded.  The architectural         *)
(* registers are cleared by hand (resetRegister).                           *)
(* Mutant: the rename tables are not cleared. *)
ResetTables(s) ==
  [fe |-> FeReset,
   tg |-> TagReset,
   arf |-> [s.arf EXCEPT !.reg = ArfReset.reg],
   rrf |-> [RrfReset EXCEPT !.data = s.rrf.data],
   rob |-> [p \in Ptrs |-> [s.rob[p] EXCEPT !.wbFin = FALSE, !.isBranch = FALSE]],
   comPtr |-> 0,
   rs |-> RsReset,
   alloc |-> [u \in InOrder |-> 0],
   ex |-> ExReset,
   ls2 |-> [s.ls2 EXCEPT !.full = FALSE],
   sb |-> [StReset EXCEPT !.ent = [i \in StRows |->
             [s.sb.ent[i] EXCEPT !.busy = FALSE, !.complete = FALSE,
                                 !.spec = FALSE]]],
   dmem |-> s.dmem, cmd |-> s.cmd]

AfterReset(s) ==
  [fe |-> FeReset,
   tg |-> TagReset,
   arf |-> ArfReset,
   rrf |-> [RrfReset EXCEPT !.data = s.rrf.data],
   rob |-> [p \in Ptrs |-> [s.rob[p] EXCEPT !.wbFin = FALSE, !.isBranch = FALSE]],
   comPtr |-> 0,
   rs |-> RsReset,
   alloc |-> [u \in InOrder |-> 0],
   ex |-> ExReset,
   ls2 |-> [s.ls2 EXCEPT !.full = FALSE],
   sb |-> [StReset EXCEPT !.ent = [i \in StRows |->
             [s.sb.ent[i] EXCEPT !.busy = FALSE, !.complete = FALSE,
                                 !.spec = FALSE]]],
   dmem |-> s.dmem, cmd |-> s.cmd]

(* The first cycle after the reset: no stage runs, but the memory executes  *)
(* the command it got last, in the workload before, on the data of the new  *)
(* one, and gets a read of whatever address the store buffer shows.         *)
Loaded(data) == IF cmd.we THEN [data EXCEPT ![cmd.addr] = cmd.data] ELSE data

Started(s, data) ==
  [AfterReset(s) EXCEPT
     !.dmem = data,
     !.cmd = [we |-> FALSE, addr |-> s.sb.ent[0].mem_addr,
              data |-> s.sb.ent[0].data]]

(* What the idle port of the memory shows later on.                         *)
Addresses(s) == [i \in StRows |-> s.sb.ent[i].mem_addr]

(* m and s are the cores after the cycle.                                   *)
WorkloadInit(m, s) ==
  LET job == jobs[ctl.job]
      data == Loaded(job.data)
  IN  /\ ctl.phase = "init"
      /\ Becomes(Started(m, data))
      /\ ride' = Started(s, data)
      /\ prog' = job.prog
      /\ apc' = 0
      /\ ctl' = [ctl EXCEPT !.phase = "run", !.retard = FALSE, !.retarted = 0]
      /\ guilty' = IF Addresses(m) = Addresses(s) THEN guilty
                                                  ELSE guilty \cup {ctl.job}
      /\ Tick
      /\ UNCHANGED jobs
-----------------------------------------------------------------------------
(* runCompareCycles.  l and r are the wires of the master and of the slave. *)

DoCompare(l, r) ==
  /\ Compare(Recruit(l), Ride!Recruit(r))
  /\ MemOpCompare(CmdNext(l.w), Ride!CmdNext(r.w))

(* isExecFin: the program has written 1 to word 2.                          *)
IsExecFin(c) == c.we /\ c.addr = 2 /\ c.data = 1

(* The workload is over after this cycle.                                   *)
Ends(retard, m, s) ==
  \/ retard /\ ctl.retarted >= BELAYED_AFTER_MIS_CMP
  \/ IsExecFin(m.cmd) \/ IsExecFin(s.cmd)

CompareCycle(l, r, m, s) ==
  LET last == ctl.job = Len(jobs)
  IN  /\ ctl.phase = "run"
      /\ Cycle(l.n, m)
      /\ ride' = s
      /\ \E retard \in {ctl.retard \/ ~DoCompare(l, r)} :
           ctl' = IF Ends(retard, m, s)
                    THEN [ctl EXCEPT !.phase = IF last THEN "done" ELSE "init",
                                     !.job = IF last THEN @ ELSE @ + 1,
                                     !.retard = retard,
                                     !.errorIndexs = IF retard THEN @ \cup {ctl.job} ELSE @]
                    ELSE [ctl EXCEPT !.retard = retard,
                                     !.retarted = @ + Bit(retard)]
      /\ UNCHANGED <<jobs, guilty>>
-----------------------------------------------------------------------------
(* The slave as it is after one register of it was changed.                 *)

AlteredOperand(e) ==
  {[e EXCEPT !.p1 = (@ + 1) % RRF_NUM], [e EXCEPT !.p2 = (@ + 1) % RRF_NUM],
   [e EXCEPT !.imm = Plus(@, 1)], [e EXCEPT !.spec = ~@]}

AlteredRow(e) ==
  AlteredOperand(e) \cup
  {[e EXCEPT !.v1 = ~@], [e EXCEPT !.rrftag = Inc(@, 1)],
   [e EXCEPT !.busy = ~@], [e EXCEPT !.pc = Plus(@, 1)],
   [e EXCEPT !.specTag = TagAfter(@)], [e EXCEPT !.sortBit = 1 - @]}

AlteredStore(e) ==
  {[e EXCEPT !.data = Plus(@, 1)], [e EXCEPT !.mem_addr = Plus(@, 1)],
   [e EXCEPT !.complete = ~@], [e EXCEPT !.busy = ~@], [e EXCEPT !.spec = ~@]}

AlteredRob(e) ==
  {[e EXCEPT !.wbFin = ~@], [e EXCEPT !.storeBit = ~@],
   [e EXCEPT !.rdUse = ~@], [e EXCEPT !.rdIdx = (@ + 1) % REG_NUM]}

AlteredLane(d) ==
  {[d EXCEPT !.imm = Plus(@, 1)], [d EXCEPT !.rs1 = (@ + 1) % REG_NUM],
   [d EXCEPT !.use2 = ~@], [d EXCEPT !.rdUse = ~@], [d EXCEPT !.invalid = ~@]}

AlteredCore(c) ==
  (UNION {UNION {{[c EXCEPT !.rs[u][i] = e] : e \in AlteredRow(c.rs[u][i])} :
                   i \in (0..1) \cap DOMAIN c.rs[u]} : u \in Units})
  \cup (UNION {{[c EXCEPT !.ex[u].src = e] : e \in AlteredOperand(c.ex[u].src)} :
                  u \in Units})
  \cup (UNION {{[c EXCEPT !.sb.ent[i] = e] : e \in AlteredStore(c.sb.ent[i])} :
                  i \in StRows})
  \cup (UNION {{[c EXCEPT !.rob[p] = e] : e \in AlteredRob(c.rob[p])} : p \in Ptrs})
  \cup {[c EXCEPT !.fe.dcd1 = d] : d \in AlteredLane(c.fe.dcd1)}
  \cup {[c EXCEPT !.arf.reg[x] = Plus(@, 1)] : x \in Regs \ {0}}
  \cup {[c EXCEPT !.arf.rename[Master][x] = Inc(@, 1)] : x \in Regs}
  \cup {[c EXCEPT !.rrf.data[p] = Plus(@, 1)] : p \in Ptrs}
  \cup {[c EXCEPT !.rrf.valid[p] = ~@] : p \in Ptrs}
  \cup {[c EXCEPT !.fe.curPc = Plus(@, 1)], [c EXCEPT !.ls2.data = Plus(@, 1)],
        [c EXCEPT !.ls2.hit = ~@], [c EXCEPT !.tg.tagreg = TagAfter(@)]}

Upset ==
  /\ ctl.phase = "run" /\ ~ctl.retard /\ ~ctl.upset
  /\ ride' \in AlteredCore(ride)
  /\ ctl' = [ctl EXCEPT !.upset = TRUE]
  /\ guilty' = guilty \cup {ctl.job}
  /\ UNCHANGED <<vars, jobs>>

-----------------------------------------------------------------------------
(* The cores come up alike; the memories of the bench are empty.            *)
CompareInit ==
  /\ Init
  /\ jobs \in Benches
  /\ jobs # <<>> => prog = [a \in Words |-> Fill]
  /\ ride = Core
  /\ ctl = [phase |-> IF jobs = <<>> THEN "alone" ELSE "init", job |-> 1,
            retard |-> FALSE, retarted |-> 0, errorIndexs |-> {}, upset |-> FALSE]
  /\ guilty = {}

(* The core without a bench.                                                *)
Alone(l, m) ==
  ctl.phase = "alone" /\ Cycle(l.n, m) /\ UNCHANGED <<ride, jobs, ctl, guilty>>

Summarized == ctl.phase = "done" /\ UNCHANGED compareVars

CompareNext ==
  \/ \E l \in {Settled} : \E m \in {CoreNext(l)} :
       \/ Alone(l, m)
       \/ /\ ctl.phase # "alone"
          /\ \E r \in {Ride!Settled} : \E s \in {Ride!CoreNext(r)} :
               WorkloadInit(m, s) \/ CompareCycle(l, r, m, s)
  \/ Upset
  \/ Summarized

CompareSpec == CompareInit /\ [][CompareNext]_compareVars

(* The clock does not stop before the bench is done.                        *)
FairSpec == CompareSpec /\ WF_clk(ctl.phase # "done" /\ Tick)
-----------------------------------------------------------------------------
(* What leaves a core is the same on both sides as long as no difference is *)
(* reported: a wrong store is reported in the cycle it is given to the      *)
(* memory, or before.                                                       *)
SameMemory ==
  ctl.phase = "run" /\ ~ctl.retard =>
    /\ dmem = ride.dmem
    /\ cmd.we = ride.cmd.we
    /\ cmd.we => cmd = ride.cmd

(* Only a workload in which the cores differed is reported: what an earlier *)
(* workload left in the registers the reset does not clear is never taken   *)
(* for a difference, but for the addresses in the rows of the store buffer, *)
(* which the idle port of the memory shows.                                 *)
OnlyTheGuilty == ctl.errorIndexs \subseteq guilty

(* A workload begins; its data is that of its file, with the last store of  *)
(* the workload before.                                                     *)
Reloaded == ctl.phase = "init"

Machine == INSTANCE Isa WITH pc <- apc, reg <- arf.reg, mem <- CommittedMem, Ports <- 2

(* Renaming, speculation and the store buffer are invisible: the registers  *)
(* and the memory change as if one instruction was executed after the other *)
(* in the order of the program.  A workload starts such a machine anew,     *)
(* whatever the core was doing when the workload before was cut off.        *)
ImplementsISA ==
  /\ Machine!Init
  /\ [][\/ Machine!Next
        \/ /\ Reloaded
           /\ apc' = 0
           /\ arf'.reg = [x \in Regs |-> 0]
           /\ CommittedMem' = Loaded(jobs[ctl.job].data)]_(Machine!vars)

(* The tags and the ring live as the modules TagRing and RrfRing say, whose *)
(* invariants are proved for every size: no branch is resolved out of turn, *)
(* no group is taken without room for it, no more is committed than waits,  *)
(* and what a mispredict takes back is behind the commit pointer.           *)
Tagging == INSTANCE TagRing WITH g <- tg
Ring == INSTANCE RrfRing WITH free <- rrf.freenum, req <- rrf.reqPtr, com <- comPtr

TagsAndRingLive ==
  /\ Tagging!TagInit /\ [][Tagging!TagNext \/ (Reloaded /\ Tagging!TagInit')]_tg
  /\ Ring!RingInit
  /\ [][Ring!RingNext \/ (Reloaded /\ Ring!RingInit')]_(Ring!ringVars)

(* Whatever the program does, the core goes on committing instructions, and *)
(* a bench comes to its end.                                                *)
KeepsCommitting == []<>(ctl.phase = "done") \/ []<><<comPtr' # comPtr>>_vars
=============================================================================
