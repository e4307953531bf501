-------------------------------- MODULE CoSim --------------------------------
(***************************************************************************)
(* The simulation kernel (sim/controller, sim/event, sim/interface): the   *)
(* controller's event loop in the main thread, and the thread that runs    *)
(* the test bench (SimInterface::describeCon).  The two hand the turn to   *)
(* each other through the four SerializeEvents of the trigger event.       *)
(*                                                                         *)
(* The mutexes and condition variables of the SerializeEvents are modelled *)
(* step by step.  The mutex of the event queue is not: only the main       *)
(* thread touches the queue once the loop has started.                     *)
(***************************************************************************)
EXTENDS Integers, FiniteSets, Sequences, SequencesExt, FiniteSetsExt

CONSTANTS
  Scenarios,  (* the simulations that are checked, see below                *)
  RunMax      (* bound: the longest long run (setNextLimitAmtLRC)           *)

VARIABLE scene   (* the simulation that runs                                *)

(***************************************************************************)
(* A scenario is a record of what the SimInterface of a program fixes:     *)
(***************************************************************************)
Limit     == scene.limit    (* _limitCycle: the last cycle simulated        *)
BenchLast == scene.last     (* bound: the last cycle the bench asks for     *)
Strides   == scene.strides  (* the amounts it passes to conNextCycle        *)
User      == scene.user     (* the user events, see below                   *)
LongRange == scene.long     (* the model runs many cycles at a time         *)
                            (* (enableLRC)                                  *)

(***************************************************************************)
(* An event of the queue is [who, cyc, prio].  "who" is Model, Trigger or  *)
(* the number of a user event.  User[k] = [by, at, prio]: the event k is   *)
(* scheduled by the description of the simulation (by = Describe) at cycle *)
(* "at", by another user event "at" cycles after its own, or by a callback *)
(* of the model (by = Model) "at" cycles after the end of its run.         *)
(***************************************************************************)
Describe == -2
Trigger  == -1
Model    == 0

First    == 2      (* the trigger's first cycle                             *)

FrontPrio == 10    (* also the trigger's priority                           *)
ModelPrio == 9
BackPrio  == 8

ASSUME CoSimAssumption ==
  /\ RunMax \in Nat \ {0}
  /\ \A sc \in Scenarios :
       /\ sc.limit \in Nat /\ sc.last \in Nat /\ sc.long \in BOOLEAN
       /\ sc.strides \subseteq Nat \ {0}
       /\ IsFiniteSet(DOMAIN sc.user)
       /\ \A k \in DOMAIN sc.user :
            /\ k \in Nat \ {0}
            /\ sc.user[k].by \in {Describe, Model} \cup DOMAIN sc.user
            /\ sc.user[k].at \in Nat /\ sc.user[k].prio \in {FrontPrio, BackPrio}

Threads == {"sim", "bench"}
Events  == {"startSim", "finishSim", "startEnd", "finishEnd"}
Nobody  == "nobody"

VARIABLES
  (* the controller *)
  queue,     (* the events that wait                                        *)
  curCycle,  (* _curCycle                                                   *)
  batch,     (* the events of this cycle in the order they are processed    *)
  phase,     (* what is done to them; also "loop", "join", "done", "abort"  *)
  at,        (* the position in the batch                                   *)
  nextAt,    (* nextEventOccurAt                                            *)
  ran,       (* amtLRSim: length of the last long run                       *)
  stopMark,
  (* the model engine, and whether a callback has scheduled its event *)
  model,     (* [cyc, done]: done of the four parts of cycle cyc            *)
  called,
  (* the two threads: the calls they still have to make, and how far the    *)
  (* first of them is                                                       *)
  todo, pc,
  (* the SerializeEvents *)
  owner, last,
  (* the trigger event *)
  future,    (* nextCycle                                                   *)
  leaving,   (* stop                                                        *)
  alive,     (* it has not been deleted                                     *)
  (* the bench *)
  place,     (* "away", "front", "end", "gone"                              *)
  benchCyc   (* conCurCycleUsed                                             *)

kernel == <<queue, curCycle, batch, phase, at, nextAt, ran, stopMark, model, called>>
bench  == <<future, leaving, place, benchCyc>>
vars   == <<scene, kernel, todo, pc, owner, last, bench, alive>>

-----------------------------------------------------------------------------
(* SerializeEvent.  A thread that waits for its turn counts as "ready" or   *)
(* "woken" until it gets the mutex, and owns it while "inside".             *)

Call(op, ev, n) == [op |-> op, ev |-> ev, n |-> n]
Notify(ev, n)   == Call("notify", ev, n)
WaitFor(ev, n)  == Call("wait", ev, n)
Step(op, n)     == Call(op, "none", n)     (* no event: a step of its own   *)

Doing(t, op) == todo[t] # <<>> /\ Head(todo[t]).op = op
Ev(t)        == Head(todo[t]).ev

Return(t) ==
  /\ todo' = [todo EXCEPT ![t] = Tail(@)]
  /\ pc' = [pc EXCEPT ![t] = "ready"]

Lock(t) ==
  /\ Doing(t, "notify") \/ Doing(t, "wait")
  /\ pc[t] \in {"ready", "woken"}
  /\ owner[Ev(t)] = Nobody
  /\ owner' = [owner EXCEPT ![Ev(t)] = t]
  /\ pc' = [pc EXCEPT ![t] = IF @ = "ready" THEN "inside" ELSE "again"]
  /\ UNCHANGED <<kernel, todo, last, bench, alive>>

Publish(t) ==
  /\ Doing(t, "notify") /\ pc[t] = "inside"
  /\ last' = [last EXCEPT ![Ev(t)] = Max({@, Head(todo[t]).n})]
  /\ owner' = [owner EXCEPT ![Ev(t)] = Nobody]
  /\ pc' = [pc EXCEPT ![t] = "notify_all"]
  /\ UNCHANGED <<kernel, todo, bench, alive>>

(* Mutant: the other thread is not woken. *)
NotifyNobody(t) ==
  /\ Doing(t, "notify") /\ pc[t] = "notify_all"
  /\ Return(t)
  /\ UNCHANGED <<kernel, owner, last, bench, alive>>

NotifyAll(t) ==
  /\ Doing(t, "notify") /\ pc[t] = "notify_all"
  /\ todo' = [todo EXCEPT ![t] = Tail(@)]
  /\ pc' = [u \in Threads |->
              IF u = t THEN "ready"
              ELSE IF pc[u] = "asleep" /\ Ev(u) = Ev(t) THEN "woken" ELSE pc[u]]
  /\ UNCHANGED <<kernel, owner, last, bench, alive>>

(* Mutant: a wait is content with the cycle before. *)
PassedEarly(t) == Head(todo[t]).n <= last[Ev(t)] + 1

Passed(t) == Head(todo[t]).n <= last[Ev(t)]

(* "other is ahead of us": the early return of wait.                        *)
WaitPass(t) ==
  /\ Doing(t, "wait") /\ pc[t] = "inside" /\ Passed(t)
  /\ owner' = [owner EXCEPT ![Ev(t)] = Nobody]
  /\ Return(t)
  /\ UNCHANGED <<kernel, last, bench, alive>>

Sleep(t) ==
  /\ Doing(t, "wait") /\ pc[t] \in {"inside", "again"} /\ ~Passed(t)
  /\ owner' = [owner EXCEPT ![Ev(t)] = Nobody]
  /\ pc' = [pc EXCEPT ![t] = "asleep"]
  /\ UNCHANGED <<kernel, todo, last, bench, alive>>

SpuriousWake(t) ==
  /\ pc[t] = "asleep"
  /\ pc' = [pc EXCEPT ![t] = "woken"]
  /\ UNCHANGED <<kernel, todo, owner, last, bench, alive>>

(* A wait that has slept unlocks the mutex itself, and the destructor of    *)
(* the lock unlocks it once more, whoever owns it by then.                  *)
Unlock(t) ==
  /\ Doing(t, "wait") /\ pc[t] = "again" /\ Passed(t)
  /\ owner' = [owner EXCEPT ![Ev(t)] = Nobody]
  /\ pc' = [pc EXCEPT ![t] = "unlocked"]
  /\ UNCHANGED <<kernel, todo, last, bench, alive>>

UnlockAgain(t) ==
  /\ Doing(t, "wait") /\ pc[t] = "unlocked"
  /\ owner' = [owner EXCEPT ![Ev(t)] = Nobody]
  /\ Return(t)
  /\ UNCHANGED <<kernel, last, bench, alive>>

Serialize(t) ==
  \/ Lock(t) \/ Publish(t) \/ NotifyAll(t)
  \/ WaitPass(t) \/ Sleep(t) \/ Unlock(t) \/ UnlockAgain(t)

Idle(t) == todo[t] = <<>>

-----------------------------------------------------------------------------
(* The thread of the bench.                                                 *)

(* Mutant: the bench says twice that it has finished. *)
NextCycleTwice(n) ==
  << Notify("finishSim", benchCyc), Notify("finishSim", benchCyc),
     WaitFor("startEnd", benchCyc), Step("future", benchCyc + n),
     Notify("finishEnd", benchCyc),
     WaitFor("startSim", benchCyc + n), Step("front", benchCyc + n) >>

NextCycle(n) ==
  << Notify("finishSim", benchCyc), WaitFor("startEnd", benchCyc),
     Step("future", benchCyc + n), Notify("finishEnd", benchCyc),
     WaitFor("startSim", benchCyc + n), Step("front", benchCyc + n) >>

EndCycle ==
  << Notify("finishSim", benchCyc), WaitFor("startEnd", benchCyc), Step("end", 0) >>

Finish ==
  << Notify("finishSim", benchCyc), Step("markStop", 0),
     Notify("finishEnd", benchCyc), Step("gone", 0) >>

Leave(calls) ==
  /\ todo' = [todo EXCEPT !["bench"] = calls]
  /\ place' = "away"
  /\ UNCHANGED <<kernel, pc, owner, last, future, leaving, benchCyc, alive>>

InBench == Idle("bench") /\ place \in {"front", "end"}

conNextCycle(n) == InBench /\ benchCyc + n <= BenchLast /\ Leave(NextCycle(n))

(* From the end of a cycle it returns at once and changes nothing.          *)
conEndCycle == InBench /\ place = "front" /\ Leave(EndCycle)

describeConReturns == InBench /\ Leave(Finish)

BenchStep ==
  /\ \E op \in {"future", "markStop", "front", "end", "gone"} : Doing("bench", op)
  /\ LET c == Head(todo["bench"])
     IN  /\ future'   = IF c.op = "future" THEN c.n ELSE future
         /\ leaving'  = (leaving \/ c.op = "markStop")
         /\ benchCyc' = IF c.op = "front" THEN c.n ELSE benchCyc
         /\ place'    = IF c.op \in {"front", "end", "gone"} THEN c.op ELSE place
  /\ Return("bench")
  /\ UNCHANGED <<kernel, owner, last, alive>>

-----------------------------------------------------------------------------
(* The thread of the controller.                                            *)

Event(who, cyc, prio) == [who |-> who, cyc |-> cyc, prio |-> prio]

(* The user events that "who" schedules when it runs in cycle c.            *)
Scheduled(who, c) ==
  {Event(k, c + User[k].at, User[k].prio) : k \in {k \in DOMAIN User : User[k].by = who}}

Cycles(q) == {e.cyc : e \in q}

(* Mutant: the queue gives the lowest priority first. *)
OrdersUpward(S) ==
  {s \in [1..Cardinality(S) -> S] :
     /\ ToSet(s) = S
     /\ \A i, j \in DOMAIN s : i < j => s[i].prio <= s[j].prio}

(* The orders in which the priority queue may give events of one cycle.     *)
Orders(S) ==
  {s \in [1..Cardinality(S) -> S] :
     /\ ToSet(s) = S
     /\ \A i, j \in DOMAIN s : i < j => s[i].prio >= s[j].prio}

Phases == <<"negCur", "negNext", "posCur", "posNext", "long", "next">>

StartCycle ==
  /\ phase = "loop" /\ ~stopMark
  /\ queue # {} /\ Min(Cycles(queue)) <= Limit
  /\ LET c   == Min(Cycles(queue))
         now == {e \in queue : e.cyc = c}
     IN  IF c = curCycle
         THEN /\ phase' = "abort"
              /\ UNCHANGED <<queue, curCycle, batch, at, nextAt>>
         ELSE /\ batch' \in Orders(now)
              /\ queue' = queue \ now
              /\ curCycle' = c
              /\ nextAt' = IF queue' = {} THEN c + RunMax ELSE Min(Cycles(queue'))
              /\ phase' = "negCur" /\ at' = 1
  /\ UNCHANGED <<ran, stopMark, model, called, todo, pc, owner, last, bench, alive>>

LeaveLoop ==
  /\ phase = "loop"
  /\ stopMark \/ queue = {} \/ Min(Cycles(queue)) > Limit
  /\ phase' = "join"
  /\ UNCHANGED <<queue, curCycle, batch, at, nextAt, ran, stopMark, model, called,
                 todo, pc, owner, last, bench, alive>>

Join ==
  /\ phase = "join" /\ place = "gone" /\ Idle("bench")
  /\ phase' = "done"
  /\ UNCHANGED <<queue, curCycle, batch, at, nextAt, ran, stopMark, model, called,
                 todo, pc, owner, last, bench, alive>>

Current == batch[at]

(* The next event of the batch, or the next loop over the batch.            *)
Advance ==
  LET i == CHOOSE i \in DOMAIN Phases : Phases[i] = phase
  IN  IF at < Len(batch)         THEN at' = at + 1 /\ phase' = phase
      ELSE IF i < Len(Phases)    THEN at' = 1 /\ phase' = Phases[i+1]
      ELSE at' = 1 /\ phase' = "loop"

Tick(m) == IF m.done = 3 THEN [cyc |-> m.cyc + 1, done |-> 0] ELSE [m EXCEPT !.done = @ + 1]

Turn(who) == phase \in ToSet(Phases) /\ Idle("sim") /\ Current.who = who

ModelPart ==
  /\ Turn(Model) /\ phase \in {"negCur", "negNext", "posCur", "posNext"}
  /\ model' = IF LongRange THEN model ELSE Tick(model)
  /\ Advance
  /\ UNCHANGED <<queue, curCycle, batch, nextAt, ran, stopMark, called,
                 todo, pc, owner, last, bench, alive>>

(* A long run ends before the next event the queue held when the cycle      *)
(* began; with an empty queue only the limit of the user counts.            *)
Most == Min({RunMax, nextAt - Current.cyc})

(* mainSim runs until its limit or until a callback condition holds; the    *)
(* callbacks may schedule user events and stop the simulation.              *)
LongRun ==
  /\ Turn(Model) /\ phase = "long"
  /\ IF ~LongRange
     THEN UNCHANGED <<queue, ran, stopMark, model, called>>
     ELSE \E n \in 1..Most : \E hit, stop \in BOOLEAN :
            /\ n < Most => hit
            /\ stop => hit
            /\ ran' = n
            /\ model' = [model EXCEPT !.cyc = @ + n]
            /\ stopMark' = (stopMark \/ stop)
            /\ called' = (called \/ hit)
            /\ queue' = IF hit /\ ~called THEN queue \cup Scheduled(Model, Current.cyc + n)
                                          ELSE queue
  /\ Advance
  /\ UNCHANGED <<curCycle, batch, nextAt, todo, pc, owner, last, bench, alive>>

ModelNext ==
  /\ Turn(Model) /\ phase = "next"
  /\ queue' = queue \cup {Event(Model, Current.cyc + (IF LongRange THEN ran ELSE 1), ModelPrio)}
  /\ Advance
  /\ UNCHANGED <<curCycle, batch, nextAt, ran, stopMark, model, called,
                 todo, pc, owner, last, bench, alive>>

(* simStartCurCycleNeg and simStartNextCyclePos of the trigger.             *)
HandOver(c) ==
  CASE phase = "negCur"  -> <<Notify("startSim", c), WaitFor("finishSim", c)>>
    [] phase = "posNext" -> <<Notify("startEnd", c), WaitFor("finishEnd", c)>>
    [] OTHER             -> <<>>

TriggerPart ==
  /\ Turn(Trigger) /\ phase # "next"
  /\ todo' = [todo EXCEPT !["sim"] = HandOver(Current.cyc)]
  /\ Advance
  /\ UNCHANGED <<queue, curCycle, batch, nextAt, ran, stopMark, model, called,
                 pc, owner, last, bench, alive>>

(* genNextEvent, addEvent with its assertion, and needToDelete.             *)
TriggerNext ==
  /\ Turn(Trigger) /\ phase = "next"
  /\ IF ~leaving /\ future < curCycle
     THEN /\ phase' = "abort"
          /\ UNCHANGED <<queue, alive, at>>
     ELSE /\ queue' = IF leaving THEN queue ELSE queue \cup {Event(Trigger, future, FrontPrio)}
          /\ alive' = ~leaving
          /\ Advance
  /\ UNCHANGED <<curCycle, batch, nextAt, ran, stopMark, model, called,
                 todo, pc, owner, last, bench>>

UserEvent ==
  /\ \E k \in DOMAIN User : Turn(k)
  /\ queue' = IF phase = "negCur" THEN queue \cup Scheduled(Current.who, Current.cyc) ELSE queue
  /\ Advance
  /\ UNCHANGED <<curCycle, batch, nextAt, ran, stopMark, model, called,
                 todo, pc, owner, last, bench, alive>>

-----------------------------------------------------------------------------
Init ==
  /\ scene \in Scenarios
  /\ queue = {Event(Model, 0, ModelPrio), Event(Trigger, First, FrontPrio)}
               \cup Scheduled(Describe, 0)
  /\ curCycle = -1 /\ batch = <<>> /\ phase = "loop" /\ at = 1 /\ nextAt = 0
  /\ ran = 0 /\ stopMark = FALSE
  /\ model = [cyc |-> 0, done |-> 0] /\ called = FALSE
  /\ todo = [t \in Threads |->
               IF t = "sim" THEN <<>> ELSE <<WaitFor("startSim", First), Step("front", First)>>]
  /\ pc = [t \in Threads |-> "ready"]
  /\ owner = [e \in Events |-> Nobody]
  /\ last = [e \in Events |-> -1]
  /\ future = -1 /\ leaving = FALSE /\ alive = TRUE
  /\ place = "away" /\ benchCyc = First

(* The main thread returns from simStart, or an assertion ended it.         *)
Stopped == phase \in {"done", "abort"} /\ UNCHANGED vars

Sim ==
  \/ Serialize("sim")
  \/ StartCycle \/ LeaveLoop \/ Join
  \/ ModelPart \/ LongRun \/ ModelNext
  \/ TriggerPart \/ TriggerNext
  \/ UserEvent

Bench ==
  \/ Serialize("bench")
  \/ (\E n \in Strides : conNextCycle(n)) \/ conEndCycle \/ describeConReturns
  \/ BenchStep

(* An assertion that fails ends both threads.                               *)
Running == phase # "abort" /\ UNCHANGED scene

Next ==
  \/ Running /\ (Sim \/ Bench \/ \E t \in Threads : SpuriousWake(t))
  \/ Stopped

Spec == Init /\ [][Next]_vars

(* The operating system runs both threads, a thread that finds a mutex free *)
(* again and again gets it, and the bench's own code ends.  Nothing is      *)
(* assumed of spurious wake-ups.                                            *)
FairSpec ==
  /\ Spec
  /\ WF_vars(Running /\ Sim) /\ WF_vars(Running /\ Bench)
  /\ \A t \in Threads : SF_vars(Running /\ Lock(t))

-----------------------------------------------------------------------------
(* Properties.                                                              *)

(* A user event runs in its cycle: one of the front priority before the     *)
(* model has done anything in that cycle, one of the back priority when the *)
(* model has computed its falling edge and nothing else (eventBase.h        *)
(* 112-123, simController.cpp 48-51).  None is met when its cycle is over,   *)
(* where an assertion of the controller fails (24).                         *)
UserOnTime ==
  /\ phase # "abort"
  /\ phase = "negCur" /\ Idle("sim") /\ Current.who \in DOMAIN User =>
       model = [cyc  |-> Current.cyc,
                done |-> IF Current.prio = BackPrio /\ ~LongRange THEN 1 ELSE 0]

(* The second unlock of SerializeEvent::wait (ctTrigEvent.h 47-49) finds    *)
(* the mutex free: it never takes it away from the other thread.            *)
NoForeignUnlock ==
  \A t \in Threads : pc[t] = "unlocked" => owner[Ev(t)] = Nobody

(* simStart returns, unless a callback of the model has stopped the         *)
(* simulation.                                                              *)
Joined == <>(phase = "done" \/ stopMark)

(* The bench and the model take turns.                                      *)
Arrived == Step("front", First) \notin ToSet(todo["bench"])

Turns == INSTANCE Lockstep WITH cycle <- IF Arrived THEN benchCyc ELSE First - 1,
                                whole <- LongRange

TakesTurns == Turns!Spec
=============================================================================
