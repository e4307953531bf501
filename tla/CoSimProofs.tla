----------------------------- MODULE CoSimProofs -----------------------------
(***************************************************************************)
(* What is proved of the simulation kernel, for every program's simulation *)
(* (Scenarios) and every length of a long run:                             *)
(*   ThreadsAgree    how far the two threads are, and what each has been   *)
(*                   told, fits together (HInv, the inductive invariant);  *)
(*   MutexNotStolen  the second unlock of a wait takes the mutex away from *)
(*                   no one;                                               *)
(* and of a simulation that runs cycle by cycle:                           *)
(*   TurnsTaken      CoSim implements Lockstep (with TInv, where the model *)
(*                   is in its cycle);                                     *)
(*   EventsOnTime    no user event comes late and no assertion fails       *)
(*                   (with Timely, what the queue and the batch hold).     *)
(***************************************************************************)
EXTENDS CoSim, FiniteSetTheorems, TLAPS

(* The calls a thread of the kernel still has to make: what is left of      *)
(* waitForStart and of NextCycle (N6 .. N1), of EndCycle (E3 .. E1), of     *)
(* Finish (F4 .. F1), and of the two calls of the trigger (S2, S1, Z2, Z1). *)
N1(x)    == <<Step("front", x)>>
N2(x)    == <<WaitFor("startSim", x), Step("front", x)>>
N3(c, x) == <<Notify("finishEnd", c), WaitFor("startSim", x), Step("front", x)>>
N4(c, x) == <<Step("future", x), Notify("finishEnd", c),
              WaitFor("startSim", x), Step("front", x)>>
N5(c, x) == <<WaitFor("startEnd", c), Step("future", x), Notify("finishEnd", c),
              WaitFor("startSim", x), Step("front", x)>>
N6(c, x) == <<Notify("finishSim", c), WaitFor("startEnd", c), Step("future", x),
              Notify("finishEnd", c), WaitFor("startSim", x), Step("front", x)>>
E1       == <<Step("end", 0)>>
E2(c)    == <<WaitFor("startEnd", c), Step("end", 0)>>
E3(c)    == <<Notify("finishSim", c), WaitFor("startEnd", c), Step("end", 0)>>
F1       == <<Step("gone", 0)>>
F2(c)    == <<Notify("finishEnd", c), Step("gone", 0)>>
F3(c)    == <<Step("markStop", 0), Notify("finishEnd", c), Step("gone", 0)>>
F4(c)    == <<Notify("finishSim", c), Step("markStop", 0),
              Notify("finishEnd", c), Step("gone", 0)>>
S1(x)    == <<WaitFor("finishSim", x)>>
S2(x)    == <<Notify("startSim", x), WaitFor("finishSim", x)>>
Z1(x)    == <<WaitFor("finishEnd", x)>>
Z2(x)    == <<Notify("startEnd", x), WaitFor("finishEnd", x)>>

Is(q, op, ev, n, rest) ==
  q # <<>> /\ Head(q) = Call(op, ev, n) /\ Tail(q) = rest

ScriptFacts(c, x) ==
  /\ Is(N1(x), "front", "none", x, <<>>)
  /\ Is(N2(x), "wait", "startSim", x, N1(x))
  /\ Is(N3(c, x), "notify", "finishEnd", c, N2(x))
  /\ Is(N4(c, x), "future", "none", x, N3(c, x))
  /\ Is(N5(c, x), "wait", "startEnd", c, N4(c, x))
  /\ Is(N6(c, x), "notify", "finishSim", c, N5(c, x))
  /\ Is(E1, "end", "none", 0, <<>>)
  /\ Is(E2(c), "wait", "startEnd", c, E1)
  /\ Is(E3(c), "notify", "finishSim", c, E2(c))
  /\ Is(F1, "gone", "none", 0, <<>>)
  /\ Is(F2(c), "notify", "finishEnd", c, F1)
  /\ Is(F3(c), "markStop", "none", 0, F2(c))
  /\ Is(F4(c), "notify", "finishSim", c, F3(c))
  /\ Is(S1(x), "wait", "finishSim", x, <<>>)
  /\ Is(S2(x), "notify", "startSim", x, S1(x))
  /\ Is(Z1(x), "wait", "finishEnd", x, <<>>)
  /\ Is(Z2(x), "notify", "startEnd", x, Z1(x))

(* The first call of each of them, and what is left after it.               *)
LEMMA Scripts == \A c, x : ScriptFacts(c, x)
<1> SUFFICES ASSUME NEW c, NEW x PROVE ScriptFacts(c, x)
  OBVIOUS
<1> USE DEF Is, Notify, WaitFor, Step
<1>1. /\ Is(N1(x), "front", "none", x, <<>>)
      /\ Is(N2(x), "wait", "startSim", x, N1(x))
      /\ Is(N3(c, x), "notify", "finishEnd", c, N2(x))
  BY DEF N1, N2, N3
<1>2. /\ Is(N4(c, x), "future", "none", x, N3(c, x))
      /\ Is(N5(c, x), "wait", "startEnd", c, N4(c, x))
      /\ Is(N6(c, x), "notify", "finishSim", c, N5(c, x))
  BY DEF N3, N4, N5, N6
<1>3. /\ Is(E1, "end", "none", 0, <<>>)
      /\ Is(E2(c), "wait", "startEnd", c, E1)
      /\ Is(E3(c), "notify", "finishSim", c, E2(c))
  BY DEF E1, E2, E3
<1>4. /\ Is(F1, "gone", "none", 0, <<>>)
      /\ Is(F2(c), "notify", "finishEnd", c, F1)
      /\ Is(F3(c), "markStop", "none", 0, F2(c))
      /\ Is(F4(c), "notify", "finishSim", c, F3(c))
  BY DEF F1, F2, F3, F4
<1>5. /\ Is(S1(x), "wait", "finishSim", x, <<>>)
      /\ Is(S2(x), "notify", "startSim", x, S1(x))
      /\ Is(Z1(x), "wait", "finishEnd", x, <<>>)
      /\ Is(Z2(x), "notify", "startEnd", x, Z1(x))
  BY DEF S1, S2, Z1, Z2
<1> QED
  BY <1>1, <1>2, <1>3, <1>4, <1>5 DEF ScriptFacts
-----------------------------------------------------------------------------
(* Where the trigger is in the controller's loop.                           *)

Trig(i, X) == i \in DOMAIN batch /\ batch[i].who = Trigger /\ batch[i].cyc = X

(* The trigger of cycle X waits for its first turn, has had it and waits    *)
(* for the second, has had both.                                            *)
Before(X) ==
  \/ \E e \in queue : e.who = Trigger /\ e.cyc = X
  \/ phase = "negCur" /\ \E i \in Int : Trig(i, X) /\ at <= i

Middle(X) ==
  \E i \in Int :
     /\ Trig(i, X)
     /\ \/ phase = "negCur" /\ at > i
        \/ phase \in {"negNext", "posCur"}
        \/ phase = "posNext" /\ at <= i

Late(X) ==
  \E i \in Int :
     /\ Trig(i, X)
     /\ \/ phase = "posNext" /\ at > i
        \/ phase = "long"
        \/ phase = "next" /\ at <= i

(* The trigger is deleted only when the bench has returned.                 *)
Placed == leaving \/ phase = "abort" \/ \E X \in Int : Before(X) \/ Middle(X) \/ Late(X)

EventSet == [who : Int, cyc : Int, prio : Int]

(* The queue and the batch hold the trigger at most once.                   *)
Kernel ==
  /\ queue \subseteq EventSet /\ IsFiniteSet(queue)
  /\ phase \in ToSet(Phases) => batch \in Seq(EventSet) /\ at \in 1..Len(batch)
  /\ \A e, f \in queue : e.who = Trigger /\ f.who = Trigger => e = f
  /\ phase \in ToSet(Phases) =>
       \A i, j \in DOMAIN batch :
          batch[i].who = Trigger =>
            /\ batch[j].who = Trigger => i = j
            /\ \A e \in queue : e.who = Trigger => phase = "next" /\ at > i

-----------------------------------------------------------------------------
(* How far each thread is, and what it has told the other.                  *)

StartSim  == last["startSim"]
FinishSim == last["finishSim"]
StartEnd  == last["startEnd"]
FinishEnd == last["finishEnd"]

SimCalls   == todo["sim"]
BenchCalls == todo["bench"]
Published(t) == pc[t] = "notify_all"

(* The cycle of the bench's next visit, if it has fixed one.                *)
Target == IF future = -1 THEN First ELSE future

BWaits ==
  /\ ~leaving /\ place = "away"
  /\ StartSim <= Target /\ FinishSim < Target /\ StartEnd < Target /\ FinishEnd < Target
  /\ benchCyc < Target \/ (benchCyc = First /\ future = -1)
  /\ \/ BenchCalls = N2(Target)
     \/ BenchCalls = N1(Target) /\ StartSim = Target
     \/ BenchCalls = N3(benchCyc, Target) /\ Published("bench")

BFront ==
  /\ ~leaving
  /\ StartSim = benchCyc /\ FinishSim < benchCyc /\ StartEnd < benchCyc /\ FinishEnd < benchCyc
  /\ \/ BenchCalls = <<>> /\ place = "front"
     \/ /\ place = "away" /\ ~Published("bench")
        /\ \/ \E x \in Int : x > benchCyc /\ BenchCalls = N6(benchCyc, x)
           \/ BenchCalls = E3(benchCyc)
           \/ BenchCalls = F4(benchCyc)

BSettles ==
  /\ place = "away"
  /\ StartSim = benchCyc /\ FinishSim = benchCyc /\ StartEnd <= benchCyc /\ FinishEnd < benchCyc
  /\ \/ /\ ~leaving
        /\ \/ \E x \in Int : /\ x > benchCyc
                           /\ \/ BenchCalls = N6(benchCyc, x) /\ Published("bench")
                              \/ BenchCalls = N5(benchCyc, x)
           \/ BenchCalls = E3(benchCyc) /\ Published("bench")
           \/ BenchCalls = E2(benchCyc)
           \/ BenchCalls = F4(benchCyc) /\ Published("bench")
           \/ BenchCalls = F3(benchCyc)
     \/ leaving /\ BenchCalls = F2(benchCyc) /\ ~Published("bench")

BEnd ==
  /\ ~leaving
  /\ StartSim = benchCyc /\ FinishSim = benchCyc /\ StartEnd = benchCyc /\ FinishEnd < benchCyc
  /\ \/ BenchCalls = <<>> /\ place = "end"
     \/ /\ place = "away"
        /\ \/ BenchCalls = E1
           \/ \E x \in Int :
                 /\ x > benchCyc
                 /\ \/ BenchCalls = N6(benchCyc, x) /\ ~Published("bench")
                    \/ BenchCalls = N4(benchCyc, x)
                    \/ BenchCalls = N3(benchCyc, x) /\ ~Published("bench") /\ future = x
           \/ BenchCalls = F4(benchCyc) /\ ~Published("bench")

BGone ==
  /\ leaving
  /\ StartSim = benchCyc /\ FinishSim = benchCyc /\ StartEnd <= benchCyc /\ FinishEnd = benchCyc
  /\ \/ place = "away" /\ BenchCalls = F2(benchCyc) /\ Published("bench")
     \/ place = "away" /\ BenchCalls = F1
     \/ place = "gone" /\ BenchCalls = <<>>

BenchAt == BWaits \/ BFront \/ BSettles \/ BEnd \/ BGone

(* Before the trigger has had its first turn, between the two, after both.  *)
Fresh(X) ==
  /\ ~leaving /\ X = Target
  /\ StartSim < X /\ FinishSim = StartSim /\ StartEnd = StartSim /\ FinishEnd = StartSim

RowBefore(X) == X >= First /\ SimCalls = <<>> /\ Fresh(X)

RowMiddle(X) ==
  /\ X >= First
  /\ \/ SimCalls = S2(X) /\ ~Published("sim") /\ Fresh(X)
     \/ /\ (SimCalls = S2(X) /\ Published("sim")) \/ SimCalls = S1(X)
        /\ StartSim = X /\ StartEnd < X /\ FinishSim <= X /\ FinishEnd <= X
     \/ SimCalls = <<>> /\ StartSim = X /\ FinishSim = X /\ StartEnd < X /\ FinishEnd <= X

RowLate(X) ==
  /\ X >= First
  /\ StartSim = X /\ FinishSim = X /\ FinishEnd <= X
  /\ \/ SimCalls = Z2(X) /\ ~Published("sim") /\ StartEnd < X
     \/ ((SimCalls = Z2(X) /\ Published("sim")) \/ SimCalls = Z1(X)) /\ StartEnd = X
     \/ SimCalls = <<>> /\ StartEnd = X /\ FinishEnd = X

SimAt ==
  /\ \A X \in Int :
       /\ Before(X) => RowBefore(X)
       /\ Middle(X) => RowMiddle(X)
       /\ Late(X) => RowLate(X)
  /\ SimCalls # <<>> => \E X \in Int : Middle(X) \/ Late(X)

PcValues == {"ready", "inside", "notify_all", "asleep", "woken", "again", "unlocked"}

Types ==
  /\ pc \in [Threads -> PcValues]
  /\ owner \in [Events -> Threads \cup {Nobody}]
  /\ last \in [Events -> Int]
  /\ DOMAIN todo = Threads /\ todo = [t \in Threads |-> todo[t]]
  /\ benchCyc \in Int /\ benchCyc >= First
  /\ future \in Int
  /\ leaving \in BOOLEAN
  /\ scene \in Scenarios /\ ran \in Int

(* A thread is where it can be in its first call.                           *)
PcAt ==
  \A t \in Threads :
     /\ ~(Doing(t, "notify") \/ Doing(t, "wait")) => pc[t] = "ready"
     /\ Doing(t, "notify") => pc[t] \in {"ready", "inside", "notify_all"}
     /\ Doing(t, "wait") => pc[t] # "notify_all"
     /\ pc[t] = "unlocked" => Passed(t)

(* A mutex is owned by the thread that is inside.                           *)
Mutex ==
  \A e \in Events : \A t \in Threads :
     owner[e] = t <=> pc[t] \in {"inside", "again"} /\ Ev(t) = e

HInv == Types /\ Kernel /\ BenchAt /\ SimAt /\ PcAt /\ Mutex
-----------------------------------------------------------------------------

(* What the first call of a thread is.                                      *)
LEMMA FirstCall ==
  ASSUME NEW t, NEW op, NEW ev, NEW n, NEW rest, Is(todo[t], op, ev, n, rest)
  PROVE  /\ todo[t] # <<>> /\ ~Idle(t)
         /\ \A o : Doing(t, o) <=> o = op
         /\ Ev(t) = ev /\ Head(todo[t]).n = n /\ Tail(todo[t]) = rest
  BY DEF Is, Doing, Ev, Call, Idle

(* SerializeEvent, seen from outside: a call to notify publishes and then   *)
(* returns, a call to wait returns when the other thread has published.     *)
LEMMA SerializeEffect ==
  ASSUME Types, PcAt, NEW t \in Threads, NEW op, NEW ev \in Events, NEW n \in Int, NEW rest,
         Is(todo[t], op, ev, n, rest), Serialize(t)
  PROVE  /\ UNCHANGED <<kernel, bench, alive>>
         /\ \A u \in Threads \ {t} : todo'[u] = todo[u] /\ Published(u)' = Published(u)
         /\ \/ todo'[t] = todo[t] /\ Published(t)' = Published(t) /\ last' = last
            \/ /\ op = "notify" /\ ~Published(t)
               /\ last' = [last EXCEPT ![ev] = Max({@, n})]
               /\ todo'[t] = todo[t] /\ Published(t)'
            \/ /\ (op = "notify" /\ Published(t)) \/ (op = "wait" /\ n <= last[ev])
               /\ last' = last
               /\ todo'[t] = rest /\ ~Published(t)'
<1> DEFINE Claim == 
         /\ UNCHANGED <<kernel, bench, alive>>
         /\ \A u \in Threads \ {t} : todo'[u] = todo[u] /\ Published(u)' = Published(u)
         /\ \/ todo'[t] = todo[t] /\ Published(t)' = Published(t) /\ last' = last
            \/ /\ op = "notify" /\ ~Published(t)
               /\ last' = [last EXCEPT ![ev] = Max({@, n})]
               /\ todo'[t] = todo[t] /\ Published(t)'
            \/ /\ (op = "notify" /\ Published(t)) \/ (op = "wait" /\ n <= last[ev])
               /\ last' = last
               /\ todo'[t] = rest /\ ~Published(t)'
<1>1. /\ todo = [u \in Threads |-> todo[u]] /\ pc \in [Threads -> PcValues]
  BY DEF Types
<1>2. /\ Doing(t, "notify") => op = "notify"
      /\ Doing(t, "wait") => op = "wait"
      /\ Ev(t) = ev /\ Head(todo[t]).n = n /\ Tail(todo[t]) = rest
  BY FirstCall
<1> USE DEF Published
<1>3. CASE Lock(t)
  BY <1>1, <1>2, <1>3 DEF Lock
<1>4. CASE Publish(t)
  BY <1>1, <1>2, <1>4 DEF Publish
<1>5. CASE NotifyAll(t)
  <2>1. pc'[t] = "ready"
    BY <1>5 DEF NotifyAll
  <2>2. \A u \in Threads \ {t} : pc'[u] = pc[u] \/ (pc[u] = "asleep" /\ pc'[u] = "woken")
    BY <1>5 DEF NotifyAll
  <2>3. \A u \in Threads \ {t} : todo'[u] = todo[u] /\ Published(u)' = Published(u)
    BY <1>1, <1>5, <2>2 DEF NotifyAll
  <2>4. op = "notify" /\ Published(t) /\ todo'[t] = rest /\ ~Published(t)'
    BY <1>1, <1>2, <1>5, <2>1 DEF NotifyAll
  <2> QED
    BY <1>5, <2>3, <2>4 DEF NotifyAll
<1>6. CASE WaitPass(t)
  BY <1>1, <1>2, <1>6 DEF WaitPass, Passed, Return
<1>7. CASE Sleep(t)
  BY <1>1, <1>2, <1>7 DEF Sleep
<1>8. CASE Unlock(t)
  BY <1>1, <1>2, <1>8 DEF Unlock
<1>9. CASE UnlockAgain(t)
  BY <1>1, <1>2, <1>9 DEF UnlockAgain, PcAt, Passed, Return
<1> QED
  BY <1>3, <1>4, <1>5, <1>6, <1>7, <1>8, <1>9 DEF Serialize

(* What notify publishes.                                                   *)
LEMMA MaxOfTwo ==
  ASSUME NEW x \in Int, NEW y \in Int
  PROVE  Max({x, y}) = IF x <= y THEN y ELSE x
  BY DEF Max

(* What the numbers and the threads are.                                    *)
LEMMA Values ==
  ASSUME Types
  PROVE  /\ StartSim \in Int /\ FinishSim \in Int /\ StartEnd \in Int /\ FinishEnd \in Int
         /\ benchCyc \in Int /\ future \in Int /\ Target \in Int
         /\ "sim" \in Threads /\ "bench" \in Threads
  BY DEF Types, StartSim, FinishSim, StartEnd, FinishEnd, Target, First, Events, Threads

(* A thread without a call does nothing in SerializeEvent.                  *)
LEMMA NoCall ==
  ASSUME NEW t, todo[t] = <<>> PROVE ~Serialize(t)
  BY DEF Serialize, Doing, Lock, Publish, NotifyAll, WaitPass, Sleep, Unlock, UnlockAgain

-----------------------------------------------------------------------------
(* The steps of the bench keep BenchAt.                                     *)

(* What one of its calls to an event does.                                  *)
Effect(op, ev, n, rest) ==
  /\ UNCHANGED <<benchCyc, future, leaving, place, kernel>>
  /\ SimCalls' = SimCalls /\ Published("sim")' = Published("sim")
  /\ \/ BenchCalls' = BenchCalls /\ Published("bench")' = Published("bench") /\ last' = last
     \/ /\ op = "notify" /\ ~Published("bench")
        /\ last' = [last EXCEPT ![ev] = IF @ <= n THEN n ELSE @]
        /\ BenchCalls' = BenchCalls /\ Published("bench")'
     \/ /\ (op = "notify" /\ Published("bench")) \/ (op = "wait" /\ n <= last[ev])
        /\ last' = last
        /\ BenchCalls' = rest /\ ~Published("bench")'

(* That is what a step in one of its calls does.                            *)
LEMMA BenchEffect ==
  ASSUME Types, PcAt, NEW op, NEW ev \in Events, NEW n \in Int, NEW rest,
         Is(BenchCalls, op, ev, n, rest), Serialize("bench")
  PROVE  Effect(op, ev, n, rest)
<1>1. last[ev] \in Int
  BY DEF Types
<1>2. Max({last[ev], n}) = IF last[ev] <= n THEN n ELSE last[ev]
  BY <1>1, MaxOfTwo
<1> QED
  BY <1>2, SerializeEffect DEF Effect, BenchCalls, SimCalls, bench, Threads

(* What the bench has told the controller when it has.                      *)
BenchSays ==
  /\ SimCalls' = SimCalls /\ Published("sim")' = Published("sim")
  /\ UNCHANGED kernel
  /\ StartSim' = StartSim /\ StartEnd' = StartEnd
  /\ \/ UNCHANGED <<FinishSim, FinishEnd, leaving, future>>
     \/ /\ FinishEnd < StartSim
        /\ FinishSim' \in {FinishSim, StartSim} /\ FinishEnd' \in {FinishEnd, StartSim}

(* Its steps in such a call, from the start of a cycle,                     *)
LEMMA FromFront ==
  ASSUME Types, PcAt, BFront, Serialize("bench")
  PROVE  BenchAt' /\ BenchSays
<1>1. PICK x : \/ x \in Int /\ x > benchCyc /\ BenchCalls = N6(benchCyc, x)
               \/ BenchCalls = E3(benchCyc)
               \/ BenchCalls = F4(benchCyc)
  BY NoCall DEF BFront, BenchCalls
<1>2. ~Published("bench") /\ place = "away"
  BY NoCall DEF BFront, BenchCalls
<1>3. ScriptFacts(benchCyc, x)
  BY Scripts
<1>4. PICK rest : Effect("notify", "finishSim", benchCyc, rest)
  BY <1>1, <1>3, BenchEffect, Values DEF ScriptFacts, Events
<1> QED
  BY <1>1, <1>2, <1>4, Values
     DEF BFront, BSettles, BenchAt, BenchSays, Effect, Types, Events, StartSim, FinishSim, StartEnd, FinishEnd

(* while the model settles,                                                 *)
LEMMA FromSettles ==
  ASSUME Types, PcAt, BSettles, Serialize("bench")
  PROVE  BenchAt' /\ BenchSays
<1> USE DEF Effect, BenchSays, Types, Events, StartSim, FinishSim, StartEnd, FinishEnd
<1>1. CASE leaving
  <2>1. BenchCalls = F2(benchCyc) /\ ~Published("bench")
    BY <1>1 DEF BSettles
  <2>2. Effect("notify", "finishEnd", benchCyc, F1)
    BY <2>1, Scripts, BenchEffect, Values DEF ScriptFacts
  <2> QED
    BY <1>1, <2>1, <2>2, Values DEF BSettles, BGone, BenchAt
<1>2. CASE ~leaving
  <2>1. PICK x : \/ /\ x \in Int /\ x > benchCyc
                    /\ \/ BenchCalls = N6(benchCyc, x) /\ Published("bench")
                       \/ BenchCalls = N5(benchCyc, x)
                 \/ BenchCalls = E3(benchCyc) /\ Published("bench")
                 \/ BenchCalls = E2(benchCyc)
                 \/ BenchCalls = F4(benchCyc) /\ Published("bench")
                 \/ BenchCalls = F3(benchCyc)
    BY <1>2 DEF BSettles
  <2>2. ScriptFacts(benchCyc, x)
    BY Scripts
  <2>3. CASE BenchCalls = N6(benchCyc, x) /\ Published("bench") /\ x \in Int /\ x > benchCyc
    <3>1. Effect("notify", "finishSim", benchCyc, N5(benchCyc, x))
      BY <2>2, <2>3, BenchEffect, Values DEF ScriptFacts
    <3> QED
      BY <1>2, <2>3, <3>1, Values DEF BSettles, BenchAt
  <2>4. CASE BenchCalls = N5(benchCyc, x) /\ x \in Int /\ x > benchCyc
    <3>1. Effect("wait", "startEnd", benchCyc, N4(benchCyc, x))
      BY <2>2, <2>4, BenchEffect, Values DEF ScriptFacts
    <3> QED
      BY <1>2, <2>4, <3>1, Values DEF BSettles, BEnd, BenchAt
  <2>5. CASE BenchCalls = E3(benchCyc) /\ Published("bench")
    <3>1. Effect("notify", "finishSim", benchCyc, E2(benchCyc))
      BY <2>2, <2>5, BenchEffect, Values DEF ScriptFacts
    <3> QED
      BY <1>2, <2>5, <3>1, Values DEF BSettles, BenchAt
  <2>6. CASE BenchCalls = E2(benchCyc)
    <3>1. Effect("wait", "startEnd", benchCyc, E1)
      BY <2>2, <2>6, BenchEffect, Values DEF ScriptFacts
    <3> QED
      BY <1>2, <2>6, <3>1, Values DEF BSettles, BEnd, BenchAt
  <2>7. CASE BenchCalls = F4(benchCyc) /\ Published("bench")
    <3>1. Effect("notify", "finishSim", benchCyc, F3(benchCyc))
      BY <2>2, <2>7, BenchEffect, Values DEF ScriptFacts
    <3> QED
      BY <1>2, <2>7, <3>1, Values DEF BSettles, BenchAt
  <2>8. CASE BenchCalls = F3(benchCyc)
    <3>1. Is(todo["bench"], "markStop", "none", 0, F2(benchCyc))
      BY <2>2, <2>8 DEF ScriptFacts, BenchCalls
    <3> QED
      BY <3>1, FirstCall DEF Serialize, Lock, Publish, NotifyAll, WaitPass, Sleep, Unlock, UnlockAgain
  <2> QED
    BY <2>1, <2>3, <2>4, <2>5, <2>6, <2>7, <2>8
<1> QED
  BY <1>1, <1>2 DEF Types
(* A thread whose first call is a step of its own is not in SerializeEvent. *)
LEMMA NoEventCall ==
  ASSUME NEW t, ~Doing(t, "notify"), ~Doing(t, "wait")
  PROVE  ~Serialize(t)
  BY DEF Serialize, Lock, Publish, NotifyAll, WaitPass, Sleep, Unlock, UnlockAgain

(* from the end of a cycle,                                                 *)
LEMMA FromEnd ==
  ASSUME Types, PcAt, BEnd, Serialize("bench")
  PROVE  BenchAt' /\ BenchSays
<1> USE DEF Effect, BenchSays, Types, Events, StartSim, FinishSim, StartEnd, FinishEnd
<1>1. BenchCalls # <<>>
  BY NoCall DEF BenchCalls
<1>2. PICK x : \/ BenchCalls = E1
               \/ /\ x \in Int /\ x > benchCyc
                  /\ \/ BenchCalls = N6(benchCyc, x) /\ ~Published("bench")
                     \/ BenchCalls = N4(benchCyc, x)
                     \/ BenchCalls = N3(benchCyc, x) /\ ~Published("bench") /\ future = x
               \/ BenchCalls = F4(benchCyc) /\ ~Published("bench")
  BY <1>1 DEF BEnd
<1>3. ScriptFacts(benchCyc, x)
  BY Scripts
<1>4. CASE BenchCalls = E1
  <2>1. Is(todo["bench"], "end", "none", 0, <<>>)
    BY <1>3, <1>4 DEF ScriptFacts, BenchCalls
  <2> QED
    BY <2>1, FirstCall, NoEventCall
<1>5. CASE BenchCalls = N6(benchCyc, x) /\ ~Published("bench") /\ x \in Int /\ x > benchCyc
  <2>1. Effect("notify", "finishSim", benchCyc, N5(benchCyc, x))
    BY <1>3, <1>5, BenchEffect, Values DEF ScriptFacts
  <2> QED
    BY <1>1, <1>5, <2>1, Values DEF BEnd, BSettles, BenchAt
<1>6. CASE BenchCalls = N4(benchCyc, x)
  <2>1. Is(todo["bench"], "future", "none", x, N3(benchCyc, x))
    BY <1>3, <1>6 DEF ScriptFacts, BenchCalls
  <2> QED
    BY <2>1, FirstCall, NoEventCall
<1>7. CASE BenchCalls = N3(benchCyc, x) /\ ~Published("bench") /\ future = x /\ x > benchCyc
  <2>1. Effect("notify", "finishEnd", benchCyc, N2(x))
    BY <1>3, <1>7, BenchEffect, Values DEF ScriptFacts
  <2>2. Target = x /\ Target' = x
    BY <1>7, <2>1 DEF Target, First
  <2> QED
    BY <1>1, <1>7, <2>1, <2>2, Values DEF BEnd, BWaits, BenchAt
<1>8. CASE BenchCalls = F4(benchCyc) /\ ~Published("bench")
  <2>1. Effect("notify", "finishSim", benchCyc, F3(benchCyc))
    BY <1>3, <1>8, BenchEffect, Values DEF ScriptFacts
  <2> QED
    BY <1>1, <1>8, <2>1, Values DEF BEnd, BSettles, BenchAt
<1> QED
  BY <1>2, <1>4, <1>5, <1>6, <1>7, <1>8

(* when it has told the trigger to stop,                                    *)
LEMMA FromGone ==
  ASSUME Types, PcAt, BGone, Serialize("bench")
  PROVE  BenchAt' /\ BenchSays
<1> USE DEF Effect, BenchSays, Types, Events, StartSim, FinishSim, StartEnd, FinishEnd
<1>1. ScriptFacts(benchCyc, 0)
  BY Scripts
<1>2. BenchCalls # <<>>
  BY NoCall DEF BenchCalls
<1>3. ASSUME BenchCalls = F1 PROVE FALSE
  <2>1. Is(todo["bench"], "gone", "none", 0, <<>>)
    BY <1>1, <1>3 DEF ScriptFacts, BenchCalls
  <2> QED
    BY <2>1, FirstCall, NoEventCall
<1>4. BenchCalls = F2(benchCyc) /\ Published("bench")
  BY <1>2, <1>3 DEF BGone
<1>5. Effect("notify", "finishEnd", benchCyc, F1)
  BY <1>1, <1>4, BenchEffect, Values DEF ScriptFacts
<1> QED
  BY <1>2, <1>4, <1>5, Values DEF BGone, BenchAt

(* and on the way to its next cycle.                                        *)
LEMMA FromWaits ==
  ASSUME Types, PcAt, BWaits, Serialize("bench")
  PROVE  BenchAt' /\ BenchSays
<1> USE DEF Effect, BenchSays, Types, Events, StartSim, FinishSim, StartEnd, FinishEnd
<1>1. ScriptFacts(benchCyc, Target)
  BY Scripts
<1>2. ASSUME BenchCalls = N1(Target) PROVE FALSE
  <2>1. Is(todo["bench"], "front", "none", Target, <<>>)
    BY <1>1, <1>2 DEF ScriptFacts, BenchCalls
  <2> QED
    BY <2>1, FirstCall, NoEventCall
<1>3. CASE BenchCalls = N2(Target)
  <2>1. Effect("wait", "startSim", Target, N1(Target))
    BY <1>1, <1>3, BenchEffect, Values DEF ScriptFacts
  <2>2. Target' = Target
    BY <2>1 DEF Target
  <2> QED
    BY <1>3, <2>1, <2>2, Values DEF BWaits, BenchAt
<1>4. CASE BenchCalls = N3(benchCyc, Target) /\ Published("bench")
  <2>1. Effect("notify", "finishEnd", benchCyc, N2(Target))
    BY <1>1, <1>4, BenchEffect, Values DEF ScriptFacts
  <2>2. Target' = Target
    BY <2>1 DEF Target
  <2> QED
    BY <1>4, <2>1, <2>2, Values DEF BWaits, BenchAt
<1> QED
  BY <1>2, <1>3, <1>4 DEF BWaits
(* The steps of its own.                                                    *)
StepTo(op, n, rest) ==
  /\ op \in {"future", "markStop", "front", "end", "gone"}
  /\ future' = IF op = "future" THEN n ELSE future
  /\ leaving' = (leaving \/ op = "markStop")
  /\ benchCyc' = IF op = "front" THEN n ELSE benchCyc
  /\ place' = IF op \in {"front", "end", "gone"} THEN op ELSE place
  /\ BenchCalls' = rest /\ ~Published("bench") /\ ~Published("bench")'
  /\ SimCalls' = SimCalls /\ Published("sim")' = Published("sim")
  /\ UNCHANGED <<kernel, owner, last, alive>>

(* A step of its own does what its first call says.                         *)
LEMMA StepEffect ==
  ASSUME Types, PcAt, NEW op, NEW ev, NEW n, NEW rest,
         Is(BenchCalls, op, ev, n, rest), BenchStep
  PROVE  StepTo(op, n, rest)
<1>1. /\ todo = [u \in Threads |-> todo[u]] /\ pc \in [Threads -> PcValues]
      /\ "bench" \in Threads /\ "sim" \in Threads
  BY DEF Types, Threads
<1>2. /\ \A o : Doing("bench", o) <=> o = op
      /\ Head(todo["bench"]).n = n /\ Tail(todo["bench"]) = rest
      /\ Head(todo["bench"]).op = op
  BY FirstCall DEF BenchCalls, Is, Call
<1>3. op \in {"future", "markStop", "front", "end", "gone"}
  BY <1>2 DEF BenchStep
<1>4. pc["bench"] = "ready"
  BY <1>1, <1>2, <1>3 DEF PcAt
<1> QED
  BY <1>1, <1>2, <1>3, <1>4 DEF StepTo, BenchStep, Return, Published, BenchCalls, SimCalls

(* It makes none while an event is called.                                  *)
LEMMA NoStep ==
  ASSUME NEW op \in {"notify", "wait"}, NEW ev, NEW n, NEW rest, Is(BenchCalls, op, ev, n, rest)
  PROVE  ~BenchStep
<1>1. \A o : Doing("bench", o) => o \in {"notify", "wait"}
  BY FirstCall DEF BenchCalls
<1> QED
  BY <1>1 DEF BenchStep

BenchTyped ==
  benchCyc \in Int /\ benchCyc >= First /\ future \in Int /\ leaving \in BOOLEAN

(* They keep BenchAt.                                                       *)
LEMMA BenchOwnStep ==
  ASSUME Types, PcAt, BenchAt, BenchStep
  PROVE  BenchAt' /\ BenchSays /\ BenchTyped'
<1> USE DEF BenchTyped, BenchSays, StartSim, FinishSim, StartEnd, FinishEnd
<1>1. \A x : ScriptFacts(benchCyc, x)
  BY Scripts
<1> BenchTyped
  BY DEF Types
<1>2. BenchCalls # <<>>
  BY DEF BenchStep, Doing, BenchCalls
<1>3. CASE BWaits
  <2>1. BenchCalls # N2(Target)
    BY <1>1, NoStep DEF ScriptFacts
  <2>2. BenchCalls # N3(benchCyc, Target)
    BY <1>1, NoStep DEF ScriptFacts
  <2>3. Is(BenchCalls, "front", "none", Target, <<>>) /\ StartSim = Target
    BY <1>1, <1>3, <2>1, <2>2 DEF BWaits, ScriptFacts
  <2>4. StepTo("front", Target, <<>>)
    BY <2>3, StepEffect
  <2>5. Target \in Int /\ Target >= First
    BY <1>3, Values DEF BWaits, Target, First
  <2>6. BenchTyped'
    BY <2>4, <2>5 DEF StepTo
  <2>7. BenchAt' /\ BenchSays
    BY <1>3, <2>3, <2>4, Values DEF StepTo, BWaits, BFront, BenchAt
  <2> QED
    BY <2>6, <2>7
<1>4. CASE BFront
  <2>1. PICK x : BenchCalls \in {N6(benchCyc, x), E3(benchCyc), F4(benchCyc)}
    BY <1>2, <1>4 DEF BFront
  <2>2. ScriptFacts(benchCyc, x)
    BY <1>1
  <2> QED
    BY <2>1, <2>2, NoStep DEF ScriptFacts
<1>5. CASE BSettles
  <2>1. PICK x : \/ BenchCalls \in {N6(benchCyc, x), N5(benchCyc, x), E3(benchCyc), E2(benchCyc),
                                    F4(benchCyc), F2(benchCyc)}
                 \/ BenchCalls = F3(benchCyc) /\ ~leaving
    BY <1>5 DEF BSettles
  <2>2. ScriptFacts(benchCyc, x)
    BY <1>1
  <2>3. BenchCalls = F3(benchCyc) /\ ~leaving
    BY <2>1, <2>2, NoStep DEF ScriptFacts
  <2>4. Is(BenchCalls, "markStop", "none", 0, F2(benchCyc))
    BY <2>2, <2>3 DEF ScriptFacts
  <2>5. StepTo("markStop", 0, F2(benchCyc))
    BY <2>4, StepEffect
  <2> QED
    BY <1>5, <2>3, <2>5, Values DEF StepTo, BSettles, BenchAt
<1>6. CASE BEnd
  <2>1. PICK x : \/ BenchCalls = E1
                 \/ BenchCalls \in {N6(benchCyc, x), N3(benchCyc, x), F4(benchCyc)}
                 \/ x \in Int /\ x > benchCyc /\ BenchCalls = N4(benchCyc, x)
    BY <1>2, <1>6 DEF BEnd
  <2>2. ScriptFacts(benchCyc, x)
    BY <1>1
  <2>3. CASE BenchCalls = E1
    <3>1. Is(BenchCalls, "end", "none", 0, <<>>)
      BY <2>2, <2>3 DEF ScriptFacts
    <3>2. StepTo("end", 0, <<>>)
      BY <3>1, StepEffect
    <3> QED
      BY <1>2, <1>6, <3>2, Values DEF StepTo, BEnd, BenchAt
  <2>4. CASE BenchCalls \in {N6(benchCyc, x), N3(benchCyc, x), F4(benchCyc)}
    BY <2>2, <2>4, NoStep DEF ScriptFacts
  <2>5. CASE x \in Int /\ x > benchCyc /\ BenchCalls = N4(benchCyc, x)
    <3>1. Is(BenchCalls, "future", "none", x, N3(benchCyc, x))
      BY <2>2, <2>5 DEF ScriptFacts
    <3>2. StepTo("future", x, N3(benchCyc, x))
      BY <3>1, StepEffect
    <3> QED
      BY <1>2, <1>6, <2>5, <3>2, Values DEF StepTo, BEnd, BenchAt
  <2> QED
    BY <2>1, <2>3, <2>4, <2>5
<1>7. CASE BGone
  <2>1. BenchCalls # F2(benchCyc)
    BY <1>1, NoStep DEF ScriptFacts
  <2>2. Is(BenchCalls, "gone", "none", 0, <<>>)
    BY <1>1, <1>2, <1>7, <2>1 DEF BGone, ScriptFacts
  <2>3. StepTo("gone", 0, <<>>)
    BY <2>2, StepEffect
  <2> QED
    BY <1>2, <1>7, <2>3, Values DEF StepTo, BGone, BenchAt
<1> QED
  BY <1>3, <1>4, <1>5, <1>6, <1>7 DEF BenchAt

(* The bench calls conNextCycle or conEndCycle, or returns.                 *)
BenchCallsKernel ==
  (\E n \in Strides : conNextCycle(n)) \/ conEndCycle \/ describeConReturns

(* It keeps BenchAt.                                                        *)
LEMMA BenchLeaves ==
  ASSUME Types, PcAt, BenchAt, BenchCallsKernel
  PROVE  BenchAt' /\ BenchSays
<1>1. PICK calls :
        /\ InBench /\ Leave(calls)
        /\ \/ \E x \in Int : x > benchCyc /\ calls = N6(benchCyc, x)
           \/ place = "front" /\ calls = E3(benchCyc)
           \/ calls = F4(benchCyc)
  <2>1. \A n \in Strides : benchCyc + n \in Int /\ benchCyc + n > benchCyc
    BY CoSimAssumption DEF Types, Strides
  <2>2. \A n : NextCycle(n) = N6(benchCyc, benchCyc + n)
    BY DEF NextCycle, N6
  <2>3. EndCycle = E3(benchCyc) /\ Finish = F4(benchCyc)
    BY DEF EndCycle, Finish, E3, F4
  <2> QED
    BY <2>1, <2>2, <2>3 DEF BenchCallsKernel, conNextCycle, conEndCycle, describeConReturns
<1>2. /\ BenchCalls' = calls /\ SimCalls' = SimCalls /\ place' = "away"
      /\ UNCHANGED <<kernel, pc, owner, last, future, leaving, benchCyc, alive>>
  BY <1>1 DEF Leave, BenchCalls, SimCalls, Types, Threads
<1>3. BenchCalls = <<>> /\ place \in {"front", "end"}
  BY <1>1 DEF InBench, Idle, BenchCalls
<1>4. ~Published("bench") /\ ~Published("bench")'
  BY <1>2, <1>3 DEF PcAt, Doing, BenchCalls, Published, Threads
<1>5. (BFront /\ place = "front") \/ (BEnd /\ place = "end")
  <2>1. ~BWaits /\ ~BSettles /\ ~BGone
    BY <1>3 DEF BWaits, BSettles, BGone
  <2>2. (BFront => place = "front") /\ (BEnd => place = "end")
    BY <1>3 DEF BFront, BEnd
  <2> QED
    BY <2>1, <2>2 DEF BenchAt
<1> USE DEF BenchSays, Published, StartSim, FinishSim, StartEnd, FinishEnd
<1>6. CASE BFront /\ place = "front"
  BY <1>1, <1>2, <1>4, <1>6 DEF BFront, BenchAt
<1>7. CASE BEnd /\ place = "end"
  BY <1>1, <1>2, <1>4, <1>7 DEF BEnd, BenchAt
<1> QED
  BY <1>2, <1>5, <1>6, <1>7
(* A step of the bench keeps SimAt: it tells nothing before the controller  *)
(* has had its turn.                                                        *)
LEMMA BenchKeepsSim ==
  ASSUME Types, SimAt, BenchSays
  PROVE  SimAt'
<1>1. \A X \in Int :
         Before(X)' = Before(X) /\ Middle(X)' = Middle(X) /\ Late(X)' = Late(X)
  BY DEF BenchSays, kernel, Before, Middle, Late, Trig
<1>2. SUFFICES ASSUME NEW X \in Int
               PROVE  /\ RowBefore(X) => RowBefore(X)'
                      /\ RowMiddle(X) => RowMiddle(X)'
                      /\ RowLate(X) => RowLate(X)'
  BY <1>1 DEF SimAt, BenchSays
<1>3. Fresh(X) => Fresh(X)'
  BY Values DEF Fresh, BenchSays, Target
<1>4. RowBefore(X) => RowBefore(X)'
  BY <1>3 DEF RowBefore, BenchSays
<1>5. RowMiddle(X) => RowMiddle(X)'
  BY <1>3, Values DEF RowMiddle, BenchSays
<1>6. RowLate(X) => RowLate(X)'
  BY Values DEF RowLate, BenchSays
<1> QED
  BY <1>4, <1>5, <1>6

-----------------------------------------------------------------------------
(* The steps of the controller's calls.                                     *)

SimEffect(op, ev, n, rest) ==
  /\ BenchCalls' = BenchCalls /\ Published("bench")' = Published("bench")
  /\ UNCHANGED <<benchCyc, future, leaving, place, kernel>>
  /\ \/ SimCalls' = SimCalls /\ Published("sim")' = Published("sim") /\ last' = last
     \/ /\ op = "notify" /\ ~Published("sim")
        /\ last' = [last EXCEPT ![ev] = IF @ <= n THEN n ELSE @]
        /\ SimCalls' = SimCalls /\ Published("sim")'
     \/ /\ (op = "notify" /\ Published("sim")) \/ (op = "wait" /\ n <= last[ev])
        /\ last' = last
        /\ SimCalls' = rest /\ ~Published("sim")'

(* That is what a step in one of its calls does.                            *)
LEMMA SimEffectHolds ==
  ASSUME Types, PcAt, NEW op, NEW ev \in Events, NEW n \in Int, NEW rest,
         Is(SimCalls, op, ev, n, rest), Serialize("sim")
  PROVE  SimEffect(op, ev, n, rest)
<1>1. last[ev] \in Int
  BY DEF Types
<1>2. Max({last[ev], n}) = IF last[ev] <= n THEN n ELSE last[ev]
  BY <1>1, MaxOfTwo
<1> QED
  BY <1>2, SerializeEffect DEF SimEffect, BenchCalls, SimCalls, bench, Threads

(* What the controller has told the bench when it has.                      *)
SimSays ==
  /\ BenchCalls' = BenchCalls /\ Published("bench")' = Published("bench")
  /\ UNCHANGED <<benchCyc, future, leaving, place, FinishSim, FinishEnd>>
  /\ \/ UNCHANGED <<StartSim, StartEnd>>
     \/ Fresh(Target) /\ StartSim' = Target /\ StartEnd' = StartEnd
     \/ FinishSim = StartSim /\ StartSim' = StartSim /\ StartEnd' = StartSim

(* What the controller tells keeps BenchAt.                                 *)
LEMMA SimKeepsBench ==
  ASSUME Types, BenchAt, SimSays
  PROVE  BenchAt'
<1> USE DEF SimSays
<1>1. Target' = Target
  BY DEF Target
<1>2. CASE UNCHANGED <<StartSim, StartEnd>>
  BY <1>1, <1>2 DEF BenchAt, BWaits, BFront, BSettles, BEnd, BGone
<1>3. CASE Fresh(Target) /\ StartSim' = Target /\ StartEnd' = StartEnd
  <2>1. BWaits
    BY <1>3, Values DEF Fresh, BenchAt, BFront, BSettles, BEnd, BGone
  <2> QED
    BY <1>1, <1>3, <2>1, Values DEF BWaits, BenchAt
<1>4. CASE FinishSim = StartSim /\ StartSim' = StartSim /\ StartEnd' = StartSim
  <2>1. ~BFront
    BY <1>4, Values DEF BFront
  <2>2. CASE BWaits
    BY <1>1, <1>4, <2>2, Values DEF BWaits, BenchAt
  <2>3. CASE BSettles
    BY <1>4, <2>3, Values DEF BSettles, BenchAt
  <2>4. CASE BEnd
    BY <1>4, <2>4, Values DEF BEnd, BenchAt
  <2>5. CASE BGone
    BY <1>4, <2>5, Values DEF BGone, BenchAt
  <2> QED
    BY <2>1, <2>2, <2>3, <2>4, <2>5 DEF BenchAt
<1> QED
  BY <1>2, <1>3, <1>4

(* The trigger is in one place only.                                        *)
One ==
  \A X, Y \in Int :
     /\ Before(X) /\ Before(Y) => X = Y
     /\ Middle(X) /\ Middle(Y) => X = Y
     /\ Late(X) /\ Late(Y) => X = Y
     /\ Before(X) => ~Middle(Y) /\ ~Late(Y)
     /\ Middle(X) => ~Late(Y)

(* So Kernel says.                                                          *)
LEMMA OneTrigger == Kernel => One
<1> SUFFICES ASSUME Kernel, NEW X \in Int, NEW Y \in Int
             PROVE  /\ Before(X) /\ Before(Y) => X = Y
                    /\ Middle(X) /\ Middle(Y) => X = Y
                    /\ Late(X) /\ Late(Y) => X = Y
                    /\ Before(X) => ~Middle(Y) /\ ~Late(Y)
                    /\ Middle(X) => ~Late(Y)
  BY DEF One
<1>1. /\ phase \in {"negCur", "negNext", "posCur", "posNext", "long", "next"} =>
           phase \in ToSet(Phases)
  BY DEF ToSet, Phases
<1>2. Before(X) /\ Before(Y) => X = Y
  BY <1>1 DEF Kernel, Before, Trig
<1>3. Middle(X) /\ Middle(Y) => X = Y
  BY <1>1 DEF Kernel, Middle, Trig
<1>4. Late(X) /\ Late(Y) => X = Y
  BY <1>1 DEF Kernel, Late, Trig
<1>5. ~(Before(X) /\ Middle(Y))
  BY <1>1 DEF Kernel, Before, Middle, Trig
<1>6. ~(Before(X) /\ Late(Y))
  BY <1>1 DEF Kernel, Before, Late, Trig
<1>7. ~(Middle(X) /\ Late(Y))
  BY <1>1 DEF Kernel, Middle, Late, Trig
<1> QED
  BY <1>2, <1>3, <1>4, <1>5, <1>6, <1>7

(* And so after a step that keeps Kernel.                                   *)
LEMMA OneTriggerNext == Kernel' => One'
  BY OneTrigger, PTL

(* One keeps SimAt, and the bench is told what SimSays says.                *)
LEMMA SimSerialize ==
  ASSUME Types, PcAt, Kernel, SimAt, Serialize("sim")
  PROVE  SimAt' /\ SimSays
<1> USE DEF SimEffect, SimSays, Types, Events, StartSim, FinishSim, StartEnd, FinishEnd
<1>1. SimCalls # <<>>
  BY NoCall DEF SimCalls
<1>2. PICK X \in Int : Middle(X) \/ Late(X)
  BY <1>1 DEF SimAt
<1>3. ScriptFacts(X, X)
  BY Scripts
<1>4. ASSUME UNCHANGED kernel
      PROVE  \A Y \in Int :
                Before(Y)' = Before(Y) /\ Middle(Y)' = Middle(Y) /\ Late(Y)' = Late(Y)
  BY <1>4 DEF kernel, Before, Middle, Late, Trig
<1>5. CASE Middle(X)
  <2>1. RowMiddle(X)
    BY <1>5 DEF SimAt
  <2>2. ASSUME UNCHANGED kernel, RowMiddle(X)' PROVE SimAt'
    <3>1. \A Y \in Int : ~Before(Y)' /\ ~Late(Y)' /\ (Middle(Y)' => Y = X)
      BY <1>4, <1>5, <2>2, OneTrigger DEF One
    <3> QED
      BY <1>4, <1>5, <2>2, <3>1 DEF SimAt
  <2>3. CASE SimCalls = S2(X) /\ ~Published("sim") /\ Fresh(X)
    <3>1. SimEffect("notify", "startSim", X, S1(X))
      BY <1>3, <2>3, SimEffectHolds DEF ScriptFacts
    <3>2. RowMiddle(X)' /\ SimSays
      BY <2>1, <2>3, <3>1, Values DEF RowMiddle, Fresh, Target
    <3> QED
      BY <2>2, <3>1, <3>2
  <2>4. CASE SimCalls = S2(X) /\ Published("sim")
    <3>1. SimEffect("notify", "startSim", X, S1(X))
      BY <1>3, <2>4, SimEffectHolds DEF ScriptFacts
    <3>2. RowMiddle(X)' /\ SimSays
      BY <1>1, <2>1, <2>4, <3>1, Values DEF RowMiddle
    <3> QED
      BY <2>2, <3>1, <3>2
  <2>5. CASE SimCalls = S1(X)
    <3>1. SimEffect("wait", "finishSim", X, <<>>)
      BY <1>3, <2>5, SimEffectHolds DEF ScriptFacts
    <3>2. RowMiddle(X)' /\ SimSays
      <4>1. SimCalls # S2(X)
        BY <1>3, <2>5 DEF ScriptFacts, Is, Call
      <4> QED
        BY <1>1, <2>1, <2>5, <3>1, <4>1, Values DEF RowMiddle
    <3> QED
      BY <2>2, <3>1, <3>2
  <2> QED
    BY <1>1, <2>1, <2>3, <2>4, <2>5 DEF RowMiddle
<1>6. CASE Late(X)
  <2>1. RowLate(X)
    BY <1>6 DEF SimAt
  <2>2. ASSUME UNCHANGED kernel, RowLate(X)' PROVE SimAt'
    <3>1. \A Y \in Int : ~Before(Y)' /\ ~Middle(Y)' /\ (Late(Y)' => Y = X)
      BY <1>4, <1>6, <2>2, OneTrigger DEF One
    <3> QED
      BY <1>4, <1>6, <2>2, <3>1 DEF SimAt
  <2>3. CASE SimCalls = Z2(X)
    <3>1. SimEffect("notify", "startEnd", X, Z1(X))
      BY <1>3, <2>3, SimEffectHolds DEF ScriptFacts
    <3>2. SimCalls # Z1(X)
      BY <1>3, <2>3 DEF ScriptFacts, Is, Call
    <3>3. RowLate(X)' /\ SimSays
      BY <1>1, <2>1, <2>3, <3>1, <3>2, Values DEF RowLate
    <3> QED
      BY <2>2, <3>1, <3>3
  <2>4. CASE SimCalls = Z1(X)
    <3>1. SimEffect("wait", "finishEnd", X, <<>>)
      BY <1>3, <2>4, SimEffectHolds DEF ScriptFacts
    <3>2. SimCalls # Z2(X)
      BY <1>3, <2>4 DEF ScriptFacts, Is, Call
    <3>3. RowLate(X)' /\ SimSays
      BY <1>1, <2>1, <2>4, <3>1, <3>2, Values DEF RowLate
    <3> QED
      BY <2>2, <3>1, <3>3
  <2> QED
    BY <1>1, <2>1, <2>3, <2>4 DEF RowLate
<1> QED
  BY <1>2, <1>5, <1>6

-----------------------------------------------------------------------------
(* The controller's own steps.                                              *)

(* A finite set of numbers has a least one.                                 *)
LEMMA MinOfFinite ==
  ASSUME NEW Q, Q \subseteq Int, IsFiniteSet(Q), Q # {}
  PROVE  Min(Q) \in Q /\ \A y \in Q : Min(Q) <= y
<1> DEFINE below(x) == {y \in Q : y <= x}
           T == {below(x) : x \in Q}
<1>1. IsWellFoundedOn(StrictSubsetOrdering(Q), FiniteSubsetsOf(Q))
  BY FS_StrictSubsetOrderingWellFounded
<1>2. \A x \in Q : below(x) \in FiniteSubsetsOf(Q)
  BY FS_Subset DEF FiniteSubsetsOf
<1>3. T \subseteq FiniteSubsetsOf(Q) /\ T # {}
  BY <1>2
<1>4. PICK U \in T : \A V \in T : ~(<<V, U>> \in StrictSubsetOrdering(Q))
  BY <1>1, <1>3, WFMin
<1>5. PICK x \in Q : U = below(x)
  BY <1>4
<1>6. ASSUME NEW y \in Q, y < x PROVE FALSE
  <2>1. \A z \in Q : z <= y => z <= x
    BY <1>6
  <2>2. x <= x /\ ~(x <= y)
    BY <1>6
  <2>3. /\ below(y) \in SUBSET Q /\ below(x) \in SUBSET Q
        /\ below(y) \subseteq below(x) /\ below(y) # below(x)
    BY <2>1, <2>2
  <2>4. below(y) \in T
    BY <1>6
  <2> HIDE DEF below, T
  <2>5. <<below(y), below(x)>> \in StrictSubsetOrdering(Q)
    BY <2>3 DEF StrictSubsetOrdering
  <2> QED
    BY <1>4, <1>5, <2>4, <2>5
<1>7. \A y \in Q : x <= y
  BY <1>6
<1> QED
  BY <1>7 DEF Min

PhaseNames == {"negCur", "negNext", "posCur", "posNext", "long", "next"}

(* The six loops over the batch.                                            *)
LEMMA PhaseSet == ToSet(Phases) = PhaseNames
  BY DEF ToSet, Phases, PhaseNames

(* Advance goes to the next event, to the next loop over the batch, or to   *)
(* the end of the cycle.                                                    *)
LEMMA Moves ==
  ASSUME phase \in ToSet(Phases), Advance
  PROVE  \/ at < Len(batch) /\ at' = at + 1 /\ phase' = phase
         \/ /\ ~(at < Len(batch)) /\ at' = 1
            /\ \/ phase = "negCur" /\ phase' = "negNext"
               \/ phase = "negNext" /\ phase' = "posCur"
               \/ phase = "posCur" /\ phase' = "posNext"
               \/ phase = "posNext" /\ phase' = "long"
               \/ phase = "long" /\ phase' = "next"
               \/ phase = "next" /\ phase' = "loop"
<1> DEFINE i == CHOOSE i \in DOMAIN Phases : Phases[i] = phase
<1>1. DOMAIN Phases = 1..6 /\ Len(Phases) = 6
  BY DEF Phases
<1>2. \E k \in 1..6 : Phases[k] = phase
  BY PhaseSet DEF PhaseNames, Phases
<1>3. i \in 1..6 /\ Phases[i] = phase
  BY <1>1, <1>2
<1>4. \/ at < Len(batch) /\ at' = at + 1 /\ phase' = phase
      \/ ~(at < Len(batch)) /\ i < 6 /\ at' = 1 /\ phase' = Phases[i + 1]
      \/ ~(at < Len(batch)) /\ ~(i < 6) /\ at' = 1 /\ phase' = "loop"
  BY <1>1 DEF Advance
<1> HIDE DEF i
<1> QED
  BY <1>3, <1>4 DEF Phases

(* What a step of the controller leaves alone.                              *)
Quiet ==
  /\ UNCHANGED <<pc, owner, last, future, leaving, place, benchCyc>>
  /\ BenchCalls' = BenchCalls

(* Such a step keeps BenchAt,                                               *)
LEMMA QuietKeepsBench ==
  ASSUME BenchAt, Quiet PROVE BenchAt'
  BY DEF BenchAt, BWaits, BFront, BSettles, BEnd, BGone, Quiet, Target, Published,
         StartSim, FinishSim, StartEnd, FinishEnd

(* and what the controller still has to call.                               *)
LEMMA QuietRows ==
  ASSUME Quiet, SimCalls' = SimCalls, NEW X
  PROVE  /\ RowBefore(X)' = RowBefore(X)
         /\ RowMiddle(X)' = RowMiddle(X)
         /\ RowLate(X)' = RowLate(X)
         /\ Fresh(X)' = Fresh(X)
  BY DEF RowBefore, RowMiddle, RowLate, Fresh, Quiet, Target, Published,
         StartSim, FinishSim, StartEnd, FinishEnd

(* A step that does not move the trigger.                                   *)
LEMMA SamePlace ==
  ASSUME Kernel, phase \in ToSet(Phases), Advance, batch' = batch,
         \A e : e \in queue' /\ e.who = Trigger => e \in queue,
         queue \subseteq queue',
         batch[at].who # Trigger \/ phase \in {"negNext", "posCur", "long"},
         NEW X \in Int
  PROVE  /\ Before(X)' = Before(X) /\ Middle(X)' = Middle(X) /\ Late(X)' = Late(X)
<1>1. /\ batch \in Seq(EventSet) /\ at \in 1..Len(batch)
      /\ DOMAIN batch = 1..Len(batch)
  BY DEF Kernel
<1>2. \A i : Trig(i, X)' = Trig(i, X)
  BY DEF Trig
<1>3. \A i : Trig(i, X) => i \in 1..Len(batch) /\ batch[i].who = Trigger
  BY <1>1 DEF Trig
<1>4. (\E e \in queue : e.who = Trigger /\ e.cyc = X)' = (\E e \in queue : e.who = Trigger /\ e.cyc = X)
  OBVIOUS
<1>5. Before(X)' = Before(X)
  BY <1>1, <1>2, <1>3, <1>4, Moves DEF Before
<1>6. Middle(X)' = Middle(X)
  BY <1>1, <1>2, <1>3, Moves DEF Middle
<1>7. Late(X)' = Late(X)
  BY <1>1, <1>2, <1>3, Moves DEF Late
<1> QED
  BY <1>5, <1>6, <1>7

(* It keeps Kernel.                                                         *)
LEMMA KernelKept ==
  ASSUME Kernel, phase \in ToSet(Phases), Advance, batch' = batch,
         queue' \subseteq EventSet, IsFiniteSet(queue'),
         \A e : e \in queue' /\ e.who = Trigger => e \in queue
  PROVE  Kernel'
<1>1. /\ batch \in Seq(EventSet) /\ at \in 1..Len(batch)
      /\ DOMAIN batch = 1..Len(batch)
  BY DEF Kernel
<1>2. phase' \in ToSet(Phases) => at' \in 1..Len(batch)
  BY <1>1, Moves
<1>3. ASSUME NEW i \in DOMAIN batch, batch[i].who = Trigger,
             NEW e \in queue', e.who = Trigger
      PROVE  phase' \in ToSet(Phases) => phase' = "next" /\ at' > i
  <2>1. phase = "next" /\ at > i
    BY <1>3 DEF Kernel
  <2>2. "loop" \notin ToSet(Phases) /\ i \in Int /\ at \in Int
    BY <1>1, PhaseSet DEF PhaseNames
  <2>3. \/ phase' = "next" /\ at' = at + 1
        \/ phase' = "loop"
    BY <2>1, Moves
  <2> QED
    BY <2>1, <2>2, <2>3
<1> QED
  BY <1>1, <1>2, <1>3 DEF Kernel

(* The events a description, a user event or a callback adds.               *)
LEMMA ScheduledFacts ==
  ASSUME Types, NEW w, NEW c \in Int
  PROVE  /\ Scheduled(w, c) \subseteq EventSet /\ IsFiniteSet(Scheduled(w, c))
         /\ \A e \in Scheduled(w, c) : e.who # Trigger /\ e.who # Model /\ e.cyc >= c
<1> DEFINE K == {k \in DOMAIN User : User[k].by = w}
           f == [k \in K |-> Event(k, c + User[k].at, User[k].prio)]
<1>1. /\ IsFiniteSet(DOMAIN User)
      /\ \A k \in DOMAIN User : k \in Nat \ {0} /\ User[k].at \in Nat /\ User[k].prio \in Int
  BY CoSimAssumption DEF Types, User, FrontPrio, BackPrio
<1>2. IsFiniteSet(K)
  BY <1>1, FS_Subset
<1>3. Scheduled(w, c) = {f[k] : k \in K}
  BY DEF Scheduled
<1>4. f \in Surjection(K, Scheduled(w, c))
  BY <1>3 DEF Surjection
<1>5. IsFiniteSet(Scheduled(w, c))
  BY <1>2, <1>4, FS_Surjection
<1>6. \A k \in K : /\ f[k] \in EventSet
                   /\ f[k].who # Trigger /\ f[k].who # Model /\ f[k].cyc >= c
  BY <1>1 DEF EventSet, Event, Trigger, Model
<1> HIDE DEF f, K
<1> QED
  BY <1>3, <1>5, <1>6

(* A step of the controller that makes no call of its thread and leaves the *)
(* trigger where it is.                                                     *)
LEMMA QuietKeepsSim ==
  ASSUME SimAt, Quiet, SimCalls = <<>>, SimCalls' = SimCalls,
         \A X \in Int : /\ Before(X)' => Before(X)
                        /\ Middle(X)' => Middle(X)
                        /\ Late(X)' => Late(X)
  PROVE  SimAt'
  BY QuietRows DEF SimAt

(* Such a step keeps Kernel, SimAt and Placed.                              *)
LEMMA StayKeeps ==
  ASSUME Types, Kernel, SimAt, phase \in ToSet(Phases), Advance, batch' = batch,
         queue' \subseteq EventSet, IsFiniteSet(queue'), queue \subseteq queue',
         \A e : e \in queue' /\ e.who = Trigger => e \in queue,
         batch[at].who # Trigger \/ phase \in {"negNext", "posCur", "long"},
         Quiet, SimCalls = <<>>, SimCalls' = SimCalls
  PROVE  Kernel' /\ SimAt' /\ (Placed => Placed')
<1>1. Kernel'
  BY KernelKept
<1>2. SimAt'
  BY SamePlace, QuietKeepsSim
<1>3. Placed => Placed'
  <2>1. \A X \in Int : Before(X)' = Before(X) /\ Middle(X)' = Middle(X) /\ Late(X)' = Late(X)
    BY SamePlace
  <2>2. phase # "abort" /\ leaving' = leaving
    BY PhaseSet DEF PhaseNames, Quiet
  <2> QED
    BY <2>1, <2>2 DEF Placed
<1> QED
  BY <1>1, <1>2, <1>3

(* The event that is processed.                                             *)
LEMMA CurrentEvent ==
  ASSUME Kernel, phase \in ToSet(Phases)
  PROVE  /\ at \in 1..Len(batch) /\ DOMAIN batch = 1..Len(batch)
         /\ Current \in EventSet /\ Current.cyc \in Int
<1>1. batch \in Seq(EventSet) /\ at \in 1..Len(batch)
  BY DEF Kernel
<1>2. batch[at] \in EventSet
  BY <1>1
<1> QED
  BY <1>1, <1>2 DEF Current, EventSet

(* The steps of the model and of a user event leave the trigger alone.      *)
LEMMA ModelPartKeeps ==
  ASSUME Types, Kernel, SimAt, ModelPart PROVE Kernel' /\ SimAt' /\ (Placed => Placed')
<1>1. /\ phase \in ToSet(Phases) /\ batch[at].who # Trigger /\ SimCalls = <<>>
  BY DEF ModelPart, Turn, Current, Model, Trigger, SimCalls, Idle
<1>2. Advance /\ UNCHANGED <<batch, queue>> /\ Quiet /\ SimCalls' = SimCalls
  BY DEF ModelPart, Quiet, SimCalls, BenchCalls, bench
<1> QED
  BY <1>1, <1>2, StayKeeps DEF Kernel

LEMMA LongRunKeeps ==
  ASSUME Types, Kernel, SimAt, LongRun PROVE Kernel' /\ SimAt' /\ (Placed => Placed') /\ ran' \in Int
<1>1. /\ phase \in ToSet(Phases) /\ batch[at].who # Trigger /\ SimCalls = <<>>
  BY DEF LongRun, Turn, Current, Model, Trigger, SimCalls, Idle
<1>2. Advance /\ batch' = batch /\ Quiet /\ SimCalls' = SimCalls
  BY DEF LongRun, Quiet, SimCalls, BenchCalls, bench
<1>3. Current.cyc \in Int
  BY <1>1, CurrentEvent
<1>4. PICK n \in Int : /\ ran' = ran \/ ran' = n
                       /\ queue' = queue \/ queue' = queue \cup Scheduled(Model, Current.cyc + n)
  BY DEF LongRun
<1>5. Current.cyc + n \in Int
  BY <1>3, <1>4
<1>6. /\ queue' \subseteq EventSet /\ IsFiniteSet(queue') /\ queue \subseteq queue'
      /\ \A e : e \in queue' /\ e.who = Trigger => e \in queue
  <2>1. CASE queue' = queue
    BY <2>1 DEF Kernel
  <2>2. CASE queue' = queue \cup Scheduled(Model, Current.cyc + n)
    BY <1>5, <2>2, ScheduledFacts, FS_Union DEF Kernel
  <2> QED
    BY <1>4, <2>1, <2>2
<1> QED
  BY <1>1, <1>2, <1>4, <1>6, StayKeeps DEF Types

LEMMA UserEventKeeps ==
  ASSUME Types, Kernel, SimAt, UserEvent PROVE Kernel' /\ SimAt' /\ (Placed => Placed')
<1>1. phase \in ToSet(Phases) /\ batch[at].who # Trigger /\ SimCalls = <<>>
  <2>1. \A k \in DOMAIN User : k # Trigger
    BY CoSimAssumption DEF Types, User, Trigger
  <2> QED
    BY <2>1 DEF UserEvent, Turn, Current, SimCalls, Idle
<1>2. Advance /\ batch' = batch /\ Quiet /\ SimCalls' = SimCalls
  BY DEF UserEvent, Quiet, SimCalls, BenchCalls, bench
<1>3. Current.cyc \in Int
  BY <1>1, CurrentEvent
<1>4. queue' = queue \/ queue' = queue \cup Scheduled(Current.who, Current.cyc)
  BY DEF UserEvent
<1>5. /\ queue' \subseteq EventSet /\ IsFiniteSet(queue') /\ queue \subseteq queue'
      /\ \A e : e \in queue' /\ e.who = Trigger => e \in queue
  BY <1>3, <1>4, ScheduledFacts, FS_Union DEF Kernel
<1> QED
  BY <1>1, <1>2, <1>5, StayKeeps

LEMMA ModelNextKeeps ==
  ASSUME Types, Kernel, SimAt, ModelNext PROVE Kernel' /\ SimAt' /\ (Placed => Placed')
<1>1. phase \in ToSet(Phases) /\ batch[at].who # Trigger /\ SimCalls = <<>>
  BY DEF ModelNext, Turn, Current, Model, Trigger, SimCalls, Idle
<1>2. Advance /\ batch' = batch /\ Quiet /\ SimCalls' = SimCalls
  BY DEF ModelNext, Quiet, SimCalls, BenchCalls, bench
<1>3. Current.cyc \in Int
  BY <1>1, CurrentEvent
<1>4. PICK e : queue' = queue \cup {e} /\ e \in EventSet /\ e.who # Trigger
  <2>1. PICK c : queue' = queue \cup {Event(Model, c, ModelPrio)}
                 /\ c = Current.cyc + (IF LongRange THEN ran ELSE 1)
    BY DEF ModelNext
  <2>2. c \in Int
    BY <1>3, <2>1 DEF Types
  <2>3. /\ Event(Model, c, ModelPrio) \in EventSet
        /\ Event(Model, c, ModelPrio).who # Trigger
    BY <2>2 DEF Event, EventSet, Model, ModelPrio, Trigger
  <2> QED
    BY <2>1, <2>3
<1>5. IsFiniteSet(queue')
  BY <1>4, FS_AddElement DEF Kernel
<1> QED
  BY <1>1, <1>2, <1>4, <1>5, StayKeeps DEF Kernel

(* The loop takes the events of the next cycle.                             *)
LEMMA LoopQuiet ==
  ASSUME SimAt, phase \notin ToSet(Phases)
  PROVE  SimCalls = <<>> /\ \A X \in Int : ~Middle(X) /\ ~Late(X)
<1>1. phase \notin PhaseNames
  BY PhaseSet
<1>2. \A X \in Int : ~Middle(X) /\ ~Late(X)
  BY <1>1 DEF Middle, Late, PhaseNames
<1> QED
  BY <1>2 DEF SimAt

(* The batch holds each of the events once.                                 *)
LEMMA OrderFacts ==
  ASSUME NEW S, S \subseteq EventSet, IsFiniteSet(S), NEW b \in Orders(S)
  PROVE  /\ b \in Seq(EventSet) /\ Len(b) = Cardinality(S) /\ DOMAIN b = 1..Len(b)
         /\ \A i \in DOMAIN b : b[i] \in S
         /\ \A e \in S : \E i \in DOMAIN b : b[i] = e
         /\ \A i, j \in DOMAIN b : b[i] = b[j] => i = j
<1> DEFINE n == Cardinality(S)
<1>1. n \in Nat
  BY FS_CardinalityType
<1>2. b \in [1..n -> S] /\ ToSet(b) = S
  BY DEF Orders
<1>3. b \in Seq(EventSet) /\ Len(b) = n
  BY <1>1, <1>2
<1>4. b \in Surjection(1..n, S)
  BY <1>2 DEF Surjection, ToSet
<1>5. IsFiniteSet(1..n) /\ Cardinality(1..n) = n
  BY <1>1, FS_Interval
<1>6. b \in Injection(1..n, S)
  BY <1>4, <1>5, FS_SurjSameCardinalityImpliesInj
<1> HIDE DEF n
<1>7. \A i, j \in 1..n : b[i] = b[j] => i = j
  BY <1>2, <1>6 DEF Injection, IsInjective
<1> QED
  BY <1>2, <1>3, <1>7 DEF ToSet, n

(* The trigger waits in the queue or at its place in the batch.             *)
LEMMA StartCycleKeeps ==
  ASSUME Types, Kernel, SimAt, StartCycle PROVE Kernel' /\ SimAt' /\ (Placed => Placed')
<1> DEFINE c   == Min(Cycles(queue))
           now == {e \in queue : e.cyc = c}
<1>1. phase = "loop" /\ phase \notin ToSet(Phases) /\ SimCalls = <<>>
  <2>1. phase = "loop" /\ phase \notin ToSet(Phases)
    BY PhaseSet DEF StartCycle, PhaseNames
  <2> QED
    BY <2>1, LoopQuiet
<1>2. Quiet /\ SimCalls' = SimCalls
  BY DEF StartCycle, Quiet, SimCalls, BenchCalls, bench
<1>3. CASE c = curCycle
  <2>1. phase' = "abort" /\ UNCHANGED <<queue, batch, at>>
    BY <1>3 DEF StartCycle
  <2>2. phase' \notin ToSet(Phases)
    BY <2>1, PhaseSet DEF PhaseNames
  <2>3. Kernel'
    BY <2>1, <2>2 DEF Kernel
  <2>4. \A X \in Int : /\ Before(X)' => Before(X)
                       /\ Middle(X)' => Middle(X)
                       /\ Late(X)' => Late(X)
    BY <2>1 DEF Before, Middle, Late
  <2> QED
    BY <1>1, <1>2, <2>1, <2>3, <2>4, QuietKeepsSim DEF Placed
<1>4. CASE c # curCycle
  <2>1. /\ batch' \in Orders(now) /\ queue' = queue \ now
        /\ phase' = "negCur" /\ at' = 1 /\ queue # {}
    BY <1>4 DEF StartCycle
  <2>2. queue \subseteq EventSet /\ IsFiniteSet(queue)
    BY DEF Kernel
  <2>3. now # {}
    <3> DEFINE f == [e \in queue |-> e.cyc]
    <3>1. f \in Surjection(queue, Cycles(queue))
      BY DEF Surjection, Cycles
    <3>2. IsFiniteSet(Cycles(queue))
      BY <2>2, <3>1, FS_Surjection
    <3>3. Cycles(queue) \subseteq Int /\ Cycles(queue) # {}
      BY <2>1, <2>2 DEF Cycles, EventSet
    <3>4. c \in Cycles(queue)
      BY <3>2, <3>3, MinOfFinite
    <3> QED
      BY <3>4 DEF Cycles
  <2> HIDE DEF c
  <2>4. now \subseteq EventSet /\ IsFiniteSet(now) /\ IsFiniteSet(queue')
    BY <2>1, <2>2, FS_Subset
  <2>5. /\ batch' \in Seq(EventSet) /\ Len(batch') = Cardinality(now)
        /\ DOMAIN batch' = 1..Len(batch')
        /\ \A i \in DOMAIN batch' : batch'[i] \in now
        /\ \A e \in now : \E i \in DOMAIN batch' : batch'[i] = e
        /\ \A i, j \in DOMAIN batch' : batch'[i] = batch'[j] => i = j
    BY <2>1, <2>4, OrderFacts
  <2>6. at' \in 1..Len(batch')
    <3>1. Cardinality(now) \in Nat /\ Cardinality(now) # 0
      BY <2>3, <2>4, FS_CardinalityType, FS_EmptySet
    <3> QED
      BY <2>1, <2>5, <3>1
  <2>7. now \subseteq queue /\ now \cap queue' = {} /\ queue' \subseteq queue
    BY <2>1
  <2>8. Kernel'
    <3>1. \A e, f \in queue : e.who = Trigger /\ f.who = Trigger => e = f
      BY DEF Kernel
    <3>2. ASSUME NEW i \in DOMAIN batch', NEW j \in DOMAIN batch', batch'[i].who = Trigger
          PROVE  /\ batch'[j].who = Trigger => i = j
                 /\ \A e \in queue' : e.who # Trigger
      BY <2>5, <2>7, <3>1, <3>2
    <3> QED
      BY <2>2, <2>4, <2>5, <2>6, <2>7, <3>1, <3>2 DEF Kernel
  <2>9. \A X \in Int : /\ Before(X)' => Before(X)
                       /\ ~Middle(X)' /\ ~Late(X)'
    <3>1. \A X, i : Trig(i, X)' => /\ i >= at'
                                   /\ \E e \in queue : e.who = Trigger /\ e.cyc = X
      BY <2>1, <2>5, <2>7 DEF Trig
    <3>2. \A X \in Int : Before(X)' => Before(X)
      BY <2>7, <3>1 DEF Before
    <3>3. \A i \in Int : i >= at' => ~(at' > i)
      BY <2>1
    <3>4. \A X \in Int : ~Middle(X)' /\ ~Late(X)'
      BY <2>1, <3>1, <3>3 DEF Middle, Late
    <3> QED
      BY <3>2, <3>4
  <2>10. Placed => Placed'
    <3>1. ASSUME NEW X \in Int, Before(X) PROVE Before(X)'
      <4>1. PICK e \in queue : e.who = Trigger /\ e.cyc = X
        BY <1>1, <3>1 DEF Before
      <4>2. CASE e \in queue'
        BY <4>1, <4>2 DEF Before
      <4>3. CASE e \in now
        <5>1. PICK i \in DOMAIN batch' : batch'[i] = e
          BY <2>5, <4>3
        <5>2. i \in Int /\ i >= at'
          BY <2>1, <2>5
        <5> QED
          BY <2>1, <4>1, <5>1, <5>2 DEF Before, Trig
      <4> QED
        BY <2>1, <4>2, <4>3
    <3> QED
      BY <1>1, <1>2, <3>1, LoopQuiet DEF Placed, Quiet
  <2> QED
    BY <1>1, <1>2, <2>8, <2>9, <2>10, QuietKeepsSim
<1> QED
  BY <1>3, <1>4

(* The loop ends.                                                           *)
LEMMA EndKeeps ==
  ASSUME Types, Kernel, SimAt, LeaveLoop \/ Join PROVE Kernel' /\ SimAt' /\ (Placed => Placed')
<1>1. /\ phase \in {"loop", "join"} /\ phase' \in {"join", "done"}
      /\ UNCHANGED <<queue, batch, at>> /\ Quiet /\ SimCalls' = SimCalls
  BY DEF LeaveLoop, Join, Quiet, SimCalls, BenchCalls, bench
<1>2. phase \notin ToSet(Phases) /\ phase' \notin ToSet(Phases)
  BY <1>1, PhaseSet DEF PhaseNames
<1>3. Kernel'
  BY <1>1, <1>2 DEF Kernel
<1>4. \A X \in Int : /\ Before(X)' => Before(X)
                     /\ Middle(X)' => Middle(X)
                     /\ Late(X)' => Late(X)
  BY <1>1 DEF Before, Middle, Late
<1>5. Placed => Placed'
  <2>1. \A X \in Int : Before(X) => Before(X)'
    BY <1>1 DEF Before
  <2> QED
    BY <1>1, <1>2, <2>1, LoopQuiet DEF Placed, Quiet
<1> QED
  BY <1>1, <1>2, <1>3, <1>4, <1>5, LoopQuiet, QuietKeepsSim

(* The trigger hands its thread's turn over.                                *)
LEMMA TriggerPartKeeps ==
  ASSUME Types, PcAt, Kernel, SimAt, TriggerPart PROVE Kernel' /\ SimAt' /\ (Placed => Placed')
<1>1. /\ phase \in ToSet(Phases) /\ phase # "next" /\ SimCalls = <<>>
      /\ batch[at].who = Trigger
  BY DEF TriggerPart, Turn, Current, SimCalls, Idle
<1>2. PICK X \in Int, i \in Int : X = Current.cyc /\ i = at
  BY <1>1, CurrentEvent
<1>3. Trig(i, X)
  BY <1>1, <1>2, CurrentEvent DEF Trig, Current
<1>4. Advance /\ UNCHANGED <<batch, queue>> /\ Quiet
  BY DEF TriggerPart, Quiet, BenchCalls, bench, Types, Threads
<1>5. SimCalls' = IF phase = "negCur" THEN S2(X)
                  ELSE IF phase = "posNext" THEN Z2(X) ELSE <<>>
  <2>1. SimCalls' = HandOver(X)
    BY <1>2 DEF TriggerPart, SimCalls, Types, Threads
  <2> QED
    BY <2>1 DEF HandOver, S2, Z2
<1>6. Kernel'
  BY <1>1, <1>4, KernelKept DEF Kernel
<1>7. ~Published("sim") /\ ~Published("sim")'
  <2>1. pc["sim"] = "ready" /\ pc' = pc
    BY <1>1, <1>4 DEF PcAt, Doing, SimCalls, Threads, Quiet
  <2> QED
    BY <2>1 DEF Published
<1>8. Trig(i, X)'
  BY <1>3, <1>4 DEF Trig
<1>9. \A Y : Fresh(Y) => Fresh(Y)'
  BY <1>4 DEF Fresh, Quiet, Target, StartSim, FinishSim, StartEnd, FinishEnd
<1>10. CASE phase = "negCur"
  <2>1. Before(X)
    BY <1>2, <1>3, <1>10 DEF Before
  <2>2. Fresh(X) /\ X >= First
    BY <1>2, <2>1 DEF SimAt, RowBefore
  <2>3. RowMiddle(X)'
    BY <1>5, <1>7, <1>9, <1>10, <2>2 DEF RowMiddle
  <2>4. Middle(X)'
    BY <1>1, <1>2, <1>4, <1>8, <1>10, Moves DEF Middle
  <2>5. \A Y \in Int : ~Before(Y)' /\ ~Late(Y)' /\ (Middle(Y)' => Y = X)
    BY <1>6, <2>4, OneTriggerNext DEF One
  <2> QED
    BY <1>2, <1>6, <2>3, <2>4, <2>5 DEF SimAt, Placed
<1>11. CASE phase = "posNext"
  <2>1. Middle(X)
    BY <1>2, <1>3, <1>11 DEF Middle
  <2>2. RowMiddle(X)
    BY <1>2, <2>1 DEF SimAt
  <2>3. X >= First /\ StartSim = X /\ FinishSim = X /\ StartEnd < X /\ FinishEnd <= X
    BY <1>1, <2>2, Scripts DEF RowMiddle, ScriptFacts, Is
  <2>4. RowLate(X)'
    BY <1>4, <1>5, <1>7, <1>11, <2>3
       DEF RowLate, Quiet, StartSim, FinishSim, StartEnd, FinishEnd
  <2>5. Late(X)'
    BY <1>1, <1>2, <1>4, <1>8, <1>11, Moves DEF Late
  <2>6. \A Y \in Int : ~Before(Y)' /\ ~Middle(Y)' /\ (Late(Y)' => Y = X)
    BY <1>6, <2>5, OneTriggerNext DEF One
  <2> QED
    BY <1>2, <1>6, <2>4, <2>5, <2>6 DEF SimAt, Placed
<1>12. CASE phase \in {"negNext", "posCur", "long"}
  <2>1. \A Y \in Int : Before(Y)' = Before(Y) /\ Middle(Y)' = Middle(Y) /\ Late(Y)' = Late(Y)
    BY <1>1, <1>4, <1>12, SamePlace
  <2>2. Placed => Placed'
    BY <1>4, <1>12, <2>1 DEF Placed, Quiet
  <2> QED
    BY <1>1, <1>4, <1>5, <1>6, <1>12, <2>1, <2>2, QuietKeepsSim
<1> QED
  BY <1>1, <1>10, <1>11, <1>12, PhaseSet DEF PhaseNames

(* A trigger that has had both its turns is over for this cycle: it waits   *)
(* for the bench's next cycle, or is not added again.                       *)
LEMMA TriggerNextKeeps ==
  ASSUME Types, PcAt, Kernel, SimAt, BenchAt, TriggerNext PROVE Kernel' /\ SimAt' /\ (Placed => Placed')
<1>1. /\ phase \in ToSet(Phases) /\ phase = "next" /\ SimCalls = <<>>
      /\ batch[at].who = Trigger
  BY DEF TriggerNext, Turn, Current, SimCalls, Idle
<1>2. PICK X \in Int, i \in Int, F \in Int : X = Current.cyc /\ i = at /\ F = future
  BY <1>1, CurrentEvent DEF Types
<1>3. Trig(i, X) /\ i \in DOMAIN batch
  BY <1>1, <1>2, CurrentEvent DEF Trig, Current
<1>4. Late(X)
  BY <1>1, <1>2, <1>3 DEF Late
<1>5. X >= First /\ StartSim = X /\ FinishSim = X /\ StartEnd = X /\ FinishEnd = X
  <2>1. RowLate(X)
    BY <1>2, <1>4 DEF SimAt
  <2> QED
    BY <1>1, <2>1, Scripts DEF RowLate, ScriptFacts, Is
<1>6. \A e \in queue : e.who # Trigger
  BY <1>1, <1>2, <1>3 DEF Kernel
<1>7. Quiet /\ SimCalls' = SimCalls /\ batch' = batch
  BY DEF TriggerNext, Quiet, SimCalls, BenchCalls, bench
<1>8. \A j \in DOMAIN batch : batch[j].who = Trigger => j = i
  BY <1>1, <1>2, <1>3 DEF Kernel
<1>9. CASE phase' = "abort" /\ queue' = queue
  <2>1. Kernel'
    BY <1>9, PhaseSet DEF Kernel, PhaseNames
  <2>2. \A Y \in Int : ~Before(Y)' /\ ~Middle(Y)' /\ ~Late(Y)'
    BY <1>6, <1>9 DEF Before, Middle, Late
  <2> QED
    BY <1>1, <1>7, <1>9, <2>1, <2>2, QuietKeepsSim DEF Placed
<1>10. CASE leaving /\ queue' = queue /\ Advance
  <2>1. Kernel'
    BY <1>1, <1>7, <1>10, KernelKept DEF Kernel
  <2>2. \/ phase' = "next" /\ at' > i
        \/ phase' = "loop"
    BY <1>1, <1>2, <1>10, Moves
  <2>3. \A j, Y : Trig(j, Y)' => j = i
    BY <1>7, <1>8 DEF Trig
  <2>4. \A Y \in Int : ~Before(Y)' /\ ~Middle(Y)' /\ ~Late(Y)'
    <3>1. CASE phase' = "next" /\ at' > i
      <4>1. at' \in Int
        BY <2>1, <3>1, PhaseSet DEF Kernel, PhaseNames
      <4> QED
        BY <1>6, <1>10, <2>3, <3>1, <4>1 DEF Before, Middle, Late
    <3>2. CASE phase' = "loop"
      BY <1>6, <1>10, <3>2 DEF Before, Middle, Late
    <3> QED
      BY <2>2, <3>1, <3>2
  <2> QED
    BY <1>1, <1>7, <1>10, <2>1, <2>4, QuietKeepsSim DEF Placed, Quiet
<1>11. CASE ~leaving /\ queue' = queue \cup {Event(Trigger, F, FrontPrio)} /\ Advance
  <2> DEFINE new == Event(Trigger, F, FrontPrio)
  <2>1. new \in EventSet /\ new.who = Trigger /\ new.cyc = F
    BY <1>2 DEF EventSet, Event, Trigger, FrontPrio
  <2> HIDE DEF new
  <2>2. \/ phase' = "next" /\ at' > i
        \/ phase' = "loop"
    BY <1>1, <1>2, <1>11, Moves
  <2>3. Kernel'
    <3>1. batch \in Seq(EventSet) /\ at \in 1..Len(batch) /\ DOMAIN batch = 1..Len(batch)
      BY <1>1, CurrentEvent DEF Kernel
    <3>2. phase' \in ToSet(Phases) => at' \in 1..Len(batch)
      BY <1>1, <1>11, <3>1, Moves
    <3>3. queue' \subseteq EventSet /\ IsFiniteSet(queue')
      BY <1>11, <2>1, FS_AddElement DEF Kernel, new
    <3>4. \A e \in queue' : e.who = Trigger => e = new
      BY <1>6, <1>11 DEF new
    <3>5. phase' \in ToSet(Phases) => phase' = "next" /\ at' > i
      BY <2>2, PhaseSet DEF PhaseNames
    <3> QED
      BY <1>7, <1>8, <3>1, <3>2, <3>3, <3>4, <3>5 DEF Kernel
  <2>4. Before(F)'
    <3>1. new \in queue'
      BY <1>11 DEF new
    <3> QED
      BY <2>1, <3>1 DEF Before
  <2>5. \A Y \in Int : ~Middle(Y)' /\ ~Late(Y)' /\ (Before(Y)' => Y = F)
    BY <1>2, <2>3, <2>4, OneTriggerNext DEF One
  <2>6. Target = F /\ X < F
    <3>1. BWaits
      BY <1>5, <1>11, Values DEF BenchAt, BFront, BSettles, BEnd, BGone
    <3> QED
      BY <1>2, <1>5, <3>1, Values DEF BWaits, Target, First
  <2>7. RowBefore(F)'
    BY <1>1, <1>2, <1>5, <1>7, <1>11, <2>6, Values DEF RowBefore, Fresh, Quiet, Target, First,
       StartSim, FinishSim, StartEnd, FinishEnd
  <2> QED
    BY <1>1, <1>2, <1>7, <2>3, <2>4, <2>5, <2>7 DEF SimAt, Placed
<1> QED
  BY <1>2, <1>9, <1>10, <1>11 DEF TriggerNext

-----------------------------------------------------------------------------
(* Which events a thread tells, and which it waits for.                     *)
Side(t, tells, waits) ==
  /\ Doing(t, "notify") => Ev(t) \in tells /\ Head(todo[t]).n \in Int
  /\ Doing(t, "wait") => Ev(t) \in waits /\ Head(todo[t]).n \in Int

First1(t, tells, waits) ==
  \E op, ev, n, rest :
     /\ Is(todo[t], op, ev, n, rest)
     /\ n \in Int
     /\ op = "notify" => ev \in tells
     /\ op = "wait" => ev \in waits

(* From a script to the events it names.                                    *)
LEMMA SideHolds ==
  ASSUME NEW t, NEW tells, NEW waits, First1(t, tells, waits)
  PROVE  Side(t, tells, waits)
  BY FirstCall DEF First1, Side

BenchScript(q, c, x) ==
  q \in {N1(x), N2(x), N3(c, x), N4(c, x), N5(c, x), N6(c, x),
         E1, E2(c), E3(c), F1, F2(c), F3(c), F4(c)}

(* The bench is always somewhere in one of its scripts.                     *)
LEMMA BenchHasScript ==
  ASSUME Types, BenchAt
  PROVE  BenchCalls = <<>> \/ \E x \in Int : BenchScript(BenchCalls, benchCyc, x)
<1> USE DEF BenchScript
<1>1. CASE BWaits
  BY <1>1, Values DEF BWaits
<1>2. CASE BFront
  BY <1>2, Values DEF BFront
<1>3. CASE BSettles
  BY <1>3, Values DEF BSettles
<1>4. CASE BEnd
  BY <1>4, Values DEF BEnd
<1>5. CASE BGone
  BY <1>5, Values DEF BGone
<1> QED
  BY <1>1, <1>2, <1>3, <1>4, <1>5 DEF BenchAt

(* The events of the bench.                                                 *)
LEMMA BenchSide ==
  ASSUME Types, BenchAt
  PROVE  Side("bench", {"finishSim", "finishEnd"}, {"startSim", "startEnd"})
<1>1. CASE BenchCalls = <<>>
  BY <1>1 DEF BenchCalls, Side, Doing
<1>2. CASE BenchCalls # <<>>
  <2>1. PICK x \in Int : BenchScript(BenchCalls, benchCyc, x)
    BY <1>2, BenchHasScript
  <2>2. ScriptFacts(benchCyc, x) /\ benchCyc \in Int
    BY Scripts, Values
  <2>3. First1("bench", {"finishSim", "finishEnd"}, {"startSim", "startEnd"})
    BY <2>1, <2>2, SMTT(60) DEF BenchScript, ScriptFacts, First1, BenchCalls
  <2> QED
    BY <2>3, SideHolds
<1> QED
  BY <1>1, <1>2

(* The events of the controller.                                            *)
LEMMA SimSide ==
  ASSUME Types, SimAt
  PROVE  Side("sim", {"startSim", "startEnd"}, {"finishSim", "finishEnd"})
<1>1. CASE SimCalls = <<>>
  BY <1>1 DEF SimCalls, Side, Doing
<1>2. CASE SimCalls # <<>>
  <2>1. \E X \in Int : SimCalls \in {S1(X), S2(X), Z1(X), Z2(X)}
    BY <1>2 DEF SimAt, RowMiddle, RowLate
  <2>2. PICK X \in Int : SimCalls \in {S1(X), S2(X), Z1(X), Z2(X)}
    BY <2>1
  <2>3. First1("sim", {"startSim", "startEnd"}, {"finishSim", "finishEnd"})
    BY <2>2, Scripts DEF ScriptFacts, First1, SimCalls
  <2> QED
    BY <2>3, SideHolds
<1> QED
  BY <1>1, <1>2

(* Both threads together: an event one of them waits for is told by the     *)
(* other one only.                                                          *)
Sides ==
  \A t \in Threads :
     /\ Doing(t, "notify") \/ Doing(t, "wait") =>
          Ev(t) \in Events /\ Head(todo[t]).n \in Int
     /\ \A u \in Threads \ {t} :
          /\ (Doing(t, "wait") /\ Doing(u, "wait")) => Ev(t) # Ev(u)
          /\ (Doing(t, "notify") /\ Doing(u, "notify")) => Ev(t) # Ev(u)

(* They do not meet.                                                        *)
LEMMA SidesHold == ASSUME Types, BenchAt, SimAt PROVE Sides
  BY BenchSide, SimSide DEF Side, Sides, Threads, Events

(* What a thread waits for, and what it is about to tell.                   *)
LEMMA BenchWaitsFor ==
  ASSUME Types, BenchAt, Doing("bench", "wait")
  PROVE  \/ Ev("bench") = "startSim" /\ Head(todo["bench"]).n = Target
         \/ /\ Ev("bench") = "startEnd" /\ Head(todo["bench"]).n = benchCyc
            /\ StartSim = benchCyc
<1> DEFINE Claim ==
         \/ Ev("bench") = "startSim" /\ Head(todo["bench"]).n = Target
         \/ /\ Ev("bench") = "startEnd" /\ Head(todo["bench"]).n = benchCyc
            /\ StartSim = benchCyc
<1>1. \A x : ScriptFacts(benchCyc, x)
  BY Scripts
<1>2. BenchCalls # <<>>
  BY DEF Doing, BenchCalls
<1>3. ASSUME NEW op, NEW ev, NEW n, NEW rest, Is(BenchCalls, op, ev, n, rest)
      PROVE  op = "wait" /\ Ev("bench") = ev /\ Head(todo["bench"]).n = n
  BY <1>3, FirstCall DEF BenchCalls
<1>4. CASE BWaits
  BY <1>1, <1>3, <1>4 DEF BWaits, ScriptFacts
<1>5. CASE BFront
  BY <1>1, <1>2, <1>3, <1>5 DEF BFront, ScriptFacts
<1>6. CASE BSettles
  BY <1>1, <1>3, <1>6 DEF BSettles, ScriptFacts
<1>7. CASE BEnd
  BY <1>1, <1>2, <1>3, <1>7 DEF BEnd, ScriptFacts
<1>8. CASE BGone
  BY <1>1, <1>2, <1>3, <1>8 DEF BGone, ScriptFacts
<1> QED
  BY <1>4, <1>5, <1>6, <1>7, <1>8 DEF BenchAt

(* Where the bench is when it is about to tell an event.                    *)
LEMMA BenchTells ==
  ASSUME Types, BenchAt, Doing("bench", "notify"), ~Published("bench")
  PROVE  /\ Ev("bench") = "finishSim" => BFront \/ BEnd
         /\ Ev("bench") = "finishEnd" => BSettles \/ BEnd
         /\ Ev("bench") \in {"finishSim", "finishEnd"}
<1>1. \A x : ScriptFacts(benchCyc, x)
  BY Scripts
<1>2. BenchCalls # <<>>
  BY DEF Doing, BenchCalls
<1>3. ASSUME NEW op, NEW ev, NEW n, NEW rest, Is(BenchCalls, op, ev, n, rest)
      PROVE  op = "notify" /\ Ev("bench") = ev
  BY <1>3, FirstCall DEF BenchCalls
<1>4. CASE BWaits
  BY <1>1, <1>3, <1>4 DEF BWaits, ScriptFacts
<1>5. CASE BFront
  BY <1>1, <1>2, <1>3, <1>5 DEF BFront, ScriptFacts
<1>6. CASE BSettles
  BY <1>1, <1>3, <1>6 DEF BSettles, ScriptFacts
<1>7. CASE BEnd
  BY <1>1, <1>2, <1>3, <1>7 DEF BEnd, ScriptFacts
<1>8. CASE BGone
  BY <1>1, <1>2, <1>3, <1>8 DEF BGone, ScriptFacts
<1> QED
  BY <1>4, <1>5, <1>6, <1>7, <1>8 DEF BenchAt

(* What the controller waits for.                                           *)
LEMMA SimWaitsFor ==
  ASSUME Types, SimAt, Doing("sim", "wait")
  PROVE  \/ /\ Ev("sim") = "finishSim" /\ Head(todo["sim"]).n = StartSim
            /\ StartEnd < StartSim
         \/ Ev("sim") = "finishEnd" /\ Head(todo["sim"]).n = StartSim
<1>1. SimCalls # <<>>
  BY DEF Doing, SimCalls
<1>2. PICK X \in Int : RowMiddle(X) \/ RowLate(X)
  BY <1>1 DEF SimAt
<1>3. ScriptFacts(X, X)
  BY Scripts
<1>4. ASSUME NEW op, NEW ev, NEW n, NEW rest, Is(SimCalls, op, ev, n, rest)
      PROVE  op = "wait" /\ Ev("sim") = ev /\ Head(todo["sim"]).n = n
  BY <1>4, FirstCall DEF SimCalls
<1>5. CASE RowMiddle(X)
  BY <1>1, <1>3, <1>4, <1>5 DEF RowMiddle, ScriptFacts
<1>6. CASE RowLate(X)
  BY <1>1, <1>3, <1>4, <1>6 DEF RowLate, ScriptFacts
<1> QED
  BY <1>2, <1>5, <1>6

(* What the trigger is about to tell the bench has not been told yet.       *)
LEMMA SimTells ==
  ASSUME Types, SimAt, Doing("sim", "notify"), ~Published("sim")
  PROVE  \/ Ev("sim") = "startSim" /\ StartSim < Target
         \/ Ev("sim") = "startEnd" /\ StartEnd < StartSim
<1>1. SimCalls # <<>>
  BY DEF Doing, SimCalls
<1>2. PICK X \in Int : RowMiddle(X) \/ RowLate(X)
  BY <1>1 DEF SimAt
<1>3. ScriptFacts(X, X)
  BY Scripts
<1>4. ASSUME NEW op, NEW ev, NEW n, NEW rest, Is(SimCalls, op, ev, n, rest)
      PROVE  op = "notify" /\ Ev("sim") = ev
  BY <1>4, FirstCall DEF SimCalls
<1>5. CASE RowMiddle(X)
  BY <1>1, <1>3, <1>4, <1>5 DEF RowMiddle, ScriptFacts, Fresh
<1>6. CASE RowLate(X)
  BY <1>1, <1>3, <1>4, <1>6 DEF RowLate, ScriptFacts
<1> QED
  BY <1>2, <1>5, <1>6

(* The state in which a wait is about to unlock its mutex a second time.    *)
LEMMA FreeMutex == HInv => NoForeignUnlock
<1> SUFFICES ASSUME HInv, NEW t \in Threads, pc[t] = "unlocked"
             PROVE  owner[Ev(t)] = Nobody
  BY DEF NoForeignUnlock
<1> USE DEF HInv
<1>1. Doing(t, "wait") /\ Passed(t)
  BY DEF PcAt
<1>2. Sides
  BY SidesHold
<1>3. Ev(t) \in Events /\ owner[Ev(t)] \in Threads \cup {Nobody} /\ owner[Ev(t)] # t
  BY <1>1, <1>2 DEF Sides, Types, Mutex
<1>4. ASSUME NEW u \in Threads, owner[Ev(t)] = u PROVE FALSE
  <2>1. u # t /\ pc[u] \in {"inside", "again"} /\ Ev(u) = Ev(t)
    BY <1>3, <1>4 DEF Mutex
  <2>2. Doing(u, "notify")
    BY <1>1, <1>2, <2>1 DEF PcAt, Sides
  <2>3. ~Published(u)
    BY <2>1 DEF Published
  <2>4. CASE t = "bench"
    <3>1. u = "sim"
      BY <2>1, <2>4 DEF Threads
    <3>2. Ev("sim") = "startSim" => StartSim >= Target
      BY <1>1, <2>1, <2>4, <3>1, BenchWaitsFor DEF Passed, StartSim
    <3>3. Ev("sim") = "startEnd" => StartEnd >= StartSim
      BY <1>1, <2>1, <2>4, <3>1, BenchWaitsFor DEF Passed, StartEnd
    <3> QED
      BY <2>2, <2>3, <3>1, <3>2, <3>3, SimTells, Values
  <2>5. CASE t = "sim"
    <3>1. u = "bench"
      BY <2>1, <2>5 DEF Threads
    <3>2. Ev("bench") = "finishSim" => FinishSim >= StartSim /\ StartEnd < StartSim
      BY <1>1, <2>1, <2>5, <3>1, SimWaitsFor DEF Passed, FinishSim
    <3>3. Ev("bench") = "finishEnd" => FinishEnd >= StartSim
      BY <1>1, <2>1, <2>5, <3>1, SimWaitsFor DEF Passed, FinishEnd
    <3>4. /\ Ev("bench") = "finishSim" => BFront \/ BEnd
          /\ Ev("bench") = "finishEnd" => BSettles \/ BEnd
          /\ Ev("bench") \in {"finishSim", "finishEnd"}
      BY <2>2, <2>3, <3>1, BenchTells
    <3> QED
      BY <3>2, <3>3, <3>4, Values DEF BFront, BSettles, BEnd
  <2> QED
    BY <2>4, <2>5 DEF Threads
<1> QED
  BY <1>3, <1>4

-----------------------------------------------------------------------------
(* The threads' own state: pc and the mutexes.                              *)
Threading == Types /\ PcAt /\ Mutex

Untouched(u) == pc'[u] = pc[u] /\ todo'[u] = todo[u]

(* A step in SerializeEvent keeps the mutexes.                              *)
LEMMA SerializeKeeps ==
  ASSUME HInv, NEW t \in Threads, Serialize(t), UNCHANGED scene
  PROVE  Threading'
<1> USE DEF HInv
<1>1. /\ todo = [u \in Threads |-> todo[u]] /\ pc \in [Threads -> PcValues]
      /\ owner \in [Events -> Threads \cup {Nobody}] /\ last \in [Events -> Int]
      /\ Nobody \notin Threads
  BY DEF Types, Threads, Nobody
<1>2. /\ Doing(t, "notify") \/ Doing(t, "wait")
      /\ Ev(t) \in Events /\ Head(todo[t]).n \in Int
  <2>1. Doing(t, "notify") \/ Doing(t, "wait")
    BY NoEventCall
  <2> QED
    BY <2>1, SidesHold DEF Sides
<1>3. NoForeignUnlock
  BY FreeMutex
<1>4. UNCHANGED <<benchCyc, future, leaving, scene, ran>>
  BY DEF Serialize, Lock, Publish, NotifyAll, WaitPass, Sleep, Unlock, UnlockAgain,
         kernel, bench
<1>5. ASSUME pc' \in [Threads -> PcValues],
             owner' \in [Events -> Threads \cup {Nobody}], last' \in [Events -> Int],
             todo' = [todo EXCEPT ![t] = todo'[t]]
      PROVE  Types'
  BY <1>1, <1>4, <1>5 DEF Types
<1>6. CASE Lock(t)
  <2>1. /\ pc[t] \in {"ready", "woken"} /\ owner[Ev(t)] = Nobody
        /\ owner' = [owner EXCEPT ![Ev(t)] = t]
        /\ pc' = [pc EXCEPT ![t] = IF pc[t] = "ready" THEN "inside" ELSE "again"]
        /\ UNCHANGED <<todo, last>>
    BY <1>6 DEF Lock
  <2>2. Types'
    BY <1>1, <1>2, <1>5, <2>1 DEF PcValues
  <2>3. PcAt'
    BY <1>1, <1>2, <2>1 DEF PcAt, Doing, Passed, Ev
  <2>4. Mutex'
    BY <1>1, <1>2, <2>1 DEF Mutex, Ev
  <2> QED
    BY <2>2, <2>3, <2>4 DEF Threading
<1>7. CASE Publish(t)
  <2>1. /\ pc[t] = "inside" /\ Doing(t, "notify")
        /\ last' = [last EXCEPT ![Ev(t)] = Max({last[Ev(t)], Head(todo[t]).n})]
        /\ owner' = [owner EXCEPT ![Ev(t)] = Nobody]
        /\ pc' = [pc EXCEPT ![t] = "notify_all"]
        /\ todo' = todo
    BY <1>7 DEF Publish
  <2>2. last' \in [Events -> Int] /\ \A e \in Events : last[e] <= last'[e]
    <3>1. PICK a \in Int, n \in Int : a = last[Ev(t)] /\ n = Head(todo[t]).n
      BY <1>1, <1>2
    <3>2. last' = [last EXCEPT ![Ev(t)] = Max({a, n})]
      BY <2>1, <3>1
    <3>3. Max({a, n}) \in Int /\ a <= Max({a, n})
      BY MaxOfTwo
    <3> QED
      BY <1>1, <1>2, <3>1, <3>2, <3>3
  <2>3. Types'
    BY <1>1, <1>2, <1>5, <2>1, <2>2 DEF PcValues
  <2>4. PcAt'
    <3>1. ASSUME NEW u \in Threads, pc'[u] = "unlocked" PROVE Passed(u)'
      <4>1. pc[u] = "unlocked" /\ u # t
        BY <1>1, <2>1, <3>1
      <4>2. Passed(u) /\ Doing(u, "wait")
        BY <4>1 DEF PcAt
      <4>3. Ev(u) \in Events /\ Head(todo[u]).n \in Int
        BY <4>2, SidesHold DEF Sides
      <4> QED
        BY <1>1, <2>1, <2>2, <4>2, <4>3 DEF Passed, Ev
    <3> QED
      BY <1>1, <2>1, <3>1 DEF PcAt, Doing
  <2>5. Mutex'
    BY <1>1, <1>2, <2>1 DEF Mutex, Ev
  <2> QED
    BY <2>3, <2>4, <2>5 DEF Threading
<1>8. CASE NotifyAll(t)
  <2>1. /\ pc[t] = "notify_all" /\ UNCHANGED <<owner, last>>
        /\ todo' = [todo EXCEPT ![t] = Tail(@)]
        /\ pc' \in [Threads -> PcValues] /\ pc'[t] = "ready"
        /\ \A u \in Threads \ {t} : pc'[u] = pc[u] \/ (pc[u] = "asleep" /\ pc'[u] = "woken")
    BY <1>1, <1>8 DEF NotifyAll, PcValues
  <2>2. Types'
    BY <1>1, <1>5, <2>1
  <2>3. \A u \in Threads \ {t} : todo'[u] = todo[u]
    BY <1>1, <2>1
  <2>4. PcAt'
    <3> SUFFICES ASSUME NEW u \in Threads
                 PROVE /\ ~(Doing(u, "notify") \/ Doing(u, "wait"))' => pc'[u] = "ready"
                       /\ Doing(u, "notify")' => pc'[u] \in {"ready", "inside", "notify_all"}
                       /\ Doing(u, "wait")' => pc'[u] # "notify_all"
                       /\ pc'[u] = "unlocked" => Passed(u)'
      BY DEF PcAt
    <3>1. CASE u = t
      BY <2>1, <3>1
    <3>2. CASE u # t
      BY <2>1, <2>3, <3>2 DEF PcAt, Doing, Passed, Ev
    <3> QED
      BY <3>1, <3>2
  <2>5. Mutex'
    <3> SUFFICES ASSUME NEW e \in Events, NEW u \in Threads
                 PROVE owner'[e] = u <=> pc'[u] \in {"inside", "again"} /\ Ev(u)' = e
      BY DEF Mutex
    <3>1. CASE u = t
      BY <2>1, <3>1 DEF Mutex
    <3>2. CASE u # t
      BY <2>1, <2>3, <3>2 DEF Mutex, Ev
    <3> QED
      BY <3>1, <3>2
  <2> QED
    BY <2>2, <2>4, <2>5 DEF Threading
<1>9. CASE WaitPass(t) \/ UnlockAgain(t)
  <2>1. /\ pc[t] \in {"inside", "unlocked"} /\ last' = last
        /\ owner' = [owner EXCEPT ![Ev(t)] = Nobody]
        /\ todo' = [todo EXCEPT ![t] = Tail(@)]
        /\ pc' = [pc EXCEPT ![t] = "ready"]
    BY <1>9 DEF WaitPass, UnlockAgain, Return
  <2>2. Types'
    BY <1>1, <1>2, <1>5, <2>1 DEF PcValues
  <2>3. \A u \in Threads \ {t} : todo'[u] = todo[u] /\ pc'[u] = pc[u]
    BY <1>1, <2>1
  <2>4. PcAt'
    <3> SUFFICES ASSUME NEW u \in Threads
                 PROVE /\ ~(Doing(u, "notify") \/ Doing(u, "wait"))' => pc'[u] = "ready"
                       /\ Doing(u, "notify")' => pc'[u] \in {"ready", "inside", "notify_all"}
                       /\ Doing(u, "wait")' => pc'[u] # "notify_all"
                       /\ pc'[u] = "unlocked" => Passed(u)'
      BY DEF PcAt
    <3>1. CASE u = t
      BY <1>1, <2>1, <3>1
    <3>2. CASE u # t
      BY <2>1, <2>3, <3>2 DEF PcAt, Doing, Passed, Ev
    <3> QED
      BY <3>1, <3>2
  <2>5. Mutex'
    <3> SUFFICES ASSUME NEW e \in Events, NEW u \in Threads
                 PROVE owner'[e] = u <=> pc'[u] \in {"inside", "again"} /\ Ev(u)' = e
      BY DEF Mutex
    <3>1. owner[Ev(t)] \in {t, Nobody}
      BY <1>2, <1>3, <2>1 DEF Mutex, NoForeignUnlock
    <3>2. CASE u = t
      BY <1>1, <1>2, <2>1, <3>2 DEF Mutex
    <3>3. CASE u # t
      BY <1>1, <1>2, <2>1, <2>3, <3>1, <3>3 DEF Mutex, Ev
    <3> QED
      BY <3>2, <3>3
  <2> QED
    BY <2>2, <2>4, <2>5 DEF Threading
<1>10. CASE Sleep(t) \/ Unlock(t)
  <2>1. /\ pc[t] \in {"inside", "again"} /\ UNCHANGED <<last, todo>>
        /\ Doing(t, "wait")
        /\ owner' = [owner EXCEPT ![Ev(t)] = Nobody]
        /\ \/ pc' = [pc EXCEPT ![t] = "asleep"]
           \/ pc' = [pc EXCEPT ![t] = "unlocked"] /\ Passed(t)
    BY <1>10 DEF Sleep, Unlock
  <2>2. Types'
    BY <1>1, <1>2, <1>5, <2>1 DEF PcValues
  <2>3. PcAt'
    BY <1>1, <2>1 DEF PcAt, Doing, Passed, Ev
  <2>4. Mutex'
    BY <1>1, <1>2, <2>1 DEF Mutex, Ev
  <2> QED
    BY <2>2, <2>3, <2>4 DEF Threading
<1> QED
  BY <1>6, <1>7, <1>8, <1>9, <1>10 DEF Serialize

(* The bench's own steps, a spurious wake-up, the controller's own steps.   *)
LEMMA BenchKeepsThreads ==
  ASSUME HInv, BenchStep \/ BenchCallsKernel, UNCHANGED scene
  PROVE  Threading'
<1> USE DEF HInv
<1>1. /\ todo = [u \in Threads |-> todo[u]] /\ pc \in [Threads -> PcValues]
      /\ "bench" \in Threads
  BY DEF Types, Threads
<1>2. /\ UNCHANGED <<owner, last, ran>>
      /\ todo' = [todo EXCEPT !["bench"] = todo'["bench"]]
      /\ pc["bench"] = "ready" /\ pc' = pc
  <2>1. CASE BenchStep
    <3>1. ~Doing("bench", "notify") /\ ~Doing("bench", "wait")
      BY <2>1 DEF BenchStep, Doing
    <3>2. pc["bench"] = "ready"
      BY <1>1, <3>1 DEF PcAt
    <3> QED
      BY <1>1, <2>1, <3>2 DEF BenchStep, Return, kernel
  <2>2. CASE BenchCallsKernel
    <3>1. PICK calls : Leave(calls) /\ Idle("bench")
      BY <2>2 DEF BenchCallsKernel, conNextCycle, conEndCycle, describeConReturns, InBench
    <3>2. pc["bench"] = "ready"
      BY <1>1, <3>1 DEF PcAt, Idle, Doing
    <3> QED
      BY <1>1, <3>1, <3>2 DEF Leave, kernel
  <2> QED
    BY <2>1, <2>2
<1>3. benchCyc' \in Int /\ benchCyc' >= First /\ future' \in Int /\ leaving' \in BOOLEAN
  <2>1. CASE BenchStep
    BY <2>1, BenchOwnStep DEF BenchTyped
  <2>2. CASE BenchCallsKernel
    <3>1. PICK calls : Leave(calls)
      BY <2>2 DEF BenchCallsKernel, conNextCycle, conEndCycle, describeConReturns
    <3> QED
      BY <3>1 DEF Leave, Types
  <2> QED
    BY <2>1, <2>2
<1>4. Types'
  BY <1>1, <1>2, <1>3 DEF Types
<1>5. todo'["sim"] = todo["sim"]
  BY <1>1, <1>2 DEF Threads
<1>6. PcAt'
  BY <1>1, <1>2, <1>5 DEF PcAt, Doing, Passed, Ev, Threads
<1>7. Mutex'
  BY <1>1, <1>2, <1>5 DEF Mutex, Ev, Threads
<1> QED
  BY <1>4, <1>6, <1>7 DEF Threading

(* A step that changes no more than a sleeper does.                         *)
LEMMA NothingKeeps ==
  ASSUME HInv, UNCHANGED <<scene, kernel, todo, owner, last, bench>>,
         \/ pc' = pc
         \/ \E t \in Threads : pc[t] = "asleep" /\ pc' = [pc EXCEPT ![t] = "woken"]
  PROVE  HInv'
<1> USE DEF HInv
<1>1. /\ pc \in [Threads -> PcValues] /\ pc' \in [Threads -> PcValues]
      /\ \A t \in Threads : pc'[t] = pc[t] \/ (pc[t] = "asleep" /\ pc'[t] = "woken")
  BY DEF Types, PcValues
<1>2. Types'
  BY <1>1 DEF Types, kernel, bench
<1>3. PcAt'
  BY <1>1 DEF PcAt, Doing, Passed, Ev
<1>4. Mutex'
  BY <1>1 DEF Mutex, Ev
<1>5. BenchSays /\ SimSays
  <2>1. \A u \in Threads : Published(u)' = Published(u)
    BY <1>1 DEF Published
  <2> QED
    BY <2>1 DEF BenchSays, SimSays, bench, Threads, SimCalls, BenchCalls,
       StartSim, FinishSim, StartEnd, FinishEnd
<1>6. Kernel' /\ SimAt' /\ BenchAt'
  <2>1. Kernel'
    BY DEF Kernel, kernel
  <2> QED
    BY <1>5, <2>1, BenchKeepsSim, SimKeepsBench
<1> QED
  BY <1>2, <1>3, <1>4, <1>6

(* A step of the controller that calls nothing, or makes its first call.    *)
LEMMA QuietKeepsThreads ==
  ASSUME Threading, Quiet, SimCalls = <<>>, UNCHANGED scene, ran' \in Int,
         todo' = [todo EXCEPT !["sim"] = todo'["sim"]]
  PROVE  Threading'
<1> USE DEF Threading
<1>1. /\ todo = [u \in Threads |-> todo[u]] /\ "sim" \in Threads
      /\ UNCHANGED <<pc, owner, last, benchCyc, future, leaving>>
  BY DEF Types, Threads, Quiet
<1>2. pc["sim"] = "ready" /\ todo'["bench"] = todo["bench"]
  BY <1>1 DEF PcAt, Doing, SimCalls, Threads
<1>3. Types'
  BY <1>1 DEF Types
<1>4. PcAt'
  BY <1>1, <1>2 DEF PcAt, Doing, Passed, Ev, Threads
<1>5. Mutex'
  BY <1>1, <1>2 DEF Mutex, Ev, Threads
<1> QED
  BY <1>3, <1>4, <1>5

ControllerStep ==
  \/ StartCycle \/ LeaveLoop \/ Join
  \/ ModelPart \/ LongRun \/ ModelNext
  \/ TriggerPart \/ TriggerNext
  \/ UserEvent

(* A step of the loop keeps the invariant.                                  *)
LEMMA ControllerKeeps ==
  ASSUME HInv, ControllerStep, UNCHANGED scene
  PROVE  HInv'
<1> USE DEF HInv
<1>1. Kernel' /\ SimAt'
  BY StartCycleKeeps, EndKeeps, ModelPartKeeps, LongRunKeeps, ModelNextKeeps,
     TriggerPartKeeps, TriggerNextKeeps, UserEventKeeps DEF ControllerStep
<1>2. Quiet
  BY DEF ControllerStep, StartCycle, LeaveLoop, Join, ModelPart, LongRun, ModelNext,
         TriggerPart, TriggerNext, UserEvent, Quiet, BenchCalls, bench, Types, Threads
<1>3. BenchAt'
  BY <1>2, QuietKeepsBench
<1>4. SimCalls = <<>>
  <2>1. CASE StartCycle \/ LeaveLoop \/ Join
    <3>1. phase \notin PhaseNames
      BY <2>1 DEF StartCycle, LeaveLoop, Join, PhaseNames
    <3> QED
      BY <3>1, PhaseSet, LoopQuiet
  <2>2. CASE ModelPart \/ LongRun \/ ModelNext \/ TriggerPart \/ TriggerNext \/ UserEvent
    BY <2>2 DEF ModelPart, LongRun, ModelNext, TriggerPart, TriggerNext, UserEvent, Turn,
                SimCalls, Idle
  <2> QED
    BY <2>1, <2>2 DEF ControllerStep
<1>5. ran' \in Int
  <2>1. CASE LongRun
    BY <2>1, LongRunKeeps
  <2>2. CASE ~LongRun
    BY <2>2 DEF ControllerStep, StartCycle, LeaveLoop, Join, ModelPart, ModelNext,
         TriggerPart, TriggerNext, UserEvent, Types
  <2> QED
    BY <2>1, <2>2
<1>6. todo' = [todo EXCEPT !["sim"] = todo'["sim"]]
  BY DEF ControllerStep, StartCycle, LeaveLoop, Join, ModelPart, LongRun, ModelNext,
         TriggerPart, TriggerNext, UserEvent, Types, Threads
<1> QED
  BY <1>1, <1>2, <1>3, <1>4, <1>5, <1>6, QuietKeepsThreads DEF Threading

-----------------------------------------------------------------------------
(* Both threads call the four events by themselves and by each other's      *)
(* steps: the whole step.                                                   *)
LEMMA InitHolds == Init => HInv
<1> SUFFICES ASSUME Init PROVE HInv
  OBVIOUS
<1>1. /\ scene \in Scenarios /\ phase = "loop" /\ batch = <<>> /\ ran = 0
      /\ pc = [t \in Threads |-> "ready"] /\ owner = [e \in Events |-> Nobody]
      /\ last = [e \in Events |-> -1] /\ future = -1 /\ leaving = FALSE
      /\ place = "away" /\ benchCyc = First
  BY DEF Init
<1>2. SimCalls = <<>> /\ BenchCalls = N2(First) /\ DOMAIN todo = Threads
      /\ todo = [t \in Threads |-> todo[t]]
  BY DEF Init, SimCalls, BenchCalls, N2, Threads
<1>3. Types
  <2>1. /\ pc \in [Threads -> PcValues]
        /\ owner \in [Events -> Threads \cup {Nobody}]
        /\ last \in [Events -> Int]
    BY <1>1 DEF PcValues
  <2>2. benchCyc \in Int /\ benchCyc >= First
    BY <1>1 DEF First
  <2>3. future \in Int /\ ran \in Int
    BY <1>1
  <2>4. leaving \in BOOLEAN /\ scene \in Scenarios
    BY <1>1
  <2> QED
    BY <1>2, <2>1, <2>2, <2>3, <2>4 DEF Types
<1>4. \A e \in queue : e \in EventSet /\ (e.who = Trigger => e = Event(Trigger, First, FrontPrio))
  <2>1. Event(Model, 0, ModelPrio) \in EventSet /\ Event(Model, 0, ModelPrio).who # Trigger
    BY DEF Event, EventSet, Model, Trigger, ModelPrio
  <2>2. Event(Trigger, First, FrontPrio) \in EventSet
    BY DEF Event, EventSet, Trigger, First, FrontPrio
  <2> QED
    BY <1>3, <2>1, <2>2, ScheduledFacts DEF Init
<1>5. IsFiniteSet(queue)
  <2> DEFINE a == Event(Model, 0, ModelPrio)
             b == Event(Trigger, First, FrontPrio)
             more == Scheduled(Describe, 0)
  <2>1. IsFiniteSet(more)
    BY <1>3, ScheduledFacts
  <2>2. queue = {a, b} \cup more
    BY DEF Init
  <2> HIDE DEF a, b, more
  <2>3. queue = (more \cup {a}) \cup {b}
    BY <2>2
  <2>4. IsFiniteSet(more \cup {a})
    BY <2>1, FS_AddElement
  <2> QED
    BY <2>3, <2>4, FS_AddElement
<1>6. phase \notin ToSet(Phases) /\ phase \notin PhaseNames
  BY <1>1, PhaseSet DEF PhaseNames
<1>7. Kernel
  BY <1>4, <1>5, <1>6 DEF Kernel
<1>8. BenchAt
  BY <1>1, <1>2 DEF BenchAt, BWaits, Target, First, StartSim, FinishSim, StartEnd, FinishEnd, Events
<1>9. SimAt
  <2>1. \A X \in Int : ~Middle(X) /\ ~Late(X)
    BY <1>6 DEF Middle, Late, PhaseNames
  <2>2. \A X \in Int : Before(X) => X = First
    BY <1>1, <1>4 DEF Before, Event
  <2>3. RowBefore(First)
    BY <1>1, <1>2 DEF RowBefore, Fresh, Target, First, StartSim, FinishSim, StartEnd, FinishEnd, Events
  <2> QED
    BY <1>2, <2>1, <2>2, <2>3 DEF SimAt
<1>10. PcAt
  BY <1>1 DEF PcAt
<1>11. Mutex
  BY <1>1 DEF Mutex, Threads, Nobody
<1> QED
  BY <1>3, <1>7, <1>8, <1>9, <1>10, <1>11 DEF HInv

(* A step of the bench does.                                                *)
LEMMA BenchKeeps ==
  ASSUME HInv, Serialize("bench") \/ BenchStep \/ BenchCallsKernel, UNCHANGED scene
  PROVE  HInv'
<1> USE DEF HInv
<1>1. BenchAt' /\ BenchSays
  <2>1. CASE Serialize("bench")
    BY <2>1, FromWaits, FromFront, FromSettles, FromEnd, FromGone DEF BenchAt
  <2>2. CASE BenchStep
    BY <2>2, BenchOwnStep
  <2>3. CASE BenchCallsKernel
    BY <2>3, BenchLeaves
  <2> QED
    BY <2>1, <2>2, <2>3
<1>2. Kernel'
  BY <1>1 DEF BenchSays, Kernel, kernel
<1>3. SimAt'
  BY <1>1, BenchKeepsSim
<1>4. Threading'
  BY SerializeKeeps, BenchKeepsThreads DEF Threads
<1> QED
  BY <1>1, <1>2, <1>3, <1>4 DEF Threading

(* A call of the controller does.                                           *)
LEMMA SimSerializeKeeps ==
  ASSUME HInv, Serialize("sim"), UNCHANGED scene
  PROVE  HInv'
<1> USE DEF HInv
<1>1. SimAt' /\ SimSays
  BY SimSerialize
<1>2. BenchAt'
  BY <1>1, SimKeepsBench
<1>3. Kernel'
  <2>1. UNCHANGED kernel
    BY DEF Serialize, Lock, Publish, NotifyAll, WaitPass, Sleep, Unlock, UnlockAgain
  <2> QED
    BY <2>1 DEF Kernel, kernel
<1>4. Threading'
  BY SerializeKeeps DEF Threads
<1> QED
  BY <1>1, <1>2, <1>3, <1>4 DEF Threading

(* Every step does.                                                         *)
LEMMA StepKeeps == HInv /\ [Next]_vars => HInv'
<1> SUFFICES ASSUME HInv, [Next]_vars PROVE HInv'
  OBVIOUS
<1>1. CASE UNCHANGED vars
  BY <1>1, NothingKeeps DEF vars
<1>2. CASE Running /\ Sim
  BY <1>2, SimSerializeKeeps, ControllerKeeps DEF Running, Sim, ControllerStep
<1>3. CASE Running /\ Bench
  BY <1>3, BenchKeeps DEF Running, Bench, BenchCallsKernel
<1>4. CASE Running /\ \E t \in Threads : SpuriousWake(t)
  BY <1>4, NothingKeeps DEF Running, SpuriousWake
<1> QED
  BY <1>1, <1>2, <1>3, <1>4 DEF Next, Stopped

(* ThreadsAgree: at every moment the bench, the trigger and the four events *)
(* agree: the bench stands where BenchAt says, the trigger where SimAt      *)
(* says, and a thread that has a mutex is the one inside of it              *)
(* (SimInterface and ctTrigEvent, whatever the two threads do in between).  *)
THEOREM ThreadsAgree == Spec => []HInv
<1> QED
  BY InitHolds, StepKeeps, PTL DEF Spec

(* NoForeignUnlock: when a wait that has slept unlocks its mutex a second   *)
(* time nobody owns it, in every simulation (ctTrigEvent.h 47-49).          *)
THEOREM MutexNotStolen == Spec => []NoForeignUnlock
<1> QED
  BY ThreadsAgree, FreeMutex, PTL

-----------------------------------------------------------------------------
(* Where the model is, when it runs cycle by cycle.                         *)
ModelIs(m) ==
  \/ phase = "negCur" /\ at <= m /\ model = [cyc |-> curCycle, done |-> 0]
  \/ /\ (phase = "negCur" /\ at > m) \/ (phase = "negNext" /\ at <= m)
     /\ model = [cyc |-> curCycle, done |-> 1]
  \/ /\ (phase = "negNext" /\ at > m) \/ (phase = "posCur" /\ at <= m)
     /\ model = [cyc |-> curCycle, done |-> 2]
  \/ /\ (phase = "posCur" /\ at > m) \/ (phase = "posNext" /\ at <= m)
     /\ model = [cyc |-> curCycle, done |-> 3]
  \/ /\ (phase = "posNext" /\ at > m) \/ phase \in {"long", "next"}
     /\ model = [cyc |-> curCycle + 1, done |-> 0]

(* Its event is in the queue, for the next cycle.                           *)
ModelWaits ==
  /\ \E e \in queue : e.who = Model /\ e.cyc = curCycle + 1 /\ e.prio = ModelPrio
  /\ \A e, f \in queue : e.who = Model /\ f.who = Model => e = f
  /\ model = [cyc |-> curCycle + 1, done |-> 0]

ModelInBatch(m) ==
  /\ batch[m].who = Model
  /\ \A j \in DOMAIN batch : /\ batch[j].who = Model => j = m
                             /\ batch[j].who = Trigger => j < m
                             /\ batch[j].cyc = curCycle

ModelAt ==
  /\ curCycle \in Int
  /\ \A e \in queue : e.cyc >= curCycle /\ (e.who = Trigger => e.prio = FrontPrio)
  /\ phase = "loop" => ModelWaits
  /\ phase \in PhaseNames =>
       \E m \in DOMAIN batch :
          /\ ModelInBatch(m) /\ ModelIs(m)
          /\ IF phase = "next" /\ at > m THEN ModelWaits ELSE \A e \in queue : e.who # Model

(* While the controller's thread calls, its loop stands behind the trigger. *)
Behind ==
  SimCalls # <<>> =>
    /\ phase \in {"negCur", "posNext"}
    /\ at - 1 \in DOMAIN batch /\ batch[at - 1].who = Trigger

TInv == ~LongRange /\ ModelAt /\ Behind /\ Placed

(* The model is in the batch once.                                          *)
LEMMA ModelPlace ==
  ASSUME Kernel, ModelAt, phase \in PhaseNames
  PROVE  \E m \in Int :
           /\ m \in DOMAIN batch /\ ModelInBatch(m) /\ ModelIs(m)
           /\ IF phase = "next" /\ at > m THEN ModelWaits ELSE \A e \in queue : e.who # Model
<1>1. DOMAIN batch \subseteq Int
  BY CurrentEvent, PhaseSet
<1> QED
  BY <1>1 DEF ModelAt

(* A step of the loop that is not the model's.                              *)
LEMMA OthersKeepModel ==
  ASSUME Kernel, ModelAt, phase \in PhaseNames, Advance,
         UNCHANGED <<batch, curCycle, model>>,
         queue \subseteq queue',
         \A e \in queue' : /\ e \in queue \/ e.who # Model
                           /\ e.cyc >= curCycle /\ (e.who = Trigger => e.prio = FrontPrio),
         Current.who # Model \/ phase = "long"
  PROVE  ModelAt'
<1>1. PICK m \in Int :
         /\ m \in DOMAIN batch /\ ModelInBatch(m) /\ ModelIs(m)
         /\ IF phase = "next" /\ at > m THEN ModelWaits ELSE \A e \in queue : e.who # Model
  BY ModelPlace
<1>2. /\ at \in 1..Len(batch) /\ m \in 1..Len(batch) /\ DOMAIN batch = 1..Len(batch)
      /\ phase \in ToSet(Phases)
  BY <1>1, CurrentEvent, PhaseSet
<1>3. at # m \/ phase = "long"
  BY <1>1 DEF Current, ModelInBatch
<1>4. ModelInBatch(m)'
  BY <1>1 DEF ModelInBatch
<1>5. phase' \in PhaseNames => ModelIs(m)'
  BY <1>1, <1>2, <1>3, Moves DEF ModelIs, PhaseNames
<1>6. ModelWaits => ModelWaits'
  BY DEF ModelWaits
<1>7. (\A e \in queue : e.who # Model) => (\A e \in queue' : e.who # Model)
  OBVIOUS
<1>8. ASSUME phase' = "loop" PROVE ModelWaits'
  <2>1. phase = "next" /\ ~(at < Len(batch))
    BY <1>2, <1>8, Moves, PhaseSet DEF PhaseNames
  <2>2. at > m
    BY <1>2, <1>3, <2>1
  <2> QED
    BY <1>1, <1>6, <2>1, <2>2
<1>9. phase' \in PhaseNames =>
        IF phase' = "next" /\ at' > m THEN ModelWaits' ELSE \A e \in queue' : e.who # Model
  <2>1. CASE phase = "next"
    BY <1>1, <1>2, <1>3, <1>6, <1>7, <2>1, Moves DEF PhaseNames
  <2>2. CASE phase # "next"
    BY <1>1, <1>2, <1>7, <2>2, Moves DEF PhaseNames
  <2> QED
    BY <2>1, <2>2
<1> QED
  BY <1>1, <1>4, <1>5, <1>8, <1>9 DEF ModelAt

(* A step of the model moves it on by one part.                             *)
LEMMA ModelPartMoves ==
  ASSUME Kernel, ModelAt, ModelPart, ~LongRange
  PROVE  ModelAt' /\ model' = Tick(model)
<1>1. /\ phase \in {"negCur", "negNext", "posCur", "posNext"} /\ phase \in PhaseNames
      /\ phase \in ToSet(Phases) /\ Current.who = Model
      /\ model' = Tick(model) /\ Advance
      /\ UNCHANGED <<batch, curCycle, queue>>
  BY PhaseSet DEF ModelPart, Turn, PhaseNames
<1>2. PICK m \in Int :
         /\ m \in DOMAIN batch /\ ModelInBatch(m) /\ ModelIs(m)
         /\ \A e \in queue : e.who # Model
  BY <1>1, ModelPlace
<1>3. /\ at \in 1..Len(batch) /\ m \in 1..Len(batch) /\ DOMAIN batch = 1..Len(batch)
      /\ curCycle \in Int
  BY <1>1, <1>2, CurrentEvent DEF ModelAt
<1>4. at = m
  BY <1>1, <1>2, <1>3 DEF Current, ModelInBatch
<1>5. ModelInBatch(m)'
  BY <1>1, <1>2 DEF ModelInBatch
<1>6. ModelIs(m)' /\ phase' \in PhaseNames /\ ~(phase' = "next")
  <2>1. \/ phase = "negCur" /\ model = [cyc |-> curCycle, done |-> 0]
        \/ phase = "negNext" /\ model = [cyc |-> curCycle, done |-> 1]
        \/ phase = "posCur" /\ model = [cyc |-> curCycle, done |-> 2]
        \/ phase = "posNext" /\ model = [cyc |-> curCycle, done |-> 3]
    BY <1>1, <1>2, <1>3, <1>4 DEF ModelIs
  <2>2. \/ phase = "negCur" /\ model' = [cyc |-> curCycle, done |-> 1]
        \/ phase = "negNext" /\ model' = [cyc |-> curCycle, done |-> 2]
        \/ phase = "posCur" /\ model' = [cyc |-> curCycle, done |-> 3]
        \/ phase = "posNext" /\ model' = [cyc |-> curCycle + 1, done |-> 0]
    BY <1>1, <2>1 DEF Tick
  <2> QED
    BY <1>1, <1>3, <1>4, <2>2, Moves DEF ModelIs, PhaseNames
<1> QED
  BY <1>1, <1>2, <1>3, <1>5, <1>6 DEF ModelAt, PhaseNames

(* The model waits for the next cycle.                                      *)
LEMMA ModelNextMoves ==
  ASSUME Kernel, ModelAt, ModelNext, ~LongRange
  PROVE  ModelAt'
<1>1. /\ phase = "next" /\ phase \in PhaseNames
      /\ phase \in ToSet(Phases) /\ Current.who = Model /\ Advance
      /\ UNCHANGED <<batch, curCycle, model>>
      /\ queue' = queue \cup {Event(Model, Current.cyc + 1, ModelPrio)}
  BY PhaseSet DEF ModelNext, Turn, PhaseNames
<1>2. PICK m \in Int :
         /\ m \in DOMAIN batch /\ ModelInBatch(m) /\ ModelIs(m)
         /\ IF phase = "next" /\ at > m THEN ModelWaits ELSE \A e \in queue : e.who # Model
  BY <1>1, ModelPlace
<1>3. /\ at \in 1..Len(batch) /\ m \in 1..Len(batch) /\ DOMAIN batch = 1..Len(batch)
      /\ curCycle \in Int
  BY <1>1, <1>2, CurrentEvent DEF ModelAt
<1>4. at = m /\ Current.cyc = curCycle
  BY <1>1, <1>2, <1>3 DEF Current, ModelInBatch
<1>5. ModelInBatch(m)'
  BY <1>1, <1>2 DEF ModelInBatch
<1>6. model = [cyc |-> curCycle + 1, done |-> 0]
  BY <1>1, <1>2 DEF ModelIs
<1> DEFINE new == Event(Model, curCycle + 1, ModelPrio)
<1>7. new.who = Model /\ new.cyc = curCycle + 1 /\ new.prio = ModelPrio
  BY DEF Event
<1>8. queue' = queue \cup {new} /\ \A e \in queue : e.who # Model
  BY <1>1, <1>2, <1>3, <1>4
<1> HIDE DEF new
<1>9. ModelWaits'
  BY <1>1, <1>6, <1>7, <1>8 DEF ModelWaits
<1>10. (phase' = "next" /\ at' > m /\ ModelIs(m)') \/ phase' = "loop"
  BY <1>1, <1>3, <1>4, <1>6, Moves DEF ModelIs
<1>11. \A e \in queue' : e.cyc >= curCycle /\ (e.who = Trigger => e.prio = FrontPrio)
  BY <1>3, <1>7, <1>8 DEF ModelAt, Model, Trigger
<1> QED
  BY <1>1, <1>2, <1>3, <1>5, <1>9, <1>10, <1>11 DEF ModelAt, PhaseNames

(* The loop takes the cycle the model waits for.                            *)
LEMMA StartCycleMoves ==
  ASSUME Kernel, ModelAt, StartCycle
  PROVE  ModelAt'
<1> DEFINE c   == Min(Cycles(queue))
           now == {e \in queue : e.cyc = c}
<1>1. phase = "loop" /\ model' = model /\ ModelWaits
  BY DEF StartCycle, ModelAt
<1>2. CASE c = curCycle
  BY <1>2 DEF StartCycle, ModelAt, PhaseNames
<1>3. CASE c # curCycle
  <2>1. /\ batch' \in Orders(now) /\ queue' = queue \ now /\ curCycle' = c
        /\ phase' = "negCur" /\ at' = 1 /\ queue # {}
    BY <1>3 DEF StartCycle
  <2>2. queue \subseteq EventSet /\ IsFiniteSet(queue)
    BY DEF Kernel
  <2>3. c \in Cycles(queue) /\ \A y \in Cycles(queue) : c <= y
    <3> DEFINE f == [e \in queue |-> e.cyc]
    <3>1. f \in Surjection(queue, Cycles(queue))
      BY DEF Surjection, Cycles
    <3>2. IsFiniteSet(Cycles(queue))
      BY <2>2, <3>1, FS_Surjection
    <3>3. Cycles(queue) \subseteq Int /\ Cycles(queue) # {}
      BY <2>1, <2>2 DEF Cycles, EventSet
    <3> QED
      BY <3>2, <3>3, MinOfFinite
  <2> HIDE DEF c
  <2>4. now \subseteq EventSet /\ IsFiniteSet(now)
    BY <2>2, FS_Subset
  <2>5. /\ DOMAIN batch' = 1..Len(batch') /\ batch' \in Seq(EventSet)
        /\ \A i \in DOMAIN batch' : batch'[i] \in now
        /\ \A e \in now : \E i \in DOMAIN batch' : batch'[i] = e
        /\ \A i, j \in DOMAIN batch' : batch'[i] = batch'[j] => i = j
    BY <2>1, <2>4, OrderFacts
  <2>6. PICK w \in queue : w.who = Model /\ w.cyc = curCycle + 1 /\ w.prio = ModelPrio
    BY <1>1 DEF ModelWaits
  <2>7. /\ \A e \in queue : e.who = Model => e = w
        /\ \A e \in queue : e.cyc >= curCycle /\ e.cyc >= c /\ e.cyc \in Int
        /\ curCycle \in Int /\ c \in Int /\ c >= curCycle
    BY <1>1, <2>2, <2>3, <2>6 DEF ModelWaits, ModelAt, Cycles, EventSet
  <2>8. c = curCycle + 1 /\ w \in now
    BY <1>3, <2>6, <2>7
  <2>9. PICK m \in DOMAIN batch' : batch'[m] = w
    BY <2>5, <2>8
  <2>10. m \in Int /\ at' <= m
    BY <2>1, <2>5
  <2>11. \A j \in DOMAIN batch' : batch'[j].who = Trigger => j < m
    <3>1. ASSUME NEW j \in DOMAIN batch', batch'[j].who = Trigger, ~(j < m) PROVE FALSE
      <4>1. j # m
        BY <2>6, <2>9, <3>1 DEF Model, Trigger
      <4>2. m < j
        BY <2>5, <3>1, <4>1
      <4>3. \A i, k \in DOMAIN batch' : i < k => batch'[i].prio >= batch'[k].prio
        BY <2>1 DEF Orders
      <4>4. w.prio >= batch'[j].prio
        BY <2>9, <4>2, <4>3
      <4>5. batch'[j].prio = FrontPrio
        BY <2>5, <3>1 DEF ModelAt
      <4> QED
        BY <2>6, <4>4, <4>5 DEF ModelPrio, FrontPrio
    <3> QED
      BY <3>1
  <2>12. ModelInBatch(m)'
    BY <2>1, <2>5, <2>6, <2>7, <2>9, <2>11 DEF ModelInBatch
  <2>13. ModelIs(m)'
    BY <1>1, <2>1, <2>8, <2>10 DEF ModelIs, ModelWaits
  <2>14. \A e \in queue' : /\ e.who # Model /\ e.cyc >= c
                           /\ e.who = Trigger => e.prio = FrontPrio
    BY <2>1, <2>7, <2>8 DEF ModelAt
  <2> QED
    BY <2>1, <2>7, <2>9, <2>12, <2>13, <2>14 DEF ModelAt
<1> QED
  BY <1>2, <1>3

(* Every step of the loop keeps the model where its phase says.             *)
LEMMA ControllerMovesModel ==
  ASSUME HInv, ModelAt, ControllerStep, ~LongRange
  PROVE  /\ ModelAt'
         /\ model' = model \/ (ModelPart /\ model' = Tick(model))
<1> USE DEF HInv
<1>1. CASE StartCycle
  BY <1>1, StartCycleMoves DEF StartCycle
<1>2. CASE LeaveLoop \/ Join
  BY <1>2 DEF LeaveLoop, Join, ModelAt, PhaseNames
<1>3. CASE ModelPart
  BY <1>3, ModelPartMoves
<1>4. CASE ModelNext
  BY <1>4, ModelNextMoves DEF ModelNext
<1>5. CASE LongRun
  <2>1. /\ phase = "long" /\ phase \in PhaseNames /\ Advance
        /\ UNCHANGED <<batch, curCycle, model, queue>>
    BY <1>5 DEF LongRun, PhaseNames
  <2> QED
    BY <2>1, OthersKeepModel DEF ModelAt
<1>6. CASE TriggerPart
  <2>1. /\ phase \in PhaseNames /\ Advance /\ Current.who # Model
        /\ UNCHANGED <<batch, curCycle, model, queue>>
    BY <1>6, PhaseSet DEF TriggerPart, Turn, Trigger, Model
  <2> QED
    BY <2>1, OthersKeepModel DEF ModelAt
<1>7. CASE TriggerNext
  <2>1. /\ phase \in PhaseNames /\ phase = "next" /\ Current.who # Model
        /\ UNCHANGED <<batch, curCycle, model>>
    BY <1>7, PhaseSet DEF TriggerNext, Turn, Trigger, Model
  <2>2. CASE phase' = "abort" /\ queue' = queue
    BY <2>1, <2>2 DEF ModelAt, PhaseNames
  <2>3. CASE Advance /\ ~(future < curCycle) /\ queue' = queue \cup {Event(Trigger, future, FrontPrio)}
    <3>1. Event(Trigger, future, FrontPrio).cyc >= curCycle
      BY <2>3 DEF Event, ModelAt, Types
    <3>2. /\ Event(Trigger, future, FrontPrio).prio = FrontPrio
          /\ Event(Trigger, future, FrontPrio).who # Model
      BY DEF Event, Trigger, Model
    <3> QED
      BY <2>1, <2>3, <3>1, <3>2, OthersKeepModel DEF ModelAt
  <2>4. CASE Advance /\ queue' = queue
    BY <2>1, <2>4, OthersKeepModel DEF ModelAt
  <2> QED
    BY <1>7, <2>1, <2>2, <2>3, <2>4 DEF TriggerNext
<1>8. CASE UserEvent
  <2>1. /\ phase \in PhaseNames /\ Advance /\ Current.who # Model
        /\ UNCHANGED <<batch, curCycle, model>>
    <3>1. \A k \in DOMAIN User : k # Model
      BY CoSimAssumption DEF Types, User, Model
    <3> QED
      BY <1>8, <3>1, PhaseSet DEF UserEvent, Turn
  <2>2. queue' = queue \/ queue' = queue \cup Scheduled(Current.who, Current.cyc)
    BY <1>8 DEF UserEvent
  <2>3. Current.cyc = curCycle /\ curCycle \in Int
    BY <2>1, CurrentEvent, PhaseSet, ModelPlace DEF ModelInBatch, Current, ModelAt
  <2>4. \A e \in queue' : /\ e \in queue \/ e.who # Model
                          /\ e.cyc >= curCycle /\ (e.who = Trigger => e.prio = FrontPrio)
    BY <2>2, <2>3, ScheduledFacts DEF ModelAt
  <2> QED
    BY <2>1, <2>2, <2>4, OthersKeepModel
<1> QED
  BY <1>1, <1>2, <1>3, <1>4, <1>5, <1>6, <1>7, <1>8 DEF ControllerStep, LeaveLoop, Join, ModelNext,
     LongRun, TriggerPart, TriggerNext, UserEvent

(* And keeps the loop behind the trigger.                                   *)
LEMMA ControllerStaysBehind ==
  ASSUME HInv, ModelAt, ControllerStep
  PROVE  Behind'
<1> USE DEF HInv
<1>1. CASE TriggerPart
  <2>1. /\ phase \in PhaseNames /\ phase \in ToSet(Phases) /\ Advance /\ batch' = batch
        /\ batch[at].who = Trigger
        /\ SimCalls' # <<>> => phase \in {"negCur", "posNext"}
    BY <1>1, PhaseSet DEF TriggerPart, Turn, Current, SimCalls, HandOver, Types, Threads
  <2>2. PICK m \in DOMAIN batch : ModelInBatch(m)
    BY <2>1, ModelPlace
  <2>3. at < m /\ at \in 1..Len(batch) /\ m \in 1..Len(batch) /\ DOMAIN batch = 1..Len(batch)
    BY <2>1, <2>2, CurrentEvent DEF ModelInBatch
  <2>4. at' = at + 1 /\ phase' = phase
    BY <2>1, <2>3, Moves
  <2>5. at' - 1 = at
    BY <2>3, <2>4
  <2> QED
    BY <2>1, <2>3, <2>4, <2>5 DEF Behind
<1>2. CASE ~TriggerPart
  <2>1. SimCalls = <<>>
    <3>1. CASE StartCycle \/ LeaveLoop \/ Join
      <4>1. phase \notin PhaseNames
        BY <3>1 DEF StartCycle, LeaveLoop, Join, PhaseNames
      <4> QED
        BY <4>1, PhaseSet, LoopQuiet
    <3>2. CASE ModelPart \/ LongRun \/ ModelNext \/ TriggerNext \/ UserEvent
      BY <3>2 DEF ModelPart, LongRun, ModelNext, TriggerNext, UserEvent, Turn, SimCalls, Idle
    <3> QED
      BY <1>2, <3>1, <3>2 DEF ControllerStep
  <2>2. SimCalls' = SimCalls
    BY <1>2 DEF ControllerStep, StartCycle, LeaveLoop, Join, ModelPart, LongRun, ModelNext,
         TriggerNext, UserEvent, SimCalls
  <2> QED
    BY <2>1, <2>2 DEF Behind
<1> QED
  BY <1>1, <1>2

(* Steps of the threads that leave the loop alone.                          *)
LEMMA KernelSame ==
  ASSUME UNCHANGED kernel
  PROVE  /\ ModelAt => ModelAt'
         /\ Behind /\ (SimCalls' # <<>> => SimCalls # <<>>) => Behind'
         /\ Placed /\ (leaving => leaving') => Placed'
<1>1. ModelAt => ModelAt'
  BY DEF kernel, ModelAt, ModelInBatch, ModelIs, ModelWaits
<1>2. Behind /\ (SimCalls' # <<>> => SimCalls # <<>>) => Behind'
  BY DEF kernel, Behind
<1>3. Placed /\ (leaving => leaving') => Placed'
  BY DEF kernel, Placed, Before, Middle, Late, Trig
<1> QED
  BY <1>1, <1>2, <1>3

(* Every step keeps TInv.                                                   *)
LEMMA TurnsKept ==
  ASSUME HInv, TInv, [Next]_vars
  PROVE  TInv'
<1> USE DEF TInv
<1>1. scene' = scene /\ ~LongRange'
  BY DEF Next, Running, Stopped, vars, LongRange
<1>2. CASE UNCHANGED kernel /\ (leaving => leaving') /\ (SimCalls' # <<>> => SimCalls # <<>>)
  BY <1>1, <1>2, KernelSame
<1>3. CASE ControllerStep
  <2>1. ModelAt' /\ Behind'
    BY <1>3, ControllerMovesModel, ControllerStaysBehind
  <2>2. Placed'
    BY <1>3, StartCycleKeeps, EndKeeps, ModelPartKeeps, LongRunKeeps, ModelNextKeeps,
       TriggerPartKeeps, TriggerNextKeeps, UserEventKeeps DEF ControllerStep, HInv
  <2> QED
    BY <1>1, <2>1, <2>2
<1>4. CASE Serialize("sim")
  <2>1. SimCalls # <<>>
    BY <1>4, NoCall DEF SimCalls
  <2>2. UNCHANGED <<kernel, bench>>
    BY <1>4 DEF Serialize, Lock, Publish, NotifyAll, WaitPass, Sleep, Unlock, UnlockAgain
  <2> QED
    BY <1>2, <2>1, <2>2 DEF bench
<1>5. CASE Bench
  <2>1. BenchSays
    BY <1>5, FromWaits, FromFront, FromSettles, FromEnd, FromGone, BenchOwnStep, BenchLeaves
       DEF Bench, BenchCallsKernel, HInv, BenchAt
  <2>2. leaving => leaving'
    BY <1>5 DEF Bench, Serialize, Lock, Publish, NotifyAll, WaitPass, Sleep, Unlock, UnlockAgain,
       BenchStep, conNextCycle, conEndCycle, describeConReturns, Leave, bench
  <2> QED
    BY <1>2, <2>1, <2>2 DEF BenchSays
<1>6. CASE UNCHANGED <<kernel, todo, bench>>
  BY <1>2, <1>6 DEF bench, SimCalls
<1> QED
  BY <1>3, <1>4, <1>5, <1>6 DEF Next, Stopped, Sim, ControllerStep, SpuriousWake, vars

(* It holds when the simulation starts.                                     *)
LEMMA TurnsInit == Init /\ ~LongRange => TInv
<1> SUFFICES ASSUME Init, ~LongRange PROVE TInv
  OBVIOUS
<1>1. HInv
  BY InitHolds
<1>2. /\ phase = "loop" /\ curCycle = -1 /\ model = [cyc |-> 0, done |-> 0]
      /\ SimCalls = <<>>
      /\ queue = {Event(Model, 0, ModelPrio), Event(Trigger, First, FrontPrio)}
                   \cup Scheduled(Describe, 0)
  BY DEF Init, SimCalls, Threads
<1> DEFINE w == Event(Model, 0, ModelPrio)
           g == Event(Trigger, First, FrontPrio)
<1>3. /\ w.who = Model /\ w.cyc = 0 /\ w.prio = ModelPrio /\ w.who # Trigger
      /\ g.who = Trigger /\ g.cyc = First /\ g.prio = FrontPrio /\ g.who # Model
      /\ g.cyc >= -1
  BY DEF Event, Model, Trigger, First
<1> HIDE DEF w, g
<1>4. queue = {w, g} \cup Scheduled(Describe, 0)
  BY <1>2 DEF w, g
<1>5. \A e \in Scheduled(Describe, 0) : e.who # Trigger /\ e.who # Model /\ e.cyc >= 0 /\ e.cyc \in Int
  BY <1>1, ScheduledFacts DEF HInv, EventSet
<1>6. ModelWaits
  BY <1>2, <1>3, <1>4, <1>5 DEF ModelWaits
<1>7. ModelAt
  BY <1>2, <1>3, <1>4, <1>5, <1>6 DEF ModelAt, PhaseNames
<1>8. Behind
  BY <1>2 DEF Behind
<1>9. Placed
  <2>1. Before(First)
    BY <1>3, <1>4 DEF Before
  <2> QED
    BY <2>1 DEF Placed, First
<1> QED
  BY <1>7, <1>8, <1>9 DEF TInv

-----------------------------------------------------------------------------
(* The bench and the model take turns: what a step looks like to Lockstep.  *)

Calls ==
  [op : {"notify", "wait", "front", "future", "end", "markStop", "gone"},
   ev : Events \cup {"none"}, n : Int]

(* A member of a sequence is its head or in its tail.                       *)
LEMMA HeadOrTail ==
  ASSUME NEW S, NEW q \in Seq(S), q # <<>>
  PROVE  \A z : z \in ToSet(q) <=> z = Head(q) \/ z \in ToSet(Tail(q))
<1>1. DOMAIN q = 1..Len(q) /\ Len(q) \in Nat /\ Len(q) >= 1 /\ Head(q) = q[1]
  OBVIOUS
<1>2. /\ DOMAIN Tail(q) = 1..(Len(q) - 1)
      /\ \A i \in 1..(Len(q) - 1) : Tail(q)[i] = q[i + 1]
  OBVIOUS
<1> SUFFICES ASSUME NEW z
             PROVE  z \in ToSet(q) <=> z = Head(q) \/ z \in ToSet(Tail(q))
  OBVIOUS
<1>3. ASSUME z \in ToSet(q) PROVE z = Head(q) \/ z \in ToSet(Tail(q))
  <2>1. PICK i \in 1..Len(q) : z = q[i]
    BY <1>1, <1>3 DEF ToSet
  <2>2. CASE i = 1
    BY <1>1, <2>1, <2>2
  <2>3. CASE i # 1
    <3>1. i - 1 \in 1..(Len(q) - 1) /\ (i - 1) + 1 = i
      BY <1>1, <2>1, <2>3
    <3>2. z = Tail(q)[i - 1]
      BY <1>2, <2>1, <3>1
    <3> QED
      BY <1>2, <3>1, <3>2 DEF ToSet
  <2> QED
    BY <2>2, <2>3
<1>4. ASSUME z = Head(q) PROVE z \in ToSet(q)
  BY <1>1, <1>4 DEF ToSet
<1>5. ASSUME z \in ToSet(Tail(q)) PROVE z \in ToSet(q)
  <2>1. PICK i \in 1..(Len(q) - 1) : z = Tail(q)[i]
    BY <1>2, <1>5 DEF ToSet
  <2>2. z = q[i + 1] /\ i + 1 \in 1..Len(q)
    BY <1>1, <1>2, <2>1
  <2> QED
    BY <1>1, <2>2 DEF ToSet
<1> QED
  BY <1>3, <1>4, <1>5

(* Short sequences.                                                         *)
LEMMA Tuples ==
  ASSUME NEW S, NEW a \in S, NEW b \in S, NEW c \in S, NEW d \in S, NEW e \in S, NEW f \in S
  PROVE  /\ <<a>> \in Seq(S) /\ <<a, b>> \in Seq(S) /\ <<a, b, c>> \in Seq(S)
         /\ <<a, b, c, d>> \in Seq(S) /\ <<a, b, c, d, e>> \in Seq(S)
         /\ <<a, b, c, d, e, f>> \in Seq(S)
  OBVIOUS

(* The scripts are sequences of calls.                                      *)
LEMMA ScriptsAreSequences ==
  ASSUME NEW c \in Int, NEW x \in Int, NEW q, BenchScript(q, c, x)
  PROVE  q \in Seq(Calls)
<1>1. /\ Notify("finishSim", c) \in Calls /\ Notify("finishEnd", c) \in Calls
      /\ WaitFor("startEnd", c) \in Calls /\ WaitFor("startSim", x) \in Calls
      /\ Step("front", x) \in Calls /\ Step("future", x) \in Calls
      /\ Step("end", 0) \in Calls /\ Step("markStop", 0) \in Calls /\ Step("gone", 0) \in Calls
  BY DEF Calls, Notify, WaitFor, Step, Call, Events
<1>2. N1(x) \in Seq(Calls) /\ N2(x) \in Seq(Calls) /\ N3(c, x) \in Seq(Calls)
  BY <1>1, Tuples DEF N1, N2, N3
<1>3. N4(c, x) \in Seq(Calls) /\ N5(c, x) \in Seq(Calls)
  BY <1>1, Tuples DEF N4, N5
<1>4. N6(c, x) \in Seq(Calls)
  <2> DEFINE s1 == Notify("finishSim", c)
             s2 == WaitFor("startEnd", c)
             s3 == Step("future", x)
             s4 == Notify("finishEnd", c)
             s5 == WaitFor("startSim", x)
             s6 == Step("front", x)
  <2>1. s1 \in Calls /\ s2 \in Calls /\ s3 \in Calls /\ s4 \in Calls /\ s5 \in Calls /\ s6 \in Calls
    BY <1>1
  <2>2. N6(c, x) = <<s1, s2, s3, s4, s5, s6>>
    BY DEF N6
  <2> HIDE DEF s1, s2, s3, s4, s5, s6
  <2> QED
    BY <2>1, <2>2, Tuples
<1>5. E1 \in Seq(Calls) /\ E2(c) \in Seq(Calls) /\ E3(c) \in Seq(Calls)
  BY <1>1, Tuples DEF E1, E2, E3
<1>6. F1 \in Seq(Calls) /\ F2(c) \in Seq(Calls) /\ F3(c) \in Seq(Calls) /\ F4(c) \in Seq(Calls)
  BY <1>1, Tuples DEF F1, F2, F3, F4
<1> QED
  BY <1>2, <1>3, <1>4, <1>5, <1>6 DEF BenchScript

(* A sequence of calls is its first call and the rest.                      *)
LEMMA FirstOfCalls ==
  ASSUME NEW q \in Seq(Calls), q # <<>>
  PROVE  /\ Head(q) \in Calls
         /\ Is(q, Head(q).op, Head(q).ev, Head(q).n, Tail(q))
<1>1. Head(q) \in Calls
  OBVIOUS
<1>2. \A h \in Calls : h = Call(h.op, h.ev, h.n)
  BY DEF Calls, Call
<1> QED
  BY <1>1, <1>2 DEF Is

(* A call that is not the first arrival leaves Arrived alone.               *)
LEMMA ArrivedStays ==
  ASSUME Types, BenchAt, NEW op, NEW ev, NEW n, NEW rest,
         Is(BenchCalls, op, ev, n, rest),
         op # "front" \/ n # First,
         BenchCalls' = BenchCalls \/ BenchCalls' = rest
  PROVE  Arrived' = Arrived
<1>1. BenchCalls \in Seq(Calls) /\ BenchCalls # <<>>
  BY BenchHasScript, ScriptsAreSequences, Values DEF Is
<1>2. Head(BenchCalls) # Step("front", First)
  BY DEF Is, Step, Call
<1>3. Step("front", First) \in ToSet(BenchCalls) <=> Step("front", First) \in ToSet(Tail(BenchCalls))
  BY <1>1, <1>2, HeadOrTail
<1>4. Tail(BenchCalls) = rest
  BY DEF Is
<1> QED
  BY <1>3, <1>4 DEF Arrived, BenchCalls

(* When the bench runs it has arrived.                                      *)
LEMMA ArrivedWhenIdle ==
  /\ todo["bench"] = <<>> => Arrived
  /\ \A x : todo["bench"] = N1(x) => (Arrived <=> x # First)
<1>1. todo["bench"] = <<>> => Arrived
  BY DEF Arrived, ToSet
<1>2. ASSUME NEW x, todo["bench"] = N1(x) PROVE Arrived <=> x # First
  <2>1. ToSet(N1(x)) = {Step("front", x)}
    BY DEF ToSet, N1
  <2>2. Step("front", x) = Step("front", First) <=> x = First
    BY DEF Step, Call
  <2> QED
    BY <1>2, <2>1, <2>2 DEF Arrived
<1> QED
  BY <1>1, <1>2

(* A bench that has left does not arrive in the first cycle again.          *)
LEMMA ArrivedWhenCalled ==
  ASSUME NEW c, NEW x, x # First, NEW q, q \in {N6(c, x), E3(c), F4(c)}
  PROVE  Step("front", First) \notin ToSet(q)
<1> USE DEF Step, Notify, WaitFor, Call
<1>1. Step("front", First) \notin ToSet(E3(c))
  BY DEF ToSet, E3
<1>2. Step("front", First) \notin ToSet(F4(c))
  BY DEF ToSet, F4
<1>3. Step("front", First) \notin ToSet(N6(c, x))
  BY DEF ToSet, N6
<1> QED
  BY <1>1, <1>2, <1>3

(* When a step of its own is due.                                           *)
LEMMA OwnCall ==
  ASSUME Types, BenchAt, NEW op, NEW ev, NEW n, NEW rest, Is(BenchCalls, op, ev, n, rest)
  PROVE  /\ op = "front" => BWaits /\ BenchCalls = N1(Target) /\ n = Target /\ rest = <<>>
         /\ op = "end" => BEnd /\ BenchCalls = E1
         /\ op = "gone" => BGone /\ BenchCalls = F1 /\ place = "away"
<1>1. \A x : ScriptFacts(benchCyc, x)
  BY Scripts
<1>2. BenchCalls # <<>>
  BY DEF Is
<1>3. ASSUME NEW o, NEW e, NEW k, NEW r, Is(BenchCalls, o, e, k, r)
      PROVE  o = op /\ k = n /\ r = rest
  BY <1>3 DEF Is, Call
<1>4. CASE BWaits
  BY <1>1, <1>3, <1>4 DEF BWaits, ScriptFacts
<1>5. CASE BFront
  BY <1>1, <1>2, <1>3, <1>5 DEF BFront, ScriptFacts
<1>6. CASE BSettles
  BY <1>1, <1>3, <1>6 DEF BSettles, ScriptFacts
<1>7. CASE BEnd
  BY <1>1, <1>2, <1>3, <1>7 DEF BEnd, ScriptFacts
<1>8. CASE BGone
  <2>1. BGone /\ (BenchCalls = F2(benchCyc) \/ (BenchCalls = F1 /\ place = "away"))
    BY <1>2, <1>8 DEF BGone
  <2>2. CASE BenchCalls = F2(benchCyc)
    <3>1. Is(BenchCalls, "notify", "finishEnd", benchCyc, F1)
      BY <1>1, <2>2 DEF ScriptFacts
    <3> QED
      BY <1>3, <3>1
  <2>3. CASE BenchCalls = F1 /\ place = "away"
    <3>1. Is(BenchCalls, "gone", "none", 0, <<>>)
      BY <1>1, <2>3 DEF ScriptFacts
    <3> QED
      BY <1>3, <2>1, <2>3, <3>1
  <2> QED
    BY <2>1, <2>2, <2>3
<1> QED
  BY <1>4, <1>5, <1>6, <1>7, <1>8 DEF BenchAt

(* The model runs only while the bench does not.                            *)
LEMMA AwayWhenFree ==
  ASSUME HInv, Placed, phase # "abort", SimCalls = <<>>
  PROVE  place \in {"away", "gone"}
<1> USE DEF HInv
<1>1. \A x : ScriptFacts(x, x)
  BY Scripts
<1>2. leaving \/ (FinishEnd = StartSim) \/ (FinishSim = StartSim /\ StartEnd < StartSim)
  <2>1. ASSUME NEW X \in Int, RowBefore(X) PROVE FinishEnd = StartSim
    BY <2>1 DEF RowBefore, Fresh
  <2>2. ASSUME NEW X \in Int, RowMiddle(X) PROVE FinishSim = StartSim /\ StartEnd < StartSim
    BY <1>1, <2>2 DEF RowMiddle, ScriptFacts, Is
  <2>3. ASSUME NEW X \in Int, RowLate(X) PROVE FinishEnd = StartSim
    BY <1>1, <2>3 DEF RowLate, ScriptFacts, Is
  <2> QED
    BY <2>1, <2>2, <2>3 DEF Placed, SimAt
<1>3. ~BFront
  BY <1>2, Values DEF BFront, HInv, BenchAt, BWaits, BSettles, BEnd, BGone
<1>4. ~BEnd
  BY <1>2, Values DEF BEnd
<1> QED
  BY <1>3, <1>4 DEF BenchAt, BWaits, BSettles, BGone

(* The bench arrives when the model has done nothing in this cycle.         *)
LEMMA FrontTime ==
  ASSUME HInv, TInv, phase # "abort", BWaits, BenchCalls = N1(Target)
  PROVE  model = [cyc |-> Target, done |-> 0]
<1> USE DEF HInv, TInv
<1>1. ScriptFacts(benchCyc, Target) /\ \A x : ScriptFacts(x, x)
  BY Scripts
<1>2. StartSim = Target /\ FinishSim < Target /\ ~leaving
  <2>1. BenchCalls # N2(Target) /\ BenchCalls # N3(benchCyc, Target)
    BY <1>1 DEF ScriptFacts, Is, Call
  <2> QED
    BY <2>1 DEF BWaits
<1>3. PICK X \in Int : Before(X) \/ Middle(X) \/ Late(X)
  BY <1>2 DEF Placed
<1>4. ~Before(X) /\ ~Late(X)
  BY <1>2, Values DEF SimAt, RowBefore, RowLate, Fresh
<1>5. X = Target /\ SimCalls # <<>>
  <2>1. RowMiddle(X)
    BY <1>3, <1>4 DEF SimAt
  <2>2. S2(X) # <<>> /\ S1(X) # <<>>
    BY <1>1 DEF ScriptFacts, Is
  <2> QED
    BY <1>2, <2>1, <2>2, Values DEF RowMiddle, Fresh
<1>6. PICK i \in Int : /\ Trig(i, X)
                       /\ \/ phase = "negCur" /\ at > i
                          \/ phase \in {"negNext", "posCur"}
                          \/ phase = "posNext" /\ at <= i
  BY <1>3, <1>4 DEF Middle
<1>7. /\ phase \in {"negCur", "posNext"} /\ phase \in PhaseNames /\ phase \in ToSet(Phases)
      /\ at - 1 \in DOMAIN batch /\ batch[at - 1].who = Trigger
  BY <1>5, PhaseSet DEF Behind, PhaseNames
<1>8. i \in DOMAIN batch /\ i = at - 1 /\ at \in Int
  BY <1>6, <1>7, CurrentEvent DEF Kernel, Trig
<1>9. phase = "negCur"
  BY <1>6, <1>7, <1>8
<1>10. PICK m \in Int : m \in DOMAIN batch /\ ModelInBatch(m) /\ ModelIs(m)
  BY <1>7, ModelPlace
<1>11. i < m /\ batch[i].cyc = curCycle /\ batch[i].cyc = X
  BY <1>6, <1>8, <1>10 DEF ModelInBatch, Trig
<1>12. at <= m
  BY <1>8, <1>11
<1> QED
  BY <1>5, <1>8, <1>9, <1>10, <1>11, <1>12 DEF ModelIs

(* It is let in at the end when the model has settled every signal.         *)
LEMMA EndTime ==
  ASSUME HInv, TInv, phase # "abort", BEnd
  PROVE  model = [cyc |-> benchCyc, done |-> 3]
<1> USE DEF HInv, TInv
<1>1. \A x : ScriptFacts(x, x)
  BY Scripts
<1>2. /\ StartSim = benchCyc /\ FinishSim = benchCyc /\ StartEnd = benchCyc
      /\ FinishEnd < benchCyc /\ ~leaving
  BY DEF BEnd
<1>3. PICK X \in Int : Before(X) \/ Middle(X) \/ Late(X)
  BY <1>2 DEF Placed
<1>4. ~Before(X) /\ ~Middle(X)
  BY <1>2, Values DEF SimAt, RowBefore, RowMiddle, Fresh
<1>5. X = benchCyc /\ SimCalls # <<>>
  <2>1. RowLate(X)
    BY <1>3, <1>4 DEF SimAt
  <2> QED
    BY <1>1, <1>2, <2>1, Values DEF RowLate, ScriptFacts, Is
<1>6. PICK i \in Int : /\ Trig(i, X)
                       /\ \/ phase = "posNext" /\ at > i
                          \/ phase = "long"
                          \/ phase = "next" /\ at <= i
  BY <1>3, <1>4 DEF Late
<1>7. /\ phase \in {"negCur", "posNext"} /\ phase \in PhaseNames /\ phase \in ToSet(Phases)
      /\ at - 1 \in DOMAIN batch /\ batch[at - 1].who = Trigger
  BY <1>5, PhaseSet DEF Behind, PhaseNames
<1>8. i \in DOMAIN batch /\ i = at - 1 /\ at \in Int
  BY <1>6, <1>7, CurrentEvent DEF Kernel, Trig
<1>9. phase = "posNext"
  BY <1>6, <1>7
<1>10. PICK m \in Int : m \in DOMAIN batch /\ ModelInBatch(m) /\ ModelIs(m)
  BY <1>7, ModelPlace
<1>11. i < m /\ batch[i].cyc = curCycle /\ batch[i].cyc = X
  BY <1>6, <1>8, <1>10 DEF ModelInBatch, Trig
<1>12. at <= m
  BY <1>8, <1>11
<1> QED
  BY <1>5, <1>8, <1>9, <1>10, <1>11, <1>12 DEF ModelIs

(* A step of the bench is a step of Lockstep or none.                       *)
LEMMA BenchTurns ==
  ASSUME HInv, TInv, phase # "abort", Bench, UNCHANGED scene
  PROVE  Turns!Next \/ UNCHANGED Turns!vars
<1> USE DEF HInv, TInv
<1>1. ~LongRange /\ LongRange' = LongRange
  BY DEF LongRange
<1>2. ASSUME UNCHANGED <<place, model, benchCyc>>, Arrived' = Arrived
      PROVE  UNCHANGED Turns!vars
  BY <1>1, <1>2 DEF Turns!vars
<1>3. CASE Serialize("bench")
  <2>1. Doing("bench", "notify") \/ Doing("bench", "wait")
    BY <1>3, NoEventCall
  <2>2. BenchCalls \in Seq(Calls) /\ BenchCalls # <<>>
    BY <2>1, BenchHasScript, ScriptsAreSequences, Values DEF Doing, BenchCalls
  <2> DEFINE h == Head(BenchCalls)
  <2>3. h \in Calls /\ Is(BenchCalls, h.op, h.ev, h.n, Tail(BenchCalls))
    BY <2>2, FirstOfCalls
  <2>4. h.op # "front"
    BY <2>1 DEF Doing, BenchCalls
  <2>5. h.ev \in Events /\ h.n \in Int
    BY <2>1, SidesHold DEF Sides, Ev, BenchCalls, Threads
  <2> HIDE DEF h
  <2>6. /\ UNCHANGED <<kernel, bench>>
        /\ BenchCalls' = BenchCalls \/ BenchCalls' = Tail(BenchCalls)
    BY <1>3, <2>3, <2>5, SerializeEffect DEF BenchCalls, Threads
  <2>7. Arrived' = Arrived
    BY <2>3, <2>4, <2>6, ArrivedStays
  <2> QED
    BY <1>2, <2>6, <2>7 DEF kernel, bench
<1>4. CASE BenchStep
  <2>1. BenchCalls # <<>>
    BY <1>4 DEF BenchStep, Doing, BenchCalls
  <2>2. BenchCalls \in Seq(Calls)
    BY <2>1, BenchHasScript, ScriptsAreSequences, Values
  <2>3. PICK op, ev, n, rest : Is(BenchCalls, op, ev, n, rest)
    BY <2>1, <2>2, FirstOfCalls
  <2>4. StepTo(op, n, rest)
    BY <1>4, <2>3, StepEffect
  <2>5. model' = model /\ (op # "front" => Arrived' = Arrived /\ benchCyc' = benchCyc)
    BY <2>3, <2>4, ArrivedStays DEF StepTo, kernel
  <2>6. CASE op \in {"future", "markStop"}
    BY <1>2, <2>4, <2>5, <2>6 DEF StepTo
  <2>7. CASE op = "front"
    <3>1. BWaits /\ BenchCalls = N1(Target)
      BY <2>3, <2>7, OwnCall
    <3>2. model = [cyc |-> Target, done |-> 0]
      BY <3>1, FrontTime
    <3>3. place = "away" /\ place' = "front" /\ benchCyc' = Target /\ BenchCalls' = <<>>
      BY <2>3, <2>4, <2>7, <3>1, OwnCall DEF StepTo, BWaits
    <3>4. Arrived' /\ (Arrived <=> Target # First)
      <4>1. Arrived'
        BY <3>3, ArrivedWhenIdle DEF BenchCalls, Arrived, ToSet
      <4> QED
        BY <3>1, <4>1, ArrivedWhenIdle DEF BenchCalls
    <3>5. Arrived => benchCyc < Target
      BY <3>1, <3>4 DEF BWaits, Target
    <3>6. Turns!Front
      BY <1>1, <2>5, <3>2, <3>3, <3>4, <3>5, Values DEF Turns!Front, First
    <3> QED
      BY <3>6 DEF Turns!Next
  <2>8. CASE op = "end"
    <3>1. BEnd /\ BenchCalls = E1
      BY <2>3, <2>8, OwnCall
    <3>2. model = [cyc |-> benchCyc, done |-> 3]
      BY <3>1, EndTime
    <3>3. place = "away" /\ place' = "end"
      BY <2>1, <2>4, <2>8, <3>1 DEF StepTo, BEnd
    <3>4. Arrived /\ Arrived' /\ benchCyc' = benchCyc
      <4>1. ToSet(E1) = {Step("end", 0)} /\ Step("end", 0) # Step("front", First)
        BY DEF ToSet, E1, Step, Call
      <4> QED
        BY <2>5, <2>8, <3>1, <4>1 DEF Arrived, BenchCalls
    <3>5. Turns!End
      BY <1>1, <2>5, <3>2, <3>3, <3>4 DEF Turns!End
    <3> QED
      BY <3>5 DEF Turns!Next
  <2>9. CASE op = "gone"
    <3>1. place = "away" /\ place' = "gone"
      BY <2>3, <2>4, <2>9, OwnCall DEF StepTo
    <3>2. Turns!Return
      BY <1>1, <2>5, <2>9, <3>1 DEF Turns!Return
    <3> QED
      BY <3>2 DEF Turns!Next
  <2> QED
    BY <2>4, <2>6, <2>7, <2>8, <2>9 DEF StepTo
<1>5. CASE BenchCallsKernel
  <2>0. PICK x \in Int :
          /\ InBench /\ x > benchCyc
          /\ Leave(N6(benchCyc, x)) \/ Leave(E3(benchCyc)) \/ Leave(F4(benchCyc))
    <3>1. \A n \in Strides : benchCyc + n \in Int /\ benchCyc + n > benchCyc
      BY CoSimAssumption DEF Types, Strides
    <3>2. \A n : NextCycle(n) = N6(benchCyc, benchCyc + n)
      BY DEF NextCycle, N6
    <3>3. EndCycle = E3(benchCyc) /\ Finish = F4(benchCyc)
      BY DEF EndCycle, Finish, E3, F4
    <3>4. benchCyc + 1 \in Int /\ benchCyc + 1 > benchCyc
      BY Values
    <3>5. CASE conEndCycle \/ describeConReturns
      BY <3>3, <3>4, <3>5 DEF conEndCycle, describeConReturns
    <3>6. CASE \E n \in Strides : conNextCycle(n)
      <4>1. PICK n \in Strides : InBench /\ Leave(NextCycle(n))
        BY <3>6 DEF conNextCycle
      <4> QED
        BY <3>1, <3>2, <4>1
    <3> QED
      BY <1>5, <3>5, <3>6 DEF BenchCallsKernel
  <2>1. PICK calls :
          /\ InBench /\ Leave(calls) /\ x > benchCyc
          /\ calls \in {N6(benchCyc, x), E3(benchCyc), F4(benchCyc)}
    BY <2>0
  <2>2. /\ place \in {"front", "end"} /\ place' = "away" /\ todo["bench"] = <<>>
        /\ UNCHANGED <<model, benchCyc>> /\ todo'["bench"] = calls
    BY <2>1 DEF InBench, Idle, Leave, kernel, Types, Threads
  <2>3. Arrived
    BY <2>2, ArrivedWhenIdle
  <2>4. Arrived'
    <3>1. x # First
      BY <2>1, Values DEF Types
    <3> QED
      BY <2>1, <2>2, <3>1, ArrivedWhenCalled DEF Arrived
  <2>5. Turns!Leave
    BY <1>1, <2>2, <2>3, <2>4 DEF Turns!Leave
  <2> QED
    BY <2>5 DEF Turns!Next
<1> QED
  BY <1>3, <1>4, <1>5 DEF Bench, BenchCallsKernel

(* So is every step.                                                        *)
LEMMA TurnsStep ==
  ASSUME HInv, TInv, [Next]_vars
  PROVE  [Turns!Next]_(Turns!vars)
<1> USE DEF HInv, TInv
<1>1. ~LongRange /\ LongRange' = LongRange
  BY DEF LongRange, Next, Running, Stopped, vars
<1>2. ASSUME UNCHANGED <<place, model, benchCyc>>, BenchCalls' = BenchCalls
      PROVE  UNCHANGED Turns!vars
  BY <1>1, <1>2 DEF Turns!vars, Arrived, BenchCalls
<1>3. CASE Running /\ Bench
  BY <1>3, BenchTurns DEF Running
<1>4. CASE Running /\ Serialize("sim")
  <2>1. SimSays
    BY <1>4, SimSerialize
  <2>2. model' = model
    BY <1>4 DEF Serialize, Lock, Publish, NotifyAll, WaitPass, Sleep, Unlock, UnlockAgain, kernel
  <2> QED
    BY <1>2, <2>1, <2>2 DEF SimSays
<1>5. CASE Running /\ ControllerStep
  <2>1. /\ UNCHANGED <<place, benchCyc>> /\ BenchCalls' = BenchCalls
    BY <1>5 DEF ControllerStep, StartCycle, LeaveLoop, Join, ModelPart, LongRun, ModelNext,
       TriggerPart, TriggerNext, UserEvent, BenchCalls, bench, Types, Threads
  <2>2. CASE model' = model
    BY <1>2, <2>1, <2>2
  <2>3. CASE ModelPart /\ model' = Tick(model)
    <3>1. place \in {"away", "gone"}
      BY <1>5, <2>3, AwayWhenFree DEF Running, ModelPart, Turn, SimCalls, Idle
    <3>2. Turns!Work
      BY <1>1, <2>1, <2>3, <3>1 DEF Turns!Work, Tick, Arrived, BenchCalls
    <3> QED
      BY <3>2 DEF Turns!Next
  <2> QED
    BY <1>5, <2>2, <2>3, ControllerMovesModel
<1>6. CASE UNCHANGED <<kernel, todo, bench>>
  BY <1>2, <1>6 DEF kernel, bench, BenchCalls
<1> QED
  BY <1>3, <1>4, <1>5, <1>6 DEF Next, Stopped, Sim, ControllerStep, SpuriousWake, vars

(* TakesTurns: the kernel that runs cycle by cycle implements Lockstep: the *)
(* bench runs before the model has done anything in a cycle or when it has  *)
(* settled every signal of it, and the model runs only while the bench is   *)
(* away (SimInterface::conNextCycle, conEndCycle).                          *)
THEOREM TurnsTaken == Spec /\ ~LongRange => TakesTurns
<1>1. Init /\ ~LongRange => HInv /\ TInv
  BY InitHolds, TurnsInit
<1>2. HInv /\ TInv /\ [Next]_vars => HInv' /\ TInv'
  BY StepKeeps, TurnsKept
<1>3. Init /\ ~LongRange => Turns!Init
  <2> SUFFICES ASSUME Init, ~LongRange PROVE Turns!Init
    OBVIOUS
  <2>1. ~Arrived
    <3>1. todo["bench"] = N2(First)
      BY DEF Init, N2, Threads
    <3> QED
      BY <3>1 DEF Arrived, ToSet, N2, WaitFor, Step, Call
  <2> QED
    BY <2>1, CoSimAssumption DEF Turns!Init, Init, LongRange
<1>4. HInv /\ TInv /\ [Next]_vars => [Turns!Next]_(Turns!vars)
  BY TurnsStep
<1> QED
  BY <1>1, <1>2, <1>3, <1>4, PTL DEF Spec, TakesTurns, Turns!Spec

-----------------------------------------------------------------------------
(* User events that find the model where they expect it.  A user event that *)
(* schedules another for its own cycle would come too late, see Punctual.   *)
Punctual == \A k \in DOMAIN User : User[k].by \in DOMAIN User => User[k].at > 0

Prios(e) ==
  /\ e.who = Model => e.prio = ModelPrio
  /\ e.who \in DOMAIN User => e.prio \in {FrontPrio, BackPrio}

(* No assertion has failed, the queue holds later cycles only, and the      *)
(* batch is in the order of the priorities.                                 *)
Timely ==
  /\ Punctual /\ phase # "abort"
  /\ \A e \in queue : e.cyc > curCycle /\ Prios(e)
  /\ phase \in PhaseNames =>
       /\ \A i \in DOMAIN batch : Prios(batch[i])
       /\ \A i, j \in DOMAIN batch : i < j => batch[i].prio >= batch[j].prio

(* A user event meets the model where UserOnTime says.                      *)
LEMMA TimelyMeansOnTime ==
  ASSUME HInv, TInv, Timely
  PROVE  UserOnTime
<1> USE DEF HInv, TInv
<1> SUFFICES ASSUME phase = "negCur", Current.who \in DOMAIN User
             PROVE  model = [cyc  |-> Current.cyc,
                             done |-> IF Current.prio = BackPrio /\ ~LongRange THEN 1 ELSE 0]
  BY DEF UserOnTime, Timely
<1>1. phase \in PhaseNames /\ phase \in ToSet(Phases)
  BY PhaseSet DEF PhaseNames
<1>2. PICK m \in Int : m \in DOMAIN batch /\ ModelInBatch(m) /\ ModelIs(m)
  BY <1>1, ModelPlace
<1>3. at \in 1..Len(batch) /\ m \in 1..Len(batch) /\ DOMAIN batch = 1..Len(batch)
  BY <1>1, <1>2, CurrentEvent
<1>4. Current.cyc = curCycle /\ Current = batch[at]
  BY <1>2, <1>3 DEF ModelInBatch, Current
<1>5. Current.who # Model
  BY CoSimAssumption DEF Types, User, Model
<1>6. at # m
  BY <1>2, <1>4, <1>5 DEF ModelInBatch
<1>7. Current.prio \in {FrontPrio, BackPrio} /\ batch[m].prio = ModelPrio
  BY <1>1, <1>2, <1>3, <1>4 DEF Timely, Prios, ModelInBatch
<1>8. /\ at < m => Current.prio >= ModelPrio
      /\ m < at => ModelPrio >= Current.prio
  BY <1>1, <1>3, <1>4, <1>7 DEF Timely
<1>9. /\ Current.prio = FrontPrio => at < m
      /\ Current.prio = BackPrio => at > m
  BY <1>3, <1>6, <1>8 DEF FrontPrio, BackPrio, ModelPrio
<1>10. /\ at <= m => model = [cyc |-> curCycle, done |-> 0]
       /\ at > m => model = [cyc |-> curCycle, done |-> 1]
  BY <1>2, <1>3 DEF ModelIs
<1> QED
  BY <1>3, <1>4, <1>7, <1>9, <1>10 DEF FrontPrio, BackPrio

(* The bench has fixed the trigger's next cycle, beyond this one.           *)
LEMMA NextIsLater ==
  ASSUME HInv, TInv, Turn(Trigger), phase = "next", ~leaving
  PROVE  future > curCycle
<1> USE DEF HInv, TInv
<1>1. /\ phase \in PhaseNames /\ phase \in ToSet(Phases)
      /\ batch[at].who = Trigger /\ SimCalls = <<>>
  BY PhaseSet DEF PhaseNames, Turn, Current, SimCalls, Idle
<1>2. PICK m \in Int : m \in DOMAIN batch /\ ModelInBatch(m)
  BY <1>1, ModelPlace
<1>3. at \in 1..Len(batch) /\ DOMAIN batch = 1..Len(batch) /\ curCycle \in Int
  BY <1>1, CurrentEvent DEF ModelAt
<1>4. batch[at].cyc = curCycle
  BY <1>2, <1>3 DEF ModelInBatch
<1>5. Late(curCycle)
  BY <1>1, <1>3, <1>4 DEF Late, Trig
<1>6. /\ curCycle >= First /\ StartSim = curCycle /\ FinishSim = curCycle
      /\ FinishEnd = curCycle
  <2>1. RowLate(curCycle)
    BY <1>3, <1>5 DEF SimAt
  <2>2. Z2(curCycle) # <<>> /\ Z1(curCycle) # <<>>
    BY Scripts DEF ScriptFacts, Is
  <2> QED
    BY <1>1, <2>1, <2>2 DEF RowLate
<1>7. BWaits
  BY <1>6, Values DEF BenchAt, BFront, BSettles, BEnd, BGone
<1>8. curCycle < Target
  BY <1>6, <1>7 DEF BWaits
<1> QED
  BY <1>3, <1>6, <1>8, Values DEF Target

(* The events of a later cycle that a step of the loop adds.                *)
LEMMA AddedLater ==
  ASSUME Timely, HInv, phase \in PhaseNames, Advance,
         UNCHANGED <<scene, batch, curCycle>>,
         \A e \in queue' : e \in queue \/ (e.cyc > curCycle /\ Prios(e))
  PROVE  Timely'
<1>1. Punctual' /\ \A e : Prios(e)' = Prios(e)
  BY DEF Timely, Punctual, Prios, User
<1>2. phase' # "abort"
  BY Moves, PhaseSet DEF PhaseNames
<1>3. \A i : Prios(batch[i])' = Prios(batch[i])
  BY DEF Prios, User
<1>4. \A e \in queue' : e.cyc > curCycle' /\ Prios(e)'
  BY <1>1 DEF Timely
<1> QED
  BY <1>1, <1>2, <1>3, <1>4 DEF Timely

LEMMA ScheduledPrios ==
  ASSUME Types, NEW w, NEW c, NEW e \in Scheduled(w, c)
  PROVE  Prios(e)
<1>1. PICK k \in DOMAIN User : e = Event(k, c + User[k].at, User[k].prio)
  BY DEF Scheduled
<1>2. k # Model /\ User[k].prio \in {FrontPrio, BackPrio}
  BY CoSimAssumption DEF Types, User, Model
<1> QED
  BY <1>1, <1>2 DEF Prios, Event

(* The loop takes the events of the next cycle in the order of their        *)
(* priorities.                                                              *)
LEMMA StartCycleTimely ==
  ASSUME HInv, Timely, StartCycle, UNCHANGED scene
  PROVE  Timely'
<1> USE DEF HInv
<1> DEFINE c   == Min(Cycles(queue))
           now == {e \in queue : e.cyc = c}
<1>1. queue \subseteq EventSet /\ IsFiniteSet(queue) /\ queue # {}
  BY DEF Kernel, StartCycle
<1>2. c \in Cycles(queue) /\ \A y \in Cycles(queue) : c <= y
  <2> DEFINE f == [e \in queue |-> e.cyc]
  <2>1. f \in Surjection(queue, Cycles(queue))
    BY DEF Surjection, Cycles
  <2>2. IsFiniteSet(Cycles(queue))
    BY <1>1, <2>1, FS_Surjection
  <2>3. Cycles(queue) \subseteq Int /\ Cycles(queue) # {}
    BY <1>1 DEF Cycles, EventSet
  <2> QED
    BY <2>2, <2>3, MinOfFinite
<1>3. StartCycle
  OBVIOUS
<1>4. c # curCycle =>
        /\ batch' \in Orders(now) /\ queue' = queue \ now /\ curCycle' = c /\ phase' = "negCur"
  BY <1>3 DEF StartCycle
<1> HIDE DEF c
<1>5. c # curCycle
  <2>1. PICK e \in queue : e.cyc = c
    BY <1>2 DEF Cycles
  <2>2. c > curCycle
    BY <2>1 DEF Timely
  <2>3. c \in Int
    BY <1>1, <2>1 DEF EventSet
  <2> QED
    BY <2>2, <2>3
<1>6. now \subseteq EventSet /\ IsFiniteSet(now)
  BY <1>1, FS_Subset
<1>7. \A i \in DOMAIN batch' : batch'[i] \in queue
  BY <1>4, <1>5, <1>6, OrderFacts
<1>8. \A i, j \in DOMAIN batch' : i < j => batch'[i].prio >= batch'[j].prio
  BY <1>4, <1>5 DEF Orders
<1>9. \A e \in queue' : e.cyc > c
  <2>1. \A e \in queue : c <= e.cyc /\ e.cyc \in Int
    BY <1>1, <1>2 DEF Cycles, EventSet
  <2>2. c \in Int
    BY <1>1, <1>2 DEF Cycles, EventSet
  <2> QED
    BY <1>4, <1>5, <2>1, <2>2
<1>10. Punctual' /\ \A e : Prios(e)' = Prios(e)
  BY DEF Timely, Punctual, Prios, User
<1>11. \A i \in DOMAIN batch' : Prios(batch[i])'
  BY <1>7 DEF Timely, Prios, User
<1> QED
  BY <1>4, <1>5, <1>8, <1>9, <1>10, <1>11 DEF Timely

LEMMA ControllerTimely ==
  ASSUME HInv, TInv, Timely, ControllerStep, UNCHANGED scene
  PROVE  Timely'
<1> USE DEF HInv, TInv
<1>1. CASE StartCycle
  BY <1>1, StartCycleTimely
<1>2. CASE LeaveLoop \/ Join
  BY <1>2 DEF LeaveLoop, Join, Timely, Punctual, Prios, User, PhaseNames
<1>3. CASE ModelPart \/ LongRun \/ TriggerPart
  <2>1. phase \in PhaseNames /\ Advance /\ UNCHANGED <<batch, curCycle, queue>>
    BY <1>3, PhaseSet DEF ModelPart, LongRun, TriggerPart, Turn
  <2> QED
    BY <2>1, AddedLater
<1>4. CASE ModelNext
  <2>1. /\ phase \in PhaseNames /\ Advance /\ UNCHANGED <<batch, curCycle>>
        /\ queue' = queue \cup {Event(Model, Current.cyc + 1, ModelPrio)}
    BY <1>4, PhaseSet DEF ModelNext, Turn
  <2>2. Current.cyc = curCycle /\ curCycle \in Int
    BY <2>1, CurrentEvent, PhaseSet, ModelPlace DEF ModelInBatch, Current, ModelAt
  <2>3. /\ Event(Model, curCycle + 1, ModelPrio).cyc > curCycle
        /\ Prios(Event(Model, curCycle + 1, ModelPrio))
    <3>1. Model \notin DOMAIN User
      BY CoSimAssumption DEF Types, User, Model
    <3> QED
      BY <2>2, <3>1 DEF Event, Prios
  <2> QED
    BY <2>1, <2>2, <2>3, AddedLater
<1>5. CASE TriggerNext
  <2>1. /\ phase \in PhaseNames /\ phase = "next" /\ Turn(Trigger)
        /\ UNCHANGED <<batch, curCycle>>
    BY <1>5, PhaseSet DEF TriggerNext, Turn
  <2>2. ~leaving => future > curCycle /\ curCycle \in Int /\ future \in Int
    BY <2>1, NextIsLater DEF ModelAt, Types
  <2>3. CASE leaving
    <3>1. Advance /\ queue' = queue
      BY <1>5, <2>3 DEF TriggerNext
    <3> QED
      BY <2>1, <3>1, AddedLater
  <2>4. CASE ~leaving
    <3>1. Advance /\ queue' = queue \cup {Event(Trigger, future, FrontPrio)}
      BY <1>5, <2>2, <2>4 DEF TriggerNext
    <3>2. Prios(Event(Trigger, future, FrontPrio)) /\ Event(Trigger, future, FrontPrio).cyc = future
      <4>1. Trigger \notin DOMAIN User /\ Trigger # Model
        BY CoSimAssumption DEF Types, User, Trigger, Model
      <4> QED
        BY <4>1 DEF Event, Prios
    <3> QED
      BY <2>1, <2>2, <2>4, <3>1, <3>2, AddedLater
  <2> QED
    BY <2>3, <2>4
<1>6. CASE UserEvent
  <2>1. /\ phase \in PhaseNames /\ Advance /\ UNCHANGED <<batch, curCycle>>
        /\ Current.who \in DOMAIN User
    BY <1>6, PhaseSet DEF UserEvent, Turn
  <2>2. queue' = queue \/ queue' = queue \cup Scheduled(Current.who, Current.cyc)
    BY <1>6 DEF UserEvent
  <2>3. Current.cyc = curCycle /\ curCycle \in Int
    BY <2>1, CurrentEvent, PhaseSet, ModelPlace DEF ModelInBatch, Current, ModelAt
  <2>4. \A e \in Scheduled(Current.who, curCycle) : e.cyc > curCycle /\ Prios(e)
    <3>1. ASSUME NEW e \in Scheduled(Current.who, curCycle)
          PROVE  e.cyc > curCycle
      <4>1. PICK k \in DOMAIN User : /\ User[k].by = Current.who
                                     /\ e = Event(k, curCycle + User[k].at, User[k].prio)
        BY <3>1 DEF Scheduled
      <4>2. User[k].at > 0 /\ User[k].at \in Int
        BY <2>1, <4>1, CoSimAssumption DEF Timely, Punctual, Types, User
      <4> QED
        BY <2>3, <4>1, <4>2 DEF Event
    <3> QED
      BY <3>1, ScheduledPrios
  <2> QED
    BY <2>1, <2>2, <2>3, <2>4, AddedLater
<1> QED
  BY <1>1, <1>2, <1>3, <1>4, <1>5, <1>6 DEF ControllerStep

LEMMA TimelyKept ==
  ASSUME HInv, TInv, Timely, [Next]_vars
  PROVE  Timely'
<1>1. UNCHANGED scene
  BY DEF Next, Running, Stopped, vars
<1>2. CASE ControllerStep
  BY <1>1, <1>2, ControllerTimely
<1>3. CASE UNCHANGED kernel
  BY <1>1, <1>3 DEF kernel, Timely, Punctual, Prios, User
<1>4. CASE \E t \in Threads : Serialize(t)
  BY <1>3, <1>4 DEF Serialize, Lock, Publish, NotifyAll, WaitPass, Sleep, Unlock, UnlockAgain
<1>5. CASE Bench
  BY <1>3, <1>4, <1>5 DEF Bench, Threads, BenchStep, conNextCycle, conEndCycle,
     describeConReturns, Leave
<1> QED
  BY <1>2, <1>3, <1>4, <1>5 DEF Next, Stopped, Sim, ControllerStep, SpuriousWake, vars, Threads

LEMMA TimelyInit == Init /\ ~LongRange /\ Punctual => Timely
<1> SUFFICES ASSUME Init, ~LongRange, Punctual PROVE Timely
  OBVIOUS
<1>1. Types
  BY InitHolds DEF HInv
<1>2. /\ phase = "loop" /\ curCycle = -1
      /\ queue = {Event(Model, 0, ModelPrio), Event(Trigger, First, FrontPrio)}
                   \cup Scheduled(Describe, 0)
  BY DEF Init
<1>3. \A e \in Scheduled(Describe, 0) : e.cyc > -1 /\ Prios(e)
  <2>1. ASSUME NEW e \in Scheduled(Describe, 0) PROVE e.cyc > -1
    <3>1. PICK k \in DOMAIN User : e = Event(k, 0 + User[k].at, User[k].prio)
      BY <2>1 DEF Scheduled
    <3>2. User[k].at \in Nat
      BY <1>1, CoSimAssumption DEF Types, User
    <3> QED
      BY <3>1, <3>2 DEF Event
  <2> QED
    BY <1>1, <2>1, ScheduledPrios
<1>4. /\ Event(Model, 0, ModelPrio).cyc > -1 /\ Prios(Event(Model, 0, ModelPrio))
      /\ Event(Trigger, First, FrontPrio).cyc > -1 /\ Prios(Event(Trigger, First, FrontPrio))
  <2>1. Model \notin DOMAIN User /\ Trigger \notin DOMAIN User /\ Trigger # Model
    BY <1>1, CoSimAssumption DEF Types, User, Trigger, Model
  <2> QED
    BY <2>1 DEF Event, Prios, First
<1> QED
  BY <1>2, <1>3, <1>4 DEF Timely, PhaseNames

(* UserOnTime: in a simulation that runs cycle by cycle, whose events       *)
(* schedule no other for their own cycle, every user event runs in its own  *)
(* cycle and finds the model as far in it as its priority says, and no      *)
(* assertion of the controller fails (simController.cpp 24).                *)
THEOREM EventsOnTime == Spec /\ ~LongRange /\ Punctual => []UserOnTime
<1>1. Init /\ ~LongRange /\ Punctual => HInv /\ TInv /\ Timely
  BY InitHolds, TurnsInit, TimelyInit
<1>2. HInv /\ TInv /\ Timely /\ [Next]_vars => HInv' /\ TInv' /\ Timely'
  BY StepKeeps, TurnsKept, TimelyKept
<1>3. HInv /\ TInv /\ Timely => UserOnTime
  BY TimelyMeansOnTime
<1> QED
  BY <1>1, <1>2, <1>3, PTL DEF Spec
====
