------------------------------ MODULE FlowNet ------------------------------
(***************************************************************************)
(* The machine the flow blocks of a module are compiled to, clock cycle by *)
(* clock cycle.  A state holds the registers of the network and the inputs *)
(* of the cycle; the wires are functions of it; a step loads all registers *)
(* at once.  The program that runs is chosen in the initial state.         *)
(***************************************************************************)
EXTENDS FlowNode, FlowCompile

CONSTANT Programs     (* a set of programs                                  *)

ASSUME ProgramsAssumption ==
  \A P \in Programs : WellFormed(P) /\ Buildable(P)

VARIABLES
  prog,     (* the program that runs                                        *)
  net,      (* the network it is compiled to                                *)
  start,    (* the module's start node                                      *)
  up,       (* the state and wait registers that are 1                      *)
  timer,    (* timer[b]: the registers of syWait b                          *)
  joined,   (* joined[b]: the branches of par b that wait in its sync node  *)
  cnt,      (* cnt[b]: the counter of cloop b                               *)
  in,       (* the conditions and signals of this cycle                     *)
  on        (* on[n]: the exit expression of node n in this cycle           *)

vars == <<prog, net, start, up, timer, joined, cnt, in, on>>

Blocks         == DOMAIN prog
BlocksOf(role) == {b \in Blocks : <<b, role>> \in net.nodes}
StateNodes     == {n \in net.nodes : n[2] \in {"state", "wait", "waitPrev", "waitNext"}}
Timers         == BlocksOf("timer")
Joins          == BlocksOf("sync")
Counters       == BlocksOf("cnt")

-----------------------------------------------------------------------------
(* Inputs.                                                                  *)

Declaring(sig) == {b \in Blocks : sig \in prog[b].int}

Inputs == [cond  : [UNION {ToSet(prog[b].cond) : b \in Blocks} -> BOOLEAN],
           hold  : SUBSET Declaring("hold"),
           rst   : SUBSET Declaring("rst"),
           start : SUBSET Declaring("start")]

Holding(b)   == net.holds[b] \cap in.hold # {}
Resetting(b) == net.rsts[b] \cap in.rst # {}

(* The registers of the flow that stand for a token.                        *)
Tokens == {n[1] : n \in up} \cup {b \in Timers : timer[b].on}
            \cup {b \in Joins : joined[b] # {}}

Active(b) == \E t \in Tokens : b \in net.around[t]

(* A program raises a start interrupt only where nothing runs or everything *)
(* that runs is reset in the same cycle; of the conditions of a pick one    *)
(* holds, or none if it has a pickDef.                                      *)
Disciplined ==
  /\ in.start # {} => /\ ~start
                      /\ \A t \in Tokens : Resetting(t) /\ ~Holding(t)
  /\ \A b \in Blocks : prog[b].kind = "pick" =>
       Cardinality({c \in ToSet(prog[b].cond) : in.cond[c]}) \in {1, 1 - prog[b].n}

-----------------------------------------------------------------------------
(* Wires.                                                                   *)

Branches(b) == DOMAIN prog[b].sub

CounterWidth(rounds) == CHOOSE w \in 0..rounds : 2^w <= 2*rounds - 1 /\ 2*rounds - 1 < 2^(w+1)

(* Mutant: no state node is held. *)
NeverHeld(b) == FALSE

(* sbreak's state and a loop's counter take no hold (cbreak.cpp 59-65,      *)
(* loop.cpp 55-57); nor does a sync node.                                   *)
NodeHeld(b) == Holding(b) /\ prog[b].kind # "sbreak"

(* val[n] is the exit expression of node n.                                 *)
Triggers(val, e) ==
  /\ \A s \in e.from : val[s]
  /\ \A s \in e.not  : ~val[s]
  /\ \A l \in e.when : in.cond[l[1]] = l[2]

Forced(val, b)   == <<b, "force">> \in net.nodes /\ val[<<b, "force">>]
Arriving(val, b) == {i \in Branches(b) : val[net.wrap[prog[b].sub[i]].exit]}

(* The exit expressions (getExitOpr) settle: registers first, then the      *)
(* gates that read them.                                                    *)
Settled ==
  LET val[n \in net.nodes] ==
        LET b == n[1]
        IN  CASE n[2] = "state" -> StateExit(n \in up, Resetting(b), NodeHeld(b))
              [] n[2] = "wait"  -> CondExit(n \in up, in.cond[prog[b].cond[1]],
                                            Resetting(b), NodeHeld(b))
              [] n[2] = "waitPrev" -> StateExit(n \in up, FALSE, FALSE)
              [] n[2] = "waitNext" -> StateExit(n \in up, Resetting(b), NodeHeld(b))
              [] n[2] = "waitUp"   -> <<b, "waitNext">> \in up
              [] n[2] = "timer" -> TimerExit(timer[b], prog[b].n, Resetting(b), NodeHeld(b))
              [] n[2] = "cnt"   -> CounterEnd(cnt[b], prog[b].n)
              [] n[2] = "start" -> IF b = 0 THEN start ELSE b \in in.start
              [] n[2] = "zero"  -> FALSE
              [] n[2] = "sync"  -> SyncExit(joined[b], Arriving(val, b), Forced(val, b),
                                            Resetting(b), Branches(b))
              [] n[2] \in GateRoles -> \E e \in net.into[n] : Triggers(val, e)
  IN  [n \in net.nodes |-> val[n]]

Exits(n)  == on[n]
EdgeOn(e) == Triggers(on, e)
Set(n)    == \E e \in net.into[n] : EdgeOn(e)

-----------------------------------------------------------------------------
(* One clock cycle.                                                         *)

NextState(n) ==
  LET b == n[1]
  IN  IF n[2] \in {"state", "waitNext"} THEN StateNext(n \in up, Set(n), NodeHeld(b))
      ELSE IF n[2] = "waitPrev" THEN StateNext(n \in up, Set(n), FALSE)
      ELSE CondNext(n \in up, Set(n), in.cond[prog[b].cond[1]], Resetting(b), NodeHeld(b))

NextTimer(b) ==
  TimerNext(timer[b], Set(<<b, "timer">>), prog[b].n, TimerWidth(prog[b].n),
            Resetting(b), NodeHeld(b))

NextJoined(b) ==
  SyncNext(joined[b], Arriving(on, b), Forced(on, b), Resetting(b), Branches(b))

(* The counter has no reset (loop.cpp 55-57); entry sets it back.           *)
NextCount(b) ==
  CounterNext(cnt[b], Exits(<<b, "ent">>), Exits(net.wrap[prog[b].sub[1]].exit), FALSE,
              CounterWidth(prog[b].n))

Tick ==
  /\ up'     = {n \in StateNodes : NextState(n)}
  /\ timer'  = [b \in Timers |-> NextTimer(b)]
  /\ joined' = [b \in Joins |-> NextJoined(b)]
  /\ cnt'    = [b \in Counters |-> NextCount(b)]
  /\ start'  = FALSE
  /\ UNCHANGED <<prog, net>>

Init ==
  /\ prog \in Programs
  /\ net    = Compile(prog)
  /\ start  = TRUE
  /\ up     = {}
  /\ timer  = [b \in Timers |-> TimerIdle]
  /\ joined = [b \in Joins |-> {}]
  /\ cnt    = [b \in Counters |-> 0]
  /\ in \in Inputs
  /\ Disciplined
  /\ on = Settled

Next ==
  /\ Tick
  /\ in' \in Inputs
  /\ Disciplined'
  /\ on' = Settled'

Spec == Init /\ [][Next]_vars

-----------------------------------------------------------------------------
(* Properties.                                                              *)

(* Every register of the network holds a value of its width.                *)
TypeOK ==
  /\ start \in BOOLEAN
  /\ up \subseteq StateNodes
  /\ \A b \in Timers : timer[b].on \in BOOLEAN /\ timer[b].cnt < 2^TimerWidth(prog[b].n)
  /\ \A b \in Joins : joined[b] \subseteq Branches(b) /\ joined[b] # Branches(b)
  /\ \A b \in Counters : cnt[b] < 2^CounterWidth(prog[b].n)
  /\ in \in Inputs
  /\ on \in [net.nodes -> BOOLEAN]

Parallel(b) == prog[b].kind \in {"par", "parMan", "stream"}

(* A parMan exits with each of its branches, a par with a join master with  *)
(* that branch; everything else is left by all of it at once.               *)
Joining(b) ==
  \A k \in Blocks : b \in net.around[k] =>
     prog[k].kind # "parMan" /\ (prog[k].kind = "par" => prog[k].n = 0)

(* Control of a block that is not parallel is in one place: two of its      *)
(* children never run at the same time, nor a child beside its own state.   *)
OnePlace ==
  \A b \in Blocks : ~Parallel(b) /\ Joining(b) =>
     Cardinality({k \in ToSet(prog[b].sub) : Active(k)})
       + Cardinality({n \in up : n[1] = b}) <= 1

(* The parent enters b, or the program starts it, in this cycle.            *)
Entered(b) ==
  \E n \in net.wrap[b].ent : \E e \in net.into[n] :
     /\ EdgeOn(e)
     /\ e.from = {<<e.by, "start">>} \/ e.by = 0 \/ b \notin net.around[e.by]

ForcedOut(b) == \E f \in net.wrap[b].force : Exits(f)
Left(b)      == Exits(net.wrap[b].exit) \/ ForcedOut(b)

(* When a joining block is left nothing of it stays behind: a par does not     *)
(* exit before its last branch, a forced exit takes every state with it, a  *)
(* sync node forgets whom it has seen.                                      *)
LeavesNothing ==
  [][ \A b \in Blocks : Left(b) /\ ~Entered(b) /\ Joining(b) => ~Active(b)' ]_vars

(* Only an exit or a reset ends a block, and only a block that runs or is    *)
(* being entered exits: no token is lost on the way and none appears.       *)
NoTokenLost ==
  [][ \A b \in Blocks :
        /\ (Active(b) \/ Entered(b)) /\ ~Left(b) /\ Joining(b)
             => Active(b)' \/ \E a \in Blocks : Resetting(a)
        /\ Left(b) => Active(b) \/ Entered(b) ]_vars

(* A reset that reaches b empties it in one cycle, unless b is entered or   *)
(* something in it is held or started in that cycle.                        *)
ResetEmpties ==
  [][ \A b \in Blocks :
        /\ Resetting(b) /\ ~Entered(b)
        /\ \A k \in Blocks : b \in net.around[k] => ~Holding(k) /\ k \notin in.start
        => ~Active(b)' ]_vars

(* "the hold signal supposed to hold the state without execute it"          *)
(* (flowBlock_Base.h 114): no node in a held block exits, and unless it is  *)
(* reset every token in it stays where it is.                               *)
HoldFreezes ==
  [][ \A b \in Blocks : Holding(b) =>
        /\ \A role \in {"state", "wait", "timer"} : <<b, role>> \in net.nodes => ~Exits(<<b, role>>)
        /\ ~Resetting(b) =>
             /\ \A n \in up : n[1] = b => n \in up'
             /\ b \in Timers => timer'[b] = timer[b] ]_vars

(* The conditions stop in favour of an exit and the signals stay silent.    *)
Easy ==
  /\ in.hold = {} /\ in.rst = {} /\ in.start = {}
  /\ \A b \in Blocks : \A c \in ToSet(prog[b].cond) :
       /\ prog[b].kind \in {"cwhile", "swhile", "cdowhile"} => ~in.cond[c]
       /\ prog[b].kind = "scWait" => in.cond[c]
       /\ prog[b].kind \in {"cif", "sif"} /\ net.wrap[b].force # {} => in.cond[c]

(* Nothing is held in a cycle in which something is reset.  A state node     *)
(* outlives a reset while it is held, a condition wait beside it does not   *)
(* (stateNode.h 61-81), and their par waits for ever.                       *)
Apart == in.hold = {} \/ in.rst = {}

InStream(b) == \E a \in net.around[b] : prog[a].kind = "stream"

(* The last element of every pipStream that runs passes an item on.         *)
StreamsDeliver ==
  \A b \in Blocks : prog[b].kind = "stream" /\ Active(b) =>
     on[<<prog[b].sub[Len(prog[b].sub)], "synced">>]

(* From every state it can reach, a program whose conditions become and     *)
(* stay favourable comes to its end, or goes on delivering items if it is a *)
(* pipStream: no join and no element waits for ever.                        *)
Drains ==
  []Apart /\ <>[]Easy =>
    <>[](\A b \in Tokens : InStream(b)) /\ []<>StreamsDeliver
-----------------------------------------------------------------------------
(* A clock on every block whose summary claims a number of cycles: how long *)
(* ago the block was entered.  The clock only watches.                      *)

VARIABLE age     (* age[b]: cycles since b was entered, 0 when b is left    *)

Claimed(b) == net.wrap[b].cyc

(* The blocks that claim a length and that no signal can hold; finding      *)
(* hold_branch is about the others.                                         *)
Timed ==
  {b \in Blocks : /\ Claimed(b) # Unknown
                  /\ \A k \in Blocks : b \in net.around[k] => net.holds[k] = {}}

NextAge(b) ==
  IF Entered(b) THEN 1
  ELSE IF age[b] = 0 \/ Left(b) \/ Resetting(b) \/ age[b] > Claimed(b) THEN 0
  ELSE age[b] + 1

TInit == Init /\ age = [b \in Timed |-> 0]

TNext == Next /\ age' = [b \in Timed |-> NextAge(b)]

TSpec == TInit /\ [][TNext]_<<vars, age>>

(* The simulated clock goes on as long as simStart runs.                    *)
FairSpec == TSpec /\ WF_<<vars, age>>(TNext)

(* "x > 0 means these sub flow block use x cycle to complete their work     *)
(* equally" (nodeWrap.h 148-152): a block of x cycles exits in the x-th     *)
(* cycle after its entry and in no other.                                   *)
CyclesExact ==
  \A b \in Timed : ~Resetting(b) => (Left(b) <=> age[b] = Claimed(b))
=============================================================================
