------------------------------ MODULE FlowNode ------------------------------
(***************************************************************************)
(* The one-cycle behaviour of the special registers that flow blocks are   *)
(* compiled to (model/flowBlock/abstract/nodes and .../spReg).             *)
(*                                                                         *)
(* A register collects update events; in a clock cycle the event of the    *)
(* highest priority whose condition holds decides its next value           *)
(* (hwComponent/abstract/updateEvent.h): a set event has priority 100      *)
(* (DEFAULT_UE_PRI_INTERNAL_MAX), a counter increment 99, and unset and    *)
(* user reset 50 (DEFAULT_UE_PRI_INTERNAL_MIN).  Every definition below    *)
(* lists its events from the highest priority to the lowest.               *)
(*                                                                         *)
(*   set   some source node exits in this cycle, with its edge condition   *)
(*   rst   the node's interrupt reset signal                               *)
(*   hold  the node's hold signal                                          *)
(***************************************************************************)
EXTENDS Naturals

(***************************************************************************)
(* StateNode: one bit, up for one cycle per visit.  A held node re-enters  *)
(* itself with the priority of a set event, so a hold also outlives a      *)
(* reset that is raised in the same cycle.                                 *)
(***************************************************************************)
StateExit(s, rst, hold) == s /\ ~rst /\ ~hold

StateNext(s, set, hold) == set \/ (s /\ hold)

(***************************************************************************)
(* WaitCondNode: the bit stays up until its condition is true.             *)
(***************************************************************************)
CondFire(s, cond) == s /\ cond

CondExit(s, cond, rst, hold) == CondFire(s, cond) /\ ~rst /\ ~hold

(* Mutant: the reset does not reach the wait. *)
CondNextNoReset(s, set, cond, rst, hold) ==
  set \/ (CondFire(s, cond) /\ hold) \/ (s /\ ~CondFire(s, cond))

CondNext(s, set, cond, rst, hold) ==
  \/ set
  \/ CondFire(s, cond) /\ hold
  \/ s /\ ~CondFire(s, cond) /\ ~rst

(***************************************************************************)
(* WaitCycleNode: a running bit and a w-bit count that starts at 1 and     *)
(* stops at "end".  The increment outranks the reset on the count bits;    *)
(* the unset event does not look at the hold signal.                       *)
(***************************************************************************)
TimerIdle    == [on |-> FALSE, cnt |-> 0]
TimerStarted == [on |-> TRUE,  cnt |-> 1]

TimerFire(t, end) == t.on /\ t.cnt = end

TimerExit(t, end, rst, hold) == TimerFire(t, end) /\ ~rst /\ ~hold

TimerNext(t, set, end, w, rst, hold) ==
  LET low == IF TimerFire(t, end) \/ rst THEN TimerIdle ELSE t
  IN  IF set THEN TimerStarted
      ELSE IF t.on /\ t.cnt # end /\ ~hold
           THEN [low EXCEPT !.cnt = (t.cnt + 1) % 2^w]
           ELSE low

(* calBitUsed: the width that holds every count up to "max".               *)
TimerWidth(max) == CHOOSE w \in 0..max : 2^w >= max + 1 /\ (w > 0 => 2^(w-1) < max + 1)

(***************************************************************************)
(* CounterNode of a cloop: back to 0 when the loop is entered, one up each *)
(* time the body ends, its end expression true in the last round.          *)
(***************************************************************************)
CounterNext(c, ent, inc, rst, w) ==
  IF ent THEN 0
  ELSE IF inc THEN (c + 1) % 2^w
  ELSE IF rst THEN 0
  ELSE c

CounterEnd(c, rounds) == c = rounds - 1

(***************************************************************************)
(* SynNode: the set "joined" of branches that have arrived.  A branch that *)
(* arrives in this cycle counts at once (the test wire); when the set is   *)
(* full the node exits and forgets all of them.  "force" is the forced     *)
(* exit of one of the branches: it empties the set and masks arrivals.     *)
(***************************************************************************)
SyncArrive(arrive, force) == IF force THEN {} ELSE arrive

SyncFull(joined, arrive, force, branches) ==
  joined \cup SyncArrive(arrive, force) = branches

SyncExit(joined, arrive, force, rst, branches) ==
  SyncFull(joined, arrive, force, branches) /\ ~rst

SyncNext(joined, arrive, force, rst, branches) ==
  IF SyncFull(joined, arrive, force, branches) THEN {}
  ELSE (IF rst \/ force THEN {} ELSE joined) \cup SyncArrive(arrive, force)
=============================================================================
