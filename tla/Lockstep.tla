------------------------------ MODULE Lockstep ------------------------------
(***************************************************************************)
(* What co-simulation promises to a test bench (SimInterface::describeCon):*)
(* the bench and the model take turns.  The bench runs only at the start   *)
(* of a cycle, before the model has done anything in it, and, if it asks   *)
(* for it, at the end, when the model has settled every signal and not yet *)
(* loaded the registers; and it never visits a cycle twice.  A model that  *)
(* runs whole cycles runs after both visits.                               *)
(***************************************************************************)
EXTENDS Integers

CONSTANT First    (* the first cycle of the bench                           *)

VARIABLES
  place,    (* "away", "front", "end" or "gone": where the bench runs       *)
  cycle,    (* the cycle of its last visit                                  *)
  model,    (* [cyc, done]: the model has done "done" of the four parts of  *)
            (* cycle cyc                                                    *)
  whole     (* TRUE iff the model runs whole cycles, many at a time         *)

vars == <<place, cycle, model, whole>>

Init ==
  /\ place = "away" /\ cycle = First - 1 /\ model = [cyc |-> 0, done |-> 0]
  /\ whole \in BOOLEAN

Work ==
  /\ place \in {"away", "gone"}
  /\ IF whole THEN model'.cyc > model.cyc /\ model'.done = 0
     ELSE model' = IF model.done = 3 THEN [cyc |-> model.cyc + 1, done |-> 0]
                                     ELSE [model EXCEPT !.done = @ + 1]
  /\ UNCHANGED <<place, cycle, whole>>

Front ==
  /\ place = "away"
  /\ model.done = 0 /\ model.cyc > cycle
  /\ place' = "front" /\ cycle' = model.cyc
  /\ UNCHANGED <<model, whole>>

End ==
  /\ place = "away"
  /\ model = [cyc |-> cycle, done |-> IF whole THEN 0 ELSE 3]
  /\ place' = "end"
  /\ UNCHANGED <<cycle, model, whole>>

Leave ==
  /\ place \in {"front", "end"}
  /\ place' = "away"
  /\ UNCHANGED <<cycle, model, whole>>

(* The bench may return while the model already goes on.                    *)
Return ==
  /\ place = "away"
  /\ place' = "gone"
  /\ UNCHANGED <<cycle, model, whole>>

Next == Work \/ Front \/ End \/ Leave \/ Return

Spec == Init /\ [][Next]_vars
=============================================================================
