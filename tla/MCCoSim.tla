------------------------------ MODULE MCCoSim ------------------------------
EXTENDS CoSim

UserAt(by, cyc, prio) == [by |-> by, at |-> cyc, prio |-> prio]

(* The reset of describeDef in cycles 0 and 1, an event at the end of cycle *)
(* 3, and one at the start of cycle 2 that schedules another for the next.  *)
Described == << UserAt(Describe, 0, FrontPrio), UserAt(Describe, 1, FrontPrio),
                UserAt(Describe, 3, BackPrio), UserAt(Describe, 2, FrontPrio),
                UserAt(4, 1, FrontPrio) >>

(* The reset, and the reset a callback schedules for where its run ended.   *)
Callbacks == << UserAt(Describe, 0, FrontPrio), UserAt(Describe, 1, FrontPrio),
                UserAt(Model, 0, FrontPrio), UserAt(Model, 1, FrontPrio) >>

Scene(limit, benchLast, strides, user, long) ==
  [limit |-> limit, last |-> benchLast, strides |-> strides, user |-> user, long |-> long]

(* A bench that may visit any cycle up to the limit, beside the events of   *)
(* Described; and long runs of the model, ended by Callbacks.               *)
Within == {Scene(5, 5, {1, 2}, Described, FALSE), Scene(9, 2, {1}, Callbacks, TRUE)}

(* The bench asks for a cycle beyond the limit.                             *)
Beyond == {Scene(3, 4, {1}, Described, FALSE)}
=============================================================================
