---------------------------- MODULE ItemChannel ----------------------------
(***************************************************************************)
(* What a chain of pip/zync stages promises to the program that uses it:   *)
(* a channel.  Items 1, 2, 3, ... enter in order, at most Capacity of them *)
(* are inside at a time, and they leave in order, each at most once.       *)
(* Items inside may be dropped (killSlave/killMaster) only if Lossy.       *)
(***************************************************************************)
EXTENDS Naturals, FiniteSets

CONSTANTS
  Capacity,  (* stages that can hold an item                              *)
  Lossy      (* TRUE iff the program kills stages                         *)

VARIABLES
  next,      (* the item that enters next                                 *)
  inside,    (* the items inside the channel                              *)
  last       (* the item that left last, 0 before the first               *)

vars == <<next, inside, last>>

Init == next = 1 /\ inside = {} /\ last = 0

Oldest(S) == CHOOSE n \in S : \A m \in S : n <= m

(***************************************************************************)
(* In one clock cycle every stage may move, so one item may enter and one  *)
(* may leave, and any set of the others may be dropped.                    *)
(***************************************************************************)
Cycle(enter, leave) ==
  LET kept == IF leave THEN inside \ {Oldest(inside)} ELSE inside
  IN  /\ leave => inside # {}
      /\ last' = IF leave THEN Oldest(inside) ELSE last
      /\ next' = IF enter THEN next + 1 ELSE next
      /\ \E drop \in SUBSET kept :
            /\ drop # {} => Lossy
            /\ inside' = (kept \ drop) \cup (IF enter THEN {next} ELSE {})
      /\ Cardinality(inside') <= Capacity

Next == \E enter, leave \in BOOLEAN : Cycle(enter, leave)

Spec == Init /\ [][Next]_vars
=============================================================================
