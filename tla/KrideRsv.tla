-------------------------------- MODULE KrideRsv --------------------------------
(***************************************************************************)
(* Reservation stations of the Kride core (rsv.h, orsv.h, irsv.h,          *)
(* search_idx.h).  The stations of the two adders and of the multiplier    *)
(* issue any ready entry (ORsv), those of the branch unit and of the       *)
(* memory unit issue in order (IRsv) and are rings with an allocation      *)
(* pointer and no other: where the ring begins is read off the busy bits.  *)
(*                                                                         *)
(* An entry is a record with at least busy, sortBit, rrftag, spec,         *)
(* specTag and, for each of its two operands, a valid bit (v1, v2) and     *)
(* phyIdx (p1, p2): the value, or the ring entry that will hold it.        *)
(***************************************************************************)
EXTENDS KrideTags, Tables

CONSTANTS ALU_ENT_NUM, MUL_ENT_NUM, LDST_ENT_NUM   (* entries per station   *)

Units == {"alu1", "alu2", "mul", "br", "ls"}
InOrder == {"br", "ls"}

EntNum(u) == CASE u \in {"alu1", "alu2"} -> ALU_ENT_NUM
               [] u = "mul"              -> MUL_ENT_NUM
               [] u = "br"               -> BRANCH_ENT_NUM
               [] u = "ls"               -> LDST_ENT_NUM

ASSUME RsvAssumption == \A u \in Units : PowerOfTwo(EntNum(u))

None == -1

(* The bypass that carries the value an operand waits for, if there is one. *)
(* A bypass is [tag, val]; bps is the set of them in a cycle.               *)
Served(bps, p) == \E b \in bps : b.tag = p
ValueOf(bps, p) == (CHOOSE b \in bps : b.tag = p).val

(* One operand of a busy entry.                                             *)
Wake(e, bps) ==
  LET s1 == e.busy /\ ~e.v1 /\ Served(bps, e.p1)
      s2 == e.busy /\ ~e.v2 /\ Served(bps, e.p2)
  IN  [e EXCEPT !.v1 = @ \/ s1, !.p1 = IF s1 THEN ValueOf(bps, @) ELSE @,
                !.v2 = @ \/ s2, !.p2 = IF s2 THEN ValueOf(bps, @) ELSE @]

(* A cycle of a station: onBypass, onSucPred, onIssue, resetSortBit, then   *)
(* writeEntry (writes: entries by row), then onMisPred.                     *)
(* Mutant: a mispredict leaves the station alone. *)
RsvCycleKeep(t, w, bps, issued, turn, writes) ==
  [i \in DOMAIN t |->
     IF i \in DOMAIN writes THEN writes[i]
     ELSE [Wake(t[i], bps) EXCEPT
             !.busy = @ /\ i # issued,
             !.spec = @ /\ ~CheckIsSuc(w, t[i]),
             !.sortBit = IF turn THEN 0 ELSE @]]

RsvCycle(t, w, bps, issued, turn, writes) ==
  [i \in DOMAIN t |->
     IF i \in DOMAIN writes THEN writes[i]
     ELSE [Wake(t[i], bps) EXCEPT
             !.busy = @ /\ i # issued /\ ~CheckIsKill(w, t[i]),
             !.spec = @ /\ ~CheckIsSuc(w, t[i]),
             !.sortBit = IF turn THEN 0 ELSE @]]

Killed(w) == IF w.mis THEN w.fixTag ELSE {}
-----------------------------------------------------------------------------
(* ORsv *)

(* buildFreeIndex: a free row other than "except".                          *)
FreeIndex(t, except) ==
  LET n == Reduce([op |-> "free", except |-> except], t)
  IN  [busy |-> n.slot.busy, idx |-> n.idx]

(* buildIssue: the row that may go, None if the selected one is not ready.  *)
OIssue(u, t) ==
  LET n == Reduce([op |-> IF u = "mul" THEN "ready" ELSE "oldest"], t)
  IN  IF Ready(n.slot) THEN n.idx ELSE None
-----------------------------------------------------------------------------
(* IRsv *)
Wrap(t, i) == i % Rows(t)

(* The ring goes round its last row: both ends of the table are busy.       *)
RoundTheEnd(t, first, last) == first.idx = 0 /\ last.idx = Rows(t) - 1

(* buildIssue: the row of the oldest entry.                                 *)
CheckIdx(t, allocPtr) ==
  LET b1 == SearchIdx(t, TRUE, "first", {})
      e1 == SearchIdx(t, TRUE, "last", {})
      e0 == SearchIdx(t, FALSE, "last", {})
  IN  CASE ~e0.valid              -> allocPtr
        [] e0.valid /\ RoundTheEnd(t, b1, e1) -> Wrap(t, e0.idx + 1)
        [] OTHER                  -> b1.idx

IIssue(t, allocPtr) ==
  LET i == CheckIdx(t, allocPtr) IN IF Ready(t[i]) THEN i ELSE None

(* onMisPred: the allocation pointer goes behind the youngest survivor.     *)
AllocMisPred(t, allocPtr, killed) ==
  LET b1 == SearchIdx(t, TRUE, "first", killed)
      e1 == SearchIdx(t, TRUE, "last", killed)
      b0 == SearchIdx(t, FALSE, "first", killed)
  IN  CASE ~b0.valid -> allocPtr
        [] b0.valid /\ ~b1.valid -> Wrap(t, 1)
        [] b0.valid /\ b1.valid /\ RoundTheEnd(t, b1, e1) -> b0.idx
        [] OTHER -> Wrap(t, e1.idx + 1)
=============================================================================
