------------------------------- MODULE KrideTags -------------------------------
(***************************************************************************)
(* Speculation tags of the Kride core (tagGen.h, mpft.h, broadCast.h).     *)
(* Every branch gets the next tag of a rotating one-hot register when it   *)
(* is decoded; the instructions behind it carry its tag.  A row of the     *)
(* fix table says which tags die when the branch of the row turns out      *)
(* mispredicted.  A one-hot tag is the number of its bit.                  *)
(***************************************************************************)
EXTENDS Integers

CONSTANT BRANCH_ENT_NUM    (* branches that may be unresolved               *)

ASSUME TagAssumption == BRANCH_ENT_NUM \in Nat \ {0}

SPECTAG_LEN == BRANCH_ENT_NUM + 1
Tags == 0..(SPECTAG_LEN - 1)

(* The one-hot register shifted by a bit, with the bit that falls out put   *)
(* in at the other end.                                                     *)
TagAfter(t) == IF t = SPECTAG_LEN - 1 THEN 0 ELSE t + 1
TagBefore(t) == IF t = 0 THEN SPECTAG_LEN - 1 ELSE t - 1

Bit(b) == IF b THEN 1 ELSE 0

(* The state g = [brdepth, tagreg, valid, fixTag] after reset.              *)
TagReset ==
  [brdepth |-> 0, tagreg |-> 0,
   valid |-> [t \in Tags |-> FALSE], fixTag |-> [t \in Tags |-> {}]]

(* The code also counts the branch that succeeds in this cycle, but then    *)
(* the decode stage is held and nobody asks.                                *)
IsAllGenble(g, br1, br2) == g.brdepth + Bit(br1) + Bit(br2) <= BRANCH_ENT_NUM

(* Tags and spec bits of the two instructions of a decode group.            *)
GenTag1(g, br1)      == IF br1 THEN TagAfter(g.tagreg) ELSE g.tagreg
GenTag2(g, br1, br2) == IF br2 THEN TagAfter(GenTag1(g, br1))
                               ELSE GenTag1(g, br1)
GenSpec1(g)          == g.brdepth # 0
GenSpec2(g, br1)     == g.brdepth # 0 \/ br1

(* Mpft::onAddNew: the new branches' own rows, and their tags in the rows   *)
(* of the branches before them.                                             *)
(* Mutant: the first branch of a group does not learn of the second. *)
AddNewApart(g, br1, br2) ==
  LET t1 == GenTag1(g, br1)
      t2 == GenTag2(g, br1, br2)
      new == (IF br1 THEN {t1} ELSE {}) \cup (IF br2 THEN {t2} ELSE {})
  IN  [g EXCEPT
        !.valid  = [t \in Tags |-> @[t] \/ t \in new],
        !.fixTag = [t \in Tags |->
                      IF g.valid[t] THEN @[t] \cup new
                      ELSE IF t \in new THEN {t} ELSE @[t]]]

AddNew(g, br1, br2) ==
  LET t1 == GenTag1(g, br1)
      t2 == GenTag2(g, br1, br2)
      new == (IF br1 THEN {t1} ELSE {}) \cup (IF br2 THEN {t2} ELSE {})
  IN  [g EXCEPT
        !.valid  = [t \in Tags |-> @[t] \/ t \in new],
        !.fixTag = [t \in Tags |->
                      IF g.valid[t] THEN @[t] \cup new
                      ELSE IF br2 /\ t = t2 THEN {t2}
                      ELSE IF br1 /\ t = t1 THEN new ELSE @[t]]]

(* TagGen::allocate and Mpft::onAddNew, when decode hands a group over.     *)
Allocate(g, br1, br2) ==
  [AddNew(g, br1, br2) EXCEPT
     !.tagreg = GenTag2(g, br1, br2), !.brdepth = @ + Bit(br1) + Bit(br2)]

(* TagGen::onSucPred and Mpft::onPredSuc.                                   *)
TagSucPred(g, tag) ==
  [g EXCEPT !.brdepth = @ - 1,
            !.valid[tag] = FALSE,
            !.fixTag = [t \in Tags |-> IF t = tag THEN {} ELSE @[t] \ {tag}]]

(* TagGen::onMisPred and Mpft::onMisPred: the tag before the mispredicted   *)
(* branch is the last one in use again.                                     *)
TagMisPred(g, tag) ==
  [TagReset EXCEPT !.tagreg = TagBefore(tag)]

(* BroadCast.  The wires of the branch unit: w.mis, w.suc, w.tag, w.fixTag. *)
CheckIsKill(w, e) == w.mis /\ e.spec /\ e.specTag \in w.fixTag
CheckIsSuc(w, e)  == w.suc /\ e.spec /\ e.specTag = w.tag
=============================================================================
