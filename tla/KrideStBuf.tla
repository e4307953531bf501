------------------------------- MODULE KrideStBuf -------------------------------
(***************************************************************************)
(* Store buffer of the Kride core (storeBuf.h): a ring of stores.  finPtr  *)
(* is where the next store goes, comPtr the next one to be committed,      *)
(* retPtr the next one to be written to the memory.  The code keeps the    *)
(* data in a memory of its own; here it is a field of the row.             *)
(***************************************************************************)
EXTENDS KrideRsv

CONSTANT STBUF_ENT_NUM

ASSUME StBufAssumption == PowerOfTwo(STBUF_ENT_NUM)

StRows == 0..(STBUF_ENT_NUM - 1)
StInc(p) == (p + 1) % STBUF_ENT_NUM

(* s = [ent, finPtr, comPtr, retPtr] *)
StReset ==
  [ent |-> [i \in StRows |->
              [busy |-> FALSE, complete |-> FALSE, spec |-> FALSE,
               specTag |-> 0, mem_addr |-> 0, data |-> 0]],
   finPtr |-> 0, comPtr |-> 0, retPtr |-> 0]

IsFull(s) == s.finPtr = s.retPtr /\ s.ent[s.finPtr].busy

(* searchNewest                                                             *)
StSearch(s, addr) ==
  LET n == Reduce([op |-> "newest", start |-> s.finPtr, addr |-> addr], s.ent)
  IN  [hit |-> n.slot.busy /\ n.slot.mem_addr = addr, data |-> n.slot.data]

(* flow: the row at retPtr wants to be written.                             *)
StRetire(s, w) ==
  s.ent[s.retPtr].busy /\ s.ent[s.retPtr].complete /\ ~w.mis

(* The cycle of the rows: onSucPred, onCommit, retire, onMisPred.           *)
StEnt(s, w, commit, retire) ==
  [i \in StRows |->
     [s.ent[i] EXCEPT
        !.spec = @ /\ ~(w.suc /\ s.ent[i].specTag = w.tag),
        !.complete = (@ \/ (commit /\ i = s.comPtr))
                        /\ ~(retire /\ i = s.retPtr),
        !.busy = @ /\ ~(retire /\ i = s.retPtr)
                   /\ ~CheckIsKill(w, s.ent[i])]]

(* onMisPred: finPtr goes behind the last survivor; an empty buffer starts  *)
(* again where finPtr is.                                                   *)
(* Mutant: finPtr stays where it is. *)
StMisPredKeep(s, killed) ==
  LET e1 == SearchIdx(s.ent, TRUE, "last", killed)
  IN  [s EXCEPT !.comPtr = IF e1.valid THEN @ ELSE s.finPtr,
                !.retPtr = IF e1.valid THEN @ ELSE s.finPtr]

StMisPred(s, killed) ==
  LET b1 == SearchIdx(s.ent, TRUE, "first", killed)
      e1 == SearchIdx(s.ent, TRUE, "last", killed)
      b0 == SearchIdx(s.ent, FALSE, "first", killed)
  IN  [s EXCEPT !.finPtr = CASE ~e1.valid \/ ~b0.valid -> @
                             [] e1.valid /\ b0.valid /\ RoundTheEnd(s.ent, b1, e1)
                                                       -> b0.idx
                             [] OTHER                  -> StInc(e1.idx),
                !.comPtr = IF e1.valid THEN @ ELSE s.finPtr,
                !.retPtr = IF e1.valid THEN @ ELSE s.finPtr]

(* onNewEntry: the store in the first stage of the memory unit.             *)
StNew(s, old, w, src, addr) ==
  [s EXCEPT
     !.ent[old.finPtr] = [busy |-> TRUE, complete |-> FALSE,
                          spec |-> src.spec /\ ~CheckIsSuc(w, src),
                          specTag |-> src.specTag,
                          mem_addr |-> addr, data |-> src.p2],
     !.finPtr = StInc(old.finPtr)]
=============================================================================
