------------------------------- MODULE KrideRegs -------------------------------
(***************************************************************************)
(* Registers of the Kride core: the renaming register file, a ring of      *)
(* results shared with the reorder buffer (rrf.h), and the architectural   *)
(* register file with its rename table and one copy of that table for      *)
(* every speculation tag (arf.h).                                          *)
(***************************************************************************)
EXTENDS KrideTags, RvInstr

CONSTANT RRF_NUM   (* entries of the ring: a power of two                  *)

ASSUME RrfAssumption == RRF_NUM \in Nat /\ RRF_NUM >= 4

Ptrs == 0..(RRF_NUM - 1)

(* A pointer of as many bits as the ring needs.                             *)
Inc(p, n) == IF p + n < RRF_NUM THEN p + n ELSE p + n - RRF_NUM

-----------------------------------------------------------------------------
(* Rrf: q = [valid, data, freenum, reqPtr, nextRrfCycle].                   *)

RrfReset ==
  [valid |-> [p \in Ptrs |-> FALSE], data |-> [p \in Ptrs |-> 0],
   freenum |-> RRF_NUM, reqPtr |-> 0, nextRrfCycle |-> FALSE]

IsRenamable(q, need, committed) == q.freenum + committed >= need

(* What may commit: "rem" entries of the ring are waiting.                  *)
RoundOver(q, comPtr) == q.reqPtr < comPtr \/ q.freenum = 0
Rem(q, comPtr) ==
  (IF RoundOver(q, comPtr) THEN RRF_NUM ELSE 0) + q.reqPtr - comPtr

(* onRename and onCommit of one cycle, then the write backs "wb" to entries *)
(* that are not being renamed: [tag |-> entry, val |-> result].             *)
RrfCycle(q, renamed, committed, wb) ==
  LET next == Inc(q.reqPtr, renamed)
      hit(p) == \E b \in wb : b.tag = p
      taken(p) == \E k \in 0..(renamed-1) : p = Inc(q.reqPtr, k)
  IN  [valid |-> [p \in Ptrs |->
                    ~taken(p) /\ (hit(p) \/ q.valid[p])],
       data |-> [p \in Ptrs |->
                   IF hit(p) THEN (CHOOSE b \in wb : b.tag = p).val
                             ELSE q.data[p]],
       freenum |-> q.freenum + committed - renamed,
       reqPtr |-> next,
       nextRrfCycle |-> q.reqPtr > next]

(* onMisPred: the entries behind the branch misRrf are given back.          *)
(* Mutant: a full ring is taken for an empty one. *)
RrfMisPredFull(q, misRrf, comPtr) ==
  LET next == Inc(misRrf, 1)
  IN  [q EXCEPT !.reqPtr = next,
                !.freenum = IF comPtr > next THEN comPtr - next
                                             ELSE RRF_NUM - next + comPtr]

RrfMisPred(q, misRrf, comPtr) ==
  LET next == Inc(misRrf, 1)
  IN  [q EXCEPT !.reqPtr = next,
                !.freenum = IF comPtr >= next THEN comPtr - next
                                              ELSE RRF_NUM - next + comPtr]
-----------------------------------------------------------------------------
(* Arf: a = [reg, busy, rename]; row Master of the tables is the one that   *)
(* decode reads, row t the copy for the branch with tag t.                  *)
Master   == -1
RenRows  == Tags \cup {Master}

ArfReset ==
  [reg |-> [r \in Regs |-> 0],
   busy |-> [t \in RenRows |-> [r \in Regs |-> FALSE]],
   rename |-> [t \in RenRows |-> [r \in Regs |-> 0]]]

(* A commit is [en, ptr, rd, data]: com is the sequence of the two ports.   *)
Matches(c, a, t, r) == c.en /\ c.rd = r /\ a.rename[t][r] = c.ptr

ArfCommit(a, com) ==
  [a EXCEPT
     !.busy = [t \in RenRows |-> [r \in Regs |->
        @[t][r] /\ \A k \in 1..2 : ~Matches(com[k], a, t, r)]],
     !.reg = [r \in Regs |->
        CASE com[2].en /\ com[2].rd = r /\ r # 0 -> com[2].data
          [] com[1].en /\ com[1].rd = r /\ r # 0
             /\ ~(com[2].en /\ com[2].rd = r)     -> com[1].data
          [] OTHER                                -> @[r]]]

(* onRename.  A command is [en, ptr, rd, isBranch, specTag].  A row that    *)
(* belongs to a branch decoded before this group has its copy already; the  *)
(* row of a branch of this group takes the commands up to that branch.      *)
Wants(c, t) == t # Master /\ c.isBranch /\ c.specTag = t

Kept(g, ren, t) ==
  t # Master /\ g.valid[t] /\ ~Wants(ren[1], t) /\ ~Wants(ren[2], t)

(* Mutant: the copy of the first branch takes the second command as well. *)
TakesBoth(g, ren, t, k) == ren[k].en /\ ~Kept(g, ren, t)

Takes(g, ren, t, k) ==
  ren[k].en /\ ~Kept(g, ren, t) /\ (k = 2 => ~Wants(ren[1], t))

ArfRename(a, g, ren) ==
  LET last(t, r) == {k \in 1..2 : Takes(g, ren, t, k) /\ ren[k].rd = r}
  IN  [a EXCEPT
         !.busy = [t \in RenRows |-> [r \in Regs |->
                     @[t][r] \/ last(t, r) # {}]],
         !.rename = [t \in RenRows |-> [r \in Regs |->
                     CASE 2 \in last(t, r) -> ren[2].ptr
                       [] last(t, r) = {1} -> ren[1].ptr
                       [] OTHER            -> @[t][r]]]]

(* onSucPred: the copy of the branch, and the copies that are not in use,   *)
(* become the table again (with the commits of this cycle).                 *)
ArfSucPred(a, g, tag) ==
  LET free(t) == t = tag \/ (t # Master /\ ~g.valid[t])
  IN  [a EXCEPT
         !.busy   = [t \in RenRows |-> IF free(t) THEN @[Master] ELSE @[t]],
         !.rename = [t \in RenRows |-> IF free(t) THEN @[Master] ELSE @[t]]]

(* onMisPred: the copy of the branch becomes every row.                     *)
ArfMisPred(a, tag) ==
  [a EXCEPT !.busy   = [t \in RenRows |-> @[tag]],
            !.rename = [t \in RenRows |-> @[tag]]]
=============================================================================
