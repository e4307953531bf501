------------------------------ MODULE RingProofs ------------------------------
(***************************************************************************)
(* What the Kride core uses again and again and must not lose count of, for *)
(* every size of the core.  Speculation tags are used in order and the fix  *)
(* table is exact; the count of free entries of the ring is right.          *)
(***************************************************************************)
EXTENDS TagRing, RrfRing, TLAPS

LEMMA Size == BRANCH_ENT_NUM \in Nat /\ BRANCH_ENT_NUM >= 1
  BY TagAssumption

LEMMA ResetRight == TagInit => TagsRight
<1> SUFFICES ASSUME TagInit PROVE TagsRight
  OBVIOUS
<1>1. /\ g \in TagType
      /\ g.brdepth = 0 /\ g.tagreg = 0
      /\ \A t \in Tags : g.valid[t] = FALSE /\ g.fixTag[t] = {}
  BY Size DEF TagInit, TagReset, TagType, Tags, SPECTAG_LEN
<1>2. ASSUME NEW t \in Tags PROVE ~(Behind(t) < g.brdepth)
  BY <1>1, Size DEF Behind, Tags, SPECTAG_LEN
<1> QED
  BY <1>1, <1>2 DEF TagsRight

(* The tag register of the next cycle moves every tag back by the number of *)
(* branches that were decoded.                                              *)
LEMMA Moves ==
  ASSUME TagsRight, NEW n \in 0..2, n <= BRANCH_ENT_NUM,
         g'.tagreg = IF n = 0 THEN g.tagreg
                     ELSE IF n = 1 THEN TagAfter(g.tagreg)
                     ELSE TagAfter(TagAfter(g.tagreg)),
         NEW t \in Tags
  PROVE  /\ Behind(t) \in Tags
         /\ Behind(t)' = IF Behind(t) + n < SPECTAG_LEN THEN Behind(t) + n
                         ELSE Behind(t) + n - SPECTAG_LEN
<1> DEFINE r == g.tagreg
           s == g'.tagreg
<1>1. r \in 0..BRANCH_ENT_NUM
  BY Size DEF TagsRight, TagType, Tags, SPECTAG_LEN
<1>2. t \in 0..BRANCH_ENT_NUM /\ SPECTAG_LEN = BRANCH_ENT_NUM + 1
  BY Size DEF Tags, SPECTAG_LEN
<1>3. s = IF r + n <= BRANCH_ENT_NUM THEN r + n ELSE r + n - SPECTAG_LEN
  BY <1>1, <1>2, Size DEF TagAfter
<1>4. /\ Behind(t) = IF t <= r THEN r - t ELSE r - t + SPECTAG_LEN
      /\ Behind(t)' = IF t <= s THEN s - t ELSE s - t + SPECTAG_LEN
  BY DEF Behind
<1>5. Behind(t) \in Tags
  BY <1>1, <1>2, <1>4, Size DEF Tags
<1> HIDE DEF r, s
<1>6. Behind(t)' = IF Behind(t) + n < SPECTAG_LEN THEN Behind(t) + n
                   ELSE Behind(t) + n - SPECTAG_LEN
  BY <1>1, <1>2, <1>3, <1>4, Size
<1> QED
  BY <1>5, <1>6

(* A decoded group with none, one or two branches, in either lane.          *)
LEMMA DecodedKeeps ==
  ASSUME TagsRight, NEW br1 \in BOOLEAN, NEW br2 \in BOOLEAN, Decoded(br1, br2)
  PROVE  TagsRight'
<1> DEFINE t1  == GenTag1(g, br1)
           t2  == GenTag2(g, br1, br2)
           n   == Bit(br1) + Bit(br2)
           new == (IF br1 THEN {t1} ELSE {}) \cup (IF br2 THEN {t2} ELSE {})
           a   == AddNew(g, br1, br2)
<1>0. g \in TagType /\ g.brdepth \in 0..BRANCH_ENT_NUM /\ g.tagreg \in Tags
  BY DEF TagsRight, TagType
<1>1. n \in 0..2 /\ g.brdepth + n <= BRANCH_ENT_NUM
  <2>1. g.brdepth \in Int
    BY <1>0, Size
  <2> QED
    BY <2>1, Size DEF Decoded, IsAllGenble, Bit
<1>2. /\ a.brdepth = g.brdepth
      /\ a.valid = [t \in Tags |-> g.valid[t] \/ t \in new]
      /\ a.fixTag = [t \in Tags |->
                      IF g.valid[t] THEN g.fixTag[t] \cup new
                      ELSE IF br2 /\ t = t2 THEN {t2}
                      ELSE IF br1 /\ t = t1 THEN new ELSE g.fixTag[t]]
      /\ a = [brdepth |-> a.brdepth, tagreg |-> a.tagreg,
              valid |-> a.valid, fixTag |-> a.fixTag]
  <2> DEFINE v == [t \in Tags |-> g.valid[t] \/ t \in new]
             f == [t \in Tags |->
                      IF g.valid[t] THEN g.fixTag[t] \cup new
                      ELSE IF br2 /\ t = t2 THEN {t2}
                      ELSE IF br1 /\ t = t1 THEN new ELSE g.fixTag[t]]
  <2>1. a = [g EXCEPT !.valid = v, !.fixTag = f]
    BY DEF AddNew
  <2> HIDE DEF a, v, f, new, t1, t2
  <2>2. g = [brdepth |-> g.brdepth, tagreg |-> g.tagreg,
             valid |-> g.valid, fixTag |-> g.fixTag]
    BY <1>0 DEF TagType
  <2>3. /\ a.brdepth = g.brdepth /\ a.valid = v /\ a.fixTag = f
        /\ a = [brdepth |-> a.brdepth, tagreg |-> a.tagreg,
                valid |-> a.valid, fixTag |-> a.fixTag]
    BY <2>1, <2>2
  <2> QED
    BY <2>3 DEF v, f, new
<1>3. /\ g' = [brdepth |-> g.brdepth + n, tagreg |-> t2,
               valid |-> a.valid, fixTag |-> a.fixTag]
  <2>1. g' = [a EXCEPT !.tagreg = t2, !.brdepth = @ + Bit(br1) + Bit(br2)]
    BY DEF Decoded, Allocate
  <2>2. a.brdepth + Bit(br1) + Bit(br2) = g.brdepth + n
    BY <1>0, <1>2, Size DEF Bit
  <2> HIDE DEF a, t2, n
  <2> QED
    BY <1>2, <2>1, <2>2
<1>4. t2 = IF n = 0 THEN g.tagreg
            ELSE IF n = 1 THEN TagAfter(g.tagreg) ELSE TagAfter(TagAfter(g.tagreg))
  BY DEF GenTag1, GenTag2, Bit
<1>5. /\ g'.tagreg = t2 /\ g'.brdepth = g.brdepth + n
      /\ g'.valid = a.valid /\ g'.fixTag = a.fixTag
  BY <1>3
<1>6. ASSUME NEW t \in Tags
      PROVE  /\ Behind(t) \in Tags
             /\ Behind(t)' = IF Behind(t) + n < SPECTAG_LEN THEN Behind(t) + n
                             ELSE Behind(t) + n - SPECTAG_LEN
  <2>1. n <= BRANCH_ENT_NUM
    BY <1>0, <1>1, Size
  <2> HIDE DEF n, t2, a
  <2> QED
    BY <1>1, <1>4, <1>5, <2>1, Moves
<1>7. ASSUME NEW t \in Tags
      PROVE  /\ br2 => (t = t2 <=> Behind(t)' = 0)
             /\ br1 => (t = t1 <=> Behind(t)' = n - 1)
             /\ t \in new <=> Behind(t)' < n
  <2>1. g.tagreg \in 0..BRANCH_ENT_NUM /\ SPECTAG_LEN = BRANCH_ENT_NUM + 1
        /\ t \in 0..BRANCH_ENT_NUM /\ Behind(t)' \in 0..BRANCH_ENT_NUM
    <3> HIDE DEF n
    <3> QED BY <1>0, <1>1, <1>6, Size DEF Tags, SPECTAG_LEN
  <2>2. Behind(t)' = IF t <= t2 THEN t2 - t ELSE t2 - t + SPECTAG_LEN
    BY <1>5 DEF Behind
  <2>3. CASE ~br1 /\ ~br2
    BY <2>1, <2>3 DEF Bit
  <2>4. CASE br1 /\ ~br2
    <3>1. n = 1 /\ t2 = t1 /\ t1 = TagAfter(g.tagreg) /\ new = {t1}
      BY <2>4 DEF GenTag1, GenTag2, Bit
    <3> HIDE DEF n, t1, t2, new
    <3> QED BY <2>1, <2>2, <2>4, <3>1, Size DEF TagAfter
  <2>5. CASE ~br1 /\ br2
    <3>1. n = 1 /\ t2 = TagAfter(g.tagreg) /\ new = {t2}
      BY <2>5 DEF GenTag1, GenTag2, Bit
    <3> HIDE DEF n, t1, t2, new
    <3> QED BY <2>1, <2>2, <2>5, <3>1, Size DEF TagAfter
  <2>6. CASE br1 /\ br2
    <3>1. n = 2 /\ t1 = TagAfter(g.tagreg) /\ t2 = TagAfter(t1) /\ new = {t1, t2}
      BY <2>6 DEF GenTag1, GenTag2, Bit
    <3>2. BRANCH_ENT_NUM >= 2
      BY <1>0, <1>1, <3>1, Size
    <3> HIDE DEF n, t1, t2, new
    <3>3. t1 \in 0..BRANCH_ENT_NUM /\ t2 \in 0..BRANCH_ENT_NUM
      BY <2>1, <3>1, Size DEF TagAfter
    <3>4. t1 = IF t2 = 0 THEN BRANCH_ENT_NUM ELSE t2 - 1
      BY <2>1, <3>1, <3>3, Size DEF TagAfter
    <3>5. t = t2 <=> Behind(t)' = 0
      BY <2>1, <2>2, <3>3, Size
    <3>6. t = t1 <=> Behind(t)' = 1
      BY <2>1, <2>2, <3>2, <3>3, <3>4, Size
    <3>7. Behind(t)' < 2 <=> Behind(t)' = 0 \/ Behind(t)' = 1
      BY <2>1, Size
    <3> QED BY <3>1, <3>5, <3>6, <3>7
  <2> QED
    BY <2>3, <2>4, <2>5, <2>6
<1> HIDE DEF a, n, t1, t2, new
<1>10. /\ g.brdepth \in 0..BRANCH_ENT_NUM /\ g.brdepth + n <= BRANCH_ENT_NUM
       /\ \A t \in Tags :
            /\ Behind(t) \in 0..BRANCH_ENT_NUM
            /\ Behind(t)' = IF Behind(t) + n <= BRANCH_ENT_NUM THEN Behind(t) + n
                            ELSE Behind(t) + n - BRANCH_ENT_NUM - 1
  BY <1>0, <1>1, <1>6, Size DEF Tags, SPECTAG_LEN
<1>8. ASSUME NEW t \in Tags
      PROVE  g'.valid[t] <=> Behind(t)' < g'.brdepth
  <2>1. g'.valid[t] <=> g.valid[t] \/ t \in new
    BY <1>2, <1>5
  <2>2. g.valid[t] <=> Behind(t) < g.brdepth
    BY DEF TagsRight
  <2>3. Behind(t)' < g.brdepth + n <=> Behind(t) < g.brdepth \/ Behind(t)' < n
    BY <1>1, <1>10, Size
  <2> QED
    BY <1>5, <1>7, <2>1, <2>2, <2>3
<1>9. ASSUME NEW t \in Tags
      PROVE  g'.fixTag[t] = IF g'.valid[t]
                              THEN {u \in Tags : Behind(u)' <= Behind(t)'} ELSE {}
  <2>1. g'.fixTag[t] = IF g.valid[t] THEN g.fixTag[t] \cup new
                       ELSE IF br2 /\ t = t2 THEN {t2}
                       ELSE IF br1 /\ t = t1 THEN new ELSE g.fixTag[t]
    BY <1>2, <1>5
  <2>2. g.valid[t] <=> Behind(t) < g.brdepth
    BY DEF TagsRight
  <2>3. CASE g.valid[t]
    <3>1. ASSUME NEW u \in Tags
          PROVE  Behind(u)' <= Behind(t)' <=> Behind(u) <= Behind(t) \/ Behind(u)' < n
      BY <1>1, <1>10, <2>2, <2>3, Size
    <3>2. g.fixTag[t] = {u \in Tags : Behind(u) <= Behind(t)}
      BY <2>3 DEF TagsRight
    <3>3. g'.valid[t]
      BY <1>2, <1>5, <2>3
    <3>5. g'.fixTag[t] = g.fixTag[t] \cup new
      BY <2>1, <2>3
    <3>4. new \subseteq Tags
      BY <1>0, Size DEF new, t1, t2, GenTag1, GenTag2, TagAfter, Tags, SPECTAG_LEN
    <3> QED
      BY <1>7, <3>1, <3>2, <3>3, <3>4, <3>5
  <2>4. CASE ~g.valid[t] /\ t \in new
    <3>1. g'.valid[t]
      BY <1>2, <1>5, <2>4
    <3>2. CASE br2 /\ t = t2
      <4>1. g'.fixTag[t] = {t2}
        BY <2>1, <2>4, <3>2
      <4>3. Behind(t)' = 0
        BY <1>7, <3>2
      <4>2. ASSUME NEW u \in Tags PROVE Behind(u)' <= 0 <=> u = t2
        BY <1>7, <1>10, <1>1, <3>2, Size
      <4> QED BY <3>1, <3>2, <4>1, <4>2, <4>3
    <3>3. CASE ~(br2 /\ t = t2)
      <4>1. br1 /\ t = t1
        BY <2>4, <3>3 DEF new
      <4>2. g'.fixTag[t] = new /\ Behind(t)' = n - 1
        BY <1>7, <2>1, <2>4, <3>3, <4>1
      <4>3. ASSUME NEW u \in Tags PROVE Behind(u)' <= n - 1 <=> u \in new
        BY <1>7, <1>10, <1>1, Size
      <4>4. new \subseteq Tags
        BY <1>0, Size DEF new, t1, t2, GenTag1, GenTag2, TagAfter, Tags, SPECTAG_LEN
      <4> QED BY <3>1, <4>2, <4>3, <4>4
    <3> QED BY <3>2, <3>3
  <2>5. CASE ~g.valid[t] /\ t \notin new
    <3>1. ~g'.valid[t]
      BY <1>2, <1>5, <2>5
    <3>2. g.fixTag[t] = {}
      BY <2>5 DEF TagsRight
    <3>3. ~(br2 /\ t = t2) /\ ~(br1 /\ t = t1)
      BY <2>5 DEF new
    <3> QED BY <2>1, <2>5, <3>1, <3>2, <3>3
  <2> QED
    BY <2>3, <2>4, <2>5
<1>11. g' \in TagType
  <2>1. t2 \in Tags
    BY <1>0, Size DEF t2, GenTag1, GenTag2, TagAfter, Tags, SPECTAG_LEN
  <2>2. new \subseteq Tags
    BY <1>0, Size DEF new, t1, t2, GenTag1, GenTag2, TagAfter, Tags, SPECTAG_LEN
  <2>3. a.valid \in [Tags -> BOOLEAN] /\ a.fixTag \in [Tags -> SUBSET Tags]
    <3>1. g.valid \in [Tags -> BOOLEAN] /\ g.fixTag \in [Tags -> SUBSET Tags]
      BY <1>0 DEF TagType
    <3> QED BY <1>2, <2>2, <3>1 DEF new
  <2>4. g.brdepth + n \in 0..BRANCH_ENT_NUM
    BY <1>0, <1>1, Size
  <2> QED
    BY <1>3, <2>1, <2>3, <2>4 DEF TagType
<1> QED
  BY <1>8, <1>9, <1>11 DEF TagsRight

(* The branch that waits longest was predicted right: its tag is free.      *)
LEMMA SucPredKeeps ==
  ASSUME TagsRight, NEW t \in Tags, Oldest(t), g' = TagSucPred(g, t)
  PROVE  TagsRight'
<1>1. /\ g \in TagType /\ g.brdepth \in 0..BRANCH_ENT_NUM
      /\ g.brdepth # 0 /\ Behind(t) = g.brdepth - 1
  BY DEF TagsRight, TagType, Oldest
<1>2. g' = [brdepth |-> g.brdepth - 1, tagreg |-> g.tagreg,
            valid |-> [g.valid EXCEPT ![t] = FALSE],
            fixTag |-> [u \in Tags |-> IF u = t THEN {} ELSE g.fixTag[u] \ {t}]]
  BY <1>1 DEF TagSucPred, TagType
<1>3. g.brdepth - 1 \in 0..BRANCH_ENT_NUM
  BY <1>1, Size
<1>4. g' \in TagType
  BY <1>1, <1>2, <1>3 DEF TagType
<1>5. ASSUME NEW u \in Tags
      PROVE  /\ Behind(u)' = Behind(u) /\ Behind(u) \in 0..BRANCH_ENT_NUM
             /\ u # t => Behind(u) # Behind(t)
  BY <1>1, <1>2, Size DEF Behind, Tags, SPECTAG_LEN, TagType
<1>6. ASSUME NEW u \in Tags
      PROVE  g'.valid[u] <=> Behind(u)' < g'.brdepth
  <2>1. g'.valid[u] <=> g.valid[u] /\ u # t
    BY <1>1, <1>2 DEF TagType
  <2>2. g.valid[u] <=> Behind(u) < g.brdepth
    BY DEF TagsRight
  <2> QED BY <1>1, <1>2, <1>5, <2>1, <2>2, Size
<1>7. ASSUME NEW u \in Tags
      PROVE  g'.fixTag[u] = IF g'.valid[u]
                              THEN {v \in Tags : Behind(v)' <= Behind(u)'} ELSE {}
  <2>1. g'.fixTag[u] = IF u = t THEN {} ELSE g.fixTag[u] \ {t}
    BY <1>2
  <2>2. g'.valid[u] <=> g.valid[u] /\ u # t
    BY <1>1, <1>2 DEF TagType
  <2>3. g.fixTag[u] = IF g.valid[u] THEN {v \in Tags : Behind(v) <= Behind(u)}
                                   ELSE {}
    BY DEF TagsRight
  <2>4. g.valid[u] /\ u # t => Behind(u) < Behind(t)
    <3>1. g.valid[u] => Behind(u) < g.brdepth
      BY DEF TagsRight
    <3> QED BY <1>1, <1>5, <3>1, Size
  <2>5. ASSUME g.valid[u], u # t, NEW v \in Tags
        PROVE  Behind(v)' <= Behind(u)' <=> Behind(v) <= Behind(u) /\ v # t
    BY <1>5, <2>4, <2>5, Size
  <2> QED BY <2>1, <2>2, <2>3, <2>5
<1> QED
  BY <1>4, <1>6, <1>7 DEF TagsRight

(* It was predicted wrong: nothing behind it is left.                       *)
LEMMA MisPredKeeps ==
  ASSUME TagsRight, NEW t \in Tags, g' = TagMisPred(g, t)
  PROVE  TagsRight'
<1>1. g' = [brdepth |-> 0, tagreg |-> TagBefore(t),
            valid |-> [u \in Tags |-> FALSE], fixTag |-> [u \in Tags |-> {}]]
  BY DEF TagMisPred, TagReset
<1>2. TagBefore(t) \in Tags
  BY Size DEF TagBefore, Tags, SPECTAG_LEN
<1>3. g' \in TagType
  BY <1>1, <1>2, Size DEF TagType
<1>4. ASSUME NEW u \in Tags PROVE ~(Behind(u)' < g'.brdepth)
  BY <1>1, <1>2, Size DEF Behind, Tags, SPECTAG_LEN
<1>5. ASSUME NEW u \in Tags PROVE ~g'.valid[u] /\ g'.fixTag[u] = {}
  BY <1>1
<1> QED
  BY <1>3, <1>4, <1>5 DEF TagsRight

(* However groups, successes and mispredicts follow each other: the tags in *)
(* use are the last ones given out, one is always unused, and the row of a  *)
(* branch names that branch and those behind it, for any number of them.    *)
THEOREM TagsAreExact == TagSpec => []TagsRight
<1>1. TagsRight /\ [TagNext]_g => TagsRight'
  <2>1. ASSUME TagsRight, TagNext PROVE TagsRight'
    <3>1. ASSUME NEW br1 \in BOOLEAN, NEW br2 \in BOOLEAN, Decoded(br1, br2)
          PROVE  TagsRight'
      BY <2>1, <3>1, DecodedKeeps
    <3>2. ASSUME NEW t \in Tags, Resolved(t) PROVE TagsRight'
      BY <2>1, <3>2, SucPredKeeps, MisPredKeeps DEF Resolved
    <3> QED BY <2>1, <3>1, <3>2 DEF TagNext
  <2>2. ASSUME TagsRight, UNCHANGED g PROVE TagsRight'
    BY <2>2 DEF TagsRight, Behind
  <2> QED BY <2>1, <2>2
<1> QED
  BY <1>1, ResetRight, PTL DEF TagSpec

-----------------------------------------------------------------------------
(* The ring.                                                                *)

(* Commits and groups of one cycle keep the count and the pointers together *)
LEMMA FlowKeeps ==
  ASSUME Accounts, NEW n \in 0..2, NEW c \in 0..2, Flow(n, c)
  PROVE  Accounts'
<1>1. RRF_NUM \in Nat /\ RRF_NUM >= 4
  BY RrfAssumption
<1>2. free' \in 0..RRF_NUM /\ req' \in Ptrs /\ com' \in Ptrs
  BY <1>1 DEF Accounts, Flow, Ring, IsRenamable, Waiting, Rem, RoundOver, Ptrs, Inc
<1>3. (free + Waiting = RRF_NUM)'
  BY <1>1, <1>2
  DEF Accounts, Flow, Ring, IsRenamable, Waiting, Rem, RoundOver, Ptrs, Inc
<1> QED
  BY <1>2, <1>3 DEF Accounts

(* So does a mispredict, that of the youngest entry of a full ring too.     *)
LEMMA TakeBackKeeps ==
  ASSUME Accounts, NEW b \in Ptrs, TakeBack(b)
  PROVE  Accounts'
<1>1. RRF_NUM \in Nat /\ RRF_NUM >= 4
  BY RrfAssumption
<1> DEFINE next == Inc(Inc(com, b), 1)
<1>2. /\ req' = next
      /\ free' = IF com >= next THEN com - next ELSE RRF_NUM - next + com
  BY DEF TakeBack, RrfMisPred, Ring
<1>3. b < Waiting /\ com' = com
  BY DEF TakeBack
<1>4. free' \in 0..RRF_NUM /\ req' \in Ptrs /\ com' \in Ptrs
  BY <1>1, <1>2, <1>3 DEF Accounts, Ptrs, Inc
<1>5. (free + Waiting = RRF_NUM)'
  BY <1>1, <1>2, <1>3, <1>4 DEF Accounts, Waiting, Ring, Rem, RoundOver, Ptrs, Inc
<1> QED
  BY <1>4, <1>5 DEF Accounts

(* Every entry of the ring is free or waits to be committed, and the code's *)
(* count says how many are which, for a ring of any size.                   *)
THEOREM RingAccounts == RingSpec => []Accounts
<1>1. RingInit => Accounts
  BY RrfAssumption DEF RingInit, Accounts, Waiting, Ring, Rem, RoundOver, Ptrs
<1>2. Accounts /\ [RingNext]_ringVars => Accounts'
  <2>1. ASSUME Accounts, RingNext PROVE Accounts'
    BY <2>1, FlowKeeps, TakeBackKeeps DEF RingNext
  <2>2. ASSUME Accounts, UNCHANGED ringVars PROVE Accounts'
    BY <2>2 DEF ringVars, Accounts, Waiting, Ring
  <2> QED BY <2>1, <2>2
<1> QED
  BY <1>1, <1>2, PTL DEF RingSpec
=============================================================================
