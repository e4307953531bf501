-------------------------------- MODULE TagRing --------------------------------
(***************************************************************************)
(* The life of speculation tags, every order of calls the Kride core may   *)
(* choose: a decoded group takes tags while there are enough, the branch   *)
(* that has waited longest is resolved, and its success frees its tag,     *)
(* while its failure takes back every tag.                                  *)
(***************************************************************************)
EXTENDS KrideTags

VARIABLE g    (* tag register, number of branches, fix table                *)

TagInit == g = TagReset

Decoded(br1, br2) == IsAllGenble(g, br1, br2) /\ g' = Allocate(g, br1, br2)

(* How many branches were decoded after the last one that got tag t.        *)
Behind(t) == IF t <= g.tagreg THEN g.tagreg - t ELSE g.tagreg - t + SPECTAG_LEN

Oldest(t) == g.brdepth # 0 /\ Behind(t) = g.brdepth - 1

Resolved(t) == Oldest(t) /\ g' \in {TagSucPred(g, t), TagMisPred(g, t)}

TagNext == \/ \E br1, br2 \in BOOLEAN : Decoded(br1, br2)
           \/ \E t \in Tags : Resolved(t)

TagSpec == TagInit /\ [][TagNext]_g
-----------------------------------------------------------------------------
(* The tags in use are the last "brdepth" ones and one is always left that  *)
(* nobody uses; the row of a branch holds its tag and those after it, so    *)
(* that a mispredict kills what is behind the branch and nothing else.      *)
TagType == [brdepth : 0..BRANCH_ENT_NUM, tagreg : Tags,
            valid : [Tags -> BOOLEAN], fixTag : [Tags -> SUBSET Tags]]

TagsRight ==
  /\ g \in TagType
  /\ \A t \in Tags :
       /\ g.valid[t] <=> Behind(t) < g.brdepth
       /\ g.fixTag[t] = IF g.valid[t] THEN {u \in Tags : Behind(u) <= Behind(t)}
                                     ELSE {}
=============================================================================
