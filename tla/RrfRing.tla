-------------------------------- MODULE RrfRing --------------------------------
(***************************************************************************)
(* What the Kride core makes of the entries of its ring, every order of    *)
(* calls that the core may choose: groups take entries at the request      *)
(* pointer, commits give them back at the commit pointer, and a branch     *)
(* that was mispredicted takes back everything behind itself.  The code    *)
(* keeps two pointers and a count of free entries and nothing else; with   *)
(* equal pointers the ring is empty or full, and only the count tells.     *)
(***************************************************************************)
EXTENDS KrideRegs

VARIABLES
  free,   (* freenum                                                        *)
  req,    (* reqPtr                                                         *)
  com     (* comPtr                                                         *)

ringVars == <<free, req, com>>

Ring == [freenum |-> free, reqPtr |-> req]

Waiting == Rem(Ring, com)

RingInit == free = RRF_NUM /\ req = 0 /\ com = 0

(* A cycle in which n entries are taken and c are committed; what is        *)
(* committed may be taken in the same cycle.                                *)
Flow(n, c) ==
  /\ c <= Waiting
  /\ IsRenamable(Ring, n, c)
  /\ free' = free + c - n
  /\ req' = Inc(req, n)
  /\ com' = Inc(com, c)

(* The branch b entries behind the commit pointer was mispredicted.         *)
TakeBack(b) ==
  LET q == RrfMisPred(Ring, Inc(com, b), com)
  IN  /\ b < Waiting
      /\ free' = q.freenum
      /\ req' = q.reqPtr
      /\ UNCHANGED com

RingNext == \/ \E n, c \in 0..2 : Flow(n, c)
            \/ \E b \in Ptrs : TakeBack(b)

RingSpec == RingInit /\ [][RingNext]_ringVars
-----------------------------------------------------------------------------
(* The count and the pointers agree: every entry is either free or waiting  *)
(* to be committed, whatever the order of groups, commits and mispredicts.  *)
Accounts ==
  /\ free \in 0..RRF_NUM /\ req \in Ptrs /\ com \in Ptrs
  /\ free + Waiting = RRF_NUM
=============================================================================
