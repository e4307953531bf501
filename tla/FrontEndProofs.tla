-------------------------- MODULE FrontEndProofs --------------------------
(***************************************************************************)
(* A block that stays on the flow block stack after its end is purged in   *)
(* time, however the user nests and continues blocks.                      *)
(***************************************************************************)
EXTENDS FrontEnd, TLAPS

-----------------------------------------------------------------------------
(* The kinds of blocks.                                                     *)

AllBlocks ==
  {FlowBlockSeq, FlowBlockPar, FlowBlockIf, FlowBlockElif, FlowBlockWhile, FlowBlockDowhile,
   FlowBlockLoop, FlowBlockSCBreak, FlowBlockCondWait, FlowBlockCycleWait, FlowBlockPick,
   FlowBlockPickCond, FlowBlockPipeBase, FlowBlockZyncBase, FlowBlockPipeStream, FlowBlockZIF,
   FlowBlockZELIF, FlowBlockZtate, FlowBlockZCase, FlowBlockPseudo}

(* Every block is on the base stack, only what continues a block does not   *)
(* purge it, and that never is lazy.                                        *)
BlockOK(f) ==
  /\ "base" \in f.stacks
  /\ f.lazy \in BOOLEAN
  /\ f.elements \in {"nodes", "classes", "none"}
  /\ f.join \in {"sub", "con", "ext"}
  /\ f.join = "con" => ~f.lazy
  /\ ~f.purify => f.join = "con"

LEMMA BlocksOK == \A f \in AllBlocks : BlockOK(f)
<1> SUFFICES ASSUME NEW f \in AllBlocks PROVE BlockOK(f)
  OBVIOUS
<1> USE DEF Block, Wrapper, BlockOK
<1>1. BlockOK(FlowBlockSeq) /\ BlockOK(FlowBlockPar)
  BY DEF FlowBlockSeq, FlowBlockPar
<1>2. BlockOK(FlowBlockIf) /\ BlockOK(FlowBlockElif)
  BY DEF FlowBlockIf, FlowBlockElif
<1>3. BlockOK(FlowBlockWhile) /\ BlockOK(FlowBlockDowhile) /\ BlockOK(FlowBlockLoop)
  BY DEF FlowBlockWhile, FlowBlockDowhile, FlowBlockLoop
<1>4. BlockOK(FlowBlockSCBreak) /\ BlockOK(FlowBlockCondWait) /\ BlockOK(FlowBlockCycleWait)
  BY DEF FlowBlockSCBreak, FlowBlockCondWait, FlowBlockCycleWait
<1>5. BlockOK(FlowBlockPick) /\ BlockOK(FlowBlockPickCond)
  BY DEF FlowBlockPick, FlowBlockPickCond
<1>6. BlockOK(FlowBlockPipeBase) /\ BlockOK(FlowBlockZyncBase) /\ BlockOK(FlowBlockPipeStream)
  BY DEF FlowBlockPipeBase, FlowBlockZyncBase, FlowBlockPipeStream
<1>7. BlockOK(FlowBlockZIF) /\ BlockOK(FlowBlockZELIF)
  BY DEF FlowBlockZIF, FlowBlockZELIF
<1>8. BlockOK(FlowBlockZtate) /\ BlockOK(FlowBlockZCase) /\ BlockOK(FlowBlockPseudo)
  BY DEF FlowBlockZtate, FlowBlockZCase, FlowBlockPseudo
<1> HIDE DEF Block, Wrapper, BlockOK
<1> QED
  BY <1>1, <1>2, <1>3, <1>4, <1>5, <1>6, <1>7, <1>8 DEF AllBlocks

LEMMA KindsOK == \A k \in UserKinds \cup {"pseudo"} : BlockOK(Kind[k])
<1>1. \A k \in UserKinds \cup {"pseudo"} : Kind[k] \in AllBlocks
  BY DEF Kind, UserKinds, FlowKinds, AllBlocks
<1> QED
  BY <1>1, BlocksOK

-----------------------------------------------------------------------------
(* What the argument needs to know of the controller: which blocks are on   *)
(* the base stack, their kinds and which of them are lazy.                  *)

Base(c) == c.stack["base"]

BlockTyped(blk) ==
  /\ {"kind", "lazy"} \subseteq DOMAIN blk
  /\ blk.kind \in UserKinds \cup {"pseudo"}
  /\ blk.lazy \in BOOLEAN
  /\ blk.lazy => Kind[blk.kind].lazy

CtlTyped(c) ==
  /\ {"stack", "block", "ok"} \subseteq DOMAIN c
  /\ c.ok \in BOOLEAN
  /\ c.stack \in [Stacks -> Seq(Nat)]
  /\ Len(c.block) \in Nat
  /\ c.block = [b \in 1 .. Len(c.block) |-> c.block[b]]
  /\ \A b \in DOMAIN c.block : BlockTyped(c.block[b])

(* Blocks are numbered in the order in which they come, so those on the     *)
(* stack are in that order too, and none is there twice.                    *)
Nested(c) ==
  /\ \A i \in DOMAIN Base(c) : Base(c)[i] \in DOMAIN c.block
  /\ \A i, j \in DOMAIN Base(c) : i < j => Base(c)[i] < Base(c)[j]

(* d is c with something changed in its blocks, at most.                    *)
SameBlocks(c, d) ==
  /\ Len(d.block) = Len(c.block)
  /\ \A b \in DOMAIN c.block : /\ d.block[b].kind = c.block[b].kind
                              /\ d.block[b].lazy = c.block[b].lazy
  /\ d.ok => c.ok

Keeps(c, d) == d.stack = c.stack /\ SameBlocks(c, d)

(* LazyOnTopOrContinued for all blocks but x.                               *)
LazyExcept(c, x) ==
  \A i \in DOMAIN Base(c) : IsLazy(c, Base(c)[i]) /\ Base(c)[i] # x =>
    i = Len(Base(c)) \/ Meta(c, Base(c)[i + 1]).join = "con"

Good(c, x) == CtlTyped(c) /\ Nested(c) /\ (c.ok => LazyExcept(c, x))

LEMMA SetBlockIs ==
  ASSUME NEW c, CtlTyped(c), NEW b, NEW blk, b \in DOMAIN c.block => BlockTyped(blk)
  PROVE  LET d == SetBlock(c, b, blk)
         IN /\ CtlTyped(d)
            /\ d.stack = c.stack /\ d.ok = c.ok /\ Len(d.block) = Len(c.block)
            /\ \A i \in DOMAIN c.block : d.block[i] = IF i = b THEN blk ELSE c.block[i]
<1> DEFINE d == SetBlock(c, b, blk)
           n == Len(c.block)
<1>1. /\ DOMAIN d = DOMAIN c
      /\ d.stack = c.stack /\ d.ok = c.ok
      /\ d.block = [c.block EXCEPT ![b] = blk]
  BY DEF CtlTyped, SetBlock
<1>2. DOMAIN c.block = 1 .. n /\ n \in Nat
  BY DEF CtlTyped
<1>3. /\ DOMAIN d.block = 1 .. n
      /\ d.block = [i \in 1 .. n |-> d.block[i]]
      /\ \A i \in 1 .. n : d.block[i] = IF i = b THEN blk ELSE c.block[i]
  BY <1>1, <1>2
<1>4. Len(d.block) = n
  BY <1>2, <1>3
<1> HIDE DEF d, n
<1>5. \A i \in 1 .. n : BlockTyped(d.block[i])
  BY <1>2, <1>3 DEF CtlTyped
<1>6. CtlTyped(d)
  BY <1>1, <1>2, <1>3, <1>4, <1>5 DEF CtlTyped
<1> QED
  BY <1>1, <1>2, <1>3, <1>4, <1>6 DEF d, n

LEMMA SetBlockKeeps ==
  ASSUME NEW c, CtlTyped(c), NEW b, NEW blk,
         b \in DOMAIN c.block => /\ {"kind", "lazy"} \subseteq DOMAIN blk
                                 /\ blk.kind = c.block[b].kind
                                 /\ blk.lazy = c.block[b].lazy
  PROVE  CtlTyped(SetBlock(c, b, blk)) /\ Keeps(c, SetBlock(c, b, blk))
<1>1. b \in DOMAIN c.block => BlockTyped(blk)
  BY DEF CtlTyped, BlockTyped
<1> QED
  BY <1>1, SetBlockIs DEF Keeps, SameBlocks

LEMMA AbortKeeps ==
  ASSUME NEW c, CtlTyped(c)
  PROVE  CtlTyped(Abort(c)) /\ Keeps(c, Abort(c)) /\ ~Abort(c).ok
<1> DEFINE d == Abort(c)
<1>1. DOMAIN d = DOMAIN c /\ d.stack = c.stack /\ d.block = c.block /\ d.ok = FALSE
  BY DEF CtlTyped, Abort
<1> HIDE DEF d
<1>2. CtlTyped(d) /\ Keeps(c, d) /\ ~d.ok
  BY <1>1 DEF CtlTyped, Keeps, SameBlocks
<1> QED
  BY <1>2 DEF d

(* Whatever a block is given is kept in it, and changes neither kinds nor   *)
(* lazy blocks.                                                             *)
LEMMA AddElementsKeeps ==
  ASSUME NEW c, CtlTyped(c), NEW b \in DOMAIN c.block, NEW metas, NEW at
  PROVE  CtlTyped(AddElements(c, b, metas, at)) /\ Keeps(c, AddElements(c, b, metas, at))
<1> DEFINE blk     == c.block[b]
           items   == blk.items \o [i \in DOMAIN metas |-> NodeItem(metas[i], at)]
           classes == FoldLeft(LAMBDA cs, meta :
                                 TryAddOrCreateAsmMeta(cs, OwnCondition(c.block[b]), meta),
                               c.block[b].classes, metas)
<1>1. {"kind", "lazy"} \subseteq DOMAIN blk /\ blk.kind \in UserKinds \cup {"pseudo"}
  BY DEF CtlTyped, BlockTyped
<1>2. Meta(c, b).elements \in {"nodes", "classes", "none"}
  BY <1>1, KindsOK DEF Meta, BlockOK
<1>3. CASE Meta(c, b).elements = "nodes"
  <2> HIDE DEF items
  <2>1. AddElements(c, b, metas, at) = SetBlock(c, b, [blk EXCEPT !.items = items])
    BY <1>3 DEF AddElements, items
  <2> QED
    BY <2>1, <1>1, SetBlockKeeps
<1>4. CASE Meta(c, b).elements = "classes"
  <2> HIDE DEF classes
  <2>1. AddElements(c, b, metas, at) = SetBlock(c, b, [blk EXCEPT !.classes = classes])
    BY <1>4 DEF AddElements, classes
  <2> QED
    BY <2>1, <1>1, SetBlockKeeps
<1>5. CASE Meta(c, b).elements = "none"
  <2>1. AddElements(c, b, metas, at) \in {c, Abort(c)}
    BY <1>5 DEF AddElements, Check
  <2> QED
    BY <2>1, AbortKeeps DEF Keeps, SameBlocks
<1> QED
  BY <1>2, <1>3, <1>4, <1>5

LEMMA AddSubKeeps ==
  ASSUME NEW c, CtlTyped(c), NEW b \in DOMAIN c.block, NEW s
  PROVE  CtlTyped(AddSubFlowBlock(c, b, s)) /\ Keeps(c, AddSubFlowBlock(c, b, s))
<1> DEFINE blk     == c.block[b]
           sub     == c.block[s]
           items   == Append(blk.items, SubItem(s))
           cases   == IF sub.kind = "zcase" THEN Append(blk.cases, sub.arg) ELSE blk.cases
           classes == IF sub.kind = "zcase" THEN AddCaseBlock(blk.classes, sub.arg, sub.classes)
                      ELSE blk.classes
<1>1. {"kind", "lazy"} \subseteq DOMAIN blk
  BY DEF CtlTyped, BlockTyped
<1>2. AddSubFlowBlock(c, b, s) =
        IF sub.kind \notin Meta(c, b).subs \/ (Meta(c, b).implicit /\ c.block[b].items # <<>>)
        THEN Abort(c)
        ELSE SetBlock(c, b, [blk EXCEPT !.items = items, !.cases = cases, !.classes = classes])
  BY DEF AddSubFlowBlock
<1> HIDE DEF items, cases, classes
<1> DEFINE new == [blk EXCEPT !.items = items, !.cases = cases, !.classes = classes]
<1>3. {"kind", "lazy"} \subseteq DOMAIN new /\ new.kind = blk.kind /\ new.lazy = blk.lazy
  BY <1>1
<1> HIDE DEF new
<1>4. AddSubFlowBlock(c, b, s) \in {Abort(c), SetBlock(c, b, new)}
  BY <1>2 DEF new
<1> QED
  BY <1>3, <1>4, SetBlockKeeps, AbortKeeps

LEMMA AddConKeeps ==
  ASSUME NEW c, CtlTyped(c), NEW b \in DOMAIN c.block, NEW s
  PROVE  CtlTyped(AddConFlowBlock(c, b, s)) /\ Keeps(c, AddConFlowBlock(c, b, s))
<1> DEFINE blk       == c.block[b]
           con       == c.block[s]
           cons      == Append(blk.cons, s)
           classes   == MergeArm(blk.classes, blk.prevFalse, con.classes)
           lastZelif == con.kind = "zelse"
           prevFalse == blk.prevFalse \cup con.prevFalse
<1>1. {"kind", "lazy"} \subseteq DOMAIN blk
  BY DEF CtlTyped, BlockTyped
<1>2. AddConFlowBlock(c, b, s) =
        IF con.kind \notin Meta(c, b).cons \/ blk.lastZelif THEN Abort(c)
        ELSE SetBlock(c, b, [blk EXCEPT !.cons = cons, !.classes = classes,
                                        !.lastZelif = lastZelif, !.prevFalse = prevFalse])
  BY DEF AddConFlowBlock
<1> HIDE DEF cons, classes, lastZelif, prevFalse
<1> DEFINE new == [blk EXCEPT !.cons = cons, !.classes = classes,
                              !.lastZelif = lastZelif, !.prevFalse = prevFalse]
<1>3. {"kind", "lazy"} \subseteq DOMAIN new /\ new.kind = blk.kind /\ new.lazy = blk.lazy
  BY <1>1
<1> HIDE DEF new
<1>4. AddConFlowBlock(c, b, s) \in {Abort(c), SetBlock(c, b, new)}
  BY <1>2 DEF new
<1> QED
  BY <1>3, <1>4, SetBlockKeeps, AbortKeeps

(* The block on top of the stack of a nested controller is one of its blocks. *)
LEMMA TopIsBlock ==
  ASSUME NEW c, CtlTyped(c), Nested(c)
  PROVE  /\ Len(Base(c)) \in Nat
         /\ DOMAIN Base(c) = 1 .. Len(Base(c))
         /\ Base(c) = <<>> => GetTopFlowBlockBase(c) = NoBlock
         /\ Base(c) # <<>> => /\ Len(Base(c)) \in DOMAIN Base(c)
                              /\ GetTopFlowBlockBase(c) = Base(c)[Len(Base(c))]
                              /\ GetTopFlowBlockBase(c) \in DOMAIN c.block
                              /\ GetTopFlowBlockBase(c) # NoBlock
<1>1. Base(c) \in Seq(Nat)
  BY DEF CtlTyped, Base, Stacks
<1>2. DOMAIN c.block = 1 .. Len(c.block) /\ Len(c.block) \in Nat
  BY DEF CtlTyped
<1> QED
  BY <1>1, <1>2 DEF Nested, GetTopFlowBlockBase, GetTop, Last, NoBlock, Base

LEMMA JoinKeeps ==
  ASSUME NEW c, CtlTyped(c), Nested(c), NEW b \in DOMAIN c.block
  PROVE  CtlTyped(Join(c, b)) /\ Keeps(c, Join(c, b))
<1> DEFINE front == GetTopFlowBlockBase(c)
<1>1. CASE front = NoBlock
  <2> DEFINE top == Append(c.top, b)
  <2>1. Join(c, b) = [c EXCEPT !.top = top]
    BY <1>1 DEF Join
  <2> HIDE DEF top
  <2> DEFINE d == [c EXCEPT !.top = top]
  <2>2. DOMAIN d = DOMAIN c /\ d.stack = c.stack /\ d.block = c.block /\ d.ok = c.ok
    BY DEF CtlTyped
  <2> HIDE DEF d
  <2>3. CtlTyped(d) /\ Keeps(c, d)
    BY <2>2 DEF CtlTyped, Keeps, SameBlocks
  <2> QED
    BY <2>1, <2>3 DEF d
<1>2. CASE front # NoBlock
  <2>1. front \in DOMAIN c.block
    BY <1>2, TopIsBlock
  <2>2. Meta(c, b).join \in {"sub", "con", "ext"}
    BY KindsOK DEF Meta, BlockOK, CtlTyped, BlockTyped
  <2>3. Join(c, b) \in {AddConFlowBlock(c, front, b), AddSubFlowBlock(c, front, b),
                        AddElements(c, front, Extract(c.block[b]), c.block[b].at)}
    BY <1>2, <2>2 DEF Join
  <2> QED
    BY <2>1, <2>3, AddConKeeps, AddSubKeeps, AddElementsKeeps
<1> QED
  BY <1>1, <1>2

-----------------------------------------------------------------------------
(* The stack.                                                               *)

LEMMA KeepsGood ==
  ASSUME NEW c, NEW x, Good(c, x), NEW d, CtlTyped(d), Keeps(c, d)
  PROVE  Good(d, x)
<1>1. Base(d) = Base(c) /\ DOMAIN d.block = DOMAIN c.block
  BY DEF Keeps, SameBlocks, Base, Good, CtlTyped
<1>2. Nested(d)
  BY <1>1 DEF Good, Nested
<1>3. ASSUME d.ok, NEW i \in DOMAIN Base(d), IsLazy(d, Base(d)[i]), Base(d)[i] # x,
             i # Len(Base(d))
      PROVE  Meta(d, Base(d)[i + 1]).join = "con"
  <2>1. Base(c) \in Seq(Nat)
    BY DEF Good, CtlTyped, Base, Stacks
  <2>2. i + 1 \in DOMAIN Base(c)
    BY <1>1, <1>3, <2>1
  <2>3. Base(c)[i] \in DOMAIN c.block /\ Base(c)[i + 1] \in DOMAIN c.block
    BY <1>1, <1>3, <2>2 DEF Good, Nested
  <2>4. IsLazy(c, Base(c)[i]) /\ c.ok
    BY <1>1, <1>3, <2>3 DEF Keeps, SameBlocks, IsLazy
  <2>5. Meta(c, Base(c)[i + 1]).join = "con"
    BY <1>1, <1>3, <2>4 DEF Good, LazyExcept
  <2> QED
    BY <1>1, <2>3, <2>5 DEF Keeps, SameBlocks, Meta
<1> QED
  BY <1>2, <1>3 DEF Good, LazyExcept

LEMMA PopKeeps ==
  ASSUME NEW c, CtlTyped(c), Nested(c), Base(c) # <<>>
  PROVE  LET b == GetTopFlowBlockBase(c)
             d == PopFlowBlock(c, b)
         IN /\ CtlTyped(d) /\ Nested(d) /\ SameBlocks(c, d)
            /\ d.ok => Base(d) = Front(Base(c))
<1> DEFINE b     == GetTopFlowBlockBase(c)
           sel   == Meta(c, b).stacks
           d     == PopFlowBlock(c, b)
           stack == [s \in Stacks |-> IF s \in sel THEN Front(c.stack[s]) ELSE c.stack[s]]
<1>1. b \in DOMAIN c.block
  BY TopIsBlock
<1>2. "base" \in sel
  BY <1>1, KindsOK DEF Meta, BlockOK, CtlTyped, BlockTyped
<1>3. CASE \E s \in sel : GetTop(c, s) # b
  <2>1. d = Abort(c)
    BY <1>3 DEF PopFlowBlock
  <2>2. CtlTyped(d) /\ Keeps(c, d) /\ ~d.ok
    BY <2>1, AbortKeeps
  <2>3. Nested(d)
    BY <2>2 DEF Nested, Keeps, SameBlocks, Base, CtlTyped
  <2> QED
    BY <2>2, <2>3 DEF Keeps
<1>4. CASE ~\E s \in sel : GetTop(c, s) # b
  <2>1. d = [c EXCEPT !.stack = stack]
    BY <1>4 DEF PopFlowBlock
  <2> HIDE DEF d, stack
  <2>2. DOMAIN d = DOMAIN c /\ d.stack = stack /\ d.block = c.block /\ d.ok = c.ok
    BY <2>1 DEF CtlTyped
  <2>3. ASSUME NEW s \in Stacks PROVE stack[s] \in Seq(Nat)
    <3>1. c.stack[s] \in Seq(Nat)
      BY DEF CtlTyped
    <3>2. Front(c.stack[s]) \in Seq(Nat)
      BY <3>1 DEF Front
    <3> QED
      BY <3>1, <3>2 DEF stack
  <2>4. CtlTyped(d)
    BY <2>2, <2>3 DEF CtlTyped, stack
  <2>5. Base(d) = Front(Base(c))
    BY <1>2, <2>2 DEF Base, stack, Stacks
  <2>6. Nested(d)
    <3>1. Base(c) \in Seq(Nat)
      BY DEF CtlTyped, Base, Stacks
    <3>2. \A i \in DOMAIN Base(d) : i \in DOMAIN Base(c) /\ Base(d)[i] = Base(c)[i]
      BY <2>5, <3>1 DEF Front
    <3> QED
      BY <2>2, <3>2 DEF Nested
  <2>7. SameBlocks(c, d)
    BY <2>2 DEF SameBlocks
  <2> QED
    BY <2>4, <2>5, <2>6, <2>7 DEF d
<1> QED
  BY <1>3, <1>4

(* Taking the top block off the stack leaves the others in their places.    *)
LEMMA PopGood ==
  ASSUME NEW c, NEW x, Good(c, x), NEW d, CtlTyped(d), Nested(d), SameBlocks(c, d),
         Base(c) # <<>>, Base(d) = Front(Base(c))
  PROVE  Good(d, x)
<1>1. Base(c) \in Seq(Nat)
  BY DEF Good, CtlTyped, Base, Stacks
<1>2. /\ Len(Base(d)) = Len(Base(c)) - 1
      /\ \A i \in DOMAIN Base(d) : i \in DOMAIN Base(c) /\ Base(d)[i] = Base(c)[i]
  <2> DEFINE n == Len(Base(c))
  <2>1. n \in Nat /\ n >= 1 /\ DOMAIN Base(c) = 1 .. n
    BY <1>1
  <2>2. Base(d) = [i \in 1 .. n - 1 |-> Base(c)[i]]
    BY DEF Front
  <2> HIDE DEF n
  <2>3. DOMAIN Base(d) = 1 .. n - 1 /\ Len(Base(d)) = n - 1
    BY <2>1, <2>2
  <2>4. \A i \in DOMAIN Base(d) : i \in DOMAIN Base(c) /\ Base(d)[i] = Base(c)[i]
    BY <2>1, <2>2, <2>3
  <2> QED
    BY <2>3, <2>4 DEF n
<1>3. ASSUME d.ok, NEW i \in DOMAIN Base(d), IsLazy(d, Base(d)[i]), Base(d)[i] # x,
             i # Len(Base(d))
      PROVE  Meta(d, Base(d)[i + 1]).join = "con"
  <2>1. i \in DOMAIN Base(c) /\ i + 1 \in DOMAIN Base(d) /\ i + 1 \in DOMAIN Base(c)
    BY <1>1, <1>2, <1>3 DEF Front
  <2>2. Base(c)[i] \in DOMAIN c.block /\ Base(c)[i + 1] \in DOMAIN c.block
    BY <2>1 DEF Good, Nested
  <2>3. IsLazy(c, Base(c)[i]) /\ c.ok
    BY <1>2, <1>3, <2>2 DEF SameBlocks, IsLazy
  <2>4. i # Len(Base(c))
    BY <1>1, <1>2, <2>1 DEF Front
  <2>5. Meta(c, Base(c)[i + 1]).join = "con"
    BY <1>2, <1>3, <2>1, <2>3, <2>4 DEF Good, LazyExcept
  <2> QED
    BY <1>2, <2>1, <2>2, <2>5 DEF SameBlocks, Meta
<1> QED
  BY <1>3 DEF Good, LazyExcept

LEMMA DetachTopGood ==
  ASSUME NEW c, NEW x, Good(c, x)
  PROVE  LET d == DetachTopFlowBlock(c)
         IN /\ Good(d, x) /\ SameBlocks(c, d)
            /\ d.ok => Base(c) # <<>> /\ Base(d) = Front(Base(c))
<1> DEFINE b == GetTopFlowBlockBase(c)
           p == PopFlowBlock(c, b)
           d == DetachTopFlowBlock(c)
<1>1. CASE Base(c) = <<>>
  <2>1. d = Abort(c)
    BY <1>1, TopIsBlock DEF DetachTopFlowBlock, Good
  <2> QED
    BY <2>1, AbortKeeps, KeepsGood DEF Good, Keeps
<1>2. CASE Base(c) # <<>>
  <2>1. b \in DOMAIN c.block /\ b # NoBlock
    BY <1>2, TopIsBlock DEF Good
  <2>2. d = JoinIfPopped(p, b)
    BY <2>1 DEF DetachTopFlowBlock
  <2>3. /\ CtlTyped(p) /\ Nested(p) /\ SameBlocks(c, p)
        /\ p.ok => Base(p) = Front(Base(c))
    BY <1>2, PopKeeps DEF Good
  <2> HIDE DEF p, d
  <2>4. CASE ~p.ok
    <3>1. d = p
      BY <2>2, <2>4 DEF JoinIfPopped
    <3> QED
      BY <2>3, <2>4, <3>1 DEF Good, d
  <2>5. CASE p.ok
    <3>1. Good(p, x)
      BY <1>2, <2>3, <2>5, PopGood
    <3>2. b \in DOMAIN p.block
      BY <2>1, <2>3 DEF SameBlocks, CtlTyped, Good
    <3>3. CtlTyped(d) /\ Keeps(p, d)
      BY <2>2, <2>3, <2>5, <3>2, JoinKeeps DEF JoinIfPopped
    <3>4. Good(d, x)
      BY <3>1, <3>3, KeepsGood
    <3>5. DOMAIN c.block = DOMAIN p.block
      BY <2>3 DEF SameBlocks, CtlTyped, Good
    <3>6. SameBlocks(c, d)
      BY <2>3, <3>3, <3>5 DEF Keeps, SameBlocks
    <3>7. Base(d) = Front(Base(c))
      BY <2>3, <2>5, <3>3 DEF Keeps, Base
    <3> QED
      BY <1>2, <3>4, <3>6, <3>7 DEF d
  <2> QED
    BY <2>4, <2>5
<1> QED
  BY <1>1, <1>2

(* Purging leaves no lazy block on top: under a lazy block there is none,   *)
(* because no lazy block continues another one.                             *)
LEMMA TryPurifyGood ==
  ASSUME NEW c, NEW x, Good(c, x)
  PROVE  LET d == TryPurifyFlowStack(c)
         IN /\ Good(d, x) /\ SameBlocks(c, d)
            /\ d.ok /\ x = NoBlock /\ Base(d) # <<>> => ~IsLazy(d, GetTopFlowBlockBase(d))
<1> DEFINE b == GetTopFlowBlockBase(c)
           d == TryPurifyFlowStack(c)
<1>1. CASE Base(c) = <<>> \/ ~IsLazy(c, b)
  <2>1. d = c
    BY <1>1, TopIsBlock DEF TryPurifyFlowStack, Good
  <2> QED
    BY <1>1, <2>1 DEF SameBlocks
<1>2. CASE Base(c) # <<>> /\ IsLazy(c, b)
  <2>1. b \in DOMAIN c.block /\ b # NoBlock /\ b = Base(c)[Len(Base(c))]
    BY <1>2, TopIsBlock DEF Good
  <2>2. d = DetachTopFlowBlock(c)
    BY <1>2, <2>1 DEF TryPurifyFlowStack
  <2>3. /\ Good(d, x) /\ SameBlocks(c, d)
        /\ d.ok => Base(d) = Front(Base(c))
    BY <2>2, DetachTopGood
  <2> HIDE DEF d
  <2>4. ASSUME d.ok, x = NoBlock, Base(d) # <<>>
        PROVE  ~IsLazy(d, GetTopFlowBlockBase(d))
    <3> DEFINE n == Len(Base(c))
               t == GetTopFlowBlockBase(d)
    <3>1. Base(c) \in Seq(Nat) /\ Base(d) \in Seq(Nat)
      BY <2>3 DEF Good, CtlTyped, Base, Stacks
    <3>2. n \in Nat /\ n >= 2 /\ t = Base(c)[n - 1] /\ n - 1 \in DOMAIN Base(c)
      <4>1. t = Base(d)[Len(Base(d))] /\ Len(Base(d)) >= 1
        BY <2>3, <2>4, <3>1, TopIsBlock DEF Good
      <4>2. Base(d) = [i \in 1 .. n - 1 |-> Base(c)[i]] /\ n \in Nat /\ n >= 1
        BY <1>2, <2>3, <2>4, <3>1 DEF Front
      <4> HIDE DEF n, t
      <4>3. Len(Base(d)) = n - 1
        BY <4>2
      <4> QED
        BY <3>1, <4>1, <4>2, <4>3 DEF n
    <3>3. t \in DOMAIN c.block /\ t # NoBlock
      BY <3>2 DEF Good, Nested, CtlTyped, NoBlock
    <3>4. Meta(c, b).join # "con"
      BY <1>2, <2>1, KindsOK DEF Meta, IsLazy, BlockOK, Good, CtlTyped, BlockTyped
    <3>5. c.ok
      BY <2>3, <2>4 DEF SameBlocks
    <3>6. ~IsLazy(c, t)
      BY <2>1, <2>4, <3>2, <3>3, <3>4, <3>5 DEF Good, LazyExcept
    <3> QED
      BY <2>3, <3>3, <3>6 DEF SameBlocks, IsLazy
  <2> QED
    BY <2>3, <2>4 DEF d
<1> QED
  BY <1>1, <1>2

LEMMA TopExcept ==
  ASSUME NEW c, NEW x, Good(c, x), Base(c) # <<>>, GetTopFlowBlockBase(c) = x
  PROVE  Good(c, NoBlock)
<1>1. Base(c) \in Seq(Nat) /\ x = Base(c)[Len(Base(c))]
  BY TopIsBlock DEF Good, CtlTyped, Base, Stacks
<1>2. ASSUME NEW i \in DOMAIN Base(c), i # Len(Base(c)) PROVE Base(c)[i] # x
  <2>1. i < Len(Base(c)) /\ Len(Base(c)) \in DOMAIN Base(c)
    BY <1>1, <1>2
  <2>2. Base(c)[i] < x /\ Base(c)[i] \in Nat
    BY <1>1, <2>1 DEF Good, Nested
  <2> QED
    BY <1>1, <2>1, <2>2
<1> QED
  BY <1>2 DEF Good, LazyExcept

LEMMA OnDetachFlowBlockGood ==
  ASSUME NEW c, NEW b, Good(c, b)
  PROVE  /\ Good(OnDetachFlowBlock(c, b), NoBlock)
         /\ SameBlocks(c, OnDetachFlowBlock(c, b))
<1> DEFINE e == IF GetTopFlowBlockBase(c) = b THEN c ELSE TryPurifyFlowStack(c)
           d == Detach(e, b)
<1>1. Good(e, b) /\ SameBlocks(c, e)
  BY TryPurifyGood DEF SameBlocks
<1>2. OnDetachFlowBlock(c, b) = d
  BY DEF OnDetachFlowBlock
<1> HIDE DEF e
<1>3. CASE GetTopFlowBlockBase(e) # b
  <2>1. d = Abort(e)
    BY <1>3 DEF Detach
  <2>2. ~d.ok /\ Good(d, b) /\ SameBlocks(e, d)
    BY <1>1, <2>1, AbortKeeps, KeepsGood DEF Good, Keeps
  <2>3. Good(d, NoBlock)
    BY <2>2 DEF Good
  <2> QED
    BY <1>1, <1>2, <2>2, <2>3 DEF Good, CtlTyped, SameBlocks
<1>4. CASE GetTopFlowBlockBase(e) = b
  <2>1. Good(e, NoBlock)
    BY <1>1, <1>4, TopExcept, TopIsBlock DEF Good
  <2>2. d \in {e, DetachTopFlowBlock(e)}
    BY <1>4 DEF Detach
  <2>3. Good(d, NoBlock) /\ SameBlocks(e, d)
    BY <2>1, <2>2, DetachTopGood DEF SameBlocks
  <2> QED
    BY <1>1, <1>2, <2>3 DEF Good, CtlTyped, SameBlocks
<1> QED
  BY <1>3, <1>4

LEMMA AttachGood ==
  ASSUME NEW c, Good(c, NoBlock), NEW blk, BlockTyped(blk), ~blk.lazy,
         \/ ~c.ok
         \/ Base(c) = <<>>
         \/ ~IsLazy(c, GetTopFlowBlockBase(c))
         \/ Kind[blk.kind].join = "con"
  PROVE  /\ Good(Attach(c, blk), NoBlock)
         /\ Len(Attach(c, blk).block) = Len(c.block) + 1
<1> DEFINE n == Len(c.block)
           e == [c EXCEPT !.block = Append(@, blk)]
           d == Attach(c, blk)
           m == Len(Base(c))
<1>1. n \in Nat /\ DOMAIN c.block = 1 .. n
  BY DEF Good, CtlTyped
<1>2. /\ DOMAIN e = DOMAIN c /\ e.stack = c.stack /\ e.ok = c.ok
      /\ e.block = Append(c.block, blk)
  BY DEF Good, CtlTyped
<1>3. /\ Len(e.block) = n + 1
      /\ e.block = [i \in 1 .. n + 1 |-> IF i = n + 1 THEN blk ELSE c.block[i]]
  <2> DEFINE S == {c.block[i] : i \in 1 .. n} \cup {blk}
  <2>1. c.block \in Seq(S)
    <3>1. c.block \in [1 .. n -> S]
      BY <1>1 DEF Good, CtlTyped
    <3> QED
      BY <1>1, <3>1
  <2> HIDE DEF S
  <2> QED
    BY <1>2, <2>1
<1>4. /\ \A i \in 1 .. n : e.block[i] = c.block[i]
      /\ e.block[n + 1] = blk
      /\ DOMAIN e.block = 1 .. n + 1
      /\ e.block = [i \in 1 .. n + 1 |-> e.block[i]]
  BY <1>1, <1>3
<1> HIDE DEF e
<1>5. CtlTyped(e)
  <2>1. ASSUME NEW i \in DOMAIN e.block PROVE BlockTyped(e.block[i])
    <3>1. CASE i = n + 1
      BY <1>4, <3>1
    <3>2. CASE i # n + 1
      <4>1. i \in 1 .. n
        BY <1>1, <1>4, <3>2
      <4>2. BlockTyped(c.block[i])
        BY <1>1, <4>1 DEF Good, CtlTyped
      <4> QED
        BY <1>4, <4>1, <4>2
    <3> QED
      BY <3>1, <3>2
  <2>2. /\ {"stack", "block", "ok"} \subseteq DOMAIN e
        /\ e.ok \in BOOLEAN
        /\ e.stack \in [Stacks -> Seq(Nat)]
    BY <1>2 DEF Good, CtlTyped
  <2>3. Len(e.block) \in Nat /\ e.block = [i \in 1 .. Len(e.block) |-> e.block[i]]
    BY <1>1, <1>3, <1>4
  <2> QED
    BY <2>1, <2>2, <2>3 DEF CtlTyped
<1> DEFINE sel   == Meta(e, n + 1).stacks
           stack == [s \in Stacks |-> IF s \in sel THEN Append(e.stack[s], n + 1) ELSE e.stack[s]]
<1>6. "base" \in sel /\ Meta(e, n + 1) = Kind[blk.kind]
  BY <1>4, KindsOK DEF Meta, BlockOK, BlockTyped
<1>7. d = [e EXCEPT !.stack = stack]
  BY DEF Attach, PushFlowBlock, e
<1> HIDE DEF d, stack
<1>8. DOMAIN d = DOMAIN e /\ d.stack = stack /\ d.block = e.block /\ d.ok = c.ok
  BY <1>2, <1>5, <1>7 DEF CtlTyped
<1>9. stack \in [Stacks -> Seq(Nat)]
  <2>1. ASSUME NEW s \in Stacks PROVE stack[s] \in Seq(Nat)
    <3>1. e.stack[s] \in Seq(Nat) /\ n + 1 \in Nat
      BY <1>1, <1>5 DEF CtlTyped
    <3> QED
      BY <3>1 DEF stack
  <2> QED
    BY <2>1 DEF stack
<1>10. CtlTyped(d)
  BY <1>2, <1>5, <1>8, <1>9 DEF CtlTyped
<1>11. Base(c) \in Seq(Nat) /\ Base(d) = Append(Base(c), n + 1)
  BY <1>2, <1>6, <1>8 DEF Base, stack, Stacks, Good, CtlTyped
<1>12. /\ m \in Nat /\ DOMAIN Base(c) = 1 .. m
       /\ Len(Base(d)) = m + 1 /\ DOMAIN Base(d) = 1 .. m + 1
       /\ \A i \in 1 .. m : Base(d)[i] = Base(c)[i]
       /\ Base(d)[m + 1] = n + 1
  BY <1>1, <1>11
<1> HIDE DEF m
<1>13. \A i \in 1 .. m : Base(c)[i] \in 1 .. n
  BY <1>1, <1>12 DEF Good, Nested
<1>14. Nested(d)
  <2>1. \A i \in DOMAIN Base(d) : Base(d)[i] \in DOMAIN d.block
    BY <1>1, <1>4, <1>8, <1>12, <1>13
  <2>2. ASSUME NEW i \in DOMAIN Base(d), NEW j \in DOMAIN Base(d), i < j
        PROVE  Base(d)[i] < Base(d)[j]
    <3>1. CASE j = m + 1
      BY <1>1, <1>12, <1>13, <2>2, <3>1
    <3>2. CASE j # m + 1
      <4>1. i \in DOMAIN Base(c) /\ j \in DOMAIN Base(c)
        BY <1>12, <2>2, <3>2
      <4> QED
        BY <1>12, <2>2, <4>1 DEF Good, Nested
    <3> QED
      BY <3>1, <3>2
  <2> QED
    BY <2>1, <2>2 DEF Nested
<1>15. ASSUME d.ok, NEW i \in DOMAIN Base(d), IsLazy(d, Base(d)[i]), Base(d)[i] # NoBlock,
              i # Len(Base(d))
       PROVE  Meta(d, Base(d)[i + 1]).join = "con"
  <2>1. i \in 1 .. m
    BY <1>12, <1>15
  <2>2. IsLazy(c, Base(c)[i]) /\ Base(c)[i] # NoBlock /\ c.ok
    BY <1>4, <1>8, <1>12, <1>13, <1>15, <2>1 DEF IsLazy
  <2>3. CASE i = m
    <3>1. i + 1 = m + 1 /\ Base(c) # <<>>
      BY <1>12, <2>1, <2>3 DEF m
    <3>2. GetTopFlowBlockBase(c) = Base(c)[i]
      BY <2>3, <3>1, TopIsBlock DEF Good, m
    <3>3. Kind[blk.kind].join = "con"
      BY <2>2, <3>1, <3>2
    <3> QED
      BY <1>6, <1>8, <1>12, <3>1, <3>3 DEF Meta
  <2>4. CASE i # m
    <3>1. i + 1 \in 1 .. m
      BY <1>12, <2>1, <2>4
    <3>2. Meta(c, Base(c)[i + 1]).join = "con"
      BY <1>12, <2>1, <2>2, <2>4 DEF Good, LazyExcept, m
    <3> QED
      BY <1>4, <1>8, <1>12, <1>13, <3>1, <3>2 DEF Meta
  <2> QED
    BY <2>3, <2>4
<1>16. Good(d, NoBlock)
  BY <1>10, <1>14, <1>15 DEF Good, LazyExcept
<1> QED
  BY <1>3, <1>8, <1>16 DEF d

LEMMA OnAttachFlowBlockGood ==
  ASSUME NEW c, Good(c, NoBlock), NEW blk, BlockTyped(blk), ~blk.lazy
  PROVE  /\ Good(OnAttachFlowBlock(c, blk), NoBlock)
         /\ Len(OnAttachFlowBlock(c, blk).block) = Len(c.block) + 1
<1> DEFINE e == IF Kind[blk.kind].purify THEN TryPurifyFlowStack(c) ELSE c
<1>1. Good(e, NoBlock) /\ Len(e.block) = Len(c.block)
  BY TryPurifyGood DEF SameBlocks
<1>2. \/ ~e.ok
      \/ Base(e) = <<>>
      \/ ~IsLazy(e, GetTopFlowBlockBase(e))
      \/ Kind[blk.kind].join = "con"
  <2>1. CASE Kind[blk.kind].purify
    <3>1. e = TryPurifyFlowStack(c)
      BY <2>1
    <3> QED
      BY <3>1, TryPurifyGood
  <2>2. CASE ~Kind[blk.kind].purify
    BY <2>2, KindsOK DEF BlockOK, BlockTyped
  <2> QED
    BY <2>1, <2>2
<1>3. OnAttachFlowBlock(c, blk) = Attach(e, blk)
  BY DEF OnAttachFlowBlock
<1> HIDE DEF e
<1> QED
  BY <1>1, <1>2, <1>3, AttachGood

LEMMA NewBlockTyped ==
  ASSUME NEW kind \in UserKinds \cup {"pseudo"}, NEW at, NEW arg
  PROVE  /\ BlockTyped(NewBlock(kind, at, arg))
         /\ ~NewBlock(kind, at, arg).lazy
  BY DEF NewBlock, BlockTyped

LEMMA OnAttachBlockGood ==
  ASSUME NEW c, Good(c, NoBlock), NEW blk, BlockTyped(blk), ~blk.lazy
  PROVE  Good(OnAttachBlock(c, blk), NoBlock)
<1> DEFINE d == OnAttachFlowBlock(c, blk)
           b == Len(c.block) + 1
           i == GenImplicitSubBlk(d, d.block[b].at)
           e == OnAttachFlowBlock(d, i)
<1>1. Good(d, NoBlock)
  BY OnAttachFlowBlockGood
<1>2. BlockTyped(i) /\ ~i.lazy
  <2> DEFINE kind == IF /\ GetTop(d, "pattern") # NoBlock
                        /\ d.block[GetTop(d, "pattern")].kind = "seq"
                     THEN "seq" ELSE "par"
  <2>1. i = NewBlock(kind, d.block[b].at, Null)
    BY DEF GenImplicitSubBlk
  <2>2. kind \in UserKinds
    BY DEF UserKinds, FlowKinds
  <2> HIDE DEF kind, d, b
  <2> QED
    BY <2>1, <2>2, NewBlockTyped
<1> HIDE DEF d, i
<1>3. Good(e, NoBlock)
  BY <1>1, <1>2, OnAttachFlowBlockGood
<1>4. Good(SetImplicit(e, b), NoBlock)
  <2> DEFINE new == [e.block[b] EXCEPT !.implicit = b + 1]
  <2>1. b \in DOMAIN e.block => /\ {"kind", "lazy"} \subseteq DOMAIN new
                               /\ new.kind = e.block[b].kind /\ new.lazy = e.block[b].lazy
    <3> HIDE DEF e, b
    <3> SUFFICES ASSUME b \in DOMAIN e.block
                 PROVE  /\ {"kind", "lazy"} \subseteq DOMAIN new
                        /\ new.kind = e.block[b].kind /\ new.lazy = e.block[b].lazy
      OBVIOUS
    <3>1. {"kind", "lazy"} \subseteq DOMAIN e.block[b]
      BY <1>3 DEF Good, CtlTyped, BlockTyped
    <3> QED
      BY <3>1
  <2>2. SetImplicit(e, b) = SetBlock(e, b, new)
    BY DEF SetImplicit
  <2> HIDE DEF new, e
  <2> QED
    BY <1>3, <2>1, <2>2, SetBlockKeeps, KeepsGood DEF Good
<1>5. OnAttachBlock(c, blk) \in {d, SetImplicit(e, b)}
  BY DEF OnAttachBlock, AttachContent, AttachImplicit, d, i
<1> QED
  BY <1>1, <1>4, <1>5

(* A block that becomes lazy is out of order until it is detached.          *)
LEMMA SetLazyDeleteGood ==
  ASSUME NEW c, NEW b, Good(c, NoBlock)
  PROVE  Good(SetLazyDelete(c, b), b)
<1> DEFINE new == [c.block[b] EXCEPT !.lazy = TRUE]
           d   == SetBlock(c, b, new)
<1>1. CASE ~Meta(c, b).lazy
  BY <1>1 DEF SetLazyDelete, Good, LazyExcept, Nested, CtlTyped, NoBlock
<1>2. CASE Meta(c, b).lazy
  <2>1. ASSUME b \in DOMAIN c.block PROVE BlockTyped(new) /\ new.kind = c.block[b].kind
    <3>1. BlockTyped(c.block[b])
      BY <2>1 DEF Good, CtlTyped
    <3>2. new.lazy = TRUE /\ new.kind = c.block[b].kind /\ DOMAIN new = DOMAIN c.block[b]
      BY <3>1 DEF BlockTyped
    <3> HIDE DEF new
    <3> QED
      BY <1>2, <3>1, <3>2 DEF BlockTyped, Meta
  <2> HIDE DEF new
  <2>2. /\ CtlTyped(d)
        /\ d.stack = c.stack /\ d.ok = c.ok /\ Len(d.block) = Len(c.block)
        /\ \A i \in DOMAIN c.block : d.block[i] = IF i = b THEN new ELSE c.block[i]
    BY <2>1, SetBlockIs DEF Good
  <2>3. DOMAIN d.block = DOMAIN c.block /\ Base(d) = Base(c)
    BY <2>2 DEF Good, CtlTyped, Base
  <2>4. \A i \in DOMAIN c.block : Meta(d, i) = Meta(c, i)
    BY <2>1, <2>2 DEF Meta
  <2> HIDE DEF d
  <2>5. Nested(d)
    BY <2>3 DEF Good, Nested
  <2>6. ASSUME d.ok, NEW i \in DOMAIN Base(d), IsLazy(d, Base(d)[i]), Base(d)[i] # b,
               i # Len(Base(d))
        PROVE  Meta(d, Base(d)[i + 1]).join = "con"
    <3>1. Base(c) \in Seq(Nat)
      BY DEF Good, CtlTyped, Base, Stacks
    <3>2. i + 1 \in DOMAIN Base(c)
      BY <2>3, <2>6, <3>1
    <3>3. Base(c)[i] \in DOMAIN c.block /\ Base(c)[i + 1] \in DOMAIN c.block
      BY <2>3, <2>6, <3>2 DEF Good, Nested
    <3>4. Base(c)[i] # NoBlock
      BY <3>3 DEF Good, CtlTyped, NoBlock
    <3>5. IsLazy(c, Base(c)[i]) /\ c.ok
      BY <2>2, <2>3, <2>6, <3>3 DEF IsLazy
    <3> QED
      BY <2>3, <2>4, <2>6, <3>3, <3>4, <3>5 DEF Good, LazyExcept
  <2>7. Good(d, b)
    BY <2>2, <2>5, <2>6 DEF Good, LazyExcept
  <2> QED
    BY <1>2, <2>7 DEF SetLazyDelete, d, new
<1> QED
  BY <1>1, <1>2

LEMMA ExceptMore ==
  ASSUME NEW c, NEW x, Good(c, NoBlock)
  PROVE  Good(c, x)
<1>1. \A i \in DOMAIN Base(c) : Base(c)[i] # NoBlock
  BY DEF Good, Nested, CtlTyped, NoBlock
<1> QED
  BY <1>1 DEF Good, LazyExcept

LEMMA OnDetachBlockGood ==
  ASSUME NEW c, NEW b, Good(c, NoBlock)
  PROVE  Good(OnDetachBlock(c, b), NoBlock)
<1> DEFINE d == DetachContent(c, b)
           e == SetLazyDelete(d, b)
<1>1. Good(d, NoBlock)
  BY ExceptMore, OnDetachFlowBlockGood DEF DetachContent
<1>2. Good(e, b)
  BY <1>1, SetLazyDeleteGood
<1> QED
  BY <1>2, OnDetachFlowBlockGood DEF OnDetachBlock

LEMMA OnRegUpdateGood ==
  ASSUME NEW c, NEW meta, NEW at, Good(c, NoBlock)
  PROVE  Good(OnRegUpdate(c, meta, at), NoBlock)
<1> DEFINE d == TryPurifyFlowStack(c)
           e == OnRegUpdate(c, meta, at)
           b == GetTopFlowBlockBase(d)
<1>1. Good(d, NoBlock)
  BY TryPurifyGood
<1> HIDE DEF d
<1>2. CASE b = NoBlock
  <2> DEFINE blk == FlowBlockPseudoOf(meta, at)
             p   == OnAttachFlowBlock(d, blk)
  <2>1. BlockTyped(blk) /\ ~blk.lazy
    BY DEF FlowBlockPseudoOf, NewBlock, BlockTyped
  <2> HIDE DEF blk
  <2>2. Good(p, NoBlock)
    BY <1>1, <2>1, OnAttachFlowBlockGood
  <2>3. e = OnDetachFlowBlock(p, Len(d.block) + 1)
    BY <1>2 DEF OnRegUpdate, AssignHere, AssignInPseudo, d, blk
  <2> HIDE DEF p
  <2> QED
    BY <2>2, <2>3, ExceptMore, OnDetachFlowBlockGood
<1>3. CASE b # NoBlock
  <2>1. b \in DOMAIN d.block
    BY <1>1, <1>3, TopIsBlock DEF Good
  <2>2. e = AddElements(d, b, <<meta>>, at)
    BY <1>3 DEF OnRegUpdate, AssignHere, d
  <2> QED
    BY <1>1, <2>1, <2>2, AddElementsKeeps, KeepsGood DEF Good
<1> QED
  BY <1>2, <1>3

LEMMA BuildAllGood ==
  ASSUME NEW c, Good(c, NoBlock)
  PROVE  Good(BuildAll(c), NoBlock)
<1> DEFINE d == TryPurifyFlowStack(c)
<1>1. Good(d, NoBlock)
  BY TryPurifyGood
<1>2. BuildAll(c) \in {d, Abort(d)}
  BY DEF BuildAll, BuildPurified, Check
<1> QED
  BY <1>1, <1>2, AbortKeeps, KeepsGood DEF Good

-----------------------------------------------------------------------------
(* The specification.                                                       *)

IInv == menu \in Menus /\ Good(ctl, NoBlock)

LEMMA InitGood == Init => IInv
<1> SUFFICES ASSUME Init PROVE IInv
  OBVIOUS
<1>1. ctl = EmptyCtl /\ menu \in Menus
  BY DEF Init
<1>2. CtlTyped(EmptyCtl)
  BY DEF CtlTyped, EmptyCtl, Stacks
<1>3. Base(EmptyCtl) = <<>>
  BY DEF Base, EmptyCtl, Stacks
<1> QED
  BY <1>1, <1>2, <1>3 DEF IInv, Good, Nested, LazyExcept

LEMMA NextGood == IInv /\ [Next]_vars => IInv'
<1> SUFFICES ASSUME IInv, [Next]_vars PROVE IInv'
  OBVIOUS
<1> USE DEF IInv
<1>1. ASSUME NEW kind \in menu.kinds, NEW arg, Begin(kind, arg) PROVE IInv'
  <2> DEFINE blk == NewBlock(kind, Len(text) + 1, arg)
  <2>1. ctl' = OnAttachBlock(ctl, blk) /\ menu' = menu
    BY <1>1 DEF Begin, Proceed
  <2>2. kind \in UserKinds
    BY MenusAssumption
  <2>3. BlockTyped(blk) /\ ~blk.lazy
    BY <2>2, NewBlockTyped
  <2> QED
    BY <2>1, <2>3, OnAttachBlockGood
<1>2. ASSUME NEW reg, NEW priority, Assign(reg, priority) PROVE IInv'
  <2> DEFINE at   == Len(text) + 1
             meta == AssignMeta(reg, UpdateEventBasic(at, priority))
  <2>1. ctl' = OnRegUpdate(ctl, meta, at) /\ menu' = menu
    BY <1>2 DEF Assign, Proceed
  <2> QED
    BY <2>1, OnRegUpdateGood
<1>3. ASSUME End PROVE IInv'
  BY <1>3, OnDetachBlockGood DEF End, Proceed
<1>4. ASSUME EndFlow PROVE IInv'
  BY <1>4, BuildAllGood DEF EndFlow
<1>5. CASE UNCHANGED vars
  BY <1>5 DEF vars
<1> QED
  BY <1>1, <1>2, <1>3, <1>4, <1>5 DEF Next

(* Whatever the user writes, a block whose end has come and that still is on *)
(* the stack is on top of it, or under the elif or else that continues it:   *)
(* what comes next finds it there and purges it (flowController.cpp:10).     *)
THEOREM LazyBlocksContinued == Spec => []LazyContinued
<1>1. IInv => LazyContinued
  <2> SUFFICES ASSUME IInv, ctl.ok PROVE LazyOnTopOrContinued(ctl)
    BY DEF LazyContinued
  <2>1. \A i \in DOMAIN Base(ctl) : Base(ctl)[i] # NoBlock
    BY DEF IInv, Good, Nested, CtlTyped, NoBlock
  <2> QED
    BY <2>1 DEF IInv, Good, LazyExcept, LazyOnTopOrContinued, Base
<1> QED
  BY <1>1, InitGood, NextGood, PTL DEF Spec

=============================================================================
