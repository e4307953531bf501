----------------------------- MODULE FrontEnd -----------------------------
(***************************************************************************)
(* How the statements of Module::flow become flow blocks and update events *)
(* (model/controller, module.cpp and the attach and add functions of all   *)
(* flow blocks).                                                           *)
(*                                                                         *)
(* A block of the language is a C++ for loop with one round.  Its          *)
(* constructor and its end only tell the controller that the block is      *)
(* attached and detached; what belongs to what is worked out from four     *)
(* stacks.  A cif, a zif and a ztate are lazy: they stay on the stack when *)
(* they are detached, because a celse or zelse may follow, and are purged  *)
(* by whatever comes next.                                                 *)
(***************************************************************************)
EXTENDS Integers, Sequences, FiniteSets, SequencesExt

CONSTANT
  Menus      \* what users write with: records of the kinds of blocks, the
             \* conditions, cases, registers and priorities they use, and max,
             \* the bound on the number of blocks and assignments

-----------------------------------------------------------------------------
(* What an assignment becomes on its way into the pool of its register     *)
(* (model/hwComponent/abstract/updateEvent.h, assMetaMng.h and the class   *)
(* assignments of zif and ztate).                                          *)
(*                                                                         *)
(* An update event assigns a value, runs its statements in order, runs the *)
(* first statement whose condition holds, or the one whose case matches.   *)
(* A condition is the set of the literals it is the conjunction of; the    *)
(* empty set stands for nullptr, a condition that always holds.            *)

Always     == {}
Lit(c, v)  == [cond |-> c, is |-> v]
DefaultCase == -1
Dummy      == [type |-> "dummy", priority |-> 0]   (* a case without a statement *)

UpdateEventBasic(val, priority) ==
  [type |-> "basic", val |-> val, priority |-> priority]

(* The priority of an event is that of its first statement.                 *)
UpdateEventGrp(stmts) ==
  [type |-> "grp", stmts |-> stmts, priority |-> stmts[1].priority]

UpdateEventCond(arms) ==
  [type |-> "cond", arms |-> arms, priority |-> arms[1].stmt.priority]

UpdateEventSwitch(iden, arms) ==
  LET first == SelectInSeq(arms, LAMBDA a : a.stmt # Dummy)
  IN [type |-> "switch", iden |-> iden, arms |-> arms, priority |-> arms[first].stmt.priority]

Arm(cond, stmt) == [cond |-> cond, stmt |-> stmt]

-----------------------------------------------------------------------------
(* An assignment: the pool it goes to and the event as it is so far.        *)

AssignMeta(pool, event) == [pool |-> pool, event |-> event]

Joinable(m, n) == m.pool = n.pool /\ m.event.priority = n.event.priority

(* Assignments that are generated in one block of code, in the order the    *)
(* user wrote them, under one condition; "stages" are the classes of the    *)
(* zelif and zelse arms that were merged into it.                           *)
ClassAssignMeta(cond, meta) == [cond |-> cond, metas |-> <<meta>>, stages |-> <<>>]

Sample(class) == class.metas[1]

(* The class of a list a new assignment joins: the first that takes it.     *)
FirstJoinable(classes, meta) ==
  SelectInSeq(classes, LAMBDA c : Joinable(Sample(c), meta))

TryAddOrCreateAsmMeta(classes, cond, meta) ==
  LET i == FirstJoinable(classes, meta) IN
  IF i = 0 THEN Append(classes, ClassAssignMeta(cond, meta))
  ELSE [classes EXCEPT ![i].metas = Append(@, meta)]

CreateEventGrp(class) ==
  UpdateEventGrp([i \in DOMAIN class.metas |-> class.metas[i].event])

(* ZifClassAsm::createAsmNode.                                              *)
ZifAsmMeta(class) ==
  AssignMeta(Sample(class).pool,
    UpdateEventCond(<<Arm(class.cond, CreateEventGrp(class))>>
                    \o [i \in DOMAIN class.stages |->
                          Arm(class.stages[i].cond, CreateEventGrp(class.stages[i]))]))

(* Mutant: a class taken over forgets the arms before it. *)
MergeArmAlone(classes, prevFalse, arm) ==
  FoldLeft(LAMBDA cs, slave :
             LET i == FirstJoinable(cs, Sample(slave)) IN
             IF i = 0 THEN Append(cs, slave)
             ELSE [cs EXCEPT ![i].stages = Append(@, slave)],
           classes, arm)

(* FlowBlockZIF::addConFlowBlock: the classes of an arm are merged into     *)
(* those of the zif; a class that finds no partner is taken over with the   *)
(* conditions of all arms before.                                           *)
MergeArm(classes, prevFalse, arm) ==
  FoldLeft(LAMBDA cs, slave :
             LET i == FirstJoinable(cs, Sample(slave)) IN
             IF i = 0 THEN Append(cs, [slave EXCEPT !.cond = prevFalse \cup @])
             ELSE [cs EXCEPT ![i].stages = Append(@, slave)],
           classes, arm)

(* FlowBlockZtate::addSubFlowBlock: here a class holds the classes of its   *)
(* cases as stages, whose "cond" is the number of the case.                 *)
AddCaseBlock(classes, case, caseClasses) ==
  FoldLeft(LAMBDA cs, new :
             LET i == SelectInSeq(cs, LAMBDA c :
                        Joinable(Sample(c.stages[1]), Sample(new)))
                 stage == [new EXCEPT !.cond = case]
             IN IF i = 0 THEN Append(cs, [cond |-> Always, metas |-> <<>>, stages |-> <<stage>>])
                ELSE [cs EXCEPT ![i].stages = Append(@, stage)],
           classes, caseClasses)

(* ZStateClassAsm::createAsmNode: the cases of the ztate a class does not   *)
(* use stand in its switch without a statement, up to the last one it uses. *)
ZtateAsmMeta(class, iden, cases) ==
  LET last  == SelectInSeq(cases, LAMBDA k : k = Last(class.stages).cond)
      stmt(k) == LET i == SelectInSeq(class.stages, LAMBDA s : s.cond = k)
                 IN IF i = 0 THEN Dummy ELSE CreateEventGrp(class.stages[i])
  IN AssignMeta(Sample(class.stages[1]).pool,
       UpdateEventSwitch(iden, [i \in 1 .. last |-> Arm(cases[i], stmt(cases[i]))]))

-----------------------------------------------------------------------------
(* The pool of a register is generated in the order of the priorities, and *)
(* events of one priority in the order in which they came: std::sort leaves *)
(* up to 16 of them in their order.                                         *)
SortEvents(events) ==
  LET priorities == SetToSortSeq({events[i].event.priority : i \in DOMAIN events}, <)
  IN FlattenSeq([i \in DOMAIN priorities |->
                   SelectSeq(events, LAMBDA e : e.event.priority = priorities[i])])

-----------------------------------------------------------------------------
Stacks == {"base", "pattern", "headCond", "pipBlk"}

-----------------------------------------------------------------------------
(* The kinds of flow blocks.  stacks: the stacks it is pushed to; join: how *)
(* it joins the block around it; purify: whether its attachment purges a    *)
(* lazy block; implicit: it makes a block for its content; lazy: it stays   *)
(* on the stack after its end; elements: what becomes of an assignment in   *)
(* it; subs, cons: the blocks it takes.                                     *)

Block(stacks, join, elements, subs) ==
  [stacks |-> {"base"} \cup stacks, join |-> join, purify |-> TRUE, implicit |-> FALSE,
   lazy |-> FALSE, elements |-> elements, subs |-> subs, cons |-> {}]

FlowKinds == {"seq", "par", "parMan", "cif", "sif", "cwhile", "cdowhile", "cloop", "sbreak",
              "scWait", "syWait", "pick", "pif", "pip", "zync", "stream"}

(* A block that takes one block, the implicit one, and no assignment.       *)
Wrapper(stacks, join) == [Block(stacks, join, "none", FlowKinds) EXCEPT !.implicit = TRUE]

FlowBlockSeq  == Block({"pattern"}, "sub", "nodes", FlowKinds)
FlowBlockPar  == Block({"pattern"}, "sub", "nodes", FlowKinds)
FlowBlockIf   == [Wrapper({"headCond"}, "sub") EXCEPT !.lazy = TRUE, !.cons = {"celif", "celse"}]
FlowBlockElif == [Wrapper({}, "con") EXCEPT !.purify = FALSE]
FlowBlockWhile    == Wrapper({}, "sub")
FlowBlockDowhile  == Wrapper({}, "sub")
FlowBlockLoop     == Wrapper({}, "sub")
FlowBlockSCBreak  == Block({}, "sub", "none", {})
FlowBlockCondWait  == Block({}, "sub", "nodes", FlowKinds)
FlowBlockCycleWait == Block({}, "sub", "nodes", FlowKinds)
FlowBlockPick     == Block({}, "sub", "none", {"pif"})
FlowBlockPickCond == Wrapper({}, "sub")
FlowBlockPipeBase == Wrapper({"pipBlk"}, "sub")
FlowBlockZyncBase == Block({"pipBlk"}, "sub", "nodes", {})
FlowBlockPipeStream == Block({}, "sub", "nodes", FlowKinds)
FlowBlockZIF   == [Block({"headCond"}, "ext", "classes", {}) EXCEPT
                     !.lazy = TRUE, !.cons = {"zelif", "zelse"}]
FlowBlockZELIF == [Block({}, "con", "classes", {}) EXCEPT !.purify = FALSE]
FlowBlockZtate == [Block({}, "ext", "none", {"zcase"}) EXCEPT !.lazy = TRUE]
FlowBlockZCase == Block({}, "sub", "classes", {})
FlowBlockPseudo == Block({}, "ext", "none", {})

UserKinds == FlowKinds \cup {"celif", "celse", "zif", "zelif", "zelse", "ztate", "zcase"}

ASSUME MenusAssumption == \A m \in Menus : m.kinds \subseteq UserKinds

Kind ==
  [k \in UserKinds \cup {"pseudo"} |->
     CASE k = "seq" -> FlowBlockSeq
       [] k \in {"par", "parMan"} -> FlowBlockPar
       [] k \in {"cif", "sif"} -> FlowBlockIf
       [] k \in {"celif", "celse"} -> FlowBlockElif
       [] k = "cwhile" -> FlowBlockWhile
       [] k = "cdowhile" -> FlowBlockDowhile
       [] k = "cloop" -> FlowBlockLoop
       [] k = "sbreak" -> FlowBlockSCBreak
       [] k = "scWait" -> FlowBlockCondWait
       [] k = "syWait" -> FlowBlockCycleWait
       [] k = "pick" -> FlowBlockPick
       [] k = "pif" -> FlowBlockPickCond
       [] k = "pip" -> FlowBlockPipeBase
       [] k = "zync" -> FlowBlockZyncBase
       [] k = "stream" -> FlowBlockPipeStream
       [] k = "zif" -> FlowBlockZIF
       [] k \in {"zelif", "zelse"} -> FlowBlockZELIF
       [] k = "ztate" -> FlowBlockZtate
       [] k = "zcase" -> FlowBlockZCase
       [] k = "pseudo" -> FlowBlockPseudo]

(* The blocks the language knows by a macro of their own.                   *)
ZKinds == {"zif", "zelif", "zelse", "ztate", "zcase"}
Patterns == {"seq", "par", "parMan"}

-----------------------------------------------------------------------------
VARIABLES
  menu,      \* what this user writes with
  text,      \* the program as it was written
  scope,     \* the C++ blocks that are open, each with its flow block
  ctl,       \* the controller and the flow blocks made so far
  phase      \* "flow", "built", or "abort" when an assertion failed

vars == <<menu, text, scope, ctl, phase>>

(* A statement of the text: "up" is the block around it, "head" the cif or  *)
(* zif whose chain it continues.                                            *)
Stmt(kind, arg, up, head) == [kind |-> kind, arg |-> arg, up |-> up, head |-> head]

(* The condition that c holds, or does not; a zelse has none (nullptr).     *)
Null == "null"
Literal(c, v) == IF c = Null THEN Always ELSE {Lit(c, v)}
Negation(kind, c) == IF kind \in {"zif", "zelif"} THEN Literal(c, FALSE) ELSE Always

(* A flow block: "at" is the statement that made it, items are its          *)
(* assignments and the blocks in it in the order they were added.           *)
NewBlock(kind, at, arg) ==
  [kind |-> kind, at |-> at, arg |-> arg, lazy |-> FALSE, items |-> <<>>, cons |-> <<>>,
   implicit |-> 0, classes |-> <<>>, prevFalse |-> Negation(kind, arg), lastZelif |-> FALSE,
   cases |-> <<>>]

NodeItem(meta, at) == [is |-> "node", meta |-> meta, at |-> at]
SubItem(b)         == [is |-> "sub", block |-> b]

EmptyCtl ==
  [stack |-> [s \in Stacks |-> <<>>], block |-> <<>>, top |-> <<>>, ok |-> TRUE]

(* An assertion of the code.                                                *)
Abort(c)      == [c EXCEPT !.ok = FALSE]
Check(c, ok) == IF ok THEN c ELSE Abort(c)

NoBlock == 0
GetTop(c, s) == IF c.stack[s] = <<>> THEN NoBlock ELSE Last(c.stack[s])
GetTopFlowBlockBase(c) == GetTop(c, "base")
IsLazy(c, b) == c.block[b].lazy
Meta(c, b)   == Kind[c.block[b].kind]

(* The condition a class of the block is created with: a zelse has none,    *)
(* and a zcase gets its number from the ztate.                              *)
OwnCondition(blk) ==
  IF blk.kind \in {"zif", "zelif", "zelse"} THEN Literal(blk.arg, TRUE) ELSE Always

-----------------------------------------------------------------------------
(* What a block does with an assignment, with a block in it, and with one   *)
(* that continues it.                                                       *)

SetBlock(c, b, blk) == [c EXCEPT !.block[b] = blk]

(* addElementInFlowBlock, for each of the assignments that come together.   *)
AddElements(c, b, metas, at) ==
  LET classes == FoldLeft(LAMBDA cs, meta :
                            TryAddOrCreateAsmMeta(cs, OwnCondition(c.block[b]), meta),
                          c.block[b].classes, metas)
      nodes   == [i \in DOMAIN metas |-> NodeItem(metas[i], at)]
  IN CASE Meta(c, b).elements = "nodes" ->
              SetBlock(c, b, [c.block[b] EXCEPT !.items = @ \o nodes])
       [] Meta(c, b).elements = "classes" ->
              SetBlock(c, b, [c.block[b] EXCEPT !.classes = classes])
       [] Meta(c, b).elements = "none" -> Check(c, metas = <<>>)

(* A wrapper takes one block, a ztate sorts the classes of its cases.       *)
AddSubFlowBlock(c, b, s) ==
  LET sub == c.block[s] IN
  IF sub.kind \notin Meta(c, b).subs \/ (Meta(c, b).implicit /\ c.block[b].items # <<>>)
  THEN Abort(c)
  ELSE SetBlock(c, b, [c.block[b] EXCEPT
         !.items   = Append(@, SubItem(s)),
         !.cases   = IF sub.kind = "zcase" THEN Append(@, sub.arg) ELSE @,
         !.classes = IF sub.kind = "zcase" THEN AddCaseBlock(@, sub.arg, sub.classes) ELSE @])

AddConFlowBlock(c, b, s) ==
  LET con == c.block[s]
      blk == c.block[b]
  IN IF con.kind \notin Meta(c, b).cons \/ blk.lastZelif THEN Abort(c)
     ELSE SetBlock(c, b, [blk EXCEPT
            !.cons      = Append(@, s),
            !.classes   = MergeArm(@, blk.prevFalse, con.classes),
            !.lastZelif = con.kind = "zelse",
            !.prevFalse = @ \cup con.prevFalse])

(* The assignments an extracted block leaves.                               *)
Extract(blk) ==
  CASE blk.kind = "zif" -> [i \in DOMAIN blk.classes |-> ZifAsmMeta(blk.classes[i])]
    [] blk.kind = "ztate" ->
         [i \in DOMAIN blk.classes |-> ZtateAsmMeta(blk.classes[i], blk.arg, blk.cases)]
    [] blk.kind = "pseudo" -> [i \in DOMAIN blk.items |-> blk.items[i].meta]

-----------------------------------------------------------------------------
(* The controller.                                                          *)

PushFlowBlock(c, b) ==
  [c EXCEPT !.stack = [s \in Stacks |->
                         IF s \in Meta(c, b).stacks THEN Append(@[s], b) ELSE @[s]]]

PopFlowBlock(c, b) ==
  IF \E s \in Meta(c, b).stacks : GetTop(c, s) # b THEN Abort(c)
  ELSE [c EXCEPT !.stack = [s \in Stacks |->
                              IF s \in Meta(c, b).stacks THEN Front(@[s]) ELSE @[s]]]

(* A block that is detached goes to the block around it, or to the module.  *)
Join(c, b) ==
  LET front == GetTopFlowBlockBase(c)
      join  == Meta(c, b).join
  IN CASE front = NoBlock -> [c EXCEPT !.top = Append(@, b)]
       [] front # NoBlock /\ join = "con" -> AddConFlowBlock(c, front, b)
       [] front # NoBlock /\ join = "sub" -> AddSubFlowBlock(c, front, b)
       [] front # NoBlock /\ join = "ext" ->
            AddElements(c, front, Extract(c.block[b]), c.block[b].at)

JoinIfPopped(c, b) == IF c.ok THEN Join(c, b) ELSE c

DetachTopFlowBlock(c) ==
  LET b == GetTopFlowBlockBase(c) IN
  IF b = NoBlock THEN Abort(c) ELSE JoinIfPopped(PopFlowBlock(c, b), b)

TryPurifyFlowStack(c) ==
  LET b == GetTopFlowBlockBase(c) IN
  IF b # NoBlock /\ IsLazy(c, b) THEN DetachTopFlowBlock(c) ELSE c

(* The new block gets the next number.                                      *)
Attach(c, blk) ==
  PushFlowBlock([c EXCEPT !.block = Append(@, blk)], Len(c.block) + 1)

(* Mutant: a new block is pushed on a lazy one. *)
OnAttachWithoutPurify(c, blk) == Attach(c, blk)

OnAttachFlowBlock(c, blk) ==
  Attach(IF Kind[blk.kind].purify THEN TryPurifyFlowStack(c) ELSE c, blk)

Detach(c, b) ==
  IF GetTopFlowBlockBase(c) # b THEN Abort(c)
  ELSE IF IsLazy(c, b) THEN c ELSE DetachTopFlowBlock(c)

OnDetachFlowBlock(c, b) ==
  Detach(IF GetTopFlowBlockBase(c) = b THEN c ELSE TryPurifyFlowStack(c), b)

(* An implicit block is a seq in a seq, and a par in a par or outside.      *)
GenImplicitSubBlk(c, at) ==
  LET pattern == GetTop(c, "pattern")
      kind    == IF pattern # NoBlock /\ c.block[pattern].kind = "seq" THEN "seq" ELSE "par"
  IN NewBlock(kind, at, Null)

SetImplicit(c, b)    == SetBlock(c, b, [c.block[b] EXCEPT !.implicit = b + 1])
AttachImplicit(c, b) ==
  SetImplicit(OnAttachFlowBlock(c, GenImplicitSubBlk(c, c.block[b].at)), b)

(* onAttachBlock and onDetachBlock of the blocks.                           *)
AttachContent(c, b) == IF Meta(c, b).implicit THEN AttachImplicit(c, b) ELSE c

OnAttachBlock(c, blk) ==
  LET d == OnAttachFlowBlock(c, blk) IN AttachContent(d, Len(c.block) + 1)

DetachContent(c, b) ==
  IF Meta(c, b).implicit THEN OnDetachFlowBlock(c, c.block[b].implicit) ELSE c

SetLazyDelete(c, b) ==
  IF Meta(c, b).lazy THEN SetBlock(c, b, [c.block[b] EXCEPT !.lazy = TRUE]) ELSE c

OnDetachBlock(c, b) == OnDetachFlowBlock(SetLazyDelete(DetachContent(c, b), b), b)

(* on_reg_update and its likes.                                             *)
FlowBlockPseudoOf(meta, at) ==
  [NewBlock("pseudo", at, Null) EXCEPT !.items = <<NodeItem(meta, at)>>]

AssignInPseudo(c, meta, at) ==
  OnDetachFlowBlock(OnAttachFlowBlock(c, FlowBlockPseudoOf(meta, at)), Len(c.block) + 1)

AssignHere(c, meta, at) ==
  IF GetTopFlowBlockBase(c) = NoBlock THEN AssignInPseudo(c, meta, at)
  ELSE AddElements(c, GetTopFlowBlockBase(c), <<meta>>, at)

(* Mutant: a lazy block stays open for the assignment after it. *)
AssignWithoutPurify(c, meta, at) == AssignHere(c, meta, at)

OnRegUpdate(c, meta, at) == AssignHere(TryPurifyFlowStack(c), meta, at)

-----------------------------------------------------------------------------
(* buildFlow: what the blocks assert, and the events of the assignments of  *)
(* a block.                                                                 *)

Buildable(c) ==
  /\ \A s \in Stacks : c.stack[s] = <<>>
  /\ \A i \in DOMAIN c.top : Meta(c, c.top[i]).join # "con"
  /\ \A b \in DOMAIN c.block : Meta(c, b).join # "ext" =>
       /\ c.block[b].kind \in Patterns \cup {"stream", "pick"} => c.block[b].items # <<>>
       /\ Meta(c, b).implicit => Len(c.block[b].items) = 1

BuildPurified(c) == Check(c, Buildable(c))
BuildAll(c)      == BuildPurified(TryPurifyFlowStack(c))

(* Assignments outside of any block run in every cycle, those of a par in   *)
(* the state of the par.                                                    *)
DryAssign(meta) == [meta EXCEPT !.event = UpdateEventCond(<<Arm(Always, @)>>)]
AssignFromStateNode(meta) ==
  [meta EXCEPT !.event = UpdateEventCond(<<Arm(Literal("state", TRUE), @)>>)]

Module == 0

EventsOf(c, b) ==
  IF b = Module
  THEN FlattenSeq([i \in DOMAIN c.top |->
         LET blk == c.block[c.top[i]] IN
         IF Kind[blk.kind].join # "ext" THEN <<>>
         ELSE [j \in DOMAIN Extract(blk) |-> DryAssign(Extract(blk)[j])]])
  ELSE LET nodes == SelectSeq(c.block[b].items, LAMBDA i : i.is = "node")
       IN [i \in DOMAIN nodes |-> AssignFromStateNode(nodes[i].meta)]

-----------------------------------------------------------------------------
(* What the user may write next.                                            *)

Here      == IF scope = <<>> THEN Module ELSE Last(scope).at
Inside    == IF scope = <<>> THEN "module" ELSE text[Here].kind
Within(u) == {i \in DOMAIN text : text[i].up = u}
Leaves    == {"sbreak", "scWait", "syWait"}
Arms      == {"celif", "celse", "zelif", "zelse"}

(* The head of the chain an elif or else continues: the statement before it *)
(* must be an arm that can be continued.                                    *)
Previous == IF Within(Here) = {} THEN 0 ELSE CHOOSE i \in Within(Here) : \A j \in Within(Here) : j <= i
Continues(kind) == IF kind \in {"celif", "celse"} THEN {"cif", "sif", "celif"} ELSE {"zif", "zelif"}
HeadOf(i) == IF text[i].head = 0 THEN i ELSE text[i].head

Legal(kind, arg) ==
  /\ kind \in Arms => Previous # 0 /\ text[Previous].kind \in Continues(kind)
  /\ Inside \in (ZKinds \ {"ztate"}) \cup {"zync"} => kind \in ZKinds \ {"zcase"}
  /\ (Inside = "ztate") = (kind = "zcase")
  /\ (Inside = "pick") = (kind = "pif")
  /\ Inside \notin Leaves
  /\ kind = "zcase" => \A i \in Within(Here) : text[i].arg # arg

Room == phase = "flow" /\ Len(text) < menu.max

Proceed(c) ==
  /\ ctl' = c
  /\ phase' = IF c.ok THEN phase ELSE "abort"

Begin(kind, arg) ==
  /\ Room
  /\ Legal(kind, arg)
  /\ LET at == Len(text) + 1
         c  == OnAttachBlock(ctl, NewBlock(kind, at, arg))
     IN /\ Proceed(c)
        /\ scope' = Append(scope, [at |-> at, block |-> Len(ctl.block) + 1])
        /\ text' = Append(text, Stmt(kind, arg, Here, IF kind \in Arms THEN HeadOf(Previous) ELSE 0))
  /\ UNCHANGED menu

Assign(reg, priority) ==
  /\ Room
  /\ Inside \notin Leaves \cup {"ztate", "pick"}
  /\ LET at == Len(text) + 1
     IN /\ Proceed(OnRegUpdate(ctl, AssignMeta(reg, UpdateEventBasic(at, priority)), at))
        /\ text' = Append(text, Stmt("assign", [reg |-> reg, priority |-> priority], Here, 0))
  /\ UNCHANGED <<menu, scope>>

End ==
  /\ phase = "flow"
  /\ scope # <<>>
  /\ Inside \in Leaves \/ Within(Here) # {}
  /\ Proceed(OnDetachBlock(ctl, Last(scope).block))
  /\ scope' = Front(scope)
  /\ UNCHANGED <<menu, text>>

EndFlow ==
  /\ phase = "flow"
  /\ scope = <<>>
  /\ ctl' = BuildAll(ctl)
  /\ phase' = IF ctl'.ok THEN "built" ELSE "abort"
  /\ UNCHANGED <<menu, text, scope>>

Init ==
  /\ menu \in Menus
  /\ text = <<>>
  /\ scope = <<>>
  /\ ctl = EmptyCtl
  /\ phase = "flow"

(* The conditions, selectors and cases a block of a kind is written with.   *)
Args(kind) ==
  CASE kind \in {"zif", "zelif"} -> menu.conds
    [] kind = "ztate" -> {"select"}
    [] kind = "zcase" -> menu.cases
    [] kind \notin {"zif", "zelif", "ztate", "zcase"} -> {Null}

Next ==
  \/ \E kind \in menu.kinds : \E arg \in Args(kind) : Begin(kind, arg)
  \/ \E reg \in menu.regs, priority \in menu.priorities : Assign(reg, priority)
  \/ End
  \/ EndFlow

Spec == Init /\ [][Next]_vars

-----------------------------------------------------------------------------
(* "flow stack can not have lazy block more than one at a time because if    *)
(* there is consequence lazy block the prior one must be delete"             *)
(* (flowController.cpp:11): a block that is over and still on the stack is   *)
(* on top of it, or directly under the elif or else that continues it.       *)
LazyOnTopOrContinued(c) ==
  LET base == c.stack["base"] IN
  \A i \in DOMAIN base : IsLazy(c, base[i]) =>
    i = Len(base) \/ Meta(c, base[i + 1]).join = "con"

LazyContinued == ctl.ok => LazyOnTopOrContinued(ctl)
=============================================================================
