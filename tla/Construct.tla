----------------------------- MODULE Construct -----------------------------
(***************************************************************************)
(* How the parts of a design find their place while its C++ code runs      *)
(* (model/controller, module.cpp, box.cpp and makeComponent.h).            *)
(*                                                                         *)
(* A register, a box, a flow block or a module is a C++ object that tells  *)
(* the controller when it is constructed and, a box, a block or a module,  *)
(* when it is complete.  Nothing else says what belongs to what: the       *)
(* controller keeps a stack of modules, one of boxes and one of flow       *)
(* blocks, while constructors of modules run in the flows of other modules *)
(* and in the middle of their blocks, and while flows, the logic of        *)
(* interfaces and the submodules follow one another.                       *)
(*                                                                         *)
(* A flow block has no inner life here; FrontEnd has that.                 *)
(***************************************************************************)
EXTENDS Integers, Sequences, FiniteSets, SequencesExt

CONSTANT
  Sketches   \* what is written with: records of the kinds of elements, blocks
             \* and assignments, and max, the bound on the number of objects

-----------------------------------------------------------------------------
(* An object (Identifiable): its module, the object in whose list it is,    *)
(* the box it is a field of, the block around a block.  An object is known  *)
(* by its number.                                                           *)
Nobody == 0
Global == 1

Thing(kind, isUser) ==
  [kind |-> kind, isUser |-> isUser, parent |-> Nobody, list |-> Nobody, box |-> Nobody,
   around |-> Nobody, lazy |-> FALSE, stage |-> "MODEL_UNINIT"]

(* An assertion of the code: the first that fails ends the program.         *)
Fine == "fine"
Require(c, ok, what) == IF ok \/ c.failed # Fine THEN c ELSE [c EXCEPT !.failed = what]

Top(stack) == IF stack = <<>> THEN Nobody ELSE Last(stack)
Pop(stack) == IF stack = <<>> THEN stack ELSE Front(stack)

(* _make unlocks the allocation, and the base class of registers, wires,    *)
(* boxes and modules locks it again.  Blocks, their registers, interfaces   *)
(* and the results of operators are made without it.                        *)
NewThing(c, kind, isUser) == [c EXCEPT !.things = Append(@, Thing(kind, isUser))]

HwCompControllerItf(c) ==
  [Require(c, ~c.allocLock, "not made by make") EXCEPT !.allocLock = TRUE]

MakeThing(c, kind, isUser) ==
  LET d == NewThing([c EXCEPT !.allocLock = FALSE], kind, isUser)
  IN IF kind \in {"reg", "wire", "box", "module"} THEN HwCompControllerItf(d) ELSE d

-----------------------------------------------------------------------------
(* The module whose code runs.                                              *)
NoModule == [md |-> Nobody, state |-> "none"]
GetTargetModuleEle(c) == IF c.moduleStack = <<>> THEN NoModule ELSE Last(c.moduleStack)

GetTopModulePtr(c) == GetTargetModuleEle(c).md

PushModule(c, t, state) ==
  [c EXCEPT !.moduleStack = Append(@, [md |-> t, state |-> state])]
PopModule(c) == [c EXCEPT !.moduleStack = Pop(@)]

(* addUserReg and its likes.                                                *)
AddUser(c, t, m) == [c EXCEPT !.things[t].list = m]
SetParent(c, t, m) == [c EXCEPT !.things[t].parent = m]

(* What the handlers of new elements do: the module puts the element into a *)
(* list and becomes its parent.                                             *)
Localize(c, t) ==
  LET m == GetTopModulePtr(c)
  IN SetParent(AddUser(Require(c, m # Nobody, "no module"), t, m), t, m)

(* The fields of a box: five at most.                                       *)
FieldsOf(c, b) == {f \in DOMAIN c.things : c.things[f].box = b}

AddNestMeta(c, b, t) ==
  [Require(c, Cardinality(FieldsOf(c, b)) < 5, "full box") EXCEPT !.things[t].box = b]

OnBoxTryAddToBox(c, t) ==
  IF c.boxStack # <<>> /\ c.things[t].isUser THEN AddNestMeta(c, Last(c.boxStack), t) ELSE c

OnSpRegInit(c, t)      == Localize(c, t)
OnRegInit(c, t)        == Localize(OnBoxTryAddToBox(c, t), t)
OnWireInit(c, t)       == Localize(OnBoxTryAddToBox(c, t), t)
OnExpressionInit(c, t) == Localize(OnBoxTryAddToBox(c, t), t)
OnMemBlkInit(c, t)     == Localize(c, t)
OnNestInit(c, t)       == Localize(OnBoxTryAddToBox(c, t), t)
OnValueInit(c, t)      == Localize(OnBoxTryAddToBox(c, t), t)
OnPmValueInit(c, t)    == Localize(Require(c, c.boxStack = <<>>, "pmVal in a box"), t)
OnItfInit(c, t)        == Localize(c, t)

Elements   == {"reg", "wire", "expr", "memBlk", "nest", "val", "pmVal", "itf"}
FieldKinds == {"reg", "wire", "expr", "nest", "val"}

OnInit(c, t) ==
  LET kind == c.things[t].kind
  IN CASE kind = "reg" -> OnRegInit(c, t)
       [] kind = "wire" -> OnWireInit(c, t)
       [] kind = "expr" -> OnExpressionInit(c, t)
       [] kind = "memBlk" -> OnMemBlkInit(c, t)
       [] kind = "nest" -> OnNestInit(c, t)
       [] kind = "val" -> OnValueInit(c, t)
       [] kind = "pmVal" -> OnPmValueInit(c, t)
       [] kind = "itf" -> OnItfInit(c, t)

MakeElement(c, kind, isUser) ==
  LET d == IF kind = "itf" \/ (kind = "expr" /\ ~isUser) THEN NewThing(c, kind, FALSE)
           ELSE MakeThing(c, kind, isUser)
  IN OnInit(d, Len(d.things))

-----------------------------------------------------------------------------
(* Boxes: a box in a box is in no list of the module.                       *)
AddSubBox(c, t, b) == [c EXCEPT !.things[t].list = b]

OnBoxInit(c, t) ==
  LET m == GetTopModulePtr(c)
      d == SetParent(Require(c, m # Nobody, "no module"), t, m)
      e == IF c.boxStack = <<>> THEN AddUser(d, t, m) ELSE AddSubBox(d, t, Last(c.boxStack))
  IN [e EXCEPT !.boxStack = Append(@, t)]

OnBoxEndInit(c, t) ==
  [Require(c, Top(c.boxStack) = t, "another box") EXCEPT !.boxStack = Pop(@)]

-----------------------------------------------------------------------------
(* Flow blocks.                                                             *)
Blocks == {"seq", "cif", "celse"}

TopFlowBlock(c) == Top(c.flowStack)

(* Mutant: whatever block is on top counts. *)
IsThereATopFb(c) == c.flowStack # <<>>

IsTopFbBelongToTopModule(c) ==
  c.flowStack # <<>> /\ c.things[Last(c.flowStack)].parent = GetTopModulePtr(c)

AssignFlowBlockParent(c, t) ==
  [SetParent(c, t, GetTopModulePtr(c)) EXCEPT
     !.things[t].around = IF IsTopFbBelongToTopModule(c) THEN TopFlowBlock(c) ELSE Nobody]

(* A block goes to the block around it, a celse to the cif before it.       *)
DetachTop(c) ==
  LET b == TopFlowBlock(c)
      d == [c EXCEPT !.flowStack = Pop(@)]
      kind == c.things[b].kind
      front == TopFlowBlock(d)
  IN IF ~IsTopFbBelongToTopModule(d) THEN AddUser(d, b, GetTopModulePtr(d))
     ELSE [Require(d, kind = "celse" => d.things[front].kind = "cif", "no cif before")
             EXCEPT !.things[b].list = front]

LazyOnTop(c) == c.flowStack # <<>> /\ c.things[Last(c.flowStack)].lazy

Purify(c) == IF LazyOnTop(c) THEN DetachTop(c) ELSE c

AttachFlow(c, t) ==
  LET d == IF c.things[t].kind = "celse" THEN c ELSE Purify(c)
  IN [AssignFlowBlockParent(d, t) EXCEPT !.flowStack = Append(@, t)]

DetachFlow(c, t) ==
  LET d == IF TopFlowBlock(c) = t THEN c
           ELSE Purify(Require(c, c.things[TopFlowBlock(c)].lazy, "block left open"))
      e == Require(d, TopFlowBlock(d) = t, "another block")
  IN IF e.things[t].lazy THEN e ELSE DetachTop(e)

(* An assignment is an element of the block on top, if that is one of this  *)
(* module; otherwise a pseudo block is made for it.                         *)
PseudoBlock(c, t) == DetachFlow(AttachFlow([c EXCEPT !.things[t].kind = "pseudo"], t), t)

Update(c, t) ==
  LET d == Purify(c)
  IN IF IsTopFbBelongToTopModule(d) THEN [d EXCEPT !.things[t].list = TopFlowBlock(d)]
     ELSE PseudoBlock(d, t)

OnWireUpdate(c, t)              == Update(c, t)
OnMemBlkEleHolderUpdate(c, t) == Update(c, t)
OnNestUpdate(c, t)              == Update(c, t)
OnBoxUpdate(c, t)               == Update(c, t)

Assigned == {"wire", "memBlk", "nest", "box"}

OnUpdate(c, t, what) ==
  CASE what = "wire" -> OnWireUpdate(c, t)
    [] what = "memBlk" -> OnMemBlkEleHolderUpdate(c, t)
    [] what = "nest" -> OnNestUpdate(c, t)
    [] what = "box" -> OnBoxUpdate(c, t)

AllStacksEmpty(c) == c.flowStack = <<>>

-----------------------------------------------------------------------------
(* Modules.                                                                 *)
OnModuleInitComponents(c, t) ==
  LET ele == GetTargetModuleEle(c)
      d == Require(c, /\ ele.state \in {"MODULE_INIT", "MODULE_INIT_DESIGN_FLOW"}
                      /\ c.things[t].stage = "MODEL_UNINIT", "module here")
  IN PushModule(SetParent(AddUser(d, t, ele.md), t, ele.md), t, "MODULE_INIT")

(* Mutant: the module stays on the stack. *)
OnModuleEndInitNoPop(c, t) == [c EXCEPT !.things[t].stage = "MODEL_GLOB_INITED"]

OnModuleEndInitComponents(c, t) ==
  LET d == Require(c, GetTargetModuleEle(c) = [md |-> t, state |-> "MODULE_INIT"],
                   "module not open")
  IN PopModule([d EXCEPT !.things[t].stage = "MODEL_GLOB_INITED"])

OnModuleInitDesignFlow(c, t) ==
  PushModule(Require(c, /\ c.things[t].stage = "MODEL_GLOB_INITED"
                        /\ GetTargetModuleEle(c).state = "MODULE_INIT_DESIGN_FLOW", "flow here"),
             t, "MODULE_INIT_DESIGN_FLOW")

OnModuleFinal(c, t) ==
  LET d == Require(c, /\ GetTargetModuleEle(c) = [md |-> t, state |-> "MODULE_INIT_DESIGN_FLOW"]
                      /\ ~IsTopFbBelongToTopModule(c), "flow not over")
  IN PopModule([d EXCEPT !.things[t].stage = "MODEL_FLOW_INITED"])

(* The global module, which holds the reset wire.                           *)
InitiateGlobalComponent(c) == MakeElement(c, "wire", FALSE)

OnGlobalModuleInitComponent(c) ==
  InitiateGlobalComponent(PushModule(MakeThing(c, "module", FALSE), Global, "MODULE_INIT"))

OnGlobalModuleInitDesignFlow(c) ==
  PushModule(Require(c, c.moduleStack = <<>> /\ AllStacksEmpty(c), "not at rest"),
             Global, "MODULE_INIT_DESIGN_FLOW")

OnGlobalModuleInitAux(c) ==
  PushModule(Require(c, c.moduleStack = <<>> /\ AllStacksEmpty(c), "not at rest"),
             Global, "MODULE_INIT_AUX")

OnGlobalModuleFinalAux(c) ==
  PopModule(Require(c, GetTargetModuleEle(c).state = "MODULE_INIT_AUX", "not open"))

Clean(c) ==
  [Require(c, c.moduleStack = <<>> /\ AllStacksEmpty(c), "not at rest") EXCEPT !.things = <<>>]

ModelController ==
  OnGlobalModuleInitComponent(
    [things |-> <<>>, moduleStack |-> <<>>, boxStack |-> <<>>, flowStack |-> <<>>,
     allocLock |-> TRUE, failed |-> Fine])

(* buildAll, in the pieces between which the code of the user runs.  It     *)
(* goes through lists in their order, which is the order of the numbers.    *)
Remaining(c, m, kinds, seen) ==
  {t \in DOMAIN c.things : t > seen /\ c.things[t].list = m /\ c.things[t].kind \in kinds}

NextOf(c, m, kinds, seen) ==
  CHOOSE t \in Remaining(c, m, kinds, seen) : \A u \in Remaining(c, m, kinds, seen) : t <= u

CloseFlow(c) == LET d == Purify(c) IN Require(d, AllStacksEmpty(d), "flow not closed")

(* buildFlow: a block of the module gets its registers, here one.           *)
BuildBlock(c, b) ==
  LET d == Require(c, c.things[b].kind # "celse", "con at the module")
  IN IF d.things[b].kind \in {"seq", "cif"}
     THEN OnSpRegInit(NewThing(d, "spReg", FALSE), Len(d.things) + 1) ELSE d

-----------------------------------------------------------------------------
VARIABLES
  sketch,    \* what is written with
  frames,    \* the modules whose code runs, each called by the one before
  mc,        \* the controller and all objects made so far
  written    \* where in the text of the user each object stands

constructVars == <<sketch, frames, mc, written>>

(* "code" is how far a module is: its constructor; in buildAll its flow,    *)
(* the list of its interfaces, the logic of one of them, its submodules and *)
(* its blocks.  "main" and "aux" is code outside of all modules.  "open"    *)
(* are the blocks around what is written next, the module first; "cif" is   *)
(* the cif that ended last at that level and can be continued.  "seen" is   *)
(* the last interface, submodule or block that buildAll has come to.        *)
Level(at) == [at |-> at, cif |-> Nobody]
Frame(code, md) ==
  [code |-> code, md |-> md, boxes |-> <<>>, open |-> <<Level(md)>>, seen |-> Nobody]

TopFrame == Last(frames)
Author   == TopFrame.md
InBox    == TopFrame.boxes # <<>>
Deep     == Last(TopFrame.open)

At(codes) == frames # <<>> /\ TopFrame.code \in codes /\ ~InBox

Call(frame)   == Append(frames, frame)
Return        == Front(frames)
Become(frame) == Append(Front(frames), frame)
Opens(levels) == Become([TopFrame EXCEPT !.open = levels])

Running == mc.failed = Fine
HasRoom == Len(mc.things) < sketch.max

(* An object is written: what the text says it belongs to.                  *)
Writes(c, owner, box) ==
  /\ Running
  /\ HasRoom
  /\ mc' = c
  /\ written' = Append(written, [by |-> Author, owner |-> owner, box |-> box])
  /\ UNCHANGED sketch

(* The program goes on without a new object.                                *)
Runs(c) ==
  /\ Running
  /\ mc' = c
  /\ UNCHANGED <<sketch, written>>

This == Len(mc.things) + 1

-----------------------------------------------------------------------------
(* What the user writes: elements anywhere, an interface as a member of its *)
(* module, submodules among the members or in the flow, assignments and     *)
(* blocks in the flow and in the logic of interfaces.                       *)
DeclareElement(kind, isUser) ==
  /\ frames # <<>>
  /\ TopFrame.code \in {"main", "ctor", "flow", "itf", "aux"}
  /\ kind = "itf" => At({"ctor"})
  /\ Writes(MakeElement(mc, kind, isUser), Author,
            IF isUser /\ kind \in FieldKinds /\ InBox THEN Last(TopFrame.boxes) ELSE Nobody)
  /\ UNCHANGED frames

BeginBox ==
  /\ frames # <<>>
  /\ TopFrame.code \in {"ctor", "flow"}
  /\ Writes(OnBoxInit(MakeThing(mc, "box", TRUE), This),
            IF InBox THEN Last(TopFrame.boxes) ELSE Author, Nobody)
  /\ frames' = Become([TopFrame EXCEPT !.boxes = Append(@, This)])

EndBox ==
  /\ frames # <<>>
  /\ InBox
  /\ Runs(OnBoxEndInit(mc, Last(TopFrame.boxes)))
  /\ frames' = Become([TopFrame EXCEPT !.boxes = Front(@)])

BeginModule ==
  /\ At({"main", "ctor", "flow"})
  /\ Writes(OnModuleInitComponents(MakeThing(mc, "module", TRUE), This), Author, Nobody)
  /\ frames' = Call(Frame("ctor", This))

EndModule ==
  /\ At({"ctor"})
  /\ Runs(OnModuleEndInitComponents(mc, Author))
  /\ frames' = Return

BeginBlock(kind) ==
  /\ At({"flow", "itf"})
  /\ kind = "celse" => Deep.cif # Nobody
  /\ Writes(AttachFlow(NewThing(mc, kind, FALSE), This),
            IF kind = "celse" THEN Deep.cif ELSE Deep.at, Nobody)
  /\ frames' = Opens(Front(TopFrame.open) \o <<Level(Deep.at), Level(This)>>)

EndBlock ==
  /\ At({"flow", "itf"})
  /\ Len(TopFrame.open) > 1
  /\ LET t    == Deep.at
         kind == mc.things[t].kind
         rest == Front(TopFrame.open)
     IN /\ Runs(DetachFlow([mc EXCEPT !.things[t].lazy = kind = "cif"], t))
        /\ frames' = Opens(Append(Front(rest),
                       [at |-> Last(rest).at, cif |-> IF kind = "cif" THEN t ELSE Nobody]))

(* A constructor does not assign while the block before it is a cif.        *)
AssignTo(what) ==
  /\ At({"ctor", "flow", "itf"})
  /\ ~(TopFrame.code = "ctor" /\ LazyOnTop(mc))
  /\ Writes(OnUpdate(NewThing(mc, "asm", FALSE), This, what), Deep.at, Nobody)
  /\ frames' = Opens(Append(Front(TopFrame.open), Level(Deep.at)))

-----------------------------------------------------------------------------
(* What the library runs.                                                   *)
AtLevelOne == Len(TopFrame.open) = 1

Start ==
  /\ At({"main"})
  /\ Runs(OnGlobalModuleInitDesignFlow(OnModuleEndInitComponents(mc, Global)))
  /\ frames' = << Frame("flow", Global) >>

FlowReturns ==
  /\ At({"flow"}) /\ AtLevelOne
  /\ Runs(mc)
  /\ frames' = Become(Frame("itfs", Author))

(* Those that buildAll has not come to yet, and the first of them.          *)
Left(kinds)   == Remaining(mc, Author, kinds, TopFrame.seen)
Coming(kinds) == NextOf(mc, Author, kinds, TopFrame.seen)

BuildItf ==
  /\ At({"itfs"}) /\ Left({"itf"}) # {}
  /\ Runs(mc)
  /\ frames' = Become([TopFrame EXCEPT !.code = "itf", !.seen = Coming({"itf"})])

ItfReturns ==
  /\ At({"itf"}) /\ AtLevelOne
  /\ Runs(mc)
  /\ frames' = Become([TopFrame EXCEPT !.code = "itfs", !.open = <<Level(Author)>>])

FlowIsOver ==
  /\ At({"itfs"}) /\ Left({"itf"}) = {}
  /\ Runs(CloseFlow(mc))
  /\ frames' = Become(Frame("subs", Author))

BuildSubModule ==
  /\ At({"subs"}) /\ Left({"module"}) # {}
  /\ LET sub == Coming({"module"})
     IN /\ Runs(OnModuleInitDesignFlow(mc, sub))
        /\ frames' = Append(Become([TopFrame EXCEPT !.seen = sub]), Frame("flow", sub))

SubModulesBuilt ==
  /\ At({"subs"}) /\ Left({"module"}) = {}
  /\ Runs(mc)
  /\ frames' = Become(Frame("build", Author))

BuildFlow ==
  /\ At({"build"}) /\ Left(Blocks) # {}
  /\ Running
  /\ LET b == Coming(Blocks)
         c == BuildBlock(mc, b)
     IN /\ mc' = c
        /\ written' = IF Len(c.things) = Len(mc.things) THEN written
                      ELSE Append(written, [by |-> Author, owner |-> Author, box |-> Nobody])
        /\ frames' = Become([TopFrame EXCEPT !.seen = b])
  /\ UNCHANGED sketch

EndModuleFlow ==
  /\ At({"build"}) /\ Left(Blocks) = {}
  /\ Runs(OnModuleFinal(mc, Author))
  /\ frames' = Return

BeginAux ==
  /\ frames = <<>>
  /\ Runs(OnGlobalModuleInitAux(mc))
  /\ frames' = << Frame("aux", Global) >>

EndAux ==
  /\ At({"aux"})
  /\ Runs(OnGlobalModuleFinalAux(mc))
  /\ frames' = Return

GlobalText == << [by |-> Nobody, owner |-> Nobody, box |-> Nobody],
                 [by |-> Global, owner |-> Global, box |-> Nobody] >>

Reset ==
  /\ frames = <<>>
  /\ Running
  /\ mc' = OnGlobalModuleInitComponent(Clean(mc))
  /\ frames' = << Frame("main", Global) >>
  /\ written' = GlobalText
  /\ UNCHANGED sketch

-----------------------------------------------------------------------------
ConstructInit ==
  /\ sketch \in Sketches
  /\ frames = << Frame("main", Global) >>
  /\ mc = ModelController
  /\ written = GlobalText

ConstructNext ==
  \/ \E kind \in sketch.elements, isUser \in sketch.users : DeclareElement(kind, isUser)
  \/ sketch.boxes /\ BeginBox
  \/ EndBox
  \/ sketch.modules /\ BeginModule
  \/ EndModule
  \/ \E kind \in sketch.blocks : BeginBlock(kind)
  \/ EndBlock
  \/ \E what \in sketch.assigned : AssignTo(what)
  \/ Start
  \/ FlowReturns
  \/ BuildItf
  \/ ItfReturns
  \/ FlowIsOver
  \/ BuildSubModule
  \/ SubModulesBuilt
  \/ BuildFlow
  \/ EndModuleFlow
  \/ BeginAux
  \/ EndAux
  \/ Reset

ConstructSpec == ConstructInit /\ [][ConstructNext]_constructVars

-----------------------------------------------------------------------------
Things == DOMAIN mc.things
Waits(t) == \E i \in DOMAIN mc.flowStack : mc.flowStack[i] = t

(* Everything belongs to the module whose code made it.                     *)
Owned == \A t \in Things : mc.things[t].kind # "asm" => mc.things[t].parent = written[t].by

(* Everything is in the list of what surrounds it in the text, a block when *)
(* it is over and has left the stack.                                       *)
Listed ==
  \A t \in Things :
    /\ mc.things[t].list = IF Waits(t) THEN Nobody ELSE written[t].owner
    /\ mc.things[t].around # Nobody => mc.things[t].around = written[t].owner
    /\ mc.things[t].box = written[t].box

(* A module is built after its submodules, and all are in the end.          *)
SubsFirst ==
  \A t \in Things : mc.things[t].kind = "module" =>
    /\ mc.things[t].stage = "MODEL_FLOW_INITED" =>
         \A s \in Things : mc.things[s].list = t /\ mc.things[s].kind = "module" =>
           mc.things[s].stage = "MODEL_FLOW_INITED"
    /\ frames = <<>> => mc.things[t].stage = "MODEL_FLOW_INITED"

(* No assertion of the code fails but the two about boxes.                  *)
WellMade ==
  /\ mc.failed \in {Fine, "full box", "pmVal in a box"}
  /\ Running => Owned /\ Listed /\ SubsFirst
=============================================================================
