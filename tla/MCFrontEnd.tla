---------------------------- MODULE MCFrontEnd ----------------------------
(***************************************************************************)
(* Instances of FrontEnd and Construct, and what the blocks and events of  *)
(* FrontEnd have to do with the text they come from.  The left side of     *)
(* every comparison is read off the flow blocks, the right side off the    *)
(* text alone.  A behaviour runs one of the two while the other stands     *)
(* still.                                                                  *)
(***************************************************************************)
EXTENDS FrontEnd, Construct, FiniteSetsExt

VARIABLE part    \* the one that runs: "flow" or "design"

Sorted(S) == SetToSortSeq(S, <)

-----------------------------------------------------------------------------
(* Structure.                                                               *)

ItemAt(c, i) == IF i.is = "sub" THEN c.block[i.block].at ELSE i.at

(* A zif or ztate in a block leaves one assignment for each class.          *)
RemoveRepeats(s) ==
  FoldLeft(LAMBDA r, x : IF r # <<>> /\ Last(r) = x THEN r ELSE Append(r, x), <<>>, s)

ItemsOf(c, b) ==
  LET items == IF c.block[b].implicit = 0 THEN c.block[b].items
               ELSE c.block[c.block[b].implicit].items
  IN RemoveRepeats([i \in DOMAIN items |-> ItemAt(c, items[i])])

Statements(u) == Sorted({i \in Within(u) : text[i].kind \notin Arms})
ArmsOf(u)     == Sorted({i \in DOMAIN text : text[i].head = u})

(* The innermost seq or par around a statement says how an implicit block   *)
(* runs.                                                                    *)
PatternAround ==
  LET f[u \in 0 .. Len(text)] ==
        IF u = Module THEN "par"
        ELSE IF text[u].kind \in Patterns
             THEN IF text[u].kind = "seq" THEN "seq" ELSE "par"
             ELSE f[text[u].up]
  IN f

(* However the user nests blocks and chains, and wherever a lazy block is    *)
(* purged: no assertion fails, and every block holds the statements that     *)
(* stand between its braces, in their order, followed by its elif and else   *)
(* arms; its implicit block runs as the innermost seq or par around it.      *)
BuiltAsWritten ==
  /\ phase # "abort"
  /\ phase = "built" =>
       /\ [i \in DOMAIN ctl.top |-> ctl.block[ctl.top[i]].at] = Statements(Module)
       /\ \A b \in DOMAIN ctl.block :
            LET blk == ctl.block[b]
                byUser == text[blk.at].kind = blk.kind
            IN byUser /\ blk.kind \notin ZKinds =>
                 /\ ItemsOf(ctl, b) = Statements(blk.at)
                 /\ [i \in DOMAIN blk.cons |-> ctl.block[blk.cons[i]].at] = ArmsOf(blk.at)
                 /\ blk.implicit # 0 =>
                      ctl.block[blk.implicit].kind = PatternAround[text[blk.at].up]

-----------------------------------------------------------------------------
(* Meaning.  A valuation gives the conditions and the selector values.      *)

Nothing == 0
Holds(cond, env) == \A l \in cond : env[l.cond] = l.is

(* What an event leaves in a register that holds v.                         *)
RECURSIVE Run(_, _, _)
Run(event, env, v) ==
  CASE event.type = "basic" -> event.val
    [] event.type = "dummy" -> v
    [] event.type = "grp" -> FoldLeft(LAMBDA w, e : Run(e, env, w), v, event.stmts)
    [] event.type = "cond" ->
         LET i == SelectInSeq(event.arms, LAMBDA a : Holds(a.cond, env))
         IN IF i = 0 THEN v ELSE Run(event.arms[i].stmt, env, v)
    [] event.type = "switch" ->
         LET i == SelectInSeq(event.arms, LAMBDA a : a.cond = env[event.iden])
             d == SelectInSeq(event.arms, LAMBDA a : a.cond = DefaultCase)
         IN IF i # 0 THEN Run(event.arms[i].stmt, env, v)
            ELSE IF d # 0 THEN Run(event.arms[d].stmt, env, v) ELSE v

(* What the assignments of block b leave in a register.                     *)
Outcome(b, reg, env) ==
  FoldLeft(LAMBDA v, m : Run(m.event, env, v), Nothing,
           SortEvents(SelectSeq(EventsOf(ctl, b), LAMBDA m : m.pool = reg)))

-----------------------------------------------------------------------------
(* The same from the text: of the assignments whose conditions hold, the    *)
(* last one of the highest priority.                                        *)

EarlierArms(u) == {i \in DOMAIN text : i < u /\ (i = text[u].head \/ (text[u].head # 0 /\ text[i].head = text[u].head))}

Taken(u, env) ==
  CASE text[u].kind = "zif" -> env[text[u].arg]
    [] text[u].kind = "zelif" -> env[text[u].arg] /\ \A a \in EarlierArms(u) : ~env[text[a].arg]
    [] text[u].kind = "zelse" -> \A a \in EarlierArms(u) : ~env[text[a].arg]
    [] text[u].kind = "ztate" -> TRUE
    [] text[u].kind = "zcase" ->
         \/ text[u].arg = env[text[text[u].up].arg]
         \/ /\ text[u].arg = DefaultCase
            /\ \A o \in Within(text[u].up) : text[o].arg # env[text[text[u].up].arg]

(* The block an assignment belongs to, through the zifs and ztates around.  *)
Owner ==
  LET f[i \in 0 .. Len(text)] ==
        IF i = Module \/ text[i].kind \notin ZKinds THEN i ELSE f[text[i].up]
  IN f

Around ==
  LET f[i \in 0 .. Len(text)] == IF i = Module THEN {} ELSE {i} \cup f[text[i].up] IN f

AssignsOf(u, reg) ==
  {i \in DOMAIN text : text[i].kind = "assign" /\ text[i].arg.reg = reg /\ Owner[text[i].up] = u}

Wanted(u, reg, env) ==
  LET done == {i \in AssignsOf(u, reg) :
                 \A z \in Around[text[i].up] : text[z].kind \in ZKinds => Taken(z, env)}
      best == {i \in done : \A j \in done : text[j].arg.priority <= text[i].arg.priority}
  IN IF done = {} THEN Nothing ELSE Max(best)

Valuations ==
  {[c \in menu.conds \cup {"state", "select"} |->
      CASE c = "state" -> TRUE
        [] c = "select" -> choice
        [] c \notin {"state", "select"} -> c \in true] :
     choice \in menu.cases \cup {DefaultCase}, true \in SUBSET menu.conds}

(* The blocks whose assignments all belong to one state.                    *)
AssignBlocks == {Module} \cup {b \in DOMAIN ctl.block : ctl.block[b].kind \in {"par", "parMan", "zync"}}
TextOf(b) == IF b = Module THEN Module ELSE ctl.block[b].at

(* The arms of a chain that assign a register with a priority are the first *)
(* ones, or only one: an arm between them that does not is forgotten.  And  *)
(* a default case is the last of its ztate.                                 *)
Regular(u, reg) ==
  /\ \A h \in DOMAIN text : text[h].kind = "zif" /\ Owner[h] = u =>
       \A p \in menu.priorities :
         LET arms == <<h>> \o ArmsOf(h)
             assigns == {i \in AssignsOf(u, reg) : text[i].arg.priority = p}
             used == {k \in DOMAIN arms : \E i \in assigns : arms[k] \in Around[i]}
         IN used = 1 .. Cardinality(used) \/ Cardinality(used) = 1
  /\ \A d \in DOMAIN text : text[d].kind = "zcase" /\ text[d].arg = DefaultCase =>
       \A o \in Within(text[d].up) : o <= d

AsWritten(b, reg) ==
  \A env \in Valuations : Outcome(b, reg, env) = Wanted(TextOf(b), reg, env)

(* Whatever is assigned in zifs and ztates inside each other, with whatever  *)
(* priorities: a register gets the value of the last assignment of highest   *)
(* priority whose conditions hold, although its assignments are taken out of *)
(* their blocks, sorted into classes, merged over the arms and sorted again. *)
AssignsAsWritten ==
  phase = "built" =>
    \A b \in AssignBlocks : \A reg \in menu.regs : Regular(TextOf(b), reg) => AsWritten(b, reg)

-----------------------------------------------------------------------------
(* Menus for users of flow blocks.                                          *)
Menu(kinds, conds, cases, regs, priorities, max) ==
  [kinds |-> kinds, conds |-> conds, cases |-> cases, regs |-> regs,
   priorities |-> priorities, max |-> max]

(* Blocks in blocks: chains after chains, in and beside loops and patterns. *)
Structures ==
  {Menu(k, {}, {}, {"x"}, {10}, 7) :
     k \in {{"seq", "cif", "celse"}, {"par", "cif", "celif"}, {"cwhile", "seq", "sif", "celse"}}}
  \cup
  {Menu(k, {"a"}, {}, {"x"}, {10}, 5) :
     k \in {{"pick", "pif", "seq", "cloop"}, {"pip", "zync", "seq", "cif"},
            {"stream", "seq", "cdowhile", "sbreak"}, {"parMan", "scWait", "syWait", "zif"},
            {"zif", "zelse", "seq", "cif"}}}

(* Conditional assignments.                                                 *)
Conditionals ==
  {Menu({"zif", "zelif", "zelse"}, {"a", "b"}, {}, {"x"}, {10}, 7),
   Menu({"zif", "zelse", "par"}, {"a"}, {}, {"x", "y"}, {10}, 6),
   Menu({"zif", "zelif"}, {"a", "b"}, {}, {"x"}, {10, 11}, 6),
   Menu({"ztate", "zcase"}, {}, {0, 1, DefaultCase}, {"x", "y"}, {10}, 7),
   Menu({"ztate", "zcase", "zif"}, {"a"}, {0, DefaultCase}, {"x"}, {10}, 7)}

All == Structures \cup Conditionals

-----------------------------------------------------------------------------
(* Sketches of designs.                                                     *)
Sketch(elements, users, boxes, modules, blocks, assigned, max) ==
  [elements |-> elements, users |-> users, boxes |-> boxes, modules |-> modules,
   blocks |-> blocks, assigned |-> assigned, max |-> max]

(* All kinds of elements in and beside boxes; boxes that become full; and   *)
(* modules, interfaces and blocks that are written inside each other.       *)
Designs ==
  {Sketch(Elements, BOOLEAN, TRUE, FALSE, {}, Assigned, 4),
   Sketch({"reg"}, {TRUE}, TRUE, FALSE, {}, {}, 9),
   Sketch({"itf"}, {FALSE}, FALSE, TRUE, Blocks, {"wire"}, 7)}

(* Which one runs is seen from what is written with.                        *)
NoMenu   == Menu({}, {}, {}, {}, {}, 0)
NoSketch == Sketch({}, {}, FALSE, FALSE, {}, {}, 2)

MCMenus    == All \cup {NoMenu}
MCSketches == Designs \cup {NoSketch}

MCInit == /\ Init /\ ConstructInit
          /\ part \in {"flow", "design"}
          /\ part = "flow" <=> menu # NoMenu
          /\ part = "design" <=> sketch # NoSketch
MCNext == \/ part = "flow" /\ Next /\ UNCHANGED <<constructVars, part>>
          \/ part = "design" /\ ConstructNext /\ UNCHANGED <<vars, part>>
MCSpec == MCInit /\ [][MCNext]_<<vars, constructVars, part>>
=============================================================================
