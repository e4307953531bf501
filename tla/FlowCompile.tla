---------------------------- MODULE FlowCompile ----------------------------
(***************************************************************************)
(* How a tree of flow blocks becomes a network of nodes                    *)
(* (model/flowBlock: buildHwComponent of every block).                     *)
(*                                                                         *)
(* A program "P" is a function from block identifiers to records           *)
(*                                                                         *)
(*   kind    "asm" "seq" "par" "parMan" "cif" "sif" "cwhile" "swhile"      *)
(*           "cdowhile" "cloop" "sbreak" "scWait" "syWait" "pick"          *)
(*           "stream", and "ele" for an element of a pipStream             *)
(*   sub     the blocks inside it, in source order                         *)
(*   cond    the conditions it tests, in source order                      *)
(*   n       cycles of a syWait, rounds of a cloop, position of the block  *)
(*           a par declares as join master (0: none), 1 for the pickDef of *)
(*           a pick                                                        *)
(*   int     the signals it declares: a subset of {"hold", "rst", "start"} *)
(*                                                                         *)
(* An "asm" is one assignment of a seq, or all the plain assignments of a  *)
(* par, which then stand first in its "sub".                               *)
(*                                                                         *)
(* A node is <<block, role>>.  Its role says what it is made of: "state",  *)
(* "wait", "timer", "cnt", "sync", "waitPrev" and "waitNext" are registers,*)
(* the roles of Gates below are gates, "start" is a signal, "zero" a       *)
(* constant, and "waitUp" the plain bit of a waitNext register.            *)
(***************************************************************************)
EXTENDS Integers, FiniteSets, Sequences, SequencesExt, FiniteSetsExt

Unknown == -1     (* IN_CONSIST_CYCLE_USED *)

(***************************************************************************)
(* The summary of a block (NodeWrap) its parent sees: the nodes that start *)
(* it, the node that exits in its last cycle, the node of a forced exit if *)
(* it holds an sbreak, and the cycles it takes.                            *)
(***************************************************************************)
Summary(ent, exit, force, cyc) ==
  [ent |-> ent, exit |-> exit, force |-> force, cyc |-> cyc]

(* An edge: "to" is triggered when every node of "from" exits, no node of   *)
(* "not" does, and the conditions have the values of "when".  "by" is the   *)
(* block that drew it.                                                      *)
Edge(by, from, not, when, to) ==
  [by |-> by, from |-> from, not |-> not, when |-> when, to |-> to]

Edges(by, from, not, when, tos) == {Edge(by, from, not, when, to) : to \in tos}

-----------------------------------------------------------------------------
(* Static structure.                                                        *)

Parents(P, b) == {a \in DOMAIN P : b \in ToSet(P[a].sub)}

(* A block and the blocks around it.                                        *)
Around(P) ==
  LET f[b \in DOMAIN P] == {b} \cup UNION {f[a] : a \in Parents(P, b)} IN f

(* The blocks whose hold, reset signal reaches b (fillHoldSignalToChild,    *)
(* fillIntRstSignalToChild).                                                *)
Declare(P, around, b, sig) == {a \in around[b] : sig \in P[a].int}

(* Children have larger identifiers than their parent, and one parent.  A   *)
(* pipStream of several elements cannot be held: streamEle.cpp 79 and 92    *)
(* give the hold to the same node, which node.h 172 asserts against.        *)
WellFormed(P) ==
  \A b \in DOMAIN P :
     /\ \A k \in ToSet(P[b].sub) : k \in DOMAIN P /\ k > b /\ Parents(P, k) = {b}
     /\ P[b].kind \in {"par", "parMan"} =>
          \A i \in DOMAIN P[b].sub : P[P[b].sub[i]].kind = "asm" => i = 1
     /\ P[b].kind \in {"scWait", "syWait", "ele"} => "start" \notin P[b].int
     /\ P[b].kind = "stream" =>
          /\ \A k \in ToSet(P[b].sub) : P[k].kind = "ele" /\ Len(P[k].sub) = 1
          /\ Len(P[b].sub) > 1 => Declare(P, Around(P), b, "hold") = {}

-----------------------------------------------------------------------------
(* Cycle determination (NodeWrapCycleDet).                                  *)

(* Mutant: the shortest branch decides. *)
MinCycleHorizon(S) == IF Unknown \in S THEN Unknown ELSE Min(S)

MaxCycleHorizon(S)  == IF Unknown \in S THEN Unknown ELSE Max(S)
SameCycleHorizon(S) == IF Cardinality(S) = 1 THEN Max(S) ELSE Unknown

CycleVertical(cs) ==
  IF Unknown \in ToSet(cs) THEN Unknown ELSE FoldSeq(LAMBDA x, y : x + y, 0, cs)

-----------------------------------------------------------------------------
(* Summaries.  "w" holds the summaries of the children of b.                *)

Kids(P, b) == P[b].sub
Body(P, b) == P[b].sub[1]

(* genSumForceExitNode: one OR of the forced exits of the children.         *)
SumForce(P, b, w) ==
  IF \E k \in ToSet(Kids(P, b)) : w[k].force # {} THEN {<<b, "force">>} ELSE {}

AsmSummary(P, b, w)   == Summary({<<b, "state">>}, <<b, "state">>, {}, 1)
BreakSummary(P, b, w) == Summary({<<b, "state">>}, <<b, "zero">>, {<<b, "state">>}, Unknown)
WaitSummary(P, b, w)  == Summary({<<b, "wait">>},  <<b, "wait">>,  {}, Unknown)
TimerSummary(P, b, w) == Summary({<<b, "timer">>}, <<b, "timer">>, {}, Unknown)

(* The cycles of a seq are those of its assignments, 1 each whether the seq *)
(* is held or not, and of its sub blocks.                                   *)
SeqSummary(P, b, w) ==
  LET kids == Kids(P, b)
  IN  Summary(w[Head(kids)].ent, w[kids[Len(kids)]].exit, SumForce(P, b, w),
              CycleVertical([i \in DOMAIN kids |-> w[kids[i]].cyc]))

(* StateNode::getCycleUsed: the plain assignments of a held par take an     *)
(* unknown time.                                                            *)
BranchCycle(P, held, w, k) ==
  IF P[k].kind = "asm" /\ held THEN Unknown ELSE w[k].cyc

ParCycle(P, b, held, w) ==
  MaxCycleHorizon({BranchCycle(P, held, w, k) : k \in ToSet(Kids(P, b))})

(* Branch of the first node or summary that takes "cyc" cycles.             *)
Match(P, b, held, w, cyc) ==
  LET kids == Kids(P, b)
  IN  kids[Min({i \in DOMAIN kids : BranchCycle(P, held, w, kids[i]) = cyc})]

NeedsSync(P, b, held, w) ==
  /\ P[b].kind = "par"
  /\ P[b].n = 0
  /\ ParCycle(P, b, held, w) = Unknown
  /\ Len(Kids(P, b)) > 1

ParExit(P, b, held, w) ==
  LET cyc == ParCycle(P, b, held, w)
  IN  IF NeedsSync(P, b, held, w)           THEN <<b, "sync">>
      ELSE IF P[b].kind = "par" /\ P[b].n # 0 THEN w[Kids(P, b)[P[b].n]].exit
      ELSE IF cyc # Unknown                 THEN w[Match(P, b, held, w, cyc)].exit
      ELSE IF Len(Kids(P, b)) = 1           THEN w[Body(P, b)].exit
      ELSE <<b, "exit">>

ParSummary(P, b, held, w) ==
  Summary(UNION {w[k].ent : k \in ToSet(Kids(P, b))},
          ParExit(P, b, held, w), SumForce(P, b, w), ParCycle(P, b, held, w))

(* The node that tests the condition: a gate, or a state of its own.        *)
CondNode(P, b) ==
  IF P[b].kind \in {"sif", "swhile"} THEN <<b, "state">> ELSE <<b, "cif">>

HasElse(P, b) == Len(Kids(P, b)) > Len(P[b].cond)

IfSummary(P, b, w) ==
  LET cyc == SameCycleHorizon({w[k].cyc : k \in ToSet(Kids(P, b))}
                                \cup IF HasElse(P, b) THEN {} ELSE {0})
  IN  Summary({CondNode(P, b)}, <<b, "exit">>, SumForce(P, b, w),
              IF cyc # Unknown /\ P[b].kind = "sif" THEN cyc + 1 ELSE cyc)

(* With a pickDef the pick may take no cycle at all.                        *)
PickSummary(P, b, w) ==
  Summary({<<b, "joint">>}, <<b, "exit">>, SumForce(P, b, w),
          SameCycleHorizon({w[k].cyc : k \in ToSet(Kids(P, b))}
                             \cup IF P[b].n = 0 THEN {} ELSE {0}))

(* A pipStream starts all its elements and never exits (its exit node is a  *)
(* dummy of the value 0); a forced exit inside it ends there.               *)
StreamSummary(P, b, w) ==
  Summary(UNION {w[k].ent : k \in ToSet(Kids(P, b))}, <<b, "zero">>, {}, Unknown)

ElementSummary(P, b, w) == Summary({<<b, "waitPrev">>}, <<b, "zero">>, {}, Unknown)

(* A loop with a condition consumes the forced exit; a counted loop hands   *)
(* it up and is not stopped by it.                                          *)
WhileSummary(P, b, w) == Summary({CondNode(P, b)}, <<b, "exit">>, {}, Unknown)

DoWhileSummary(P, b, w) == Summary(w[Body(P, b)].ent, <<b, "exit">>, {}, Unknown)

LoopSummary(P, b, w) ==
  LET body == w[Body(P, b)]
  IN  Summary({<<b, "ent">>}, <<b, "exit">>, body.force,
              IF body.cyc = Unknown THEN Unknown ELSE body.cyc * P[b].n)

Summaries(P, around) ==
  LET w[b \in DOMAIN P] ==
        CASE P[b].kind = "asm"                -> AsmSummary(P, b, w)
          [] P[b].kind = "seq"                -> SeqSummary(P, b, w)
          [] P[b].kind \in {"par", "parMan"}  ->
               ParSummary(P, b, Declare(P, around, b, "hold") # {}, w)
          [] P[b].kind \in {"cif", "sif"}     -> IfSummary(P, b, w)
          [] P[b].kind = "pick"               -> PickSummary(P, b, w)
          [] P[b].kind = "stream"             -> StreamSummary(P, b, w)
          [] P[b].kind = "ele"                -> ElementSummary(P, b, w)
          [] P[b].kind \in {"cwhile", "swhile"} -> WhileSummary(P, b, w)
          [] P[b].kind = "cdowhile"           -> DoWhileSummary(P, b, w)
          [] P[b].kind = "cloop"              -> LoopSummary(P, b, w)
          [] P[b].kind = "sbreak"             -> BreakSummary(P, b, w)
          [] P[b].kind = "scWait"             -> WaitSummary(P, b, w)
          [] P[b].kind = "syWait"             -> TimerSummary(P, b, w)
  IN  w

-----------------------------------------------------------------------------
(* Edges.                                                                   *)

(* A branch of a pick looks at its own condition only.                      *)
BranchAlone(P, b, i) == {<<P[b].cond[j], TRUE>> : j \in {i} \cap DOMAIN P[b].cond}

(* The conditions of branch i: its own holds and the earlier ones do not.   *)
BranchTaken(P, b, i) ==
  {<<P[b].cond[j], FALSE>> : j \in 1..(i-1)}
    \cup {<<P[b].cond[j], TRUE>> : j \in {i} \cap DOMAIN P[b].cond}

NoneTaken(P, b) == {<<c, FALSE>> : c \in ToSet(P[b].cond)}

ForceEdges(P, b, w) ==
  {Edge(b, w[k].force, {}, {}, <<b, "force">>) :
     k \in {k \in ToSet(Kids(P, b)) : w[k].force # {} /\ w[b].force = {<<b, "force">>}}}

SeqEdges(P, b, w) ==
  LET kids == Kids(P, b)
  IN  UNION {Edges(b, {w[kids[i]].exit}, {}, {}, w[kids[i+1]].ent) : i \in 1..(Len(kids)-1)}

(* Only the OR gate of an unsynchronised par is an edge: the branches of a  *)
(* sync node are not (see Joins).                                           *)
ParEdges(P, b, w) ==
  IF w[b].exit # <<b, "exit">> THEN {}
  ELSE UNION {Edges(b, {w[k].exit}, {}, {}, {<<b, "exit">>}) : k \in ToSet(Kids(P, b))}

(* Mutant: an if whose conditions are all false has no way out. *)
IfEdgesNoExit(P, b, w) ==
  LET kids == Kids(P, b)
  IN  UNION {Edges(b, {CondNode(P, b)}, {}, BranchTaken(P, b, i), w[kids[i]].ent) :
               i \in DOMAIN kids}
      \cup {Edge(b, {w[k].exit}, {}, {}, <<b, "exit">>) : k \in ToSet(kids)}

IfEdges(P, b, w) ==
  LET kids == Kids(P, b)
      test == {CondNode(P, b)}
  IN  UNION {Edges(b, test, {}, BranchTaken(P, b, i), w[kids[i]].ent) : i \in DOMAIN kids}
      \cup {Edge(b, {w[k].exit}, {}, {}, <<b, "exit">>) : k \in ToSet(kids)}
      \cup IF HasElse(P, b) THEN {} ELSE {Edge(b, test, {}, NoneTaken(P, b), <<b, "exit">>)}

PickEdges(P, b, w) ==
  LET kids  == Kids(P, b)
      joint == {<<b, "joint">>}
  IN  UNION {Edges(b, joint, {}, BranchAlone(P, b, i), w[kids[i]].ent) : i \in DOMAIN kids}
      \cup {Edge(b, {w[k].exit}, {}, {}, <<b, "exit">>) : k \in ToSet(kids)}
      \cup IF P[b].n = 0 THEN {} ELSE {Edge(b, joint, {}, NoneTaken(P, b), <<b, "exit">>)}

(* An element accepts an item while it waits for one or passes its own on,  *)
(* and is ready while its block ends or waits to pass the item on.          *)
ElementWires(b, fin) ==
  {Edge(b, {<<b, "synced">>},   {}, {}, <<b, "accept">>),
   Edge(b, {<<b, "waitPrev">>}, {}, {}, <<b, "accept">>),
   Edge(b, {<<b, "waitUp">>},   {}, {}, <<b, "ready">>),
   Edge(b, {fin},               {}, {}, <<b, "ready">>)}

(* Mutant: an element does not ask the next one before it passes on. *)
PassOnBlind(b, next, fin) ==
  {Edge(b, {<<b, "ready">>}, {}, {}, <<b, "synced">>)}
    \cup {Edge(b, {src}, {<<f, "accept">>}, {}, <<b, "waitNext">>) :
            src \in {fin, <<b, "waitNext">>}, f \in next}

(* It passes on when the next one accepts (the last one at once), and waits *)
(* for it otherwise.  "next" and "prev" hold the neighbour, if any.         *)
PassOn(b, next, fin) ==
  {Edge(b, {<<b, "ready">>} \cup {<<f, "accept">> : f \in next}, {}, {}, <<b, "synced">>)}
    \cup {Edge(b, {src}, {<<f, "accept">>}, {}, <<b, "waitNext">>) :
            src \in {fin, <<b, "waitNext">>}, f \in next}

(* It takes the item of the previous one when that is ready (the first one  *)
(* starts again at once), and waits for it otherwise.                       *)
TakeIn(b, prev, ents) ==
  LET free == {<<b, "waitPrev">>, <<b, "synced">>}
  IN  {Edge(b, {src} \cup {<<p, "ready">> : p \in prev}, {}, {}, <<b, "ent">>) : src \in free}
      \cup {Edge(b, {src}, {<<p, "ready">>}, {}, <<b, "waitPrev">>) : src \in free, p \in prev}
      \cup Edges(b, {<<b, "ent">>}, {}, {}, ents)

StreamEdges(P, b, w) ==
  LET kids == Kids(P, b)
  IN  UNION {LET body == w[Body(P, kids[i])]
             IN  ElementWires(kids[i], body.exit)
                   \cup PassOn(kids[i], {kids[j] : j \in {i + 1} \cap DOMAIN kids}, body.exit)
                   \cup TakeIn(kids[i], {kids[j] : j \in {i - 1} \cap DOMAIN kids}, body.ent)
               : i \in DOMAIN kids}

(* Mutant: the body that ends by a forced exit still loops. *)
WhileEdgesNoForce(P, b, w) ==
  LET body == w[Body(P, b)]
      test == CondNode(P, b)
  IN  Edges(b, {test}, {}, BranchTaken(P, b, 1), body.ent)
      \cup {Edge(b, {body.exit}, {}, {}, test)}
      \cup {Edge(b, {test}, {}, {<<c, FALSE>>}, <<b, "exit">>) : c \in ToSet(P[b].cond)}

(* cwhile(true) tests nothing; without an sbreak nothing leads to its exit. *)
WhileEdges(P, b, w) ==
  LET body == w[Body(P, b)]
      test == CondNode(P, b)
  IN  Edges(b, {test}, {}, BranchTaken(P, b, 1), body.ent)
      \cup {Edge(b, {body.exit}, body.force, {}, test)}
      \cup {Edge(b, {test}, {}, {<<c, FALSE>>}, <<b, "exit">>) : c \in ToSet(P[b].cond)}
      \cup {Edge(b, {f}, {}, {}, <<b, "exit">>) : f \in body.force}

DoWhileEdges(P, b, w) ==
  LET body == w[Body(P, b)]
  IN  Edges(b, {body.exit}, body.force, BranchTaken(P, b, 1), body.ent)
      \cup {Edge(b, {body.exit}, {}, NoneTaken(P, b), <<b, "exit">>)}
      \cup {Edge(b, {f}, {}, {}, <<b, "exit">>) : f \in body.force}

LoopEdges(P, b, w) ==
  LET body == w[Body(P, b)]
      last == <<b, "cnt">>
  IN  {Edge(b, {<<b, "ent">>}, {}, {}, <<b, "loop">>),
       Edge(b, {body.exit}, {last}, {}, <<b, "loop">>),
       Edge(b, {body.exit, last}, {}, {}, <<b, "exit">>)}
      \cup Edges(b, {<<b, "loop">>}, {}, {}, body.ent)

(* A block with a start interrupt is entered by it as by its parent.        *)
StartEdges(P, b, w) ==
  IF "start" \in P[b].int THEN Edges(b, {<<b, "start">>}, {}, {}, w[b].ent) ELSE {}

BlockEdges(P, b, w) ==
  CASE P[b].kind = "seq"                  -> SeqEdges(P, b, w)
    [] P[b].kind \in {"par", "parMan"}    -> ParEdges(P, b, w)
    [] P[b].kind \in {"cif", "sif"}       -> IfEdges(P, b, w)
    [] P[b].kind \in {"cwhile", "swhile"} -> WhileEdges(P, b, w)
    [] P[b].kind = "pick"                 -> PickEdges(P, b, w)
    [] P[b].kind = "stream"               -> StreamEdges(P, b, w)
    [] P[b].kind = "cdowhile"             -> DoWhileEdges(P, b, w)
    [] P[b].kind = "cloop"                -> LoopEdges(P, b, w)
    [] OTHER                              -> {}

(* Module::buildFlow: the start node enters every top level block.          *)
ModuleStart == <<0, "start">>

TopEdges(P, w) ==
  UNION {Edges(0, {ModuleStart}, {}, {}, w[b].ent) :
           b \in {b \in DOMAIN P : Parents(P, b) = {}}}

-----------------------------------------------------------------------------
(* The network of a program.                                                *)

Nodes(w, edges) ==
  UNION {e.from \cup e.not \cup {e.to} : e \in edges}
    \cup UNION {w[b].ent \cup {w[b].exit} \cup w[b].force : b \in DOMAIN w}

Compile(P) ==
  LET around == Around(P)
      w      == Summaries(P, around)
      edges  == TopEdges(P, w)
                  \cup UNION {BlockEdges(P, b, w) \cup ForceEdges(P, b, w)
                                \cup StartEdges(P, b, w) : b \in DOMAIN P}
      nodes  == Nodes(w, edges)
  IN  [wrap   |-> w,
       edges  |-> edges,
       nodes  |-> nodes,
       into   |-> [n \in nodes |-> {e \in edges : e.to = n}],
       holds  |-> [b \in DOMAIN P |-> Declare(P, around, b, "hold")],
       rsts   |-> [b \in DOMAIN P |-> Declare(P, around, b, "rst")],
       around |-> around]

(***************************************************************************)
(* The gates and sync nodes are combinational.  A program whose network    *)
(* has a cycle of them (a cwhile directly in a cwhile) is refused when it  *)
(* is built (proxyBuildMng.cpp, doTopologySort).                           *)
(***************************************************************************)
GateRoles == {"cif", "joint", "ent", "loop", "exit", "force", "accept", "ready", "synced"}

Gates(net) == {n \in net.nodes : n[2] \in GateRoles \cup {"sync"}}

Reads(P, net, n) ==
  UNION {e.from \cup e.not : e \in net.into[n]}
    \cup IF n[2] = "sync"
         THEN {net.wrap[k].exit : k \in ToSet(P[n[1]].sub)} \cup net.wrap[n[1]].force
         ELSE {}

Buildable(P) ==
  LET net == Compile(P)
      settled[i \in Nat] ==
        IF i = 0 THEN net.nodes \ Gates(net)
        ELSE LET before == settled[i-1]
             IN  before \cup {n \in Gates(net) : Reads(P, net, n) \subseteq before}
  IN  settled[Cardinality(net.nodes)] = net.nodes
=============================================================================
