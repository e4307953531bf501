---------------------------- MODULE VerilogGen ----------------------------
(***************************************************************************)
(* The Verilog that is generated for a design whose elements are in modules*)
(* (gen).  An element may read any other, wherever it is; what is in       *)
(* another module is routed to it through ports and wires that are made    *)
(* for it.  The wires are named by their kind, their module and what they  *)
(* carry; the order of ports, which is the same in the head of a module    *)
(* and where it is used, is left out.                                      *)
(***************************************************************************)
EXTENDS SimEngine

CONSTANTS
  Parent,       \* [Designs -> for every module, the one it is in; 0 for the top]
  Home,         \* [Designs -> [elements -> their module]]
  GlobOutputs   \* [Designs -> the elements that are outputs of the top module]

TopModule == 1

(* What is carried: an element e, or -e for the port that sets an input e.  *)
ModuleOf(d, s) == IF s < 0 THEN TopModule ELSE Home[d][s]
Own(d, s)      == <<"own", ModuleOf(d, s), s>>
Subs(d, m)     == {k \in DOMAIN Parent[d] : Parent[d][k] = m}

IsMarked(d, e, mark) == d[e].kind = "wire" /\ d[e].mark = mark

-----------------------------------------------------------------------------
(* Routing (ModuleGen).                                                     *)

Path(d, m) ==
  LET up[k \in DOMAIN Parent[d]] ==
        IF Parent[d][k] = 0 THEN <<k>> ELSE <<k>> \o up[Parent[d][k]]
  IN up[m]

Apogee(d, m, s) ==
  LET p == Path(d, m)
  IN p[Min({i \in DOMAIN p : Contains(Path(d, ModuleOf(d, s)), p[i])})]

(* The modules from m to the one below an apogee.                           *)
Climb(d, m, apogee) ==
  SelectSeq(Path(d, m), LAMBDA k : k # apogee /\ Contains(Path(d, k), apogee))

IsUserOutput(d, m, s) == s > 0 /\ IsMarked(d, s, "out") /\ Parent[d][Home[d][s]] = m
IsSeen(d, m, s)       == ModuleOf(d, s) = m \/ IsUserOutput(d, m, s)

(* Mutant: the wire of another module that carries the same is taken. *)
RoutedAsInput(d, m, s) ==
  IF IsSeen(d, m, s) THEN Own(d, s) ELSE <<"ABD", Apogee(d, m, s), s>>

(* The name by which a module knows what it reads.                          *)
RoutedAs(d, m, s) ==
  IF IsSeen(d, m, s) THEN Own(d, s)
  ELSE IF Apogee(d, m, s) = m THEN <<"ABD", m, s>> ELSE <<"AIP", m, s>>

(* r: for every wire that is made, what it is connected to.                 *)
GenAutoWireBase(r, name, from) ==
  IF name \in DOMAIN r THEN r ELSE r @@ (name :> from)

(* Wires of a kind, in one module after the other, each from the last.      *)
Chain(r, kind, modules, s, first) ==
  FoldLeft(LAMBDA c, k : [r |-> GenAutoWireBase(c.r, <<kind, k, s>>, <<c.last>>),
                          last |-> <<kind, k, s>>],
           [r |-> r, last |-> first], modules)

RouteSrcOprToThisModule(d, r, m, s) ==
  IF IsSeen(d, m, s) THEN r
  ELSE LET apogee    == Apogee(d, m, s)
           interWire == <<"ABD", apogee, s>>
           down      == Chain(GenAutoWireBase(r, interWire, <<>>), "AIP",
                              Reverse(Climb(d, m, apogee)), s, interWire)
           up        == Chain(down.r, "AOP", Climb(d, ModuleOf(d, s), apogee), s, Own(d, s))
       IN [up.r EXCEPT ![interWire] = Append(@, up.last)]

(* routeDep: what an element has to be able to read.  The marked wires are  *)
(* connected by what they are written with.                                 *)
RouteDep(d, e) ==
  CASE d[e].kind = "input" -> <<-e>>
    [] d[e].kind = "wire" /\ d[e].mark # "none" -> <<>>
    [] OTHER -> ProxyBuildInit(d)[e]

(* The outputs of the top module first, then the modules below before those *)
(* above.                                                                   *)
StartRouteEle(d) ==
  LET outs    == [i \in 1 .. Cardinality(GlobOutputs[d]) |->
                    <<TopModule, SetToSortSeq(GlobOutputs[d], <)[i]>>]
      Of(e)   == [i \in DOMAIN RouteDep(d, e) |-> <<Home[d][e], RouteDep(d, e)[i]>>]
      modules == Reverse([m \in DOMAIN Parent[d] |-> m])
      asks    == outs \o FlattenSeq([i \in DOMAIN modules |->
                   FlattenSeq([e \in DOMAIN d |-> IF Home[d][e] = modules[i] THEN Of(e) ELSE <<>>])])
  IN FoldLeft(LAMBDA r, ask : RouteSrcOprToThisModule(d, r, ask[1], ask[2]), <<>>, asks)

Routes == [d \in Designs |-> StartRouteEle(d)]

-----------------------------------------------------------------------------
(* What is written for a module (startWriteFile, getIoDec).  r: the wires   *)
(* that are made.                                                           *)

GenWires(r, kind, m) == {n \in DOMAIN r : n[1] = kind /\ n[2] = m}
OwnOf(d, m, kinds)   == {Own(d, e) : e \in {e \in OfKind(d, kinds) : Home[d][e] = m}}
MarkedOf(d, m, mark) == {n \in OwnOf(d, m, {"wire"}) : IsMarked(d, n[3], mark)}
GlobOutput(e)        == <<"out", TopModule, e>>

InPorts(d, r, m) ==
  MarkedOf(d, m, "in") \cup GenWires(r, "AIP", m)
    \cup (IF m = TopModule THEN {Own(d, -e) : e \in OfKind(d, {"input"})} ELSE {})

OutPorts(d, r, m) ==
  MarkedOf(d, m, "out") \cup GenWires(r, "AOP", m)
    \cup (IF m = TopModule THEN {GlobOutput(e) : e \in GlobOutputs[d]} ELSE {})

SubInputs(d, r, m)  == UNION {InPorts(d, r, k) : k \in Subs(d, m)}
SubOutputs(d, r, m) == UNION {OutPorts(d, r, k) : k \in Subs(d, m)}

Logic(d, m) ==
  OwnOf(d, m, {"reg", "input", "expr", "nest", "read"}) \cup MarkedOf(d, m, "none")

Declared(d, r, m) ==
  InPorts(d, r, m) \cup OutPorts(d, r, m) \cup Logic(d, m) \cup OwnOf(d, m, {"val", "mem"})
    \cup SubInputs(d, r, m) \cup SubOutputs(d, r, m) \cup GenWires(r, "ABD", m)

Assigned(d, r, m) ==
  Logic(d, m) \cup OutPorts(d, r, m) \cup SubInputs(d, r, m) \cup GenWires(r, "ABD", m)

(* The names that stand on the right of an assignment.                      *)
ReadBy(d, r, m, n) ==
  CASE n[1] \in {"AIP", "AOP", "ABD"} -> {Head(r[n])}
    [] n[1] = "out" -> {RoutedAs(d, m, n[3])}
    [] n[1] = "own" ->
         IF d[n[3]].kind = "wire" /\ d[n[3]].mark # "none"
         THEN {Own(d, s) : s \in ToSet(ProxyBuildInit(d)[n[3]])}
         ELSE {RoutedAs(d, m, s) : s \in ToSet(RouteDep(d, n[3]))}

(* The text is a design in Verilog: all that a module names is declared in  *)
(* it, and whatever is not one of its inputs is driven there, by one thing. *)
WellFormed(d, r) ==
  \A m \in DOMAIN Parent[d] :
    /\ \A n \in Assigned(d, r, m) \cup OwnOf(d, m, {"write"}) : ReadBy(d, r, m, n) \subseteq Declared(d, r, m)
    /\ Assigned(d, r, m) \cap (InPorts(d, r, m) \cup SubOutputs(d, r, m)) = {}

-----------------------------------------------------------------------------
(* What the text means.  "now" is what a module reads by a source.          *)

(* A nest is written with its last part in front.                           *)
DecOpNest(ele, now) ==
  FoldLeft(LAMBDA v, o : v * 2^Size(o.sl) + Worth(o, now), 0, Reverse(ele.parts))

DecOpExpr(ele, now) == Operation(ele, Worth(ele.a, now), IF ele.b = None THEN 0 ELSE Worth(ele.b, now))

(* name[des] = value, of which the high bits are left out.                  *)
AssignmentLine(des, src, now, old) ==
  old + 2^des[1] * ((Worth(src, now) % 2^Size(des)) - Part(old, des))

(* A chain of if and else if, in which 1'b1 stands for no condition.        *)
GenAss(ev, now, old) ==
  IF Fires(ev, now)
  THEN LET arm == TakenArm(ev, now) IN AssignmentLine(arm.des, arm.val, now, old)
  ELSE old

(* An always block: event after event, the last assignment of a bit counts. *)
AssignOpWithSoleCondition(ele, now, old) ==
  FoldLeft(LAMBDA v, ev : GenAss(ev, now, v), old, SortByPriority(ele.pool))

GenBasicConnect(ele, now) == Worth(ele.pool[1].arms[1].val, now)

ScopedNames(d, r) == UNION {{m} \X Declared(d, r, m) : m \in DOMAIN Parent[d]}

NetValues(d, r, held) ==
  LET net[w \in ScopedNames(d, r)] ==
        LET m == w[1]
            n == w[2]
            s == n[3]
            Now   == [t \in DOMAIN d |-> net[<<m, RoutedAs(d, m, t)>>]]
            Plain == [t \in DOMAIN d |-> net[<<m, Own(d, t)>>]]
        IN
        CASE n \in InPorts(d, r, m)    -> IF m = TopModule THEN held[-s] ELSE net[<<Parent[d][m], n>>]
          [] n \in SubOutputs(d, r, m) -> net[<<n[2], n>>]
          [] n[1] \in {"AIP", "AOP", "ABD"} /\ n \notin InPorts(d, r, m) \cup SubOutputs(d, r, m)
                                    -> net[<<m, Head(r[n])>>]
          [] n[1] = "out"           -> Now[s]
          [] n[1] = "own" /\ n \notin InPorts(d, r, m) \cup SubOutputs(d, r, m) ->
               CASE d[s].kind = "reg"   -> held[s]
                 [] d[s].kind = "input" -> net[<<m, RoutedAs(d, m, -s)>>]
                 [] d[s].kind = "val"   -> d[s].val
                 [] d[s].kind = "mem"   -> 0
                 [] d[s].kind = "expr"  -> DecOpExpr(d[s], Now)
                 [] d[s].kind = "nest"  -> DecOpNest(d[s], Now)
                 [] d[s].kind = "read"  -> held[d[s].mem][Worth(d[s].index, Now)]
                 [] d[s].kind = "wire"  -> IF d[s].mark # "none" THEN GenBasicConnect(d[s], Plain)
                                           ELSE AssignOpWithSoleCondition(d[s], Now, 0)
  IN net

SeenIn(d, net, m) == [t \in DOMAIN d |-> net[<<m, RoutedAs(d, m, t)>>]]

(* What an edge may leave: the blocks that write one cell run in any order. *)
EdgeLeaves(d, edge, held, now, e) ==
  LET Hits(c) == {w \in OfKind(d, {"write"}) :
                   /\ d[w].mem = e /\ d[w].clk = edge /\ Worth(d[w].index, now) = c
                   /\ \E i \in DOMAIN d[w].pool : Fires(d[w].pool[i], now)}
  IN CASE d[e].kind = "reg" /\ d[e].clk = edge -> {AssignOpWithSoleCondition(d[e], now, held[e])}
       [] d[e].kind = "input" \/ (d[e].kind = "reg" /\ d[e].clk # edge) -> {held[e]}
       [] d[e].kind = "mem" ->
            {f \in [DOMAIN held[e] -> {held[e][c] : c \in DOMAIN held[e]}
                                        \cup {AssignOpWithSoleCondition(d[w], now, 0) : w \in OfKind(d, {"write"})}] :
               \A c \in DOMAIN f :
                 IF Hits(c) = {} THEN f[c] = held[e][c]
                 ELSE \E w \in Hits(c) : f[c] = AssignOpWithSoleCondition(d[w], now, 0)}

-----------------------------------------------------------------------------
(* net: what every name of the text is worth.                               *)
TextAgrees(d, r, held, net) ==
  /\ WellFormed(d, r)
  /\ \A e \in GlobOutputs[d] : net[<<TopModule, GlobOutput(e)>>] = Settled(d, held)[e]
  /\ \A edge \in {"neg", "pos"} : \A e \in Stateful(d) :
       AtEdge(d, edge, held)[e] \in EdgeLeaves(d, edge, held, SeenIn(d, net, Home[d][e]), e)

AsWritten(d, r, held) == TextAgrees(d, r, held, NetValues(d, r, held))

(* However a design is spread over modules, the text is well formed, its    *)
(* outputs show what the design makes of the registers, and an edge leaves  *)
(* in them what it leaves in the design, and so in the generated model.     *)
VerilogAgrees ==
  phase = "front" /\ ~long => AsWritten(design, Routes[design], Held(design, store))
=============================================================================
