------------------------------ MODULE Library ------------------------------
(***************************************************************************)
(* The elements a program makes when it calls the library for data:        *)
(* operators on operands of different sizes, slices, nests that are read   *)
(* or assigned, muxes, slots and tables of registers with rows that are    *)
(* chosen by the hardware, memories (model/hwComponent and                 *)
(* model/hwCollection).                                                    *)
(*                                                                         *)
(* Every call appends elements to the design.  What the calls mean is kept *)
(* beside it: for every held state of a sample, what each operand is worth *)
(* and what each register and memory is to load at the next edge.          *)
(***************************************************************************)
EXTENDS Design, SequencesExt

CONSTANT
  Stocks     \* what programs may start with, a set of records: elements, the
             \* first elements; held, a sequence of states of the registers and
             \* memories; oprs, slots, tables; rst, the operand that resets; calls,
             \* ops, the calls and operators of its programs; names, those
             \* of the fields they add; max, the bound on the number of calls

VARIABLES
  stock,     \* what the program started with, one of Stocks
  design,    \* the elements so far
  oprs,      \* operands: o; home, the bits of registers it stands for when it
             \* can be assigned; is (history), its worth in each held state
  slots,     \* sequences of fields, which have a name and an operand
  tables,    \* sequences of rows, which are slots of registers
  loads,     \* history: what a register or a memory is to load
  resets,    \* history: what the reset puts in a register
  new,       \* what the last call made
  calls      \* the number of calls

libVars == <<stock, design, oprs, slots, tables, loads, resets, new, calls>>

-----------------------------------------------------------------------------
(* Slices (Slice.h).                                                        *)
Width(o)          == Size(o.sl)
Whole(e, size)    == [of |-> e, sl |-> <<0, size>>]
Sl(o, start, stop) == [of |-> o.of, sl |-> <<o.sl[1] + start, o.sl[1] + stop>>]

GetMatchSizeSubSlice(sl, by) == <<sl[1], Min({sl[2], sl[1] + Size(by)})>>
IsIntersec(sl, with)         == sl[1] < with[2] /\ with[1] < sl[2]

(* Elements and update events.  A function that makes elements returns the  *)
(* design with them and an operand.                                         *)
PriMin == 0
PriUser == 10
PriRst == 100

Arm(cond, des, val) == [cond |-> cond, des |-> des, val |-> val]
Event(prio, arms)   == [priority |-> prio, arms |-> arms]

Make(d, ele) == [d |-> Append(d, ele), o |-> Whole(Len(d) + 1, ele.size)]

MakeVal(d, size, v) == Make(d, [kind |-> "val", size |-> size, val |-> v])

Expression(d, op, size, a, b) ==
  Make(d, [kind |-> "expr", size |-> size, op |-> op, a |-> a, b |-> b])

(* The parts of a nest, the least significant first.                        *)
MakeNest(d, parts) ==
  Make(d, [kind |-> "nest", size |-> BitsBelow(parts, Len(parts) + 1), parts |-> parts])

(* Wire::makeDefEvent: the first event of a wire gives it 0.                *)
MakeWire(d, size, pool) ==
  LET zero == MakeVal(d, size, 0)
  IN Make(zero.d, [kind |-> "wire", size |-> size, mark |-> "none",
                   pool |-> <<Event(PriMin, <<Arm(None, <<0, size>>, zero.o)>>)>> \o pool])

AddUpdateEvent(d, e, event) == [d EXCEPT ![e].pool = Append(@, event)]

-----------------------------------------------------------------------------
(* Operators (operable.cpp).                                                *)

(* Mutant: the sign bit is taken for the whole operand's low bit. *)
SextWithLowBit(d, o, size) ==
  LET sign == Expression(d, "ext", size - Width(o), Sl(o, 0, 1), None)
  IN MakeNest(sign.d, <<o, sign.o>>)

Uext(d, o, size) ==
  LET zeros == MakeVal(d, size - Width(o), 0) IN MakeNest(zeros.d, <<o, zeros.o>>)

Sext(d, o, size) ==
  LET sign == Expression(d, "ext", size - Width(o), Sl(o, Width(o) - 1, Width(o)), None)
  IN MakeNest(sign.d, <<o, sign.o>>)

UextIfSizeNotEq(d, o, size) == IF Width(o) = size THEN [d |-> d, o |-> o] ELSE Uext(d, o, size)
SextIfSizeNotEq(d, o, size) == IF Width(o) = size THEN [d |-> d, o |-> o] ELSE Sext(d, o, size)

ToBalanceSize(d, a, b, signed) ==
  LET size == Max({Width(a), Width(b)})
      extended(e, o) == IF signed THEN SextIfSizeNotEq(e, o, size) ELSE UextIfSizeNotEq(e, o, size)
      x == extended(d, a)
      y == extended(x.d, b)
  IN [d |-> y.d, a |-> x.o, b |-> y.o, size |-> size]

BitwiseOp(d, op, a, b) ==
  LET e == ToBalanceSize(d, a, b, FALSE) IN Expression(e.d, op, e.size, e.a, e.b)

RelationOp(d, op, a, b) ==
  LET e == ToBalanceSize(d, a, b, FALSE) IN Expression(e.d, op, 1, e.a, e.b)

SignedRelation(d, op, a, b) ==
  LET e == ToBalanceSize(d, a, b, TRUE) IN Expression(e.d, op, 1, e.a, e.b)

(* The result has the size of the left operand, without a carry.            *)
ArithmeticOp(d, op, a, b) ==
  LET e == ToBalanceSize(d, a, b, FALSE) IN Expression(e.d, op, Width(a), e.a, e.b)

BinaryOp(d, op, a, b) ==
  CASE op \in {"and", "or", "xor"}          -> BitwiseOp(d, op, a, b)
    [] op \in {"shl", "shr"}                -> Expression(d, op, Width(a), a, b)
    [] op \in {"land", "lor"}               -> Expression(d, op, 1, a, b)
    [] op \in {"eq", "neq", "less", "leq"}  -> RelationOp(d, op, a, b)
    [] op = "slt"                           -> SignedRelation(d, op, a, b)
    [] op \in {"plus", "minus", "mul"}      -> ArithmeticOp(d, op, a, b)

UnaryOp(d, op, a) == Expression(d, op, IF op = "inv" THEN Width(a) ELSE 1, a, None)

(* mux(sel, x0, x1) gives x0 when the bit is set; the mux over a sequence   *)
(* passes its pairs the other way round, level by level.                    *)
Mux(d, sel, x0, x1) ==
  LET one  == MakeVal(d, 1, 1)        is1 == Expression(one.d, "eq", 1, sel, one.o)
      zero == MakeVal(is1.d, 1, 0)    is0 == Expression(zero.d, "eq", 1, sel, zero.o)
  IN MakeWire(is0.d, Width(x0),
       <<Event(PriUser, <<Arm(is1.o, <<0, Width(x0)>>, x0)>>),
         Event(PriUser, <<Arm(is0.o, <<0, Width(x0)>>, x1)>>)>>)

MuxSeq(d, sel, srcs) ==
  LET halve(s, bit) ==
        FoldLeft(LAMBDA t, i :
                   LET m == Mux(t.d, Sl(sel, bit, bit + 1), s.os[2 * i], s.os[2 * i - 1])
                   IN [d |-> m.d, os |-> Append(t.os, m.o)],
                 [d |-> s.d, os |-> <<>>], [i \in 1 .. Len(s.os) \div 2 |-> i])
      all == FoldLeft(halve, [d |-> d, os |-> srcs], [bit \in 1 .. Width(sel) |-> bit - 1])
  IN [d |-> all.d, o |-> all.os[1]]

-----------------------------------------------------------------------------
(* Assignments.  "A value that is smaller than what it is assigned to goes  *)
(* to the low bits": the destination is cut at its high end.                *)
Basic(des, val) == Event(PriUser, <<Arm(None, des, val)>>)

(* Assignable::doGlobalAsm, for a part of a value and a part of an element. *)
AssignPart(d, e, src, srcSl, desSl) ==
  AddUpdateEvent(d, e,
    Basic(GetMatchSizeSubSlice(desSl, srcSl),
          [of |-> src.of, sl |-> GetMatchSizeSubSlice(srcSl, desSl)]))

(* nest::doNestGlobalAsm: each part that the destination touches takes as   *)
(* many of the bits of the value that are left as it needs; "at" is the     *)
(* first bit of the part in the nest, "used" the bits that are gone.        *)
RECURSIVE DoNestGlobalAsm(_, _, _, _, _)
DoNestGlobalAsm(d, e, src, srcSl, desSl) ==
  LET step(s, part) ==
        LET stop    == s.at + Width(part)
            rel     == <<Max({0, desSl[1] - s.at}), Min({Width(part), desSl[2] - s.at})>>
            des     == <<part.sl[1] + rel[1], part.sl[1] + rel[2]>>
            desired == GetMatchSizeSubSlice(<<srcSl[1] + s.used, srcSl[2]>>, des)
        IN IF ~IsIntersec(desSl, <<s.at, stop>>) THEN [s EXCEPT !.at = stop]
           ELSE [d    |-> IF s.d[part.of].kind = "nest"
                          THEN DoNestGlobalAsm(s.d, part.of, src, desired, des)
                          ELSE AssignPart(s.d, part.of, src, desired, des),
                 at   |-> stop,
                 used |-> s.used + Size(des)]
  IN FoldLeft(step, [d |-> d, at |-> 0, used |-> 0], d[e].parts).d

AssignOpr(d, des, src) ==
  IF d[des.of].kind = "nest"
  THEN DoNestGlobalAsm(d, des.of, src, src.sl, GetMatchSizeSubSlice(des.sl, src.sl))
  ELSE AddUpdateEvent(d, des.of, Basic(GetMatchSizeSubSlice(des.sl, src.sl), src))

-----------------------------------------------------------------------------
(* Slots (slot.h, slotMeta.h): operands with names.                         *)
Field(name, o)     == [name |-> name, o |-> o]
Names(slot)        == [k \in DOMAIN slot |-> slot[k].name]
GetIdx(slot, name) == SelectInSeq(slot, LAMBDA f : f.name = name)
GetIdxs(slot, names) == [i \in DOMAIN names |-> GetIdx(slot, names[i])]
IsThereField(slot, name) == GetIdx(slot, name) # 0
HwFieldAt(slot, name)    == slot[GetIdx(slot, name)]
GetMaxBitWidth(slot) == Max({Width(slot[k].o) : k \in DOMAIN slot})

(* The fields of a source, in their order, whose name the destination has.  *)
MatchByName(des, src) ==
  SelectSeq([k \in DOMAIN src |-> [src |-> src[k].o, des |-> GetIdx(des, src[k].name)]],
            LAMBDA m : m.des # 0)

GenAssignMeta(src, des, cond) ==
  [des   |-> des.of,
   event |-> Event(PriUser, <<Arm(cond, GetMatchSizeSubSlice(des.sl, src.sl), src)>>)]

GenAssignMetaForMatched(des, src, cond) ==
  LET m == MatchByName(des, src)
  IN [i \in DOMAIN m |-> GenAssignMeta(m[i].src, des[m[i].des].o, cond)]

AddAll(d, metas) == FoldLeft(LAMBDA x, m : AddUpdateEvent(x, m.des, m.event), d, metas)

(* Slot::doBlockAsm, doNonBlockAsm: fields get those that have their names. *)
DoBlockAsm(d, des, src) == AddAll(d, GenAssignMetaForMatched(des, src, None))

(* The conditions under which an index is 0, 1, .. n-1: a comparison with   *)
(* the number, or a bit of an index with a bit for every number.            *)
CreateIdxMatchCond(d, idx, k, isOH) ==
  IF isOH THEN [d |-> d, o |-> Sl(idx, k, k + 1)]
  ELSE LET v == MakeVal(d, Width(idx), k) IN Expression(v.d, "eq", 1, idx, v.o)

IdxMatchConds(d, idx, n, isOH) ==
  FoldLeft(LAMBDA s, k : LET c == CreateIdxMatchCond(s.d, idx, k - 1, isOH)
                         IN [d |-> c.d, os |-> Append(s.os, c.o)],
           [d |-> d, os |-> <<>>], [k \in 1 .. n |-> k])

(* A slot of wires, of which each has a pool.                               *)
MakeWireSlot(d, names, sizes, pools) ==
  FoldLeft(LAMBDA s, c : LET w == MakeWire(s.d, sizes[c], pools[c])
                         IN [d |-> w.d, slot |-> Append(s.slot, Field(names[c], w.o))],
           [d |-> d, slot |-> <<>>], [c \in DOMAIN names |-> c])

Widths(slot) == [c \in DOMAIN slot |-> Width(slot[c].o)]

(* WireSlot(SlotMeta): wires that nothing is assigned to.                   *)
NewWires(d, names, sizes) == MakeWireSlot(d, names, sizes, [c \in DOMAIN names |-> <<>>])

(* Fields by place, each of which gets the one at its place.                *)
GenAssignMetaForAll(src) == [c \in DOMAIN src |-> <<Basic(<<0, Width(src[c].o)>>, src[c].o)>>]

(* WireSlot(const Slot&): wires that follow the fields of another slot.     *)
CopyToWires(d, slot) ==
  MakeWireSlot(d, Names(slot), Widths(slot), GenAssignMetaForAll(slot))

(* Parts of a slot, and two slots of wires after each other.                *)
FieldsFrom(slot, start, end) == SubSeq(slot, start, end - 1)
FieldsAt(slot, idxs)         == [i \in DOMAIN idxs |-> slot[idxs[i]]]
Without(slot, deleteItem)    == SelectSeq(slot, LAMBDA f : f.name \notin deleteItem)
Joined(slot, rhs)            == slot \o rhs

(* From a field up to another by their names.                               *)
FieldsBetween(slot, startField, endField) ==
  FieldsFrom(slot, GetIdx(slot, startField), GetIdx(slot, endField) + 1)

(* WireSlot::addWireBase: a wire that follows the value.                    *)
AddWireBase(d, value) ==
  MakeWire(d, Width(value), <<Basic(<<0, Width(value)>>, value)>>)

(* SlotDynSliceAgent::v: only the fields of the greatest size are read; the *)
(* first of them has no condition and the least priority.                   *)
SlotDynRead(d, slot, idx, isOH) ==
  LET conds == IdxMatchConds(d, idx, Len(slot), isOH)
      width == GetMaxBitWidth(slot)
      wide  == SelectSeq([k \in DOMAIN slot |-> k], LAMBDA k : Width(slot[k].o) = width)
  IN MakeWire(conds.d, width,
       [i \in DOMAIN wide |->
          IF i = 1 THEN Event(PriMin, <<Arm(None, <<0, width>>, slot[wide[i]].o)>>)
          ELSE Event(PriUser, <<Arm(conds.os[wide[i]], <<0, width>>, slot[wide[i]].o)>>)])

(* Slot::genGrpAsmNode with an index.                                       *)
SlotDynWrite(d, slot, src, idx, isOH) ==
  LET conds == IdxMatchConds(d, idx, Len(slot), isOH)
  IN AddAll(conds.d, [k \in DOMAIN slot |-> GenAssignMeta(src, slot[k].o, conds.os[k])])

(* A number has the greatest size of the fields.                            *)
SlotDynWriteVal(d, slot, v, idx, isOH) ==
  LET value == MakeVal(d, GetMaxBitWidth(slot), v)
  IN SlotDynWrite(value.d, slot, value.o, idx, isOH)

(* Reg::makeResetEvent.                                                     *)
MakeResetEvent(d, o, v, rst) ==
  LET value == MakeVal(d, Width(o), v)
  IN AddUpdateEvent(value.d, o.of, Event(PriRst, <<Arm(rst, <<0, Width(o)>>, value.o)>>))

(* RegSlot::makeResetEvent, for all the registers or one.                   *)
MakeResetEvents(d, fields, v, rst) ==
  FoldLeft(LAMBDA x, f : MakeResetEvent(x, f.o, v, rst), d, fields)

-----------------------------------------------------------------------------
(* Tables (table.cpp): rows of registers, which share their names.          *)

GenDynWireSlot(d, table, idx, isOH) ==
  LET conds == IdxMatchConds(d, idx, Len(table), isOH)
  IN MakeWireSlot(conds.d, Names(table[1]), Widths(table[1]),
       [c \in DOMAIN table[1] |->
          [r \in DOMAIN table |->
             Event(PriUser, <<Arm(conds.os[r], <<0, Width(table[r][c].o)>>, table[r][c].o)>>)]])

TableDynWrite(d, table, src, idx, isOH) ==
  LET conds == IdxMatchConds(d, idx, Len(table), isOH)
  IN AddAll(conds.d,
       FlattenSeq([r \in DOMAIN table |-> GenAssignMetaForMatched(table[r], src, conds.os[r])]))

DoGlobColAsm(d, table, col, v) ==
  LET value == MakeVal(d, Width(table[1][col].o), v)
  IN AddAll(value.d, [r \in DOMAIN table |-> GenAssignMeta(value.o, table[r][col].o, None)])

MakeColResetEvent(d, table, col, v, rst) ==
  MakeResetEvents(d, [r \in DOMAIN table |-> table[r][col]], v, rst)

(* Static slices and joins; the rows are those of the tables they are of.   *)
SliceByCol(table, start, stop) == [r \in DOMAIN table |-> SubSeq(table[r], start, stop)]

JoinTableByRowInterleave(t, u) ==
  [r \in 1 .. 2 * Len(t) |-> IF r % 2 = 1 THEN t[(r + 1) \div 2] ELSE u[r \div 2]]

(* A row and its index become those of the left node when the bit is set.   *)
CreateMux(selectLeft, l, r) ==
  LET either(left, right) ==
        <<Event(PriUser, <<Arm(selectLeft.o, <<0, Width(left)>>, left),
                           Arm(None, <<0, Width(left)>>, right)>>)>>
      WithIdx(row) ==
        IF l.idx = None THEN row @@ [idx |-> None]
        ELSE LET idx == MakeWire(row.d, Width(l.idx), either(l.idx, r.idx))
             IN [d |-> idx.d, slot |-> row.slot, idx |-> idx.o]
  IN WithIdx(MakeWireSlot(selectLeft.d, Names(l.slot), Widths(l.slot),
               [c \in DOMAIN l.slot |-> either(l.slot[c].o, r.slot[c].o)]))

(* A row that has been made becomes the next node.                          *)
AddNode(nodes, made) ==
  [d |-> made.d, nodes |-> Append(nodes, [slot |-> made.slot, idx |-> made.idx])]

Log2(n) == CHOOSE k \in 0 .. n : 2^k = n

(* Bits that are made one after another, each with a name for those that    *)
(* follow: <<its name, its operator, the names of its operands>>.  Operands *)
(* of one bit have one size already.                                        *)
MakeBits(d, named, steps) ==
  FoldLeft(LAMBDA s, e :
             LET made == Expression(s.d, e[2], 1, s.os[e[3]], s.os[e[4]])
             IN [d |-> made.d, os |-> s.os @@ (e[1] :> made.o)],
           [d |-> d, os |-> named], steps)

(* Of two that match: the newest is the right one, unless only that is old; *)
(* the oldest is the left one if both are in the same region.               *)
FindMatchedOrdered(d, l, r, isNewest) ==
  LET ofBoth ==
        IF isNewest THEN << <<"notOldL", "inv", "oldL", "none">>, <<"newL", "and", "both", "notOldL">>,
                            <<"ofBoth", "and", "newL", "oldR">> >>
        ELSE << <<"same", "eq", "oldL", "oldR">>, <<"ofBoth", "and", "both", "same">> >>
      made == MakeBits(d,
        [userL |-> HwFieldAt(l, "userValid").o, oldL |-> HwFieldAt(l, "systemOld").o,
         userR |-> HwFieldAt(r, "userValid").o, oldR |-> HwFieldAt(r, "systemOld").o, none |-> None],
        << <<"notR", "inv", "userR", "none">>, <<"onlyL", "and", "userL", "notR">>,
           <<"both", "and", "userL", "userR">> >>
        \o ofBoth \o << <<"left", "lor", "onlyL", "ofBoth">> >>)
  IN [d |-> made.d, o |-> made.os["left"]]

(* The function that is passed makes the bit that tells from two rows       *)
(* whether the left one is selected: because its field is set, or by order. *)
ByField(col)      == [op |-> "field", col |-> col]
ByOrder(isNewest) == [op |-> "order", isNewest |-> isNewest]

SelectLeft(d, l, r, cusLogic) ==
  IF cusLogic.op = "field" THEN [d |-> d, o |-> l[cusLogic.col].o]
  ELSE FindMatchedOrdered(d, l, r, cusLogic.isNewest)

(* Neighbours are muxed, level by level.  The number of rows is a power of  *)
(* two.                                                                     *)
RECURSIVE DoReduceBase(_, _, _)
DoReduceBase(d, nodes, cusLogic) ==
  IF Len(nodes) = 1 THEN [d |-> d] @@ nodes[1]
  ELSE LET level == FoldLeft(LAMBDA s, i :
                      LET l == nodes[2 * i - 1]   r == nodes[2 * i]
                      IN AddNode(s.nodes, CreateMux(SelectLeft(s.d, l.slot, r.slot, cusLogic), l, r)),
                    [d |-> d, nodes |-> <<>>], [i \in 1 .. Len(nodes) \div 2 |-> i])
       IN DoReduceBase(level.d, level.nodes, cusLogic)

(* A value for the number of a row, in as many bits as are sufficient or    *)
(* one-hot.                                                                 *)
RowIdx(d, table, r, isOH) ==
  MakeVal(d, IF isOH THEN Len(table) ELSE Log2(Len(table)), IF isOH THEN 2^(r - 1) ELSE r - 1)

DoReducIdx(d, table, col, isOH) ==
  LET init == FoldLeft(LAMBDA s, r :
                LET v == RowIdx(s.d, table, r, isOH)
                IN AddNode(s.nodes, CopyToWires(v.d, table[r]) @@ [idx |-> v.o]),
              [d |-> d, nodes |-> <<>>], [r \in DOMAIN table |-> r])
  IN DoReduceBase(init.d, init.nodes, ByField(col))

DoReducNoIdx(d, table, col) ==
  LET init == FoldLeft(LAMBDA s, row :
                AddNode(s.nodes, CopyToWires(s.d, row) @@ [idx |-> None]),
              [d |-> d, nodes |-> <<>>], table)
  IN DoReduceBase(init.d, init.nodes, ByField(col))

(* A search from a row on: a row gets a wire that tells whether it matches  *)
(* and one that tells whether it comes after the start, which is the old    *)
(* region.                                                                  *)
AugmentForOrderedSearch(d, row, r, start, valid) ==
  LET slot   == CopyToWires(d, row)
      user   == AddWireBase(slot.d, valid)
      number == MakeVal(user.d, Width(start), r - 1)
      leq    == Expression(number.d, "leq", 1, start, number.o)
      old    == AddWireBase(leq.d, leq.o)
  IN [d    |-> old.d,
      slot |-> slot.slot \o <<Field("userValid", user.o), Field("systemOld", old.o)>>]

(* findMBO_OHIDX cuts two fields more than it has added.                    *)
FindMBO(d, table, start, col, isNewest, isOH) ==
  LET init == FoldLeft(LAMBDA s, r :
                LET v == RowIdx(s.d, table, r, isOH)
                IN AddNode(s.nodes, AugmentForOrderedSearch(v.d, table[r], r, start, table[r][col].o) @@ [idx |-> v.o]),
              [d |-> d, nodes |-> <<>>], [r \in DOMAIN table |-> r])
      Cut(found) == [found EXCEPT !.slot = FieldsFrom(@, 1, Len(table[1]) + IF isOH THEN -1 ELSE 1)]
  IN Cut(DoReduceBase(init.d, init.nodes, ByOrder(isNewest)))

-----------------------------------------------------------------------------
(* Memories: a holder for every access (MemBlockAgent.cpp).                 *)
MemRead(d, m, idx) == Make(d, [kind |-> "read", size |-> d[m].size, mem |-> m, index |-> idx])

MemWrite(d, m, idx, src) ==
  Append(d, [kind |-> "write", size |-> d[m].size, mem |-> m, index |-> idx, clk |-> "pos",
             pool |-> <<Basic(<<0, d[m].size>>, src)>>])

-----------------------------------------------------------------------------
(* What the calls mean.  Everything is known for every held state.          *)
Held      == stock.held
Each(Value(_)) == [k \in DOMAIN Held |-> Value(k)]

(* An element as an operand: a register can be assigned.                    *)
EleOpr(ele, e, held) ==
  [o    |-> Whole(e, ele.size),
   home |-> IF ele.kind = "reg" THEN [b \in 1 .. ele.size |-> <<e, b - 1>>] ELSE <<>>,
   is   |-> [k \in DOMAIN held |-> held[k][e]]]

(* Bits of a value go to the bits of a home; of two that go to one bit the  *)
(* higher one counts.                                                       *)
Overwritten(v, e, size, home, value) ==
  MapThenSumSet(LAMBDA b :
    LET from == {i \in DOMAIN home : home[i] = <<e, b>>}
    IN 2^b * (IF from = {} THEN Bit(v, b) ELSE Bit(value, Max(from) - 1)), 0 .. size - 1)

(* The low bits of a home take a value of a width in the held states in     *)
(* which it is chosen.                                                      *)
Stored(load, home, value, width, Chosen(_)) ==
  LET low == SubSeq(home, 1, Min({Len(home), width}))
  IN [e \in DOMAIN load |->
        IF \A i \in DOMAIN low : low[i][1] # e THEN load[e]
        ELSE Each(LAMBDA k : IF Chosen(k)
                             THEN Overwritten(load[e][k], e, design[e].size, low, value[k])
                             ELSE load[e][k])]

StoredOpr(load, des, src, Chosen(_)) == Stored(load, des.home, src.is, Width(src.o), Chosen)

(* The places of n that an index selects, and the one that is read: none if *)
(* there is no such place, the last of several.                             *)
Selects(idx, k, place, isOH) ==
  IF isOH THEN Bit(idx.is[k], place - 1) = 1 ELSE idx.is[k] = place - 1

Selected(idx, k, n, isOH) ==
  Max({0} \cup {place \in 1 .. n : Selects(idx, k, place, isOH)})

(* The field that is read: one of the greatest size.                        *)
FieldRead(slot, k, idx, isOH) ==
  LET wide == {c \in DOMAIN slot : Width(slot[c].o) = GetMaxBitWidth(slot)}
  IN Max({Min(wide)} \cup {c \in wide : Selects(idx, k, c, isOH)})

(* Numbers of any size; a result that is no truth and no set of bits has    *)
(* the size of the first.                                                   *)
MeaningOf(op, a, b, k) ==
  LET x == a.is[k]   y == b.is[k]   n == Width(a.o)
      Bits(Holds(_, _)) ==
        BitsWhere(Max({n, Width(b.o)}), LAMBDA i : Holds(Bit(x, i) = 1, Bit(y, i) = 1))
  IN CASE op = "and"   -> Bits(LAMBDA p, q : p /\ q)
       [] op = "or"    -> Bits(LAMBDA p, q : p \/ q)
       [] op = "xor"   -> Bits(LAMBDA p, q : p # q)
       [] op = "shl"   -> (x * 2^Min({y, n})) % 2^n
       [] op = "shr"   -> x \div 2^Min({y, n})
       [] op = "land"  -> Truth(x # 0 /\ y # 0)
       [] op = "lor"   -> Truth(x # 0 \/ y # 0)
       [] op = "eq"    -> Truth(x = y)
       [] op = "neq"   -> Truth(x # y)
       [] op = "less"  -> Truth(x < y)
       [] op = "leq"   -> Truth(x <= y)
       [] op = "slt"   -> Truth(Signed(x, n) < Signed(y, Width(b.o)))
       [] op = "plus"  -> (x + y) % 2^n
       [] op = "minus" -> (x - y) % 2^n
       [] op = "mul"   -> (x * y) % 2^n

-----------------------------------------------------------------------------
(* A call uses what the call before it made, which would else not be needed. *)
Uses(os, ss, ts) ==
  CASE new = "none"  -> TRUE
    [] new = "opr"   -> Len(oprs) \in os
    [] new = "slot"  -> Len(slots) \in ss
    [] new = "table" -> Len(tables) \in ts

Call(name, os, ss, ts) ==
  /\ name \in stock.calls
  /\ calls < stock.max
  /\ Uses(os, ss, ts)
  /\ calls' = calls + 1
  /\ UNCHANGED stock

GivesOpr(made, home, is) ==
  /\ design' = made.d
  /\ oprs' = Append(oprs, [o |-> made.o, home |-> home, is |-> is])
  /\ new' = "opr"
  /\ UNCHANGED <<slots, tables, loads, resets>>

(* is[c] belongs to field c.                                                *)
GivesSlot(made, is) ==
  /\ design' = made.d
  /\ slots' = Append(slots, [c \in DOMAIN made.slot |->
                [name |-> made.slot[c].name, o |-> made.slot[c].o, home |-> <<>>, is |-> is[c]]])
  /\ new' = "slot"
  /\ UNCHANGED <<tables, loads, resets>>

Does(d, load) ==
  /\ design' = d
  /\ loads' = load
  /\ new' = "none"
  /\ UNCHANGED <<oprs, slots, tables, resets>>

-----------------------------------------------------------------------------
(* Calls on operands.                                                       *)
Always(k) == TRUE
NoHome == <<>>

Slice(i) ==
  \E start \in 0 .. Width(oprs[i].o) - 1 : \E stop \in start + 1 .. Width(oprs[i].o) :
    /\ Call("slice", {i}, {}, {})
    /\ GivesOpr([d |-> design, o |-> Sl(oprs[i].o, start, stop)],
                SubSeq(oprs[i].home, start + 1, Min({stop, Len(oprs[i].home)})),
                Each(LAMBDA k : Part(oprs[i].is[k], <<start, stop>>)))

Unary(i) ==
  \E op \in stock.ops \cap {"inv", "lnot"} :
    /\ Call("unary", {i}, {}, {})
    /\ GivesOpr(UnaryOp(design, op, oprs[i].o), NoHome,
         Each(LAMBDA k : IF op = "lnot" THEN Truth(oprs[i].is[k] = 0)
                         ELSE 2^Width(oprs[i].o) - 1 - oprs[i].is[k]))

(* uext, sext, and extB of a bit, to a size that is greater by one or two.  *)
Extension(i) ==
  LET a == oprs[i]   n == Width(a.o) IN
  \E size \in n + 1 .. n + 2 :
    /\ Call("extension", {i}, {}, {})
    /\ \/ GivesOpr(Uext(design, a.o, size), NoHome, a.is)
       \/ GivesOpr(Sext(design, a.o, size), NoHome, Each(LAMBDA k : Signed(a.is[k], n) % 2^size))
       \/ /\ n = 1
          /\ GivesOpr(Expression(design, "ext", size, a.o, None), NoHome,
                      Each(LAMBDA k : a.is[k] * (2^size - 1)))

Binary(i, j) ==
  \E op \in stock.ops \ {"inv", "lnot"} :
    /\ Call("binary", {i, j}, {}, {})
    /\ GivesOpr(BinaryOp(design, op, oprs[i].o, oprs[j].o), NoHome,
                Each(LAMBDA k : MeaningOf(op, oprs[i], oprs[j], k)))

(* makeNest: the first operand is the most significant one.                 *)
Nest(i, j) ==
  LET a == oprs[i]   b == oprs[j] IN
  /\ Call("nest", {i, j}, {}, {})
  /\ GivesOpr(MakeNest(design, <<b.o, a.o>>),
              IF a.home = NoHome \/ b.home = NoHome THEN NoHome ELSE b.home \o a.home,
              Each(LAMBDA k : a.is[k] * 2^Width(b.o) + b.is[k]))

(* An assignment.  A nest refuses a value that is a slice from a higher bit *)
(* on ("absSrcSlice.stop <= srcOpr.getOperableSlice().getSize()").          *)
Assign(i, j) ==
  /\ Call("assign", {i, j}, {}, {})
  /\ oprs[i].home # NoHome
  /\ design[oprs[i].o.of].kind = "nest" => oprs[j].o.sl[1] = 0
  /\ Does(AssignOpr(design, oprs[i].o, oprs[j].o), StoredOpr(loads, oprs[i], oprs[j], Always))

Muxes(sel, i, j) ==
  LET s == oprs[sel]   a == oprs[i]   b == oprs[j] IN
  /\ Call("mux", {sel, i, j}, {}, {})
  /\ Width(a.o) = Width(b.o)
  /\ \/ /\ Width(s.o) = 1
        /\ GivesOpr(Mux(design, s.o, a.o, b.o), NoHome,
                    Each(LAMBDA k : IF s.is[k] = 1 THEN a.is[k] ELSE b.is[k]))
     \/ LET pick == [n \in 1 .. 2^Width(s.o) |-> IF n % 3 = 1 THEN a ELSE b] IN
        GivesOpr(MuxSeq(design, s.o, [n \in DOMAIN pick |-> pick[n].o]), NoHome,
                 Each(LAMBDA k : pick[s.is[k] + 1].is[k]))

(* Calls on memories.                                                       *)
ReadMem(m, i) ==
  /\ Call("memory", {i}, {}, {})
  /\ 2^Width(oprs[i].o) = design[m].depth
  /\ GivesOpr(MemRead(design, m, oprs[i].o), NoHome,
              Each(LAMBDA k : Held[k][m][oprs[i].is[k]]))

WriteMem(m, i, j) ==
  /\ Call("memory", {i, j}, {}, {})
  /\ 2^Width(oprs[i].o) = design[m].depth /\ Width(oprs[j].o) = design[m].size
  /\ Does(MemWrite(design, m, oprs[i].o, oprs[j].o),
          [loads EXCEPT ![m] = Each(LAMBDA k : [@[k] EXCEPT ![oprs[i].is[k]] = oprs[j].is[k]])])

-----------------------------------------------------------------------------
(* Calls on slots.                                                          *)
OfRegs(slot)  == \A c \in DOMAIN slot : slot[c].home # NoHome
OfWires(slot) == \A c \in DOMAIN slot : slot[c].home = NoHome

GivesField(f) == GivesOpr([d |-> design, o |-> f.o], f.home, f.is)

GetField(s, c) ==
  /\ Call("field", {}, {s}, {})
  /\ \/ GivesField(slots[s][c])
     \/ GivesField(HwFieldAt(slots[s], slots[s][c].name))

CopySlot(s) ==
  /\ Call("copy", {}, {s}, {})
  /\ GivesSlot(CopyToWires(design, slots[s]), [c \in DOMAIN slots[s] |-> slots[s][c].is])
  /\ UNCHANGED oprs

(* The index reaches every field; the code looks at that for tables only.   *)
Reaches(idx, n, isOH) == IF isOH THEN Width(idx.o) >= n ELSE 2^Width(idx.o) >= n

ReadField(s, i, isOH) ==
  /\ Call("fieldAt", {i}, {s}, {})
  /\ Reaches(oprs[i], Len(slots[s]), isOH)
  /\ GivesOpr(SlotDynRead(design, slots[s], oprs[i].o, isOH), NoHome,
              Each(LAMBDA k : slots[s][FieldRead(slots[s], k, oprs[i], isOH)].is[k]))

Fits(des, src) == des.home # NoHome /\ Width(des.o) <= Width(src.o)

WriteField(s, i, j, isOH) ==
  /\ Call("fieldAt", {i, j}, {s}, {})
  /\ Reaches(oprs[i], Len(slots[s]), isOH)
  /\ \A c \in DOMAIN slots[s] : Fits(slots[s][c], oprs[j])
  /\ Does(SlotDynWrite(design, slots[s], oprs[j].o, oprs[i].o, isOH),
          FoldLeft(LAMBDA load, c : StoredOpr(load, slots[s][c], oprs[j],
                                              LAMBDA k : Selects(oprs[i], k, c, isOH)),
                   loads, [c \in DOMAIN slots[s] |-> c]))

(* What a slot is to load from the fields of another that have its names.   *)
StoredSlot(load, des, src, Chosen(_)) ==
  FoldLeft(LAMBDA l, f : LET c == GetIdx(des, f.name) IN
             IF c = 0 THEN l ELSE StoredOpr(l, des[c], f, Chosen), load, src)

FitsSlot(des, src) ==
  /\ \E f \in Range(src) : GetIdx(des, f.name) # 0
  /\ \A f \in Range(src) : LET c == GetIdx(des, f.name) IN c # 0 => Fits(des[c], f)

AssignSlot(s, from) ==
  /\ Call("assignSlot", {}, {s, from}, {})
  /\ FitsSlot(slots[s], slots[from])
  /\ Does(DoBlockAsm(design, slots[s], slots[from]),
          StoredSlot(loads, slots[s], slots[from], Always))

(* The number goes to the field that is selected; what is above the size of *)
(* the field is lost.                                                       *)
WriteFieldVal(s, i, v, isOH) ==
  /\ Call("number", {i}, {s}, {})
  /\ Reaches(oprs[i], Len(slots[s]), isOH)
  /\ OfRegs(slots[s]) /\ v < 2^GetMaxBitWidth(slots[s])
  /\ Does(SlotDynWriteVal(design, slots[s], v, oprs[i].o, isOH),
          FoldLeft(LAMBDA load, c : Stored(load, slots[s][c].home, Each(LAMBDA k : v),
                                           GetMaxBitWidth(slots[s]),
                                           LAMBDA k : Selects(oprs[i], k, c, isOH)),
                   loads, [c \in DOMAIN slots[s] |-> c]))

ResetSlot(s, cs, v) ==
  LET fields == SetToSeq(cs) IN
  /\ Call("resetSlot", {}, {s}, {})
  /\ OfRegs(slots[s]) /\ \A c \in cs : v < 2^Width(slots[s][c].o)
  /\ design' = MakeResetEvents(design, FieldsAt(slots[s], fields), v, stock.rst)
  /\ resets' = [e \in {slots[s][c].o.of : c \in cs} |-> v] @@ resets
  /\ new' = "none"
  /\ UNCHANGED <<oprs, slots, tables, loads>>

(* A slot of some fields of another, which are not copied.                  *)
HasSlot(part) ==
  /\ slots' = Append(slots, part)
  /\ new' = "slot"
  /\ UNCHANGED <<design, oprs, tables, loads, resets>>

RangeOfSlot(s, start, end) ==
  /\ Call("part", {}, {s}, {})
  /\ start < end
  /\ HasSlot(FieldsFrom(slots[s], start, end))

(* By names: a slot of registers has no range up to its last field, because *)
(* it looks for the place after it; a slot of wires has.                    *)
NamedRange(s, startField, endField) ==
  LET end == GetIdx(slots[s], endField) + IF OfRegs(slots[s]) THEN 1 ELSE 0 IN
  /\ Call("part", {}, {s}, {})
  /\ IsThereField(slots[s], startField) /\ IsThereField(slots[s], endField)
  /\ end \in DOMAIN slots[s]
  /\ GetIdx(slots[s], startField) <= GetIdx(slots[s], endField)
  /\ HasSlot(FieldsBetween(slots[s], startField, endField))

ListedFields(s, names) ==
  /\ Call("part", {}, {s}, {})
  /\ \A i \in DOMAIN names : IsThereField(slots[s], names[i])
  /\ HasSlot(FieldsAt(slots[s], GetIdxs(slots[s], names)))

(* Registers cannot be joined: the new slot has the fields of both and the  *)
(* registers of one, which its constructor refuses.                         *)
JoinSlots(s, from) ==
  /\ Call("join", {}, {s, from}, {})
  /\ OfWires(slots[s]) /\ OfWires(slots[from])
  /\ HasSlot(Joined(slots[s], slots[from]))

(* A wire more in the slot: another one, one that follows an operand, or    *)
(* one that nothing is assigned to.                                         *)
WithField(s, name, o, is) ==
  slots' = [slots EXCEPT ![s] = Append(@, [name |-> name, o |-> o, home |-> NoHome, is |-> is])]

AddWire(s, name) ==
  /\ Call("addWire", {}, {s}, {})
  /\ OfWires(slots[s]) /\ ~IsThereField(slots[s], name)
  /\ \/ \E from \in DOMAIN slots : \E c \in DOMAIN slots[from] :
          /\ slots[from][c].home = NoHome
          /\ WithField(s, name, slots[from][c].o, slots[from][c].is)
          /\ UNCHANGED design
     \/ \E i \in DOMAIN oprs : LET made == AddWireBase(design, oprs[i].o) IN
          /\ WithField(s, name, made.o, oprs[i].is)
          /\ design' = made.d
     \/ LET made == MakeWire(design, 1, <<>>) IN
          /\ WithField(s, name, made.o, Each(LAMBDA k : 0))
          /\ design' = made.d
  /\ new' = "none"
  /\ UNCHANGED <<oprs, tables, loads, resets>>

(* tryAddWire does not add a field that is there.                           *)
TryAddWire(s, name) ==
  \/ AddWire(s, name)
  \/ /\ Call("addWire", {}, {s}, {})
     /\ OfWires(slots[s]) /\ IsThereField(slots[s], name)
     /\ new' = "none"
     /\ UNCHANGED <<design, oprs, slots, tables, loads, resets>>

(* WireSlot w(meta - names); w = from: wires with the names of a slot but   *)
(* for some, of which those follow that the other slot has a field for, the *)
(* first of a name the last of that name.                                   *)
Declare(s, names, from) ==
  LET meta == Without(slots[s], names)
      made == NewWires(design, Names(meta), Widths(meta))
      Follows(c) == {f \in DOMAIN slots[from] : slots[from][f].name = meta[c].name /\ GetIdx(meta, meta[c].name) = c}
  IN
  /\ Call("declare", {}, {s, from}, {})
  /\ meta # <<>>
  /\ \A c \in DOMAIN meta : \A f \in Follows(c) : Width(meta[c].o) <= Width(slots[from][f].o)
  /\ GivesSlot([d |-> DoBlockAsm(made.d, made.slot, slots[from]), slot |-> made.slot],
       [c \in DOMAIN meta |->
          Each(LAMBDA k : IF Follows(c) = {} THEN 0
                          ELSE slots[from][Max(Follows(c))].is[k] % 2^Width(meta[c].o))])
  /\ UNCHANGED oprs

(* WireSlot w(meta); w[idx] = src with a one-hot index: the wires that are  *)
(* selected follow the operand.                                             *)
DeclareAt(s, i, j) ==
  LET made == NewWires(design, Names(slots[s]), Widths(slots[s])) IN
  /\ Call("declare", {i, j}, {s}, {})
  /\ Reaches(oprs[i], Len(slots[s]), TRUE)
  /\ \A c \in DOMAIN slots[s] : Width(slots[s][c].o) <= Width(oprs[j].o)
  /\ GivesSlot([d |-> SlotDynWrite(made.d, made.slot, oprs[j].o, oprs[i].o, TRUE), slot |-> made.slot],
       [c \in DOMAIN slots[s] |->
          Each(LAMBDA k : IF Selects(oprs[i], k, c, TRUE)
                          THEN oprs[j].is[k] % 2^Width(slots[s][c].o) ELSE 0)])
  /\ UNCHANGED oprs

-----------------------------------------------------------------------------
(* Calls on tables.                                                         *)
GetRow(t, r) ==
  /\ Call("row", {}, DOMAIN slots, {t})
  /\ HasSlot(tables[t][r])

Meta(slot) == [c \in DOMAIN slot |-> <<slot[c].name, Width(slot[c].o)>>]

Regroup(t, u) ==
  LET table == tables[t]   with == tables[u]
  IN
  /\ Call("regroup", {}, {}, {t, u})
  /\ \/ \E r, q \in DOMAIN table : r <= q /\ tables' = Append(tables, SubSeq(table, r, q))
     \/ \E c, b \in DOMAIN table[1] : c <= b /\ tables' = Append(tables, SliceByCol(table, c, b))
     \/ /\ Meta(table[1]) = Meta(with[1])
        /\ \/ tables' = Append(tables, table \o with)
           \/ Len(table) = Len(with) /\ tables' = Append(tables, JoinTableByRowInterleave(table, with))
  /\ new' = "table"
  /\ UNCHANGED <<design, oprs, slots, loads, resets>>

ReachesRows(idx, table, isOH) ==
  IF isOH THEN Width(idx.o) = Len(table) ELSE Reaches(idx, Len(table), isOH)

RowIs(table, c, k, idx, isOH) ==
  LET r == Selected(idx, k, Len(table), isOH) IN IF r = 0 THEN 0 ELSE table[r][c].is[k]

ReadRow(t, i, isOH) ==
  LET table == tables[t] IN
  /\ Call("rowAt", {i}, {}, {t})
  /\ ReachesRows(oprs[i], table, isOH)
  /\ GivesSlot(GenDynWireSlot(design, table, oprs[i].o, isOH),
               [c \in DOMAIN table[1] |-> Each(LAMBDA k : RowIs(table, c, k, oprs[i], isOH))])
  /\ UNCHANGED oprs

(* The row and the column are chosen by operands.                           *)
ReadCell(t, i, j, isOH) ==
  LET table == tables[t]
      row   == GenDynWireSlot(design, table, oprs[i].o, isOH) IN
  /\ Call("cellAt", {i, j}, {}, {t})
  /\ ReachesRows(oprs[i], table, isOH) /\ Reaches(oprs[j], Len(table[1]), FALSE)
  /\ GivesOpr(SlotDynRead(row.d, row.slot, oprs[j].o, FALSE), NoHome,
       Each(LAMBDA k : RowIs(table, FieldRead(table[1], k, oprs[j], FALSE), k, oprs[i], isOH)))

StoredRows(table, src, idx, isOH) ==
  FoldLeft(LAMBDA load, r : StoredSlot(load, table[r], src, LAMBDA k : Selects(idx, k, r, isOH)),
           loads, [r \in DOMAIN table |-> r])

WriteRow(t, i, src, isOH) ==
  /\ ReachesRows(oprs[i], tables[t], isOH)
  /\ FitsSlot(tables[t][1], src)
  /\ Does(TableDynWrite(design, tables[t], src, oprs[i].o, isOH),
          StoredRows(tables[t], src, oprs[i], isOH))

WriteSlot(t, i, s, isOH) ==
  Call("rowAt", {i}, {s}, {t}) /\ WriteRow(t, i, slots[s], isOH)

(* TableSliceAgentDouble::doStaticGlobAsm: a slot of the one field.         *)
WriteCell(t, i, c, j, isOH) ==
  /\ Call("cellAt", {i, j}, {}, {t})
  /\ WriteRow(t, i, <<[oprs[j] EXCEPT !.home = NoHome] @@ [name |-> tables[t][1][c].name]>>, isOH)

Constantly(v) == Each(LAMBDA k : v)

WriteCol(t, c, v) ==
  /\ Call("column", {}, {}, {t})
  /\ v < 2^Width(tables[t][1][c].o)
  /\ Does(DoGlobColAsm(design, tables[t], c, v),
          FoldLeft(LAMBDA load, row : Stored(load, row[c].home, Constantly(v), Width(row[c].o), Always),
                   loads, tables[t]))

ResetCol(t, c, v) ==
  LET homes == {tables[t][r][c].o.of : r \in DOMAIN tables[t]} IN
  /\ Call("column", {}, {}, {t})
  /\ v < 2^Width(tables[t][1][c].o)
  /\ design' = MakeColResetEvent(design, tables[t], c, v, stock.rst)
  /\ resets' = [e \in homes |-> v] @@ resets
  /\ new' = "none"
  /\ UNCHANGED <<oprs, slots, tables, loads>>

(* The row that is selected in each of the held states, and its number.     *)
GivesRow(made, table, row, isOH) ==
  /\ GivesSlot(made, [b \in DOMAIN made.slot |-> Each(LAMBDA k : table[row[k]][b].is[k])])
  /\ oprs' = Append(oprs, [o |-> made.idx, home |-> NoHome,
       is |-> Each(LAMBDA k : IF isOH THEN 2^(row[k] - 1) ELSE row[k] - 1)])

(* The first row whose field is set, or the last row.                       *)
FirstSet(table, c, k) == Min({Len(table)} \cup {r \in DOMAIN table : table[r][c].is[k] = 1})

Reducible(table, c) == Len(table) \in {2, 4} /\ Width(table[1][c].o) = 1

Reduce(t, c, isOH) ==
  LET table == tables[t] IN
  /\ Call("reduce", {}, {}, {t})
  /\ Reducible(table, c)
  /\ GivesRow(DoReducIdx(design, table, c, isOH), table,
              Each(LAMBDA k : FirstSet(table, c, k)), isOH)

ReduceNoIdx(t, c) ==
  LET table == tables[t] IN
  /\ Call("reduce", {}, {}, {t})
  /\ Reducible(table, c)
  /\ GivesSlot(DoReducNoIdx(design, table, c),
               [b \in DOMAIN table[1] |-> Each(LAMBDA k : table[FirstSet(table, c, k)][b].is[k])])
  /\ UNCHANGED oprs

(* Of the rows whose field is set the first or last one from the start on,  *)
(* all the way round; the last row if there is none.                        *)
Ordered(table, c, start, k, isNewest) ==
  LET set    == {r \in DOMAIN table : table[r][c].is[k] = 1}
      age(r) == (r - 1 - start.is[k]) % Len(table)
  IN IF set = {} THEN Len(table)
     ELSE CHOOSE r \in set : \A q \in set : IF isNewest THEN age(q) <= age(r) ELSE age(r) <= age(q)

FindMatchedByOrder(t, c, i, isNewest, isOH) ==
  LET table == tables[t] IN
  /\ Call("findMBO", {i}, {}, {t})
  /\ Reducible(table, c) /\ Reaches(oprs[i], Len(table), FALSE)
  /\ isOH => Len(table[1]) > 2
  /\ GivesRow(FindMBO(design, table, oprs[i].o, c, isNewest, isOH), table,
              Each(LAMBDA k : Ordered(table, c, oprs[i], k, isNewest)), isOH)

-----------------------------------------------------------------------------
(* Slots of registers of the start, and tables of such rows.                *)
RegSlot(s, fields) ==
  [c \in DOMAIN fields |->
     [name |-> fields[c].name] @@ EleOpr(s.elements[fields[c].reg], fields[c].reg, s.held)]

Table(s, rows) == [r \in DOMAIN rows |-> RegSlot(s, rows[r])]

LibraryInit ==
  /\ \E s \in Stocks :
       /\ stock = s
       /\ design = s.elements
       /\ oprs = [i \in DOMAIN s.oprs |-> EleOpr(s.elements[s.oprs[i]], s.oprs[i], s.held)]
       /\ slots = Table(s, s.slots)
       /\ tables = [t \in DOMAIN s.tables |-> Table(s, s.tables[t])]
       /\ loads = [e \in {x \in DOMAIN s.elements : s.elements[x].kind \in {"reg", "mem"}} |->
                      [k \in DOMAIN s.held |-> s.held[k][e]]]
  /\ resets = <<>>
  /\ new = "none" /\ calls = 0

LibraryNext ==
  \/ \E i \in DOMAIN oprs : Slice(i) \/ Unary(i) \/ Extension(i)
  \/ \E i, j \in DOMAIN oprs : Binary(i, j) \/ Nest(i, j) \/ Assign(i, j)
  \/ \E sel, i, j \in DOMAIN oprs : Muxes(sel, i, j)
  \/ \E m \in OfKind(design, {"mem"}), i, j \in DOMAIN oprs : ReadMem(m, i) \/ WriteMem(m, i, j)
  \/ \E s \in DOMAIN slots :
       \/ \E c \in DOMAIN slots[s] : GetField(s, c)
       \/ CopySlot(s)
       \/ \E from \in DOMAIN slots : AssignSlot(s, from) \/ JoinSlots(s, from)
       \/ \E i, j \in DOMAIN oprs, isOH \in BOOLEAN :
            ReadField(s, i, isOH) \/ WriteField(s, i, j, isOH)
       \/ \E i \in DOMAIN oprs, isOH \in BOOLEAN, v \in 1 .. 3 : WriteFieldVal(s, i, v, isOH)
       \/ \E i, j \in DOMAIN oprs : DeclareAt(s, i, j)
       \/ \E cs \in {DOMAIN slots[s]} \cup {{c} : c \in DOMAIN slots[s]}, v \in 1 .. 2 : ResetSlot(s, cs, v)
       \/ \E start \in DOMAIN slots[s], end \in 2 .. Len(slots[s]) + 1 : RangeOfSlot(s, start, end)
       \/ \E a, b \in Range(Names(slots[s])) : NamedRange(s, a, b) \/ ListedFields(s, <<a, b>>)
       \/ \E name \in stock.names : TryAddWire(s, name)
       \/ \E names \in SUBSET Range(Names(slots[s])), from \in DOMAIN slots : Declare(s, names, from)
  \/ \E t \in DOMAIN tables :
       \/ \E r \in DOMAIN tables[t] : GetRow(t, r)
       \/ \E u \in DOMAIN tables : Regroup(t, u)
       \/ \E i, j \in DOMAIN oprs, isOH \in BOOLEAN :
            \/ ReadRow(t, i, isOH) \/ ReadCell(t, i, j, isOH)
            \/ \E s \in DOMAIN slots : WriteSlot(t, i, s, isOH)
            \/ \E c \in DOMAIN tables[t][1] : WriteCell(t, i, c, j, isOH)
       \/ \E c \in DOMAIN tables[t][1] :
            \/ \E v \in 1 .. 2 : WriteCol(t, c, v) \/ ResetCol(t, c, v)
            \/ \E isOH \in BOOLEAN : Reduce(t, c, isOH)
            \/ ReduceNoIdx(t, c)
            \/ \E i \in DOMAIN oprs, isNewest, isOH \in BOOLEAN : FindMatchedByOrder(t, c, i, isNewest, isOH)

-----------------------------------------------------------------------------
(* What every element is worth; an element only uses those made before it.  *)
Network(held) ==
  LET upTo[n \in 0 .. Len(design)] ==
        IF n = 0 THEN [e \in DOMAIN design |-> 0]
        ELSE LET before == upTo[n - 1]
             IN [before EXCEPT ![n] = Makes(design, n, before, held)]
  IN upTo[Len(design)]

LoadedAtEdge(e, now, held) ==
  IF design[e].kind = "reg" THEN Loaded(design[e], now, held[e])
  ELSE [cell \in DOMAIN held[e] |-> CellLoads(design, e, "pos", now, cell, held[e][cell])]

ToLoad(e, k) ==
  IF e \in DOMAIN resets /\ Worth(stock.rst, Held[k]) = 1 THEN resets[e] ELSE loads[e][k]

(* Whatever the sizes of the operands, however slices and nests are put into *)
(* each other, and whether a row, a field or a cell is chosen by the program *)
(* or by the hardware: an operand is worth what was written, and a register  *)
(* or a memory loads the bits that were assigned to it last and no others.   *)
MeansWhatIsWritten ==
  \A k \in DOMAIN Held :
    LET now == Network(Held[k])
        right(h) == Worth(h.o, now) = h.is[k]
    IN /\ \A i \in DOMAIN oprs : right(oprs[i])
       /\ \A s \in DOMAIN slots : \A c \in DOMAIN slots[s] : right(slots[s][c])
       /\ \A e \in DOMAIN loads : LoadedAtEdge(e, now, Held[k]) = ToLoad(e, k)
=============================================================================
