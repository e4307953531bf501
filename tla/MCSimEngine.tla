---------------------------- MODULE MCSimEngine ----------------------------
(***************************************************************************)
(* Instances of SimEngine: every small net of three expressions and a      *)
(* register, the cyclic ones too, and designs with wires that have events  *)
(* of several priorities, a memory with two writers, and registers of both *)
(* edges.                                                                  *)
(***************************************************************************)
EXTENDS VerilogGen

(* Operands: a bit and two bits, the whole of an element or a part of it.   *)
One(e)      == [of |-> e, sl |-> <<0, 1>>]
Two(e)      == [of |-> e, sl |-> <<0, 2>>]
High(e)     == [of |-> e, sl |-> <<1, 2>>]

Arm(cond, des, val) == [cond |-> cond, des |-> des, val |-> val]
Event(prio, arms)   == [priority |-> prio, arms |-> arms]
User(cond, val)     == Event(10, <<Arm(cond, val.sl, val)>>)
Always(val)         == User(None, val)

Reg(size, clk, pool)    == [kind |-> "reg", size |-> size, clk |-> clk, pool |-> pool]
Input                   == [kind |-> "input", size |-> 1]
Value(size, v)          == [kind |-> "val", size |-> size, val |-> v]
Expr(op, size, a, b)    == [kind |-> "expr", size |-> size, op |-> op, a |-> a, b |-> b]
Nest(size, parts)       == [kind |-> "nest", size |-> size, parts |-> parts]
Mem(size, depth)        == [kind |-> "mem", size |-> size, depth |-> depth]
Read(size, m, i)        == [kind |-> "read", size |-> size, mem |-> m, index |-> i]
Write(size, m, i, pool) == [kind |-> "write", size |-> size, mem |-> m, index |-> i, clk |-> "pos", pool |-> pool]
Marked(mark, size, val) == [kind |-> "wire", size |-> size, mark |-> mark, pool |-> <<Always(val)>>]

(* Wire::makeDefEvent: the value a wire has when nothing is assigned.       *)
Wire(size, def, pool) ==
  [kind |-> "wire", size |-> size, mark |-> "none",
   pool |-> <<Event(0, <<Arm(None, <<0, size>>, def)>>)>> \o pool]

-----------------------------------------------------------------------------
(* Element 1 is the register; 2, 3 and 4 read any of the four, in any order. *)
Net(x, y, z) ==
  << Reg(1, "pos", <<Always(One(4))>>),
     Expr("lnot", 1, One(x), None),
     Expr("neq", 1, One(y[1]), One(y[2])),
     Wire(1, One(5), <<User(One(z[1]), One(z[2]))>>),
     Value(1, 0) >>

Pairs == {<<a, b>> \in (1 .. 4) \X (1 .. 4) : a # b}
Nets  == {Net(x, y, z) : x \in 1 .. 4, y \in Pairs, z \in Pairs}

(* Two registers, an input, and a wire that is assigned thrice; the first   *)
(* register is reset, which was written before what it loads.               *)
Wired ==
  << Reg(1, "pos", <<Event(100, <<Arm(One(6), <<0, 1>>, One(4))>>), User(One(3), One(7))>>),
     Reg(1, "pos", <<Always(One(6))>>),
     Input,
     Value(1, 0),
     Value(1, 1),
     Wire(1, One(4), <<Event(50, <<Arm(One(1), <<0, 1>>, One(5)), Arm(One(3), <<0, 1>>, One(2))>>),
                       User(One(2), One(5)), User(One(3), One(4))>>),
     Expr("lnot", 1, One(8), None),
     Expr("neq", 1, One(2), One(6)) >>

(* A memory of two cells with two writers and a reader, and a register of   *)
(* the negative edge that holds the data.                                   *)
Memory ==
  << Mem(1, 2),
     Reg(1, "pos", <<Always(One(8))>>),
     Reg(1, "neg", <<Always(One(6))>>),
     Write(1, 1, One(2), <<User(One(5), One(8))>>),
     Input,
     Read(1, 1, One(2)),
     Write(1, 1, One(5), <<Event(10, <<Arm(One(3), <<0, 1>>, One(5)), Arm(One(2), <<0, 1>>, One(3))>>)>>),
     Expr("lnot", 1, One(2), None),
     Nest(2, <<One(6), One(3)>>) >>

(* Two registers of two bits, of which parts are loaded: the high bit of    *)
(* one from its low bit, with a value that is wider than the bit as well,   *)
(* and both at once by a reset.                                             *)
Sliced ==
  << Reg(2, "pos", <<User(High(2), Two(7)),
                     Event(10, <<Arm(One(3), <<1, 2>>, One(1)), Arm(None, <<0, 1>>, Two(5))>>),
                     Event(100, <<Arm(One(8), <<0, 2>>, Two(4))>>)>>),
     Reg(2, "pos", <<Event(10, <<Arm(None, <<0, 1>>, High(7))>>),
                     Event(10, <<Arm(High(1), <<1, 2>>, One(3))>>)>>),
     Input,
     Value(2, 2),
     Nest(2, <<High(1), One(2)>>),
     Wire(2, Two(4), <<Event(10, <<Arm(One(2), <<1, 2>>, One(3))>>)>>),
     Expr("plus", 2, Two(6), Two(1)),
     Expr("land", 1, High(6), One(5)),
     Expr("ext", 2, High(2), None) >>

(* Elements with marked wires between modules: an output that is read next  *)
(* door, above and two above, an input that is read below and next door.    *)
Ported ==
  << Reg(1, "pos", <<User(One(4), One(9))>>),
     Marked("out", 1, One(1)),
     Marked("in", 1, One(2)),
     Input,
     Expr("lnot", 1, One(3), None),
     Marked("in", 1, One(8)),
     Marked("out", 1, One(5)),
     Reg(1, "pos", <<User(One(2), One(7)), Event(10, <<Arm(None, <<0, 1>>, One(4))>>)>>),
     Reg(1, "neg", <<User(One(6), One(7))>>),
     Expr("land", 1, One(3), One(9)) >>

MCDesigns == Nets \cup {Wired, Memory, Sliced, Ported}

MCGraphs == {GraphOf(d) : d \in MCDesigns}

MCTraced ==
  [d \in MCDesigns |-> IF d = Wired THEN {8} ELSE IF d = Memory THEN {3, 8}
     ELSE IF d = Sliced THEN {8} ELSE IF d = Ported THEN {10} ELSE {3}]

(* The modules: one below the other, and next to each other.                *)
MCParent == [d \in MCDesigns |-> <<0, 1, 1, 3>>]

MCHome ==
  [d \in MCDesigns |->
     IF d = Wired       THEN <<4, 2, 3, 1, 4, 3, 4, 1>>
     ELSE IF d = Memory THEN <<3, 2, 4, 3, 4, 3, 3, 1, 2>>
     ELSE IF d = Sliced THEN <<2, 4, 3, 2, 1, 3, 4, 4, 3>>
     ELSE IF d = Ported THEN <<2, 2, 3, 2, 4, 4, 4, 3, 3, 1>>
     ELSE <<2, 4, 3, 1, 3>>]

MCGlobOutputs == MCTraced

Block(regs, subs, cons) == [regs |-> regs, subs |-> subs, cons |-> cons]

MCBlocks ==
  [d \in MCDesigns |->
     IF d = Wired
     THEN << Block({2}, <<>>, <<>>), Block({1}, <<>>, <<1>>), Block({}, <<2>>, <<>>) >>
     ELSE IF d = Memory
     THEN << Block({3}, <<>>, <<>>), Block({2}, <<1>>, <<>>) >>
     ELSE IF d = Sliced
     THEN << Block({2}, <<>>, <<>>), Block({1}, <<1>>, <<>>) >>
     ELSE << Block({1}, <<>>, <<>>) >>]
=============================================================================
