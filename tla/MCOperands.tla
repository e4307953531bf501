----------------------------- MODULE MCOperands -----------------------------
(***************************************************************************)
(* The elements the library makes of the calls of a program, the numbers   *)
(* the simulation computes with, and the decoders that are made of a       *)
(* description.  A behaviour runs one of them while the others stand still.*)
(***************************************************************************)
EXTENDS Library, Datapath, Decoder

-----------------------------------------------------------------------------
MCReg(n) == [kind |-> "reg", size |-> n, clk |-> "pos", pool |-> <<>>]
MCMem    == [kind |-> "mem", size |-> 2, depth |-> 2]
MCRow(fields) == [c \in DOMAIN fields |-> [name |-> fields[c][1], reg |-> fields[c][2]]]

(* Held state number k: the registers take the digits of a number that goes *)
(* through its values in steps.                                             *)
MCRegsHold(sizes, number) ==
  [e \in DOMAIN sizes |->
     Part(number, <<FoldLeft(+, 0, SubSeq(sizes, 1, e - 1)), FoldLeft(+, 0, SubSeq(sizes, 1, e))>>)]

MCSampled(sizes, samples, step) ==
  LET bits == FoldLeft(+, 0, sizes)
  IN [k \in 1 .. samples |-> MCRegsHold(sizes, (k * step) % 2^bits)]

MCStock(sizes, held, os, ts, rst, allowed, ops, max) ==
  [elements |-> [e \in DOMAIN sizes |-> MCReg(sizes[e])], held |-> held, oprs |-> os,
   tables |-> ts, rst |-> rst, calls |-> allowed, ops |-> ops, max |-> max,
   slots |-> <<>>, names |-> {"a", "c"}]

(* Operators on two and three bits, in each of the 32 states.               *)
MCOperators ==
  MCStock(<<2, 3>>, MCSampled(<<2, 3>>, 32, 1), <<1, 2>>, <<>>, None,
          {"slice", "unary", "extension", "binary"},
          {"inv", "lnot", "and", "or", "xor", "shl", "shr", "land", "lor", "eq", "neq", "less", "leq", "slt",
           "plus", "minus", "mul"}, 2)

(* Slices and nests of parts of two registers, which are assigned.          *)
MCParts ==
  MCStock(<<2, 2>>, MCSampled(<<2, 2>>, 16, 1), <<1, 2>>, <<>>, None,
          {"slice", "nest", "assign"}, {}, 3)

(* A table of two rows, a bit and two bits for an index, and a value.       *)
MCTable(allowed, max) ==
  LET sizes == <<1, 2, 1, 2, 1, 2, 2, 1>>
  IN MCStock(sizes, MCSampled(sizes, 8, 1723), <<5, 6, 7>>,
       << <<MCRow(<< <<"a", 1>>, <<"b", 2>> >>), MCRow(<< <<"a", 3>>, <<"b", 4>> >>)>> >>,
       Whole(8, 1), allowed, {}, max)

MCRowsByIndex == MCTable({"rowAt", "cellAt", "field", "copy"}, 2)
MCColumns     == MCTable({"column", "regroup", "reduce"}, 3)

(* Four rows of three fields, and a row to search from.                     *)
MCOrdered ==
  LET sizes == [e \in 1 .. 12 |-> 1] \o <<2>>
      row(r) == MCRow(<< <<"a", 3 * r - 2>>, <<"b", 3 * r - 1>>, <<"c", 3 * r>> >>)
  IN MCStock(sizes, MCSampled(sizes, 32, 4723), <<13>>, << <<row(1), row(2), row(3), row(4)>> >>,
             None, {"findMBO", "reduce", "field"}, {}, 2)

(* Tables of a row, whose fields have other places.                         *)
MCSlots ==
  LET sizes == <<1, 2, 2, 1, 1, 2>>
  IN MCStock(sizes, MCSampled(sizes, 8, 211), <<5, 6>>,
       << <<MCRow(<< <<"a", 1>>, <<"b", 2>> >>)>>, <<MCRow(<< <<"b", 3>>, <<"a", 4>> >>)>> >>,
       None, {"row", "copy", "field", "fieldAt", "assignSlot"}, {}, 4)

(* Parts of slots, slots that are joined and get fields, and slots of wires *)
(* that are declared and assigned; from rows with other places.             *)
MCFields(allowed, max) ==
  LET sizes == <<1, 2, 2, 1, 2, 2, 1>>
  IN [MCStock(sizes, MCSampled(sizes, 4, 423), <<5, 6>>, <<>>, Whole(7, 1), allowed, {}, max)
      EXCEPT !.slots = <<MCRow(<< <<"a", 1>>, <<"b", 2>> >>), MCRow(<< <<"b", 3>>, <<"a", 4>> >>)>>]

MCParted   == MCFields({"part", "fieldAt", "number", "field"}, 2)
MCAssigned == MCFields({"part", "resetSlot", "assignSlot"}, 3)
MCDeclared == MCFields({"join", "addWire", "declare"}, 3)

(* A memory of two cells of two bits, and muxes.                            *)
MCMemory ==
  LET regs == MCSampled(<<1, 2, 2>>, 32, 1)
  IN [MCStock(<<1, 2, 2>>,
         [k \in DOMAIN regs |-> Append(regs[k], [cell \in 0 .. 1 |-> (regs[k][2] + cell * regs[k][3]) % 4])],
         <<1, 2, 3>>, <<>>, None, {"slice", "memory", "mux"}, {}, 2)
      EXCEPT !.elements = Append(@, MCMem)]

MCStocks ==
  {MCOperators, MCParts, MCRowsByIndex, MCColumns, MCOrdered, MCSlots, MCParted, MCAssigned,
   MCDeclared, MCMemory}

-----------------------------------------------------------------------------
(* Instruction sets.                                                        *)
MCOp(bits)              == [kind |-> "op", bits |-> bits]
MCOpr(kind, n, reg)  == [kind |-> kind, size |-> n, reg |-> reg]
MCImm(n, reg, from)  == [kind |-> "imm", size |-> n, reg |-> reg, from |-> from, zeroExtend |-> FALSE]
MCUop(n, name)       == [kind |-> "uop", size |-> n, name |-> name]
MCMop(mop, uops)        == [call |-> "mop", mop |-> mop, uops |-> uops]
MCRule(mop, tokens)     == [call |-> "rule", mop |-> mop, tokens |-> tokens]
MCAd(fields, match)     == [call |-> "ad", fields |-> fields, match |-> match]
MCAdm(uops)             == [call |-> "adm", uops |-> uops]
MCNamed(name)           == [name |-> name, sl |-> <<0, 0>>]
MCDirect(from, to)      == [name |-> "s", sl |-> <<from, to>>]
MCOn(vals, uop)         == [vals |-> vals, uop |-> uop]

(* Two operands and an immediate in one and in two pieces, behind a prefix. *)
MCPrefixed ==
  [width |-> 10, oprSize |-> 8, src |-> 2, des |-> 1, samples |-> {(i * 37) % 1024 : i \in 0 .. 63},
   text |-> <<
     [call |-> "prefix", token |-> MCOp(<<1>>)],
     MCMop("op", {"add", "sub", "sll"}), MCMop("ldst", {"word", "usign", "isload"}),
     MCRule("op", <<MCUop(1, "ub"), MCUop(1, "ua"), MCOpr("rs", 3, 1), MCOpr("rd", 3, 0), MCOp(<<0, 1>>)>>),
     MCAd(<<MCNamed("ub"), MCNamed("ua")>>,
          <<MCOn(<<0, 0>>, "add"), MCOn(<<1, 0>>, "sub"), MCOn(<<0, 1>>, "sll"), MCOn(<<1, 1>>, "sll")>>),
     MCRule("ldst", <<MCOp(<<0>>), MCUop(1, "ua"), MCImm(3, 1, 1), MCOpr("rs", 3, 0), MCOp(<<1, 1>>)>>),
     MCAd(<<MCDirect(5, 7), MCNamed("ua")>>, <<MCOn(<<2, 1>>, "word"), MCOn(<<3, 1>>, "word")>>),
     MCAd(<<MCNamed("ua")>>, <<MCOn(<<0>>, "usign")>>),
     MCRule("ldst", <<MCOp(<<1>>), MCImm(1, 1, 4), MCImm(3, 1, 1), MCOpr("rd", 3, 0), MCOp(<<1, 1>>)>>),
     MCAdm({"isload"}) >>]

(* Every instruction of six bits: immediates up to the highest bit, of two  *)
(* pieces with a gap, extended by zeros; opcodes of one and of two tokens.  *)
MCShort ==
  [width |-> 6, oprSize |-> 4, src |-> 2, des |-> 1, samples |-> 0 .. 63,
   text |-> <<
     MCMop("imm", {"ua"}), MCMop("reg", {"ua"}), MCMop("none", {}),
     MCRule("imm", <<MCImm(2, 0, 0), MCOpr("rd", 2, 0), MCOp(<<0, 0>>)>>),
     MCRule("imm", <<MCImm(1, 0, 3), MCImm(1, 0, 0), MCOpr("rd", 2, 0), MCOp(<<0, 1>>)>>),
     MCAdm({"ua"}),
     MCRule("imm", <<[MCImm(1, 0, 1) EXCEPT !.zeroExtend = TRUE], MCUop(1, "ua"), MCOpr("rs", 2, 1), MCOp(<<1, 0>>)>>),
     MCAd(<<MCNamed("ua")>>, <<MCOn(<<1>>, "ua")>>),
     MCRule("reg", <<MCOp(<<0, 0>>), MCOpr("rs", 2, 0), MCOp(<<1, 1>>)>>),
     MCRule("none", <<MCOp(<<0, 1>>), MCOpr("rs", 2, 1), MCOp(<<1, 1>>)>>),
     MCRule("reg", <<MCOp(<<1>>), MCUop(1, "ua"), MCOpr("rd", 2, 0), MCOp(<<1, 1>>)>>),
     MCAd(<<MCNamed("ua")>>, <<MCOn(<<0>>, "ua")>>) >>]

(* Three rules on three bits, each of which is 0, 1 or anything; not Proper *)
(* most of them.                                                            *)
MCOpcode(bits) == [k \in 1 .. 3 |-> IF bits[k] = 2 THEN MCUop(1, <<"a", "b", "c">>[k]) ELSE MCOp(<<bits[k]>>)]

MCThreeRules ==
  LET flat(bits) == [k \in 1 .. 3 |-> bits[k] % 2]
      shapes == [1 .. 3 -> 0 .. 2]
      lower(x, y) == BitsWhere(3, LAMBDA k : flat(x)[k + 1] = 1) < BitsWhere(3, LAMBDA k : flat(y)[k + 1] = 1)
  IN {[width |-> 3, oprSize |-> 2, src |-> 0, des |-> 0, samples |-> 0 .. 7,
       text |-> <<MCMop(1, {"ua"}), MCMop(2, {"ua"}), MCMop(3, {}),
                  MCRule(1, MCOpcode(z[1])), MCAdm({"ua"}), MCRule(2, MCOpcode(z[2])),
                  MCRule(3, MCOpcode(z[3]))>>] :
        z \in {z \in shapes \X shapes \X shapes : lower(z[1], z[2]) /\ lower(z[2], z[3])}}

MCInstrSets == MCThreeRules \cup {MCPrefixed, MCShort}

NoInstrs == isa = <<>> /\ todo = <<>> /\ repo = <<>> /\ dc = <<>> /\ instr = -1

-----------------------------------------------------------------------------
(* Registers of Datapath, programs of Library, instruction sets of Decoder:  *)
(* each beside a program that makes no call, no register and no instruction.*)
NoCalls ==
  /\ stock = MCStock(<<>>, <<>>, <<>>, <<>>, None, {}, {}, 0) /\ calls = 0
  /\ design = <<>> /\ oprs = <<>> /\ slots = <<>> /\ tables = <<>>
  /\ loads = <<>> /\ resets = <<>> /\ new = "none"

NoRegister == size = 0 /\ acc = 0 /\ ref = 0

MCInit ==
  \/ Init /\ NoCalls /\ NoInstrs
  \/ LibraryInit /\ NoRegister /\ NoInstrs
  \/ DecoderInit /\ NoRegister /\ NoCalls

MCNext ==
  \/ size # 0 /\ Next /\ UNCHANGED <<libVars, decVars>>
  \/ LibraryNext /\ UNCHANGED <<vars, decVars>>
  \/ isa # <<>> /\ DecoderNext /\ UNCHANGED <<vars, libVars>>

MCSpec == MCInit /\ [][MCNext]_<<libVars, vars, decVars>>
=============================================================================
