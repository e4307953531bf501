------------------------------- MODULE Decoder -------------------------------
(***************************************************************************)
(* The instruction decoder library (lib/instr).  A program describes       *)
(* instructions by rules: sequences of tokens, from the highest bit to the *)
(* lowest, for bits of the opcode, operands, pieces of an immediate and    *)
(* fields that select micro-operations.  The library makes of all rules a  *)
(* tree of zif and zelse over single bits of the instruction, with the     *)
(* assignments of one rule at every leaf.                                  *)
(*                                                                         *)
(* A behaviour is a program that describes instructions, call by call, and *)
(* then the clock: any instruction may be at the input in every cycle.     *)
(***************************************************************************)
EXTENDS Design, SequencesExt

CONSTANT InstrSets  (* programs: [width, oprSize, src, des, samples, text]: *)
                    (* sizes, numbers of operands, the instructions that    *)
                    (* may come, and the sequence of calls                  *)

VARIABLES
  isa,      \* the program
  todo,     \* its calls that are still to be made
  repo,     \* [prefix, mops, rules]
  dc,       \* the registers: src, des, mop, uop; empty before they are declared
  instr     \* history: the instruction of the last cycle, or -1

decVars == <<isa, todo, repo, dc, instr>>

-----------------------------------------------------------------------------
(* Tokens.  "op" has bits, the highest first; the others have a size.       *)

TokenSize(tk) == IF tk.kind = "op" THEN Len(tk.bits) ELSE tk.size

SizeOf(tokens) == FoldLeft(LAMBDA n, tk : n + TokenSize(tk), 0, tokens)

(* TOKEN_GRP: the last token begins at bit 0.                               *)
TokenGrp(tokens) ==
  [k \in DOMAIN tokens |->
     LET start == SizeOf(SubSeq(tokens, k + 1, Len(tokens)))
     IN [token |-> tokens[k], sl |-> <<start, start + TokenSize(tokens[k])>>]]

OfType(grp, kind) == {k \in DOMAIN grp : grp[k].token.kind = kind}

FieldOf(i, grp, k) == Part(i, grp[k].sl)

(* Bits that no token of the opcode has count as 0.                         *)
FlattenMop(grp) ==
  [b \in 0 .. isa.width - 1 |->
     LET ops == {k \in OfType(grp, "op") : b \in grp[k].sl[1] .. grp[k].sl[2] - 1}
     IN IF ops = {} THEN 0
        ELSE LET tk == grp[Min(ops)] IN tk.token.bits[tk.sl[2] - b]]

-----------------------------------------------------------------------------
(* The calls of a program.                                                  *)

IsCall(name) == todo # <<>> /\ Head(todo).call = name

Described(r) == todo' = Tail(todo) /\ repo' = r /\ UNCHANGED <<isa, dc, instr>>

AddFixPrefix ==
  /\ IsCall("prefix")
  /\ Described([repo EXCEPT !.prefix = TokenGrp(<<Head(todo).token>>)])

AddMop ==
  /\ IsCall("mop") /\ Head(todo).mop \notin DOMAIN repo.mops
  /\ Described([repo EXCEPT !.mops = (Head(todo).mop :> Head(todo).uops) @@ @])

AddDecRule ==
  LET grp == TokenGrp(Head(todo).tokens)
  IN  /\ IsCall("rule")
      /\ Described([repo EXCEPT !.rules = Append(@,
           [mop |-> Head(todo).mop, grp |-> grp, flattenOp |-> FlattenMop(grp),
            slaves |-> <<>>, dummies |-> {}])])

(* ad and adm go to the rule added last.                                    *)
Ad ==
  /\ IsCall("ad")
  /\ \A k \in DOMAIN Head(todo).match :
       Head(todo).match[k].uop \in repo.mops[Last(repo.rules).mop]
  /\ Described([repo EXCEPT !.rules[Len(repo.rules)].slaves =
       @ \o [k \in DOMAIN Head(todo).match |->
               [rule |-> Head(todo).fields, vals |-> Head(todo).match[k].vals,
                uop |-> Head(todo).match[k].uop]]])

Adm ==
  /\ IsCall("adm")
  /\ Described([repo EXCEPT !.rules[Len(repo.rules)].dummies = @ \cup Head(todo).uops])

DeclareHw ==
  LET opr == [valid |-> 0, idx |-> 0, data |-> 0]
  IN  /\ todo = <<>> /\ dc = <<>>
      /\ dc' = [src |-> [n \in 0 .. isa.src - 1 |-> opr],
                des |-> [n \in 0 .. isa.des - 1 |-> opr],
                mop |-> [m \in DOMAIN repo.mops |-> 0],
                uop |-> [m \in DOMAIN repo.mops |-> [u \in repo.mops[m] |-> 0]]]
      /\ UNCHANGED <<isa, todo, repo, instr>>

-----------------------------------------------------------------------------
(* What the generated logic loads in a cycle.                               *)

(* The rules that are left below bit b: if they all have the same bit there *)
(* the instruction is not looked at.                                        *)
Separated(rules, b, i) ==
  LET with(v) == {r \in rules : repo.rules[r].flattenOp[b] = v}
  IN IF with(0) # {} /\ with(1) # {} THEN with(Bit(i, b)) ELSE rules

GenDecInternal(i) ==
  FoldLeft(LAMBDA rules, b : Separated(rules, b, i), DOMAIN repo.rules,
           [k \in 1 .. isa.width |-> k - 1])

(* ImmAsm: the pieces in the order of their places; a gap is 0; what is     *)
(* above the last piece is 0 or copies of its highest bit.                  *)
Imm(i, grp) ==
  LET pieces == OfType(grp, "imm")
      place(k) == grp[k].token.from
      last == CHOOSE k \in pieces : \A j \in pieces : place(j) <= place(k)
      top == place(last) + grp[last].token.size
      value == MapThenSumSet(LAMBDA k : FieldOf(i, grp, k) * 2^place(k), pieces)
      negative == /\ \A k \in pieces : ~grp[k].token.zeroExtend
                  /\ Bit(i, grp[last].sl[2] - 1) = 1
  IN IF negative THEN value + 2^isa.oprSize - 2^top ELSE value

(* An operand that the rule does not use is reset; its data stays.          *)
OprHw(hw, i, grp, regs, imms) ==
  CASE imms # {} -> [valid |-> 1, idx |-> 0, data |-> Imm(i, grp)]
    [] imms = {} /\ regs # {} -> [hw EXCEPT !.valid = 0, !.idx = FieldOf(i, grp, Min(regs))]
    [] OTHER -> [hw EXCEPT !.valid = 0, !.idx = 0]

(* A field of a slave rule is a named token of the master rule, or bits of  *)
(* the instruction.                                                         *)
FieldSlice(grp, field) ==
  IF field.name = "s" THEN field.sl
  ELSE grp[CHOOSE k \in OfType(grp, "uop") : grp[k].token.name = field.name].sl

GetActCond(i, grp, slave) ==
  \A f \in DOMAIN slave.rule : Part(i, FieldSlice(grp, slave.rule[f])) = slave.vals[f]

UopSet(i, rule, u) ==
  Truth(\/ u \in rule.dummies
        \/ \E s \in DOMAIN rule.slaves :
             rule.slaves[s].uop = u /\ GetActCond(i, rule.grp, rule.slaves[s]))

(* Mutant: the operands that a rule does not use are left as they are. *)
DoAsmKeepsUnused(i, rule) ==
  LET of(kind, n) == {k \in OfType(rule.grp, kind) : rule.grp[k].token.reg = n}
      asm(hw, regs, imms) == IF regs \cup imms = {} THEN hw ELSE OprHw(hw, i, rule.grp, regs, imms)
  IN  [src |-> [n \in DOMAIN dc.src |-> asm(dc.src[n], of("rs", n), of("imm", n))],
       des |-> [n \in DOMAIN dc.des |-> asm(dc.des[n], of("rd", n), {})],
       mop |-> [m \in DOMAIN dc.mop |-> Truth(m = rule.mop)],
       uop |-> [dc.uop EXCEPT ![rule.mop] = [u \in DOMAIN @ |-> UopSet(i, rule, u)]]]

DoAsm(i, rule) ==
  LET of(kind, n) == {k \in OfType(rule.grp, kind) : rule.grp[k].token.reg = n}
  IN  [src |-> [n \in DOMAIN dc.src |-> OprHw(dc.src[n], i, rule.grp, of("rs", n), of("imm", n))],
       des |-> [n \in DOMAIN dc.des |-> OprHw(dc.des[n], i, rule.grp, of("rd", n), {})],
       mop |-> [m \in DOMAIN dc.mop |-> Truth(m = rule.mop)],
       uop |-> [dc.uop EXCEPT ![rule.mop] = [u \in DOMAIN @ |-> UopSet(i, rule, u)]]]

PrefixMet(i) ==
  \A k \in DOMAIN repo.prefix :
    \A b \in 1 .. TokenSize(repo.prefix[k].token) :
      Bit(i, repo.prefix[k].sl[2] - b) = repo.prefix[k].token.bits[b]

(* genDecodeLogic.  A rule of the tree must be left alone at its leaf.      *)
Decode(i) ==
  /\ dc # <<>>
  /\ dc' = IF PrefixMet(i)
             THEN LET leaf == GenDecInternal(i)
                  IN DoAsm(i, repo.rules[CHOOSE r \in leaf : leaf = {r}])
             ELSE [dc EXCEPT !.mop = [m \in DOMAIN @ |-> 0]]
  /\ instr' = i
  /\ UNCHANGED <<isa, todo, repo>>

-----------------------------------------------------------------------------
DecoderInit ==
  /\ isa \in InstrSets
  /\ todo = isa.text
  /\ repo = [prefix |-> <<>>, mops |-> <<>>, rules |-> <<>>]
  /\ dc = <<>>
  /\ instr = -1

DecoderNext ==
  \/ AddFixPrefix \/ AddMop \/ AddDecRule \/ Ad \/ Adm
  \/ DeclareHw
  \/ \E i \in isa.samples : Decode(i)

-----------------------------------------------------------------------------
(* What the text of a rule says, read from the left.                        *)

Segment(i, tokens, k) ==
  LET left == isa.width - SizeOf(SubSeq(tokens, 1, k - 1))
  IN  Part(i, <<left - TokenSize(tokens[k]), left>>)

Matches(i, tokens) ==
  \A k \in DOMAIN tokens : tokens[k].kind = "op" =>
    Segment(i, tokens, k) = FoldLeft(LAMBDA n, bit : 2 * n + bit, 0, tokens[k].bits)

(* The bits of the immediate, each from the token that is to fill it.       *)
WrittenImm(i, tokens, n) ==
  LET pieces == {k \in DOMAIN tokens : tokens[k].kind = "imm"}
      fills(j) == {k \in pieces : j \in tokens[k].from .. tokens[k].from + tokens[k].size - 1}
      from(j) == LET k == Min(fills(j)) IN Bit(Segment(i, tokens, k), j - tokens[k].from)
      highest == Max({j \in 0 .. isa.oprSize - 1 : fills(j) # {}})
      extended == \A k \in pieces : ~tokens[k].zeroExtend
  IN  BitsWhere(isa.oprSize, LAMBDA j :
        CASE fills(j) # {} -> from(j) = 1
          [] j > highest -> extended /\ from(highest) = 1
          [] OTHER -> FALSE)

Naming(tokens, kind, n) == {k \in DOMAIN tokens : tokens[k].kind = kind /\ tokens[k].reg = n}

WrittenUop(i, r, tokens, u) ==
  LET value(f) == IF f.name = "s" THEN Part(i, f.sl)
                  ELSE Segment(i, tokens, CHOOSE k \in DOMAIN tokens :
                         tokens[k].kind = "uop" /\ tokens[k].name = f.name)
  IN  \/ u \in r.dummies
      \/ \E s \in DOMAIN r.slaves :
           /\ r.slaves[s].uop = u
           /\ \A f \in DOMAIN r.slaves[s].vals : value(r.slaves[s].rule[f]) = r.slaves[s].vals[f]

Shows(i, tokens) ==
  /\ \A n \in DOMAIN dc.src :
       LET rs == Naming(tokens, "rs", n)  imm == Naming(tokens, "imm", n)  hw == dc.src[n]
       IN /\ hw.valid = Truth(imm # {})
          /\ imm # {} => hw.data = WrittenImm(i, tokens, n)
          /\ hw.idx = IF rs # {} THEN Segment(i, tokens, Min(rs)) ELSE 0
  /\ \A n \in DOMAIN dc.des :
       LET rd == Naming(tokens, "rd", n)
       IN dc.des[n].idx = IF rd # {} THEN Segment(i, tokens, Min(rd)) ELSE 0

(* The lowest bit in which two opcodes differ is written in both of them.   *)
OpBits(rule) == UNION {rule.grp[k].sl[1] .. rule.grp[k].sl[2] - 1 : k \in OfType(rule.grp, "op")}

DifferAt(r, s) == {b \in 0 .. isa.width - 1 : r.flattenOp[b] # s.flattenOp[b]}

Proper ==
  \A r, s \in Range(repo.rules) :
    r # s => Min(DifferAt(r, s)) \in OpBits(r) \cap OpBits(s)

(* An instruction that matches a rule is decoded as that rule says, whatever *)
(* the other rules are and whatever was decoded before, if the opcodes are   *)
(* Proper; never are two operations set, and none without the prefix.        *)
DecodesAsWritten ==
  instr # -1 =>
    /\ Cardinality({m \in DOMAIN dc.mop : dc.mop[m] = 1}) = Truth(PrefixMet(instr))
    /\ PrefixMet(instr) /\ Proper =>
         \A r \in Range(repo.rules) :
           LET tokens == [k \in DOMAIN r.grp |-> r.grp[k].token]
           IN Matches(instr, tokens) =>
                /\ dc.mop[r.mop] = 1
                /\ Shows(instr, tokens)
                /\ \A u \in repo.mops[r.mop] : dc.uop[r.mop][u] = Truth(WrittenUop(instr, r, tokens, u))
=============================================================================
