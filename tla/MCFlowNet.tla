------------------------------ MODULE MCFlowNet ------------------------------
(***************************************************************************)
(* Programs the runs of FlowNet execute, in the form FlowCompile           *)
(* describes.  A program is a sequence of blocks with its outermost block  *)
(* first; "Of" puts programs inside a block.                               *)
(***************************************************************************)
EXTENDS FlowNet

Shift(p, k) == [i \in DOMAIN p |-> [p[i] EXCEPT !.sub = [j \in DOMAIN @ |-> @[j] + k]]]

Of(kind, cond, n, kids) ==
  LET first[i \in 1..Len(kids)] == IF i = 1 THEN 2 ELSE first[i-1] + Len(kids[i-1])
      root == [kind |-> kind, cond |-> cond, n |-> n, int |-> {},
               sub |-> [i \in DOMAIN kids |-> first[i]]]
  IN  <<root>> \o FlattenSeq([i \in DOMAIN kids |-> Shift(kids[i], first[i] - 1)])

Asm               == Of("asm", <<>>, 0, <<>>)
InSeq(kids)       == Of("seq", <<>>, 0, kids)
InPar(kids)       == Of("par", <<>>, 0, kids)
ParMan(kids)      == Of("parMan", <<>>, 0, kids)
Master(i, kids)   == Of("par", <<>>, i, kids)
CIf(c, kids)      == Of("cif", c, 0, kids)
SIf(c, kids)      == Of("sif", c, 0, kids)
CWhile(c, body)   == Of("cwhile", c, 0, <<body>>)
SWhile(c, body)   == Of("swhile", c, 0, <<body>>)
DoWhile(c, body)  == Of("cdowhile", c, 0, <<body>>)
Loop(n, body)     == Of("cloop", <<>>, n, <<body>>)
Break             == Of("sbreak", <<>>, 0, <<>>)
WaitFor(c)        == Of("scWait", <<c>>, 0, <<>>)
WaitCycles(n)     == Of("syWait", <<>>, n, <<>>)
Pick(c, kids)     == Of("pick", c, 0, kids)
PickDef(c, kids)  == Of("pick", c, 1, kids)
Stream(kids)      == Of("stream", <<>>, 0, [i \in DOMAIN kids |-> Of("ele", <<>>, 0, <<kids[i]>>)])
With(int, p)      == [p EXCEPT ![1].int = int]

(* The implicit par of a loop or branch with plain assignments.             *)
Do    == InPar(<<Asm>>)
Steps(n) == InSeq([i \in 1..n |-> Asm])

-----------------------------------------------------------------------------
(* One of each block, with "c" for its condition.                           *)
Samples(c) == <<
  Do,
  Steps(2),
  Loop(3, Do),
  CIf(<<c>>, <<Do>>),
  CIf(<<c>>, <<Do, Steps(2)>>),
  SIf(<<c>>, <<Do>>),
  CWhile(<<c>>, Do),
  SWhile(<<c>>, Steps(2)),
  DoWhile(<<c>>, Do),
  CWhile(<<>>, InSeq(<<Asm, CIf(<<c>>, <<Break>>), Asm>>)),
  WaitFor(c),
  WaitCycles(3),
  InPar(<<Asm, Steps(3)>>),
  InPar(<<Asm, WaitFor(c)>>) >>

(* Every pair of blocks side by side in a par that is run over and over.    *)
Side(p, q) == DoWhile(<<"again">>, InSeq(<<Asm, InPar(<<p, q>>)>>))

PairPrograms ==
  LET kinds == DOMAIN Samples("")
  IN  {Side(Samples("c")[ij[1]], Samples("d")[ij[2]]) :
         ij \in {ij \in kinds \X kinds : ij[1] <= ij[2]}}

(* Every block in every other, run over and over.                           *)
Around1(p) == {
  InSeq(<<p, Asm>>),
  InPar(<<Asm, p>>),
  Loop(2, p),
  CIf(<<"e">>, <<p>>),
  CIf(<<"e", "f">>, <<Do, p, Steps(2)>>),
  SIf(<<"e">>, <<Do, p>>),
  SWhile(<<"e">>, p),
  DoWhile(<<"e">>, p),
  CWhile(<<>>, InSeq(<<p, SIf(<<"e">>, <<Break>>)>>)) }

InsidePrograms ==
  {P \in UNION {{DoWhile(<<"again">>, InSeq(<<Asm, q>>)) : q \in Around1(Samples("c")[i])} :
                 i \in DOMAIN Samples("")} : Buildable(P)}

-----------------------------------------------------------------------------
(* Deeper programs.                                                         *)

(* if / else if / else with branches of their own length.                   *)
Branching ==
  InSeq(<<Asm, CIf(<<"a", "b">>, <<Do, Steps(2), InPar(<<Asm, WaitFor("w")>>)>>), Asm>>)

(* Branches of known length beside counted loops: the longest decides.      *)
Longest ==
  InSeq(<<Asm, InPar(<<Asm, Steps(3), Loop(2, Steps(2)), Loop(2, Do)>>), Loop(3, Do), Asm>>)

(* A join inside a join, in a loop that tests at its end.                   *)
Nested ==
  DoWhile(<<"again">>,
    InSeq(<<InPar(<<Asm, InSeq(<<Asm, InPar(<<WaitFor("x"), WaitCycles(3)>>)>>), WaitFor("y")>>),
            Asm>>))

(* An sbreak beside an assignment (simAutoTest19), in a loop run again.     *)
BreakBeside ==
  DoWhile(<<"again">>,
    InSeq(<<CWhile(<<"go">>,
              InSeq(<<Asm, CIf(<<"quit">>, <<InPar(<<Break, Steps(1)>>)>>), Asm>>)),
            Asm>>))

(* An sbreak out of a counted loop and a loop around it.                    *)
BreakThrough ==
  InSeq(<<Asm,
          CWhile(<<>>, InSeq(<<SIf(<<"quit">>, <<Break, Do>>), SWhile(<<"b">>, Do)>>)),
          Asm>>)

DeepPrograms == {Branching, Longest, Nested, BreakBeside, BreakThrough}

(* parMan, and a par with a join master (simAutoTest44).                    *)
LoosePrograms == {
  InSeq(<<Asm, ParMan(<<WaitFor("x"), WaitFor("y")>>), Asm>>),
  InSeq(<<Asm, Master(1, <<CWhile(<<"i">>, Do), CWhile(<<"j">>, Do)>>), Asm>>) }

-----------------------------------------------------------------------------
(* Programs that can be held, reset and started.                            *)

SignalPrograms == {
  With({"hold", "rst", "start"},
    InSeq(<<Asm, InPar(<<Asm, WaitFor("x")>>), Asm>>)),
  With({"rst", "start"},
    DoWhile(<<"again">>,
      InSeq(<<Asm, InPar(<<With({"hold"}, InSeq(<<Asm, SIf(<<"a">>, <<Do>>)>>)), WaitFor("x")>>)>>))),
  With({"rst", "start"}, Loop(3, InSeq(<<Asm, With({"hold"}, CWhile(<<"a">>, Do))>>))),
  With({"rst"}, CWhile(<<"go">>, InSeq(<<Asm, WaitCycles(3),
                  With({"start"}, CIf(<<"a">>, <<Do, WaitFor("x")>>))>>))),
  With({"hold"}, InSeq(<<Asm, With({"rst"}, SWhile(<<"a">>, Do)), Asm>>)) }

(* A pick on its own, with branches of unequal length, in a loop            *)
(* (simAutoTest38), with a break and in a par.                              *)
PickPrograms == {
  InSeq(<<Asm, Pick(<<"a", "b">>, <<Steps(2), InSeq(<<Asm, Asm>>)>>), Asm>>),
  DoWhile(<<"again">>, InSeq(<<Asm, PickDef(<<"a", "b">>, <<Do, Steps(2)>>), Asm>>)),
  InSeq(<<CWhile(<<"go">>, InSeq(<<Asm, Pick(<<"a", "quit">>, <<WaitFor("x"), Break>>)>>)), Asm>>),
  InSeq(<<InPar(<<Asm, PickDef(<<"a">>, <<SWhile(<<"c">>, Do)>>), WaitFor("x")>>), Asm>>),
  PickDef(<<"a", "b">>, <<Pick(<<"c", "d">>, <<Do, Do>>), InPar(<<Asm, WaitFor("x")>>)>>) }

(* Two counted pauses (simAutoTest65), two loops that wait (simAutoTest66), *)
(* three elements and one, started by the module, by a block or a signal.   *)
StreamPrograms == {
  Stream(<<InSeq(<<Asm, WaitCycles(3), Asm>>), InSeq(<<Asm, WaitCycles(6), Asm>>)>>),
  Stream(<<Do, InSeq(<<InPar(<<SWhile(<<"a">>, Do), SWhile(<<"b">>, Do)>>), Asm>>)>>),
  Stream(<<WaitFor("x"), Asm, WaitFor("y")>>),
  InSeq(<<Asm, Stream(<<Steps(2), SIf(<<"a">>, <<Asm, WaitFor("x")>>), Do>>)>>),
  Stream(<<InSeq(<<Asm, WaitFor("x")>>)>>),
  Stream(<<Pick(<<"a", "b">>, <<Do, Steps(2)>>), WaitFor("y")>>) }

AllPrograms == InsidePrograms \cup PairPrograms \cup DeepPrograms
                 \cup LoosePrograms \cup SignalPrograms
                 \cup PickPrograms \cup StreamPrograms

(* A pause and a branch of a par that are held.                             *)
HeldTimer == {With({"hold"}, InSeq(<<Asm, WaitCycles(2), Asm>>))}
HeldBranch ==
  {InSeq(<<Asm, InPar(<<With({"hold"}, Steps(2)), Steps(3)>>), Asm>>)}
=============================================================================
