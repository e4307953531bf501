----------------------------- MODULE Hardware -----------------------------
(***************************************************************************)
(* A design as a machine: it goes from edge to edge of its clock.          *)
(***************************************************************************)
EXTENDS Design

VARIABLES
  design,    \* the elements
  clk,       \* the level of the clock
  value,     \* what the registers, the inputs and the memories hold
  cycles     \* the positive edges there were

hwVars == <<design, clk, value, cycles>>

Init ==
  /\ design \in Designs
  /\ clk = "high"
  /\ value = Cleared(design)
  /\ cycles = 0

NegEdge ==
  /\ clk = "high" /\ clk' = "low"
  /\ value' = AtEdge(design, "neg", value)
  /\ UNCHANGED <<design, cycles>>

PosEdge ==
  /\ clk = "low" /\ clk' = "high"
  /\ value' = AtEdge(design, "pos", value)
  /\ cycles' = cycles + 1
  /\ UNCHANGED design

(* A test bench sets inputs and registers while the clock is high.          *)
Poke ==
  /\ clk = "high"
  /\ \E e \in OfKind(design, {"input", "reg"}) :
       \E v \in 0 .. 2^design[e].size - 1 : value' = [value EXCEPT ![e] = v]
  /\ UNCHANGED <<design, clk, cycles>>

Next == NegEdge \/ PosEdge \/ Poke

HardwareSpec == Init /\ [][Next]_hwVars
=============================================================================
