--------------------------------- MODULE Isa ---------------------------------
(***************************************************************************)
(* What a pipelined core promises: seen from its registers and its memory  *)
(* it is a machine that executes the program one instruction after the     *)
(* other.  A core with two commit ports may show the effect of two at      *)
(* once.                                                                   *)
(***************************************************************************)
EXTENDS Naturals

CONSTANTS
  Regs,           (* architectural registers                                *)
  Words,          (* program counters, addresses and values                 *)
  Instr,          (* instructions                                           *)
  Execute(_, _),  (* the machine [pc, reg, mem] after an instruction        *)
  Ports           (* instructions that may take effect at once, 1 or 2      *)

VARIABLES
  prog,   (* the program, an instruction for every word                     *)
  pc,     (* the next instruction                                           *)
  reg,    (* the architectural registers                                    *)
  mem     (* the data memory                                                *)

vars == <<prog, pc, reg, mem>>

Now == [pc |-> pc, reg |-> reg, mem |-> mem]

Init ==
  /\ prog \in [Words -> Instr]
  /\ pc = 0
  /\ reg = [r \in Regs |-> 0]
  /\ mem = [a \in Words |-> 0]

Becomes(s) == pc' = s.pc /\ reg' = s.reg /\ mem' = s.mem /\ UNCHANGED prog

After(s) == Execute(s, prog[s.pc])

One == Becomes(After(Now))
Two == Becomes(After(After(Now)))

Next == One \/ (Ports = 2 /\ Two)

Spec == Init /\ [][Next]_vars
=============================================================================
