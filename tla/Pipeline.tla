------------------------------ MODULE Pipeline ------------------------------
(***************************************************************************)
(* A linear pipeline built from pip and zync blocks                        *)
(* (model/flowBlock/pipeline): stage i is                                  *)
(*                                                                         *)
(*     pip(c_i) { seq { <Work[i] plain states>; zyncc(c_i+1, accept) {     *)
(*                         data_i+1 <<= data_i } } }                       *)
(*                                                                         *)
(* The first pip and the last zync are declared autoSync: they have no     *)
(* partner and their side of the handshake is tied to 1.  Stage 1 makes    *)
(* the items (its zync also increments the item number), the last zync     *)
(* hands them to the program.                                              *)
(*                                                                         *)
(* One step of the specification is one clock cycle.  The program may      *)
(* raise the signals of each channel in any cycle; the combinational       *)
(* ready wires settle, then all registers load together.                   *)
(***************************************************************************)
EXTENDS FlowNode, FiniteSets

CONSTANTS
  N,             (* number of stages                                        *)
  Work,          (* Work[i]: plain states before the zync of stage i        *)
  MaxItem,       (* bound: the item the program stops at                    *)
  HoldSlave,     (* stages whose pip the program may hold                   *)
  HoldMaster,    (* stages whose zync the program may hold                  *)
  Refuse,        (* stages whose zync has an accept condition               *)
  KillSlave,     (* stages whose pip the program may kill                   *)
  KillMaster,    (* stages whose zync the program may kill                  *)
  Restart        (* stages whose pip the program may restart                *)

Stages == 1..N

ASSUME PipelineAssumption ==
  /\ N \in Nat \ {0}
  /\ Work \in [Stages -> Nat]
  /\ MaxItem \in Nat
  /\ {HoldSlave, HoldMaster, Refuse, KillSlave, KillMaster, Restart}
       \subseteq SUBSET Stages

VARIABLES
  start,   (* the module's start node                                       *)
  up,      (* up[i]: the registers of stage i that are 1                    *)
  data,    (* data[i]: item number in the data register of stage i          *)
  out      (* item number the last zync wrote                               *)

vars == <<start, up, data, out>>

(***************************************************************************)
(* The registers of stage i: waitNode of the pip is 0, the plain states of *)
(* the seq are 1..Work[i], prepSendNode of the zync is Prep(i).            *)
(***************************************************************************)
Wait    == 0
Prep(i) == Work[i] + 1
Nodes(i) == 0..Prep(i)

Signals == [hold : SUBSET HoldSlave, holdZync : SUBSET HoldMaster,
            refuse : SUBSET Refuse,
            kill : SUBSET KillSlave, killZync : SUBSET KillMaster,
            restart : SUBSET Restart]

-----------------------------------------------------------------------------
(* One clock cycle, given the signals "s" and the settled wires "ready":    *)
(* ready[i] is _syncSlaveReady of the channel into stage i.                 *)

Last(i) == i = N

(* holdSlave and killSlave reach every node of the pip, the zync included;  *)
(* holdMaster and killMaster only the zync.                                 *)
(* Mutants of the two: the kill, the hold of a pip forgets its zync.        *)
RstNotZync(s, i, k)  == i \in s.kill /\ k # Prep(i)
HoldNotZync(s, i, k) == i \in s.hold /\ k # Prep(i)

NodeRst(s, i, k)  == i \in s.kill \/ (k = Prep(i) /\ i \in s.killZync)
NodeHold(s, i, k) == i \in s.hold \/ (k = Prep(i) /\ i \in s.holdZync)

Exit(s, i, k) == StateExit(k \in up[i], NodeRst(s, i, k), NodeHold(s, i, k))

(* readyFinal of the zync in stage i: the next pip is ready and the accept  *)
(* condition holds.                                                         *)
Accept(s, i) == i \notin s.refuse
(* Mutant: the zync does not look at the next pip. *)
ReadyAlone(s, ready, i) == Accept(s, i)

ReadyFinal(s, ready, i) == Accept(s, i) /\ (Last(i) \/ ready[i+1])

(* exitNode of the zync, which is also the exit of the pip's body.          *)
Sent(s, ready, i) == Exit(s, i, Prep(i)) /\ ReadyFinal(s, ready, i)

(* entNode of the pip; its value is slaveReady.                             *)
Ent(s, ready, i) ==
  \/ Sent(s, ready, i)
  \/ Exit(s, i, Wait)
  \/ i \in s.restart
  \/ start

Settled(s, ready) == \A i \in Stages : ready[i] = Ent(s, ready, i)

(* _syncMasterReady of the channel into stage i.                            *)
(* Mutant: the zync tells the next pip before it has accepted. *)
MasterTooSoon(s, i) == i = 1 \/ Exit(s, i-1, Prep(i-1))

MasterReady(s, i) == i = 1 \/ (Exit(s, i-1, Prep(i-1)) /\ Accept(s, i-1))

(* Mutants: an entered pip waits even if it was served at once; a zync that *)
(* was refused does not try again.                                          *)
SetWaitAlways(s, ready, i, k) ==
  \/ k = Wait    /\ ready[i]
  \/ k = 1       /\ ready[i] /\ MasterReady(s, i)
  \/ k > 1       /\ Exit(s, i, k-1)
  \/ k = Prep(i) /\ Exit(s, i, k) /\ ~ReadyFinal(s, ready, i)

SetNoRetry(s, ready, i, k) ==
  \/ k = Wait    /\ ready[i] /\ ~MasterReady(s, i)
  \/ k = 1       /\ ready[i] /\ MasterReady(s, i)
  \/ k > 1       /\ Exit(s, i, k-1)

SetNode(s, ready, i, k) ==
  \/ k = Wait    /\ ready[i] /\ ~MasterReady(s, i)
  \/ k = 1       /\ ready[i] /\ MasterReady(s, i)
  \/ k > 1       /\ Exit(s, i, k-1)
  \/ k = Prep(i) /\ Exit(s, i, k) /\ ~ReadyFinal(s, ready, i)

NextUp(s, ready, i) ==
  {k \in Nodes(i) :
     StateNext(k \in up[i], SetNode(s, ready, i, k), NodeHold(s, i, k))}

(* The zync's assignments fire with its exit (AsmNode is gated by hold and  *)
(* reset the same way as the node's exit).                                  *)
(* Mutant: the assignments fire on the state and not on its exit. *)
DataUngated(s, ready, i) ==
  LET fires(j) == Prep(j) \in up[j] /\ ReadyFinal(s, ready, j)
  IN  IF i = 1 THEN IF fires(1) THEN data[1] + 1 ELSE data[1]
               ELSE IF fires(i-1) THEN data[i-1] ELSE data[i]

NextData(s, ready, i) ==
  IF i = 1 THEN IF Sent(s, ready, 1) THEN data[1] + 1 ELSE data[1]
           ELSE IF Sent(s, ready, i-1) THEN data[i-1] ELSE data[i]

Cycle(s, ready) ==
  /\ Settled(s, ready)
  /\ up' = [i \in Stages |-> NextUp(s, ready, i)]
  /\ data' = [i \in Stages |-> NextData(s, ready, i)]
  /\ out' = IF Sent(s, ready, N) THEN data[N] ELSE out
  /\ start' = FALSE

-----------------------------------------------------------------------------
(* The program restarts a stage only if it is empty after this cycle's     *)
(* kill (killSlave(true) does both at once), and stops at item MaxItem.     *)
Killed(s, i) == i \in s.kill /\ i \notin s.hold \cup s.holdZync

Disciplined(s) ==
  /\ \A i \in s.restart : up[i] = {} \/ Killed(s, i)
  /\ data[1] >= MaxItem => 1 \in s.refuse

(* Every register powers up at 0 except the start node, which the reset     *)
(* signal sets, and the item number of stage 1.                             *)
Init ==
  /\ start = TRUE
  /\ up = [i \in Stages |-> {}]
  /\ data = [i \in Stages |-> IF i = 1 THEN 1 ELSE 0]
  /\ out = 0

Next == \E s \in Signals :
          /\ Disciplined(s)
          /\ \E ready \in [Stages -> BOOLEAN] : Cycle(s, ready)

Spec == Init /\ [][Next]_vars

(* The program does not stall the pipeline for ever: cycles in which it     *)
(* raises no signal recur.                                                  *)
Quiet(s) ==
  /\ s.hold = {} /\ s.holdZync = {} /\ s.kill = {} /\ s.killZync = {}
  /\ s.restart = {}
  /\ s.refuse = IF data[1] >= MaxItem THEN {1} ELSE {}

QuietCycle == \E s \in Signals :
                /\ Quiet(s)
                /\ \E ready \in [Stages -> BOOLEAN] : Cycle(s, ready)

FairSpec == Spec /\ WF_vars(QuietCycle)
-----------------------------------------------------------------------------
(* Properties.                                                              *)

(* Every register holds a value of its kind.                                *)
TypeOK ==
  /\ start \in BOOLEAN
  /\ up \in [Stages -> SUBSET Nat]
  /\ \A i \in Stages : up[i] \subseteq Nodes(i)
  /\ data \in [Stages -> Nat]
  /\ out \in Nat

(* The states of one stage are a one-hot machine: whatever the program      *)
(* holds, kills, restarts and refuses, never two of its registers are up    *)
(* (pipe.cpp 104-112, zync.cpp 94, 102: entry, wait, body and self loop     *)
(* exclude each other).                                                     *)
OneToken == \A i \in Stages : \A j, k \in up[i] : j = k

Busy(i) == up[i] \ {Wait} # {}

Behind(i) == IF Last(i) THEN out ELSE data[i+1]

(* The item in a stage is younger than everything ahead of it, so items     *)
(* leave in order and none leaves twice, kills included.                    *)
InOrder == \A i \in Stages :
             /\ data[i] >= Behind(i)
             /\ (i = 1 \/ Busy(i)) => data[i] > Behind(i)

(* No signal other than a kill loses an item or a token: a stage that is    *)
(* busy holds exactly the item after the one ahead of it, an idle one holds *)
(* none, and every stage has a state that is up.                            *)
NoLoss ==
  KillSlave = {} /\ KillMaster = {} =>
     \A i \in Stages :
        /\ data[i] = Behind(i) + IF i = 1 \/ Busy(i) THEN 1 ELSE 0
        /\ start \/ up[i] # {}

(* zync and pip agree on every transfer: the zync of stage i writes the     *)
(* next data register and leaves prepSend in a cycle exactly when the body  *)
(* of stage i+1 is entered in that cycle.                                   *)
Handshake ==
  \A s \in Signals : \A ready \in [Stages -> BOOLEAN] :
    Disciplined(s) /\ Settled(s, ready) =>
      \A i \in 1..(N-1) :
         Sent(s, ready, i) <=> (ready[i+1] /\ MasterReady(s, i+1))

(* A pip that is held keeps every state it is in, and a stage that is held  *)
(* takes nothing in and lets nothing out, unless the program restarts it.   *)
HeldFrozen ==
  \A s \in Signals : \A ready \in [Stages -> BOOLEAN] :
    Disciplined(s) /\ Settled(s, ready) =>
      \A i \in s.hold :
         /\ up[i] \subseteq NextUp(s, ready, i)
         /\ (i \notin s.restart /\ ~start) => NextUp(s, ready, i) = up[i]
         /\ ~Sent(s, ready, i)

(* killSlave without a hold and a restart leaves nothing of the stage, and  *)
(* with a restart only the fresh entry: what was in flight is gone.         *)
KillFlushes ==
  \A s \in Signals : \A ready \in [Stages -> BOOLEAN] :
    Disciplined(s) /\ Settled(s, ready) =>
      \A i \in s.kill \ (s.hold \cup s.holdZync) :
         /\ ~Sent(s, ready, i)
         /\ (i \notin s.restart /\ ~start) => NextUp(s, ready, i) = {}
         /\ NextUp(s, ready, i) \subseteq {Wait, 1}

(* What the channel signals do to a stage: a hold freezes it, a kill        *)
(* empties it, in every cycle and beside every other signal.                *)
SignalsObeyed == HeldFrozen /\ KillFlushes

(* The items between the stages, and what the chain promises about them.    *)
InFlight == {data[i] : i \in {j \in Stages : j # 1 /\ Busy(j)}}

Channel == INSTANCE ItemChannel WITH
             Capacity <- N - 1,
             Lossy    <- KillSlave # {} \/ KillMaster # {},
             next     <- data[1],
             inside   <- InFlight,
             last     <- out

(* The stages implement the channel.                                        *)
ImplementsChannel == Channel!Spec

(* Every item that is made leaves, if the program lets cycles pass in       *)
(* which it raises no signal.                                               *)
Delivered == \A n \in 1..(MaxItem - 1) : (data[1] > n) ~> (out >= n)
=============================================================================
