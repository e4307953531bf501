--------------------------- MODULE PipelineProofs ---------------------------
(***************************************************************************)
(* The safety properties of Pipeline, for any number of stages, any number *)
(* of states per stage and any use of the channel signals; and behind them *)
(* those of Riscv, the core that is made of such stages, for every program,*)
(* every number of registers and every width of words.  Last those of      *)
(* Cache, the server of the examples.                                      *)
(***************************************************************************)
EXTENDS Pipeline, Riscv, Cache, Sequences, FiniteSetTheorems, TLAPS

(* Before the start node has fired nothing is up.                           *)
StartFirst == start => \A i \in Stages : up[i] = {}

(* One token per stage is inductive together with the order of the start;   *)
(* the order of the data needs it, because a stage that hands its item over *)
(* is then busy only with the item it takes in.                             *)
IInv == TypeOK /\ StartFirst /\ OneToken /\ InOrder

-----------------------------------------------------------------------------
(* Facts about one clock cycle.                                             *)

LEMMA NodeFacts ==
  ASSUME NEW i \in Stages
  PROVE  /\ Prep(i) \in Nat \ {0}
         /\ Wait \in Nodes(i) /\ 1 \in Nodes(i) /\ Prep(i) \in Nodes(i)
         /\ Nodes(i) \subseteq Nat
  BY PipelineAssumption DEF Prep, Nodes, Wait

(* zync.cpp 89, 102 and pipe.cpp 112: the condition under which the zync    *)
(* leaves prepSend is the one under which the next body is entered.         *)
LEMMA HandshakeFact ==
  ASSUME NEW s \in Signals, NEW ready \in [Stages -> BOOLEAN],
         NEW i \in Stages, i # 1
  PROVE  /\ i - 1 \in Stages
         /\ Sent(s, ready, i-1) <=> (ready[i] /\ MasterReady(s, i))
  BY PipelineAssumption DEF Stages, Sent, ReadyFinal, MasterReady, Last

(* An empty stage, or one killed while it is not held, has no exit.         *)
LEMMA NoExit ==
  ASSUME NEW s \in Signals, NEW i \in Stages,
         up[i] = {} \/ Killed(s, i)
  PROVE  /\ \A k \in Nodes(i) : ~Exit(s, i, k)
         /\ \A k \in Nodes(i) : ~(k \in up[i] /\ NodeHold(s, i, k))
  BY DEF Killed, Exit, StateExit, NodeRst, NodeHold

(* pipe.cpp 104-112, zync.cpp 94-102: a stage with at most one token has at *)
(* most one after the cycle.                                                *)
LEMMA OneTokenStep ==
  ASSUME NEW s \in Signals, NEW ready \in [Stages -> BOOLEAN],
         IInv, Disciplined(s), Settled(s, ready),
         NEW i \in Stages
  PROVE  \A j, k \in NextUp(s, ready, i) : j = k
<1> USE DEF Wait
<1>1. /\ Prep(i) \in Nat \ {0} /\ Nodes(i) \subseteq Nat
      /\ Prep(i) \in Nodes(i) /\ Wait \in Nodes(i)
  BY NodeFacts
<1>2. ready[i] = Ent(s, ready, i)
  BY DEF Settled
<1>3. CASE up[i] = {} \/ Killed(s, i)
  <2>1. \A k \in NextUp(s, ready, i) :
           \/ k = Wait /\ ready[i] /\ ~MasterReady(s, i)
           \/ k = 1 /\ ready[i] /\ MasterReady(s, i)
    <3> SUFFICES ASSUME NEW k \in NextUp(s, ready, i)
                 PROVE  \/ k = Wait /\ ready[i] /\ ~MasterReady(s, i)
                        \/ k = 1 /\ ready[i] /\ MasterReady(s, i)
      OBVIOUS
    <3>1. k \in Nodes(i) /\ ~Exit(s, i, k) /\ ~(k \in up[i] /\ NodeHold(s, i, k))
      BY <1>3, NoExit DEF NextUp
    <3>2. k > 1 => ~Exit(s, i, k-1)
      BY <1>3, <1>1, <3>1, NoExit DEF Nodes
    <3> QED
      BY <3>1, <3>2 DEF NextUp, StateNext, SetNode
  <2> QED
    BY <2>1
<1>4. CASE ~(up[i] = {} \/ Killed(s, i))
  <2>1. PICK x \in up[i] : up[i] = {x}
    BY <1>4 DEF IInv, OneToken
  <2>2. i \notin s.restart /\ start = FALSE
    BY <1>4 DEF IInv, StartFirst, TypeOK, Disciplined
  <2>3. x \in Nodes(i)
    BY <2>1 DEF IInv, TypeOK
  <2>4. \A k \in Nat : Exit(s, i, k) => k = x
    BY <2>1 DEF Exit, StateExit
  <2>5. ready[i] => (x = Wait /\ Exit(s, i, x)) \/ (x = Prep(i) /\ Sent(s, ready, i))
    BY <1>1, <1>2, <2>2, <2>4 DEF Ent, Sent
  <2>6. Exit(s, i, x) => ~NodeHold(s, i, x)
    BY DEF Exit, StateExit
  <2>7. \A k \in NextUp(s, ready, i) :
           \/ k = x /\ NodeHold(s, i, x)
           \/ k = Wait /\ ready[i] /\ ~MasterReady(s, i)
           \/ k = 1 /\ ready[i] /\ MasterReady(s, i)
           \/ k = x + 1 /\ x # Prep(i) /\ x # Wait /\ Exit(s, i, x)
           \/ k = x /\ x = Prep(i) /\ Exit(s, i, x) /\ ~ReadyFinal(s, ready, i)
    <3> SUFFICES ASSUME NEW k \in NextUp(s, ready, i)
                 PROVE  \/ k = x /\ NodeHold(s, i, x)
                        \/ k = Wait /\ ready[i] /\ ~MasterReady(s, i)
                        \/ k = 1 /\ ready[i] /\ MasterReady(s, i)
                        \/ k = x + 1 /\ x # Prep(i) /\ x # Wait /\ Exit(s, i, x)
                        \/ k = x /\ x = Prep(i) /\ Exit(s, i, x) /\ ~ReadyFinal(s, ready, i)
      OBVIOUS
    <3>1. k \in Nodes(i) /\ k \in Nat /\ k <= Prep(i)
      BY <1>1 DEF NextUp, Nodes
    <3>2. \/ k \in up[i] /\ NodeHold(s, i, k)
          \/ SetNode(s, ready, i, k)
      BY DEF NextUp, StateNext
    <3>3. (k > 1 /\ Exit(s, i, k-1)) => k = x + 1 /\ x # Prep(i) /\ x # Wait /\ Exit(s, i, x)
      BY <1>1, <2>4, <3>1
    <3> QED
      BY <1>1, <2>1, <2>4, <3>1, <3>2, <3>3 DEF SetNode
  <2>8. Sent(s, ready, i) => ReadyFinal(s, ready, i) /\ Exit(s, i, Prep(i))
    BY DEF Sent
  <2> QED
    BY <1>1, <2>3, <2>5, <2>6, <2>7, <2>8
<1> QED
  BY <1>3, <1>4

(* A stage is busy after the cycle only with the item it had and kept, or   *)
(* with the item that the stage before it sent.                             *)
LEMMA BusyStep ==
  ASSUME NEW s \in Signals, NEW ready \in [Stages -> BOOLEAN],
         IInv, Disciplined(s), Cycle(s, ready),
         NEW i \in Stages, i # 1, Busy(i)'
  PROVE  Sent(s, ready, i-1) \/ (Busy(i) /\ ~Sent(s, ready, i))
<1> USE DEF Wait
<1>1. /\ Prep(i) \in Nat \ {0} /\ Nodes(i) \subseteq Nat
      /\ Prep(i) \in Nodes(i) /\ Wait \in Nodes(i)
  BY NodeFacts
<1>2. Sent(s, ready, i-1) <=> (ready[i] /\ MasterReady(s, i))
  BY HandshakeFact
<1>3. PICK k \in NextUp(s, ready, i) : k # Wait
  BY DEF Busy, Cycle
<1>4. k \in Nodes(i) /\ k \in Nat
  BY <1>1 DEF NextUp
<1>5. SUFFICES ASSUME ~Sent(s, ready, i-1)
               PROVE  Busy(i) /\ ~Sent(s, ready, i)
  OBVIOUS
<1>6. \/ k \in up[i] /\ NodeHold(s, i, k)
      \/ k > 1 /\ Exit(s, i, k-1)
      \/ k = Prep(i) /\ Exit(s, i, k) /\ ~ReadyFinal(s, ready, i)
  BY <1>2, <1>3, <1>5 DEF NextUp, StateNext, SetNode
<1>7. Busy(i)
  BY <1>3, <1>4, <1>6 DEF Busy, Exit, StateExit
<1>8. ASSUME Sent(s, ready, i) PROVE FALSE
  <2>1. Exit(s, i, Prep(i)) /\ ReadyFinal(s, ready, i) /\ Prep(i) \in up[i]
    BY <1>8 DEF Sent, Exit, StateExit
  <2>2. \A j \in up[i] : j = Prep(i)
    BY <2>1 DEF IInv, OneToken
  <2>3. ~NodeHold(s, i, Prep(i))
    BY <2>1 DEF Exit, StateExit
  <2>4. k > 1 /\ Exit(s, i, k-1)
    BY <1>6, <2>1, <2>2, <2>3
  <2>5. k - 1 = Prep(i)
    BY <1>4, <2>2, <2>4 DEF Exit, StateExit
  <2> QED
    BY <1>1, <1>4, <2>5 DEF NextUp, Nodes
<1> QED
  BY <1>7, <1>8

(* The data register ahead of stage i takes the item of stage i when it is  *)
(* sent and keeps its own otherwise.                                        *)
LEMMA BehindStep ==
  ASSUME NEW s \in Signals, NEW ready \in [Stages -> BOOLEAN],
         IInv, Cycle(s, ready), NEW i \in Stages
  PROVE  Behind(i)' = IF Sent(s, ready, i) THEN data[i] ELSE Behind(i)
<1>1. CASE Last(i)
  BY <1>1 DEF Last, Behind, Cycle
<1>2. CASE ~Last(i)
  <2>1. i+1 \in Stages /\ i+1 # 1 /\ (i+1) - 1 = i
    BY <1>2, PipelineAssumption DEF Stages, Last
  <2>2. data'[i+1] = NextData(s, ready, i+1)
    BY <2>1 DEF Cycle
  <2> QED
    BY <1>2, <2>1, <2>2 DEF Behind, NextData, Last
<1> QED
  BY <1>1, <1>2

LEMMA BehindType == ASSUME TypeOK, NEW i \in Stages PROVE Behind(i) \in Nat
  BY PipelineAssumption DEF TypeOK, Behind, Last, Stages

-----------------------------------------------------------------------------
(* The inductive invariant.                                                 *)

LEMMA InitIInv == Init => IInv
<1> SUFFICES ASSUME Init PROVE IInv
  OBVIOUS
<1> USE DEF Init
<1>1. TypeOK
  BY DEF TypeOK
<1>2. StartFirst /\ OneToken
  BY DEF StartFirst, OneToken
<1>3. InOrder
  BY PipelineAssumption DEF InOrder, Busy, Behind, Last, Stages
<1> QED
  BY <1>1, <1>2, <1>3 DEF IInv

LEMMA StepIInv ==
  ASSUME IInv, NEW s \in Signals, NEW ready \in [Stages -> BOOLEAN],
         Disciplined(s), Cycle(s, ready)
  PROVE  IInv'
<1>1. TypeOK'
  <2>1. \A i \in Stages : NextUp(s, ready, i) \subseteq Nodes(i)
    BY DEF NextUp
  <2>2. \A i \in Stages : Nodes(i) \subseteq Nat
    BY NodeFacts
  <2>3. \A i \in Stages : i # 1 => i - 1 \in Stages
    BY PipelineAssumption DEF Stages
  <2>4. \A i \in Stages : NextData(s, ready, i) \in Nat
    BY <2>3 DEF NextData, IInv, TypeOK
  <2>5. N \in Stages
    BY PipelineAssumption DEF Stages
  <2> QED
    BY <2>1, <2>2, <2>4, <2>5 DEF Cycle, TypeOK, IInv
<1>2. StartFirst'
  BY DEF StartFirst, Cycle
<1>3. OneToken'
  BY OneTokenStep DEF Cycle, OneToken
<1>4. InOrder'
  <2> SUFFICES ASSUME NEW i \in Stages
               PROVE  /\ data'[i] >= Behind(i)'
                      /\ (i = 1 \/ Busy(i)') => data'[i] > Behind(i)'
    BY DEF InOrder
  <2>1. Behind(i)' = IF Sent(s, ready, i) THEN data[i] ELSE Behind(i)
    BY BehindStep
  <2>2. Behind(i) \in Nat /\ data[i] \in Nat
    BY BehindType DEF IInv, TypeOK
  <2>3. /\ data[i] >= Behind(i)
        /\ (i = 1 \/ Busy(i)) => data[i] > Behind(i)
    BY DEF IInv, InOrder
  <2>4. data'[i] = NextData(s, ready, i)
    BY DEF Cycle
  <2>5. CASE i = 1
    BY <2>1, <2>2, <2>3, <2>4, <2>5 DEF NextData
  <2>6. CASE i # 1
    <3>1. /\ i - 1 \in Stages
          /\ data[i-1] \in Nat
      BY <2>6, HandshakeFact DEF IInv, TypeOK, Stages
    <3>2. Behind(i-1) = data[i]
      BY <2>6, PipelineAssumption DEF Behind, Last, Stages
    <3>3. Sent(s, ready, i-1) => (i - 1 = 1 \/ Busy(i-1))
      BY <3>1, NodeFacts DEF Sent, Exit, StateExit, Busy, Wait
    <3>4. Sent(s, ready, i-1) => data[i-1] > data[i]
      BY <3>1, <3>2, <3>3 DEF IInv, InOrder
    <3>5. Busy(i)' => Sent(s, ready, i-1) \/ (Busy(i) /\ ~Sent(s, ready, i))
      BY <2>6, BusyStep
    <3> QED
      BY <2>1, <2>2, <2>3, <2>4, <2>6, <3>1, <3>4, <3>5 DEF NextData
  <2> QED
    BY <2>5, <2>6
<1> QED
  BY <1>1, <1>2, <1>3, <1>4 DEF IInv

LEMMA Invariance == Spec => []IInv
<1>1. IInv /\ [Next]_vars => IInv'
  <2> SUFFICES ASSUME IInv, [Next]_vars PROVE IInv'
    OBVIOUS
  <2>1. CASE Next
    BY <2>1, StepIInv DEF Next
  <2>2. CASE UNCHANGED vars
    BY <2>2 DEF vars, IInv, TypeOK, StartFirst, OneToken, InOrder, Behind, Busy
  <2> QED
    BY <2>1, <2>2
<1> QED
  BY InitIInv, <1>1, PTL DEF Spec

(* Every register of every stage keeps a value of its kind.                 *)
THEOREM TypeCorrect == Spec => []TypeOK
<1>1. IInv => TypeOK
  BY DEF IInv
<1> QED
  BY Invariance, <1>1, PTL

(* No use of the channel signals gives a stage two tokens.                  *)
THEOREM OneTokenPerStage == Spec => []OneToken
<1>1. IInv => OneToken
  BY DEF IInv
<1> QED
  BY Invariance, <1>1, PTL

(* Items stay in order and are never duplicated, kills included.            *)
THEOREM ItemsInOrder == Spec => []InOrder
<1>1. IInv => InOrder
  BY DEF IInv
<1> QED
  BY Invariance, <1>1, PTL

-----------------------------------------------------------------------------
(* What one cycle may do, whatever signals the program raises in it.        *)

(* The two sides of a channel decide alike on every transfer.               *)
THEOREM SidesAgree == Spec => []Handshake
<1>1. Handshake
  <2> SUFFICES ASSUME NEW s \in Signals, NEW ready \in [Stages -> BOOLEAN],
                      NEW i \in 1..(N-1)
               PROVE  Sent(s, ready, i) <=> (ready[i+1] /\ MasterReady(s, i+1))
    BY DEF Handshake
  <2>1. i + 1 \in Stages /\ i + 1 # 1 /\ (i + 1) - 1 = i
    BY PipelineAssumption DEF Stages
  <2> QED
    BY <2>1, HandshakeFact
<1> QED
  BY <1>1, PTL

(* A stage none of whose nodes exits is entered only by a restart or by the *)
(* start of the module (pipe.cpp 104-110).                                  *)
LEMMA NotEntered ==
  ASSUME NEW s \in Signals, NEW ready \in [Stages -> BOOLEAN], Settled(s, ready),
         NEW i \in Stages, \A k \in Nodes(i) : ~Exit(s, i, k)
  PROVE  /\ ~Sent(s, ready, i)
         /\ i \notin s.restart /\ ~start => ~ready[i]
         /\ \A k \in Nodes(i) :
              SetNode(s, ready, i, k) => ready[i] /\ k \in {Wait, 1}
<1>1. ~Sent(s, ready, i) /\ ~Exit(s, i, Wait)
  BY NodeFacts DEF Sent
<1>2. \A k \in Nodes(i) : k > 1 => ~Exit(s, i, k-1)
  BY PipelineAssumption DEF Nodes, Prep
<1> QED
  BY <1>1, <1>2 DEF Settled, Ent, SetNode

(* holdSlave freezes the stage, its zync included.                          *)
LEMMA HeldStagesFrozen == Spec => []HeldFrozen
<1>1. TypeOK => HeldFrozen
  <2> SUFFICES ASSUME TypeOK, NEW s \in Signals, NEW ready \in [Stages -> BOOLEAN],
                      Disciplined(s), Settled(s, ready), NEW i \in s.hold
               PROVE  /\ up[i] \subseteq NextUp(s, ready, i)
                      /\ i \notin s.restart /\ ~start => NextUp(s, ready, i) = up[i]
                      /\ ~Sent(s, ready, i)
    BY DEF HeldFrozen
  <2>1. i \in Stages
    BY PipelineAssumption DEF Signals
  <2>2. \A k \in Nodes(i) : NodeHold(s, i, k) /\ ~Exit(s, i, k)
    BY DEF NodeHold, Exit, StateExit
  <2>3. up[i] \subseteq Nodes(i)
    BY <2>1 DEF TypeOK
  <2> QED
    BY <2>1, <2>2, <2>3, NotEntered DEF NextUp, StateNext
<1> QED
  BY TypeCorrect, <1>1, PTL

(* killSlave leaves nothing of what was in the stage.                       *)
LEMMA KillsFlush == Spec => []KillFlushes
<1>1. KillFlushes
  <2> SUFFICES ASSUME NEW s \in Signals, NEW ready \in [Stages -> BOOLEAN],
                      Disciplined(s), Settled(s, ready),
                      NEW i \in s.kill \ (s.hold \cup s.holdZync)
               PROVE  /\ ~Sent(s, ready, i)
                      /\ i \notin s.restart /\ ~start => NextUp(s, ready, i) = {}
                      /\ NextUp(s, ready, i) \subseteq {Wait, 1}
    BY DEF KillFlushes
  <2>1. i \in Stages
    BY PipelineAssumption DEF Signals
  <2>2. Killed(s, i)
    BY DEF Killed
  <2>3. \A k \in Nodes(i) : ~Exit(s, i, k) /\ ~(k \in up[i] /\ NodeHold(s, i, k))
    BY <2>1, <2>2, NoExit
  <2> QED
    BY <2>1, <2>3, NotEntered DEF NextUp, StateNext
<1> QED
  BY <1>1, PTL

(* SignalsObeyed: a stage that is held is frozen and one that is killed is  *)
(* empty, whatever else happens in the cycle.                               *)
THEOREM SignalsAreObeyed == Spec => []SignalsObeyed
  BY HeldStagesFrozen, KillsFlush, PTL DEF SignalsObeyed

-----------------------------------------------------------------------------
(* Without kills nothing disappears.                                        *)

NoKill == KillSlave = {} /\ KillMaster = {}

Conserved == IInv /\ NoLoss

LEMMA NoReset ==
  ASSUME NoKill, NEW s \in Signals, NEW i \in Stages, NEW k \in Nat
  PROVE  ~NodeRst(s, i, k)
  BY DEF NoKill, Signals, NodeRst

(* An item that is sent arrives (zync.cpp 96-102), and a stage that does    *)
(* not send its item keeps it (stateNode.h 64-69, zync.cpp 94).             *)
LEMMA BusyKept ==
  ASSUME NoKill, IInv, NEW s \in Signals, NEW ready \in [Stages -> BOOLEAN],
         Cycle(s, ready), NEW i \in Stages
  PROVE  /\ i # 1 /\ Sent(s, ready, i-1) => Busy(i)'
         /\ Busy(i) /\ ~Sent(s, ready, i) => Busy(i)'
<1> USE DEF Wait
<1>1. /\ Prep(i) \in Nat \ {0} /\ Nodes(i) \subseteq Nat
      /\ Prep(i) \in Nodes(i) /\ 1 \in Nodes(i)
  BY NodeFacts
<1>2. ASSUME i # 1, Sent(s, ready, i-1) PROVE Busy(i)'
  <2>1. ready[i] /\ MasterReady(s, i)
    BY <1>2, HandshakeFact
  <2>2. 1 \in NextUp(s, ready, i)
    BY <1>1, <2>1 DEF NextUp, StateNext, SetNode
  <2> QED
    BY <2>2 DEF Busy, Cycle
<1>3. ASSUME Busy(i), ~Sent(s, ready, i) PROVE Busy(i)'
  <2>1. PICK k \in up[i] : k # Wait
    BY <1>3 DEF Busy
  <2>2. k \in Nodes(i) /\ k \in Nat /\ ~NodeRst(s, i, k)
    BY <1>1, NoReset DEF IInv, TypeOK
  <2>3. CASE NodeHold(s, i, k)
    <3>1. k \in NextUp(s, ready, i)
      BY <2>1, <2>2, <2>3 DEF NextUp, StateNext
    <3> QED
      BY <2>1, <3>1 DEF Busy, Cycle
  <2>4. CASE ~NodeHold(s, i, k) /\ k = Prep(i)
    <3>1. k \in NextUp(s, ready, i)
      BY <1>3, <2>1, <2>2, <2>4 DEF NextUp, StateNext, SetNode, Sent, Exit, StateExit
    <3> QED
      BY <2>1, <3>1 DEF Busy, Cycle
  <2>5. CASE ~NodeHold(s, i, k) /\ k # Prep(i)
    <3>1. k+1 \in Nodes(i) /\ k+1 > 1 /\ (k+1)-1 = k
      BY <1>1, <2>1, <2>2, <2>5 DEF Nodes
    <3>2. Exit(s, i, k)
      BY <2>2, <2>5 DEF Exit, StateExit
    <3>3. k+1 \in NextUp(s, ready, i)
      BY <3>1, <3>2 DEF NextUp, StateNext, SetNode
    <3> QED
      BY <3>1, <3>3 DEF Busy, Cycle
  <2> QED
    BY <2>3, <2>4, <2>5
<1> QED
  BY <1>2, <1>3

(* A token that leaves a state always sets another one.                     *)
LEMMA TokenStep ==
  ASSUME NoKill, Conserved, NEW s \in Signals,
         NEW ready \in [Stages -> BOOLEAN],
         Cycle(s, ready), NEW i \in Stages
  PROVE  up'[i] # {}
<1> USE DEF Wait
<1>1. /\ Prep(i) \in Nat \ {0} /\ Wait \in Nodes(i) /\ 1 \in Nodes(i)
  BY NodeFacts
<1>2. up'[i] = NextUp(s, ready, i) /\ ready[i] = Ent(s, ready, i)
  BY DEF Cycle, Settled
<1>3. ready[i] => Wait \in NextUp(s, ready, i) \/ 1 \in NextUp(s, ready, i)
  BY <1>1 DEF NextUp, StateNext, SetNode
<1>4. CASE start \/ Sent(s, ready, i)
  BY <1>2, <1>3, <1>4 DEF Ent
<1>5. CASE ~start /\ ~Sent(s, ready, i)
  <2>1. up[i] # {}
    BY <1>5 DEF Conserved, NoLoss, NoKill
  <2>2. CASE Busy(i)
    BY <1>5, <2>2, BusyKept DEF Conserved, Busy
  <2>3. CASE ~Busy(i)
    <3>1. Wait \in up[i]
      BY <2>1, <2>3 DEF Busy
    <3>2. CASE NodeHold(s, i, Wait)
      BY <1>1, <1>2, <3>1, <3>2 DEF NextUp, StateNext
    <3>3. CASE ~NodeHold(s, i, Wait)
      <4>1. Exit(s, i, Wait)
        BY <3>1, <3>3, NoReset DEF Exit, StateExit
      <4> QED
        BY <1>2, <1>3, <4>1 DEF Ent
    <3> QED
      BY <3>2, <3>3
  <2> QED
    BY <2>2, <2>3
<1> QED
  BY <1>4, <1>5

(* A stage is entered only when its item leaves or it has none.             *)
LEMMA EntryFree ==
  ASSUME NoKill, IInv, NEW s \in Signals, NEW ready \in [Stages -> BOOLEAN],
         Disciplined(s), Cycle(s, ready), NEW i \in Stages, ready[i],
         ~Sent(s, ready, i)
  PROVE  ~Busy(i)
<1>1. Exit(s, i, Wait) \/ i \in s.restart \/ start
  BY DEF Cycle, Settled, Ent
<1>2. CASE Exit(s, i, Wait)
  BY <1>2 DEF Exit, StateExit, IInv, OneToken, Busy
<1>3. CASE i \in s.restart
  <2>1. ~Killed(s, i)
    BY DEF NoKill, Signals, Killed
  <2> QED
    BY <1>3, <2>1 DEF Disciplined, Busy
<1>4. CASE start
  BY <1>4 DEF IInv, StartFirst, Busy
<1> QED
  BY <1>1, <1>2, <1>3, <1>4

(* The item numbers of neighbouring stages stay one apart exactly where an  *)
(* item is.                                                                 *)
LEMMA LossStep ==
  ASSUME NoKill, Conserved, NEW s \in Signals,
         NEW ready \in [Stages -> BOOLEAN],
         Disciplined(s), Cycle(s, ready), NEW i \in Stages
  PROVE  data'[i] = Behind(i)' + IF i = 1 \/ Busy(i)' THEN 1 ELSE 0
<1> USE DEF Conserved
<1>1. Behind(i)' = IF Sent(s, ready, i) THEN data[i] ELSE Behind(i)
  BY BehindStep
<1>2. Behind(i) \in Nat /\ data[i] \in Nat
  BY BehindType DEF IInv, TypeOK
<1>3. data[i] = Behind(i) + IF i = 1 \/ Busy(i) THEN 1 ELSE 0
  BY DEF NoLoss, NoKill
<1>4. data'[i] = NextData(s, ready, i)
  BY DEF Cycle
<1>5. Sent(s, ready, i) => Busy(i)
  BY NodeFacts DEF Sent, Exit, StateExit, Busy, Wait
<1>6. CASE i = 1
  BY <1>1, <1>2, <1>3, <1>4, <1>6 DEF NextData
<1>7. CASE i # 1
  <2>1. i - 1 \in Stages /\ data[i-1] \in Nat
    BY <1>7, HandshakeFact DEF IInv, TypeOK, Stages
  <2>2. Behind(i-1) = data[i]
    BY <1>7, PipelineAssumption DEF Behind, Last, Stages
  <2>3. Sent(s, ready, i-1) => Busy(i-1)
    BY <2>1, NodeFacts DEF Sent, Exit, StateExit, Busy, Wait
  <2>4. Sent(s, ready, i-1) => data[i-1] = data[i] + 1
    BY <2>1, <2>2, <2>3 DEF NoLoss, NoKill
  <2>5. Busy(i)' => Sent(s, ready, i-1) \/ (Busy(i) /\ ~Sent(s, ready, i))
    BY <1>7, BusyStep
  <2>6. Sent(s, ready, i-1) \/ (Busy(i) /\ ~Sent(s, ready, i)) => Busy(i)'
    BY <1>7, BusyKept
  <2>7. NextData(s, ready, i) = IF Sent(s, ready, i-1) THEN data[i-1] ELSE data[i]
    BY <1>7 DEF NextData
  <2>8. CASE Sent(s, ready, i-1)
    <3>1. Busy(i)' /\ data'[i] = data[i] + 1
      BY <1>4, <2>4, <2>6, <2>7, <2>8
    <3>2. Behind(i)' = data[i]
      <4>1. CASE Sent(s, ready, i)
        BY <1>1, <4>1
      <4>2. CASE ~Sent(s, ready, i)
        <5>1. ready[i]
          BY <2>8, <1>7, HandshakeFact
        <5>2. ~Busy(i)
          BY <4>2, <5>1, EntryFree
        <5> QED
          BY <1>1, <1>2, <1>3, <1>7, <4>2, <5>2
      <4> QED
        BY <4>1, <4>2
    <3> QED
      BY <1>2, <1>7, <3>1, <3>2
  <2>9. CASE ~Sent(s, ready, i-1)
    BY <1>1, <1>2, <1>3, <1>4, <1>5, <1>7, <2>5, <2>6, <2>7, <2>9
  <2> QED
    BY <2>8, <2>9
<1> QED
  BY <1>6, <1>7

LEMMA ConservedInvariance == Spec => []Conserved
<1>1. Init => Conserved
  <2> SUFFICES ASSUME Init PROVE NoLoss
    BY InitIInv DEF Conserved
  <2> QED
    BY PipelineAssumption DEF Init, NoLoss, Busy, Behind, Last, Stages
<1>2. Conserved /\ [Next]_vars => Conserved'
  <2> SUFFICES ASSUME Conserved, [Next]_vars PROVE Conserved'
    OBVIOUS
  <2>1. CASE Next
    <3>1. PICK s \in Signals, ready \in [Stages -> BOOLEAN] :
             Disciplined(s) /\ Cycle(s, ready)
      BY <2>1 DEF Next
    <3>2. IInv'
      BY <3>1, StepIInv DEF Conserved
    <3>3. NoLoss'
      BY <3>1, LossStep, TokenStep DEF NoLoss, NoKill
    <3> QED
      BY <3>2, <3>3 DEF Conserved
  <2>2. CASE UNCHANGED vars
    BY <2>2 DEF vars, Conserved, IInv, TypeOK, StartFirst, OneToken, InOrder,
                NoLoss, Behind, Busy
  <2> QED
    BY <2>1, <2>2
<1> QED
  BY <1>1, <1>2, PTL DEF Spec

(* Holds and refusals alone lose no item and no token, whatever their       *)
(* pattern.                                                                 *)
THEOREM NothingLost == Spec => []NoLoss
<1>1. Conserved => NoLoss
  BY DEF Conserved
<1> QED
  BY ConservedInvariance, <1>1, PTL
-----------------------------------------------------------------------------
(* The stages implement the channel of ItemChannel.                         *)

(* InOrder says it of neighbours; the items inside are a set, whose oldest  *)
(* element the last stage holds, so the order of any two stages is needed.  *)
Ordered ==
  \A i, j \in Stages :
     i < j => /\ data[i] >= data[j]
              /\ (i = 1 \/ Busy(i)) => data[i] > data[j]

LInv == IInv /\ Ordered

(* What stage i has sent it was busy with.                                  *)
LEMMA SentBusy ==
  ASSUME NEW s \in Signals, NEW ready \in [Stages -> BOOLEAN],
         NEW i \in Stages, Sent(s, ready, i)
  PROVE  Busy(i)
  BY NodeFacts DEF Sent, Exit, StateExit, Busy, Wait

(* An item that is sent is in the next stage after the cycle, even if that  *)
(* stage is killed in it: the reset does not reach the entry of the node    *)
(* (zync.cpp 96-102, stateNode.h 64-69).                                    *)
LEMMA SentArrives ==
  ASSUME NEW s \in Signals, NEW ready \in [Stages -> BOOLEAN], Cycle(s, ready),
         NEW i \in Stages, i # 1, Sent(s, ready, i-1)
  PROVE  Busy(i)' /\ data'[i] = data[i-1]
<1>1. ready[i] /\ MasterReady(s, i)
  BY HandshakeFact
<1>2. 1 \in NextUp(s, ready, i)
  BY <1>1, NodeFacts DEF NextUp, StateNext, SetNode
<1>3. Busy(i)'
  BY <1>2 DEF Busy, Cycle, Wait
<1> QED
  BY <1>3 DEF Cycle, NextData

LEMMA OrderedStep ==
  ASSUME LInv, NEW s \in Signals, NEW ready \in [Stages -> BOOLEAN],
         Disciplined(s), Cycle(s, ready)
  PROVE  Ordered'
<1> SUFFICES ASSUME NEW i \in Stages, NEW j \in Stages, i < j
             PROVE  /\ data'[i] >= data'[j]
                    /\ (i = 1 \/ Busy(i)') => data'[i] > data'[j]
  BY DEF Ordered
<1>1. /\ i \in Nat /\ j \in Nat /\ j # 1 /\ j - 1 \in Stages /\ i <= j - 1
      /\ i # 1 => i - 1 \in Stages /\ i - 1 < i /\ i - 1 < j
  BY PipelineAssumption DEF Stages
<1>2. data \in [Stages -> Nat]
  BY DEF LInv, IInv, TypeOK
<1>3. data'[j] = IF Sent(s, ready, j-1) THEN data[j-1] ELSE data[j]
  BY <1>1 DEF Cycle, NextData
<1>4. data'[i] = IF i = 1 THEN IF Sent(s, ready, 1) THEN data[1] + 1 ELSE data[1]
                 ELSE IF Sent(s, ready, i-1) THEN data[i-1] ELSE data[i]
  BY DEF Cycle, NextData
<1>5. \A k, l \in Stages :
         k < l => /\ data[k] >= data[l]
                  /\ (k = 1 \/ Busy(k)) => data[k] > data[l]
  BY DEF LInv, Ordered
<1>6. \/ i = j - 1
      \/ i < j - 1 /\ data[i] >= data[j-1] /\ ((i = 1 \/ Busy(i)) => data[i] > data[j-1])
  BY <1>1, <1>5
<1>7. data[i] >= data[j] /\ ((i = 1 \/ Busy(i)) => data[i] > data[j])
  BY <1>5
<1>8. CASE i = 1
  BY <1>1, <1>2, <1>3, <1>4, <1>6, <1>7, <1>8
<1>9. CASE i # 1
  <2>1. /\ data[i-1] >= data[i]
        /\ Sent(s, ready, i-1) => data[i-1] > data[i]
    BY <1>1, <1>5, <1>9, SentBusy
  <2>2. data[i] >= data'[j]
    BY <1>1, <1>2, <1>3, <1>6, <1>7
  <2>3. data'[i] >= data[i]
    BY <1>1, <1>2, <1>4, <1>9, <2>1
  <2>4. Busy(i)' => Sent(s, ready, i-1) \/ (Busy(i) /\ ~Sent(s, ready, i))
    BY <1>9, BusyStep DEF LInv
  <2>5. CASE Sent(s, ready, i-1)
    BY <1>1, <1>2, <1>3, <1>4, <1>9, <2>1, <2>2, <2>5
  <2>6. CASE Busy(i) /\ ~Sent(s, ready, i)
    <3>1. data[i] > data'[j]
      BY <1>1, <1>2, <1>3, <1>6, <1>7, <2>6
    <3> QED
      BY <1>1, <1>2, <1>3, <1>4, <1>9, <2>3, <3>1
  <2>7. data'[i] >= data'[j]
    BY <1>1, <1>2, <1>3, <1>4, <1>9, <2>2, <2>3
  <2> QED
    BY <1>9, <2>4, <2>5, <2>6, <2>7
<1> QED
  BY <1>8, <1>9

LEMMA LInvariance == Spec => []LInv
<1>1. Init => LInv
  <2> SUFFICES ASSUME Init PROVE Ordered
    BY InitIInv DEF LInv
  <2> QED
    BY PipelineAssumption DEF Init, Ordered, Busy, Stages
<1>2. LInv /\ [Next]_vars => LInv'
  <2> SUFFICES ASSUME LInv, [Next]_vars PROVE LInv'
    OBVIOUS
  <2>1. CASE Next
    BY <2>1, StepIInv, OrderedStep DEF Next, LInv
  <2>2. CASE UNCHANGED vars
    BY <2>2 DEF vars, LInv, IInv, TypeOK, StartFirst, OneToken, InOrder, Ordered,
                Behind, Busy
  <2> QED
    BY <2>1, <2>2
<1> QED
  BY <1>1, <1>2, PTL DEF Spec
(* The item that leaves is the oldest of those inside.                      *)
LEMMA LastIsOldest ==
  ASSUME LInv, N # 1, Busy(N)
  PROVE  /\ data[N] \in InFlight
         /\ Channel!Oldest(InFlight) = data[N]
         /\ \A i \in Stages : i # 1 /\ i # N /\ Busy(i) => data[i] # data[N]
<1>1. N \in Stages /\ data \in [Stages -> Nat]
  BY PipelineAssumption DEF LInv, IInv, TypeOK, Stages
<1>2. data[N] \in InFlight
  BY <1>1 DEF InFlight
<1>3. \A i \in Stages : i # N => i < N
  BY PipelineAssumption DEF Stages
<1>4. \A i \in Stages : i # N => data[i] >= data[N] /\ (Busy(i) => data[i] > data[N])
  BY <1>1, <1>3 DEF LInv, Ordered
<1>5. \A d \in InFlight : d \in Nat /\ data[N] <= d
  BY <1>1, <1>4 DEF InFlight
<1>6. \A d \in InFlight : (\A m \in InFlight : d <= m) => d = data[N]
  BY <1>1, <1>2, <1>5
<1>7. Channel!Oldest(InFlight) = data[N]
  BY <1>2, <1>5, <1>6 DEF Channel!Oldest
<1>8. \A i \in Stages : i # 1 /\ i # N /\ Busy(i) => data[i] # data[N]
  BY <1>1, <1>4
<1> QED
  BY <1>2, <1>7, <1>8

(* The items inside after the cycle were inside before it or have entered.  *)
LEMMA NothingAppears ==
  ASSUME LInv, N # 1, NEW s \in Signals, NEW ready \in [Stages -> BOOLEAN],
         Disciplined(s), Cycle(s, ready), NEW d \in InFlight'
  PROVE  \/ d \in InFlight /\ (Sent(s, ready, N) => d # data[N])
         \/ Sent(s, ready, 1) /\ d = data[1]
<1>1. PICK j \in Stages : j # 1 /\ Busy(j)' /\ d = data'[j]
  BY DEF InFlight
<1>2. j - 1 \in Stages /\ j - 1 # N /\ N \in Stages
  BY <1>1, PipelineAssumption DEF Stages
<1>3. CASE Sent(s, ready, j-1)
  <2>1. d = data[j-1] /\ Busy(j-1)
    BY <1>1, <1>2, <1>3, SentArrives, SentBusy
  <2>2. CASE j - 1 = 1
    BY <1>3, <2>1, <2>2
  <2>3. CASE j - 1 # 1
    <3>1. d \in InFlight
      BY <1>2, <2>1, <2>3 DEF InFlight
    <3>2. Sent(s, ready, N) => d # data[N]
      BY <1>2, <2>1, <2>3, SentBusy, LastIsOldest
    <3> QED
      BY <3>1, <3>2
  <2> QED
    BY <2>2, <2>3
<1>4. CASE ~Sent(s, ready, j-1)
  <2>1. Busy(j) /\ ~Sent(s, ready, j)
    BY <1>1, <1>4, BusyStep DEF LInv
  <2>2. d = data[j]
    BY <1>1, <1>4 DEF Cycle, NextData
  <2>3. d \in InFlight
    BY <1>1, <2>1, <2>2 DEF InFlight
  <2>4. Sent(s, ready, N) => d # data[N]
    BY <1>1, <1>2, <2>1, <2>2, SentBusy, LastIsOldest
  <2> QED
    BY <2>3, <2>4
<1> QED
  BY <1>3, <1>4

(* Without kills every item inside that does not leave is inside after the  *)
(* cycle.                                                                   *)
LEMMA NothingDropped ==
  ASSUME NoKill, LInv, N # 1, NEW s \in Signals, NEW ready \in [Stages -> BOOLEAN],
         Disciplined(s), Cycle(s, ready), NEW d \in InFlight,
         Sent(s, ready, N) => d # data[N]
  PROVE  d \in InFlight'
<1>1. PICK i \in Stages : i # 1 /\ Busy(i) /\ d = data[i]
  BY DEF InFlight
<1>2. CASE Sent(s, ready, i)
  <2>1. i # N
    BY <1>1, <1>2
  <2>2. i + 1 \in Stages /\ i + 1 # 1 /\ (i + 1) - 1 = i
    BY <2>1, PipelineAssumption DEF Stages
  <2>3. Busy(i+1)' /\ data'[i+1] = data[i]
    BY <1>2, <2>2, SentArrives
  <2> QED
    BY <1>1, <2>2, <2>3 DEF InFlight
<1>3. CASE ~Sent(s, ready, i)
  <2>1. Busy(i)'
    BY <1>1, <1>3, BusyKept DEF LInv
  <2>2. ~ready[i]
    BY <1>1, <1>3, EntryFree DEF LInv
  <2>3. ~Sent(s, ready, i-1)
    BY <1>1, <2>2, HandshakeFact
  <2>4. data'[i] = data[i]
    BY <1>1, <2>3 DEF Cycle, NextData
  <2> QED
    BY <1>1, <2>1, <2>4 DEF InFlight
<1> QED
  BY <1>2, <1>3

(* Each data register but the first holds one item: N - 1 fit.              *)
LEMMA CapacityBound ==
  ASSUME NEW S, NEW d, \A x \in S : \E i \in 2..N : x = d[i]
  PROVE  Cardinality(S) <= N - 1
<1> DEFINE f == [x \in S |-> CHOOSE i \in 2..N : x = d[i]]
<1>1. \A x \in S : f[x] \in 2..N /\ x = d[f[x]]
  OBVIOUS
<1>2. f \in [S -> 2..N]
  BY <1>1
<1> HIDE DEF f
<1>3. f \in Injection(S, 2..N)
  BY <1>1, <1>2 DEF Injection, IsInjective
<1>4. IsFiniteSet(2..N) /\ Cardinality(2..N) = N - 1
  BY PipelineAssumption, FS_Interval
<1> QED
  BY <1>3, <1>4, FS_Injection

(* One clock cycle of the stages is one cycle of the channel.               *)
LEMMA ChannelStep ==
  ASSUME LInv, N # 1, NEW s \in Signals, NEW ready \in [Stages -> BOOLEAN],
         Disciplined(s), Cycle(s, ready)
  PROVE  Channel!Cycle(Sent(s, ready, 1), Sent(s, ready, N))
<1> DEFINE leave == Sent(s, ready, N)
           enter == Sent(s, ready, 1)
           kept  == IF leave THEN InFlight \ {Channel!Oldest(InFlight)} ELSE InFlight
           drop  == kept \ InFlight'
<1>1. N \in Stages /\ 1 \in Stages
  BY PipelineAssumption DEF Stages
<1>2. leave => /\ InFlight # {}
               /\ Channel!Oldest(InFlight) = data[N]
  BY <1>1, SentBusy, LastIsOldest
<1>3. kept = {d \in InFlight : leave => d # data[N]}
  BY <1>2
<1>4. out' = IF leave THEN Channel!Oldest(InFlight) ELSE out
  BY <1>2 DEF Cycle
<1>5. data[1]' = IF enter THEN data[1] + 1 ELSE data[1]
  BY <1>1 DEF Cycle, NextData
<1>6. enter => data[1] \in InFlight'
  <2>1. 2 \in Stages /\ 2 # 1 /\ 2 - 1 = 1
    BY PipelineAssumption DEF Stages
  <2>2. enter => Busy(2)' /\ data'[2] = data[1]
    BY <2>1, SentArrives
  <2> QED
    BY <2>1, <2>2 DEF InFlight
<1>7. InFlight' \subseteq kept \cup (IF enter THEN {data[1]} ELSE {})
  BY <1>3, NothingAppears
<1>8. InFlight' = (kept \ drop) \cup (IF enter THEN {data[1]} ELSE {})
  BY <1>6, <1>7
<1>9. drop # {} => KillSlave # {} \/ KillMaster # {}
  BY <1>3, NothingDropped DEF NoKill
<1>10. Channel!Cardinality(InFlight') <= N - 1
  <2>1. \A x \in InFlight' : \E i \in 2..N : x = data'[i]
    BY PipelineAssumption DEF InFlight, Stages
  <2>2. Cardinality(InFlight') <= N - 1
    BY <2>1, CapacityBound
  <2> QED
    BY <2>2 DEF Channel!Cardinality, Cardinality
<1> QED
  BY <1>2, <1>4, <1>5, <1>8, <1>9, <1>10 DEF Channel!Cycle

(* Any number of stages from two on is a channel: items enter and leave in  *)
(* order, at most one for each stage is inside, and only a kill drops any.  *)
THEOREM ChannelImplemented == ASSUME N # 1 PROVE Spec => ImplementsChannel
<1>1. Init => Channel!Init
  BY PipelineAssumption DEF Init, Channel!Init, InFlight, Busy, Stages
<1>2. LInv /\ [Next]_vars => [Channel!Next]_(Channel!vars)
  <2> SUFFICES ASSUME LInv, [Next]_vars PROVE [Channel!Next]_(Channel!vars)
    OBVIOUS
  <2>1. CASE Next
    <3>1. PICK s \in Signals, ready \in [Stages -> BOOLEAN] :
             Disciplined(s) /\ Cycle(s, ready)
      BY <2>1 DEF Next
    <3>2. Channel!Cycle(Sent(s, ready, 1), Sent(s, ready, N))
      BY <3>1, ChannelStep
    <3>3. Sent(s, ready, 1) \in BOOLEAN /\ Sent(s, ready, N) \in BOOLEAN
      BY DEF Sent, Exit, StateExit
    <3> QED
      BY <3>2, <3>3 DEF Channel!Next
  <2>2. CASE UNCHANGED vars
    BY <2>2 DEF vars, Channel!vars, InFlight, Busy
  <2> QED
    BY <2>1, <2>2
<1> QED
  BY <1>1, <1>2, LInvariance, PTL DEF Spec, ImplementsChannel, Channel!Spec

-----------------------------------------------------------------------------
(* The core executes its program one instruction after the other.           *)

(* The instruction in the execute stage.                                    *)
Oldest == code[dc.pc]

(* The stages hold consecutive instructions.                                *)
InSequence ==
  /\ decode = "send" => ft.instr = code[ft.pc] /\ curPc = Plus(ft.pc, 1)
  /\ exec # "wait" => (IF decode = "send" THEN ft.pc ELSE curPc) = Plus(dc.pc, 1)

(* The decoder's registers are those of the instruction in execute.         *)
DecodedRight ==
  exec # "wait" =>
    /\ Oldest.rule = "none" => dc.mop = "none" /\ dc.uops = {}
    /\ Oldest.rule # "none" =>
         /\ dc.mop = MopOf(Oldest.rule)
         /\ dc.uops = Oldest.uops \cup Always(Oldest.rule)
         /\ dc.des = IF Oldest.rule \in {"store", "br"} THEN 0 ELSE Oldest.rd
    /\ Oldest.rule \in ImmThird => dc.rs3.data = Oldest.imm

(* Before the registers are read the operands name them, and behind that    *)
(* they hold their values, which nothing ahead can change any more.         *)
OperandsNamed ==
  exec = "regs" =>
    /\ Oldest.rule \in ReadsFirst  => ~dc.rs1.valid /\ dc.rs1.idx = Oldest.rs0
    /\ Oldest.rule \in ReadsSecond => ~dc.rs2.valid /\ dc.rs2.idx = Oldest.rs1
    /\ Oldest.rule \in ImmSecond   => dc.rs2.valid /\ dc.rs2.data = Oldest.imm

OperandsRead ==
  /\ exec \in {"alu", "shift", "mem"} =>
       (Oldest.rule \in ReadsFirst => dc.rs1.data = regFile[Oldest.rs0])
  /\ exec \in {"alu", "mem"} =>
       /\ Oldest.rule \in ReadsSecond => dc.rs2.data = regFile[Oldest.rs1]
       /\ Oldest.rule \in ImmSecond   => dc.rs2.data = Oldest.imm

(* The second operand of an operation.                                      *)
Second == IF Oldest.rule = "opReg" THEN regFile[Oldest.rs1] ELSE Oldest.imm

(* What is left of a shift makes the result of the whole of it; one result  *)
(* is written at a time.                                                    *)
ResultsRight ==
  /\ regFile[0] = 0
  /\ writing => exec \in {"wait", "regs"}
  /\ exec \in {"alu", "shift", "mem"} => wbData.idx = dc.des
  /\ exec \in {"alu", "mem"} => ~wbData.valid
  /\ exec = "mem" => dc.mop = "ldst"
  /\ exec = "shift" =>
       /\ ShiftSet /\ wbData.valid
       /\ Shift(ShiftOp(dc.uops), wbData.data, Amount(dc.rs2.data)) =
            Shift(ShiftOp(dc.uops), regFile[Oldest.rs0], Amount(Second))

RiscvInv ==
  /\ RiscvTypeOK
  /\ InSequence
  /\ DecodedRight
  /\ OperandsNamed
  /\ OperandsRead
  /\ ResultsRight

-----------------------------------------------------------------------------
(* Arithmetic of words.                                                     *)

(* The remainder of a number is below the divisor.                          *)
LEMMA RemainderIn ==
  ASSUME NEW a \in Int, NEW n \in Nat \ {0}
  PROVE  a % n \in 0 .. (n - 1)
  OBVIOUS

(* A number is a multiple of the divisor and the remainder.                 *)
LEMMA Divided ==
  ASSUME NEW a \in Nat, NEW n \in Nat \ {0}
  PROVE  /\ a \div n \in Nat /\ a % n \in 0 .. (n - 1)
         /\ a = n * (a \div n) + (a % n)
  OBVIOUS

(* The quotient and the remainder are determined.                           *)
LEMMA RemainderIs ==
  ASSUME NEW n \in Nat \ {0}, NEW q \in Nat, NEW r \in 0 .. (n - 1)
  PROVE  (n * q + r) % n = r
<1> DEFINE a == n * q + r
           p == a \div n
           t == a % n
<1>1. a \in Nat
  OBVIOUS
<1>2. p \in Nat /\ t \in 0 .. (n - 1) /\ a = n * p + t
  BY <1>1, Divided
<1> HIDE DEF p, t
<1>3. n * q + r = n * p + t
  BY <1>2
<1>4. ~(p < q)
  <2> SUFFICES ASSUME p < q PROVE FALSE
    OBVIOUS
  <2>1. q - p - 1 \in Nat
    BY <1>2
  <2>2. n * (q - p - 1) \in Nat
    BY <2>1
  <2>3. n * (q - p - 1) = n * q - n * p - n
    BY <1>2
  <2> QED
    BY <1>2, <1>3, <2>2, <2>3
<1>5. ~(q < p)
  <2> SUFFICES ASSUME q < p PROVE FALSE
    OBVIOUS
  <2>1. p - q - 1 \in Nat
    BY <1>2
  <2>2. n * (p - q - 1) \in Nat
    BY <2>1
  <2>3. n * (p - q - 1) = n * p - n * q - n
    BY <1>2
  <2> QED
    BY <1>2, <1>3, <2>2, <2>3
<1>6. p = q
  BY <1>2, <1>4, <1>5
<1>7. t = r
  BY <1>2, <1>3, <1>6
<1> QED
  BY <1>7 DEF t

(* A word is a number.                                                      *)
LEMMA WordIsInt ==
  ASSUME NEW v \in Words
  PROVE  v \in Int
<1>1. WORD \in Nat
  BY RiscvAssumption
<1> QED
  BY <1>1 DEF Words

(* A sum of words is a word.                                                *)
LEMMA PlusIn ==
  ASSUME NEW a \in Int, NEW b \in Int
  PROVE  Plus(a, b) \in Words
  BY RiscvAssumption, RemainderIn DEF Plus, Words

(* A part of a word is no larger than the word.                             *)
LEMMA PartOfWord ==
  ASSUME NEW p \in Nat \ {0}, WORD % p = 0
  PROVE  p <= WORD /\ WORD = p * (WORD \div p) /\ WORD \div p \in Nat \ {0}
<1>1. WORD \in Nat \ {0}
  BY RiscvAssumption
<1>2. WORD \div p \in Nat /\ WORD = p * (WORD \div p)
  BY <1>1, Divided
<1>3. WORD \div p # 0
  BY <1>1, <1>2
<1> DEFINE q == WORD \div p
<1>4. q \in Nat \ {0} /\ WORD = p * q
  BY <1>2, <1>3
<1> HIDE DEF q
<1>5. p * (q - 1) \in Nat /\ p * (q - 1) = p * q - p
  BY <1>4
<1>6. p <= WORD
  BY <1>1, <1>4, <1>5
<1> QED
  BY <1>2, <1>3, <1>6

(* An amount goes down by one with its word.                                *)
LEMMA AmountDown ==
  ASSUME NEW v \in Words, Amount(v) > 1
  PROVE  v - 1 \in Words /\ Amount(v - 1) = Amount(v) - 1 /\ Amount(v) \in 1 .. (AMOUNT - 1)
<1> DEFINE q == v \div AMOUNT
           r == v % AMOUNT
<1>1. v \in Nat /\ v < WORD /\ AMOUNT \in Nat \ {0} /\ WORD \in Nat
  BY RiscvAssumption DEF Words
<1>2. q \in Nat /\ r \in 0 .. (AMOUNT - 1) /\ v = AMOUNT * q + r /\ r > 1
  BY <1>1, Divided DEF Amount
<1> HIDE DEF q, r
<1>3. v - 1 = AMOUNT * q + (r - 1) /\ r - 1 \in 0 .. (AMOUNT - 1)
  BY <1>1, <1>2
<1>4. AMOUNT * q \in Nat
  BY <1>1, <1>2
<1>5. v - 1 \in 0 .. (WORD - 1)
  BY <1>1, <1>2, <1>4
<1>6. (v - 1) % AMOUNT = r - 1
  BY <1>1, <1>2, <1>3, RemainderIs
<1> QED
  BY <1>1, <1>2, <1>5, <1>6 DEF Amount, Words, r

(* What one bit of a shift leaves is a word.                                *)
LEMMA ShiftBitIn ==
  ASSUME NEW op \in Shifts, NEW v \in Words
  PROVE  ShiftBit(op, v) \in Words
<1> DEFINE h == WORD \div 2
<1>1. WORD \in Nat \ {0} /\ h \in Nat /\ WORD = 2 * h
  BY RiscvAssumption, Divided
<1>2. v \in Nat /\ v < WORD /\ v \div 2 \in Nat /\ v \div 2 < h
  BY <1>1 DEF Words
<1>3. (2 * v) % WORD \in 0 .. (WORD - 1)
  BY <1>1, <1>2, RemainderIn
<1> HIDE DEF h
<1> QED
  BY <1>1, <1>2, <1>3 DEF ShiftBit, Shifts, Words, h

(* What a load takes of a word is a word.                                   *)
LEMMA ExtendedIn ==
  ASSUME NEW uops, NEW word \in Words
  PROVE  Extended(uops, word) \in Words
<1> DEFINE p == Part(uops)
<1>1. p \in Nat \ {0} /\ p <= WORD /\ WORD \in Nat
  BY RiscvAssumption, PartOfWord DEF Part
<1>2. word \in Nat /\ word % p \in 0 .. (p - 1)
  BY <1>1, RemainderIn DEF Words
<1> HIDE DEF p
<1> QED
  BY <1>1, <1>2 DEF Extended, Words, p

(* What a store leaves in its word is a word.                               *)
LEMMA PooledIn ==
  ASSUME NEW uops, NEW word \in Words, NEW v \in Words
  PROVE  Pooled(uops, word, v) \in Words
<1> DEFINE p == Part(uops)
           k == WORD \div p
           q == word \div p
           r == word % p
<1>1. WORD \in Nat \ {0} /\ p \in Nat \ {0} /\ WORD % p = 0
  BY RiscvAssumption DEF Part
<1>2. k \in Nat \ {0} /\ WORD = p * k
  BY <1>1, PartOfWord
<1>4. v \in Int /\ WORD \in Int /\ word \in Nat /\ word < WORD
  BY <1>1 DEF Words
<1> HIDE DEF p, k
<1>3. q \in Nat /\ r \in 0 .. (p - 1) /\ word = p * q + r /\ word < WORD /\ word \in Nat
  BY <1>1, <1>4, Divided
<1>9. v % p \in 0 .. (p - 1)
  BY <1>1, <1>4, RemainderIn
<1> HIDE DEF q, r
<1>5. q < k
  <2> SUFFICES ASSUME k <= q PROVE FALSE
    BY <1>2, <1>3
  <2>1. p * (q - k) \in Nat /\ p * (q - k) = p * q - p * k
    BY <1>1, <1>2, <1>3
  <2>2. p * q \in Int /\ p * k \in Int
    BY <1>1, <1>2, <1>3
  <2> QED
    BY <1>1, <1>2, <1>3, <2>1, <2>2
<1>6. p * (k - q - 1) \in Nat /\ p * (k - q - 1) = p * k - p * q - p
  BY <1>1, <1>2, <1>3, <1>5
<1>7. Pooled(uops, word, v) = p * q + (v % p)
  BY <1>1, <1>3, <1>9 DEF Pooled, p, r
<1>8. p * q \in Nat
  BY <1>1, <1>3
<1> QED
  BY <1>1, <1>2, <1>9, <1>6, <1>7, <1>8 DEF Words

(* What the operations of one cycle make of two words is a word.            *)
LEMMA AtOnceIn ==
  ASSUME NEW uops, NEW a \in Words, NEW b \in Words
  PROVE  AtOnce(uops, a, b) \in Words
<1>1. a \in Int /\ b \in Int /\ WORD \in Nat \ {0} /\ WORD % 2 = 0
  BY RiscvAssumption DEF Words
<1>2. Plus(a, b) \in Words /\ (a - b) % WORD \in Words
  BY <1>1, PlusIn, RemainderIn DEF Words
<1>3. 0 \in Words /\ 1 \in Words
  BY <1>1 DEF Words
<1> QED
  BY <1>2, <1>3 DEF AtOnce

-----------------------------------------------------------------------------
(* Instructions and operands.                                               *)

(* The fields of an instruction; 0 is a register and a word.                *)
LEMMA InstrIs ==
  ASSUME NEW i \in Instr
  PROVE  /\ i.rule \in Rules \cup {"none"} /\ i.uops \in UopsOf(i.rule)
         /\ i.rd \in Regs /\ i.rs0 \in Regs /\ i.rs1 \in Regs /\ i.imm \in Words
         /\ i.uops \in SUBSET Uops
<1>1. /\ i.rule \in Rules \cup {"none"} /\ i.uops \in UopsOf(i.rule)
      /\ i.rd \in Regs /\ i.rs0 \in Regs /\ i.rs1 \in Regs /\ i.imm \in Words
  BY DEF Instr
<1>2. UopsOf(i.rule) \subseteq SUBSET Uops
  BY <1>1 DEF UopsOf, Uops, Sizes, Conds, AluOps
<1> QED
  BY <1>1, <1>2

LEMMA ZeroIn == 0 \in Regs /\ 0 \in Words
  BY RiscvAssumption DEF Regs, Words

(* The zero word is an instruction.                                         *)
LEMMA FillIn == Fill \in Instr
<1>1. Fill \in [rule : {"none"}, uops : UopsOf("none"), rd : Regs, rs0 : Regs, rs1 : Regs,
               imm : Words]
  BY ZeroIn DEF Fill, UopsOf
<1> QED
  BY <1>1 DEF Instr

(* What the decoder makes of an operand.                                    *)
LEMMA OperandIs ==
  ASSUME NEW opr \in Opr, NEW idx \in Regs, NEW v \in Words
  PROVE  /\ OnlyIndex(opr, idx) \in Opr
         /\ ~OnlyIndex(opr, idx).valid /\ OnlyIndex(opr, idx).idx = idx
         /\ Imm(v) \in Opr /\ Imm(v).valid /\ Imm(v).data = v
  BY ZeroIn DEF OnlyIndex, Imm, Opr

(* The registers a program sees are those of the next cycle.                *)
LEMMA SeenRegsAre ==
  ASSUME RiscvTypeOK, regFile[0] = 0
  PROVE  /\ SeenRegs \in [Regs -> Words] /\ SeenRegs[0] = 0
         /\ RiscvNext => regFile' = SeenRegs
<1>1. BypassIdx # 0 => BypassIdx = wbData.idx
  BY DEF BypassIdx
<1>2. wbData.idx \in Regs /\ wbData.data \in Words /\ regFile \in [Regs -> Words]
  BY DEF RiscvTypeOK, Opr
<1> QED
  BY <1>1, <1>2, ZeroIn DEF SeenRegs, RiscvNext

(* An operand that is read has the value of its register, which may be      *)
(* written in the same cycle.                                               *)
LEMMA AccessedIs ==
  ASSUME RiscvTypeOK, regFile[0] = 0, NEW opr \in Opr
  PROVE  /\ Accessed(opr) \in Opr
         /\ opr.valid => Accessed(opr).data = opr.data
         /\ ~opr.valid => Accessed(opr).data = SeenRegs[opr.idx]
<1>1. wbData.idx \in Regs /\ wbData.data \in Words /\ regFile \in [Regs -> Words]
  BY DEF RiscvTypeOK, Opr
<1>2. opr.idx \in Regs /\ opr.data \in Words /\ opr.valid \in BOOLEAN
  BY DEF Opr
<1>3. BypassIdx # 0 => BypassIdx = wbData.idx
  BY DEF BypassIdx
<1>4. CASE opr.valid
  BY <1>4 DEF Accessed
<1>5. CASE ~opr.valid
  <2> DEFINE d == IF opr.idx = 0 THEN 0
                  ELSE IF BypassIdx = opr.idx THEN wbData.data ELSE regFile[opr.idx]
  <2>1. d \in Words
    BY <1>1, <1>2, ZeroIn
  <2>2. d = SeenRegs[opr.idx]
    BY <1>1, <1>2, <1>3, ZeroIn DEF SeenRegs
  <2>3. Accessed(opr) = [opr EXCEPT !.valid = TRUE, !.data = d]
    BY <1>5 DEF Accessed
  <2> HIDE DEF d
  <2> QED
    BY <1>5, <2>1, <2>2, <2>3 DEF Opr
<1> QED
  BY <1>4, <1>5

(* The address of a load or a store is a word.                              *)
LEMMA AddressIn ==
  ASSUME RiscvTypeOK
  PROVE  Address \in Words
<1>1. dc.rs1.data \in Int /\ dc.rs3.data \in Int
  BY WordIsInt DEF RiscvTypeOK, Opr
<1> QED
  BY <1>1, PlusIn DEF Address

(* The registers of the decoder tell the instruction in execute.            *)
LEMMA OldestIs ==
  ASSUME RiscvInv, exec # "wait"
  PROVE  /\ Oldest \in Instr
         /\ dc.mop = "op"   <=> Oldest.rule \in {"opReg", "opImm"}
         /\ dc.mop = "ldst" <=> Oldest.rule \in {"load", "store"}
         /\ dc.mop = "br"   <=> Oldest.rule = "br"
         /\ dc.mop = "jal"  <=> Oldest.rule \in {"jal", "jalr"}
         /\ dc.mop = "ldpc" <=> Oldest.rule \in {"auipc", "lui"}
         /\ dc.mop = "none" <=> Oldest.rule = "none"
         /\ Oldest.rule \notin {"load", "jal", "auipc"} => dc.uops = Oldest.uops
         /\ IsUopSet("isload") <=> Oldest.rule = "load"
         /\ IsUopSet("needpc") <=> Oldest.rule \in {"jal", "auipc"}
         /\ \A w \in Words : Oldest.rule = "load" => Extended(dc.uops, w) = Extended(Oldest.uops, w)
         /\ Oldest.rule \notin {"store", "br", "none"} => dc.des = Oldest.rd
<1>1. Oldest \in Instr
  BY DEF Oldest, RiscvInv, RiscvTypeOK
<1>2. /\ Oldest.rule \in Rules \cup {"none"} /\ Oldest.uops \in UopsOf(Oldest.rule)
  BY <1>1, InstrIs
<1>3. /\ Oldest.rule = "none" => dc.mop = "none" /\ dc.uops = {}
      /\ Oldest.rule # "none" =>
           /\ dc.mop = MopOf(Oldest.rule)
           /\ dc.uops = Oldest.uops \cup Always(Oldest.rule)
           /\ dc.des = IF Oldest.rule \in {"store", "br"} THEN 0 ELSE Oldest.rd
  BY DEF RiscvInv, DecodedRight
<1>4. /\ dc.mop = "op"   <=> Oldest.rule \in {"opReg", "opImm"}
      /\ dc.mop = "ldst" <=> Oldest.rule \in {"load", "store"}
      /\ dc.mop = "br"   <=> Oldest.rule = "br"
      /\ dc.mop = "jal"  <=> Oldest.rule \in {"jal", "jalr"}
      /\ dc.mop = "ldpc" <=> Oldest.rule \in {"auipc", "lui"}
      /\ dc.mop = "none" <=> Oldest.rule = "none"
  BY <1>2, <1>3 DEF MopOf, Rules
<1>5. Oldest.rule = "none" => Oldest.uops = {}
  BY <1>2 DEF UopsOf
<1>6. Oldest.rule \notin {"load", "jal", "auipc"} => dc.uops = Oldest.uops
  BY <1>3, <1>5 DEF Always
<1>7. "isload" \notin Oldest.uops /\ "needpc" \notin Oldest.uops
  BY <1>2 DEF UopsOf, AluOps, Shifts, Sizes, Conds
<1>8. /\ IsUopSet("isload") <=> Oldest.rule = "load"
      /\ IsUopSet("needpc") <=> Oldest.rule \in {"jal", "auipc"}
  BY <1>3, <1>7 DEF IsUopSet, Always
<1>9. Oldest.rule = "load" =>
        /\ "lsb" \in dc.uops <=> "lsb" \in Oldest.uops
        /\ "lsh" \in dc.uops <=> "lsh" \in Oldest.uops
        /\ "usign" \in dc.uops <=> "usign" \in Oldest.uops
  BY <1>3 DEF Always
<1>10. \A w \in Words : Oldest.rule = "load" => Extended(dc.uops, w) = Extended(Oldest.uops, w)
  BY <1>9 DEF Extended, Part
<1>11. Oldest.rule \notin {"store", "br", "none"} => dc.des = Oldest.rd
  BY <1>3
<1> QED
  BY <1>1, <1>4, <1>6, <1>8, <1>10, <1>11

(* What the decoder makes of an instruction.                                *)
LEMMA DecodedIs ==
  ASSUME RiscvTypeOK, NEW i \in Instr
  PROVE  LET d == Decoded(i)
         IN /\ d \in [pc : Words, mop : {"op", "ldst", "br", "jal", "ldpc", "none"},
                       uops : SUBSET Uops, rs1 : Opr, rs2 : Opr, rs3 : Opr, des : Regs]
            /\ d.pc = ft.pc
            /\ i.rule = "none" => d.mop = "none" /\ d.uops = {}
            /\ i.rule # "none" =>
                 /\ d.mop = MopOf(i.rule) /\ d.uops = i.uops \cup Always(i.rule)
                 /\ d.des = IF i.rule \in {"store", "br"} THEN 0 ELSE i.rd
            /\ i.rule \in ImmThird    => d.rs3.data = i.imm
            /\ i.rule \in ReadsFirst  => ~d.rs1.valid /\ d.rs1.idx = i.rs0
            /\ i.rule \in ReadsSecond => ~d.rs2.valid /\ d.rs2.idx = i.rs1
            /\ i.rule \in ImmSecond   => d.rs2.valid /\ d.rs2.data = i.imm
<1>1. /\ i.rule \in Rules \cup {"none"}
      /\ i.rd \in Regs /\ i.rs0 \in Regs /\ i.rs1 \in Regs /\ i.imm \in Words
      /\ i.uops \in SUBSET Uops
  BY InstrIs
<1>2. /\ dc \in [pc : Words, mop : {"op", "ldst", "br", "jal", "ldpc", "none"}, uops : SUBSET Uops,
                 rs1 : Opr, rs2 : Opr, rs3 : Opr, des : Regs]
      /\ ft.pc \in Words /\ 0 \in Regs
  BY ZeroIn DEF RiscvTypeOK
<1>3. CASE i.rule = "none"
  BY <1>2, <1>3 DEF Decoded, ImmThird, ReadsFirst, ReadsSecond, ImmSecond
<1>4. CASE i.rule # "none"
  <2> DEFINE o1 == OnlyIndex(dc.rs1, IF i.rule \in ReadsFirst THEN i.rs0 ELSE 0)
             o2 == IF i.rule \in ImmSecond THEN Imm(i.imm)
                   ELSE OnlyIndex(dc.rs2, IF i.rule \in ReadsSecond THEN i.rs1 ELSE 0)
             o3 == IF i.rule \in ImmThird THEN Imm(i.imm) ELSE OnlyIndex(dc.rs3, 0)
             m  == MopOf(i.rule)
             us == i.uops \cup Always(i.rule)
             de == IF i.rule \in {"store", "br"} THEN 0 ELSE i.rd
  <2>1. o1 \in Opr /\ (i.rule \in ReadsFirst => ~o1.valid /\ o1.idx = i.rs0)
    BY <1>1, <1>2, OperandIs
  <2>2. /\ o2 \in Opr
        /\ i.rule \in ReadsSecond => ~o2.valid /\ o2.idx = i.rs1
        /\ i.rule \in ImmSecond => o2.valid /\ o2.data = i.imm
    <3>1. dc.rs2 \in Opr /\ (IF i.rule \in ReadsSecond THEN i.rs1 ELSE 0) \in Regs
      BY <1>1, <1>2
    <3>2. CASE i.rule \in ImmSecond
      <4>1. i.rule \notin ReadsSecond
        BY <3>2 DEF ReadsSecond, ImmSecond
      <4>2. o2 = Imm(i.imm)
        BY <3>2
      <4> QED
        BY <1>1, <3>1, <4>1, <4>2, OperandIs
    <3>3. CASE i.rule \notin ImmSecond
      <4>1. o2 = OnlyIndex(dc.rs2, IF i.rule \in ReadsSecond THEN i.rs1 ELSE 0)
        BY <3>3
      <4> HIDE DEF o2
      <4> QED
        BY <3>1, <3>3, <4>1, OperandIs, <1>1
    <3> QED
      BY <3>2, <3>3
  <2>3. o3 \in Opr /\ (i.rule \in ImmThird => o3.data = i.imm)
    <3>1. dc.rs3 \in Opr
      BY <1>2
    <3>2. Imm(i.imm) \in Opr /\ Imm(i.imm).data = i.imm /\ OnlyIndex(dc.rs3, 0) \in Opr
      BY <1>1, <1>2, <3>1, OperandIs
    <3> QED
      BY <3>2
  <2>4. m \in {"op", "ldst", "br", "jal", "ldpc"}
    BY <1>1, <1>4 DEF MopOf, Rules
  <2>5. us \in SUBSET Uops
    BY <1>1 DEF Always, Uops
  <2>6. de \in Regs
    BY <1>1, <1>2
  <2>7. Decoded(i) = [pc |-> ft.pc, mop |-> m, uops |-> us, rs1 |-> o1, rs2 |-> o2, rs3 |-> o3,
                      des |-> de]
    BY <1>4 DEF Decoded
  <2> HIDE DEF o1, o2, o3, m, us, de
  <2>8. /\ Decoded(i).mop = m /\ Decoded(i).uops = us /\ Decoded(i).des = de
        /\ Decoded(i).rs1 = o1 /\ Decoded(i).rs2 = o2 /\ Decoded(i).rs3 = o3
        /\ Decoded(i).pc = ft.pc
        /\ Decoded(i) \in [pc : Words, mop : {"op", "ldst", "br", "jal", "ldpc", "none"},
                            uops : SUBSET Uops, rs1 : Opr, rs2 : Opr, rs3 : Opr, des : Regs]
    BY <1>2, <2>1, <2>2, <2>3, <2>4, <2>5, <2>6, <2>7
  <2> QED
    BY <1>4, <2>1, <2>2, <2>3, <2>8 DEF m, us, de
<1> QED
  BY <1>3, <1>4

-----------------------------------------------------------------------------
(* A cycle preserves the invariant.                                         *)

(* The operation of a shift is one of the three.                            *)
LEMMA ShiftOpIs ==
  ASSUME ShiftSet
  PROVE  ShiftOp(dc.uops) \in Shifts /\ ShiftOp(dc.uops) \in dc.uops
  BY DEF ShiftSet, ShiftOp, IsUopSet

(* The value of a result is a word.                                         *)
LEMMA ResultsIn ==
  ASSUME RiscvInv
  PROVE  /\ dc.mop \in {"op", "jal", "ldpc"} => AluData \in Words
         /\ exec = "shift" => ShiftTurn \in Words
         /\ Extended(dc.uops, memBlk[Address]) \in Words
<1>1. /\ dc.rs1.data \in Words /\ dc.rs2.data \in Words /\ dc.pc \in Words /\ wbData.data \in Words
      /\ memBlk \in [Words -> Words]
  BY DEF RiscvInv, RiscvTypeOK, Opr
<1>2. dc.rs1.data \in Int /\ dc.rs2.data \in Int /\ dc.pc \in Int
  BY <1>1, WordIsInt
<1>3. dc.mop \in {"op", "jal", "ldpc"} => AluData \in Words
  BY <1>1, <1>2, PlusIn, AtOnceIn DEF AluData
<1>4. exec = "shift" => ShiftTurn \in Words
  BY <1>1, ShiftOpIs, ShiftBitIn DEF ShiftTurn, RiscvInv, ResultsRight
<1>5. Extended(dc.uops, memBlk[Address]) \in Words
  BY <1>1, AddressIn, ExtendedIn DEF RiscvInv
<1> QED
  BY <1>3, <1>4, <1>5

LEMMA TypeStep ==
  ASSUME RiscvInv, RiscvNext
  PROVE  RiscvTypeOK'
<1>1. RiscvTypeOK /\ regFile[0] = 0
  BY DEF RiscvInv, ResultsRight
<1>2. /\ code \in [Words -> Instr] /\ curPc \in Words /\ ft \in [pc : Words, instr : Instr]
      /\ decode \in {"wait", "send"} /\ exec \in {"wait", "regs", "alu", "shift", "mem"}
      /\ wbData \in Opr /\ writing \in BOOLEAN
      /\ regFile \in [Regs -> Words] /\ memBlk \in [Words -> Words]
      /\ dc \in [pc : Words, mop : {"op", "ldst", "br", "jal", "ldpc", "none"},
                 uops : SUBSET Uops, rs1 : Opr, rs2 : Opr, rs3 : Opr, des : Regs]
  BY <1>1 DEF RiscvTypeOK
<1>3. /\ dc.pc \in Words /\ dc.des \in Regs /\ dc.rs1 \in Opr /\ dc.rs2 \in Opr /\ dc.rs3 \in Opr
      /\ dc.rs1.data \in Words /\ dc.rs2.data \in Words /\ dc.rs3.data \in Words
  BY <1>2 DEF Opr
<1>4. /\ curPc \in Int /\ dc.pc \in Int /\ 1 \in Int
      /\ dc.rs1.data \in Int /\ dc.rs2.data \in Int /\ dc.rs3.data \in Int
  BY <1>2, <1>3, WordIsInt
<1>5. curPc' \in Words
  <2>1. NewPc \in Words /\ Plus(curPc, 1) \in Words
    BY <1>4, PlusIn DEF NewPc
  <2> QED
    BY <1>2, <2>1 DEF RiscvNext
<1>6. ft' \in [pc : Words, instr : Instr]
  BY <1>2 DEF RiscvNext
<1>7. decode' \in {"wait", "send"} /\ exec' \in {"wait", "regs", "alu", "shift", "mem"}
  BY <1>2 DEF RiscvNext, NextExec
<1>8. dc' \in [pc : Words, mop : {"op", "ldst", "br", "jal", "ldpc", "none"},
              uops : SUBSET Uops, rs1 : Opr, rs2 : Opr, rs3 : Opr, des : Regs]
  <2>1. dc' = NextDc
    BY DEF RiscvNext
  <2>2. CASE DecodeSent
    <3>1. ft.instr \in Instr
      BY <1>2
    <3> QED
      BY <1>1, <2>1, <2>2, <3>1, DecodedIs DEF NextDc
  <2>3. CASE ~DecodeSent /\ exec = "regs"
    <3>1. Accessed(dc.rs1) \in Opr /\ Accessed(dc.rs2) \in Opr
      BY <1>1, <1>3, AccessedIs
    <3>2. dc' = [dc EXCEPT !.rs1 = Accessed(dc.rs1), !.rs2 = Accessed(dc.rs2)]
      BY <2>1, <2>3 DEF NextDc
    <3> QED
      BY <1>2, <3>1, <3>2
  <2>4. CASE ~DecodeSent /\ exec = "shift"
    <3> DEFINE v == IF ShiftAgain THEN dc.rs2.data - 1 ELSE dc.rs2.data
               o == [dc.rs2 EXCEPT !.data = v]
    <3>1. v \in Words
      BY <1>3, AmountDown DEF ShiftAgain
    <3>2. o \in Opr
      BY <1>3, <3>1 DEF Opr
    <3>3. dc' = [dc EXCEPT !.rs2 = o]
      BY <1>2, <2>1, <2>4 DEF NextDc
    <3> HIDE DEF o
    <3> QED
      BY <1>2, <3>2, <3>3
  <2>5. CASE ~DecodeSent /\ exec \notin {"regs", "shift"}
    BY <1>2, <2>1, <2>5 DEF NextDc
  <2> QED
    BY <2>2, <2>3, <2>4, <2>5
<1>9. wbData' \in Opr
  <2> DEFINE w == Extended(dc.uops, memBlk[Address])
  <2>1. wbData' = NextWbData
    BY DEF RiscvNext
  <2>2. /\ dc.mop \in {"op", "jal", "ldpc"} => AluData \in Words
        /\ exec = "shift" => ShiftTurn \in Words
        /\ w \in Words
    BY ResultsIn
  <2>3. IsUopSet("isload") \in BOOLEAN
    BY DEF IsUopSet
  <2>4. NextWbData =
          CASE exec = "regs"  -> [valid |-> FALSE, idx |-> dc.des, data |-> 0]
            [] exec = "alu" /\ dc.mop \in {"op", "jal", "ldpc"} ->
                 [wbData EXCEPT !.valid = TRUE, !.data = AluData]
            [] exec = "shift" -> [wbData EXCEPT !.data = ShiftTurn]
            [] exec = "mem"   -> [wbData EXCEPT !.valid = IsUopSet("isload"), !.data = w]
            [] OTHER          -> wbData
    BY DEF NextWbData
  <2> HIDE DEF w
  <2>5. NextWbData \in Opr
    BY <1>2, <1>3, <2>2, <2>3, <2>4, ZeroIn DEF Opr
  <2> QED
    BY <2>1, <2>5
<1>10. writing' \in BOOLEAN
  BY DEF RiscvNext, SlaveFin
<1>11. regFile' \in [Regs -> Words]
  BY <1>1, SeenRegsAre
<1>12. memBlk' \in [Words -> Words]
  <2>1. Address \in Words
    BY <1>1, AddressIn
  <2> DEFINE p == Pooled(dc.uops, memBlk[Address], dc.rs2.data)
  <2>2. p \in Words
    BY <1>2, <1>3, <2>1, PooledIn
  <2>3. memBlk' = IF exec = "mem" /\ ~IsUopSet("isload")
                    THEN [memBlk EXCEPT ![Address] = p] ELSE memBlk
    BY DEF RiscvNext
  <2> HIDE DEF p
  <2> QED
    BY <1>2, <2>1, <2>2, <2>3
<1> QED
  BY <1>2, <1>5, <1>6, <1>7, <1>8, <1>9, <1>10, <1>11, <1>12 DEF RiscvTypeOK, RiscvNext

(* What a cycle does to the execute stage: it takes the next instruction,   *)
(* becomes empty, or goes on with the one it has.                           *)
LEMMA CycleIs ==
  ASSUME RiscvInv, RiscvNext
  PROVE  /\ DecodeSent => /\ exec' = "regs" /\ dc' = Decoded(ft.instr) /\ dc'.pc = ft.pc
                         /\ ft.instr \in Instr /\ Oldest' = ft.instr
                         /\ ExecReady /\ decode = "send" /\ ~MisPredic
         /\ ExecReady /\ ~DecodeSent => exec' = "wait"
         /\ ~ExecReady =>
              /\ ~SlaveFin /\ ~DecodeSent /\ ~MisPredic /\ exec # "wait"
              /\ exec = "regs" => exec' = "alu"
              /\ exec = "alu" => exec' \in {"shift", "mem"}
              /\ exec = "alu" /\ exec' = "shift" => ShiftSet
              /\ exec = "alu" /\ exec' = "mem" => dc.mop = "ldst"
              /\ exec = "shift" => exec' = "shift" /\ ShiftAgain
              /\ exec # "mem"
              /\ dc'.pc = dc.pc /\ Oldest' = Oldest /\ dc'.mop = dc.mop /\ dc'.uops = dc.uops
              /\ dc'.rs3 = dc.rs3 /\ dc'.des = dc.des
              /\ exec = "regs" => dc'.rs1 = Accessed(dc.rs1) /\ dc'.rs2 = Accessed(dc.rs2)
              /\ exec = "alu" => dc'.rs1 = dc.rs1 /\ dc'.rs2 = dc.rs2
              /\ exec = "shift" => dc'.rs1 = dc.rs1 /\ dc'.rs2.data = dc.rs2.data - 1
<1>1. /\ code \in [Words -> Instr] /\ ft \in [pc : Words, instr : Instr]
      /\ exec \in {"wait", "regs", "alu", "shift", "mem"}
      /\ dc \in [pc : Words, mop : {"op", "ldst", "br", "jal", "ldpc", "none"},
                 uops : SUBSET Uops, rs1 : Opr, rs2 : Opr, rs3 : Opr, des : Regs]
      /\ RiscvTypeOK
  BY DEF RiscvInv, RiscvTypeOK
<1>2. /\ dc' = NextDc /\ exec' = NextExec /\ code' = code
  BY DEF RiscvNext
<1>3. ASSUME DecodeSent
      PROVE  /\ exec' = "regs" /\ dc' = Decoded(ft.instr) /\ dc'.pc = ft.pc
             /\ ft.instr \in Instr /\ Oldest' = ft.instr
             /\ ExecReady /\ decode = "send" /\ ~MisPredic
  <2>1. ExecReady /\ decode = "send" /\ ~MisPredic
    BY <1>3 DEF DecodeSent
  <2>2. exec' = "regs" /\ dc' = Decoded(ft.instr) /\ ft.instr \in Instr
    BY <1>1, <1>2, <1>3, <2>1 DEF NextExec, NextDc, ExecReady, SlaveFin, ShiftSet
  <2>3. dc'.pc = ft.pc
    BY <1>1, <2>2, DecodedIs
  <2>4. ft.instr = code[ft.pc]
    BY <2>1 DEF RiscvInv, InSequence
  <2> QED
    BY <1>2, <2>1, <2>2, <2>3, <2>4 DEF Oldest
<1>4. ExecReady /\ ~DecodeSent => exec' = "wait"
  BY <1>2 DEF NextExec, ExecReady, SlaveFin, ShiftSet
<1>5. ASSUME ~ExecReady
      PROVE  /\ ~SlaveFin /\ ~DecodeSent /\ ~MisPredic /\ exec # "wait"
             /\ exec = "regs" => exec' = "alu"
             /\ exec = "alu" => exec' \in {"shift", "mem"}
             /\ exec = "alu" /\ exec' = "shift" => ShiftSet
             /\ exec = "alu" /\ exec' = "mem" => dc.mop = "ldst"
             /\ exec = "shift" => exec' = "shift" /\ ShiftAgain
             /\ exec # "mem"
             /\ dc'.pc = dc.pc /\ Oldest' = Oldest /\ dc'.mop = dc.mop /\ dc'.uops = dc.uops
             /\ dc'.rs3 = dc.rs3 /\ dc'.des = dc.des
             /\ exec = "regs" => dc'.rs1 = Accessed(dc.rs1) /\ dc'.rs2 = Accessed(dc.rs2)
             /\ exec = "alu" => dc'.rs1 = dc.rs1 /\ dc'.rs2 = dc.rs2
             /\ exec = "shift" => dc'.rs1 = dc.rs1 /\ dc'.rs2.data = dc.rs2.data - 1
  <2>1. ~SlaveFin /\ ~DecodeSent /\ exec # "wait"
    BY <1>5 DEF ExecReady, DecodeSent
  <2>2. /\ exec = "alu" => ShiftSet \/ dc.mop = "ldst"
        /\ exec = "shift" => ShiftAgain
        /\ exec # "mem"
    BY <2>1 DEF SlaveFin
  <2>3. ~MisPredic
    BY <2>2 DEF MisPredic, ShiftSet
  <2>4. /\ exec = "regs" => exec' = "alu"
        /\ exec = "alu" => exec' \in {"shift", "mem"}
        /\ exec = "alu" /\ exec' = "shift" => ShiftSet
        /\ exec = "alu" /\ exec' = "mem" => dc.mop = "ldst"
        /\ exec = "shift" => exec' = "shift"
    BY <1>1, <1>2, <1>5, <2>2 DEF NextExec
  <2>5. /\ exec = "regs" => dc' = [dc EXCEPT !.rs1 = Accessed(@), !.rs2 = Accessed(@)]
        /\ exec = "alu" => dc' = dc
        /\ exec = "shift" => dc' = [dc EXCEPT !.rs2.data = @ - 1]
    BY <1>2, <2>1, <2>2 DEF NextDc
  <2>6. exec \in {"regs", "alu", "shift"}
    BY <1>1, <2>1, <2>2
  <2>7. /\ dc'.pc = dc.pc /\ dc'.mop = dc.mop /\ dc'.uops = dc.uops
        /\ dc'.rs3 = dc.rs3 /\ dc'.des = dc.des
        /\ exec = "regs" => dc'.rs1 = Accessed(dc.rs1) /\ dc'.rs2 = Accessed(dc.rs2)
        /\ exec = "alu" => dc'.rs1 = dc.rs1 /\ dc'.rs2 = dc.rs2
        /\ exec = "shift" => dc'.rs1 = dc.rs1 /\ dc'.rs2.data = dc.rs2.data - 1
    <3>1. CASE exec = "regs"
      BY <1>1, <2>5, <3>1
    <3>2. CASE exec = "alu"
      BY <2>5, <3>2
    <3>3. CASE exec = "shift"
      <4>1. dc.rs2 \in [valid : BOOLEAN, idx : Regs, data : Words]
        BY <1>1 DEF Opr
      <4> QED
        BY <1>1, <2>5, <3>3, <4>1
    <3> QED
      BY <2>6, <3>1, <3>2, <3>3
  <2>8. Oldest' = Oldest
    BY <1>2, <2>7 DEF Oldest
  <2> QED
    BY <2>1, <2>2, <2>3, <2>4, <2>7, <2>8
<1> QED
  BY <1>3, <1>4, <1>5

LEMMA InSequenceStep ==
  ASSUME RiscvInv, RiscvNext
  PROVE  InSequence'
<1>1. InSequence /\ decode \in {"wait", "send"}
  BY DEF RiscvInv, RiscvTypeOK
<1>2. /\ curPc' = IF MisPredic THEN NewPc ELSE IF Fetched THEN Plus(curPc, 1) ELSE curPc
      /\ ft' = IF Fetched THEN [pc |-> curPc, instr |-> code[curPc]] ELSE ft
      /\ decode' = IF MisPredic THEN "wait"
                   ELSE IF DecodeReady THEN IF Fetched THEN "send" ELSE "wait" ELSE decode
      /\ code' = code
  BY DEF RiscvNext
<1>3. Fetched => DecodeReady /\ ~MisPredic
  BY DEF Fetched, ReadFin
<1>4. DecodeReady <=> decode = "wait" \/ DecodeSent
  BY DEF DecodeReady
<1>5. Fetched => ft'.pc = curPc /\ ft'.instr = code[curPc]
  BY <1>2
<1>6. decode' = "send" => ft'.instr = code'[ft'.pc] /\ curPc' = Plus(ft'.pc, 1)
  <2>1. CASE Fetched
    BY <1>2, <1>3, <1>5, <2>1
  <2>2. CASE ~Fetched
    BY <1>1, <1>2, <1>4, <2>2 DEF InSequence
  <2> QED
    BY <2>1, <2>2
<1>7. ASSUME exec' # "wait"
      PROVE  (IF decode' = "send" THEN ft'.pc ELSE curPc') = Plus(dc'.pc, 1)
  <2>1. CASE DecodeSent
    <3>1. dc'.pc = ft.pc /\ decode = "send" /\ ~MisPredic
      BY <2>1, CycleIs
    <3>2. curPc = Plus(ft.pc, 1)
      BY <1>1, <3>1 DEF InSequence
    <3> QED
      BY <1>2, <1>3, <1>4, <1>5, <2>1, <3>1, <3>2
  <2>2. CASE ~DecodeSent
    <3>1. ~ExecReady
      BY <1>7, <2>2, CycleIs
    <3>2. dc'.pc = dc.pc /\ ~MisPredic /\ exec # "wait"
      BY <3>1, CycleIs
    <3>3. (IF decode = "send" THEN ft.pc ELSE curPc) = Plus(dc.pc, 1)
      BY <1>1, <3>2 DEF InSequence
    <3> QED
      BY <1>1, <1>2, <1>3, <1>4, <1>5, <2>2, <3>2, <3>3
  <2> QED
    BY <2>1, <2>2
<1> QED
  BY <1>6, <1>7 DEF InSequence

LEMMA DecodedStep ==
  ASSUME RiscvInv, RiscvNext
  PROVE  DecodedRight' /\ OperandsNamed'
<1>1. CASE DecodeSent
  <2>1. /\ dc' = Decoded(ft.instr) /\ Oldest' = ft.instr /\ ft.instr \in Instr
    BY <1>1, CycleIs
  <2>2. RiscvTypeOK
    BY DEF RiscvInv
  <2> QED
    BY <2>1, <2>2, DecodedIs DEF DecodedRight, OperandsNamed
<1>2. CASE ~DecodeSent /\ ExecReady
  <2>1. exec' = "wait"
    BY <1>2, CycleIs
  <2> QED
    BY <2>1 DEF DecodedRight, OperandsNamed
<1>3. CASE ~ExecReady
  <2>1. /\ Oldest' = Oldest /\ dc'.mop = dc.mop /\ dc'.uops = dc.uops
        /\ dc'.rs3 = dc.rs3 /\ dc'.des = dc.des /\ exec # "wait"
    BY <1>3, CycleIs
  <2>2. exec' # "regs"
    <3>1. exec \in {"wait", "regs", "alu", "shift", "mem"}
      BY DEF RiscvInv, RiscvTypeOK
    <3> QED
      BY <1>3, <3>1, CycleIs
  <2>3. DecodedRight
    BY DEF RiscvInv
  <2> QED
    BY <2>1, <2>2, <2>3 DEF DecodedRight, OperandsNamed
<1> QED
  BY <1>1, <1>2, <1>3

(* Behind the first state nothing is being written.                         *)
LEMMA QuietBehind ==
  ASSUME RiscvInv, RiscvNext, exec \in {"alu", "shift", "mem"}
  PROVE  ~writing /\ BypassIdx = 0 /\ SeenRegs = regFile /\ regFile' = regFile
  BY DEF RiscvInv, ResultsRight, BypassIdx, SeenRegs, RiscvNext

LEMMA OperandsStep ==
  ASSUME RiscvInv, RiscvNext
  PROVE  OperandsRead'
<1>1. RiscvTypeOK /\ regFile[0] = 0 /\ exec \in {"wait", "regs", "alu", "shift", "mem"}
  BY DEF RiscvInv, ResultsRight, RiscvTypeOK
<1>2. SUFFICES ASSUME exec' \in {"alu", "shift", "mem"}
               PROVE  OperandsRead'
  BY DEF OperandsRead
<1>3. ~ExecReady
  BY <1>2, CycleIs
<1>4. Oldest' = Oldest /\ exec \in {"regs", "alu", "shift"}
  BY <1>1, <1>3, CycleIs
<1>5. CASE exec = "regs"
  <2>1. exec' = "alu" /\ dc'.rs1 = Accessed(dc.rs1) /\ dc'.rs2 = Accessed(dc.rs2)
    BY <1>3, <1>5, CycleIs
  <2>2. regFile' = SeenRegs
    BY <1>1, SeenRegsAre
  <2>3. dc.rs1 \in Opr /\ dc.rs2 \in Opr
    BY <1>1 DEF RiscvTypeOK
  <2>4. /\ dc.rs2.valid => dc'.rs2.data = dc.rs2.data
        /\ ~dc.rs2.valid => dc'.rs2.data = regFile'[dc.rs2.idx]
        /\ ~dc.rs1.valid => dc'.rs1.data = regFile'[dc.rs1.idx]
    BY <1>1, <2>1, <2>2, <2>3, AccessedIs
  <2>5. /\ Oldest.rule \in ReadsFirst  => ~dc.rs1.valid /\ dc.rs1.idx = Oldest.rs0
        /\ Oldest.rule \in ReadsSecond => ~dc.rs2.valid /\ dc.rs2.idx = Oldest.rs1
        /\ Oldest.rule \in ImmSecond   => dc.rs2.valid /\ dc.rs2.data = Oldest.imm
    BY <1>5 DEF RiscvInv, OperandsNamed
  <2> QED
    BY <1>4, <2>1, <2>4, <2>5 DEF OperandsRead
<1>6. CASE exec \in {"alu", "shift"}
  <2>1. regFile' = regFile
    BY <1>6, QuietBehind
  <2>2. /\ dc'.rs1 = dc.rs1
        /\ exec' \in {"alu", "mem"} => exec = "alu" /\ dc'.rs2 = dc.rs2
    BY <1>3, <1>6, CycleIs
  <2>3. OperandsRead
    BY DEF RiscvInv
  <2> QED
    BY <1>4, <1>6, <2>1, <2>2, <2>3 DEF OperandsRead
<1> QED
  BY <1>4, <1>5, <1>6

(* A shift begins with its first operand, and a turn of its loop does one   *)
(* bit of what is left.                                                     *)
LEMMA ShiftBegins ==
  ASSUME RiscvInv, RiscvNext, exec = "alu", exec' = "shift"
  PROVE  /\ wbData'.valid /\ wbData'.data = regFile[Oldest.rs0]
         /\ dc'.rs2.data = Second
<1>1. ~ExecReady
  BY CycleIs
<1>2. ShiftSet /\ dc'.rs2 = dc.rs2
  BY <1>1, CycleIs
<1>3. /\ Oldest \in Instr /\ Oldest.rule \in {"opReg", "opImm"} /\ dc.uops = Oldest.uops
      /\ dc.mop = "op"
  BY <1>2, OldestIs DEF ShiftSet
<1>4. Oldest.uops \in UopsOf(Oldest.rule)
  BY <1>3, InstrIs
<1>5. \E op \in Shifts : op \in dc.uops
  BY <1>2 DEF ShiftSet, IsUopSet
<1>6. "add" \notin dc.uops /\ "sub" \notin dc.uops /\ "slt" \notin dc.uops /\ "sltu" \notin dc.uops
  BY <1>3, <1>4, <1>5 DEF UopsOf, AluOps, Shifts
<1>7. AluData = dc.rs1.data
  BY <1>3, <1>6 DEF AluData, AtOnce
<1>8. wbData' = [wbData EXCEPT !.valid = TRUE, !.data = AluData]
  BY <1>3 DEF RiscvNext, NextWbData
<1>9. wbData \in [valid : BOOLEAN, idx : Regs, data : Words]
  BY DEF RiscvInv, RiscvTypeOK, Opr
<1>10. dc.rs1.data = regFile[Oldest.rs0] /\ dc.rs2.data = Second
  BY <1>3 DEF RiscvInv, OperandsRead, Second, ReadsFirst, ReadsSecond, ImmSecond
<1> QED
  BY <1>2, <1>7, <1>8, <1>9, <1>10

LEMMA ShiftGoesOn ==
  ASSUME RiscvInv, RiscvNext, exec = "shift", ~ExecReady
  PROVE  /\ wbData'.valid
         /\ Shift(ShiftOp(dc.uops), wbData'.data, Amount(dc'.rs2.data)) =
              Shift(ShiftOp(dc.uops), wbData.data, Amount(dc.rs2.data))
<1> DEFINE op == ShiftOp(dc.uops)
           n == Amount(dc.rs2.data)
           b == ShiftBit(op, wbData.data)
<1>1. ShiftSet /\ wbData.valid /\ ShiftAgain /\ dc'.rs2.data = dc.rs2.data - 1
  BY CycleIs DEF RiscvInv, ResultsRight
<1>2. op \in Shifts
  BY <1>1, ShiftOpIs
<1>3. /\ dc.rs2.data \in Words /\ wbData.data \in Words
      /\ wbData \in [valid : BOOLEAN, idx : Regs, data : Words]
  BY DEF RiscvInv, RiscvTypeOK, Opr
<1>4. n \in 1 .. (AMOUNT - 1) /\ Amount(dc'.rs2.data) = n - 1
  BY <1>1, <1>3, AmountDown DEF ShiftAgain
<1>5. n > 0
  BY <1>4, RiscvAssumption
<1>6. wbData' = [wbData EXCEPT !.data = b]
  <2>1. ShiftTurn = b
    BY <1>5 DEF ShiftTurn
  <2> QED
    BY <2>1 DEF RiscvNext, NextWbData
<1>7. Shift(op, wbData.data, n) = Shift(op, b, n - 1)
  BY <1>2, <1>3, <1>4, ShiftAssumption
<1> HIDE DEF op, n, b
<1>8. wbData'.valid /\ wbData'.data = b
  BY <1>1, <1>3, <1>6
<1> QED
  BY <1>4, <1>7, <1>8 DEF op, n

LEMMA ResultsStep ==
  ASSUME RiscvInv, RiscvNext
  PROVE  ResultsRight'
<1>1. RiscvTypeOK /\ ResultsRight /\ exec \in {"wait", "regs", "alu", "shift", "mem"}
      /\ wbData \in [valid : BOOLEAN, idx : Regs, data : Words]
  BY DEF RiscvInv, RiscvTypeOK, Opr
<1>2. regFile'[0] = 0
  BY <1>1, SeenRegsAre DEF ResultsRight
<1>3. exec' \in {"alu", "shift", "mem"} => ~ExecReady
  BY CycleIs
<1>4. writing' => exec' \in {"wait", "regs"}
  <2>1. writing' => ExecReady
    BY DEF RiscvNext, ExecReady
  <2> QED
    BY <2>1, CycleIs
<1>5. ~ExecReady =>
        /\ exec \in {"regs", "alu", "shift"} /\ dc'.des = dc.des
        /\ exec' = "alu" => exec = "regs"
        /\ exec' = "mem" => exec = "alu" /\ dc.mop = "ldst" /\ dc'.mop = dc.mop
  BY <1>1, CycleIs
<1>6. wbData' = NextWbData
  BY DEF RiscvNext
<1>7. ~ExecReady => wbData'.idx = dc'.des
  <2>1. CASE exec = "regs"
    BY <1>5, <1>6, <2>1 DEF NextWbData
  <2>2. CASE exec \in {"alu", "shift"}
    <3>1. wbData.idx = dc.des
      BY <1>1, <2>2 DEF ResultsRight
    <3>2. wbData'.idx = wbData.idx
      BY <1>1, <1>6, <2>2 DEF NextWbData
    <3> QED
      BY <1>5, <3>1, <3>2
  <2> QED
    BY <1>5, <2>1, <2>2
<1>8. ~ExecReady /\ exec' \in {"alu", "mem"} => ~wbData'.valid
  <2>1. exec = "regs" => ~wbData'.valid
    BY <1>6 DEF NextWbData
  <2>2. exec = "alu" /\ dc.mop = "ldst" => wbData' = wbData /\ ~wbData.valid
    BY <1>1, <1>6 DEF NextWbData, ResultsRight
  <2> QED
    BY <1>5, <2>1, <2>2
<1>9. ASSUME exec' = "shift"
      PROVE  /\ ShiftSet' /\ wbData'.valid
             /\ Shift(ShiftOp(dc'.uops), wbData'.data, Amount(dc'.rs2.data)) =
                  Shift(ShiftOp(dc'.uops), regFile'[Oldest'.rs0], Amount(Second'))
  <2>1. ~ExecReady /\ exec \in {"alu", "shift"}
    BY <1>3, <1>5, <1>9, CycleIs
  <2>2. /\ ShiftSet /\ Oldest' = Oldest /\ dc'.uops = dc.uops /\ dc'.mop = dc.mop
    BY <1>1, <1>9, <2>1, CycleIs DEF ResultsRight
  <2>3. regFile' = regFile
    BY <2>1, QuietBehind
  <2>4. ShiftSet' /\ Second' = Second
    BY <2>2, <2>3 DEF ShiftSet, IsUopSet, Second
  <2>5. CASE exec = "alu"
    BY <1>9, <2>2, <2>3, <2>4, <2>5, ShiftBegins
  <2>6. CASE exec = "shift"
    <3>1. Shift(ShiftOp(dc.uops), wbData.data, Amount(dc.rs2.data)) =
            Shift(ShiftOp(dc.uops), regFile[Oldest.rs0], Amount(Second))
      BY <1>1, <2>6 DEF ResultsRight
    <3> QED
      BY <2>1, <2>2, <2>3, <2>4, <2>6, <3>1, ShiftGoesOn
  <2> QED
    BY <2>1, <2>5, <2>6
<1> QED
  BY <1>2, <1>3, <1>4, <1>5, <1>7, <1>8, <1>9 DEF ResultsRight

-----------------------------------------------------------------------------
(* The theorems.                                                            *)

LEMMA InvInit == RiscvInit => RiscvInv
<1> SUFFICES ASSUME RiscvInit PROVE RiscvInv
  OBVIOUS
<1> USE DEF RiscvInit
<1>1. 0 \in Regs /\ 0 \in Words /\ Fill \in Instr /\ Programs \subseteq [Words -> Instr]
  BY ZeroIn, FillIn, ProgramsAssumption
<1>2. RiscvTypeOK
  <2>1. [valid |-> FALSE, idx |-> 0, data |-> 0] \in Opr
    BY <1>1 DEF Opr
  <2> QED
    BY <1>1, <2>1 DEF RiscvTypeOK
<1>3. InSequence /\ DecodedRight /\ OperandsNamed /\ OperandsRead /\ ResultsRight
  BY <1>1 DEF InSequence, DecodedRight, OperandsNamed, OperandsRead, ResultsRight
<1> QED
  BY <1>2, <1>3 DEF RiscvInv

LEMMA InvStep == RiscvInv /\ [RiscvNext]_riscvVars => RiscvInv'
<1>1. ASSUME RiscvInv, RiscvNext PROVE RiscvInv'
  BY <1>1, TypeStep, InSequenceStep, DecodedStep, OperandsStep, ResultsStep DEF RiscvInv
<1>2. ASSUME RiscvInv, UNCHANGED riscvVars PROVE RiscvInv'
  <2>1. Oldest' = Oldest /\ ShiftSet' = ShiftSet /\ Second' = Second
    BY <1>2 DEF Oldest, ShiftSet, IsUopSet, Second, riscvVars
  <2> QED
    BY <1>2, <2>1 DEF RiscvInv, RiscvTypeOK, InSequence, DecodedRight, OperandsNamed, OperandsRead,
                  ResultsRight, riscvVars
<1> QED
  BY <1>1, <1>2

(* RiscvTypeOK: every register of the core holds a value of its kind.       *)
THEOREM RiscvTypeCorrect == RiscvSpec => []RiscvTypeOK
<1>1. RiscvInv => RiscvTypeOK
  BY DEF RiscvInv
<1> QED
  BY <1>1, InvInit, InvStep, PTL DEF RiscvSpec

(* A cycle in which no instruction leaves execute is none of the machine.   *)
LEMMA Idles ==
  ASSUME RiscvInv, RiscvNext, ~SlaveFin
  PROVE  OldestPc' = OldestPc /\ SeenRegs' = SeenRegs /\ memBlk' = memBlk /\ code' = code
<1>1. writing' = FALSE /\ code' = code
  BY DEF RiscvNext
<1>2. RiscvTypeOK /\ regFile[0] = 0
  BY DEF RiscvInv, ResultsRight
<1>3. SeenRegs' = SeenRegs
  BY <1>1, <1>2, SeenRegsAre DEF SeenRegs, BypassIdx
<1>4. memBlk' = memBlk
  BY DEF RiscvNext, SlaveFin
<1>5. OldestPc' = OldestPc
  <2>1. CASE DecodeSent
    <3>1. exec' = "regs" /\ dc'.pc = ft.pc /\ decode = "send" /\ ExecReady
      BY <2>1, CycleIs
    <3>2. exec = "wait"
      BY <3>1 DEF ExecReady
    <3> QED
      BY <3>1, <3>2 DEF OldestPc
  <2>2. CASE ~ExecReady
    <3>1. dc'.pc = dc.pc /\ exec # "wait" /\ exec \in {"regs", "alu", "shift"}
      BY <1>2, <2>2, CycleIs DEF RiscvTypeOK
    <3>2. exec' # "wait"
      BY <2>2, <3>1, CycleIs
    <3> QED
      BY <3>1, <3>2 DEF OldestPc
  <2>3. CASE ExecReady /\ ~DecodeSent
    <3>1. exec = "wait" /\ exec' = "wait" /\ ~MisPredic
      BY <2>3, CycleIs DEF ExecReady, MisPredic
    <3>2. decode = "wait"
      BY <1>2, <2>3, <3>1 DEF DecodeSent, RiscvTypeOK
    <3>3. DecodeReady
      BY <3>2 DEF DecodeReady
    <3>4. CASE Fetched
      <4>1. ft'.pc = curPc /\ decode' = "send"
        BY <3>1, <3>3, <3>4 DEF RiscvNext
      <4> QED
        BY <3>1, <3>2, <4>1 DEF OldestPc
    <3>5. CASE ~Fetched
      <4>1. curPc' = curPc /\ decode' = "wait"
        BY <3>1, <3>3, <3>5 DEF RiscvNext
      <4> QED
        BY <3>1, <3>2, <4>1 DEF OldestPc
    <3> QED
      BY <3>4, <3>5
  <2> QED
    BY <2>1, <2>2, <2>3
<1> QED
  BY <1>1, <1>3, <1>4, <1>5

(* The instruction that leaves execute is the oldest, it is whole, and the  *)
(* next one is the one behind it or the one it jumps to.                    *)
LEMMA LeavesAre ==
  ASSUME RiscvInv, RiscvNext, SlaveFin
  PROVE  /\ exec \in {"alu", "shift", "mem"} /\ exec # "wait" /\ ExecReady
         /\ OldestPc = dc.pc /\ SeenRegs = regFile /\ regFile' = regFile
         /\ Oldest \in Instr
         /\ exec = "mem" <=> Oldest.rule \in {"load", "store"}
         /\ exec = "shift" <=>
              Oldest.rule \in {"opReg", "opImm"} /\ \E op \in Shifts : op \in Oldest.uops
         /\ OldestPc' = IF MisPredic THEN NewPc ELSE Plus(dc.pc, 1)
<1>1. exec \in {"alu", "shift", "mem"} /\ exec # "wait" /\ ExecReady
  BY DEF SlaveFin, ExecReady
<1>2. SeenRegs = regFile /\ regFile' = regFile /\ OldestPc = dc.pc
  BY <1>1, QuietBehind DEF OldestPc
<1>3. Oldest \in Instr /\ (dc.mop = "ldst" <=> Oldest.rule \in {"load", "store"})
      /\ (dc.mop = "op" <=> Oldest.rule \in {"opReg", "opImm"})
      /\ (dc.mop = "op" => dc.uops = Oldest.uops)
  BY <1>1, OldestIs
<1>4. exec = "mem" <=> dc.mop = "ldst"
  BY <1>1 DEF SlaveFin, RiscvInv, ResultsRight, ShiftSet
<1>5. exec = "shift" <=> ShiftSet
  BY <1>1, <1>4 DEF SlaveFin, RiscvInv, ResultsRight, ShiftSet
<1>6. exec = "shift" <=> Oldest.rule \in {"opReg", "opImm"} /\ \E op \in Shifts : op \in Oldest.uops
  BY <1>3, <1>5 DEF ShiftSet, IsUopSet
<1>7. OldestPc' = IF MisPredic THEN NewPc ELSE Plus(dc.pc, 1)
  <2>1. CASE MisPredic
    <3>1. ~DecodeSent
      BY <2>1 DEF DecodeSent
    <3>2. exec' = "wait"
      BY <1>1, <3>1, CycleIs
    <3>3. curPc' = NewPc /\ decode' = "wait"
      BY <2>1 DEF RiscvNext
    <3> QED
      BY <2>1, <3>2, <3>3 DEF OldestPc
  <2>2. CASE DecodeSent
    <3>1. exec' = "regs" /\ dc'.pc = ft.pc /\ decode = "send" /\ ~MisPredic
      BY <2>2, CycleIs
    <3>2. ft.pc = Plus(dc.pc, 1)
      BY <1>1, <3>1 DEF RiscvInv, InSequence
    <3> QED
      BY <3>1, <3>2 DEF OldestPc
  <2>3. CASE ~MisPredic /\ ~DecodeSent
    <3>1. exec' = "wait"
      BY <1>1, <2>3, CycleIs
    <3>2. decode = "wait"
      BY <1>1, <2>3 DEF DecodeSent, RiscvInv, RiscvTypeOK
    <3>3. DecodeReady /\ curPc = Plus(dc.pc, 1)
      BY <1>1, <3>2 DEF DecodeReady, RiscvInv, InSequence
    <3>4. CASE Fetched
      <4>1. ft'.pc = curPc /\ decode' = "send"
        BY <2>3, <3>3, <3>4 DEF RiscvNext
      <4> QED
        BY <2>3, <3>1, <3>3, <4>1 DEF OldestPc
    <3>5. CASE ~Fetched
      <4>1. curPc' = curPc /\ decode' = "wait"
        BY <2>3, <3>3, <3>5 DEF RiscvNext
      <4> QED
        BY <2>3, <3>1, <3>3, <4>1 DEF OldestPc
    <3> QED
      BY <3>4, <3>5
  <2> QED
    BY <2>1, <2>2, <2>3 DEF DecodeSent
<1> QED
  BY <1>1, <1>2, <1>3, <1>4, <1>6, <1>7

(* The machine of the program, as it is seen.                               *)
Seen == [pc |-> OldestPc, reg |-> SeenRegs, mem |-> memBlk]

(* The address of what leaves, and the memory behind it.                    *)
LEMMA FollowerIs ==
  ASSUME RiscvInv, RiscvNext, SlaveFin
  PROVE  OldestPc' = Follower(Seen, Oldest)
<1>1. /\ exec \in {"alu", "shift", "mem"} /\ exec # "wait"
      /\ Seen.pc = dc.pc /\ Seen.reg = regFile
      /\ exec = "mem" <=> Oldest.rule \in {"load", "store"}
      /\ exec = "shift" => Oldest.rule \in {"opReg", "opImm"}
      /\ OldestPc' = IF MisPredic THEN NewPc ELSE Plus(dc.pc, 1)
  BY LeavesAre DEF Seen
<1>2. /\ dc.mop = "br"  <=> Oldest.rule = "br"
      /\ dc.mop = "jal" <=> Oldest.rule \in {"jal", "jalr"}
      /\ Oldest.rule = "br" => dc.uops = Oldest.uops
      /\ IsUopSet("needpc") <=> Oldest.rule \in {"jal", "auipc"}
  BY <1>1, OldestIs
<1>3. exec = "alu" =>
        /\ Oldest.rule \in {"jalr", "br"} => dc.rs1.data = regFile[Oldest.rs0]
        /\ Oldest.rule = "br" => dc.rs2.data = regFile[Oldest.rs1] /\ dc.rs3.data = Oldest.imm
        /\ Oldest.rule \in {"jal", "jalr"} => dc.rs2.data = Oldest.imm
  BY DEF RiscvInv, OperandsRead, DecodedRight, ReadsFirst, ReadsSecond, ImmSecond, ImmThird
<1>4. CASE Oldest.rule = "br"
  <2>1. exec = "alu"
    BY <1>1, <1>4
  <2>2. MisPredic <=> Holds(Oldest.uops, regFile[Oldest.rs0], regFile[Oldest.rs1])
    BY <1>2, <1>3, <1>4, <2>1 DEF MisPredic
  <2>3. NewPc = Plus(dc.pc, Oldest.imm)
    BY <1>2, <1>3, <1>4, <2>1 DEF NewPc
  <2> QED
    BY <1>1, <1>4, <2>2, <2>3 DEF Follower
<1>5. CASE Oldest.rule \in {"jal", "jalr"}
  <2>1. exec = "alu"
    BY <1>1, <1>5
  <2>2. MisPredic
    BY <1>2, <1>5, <2>1 DEF MisPredic
  <2>3. /\ Oldest.rule = "jal"  => NewPc = Plus(dc.pc, Oldest.imm)
        /\ Oldest.rule = "jalr" => NewPc = Plus(regFile[Oldest.rs0], Oldest.imm)
    BY <1>2, <1>3, <1>5, <2>1 DEF NewPc
  <2> QED
    BY <1>1, <1>5, <2>2, <2>3 DEF Follower
<1>6. CASE Oldest.rule \notin {"br", "jal", "jalr"}
  <2>1. ~MisPredic
    BY <1>2, <1>6 DEF MisPredic
  <2> QED
    BY <1>1, <1>6, <2>1 DEF Follower
<1> QED
  BY <1>4, <1>5, <1>6

LEMMA MemoryIs ==
  ASSUME RiscvInv, RiscvNext, SlaveFin
  PROVE  /\ memBlk' = Execute(Seen, Oldest).mem
         /\ Oldest.rule \in {"load", "store"} => Address = Plus(regFile[Oldest.rs0], Oldest.imm)
<1>1. /\ exec # "wait" /\ Seen.reg = regFile /\ Seen.mem = memBlk
      /\ exec = "mem" <=> Oldest.rule \in {"load", "store"}
  BY LeavesAre DEF Seen
<1>2. /\ IsUopSet("isload") <=> Oldest.rule = "load"
      /\ Oldest.rule = "store" => dc.uops = Oldest.uops
  BY <1>1, OldestIs
<1>3. Oldest.rule \in {"load", "store"} =>
        /\ dc.rs1.data = regFile[Oldest.rs0] /\ dc.rs3.data = Oldest.imm
        /\ Oldest.rule = "store" => dc.rs2.data = regFile[Oldest.rs1]
  BY <1>1 DEF RiscvInv, OperandsRead, DecodedRight, ReadsFirst, ReadsSecond, ImmThird
<1>4. memBlk' = IF Oldest.rule = "store"
                  THEN [memBlk EXCEPT ![Address] = Pooled(dc.uops, @, dc.rs2.data)] ELSE memBlk
  BY <1>1, <1>2 DEF RiscvNext
<1>5. Oldest.rule \in {"load", "store"} => Address = Plus(regFile[Oldest.rs0], Oldest.imm)
  BY <1>3 DEF Address
<1> QED
  BY <1>1, <1>2, <1>3, <1>4, <1>5 DEF Execute

(* The value of the instruction that leaves.                                *)
LEMMA ValueIs ==
  ASSUME RiscvInv, RiscvNext, SlaveFin, Oldest.rule \notin {"store", "br", "none"}
  PROVE  wbData'.valid /\ wbData'.data = Result(Seen, Oldest)
<1>1. /\ exec \in {"alu", "shift", "mem"} /\ exec # "wait" /\ Oldest \in Instr
      /\ Seen.pc = dc.pc /\ Seen.reg = regFile /\ Seen.mem = memBlk
      /\ exec = "mem" <=> Oldest.rule \in {"load", "store"}
      /\ exec = "shift" <=>
           Oldest.rule \in {"opReg", "opImm"} /\ \E op \in Shifts : op \in Oldest.uops
  BY LeavesAre DEF Seen
<1>2. /\ Oldest.rule \in Rules
      /\ Oldest.rule \in {"opReg", "opImm", "load", "jalr", "jal", "auipc", "lui"}
  BY <1>1, InstrIs DEF Rules
<1>3. /\ wbData' = NextWbData /\ wbData \in [valid : BOOLEAN, idx : Regs, data : Words]
      /\ dc.rs2.data \in Words /\ memBlk \in [Words -> Words]
  BY DEF RiscvNext, RiscvInv, RiscvTypeOK, Opr
<1>4. CASE Oldest.rule = "load"
  <2>1. /\ IsUopSet("isload") /\ Address = Plus(regFile[Oldest.rs0], Oldest.imm)
        /\ \A w \in Words : Extended(dc.uops, w) = Extended(Oldest.uops, w)
    BY <1>1, <1>4, OldestIs, MemoryIs
  <2>2. memBlk[Address] \in Words
    BY <1>3, AddressIn DEF RiscvInv
  <2>3. wbData'.valid /\ wbData'.data = Extended(dc.uops, memBlk[Address])
    BY <1>1, <1>3, <1>4, <2>1 DEF NextWbData
  <2>4. Result(Seen, Oldest) = Extended(Oldest.uops, memBlk[Address])
    BY <1>1, <1>4, <2>1 DEF Result
  <2> QED
    BY <2>1, <2>2, <2>3, <2>4
<1>5. CASE exec = "shift"
  <2> DEFINE op == ShiftOp(dc.uops)
             n == Amount(dc.rs2.data)
             d == wbData.data
  <2>1. /\ wbData.valid /\ ShiftSet
        /\ Shift(op, d, n) = Shift(op, regFile[Oldest.rs0], Amount(Second))
    BY <1>5 DEF RiscvInv, ResultsRight
  <2>2. op \in Shifts /\ d \in Words
    BY <1>3, <2>1, ShiftOpIs
  <2>3. n \in 0 .. (AMOUNT - 1) /\ ~(n > 1)
    <3>1. n \in 0 .. (AMOUNT - 1)
      BY <1>3, WordIsInt, RemainderIn, RiscvAssumption DEF Amount
    <3> QED
      BY <1>5, <3>1 DEF SlaveFin, ShiftAgain
  <2>4. ShiftTurn = Shift(op, d, n)
    <3>1. CASE n = 0
      BY <2>2, <3>1, ShiftAssumption DEF ShiftTurn
    <3>2. CASE n = 1
      <4>1. ShiftTurn = ShiftBit(op, d)
        BY <3>2 DEF ShiftTurn
      <4>2. Shift(op, d, 1) = Shift(op, ShiftBit(op, d), 0)
        <5>1. 1 \in 1 .. (AMOUNT - 1) /\ 1 - 1 = 0
          BY <2>3, <3>2, RiscvAssumption
        <5> QED
          BY <2>2, <5>1, ShiftAssumption
      <4>3. ShiftBit(op, d) \in Words
        BY <2>2, ShiftBitIn
      <4> QED
        BY <2>2, <3>2, <4>1, <4>2, <4>3, ShiftAssumption
    <3> QED
      BY <2>3, <3>1, <3>2, RiscvAssumption
  <2> HIDE DEF op, n, d
  <2>5. wbData'.valid /\ wbData'.data = ShiftTurn
    BY <1>3, <1>5, <2>1 DEF NextWbData
  <2>6. dc.uops = Oldest.uops
    BY <1>1, <1>5, OldestIs
  <2>7. Result(Seen, Oldest) = Shift(ShiftOp(Oldest.uops), regFile[Oldest.rs0], Amount(Second))
    BY <1>1, <1>5 DEF Result, Second
  <2> QED
    BY <2>1, <2>4, <2>5, <2>6, <2>7 DEF op
<1>6. CASE exec = "alu"
  <2>1. /\ dc.mop = "op"   <=> Oldest.rule \in {"opReg", "opImm"}
        /\ dc.mop = "jal"  <=> Oldest.rule \in {"jal", "jalr"}
        /\ dc.mop = "ldpc" <=> Oldest.rule \in {"auipc", "lui"}
        /\ dc.mop = "op" => dc.uops = Oldest.uops
        /\ IsUopSet("needpc") <=> Oldest.rule \in {"jal", "auipc"}
    BY <1>1, OldestIs
  <2>2. dc.mop \in {"op", "jal", "ldpc"}
    BY <1>1, <1>2, <1>6, <2>1
  <2>3. wbData'.valid /\ wbData'.data = AluData
    BY <1>3, <1>6, <2>2 DEF NextWbData
  <2>4. /\ Oldest.rule \in ReadsFirst  => dc.rs1.data = regFile[Oldest.rs0]
        /\ Oldest.rule \in ReadsSecond => dc.rs2.data = regFile[Oldest.rs1]
        /\ Oldest.rule \in ImmSecond   => dc.rs2.data = Oldest.imm
    BY <1>6 DEF RiscvInv, OperandsRead
  <2>5. CASE Oldest.rule \in {"opReg", "opImm"}
    <3>1. AluData = AtOnce(Oldest.uops, regFile[Oldest.rs0], Second)
      BY <2>1, <2>4, <2>5 DEF AluData, Second, ReadsFirst, ReadsSecond, ImmSecond
    <3>2. Result(Seen, Oldest) = AtOnce(Oldest.uops, regFile[Oldest.rs0], Second)
      BY <1>1, <1>6, <2>5 DEF Result, Second
    <3> QED
      BY <2>3, <3>1, <3>2
  <2>6. CASE Oldest.rule \in {"jal", "jalr"}
    BY <1>1, <2>1, <2>3, <2>6 DEF AluData, Result
  <2>7. CASE Oldest.rule \in {"auipc", "lui"}
    BY <1>1, <2>1, <2>3, <2>4, <2>7 DEF AluData, Result, ImmSecond
  <2> QED
    BY <1>1, <1>2, <1>6, <2>5, <2>6, <2>7
<1> QED
  BY <1>1, <1>2, <1>4, <1>5, <1>6

(* The registers a program sees behind it.                                  *)
LEMMA RegistersAre ==
  ASSUME RiscvInv, RiscvNext, SlaveFin
  PROVE  SeenRegs' = Execute(Seen, Oldest).reg
<1>1. /\ exec \in {"alu", "shift", "mem"} /\ exec # "wait" /\ Seen.reg = regFile
      /\ regFile' = regFile
      /\ Oldest \in Instr
      /\ exec = "mem" <=> Oldest.rule \in {"load", "store"}
      /\ exec = "shift" => Oldest.rule \in {"opReg", "opImm"}
  BY LeavesAre DEF Seen
<1>2. writing' /\ wbData' = NextWbData
  BY DEF RiscvNext
<1>3. wbData \in [valid : BOOLEAN, idx : Regs, data : Words] /\ wbData.idx = dc.des
  BY <1>1 DEF RiscvInv, RiscvTypeOK, ResultsRight, Opr
<1>4. wbData'.idx = dc.des
  BY <1>1, <1>2, <1>3 DEF NextWbData
<1>5. SeenRegs' = IF wbData'.valid /\ dc.des # 0 THEN [regFile EXCEPT ![dc.des] = wbData'.data]
                  ELSE regFile
  BY <1>1, <1>2, <1>4 DEF SeenRegs, BypassIdx
<1>6. CASE Oldest.rule \in {"store", "br", "none"}
  <2>1. ~wbData'.valid
    <3>1. CASE Oldest.rule = "store"
      BY <1>1, <1>2, <1>3, <3>1, OldestIs DEF NextWbData
    <3>2. CASE Oldest.rule \in {"br", "none"}
      <4>1. exec = "alu" /\ dc.mop \in {"br", "none"}
        BY <1>1, <3>2, OldestIs
      <4>2. ~wbData.valid
        BY <4>1 DEF RiscvInv, ResultsRight
      <4> QED
        BY <1>2, <4>1, <4>2 DEF NextWbData
    <3> QED
      BY <1>6, <3>1, <3>2
  <2> QED
    BY <1>1, <1>5, <1>6, <2>1 DEF Execute, HasResult
<1>7. CASE Oldest.rule \notin {"store", "br", "none"}
  <2>1. wbData'.valid /\ wbData'.data = Result(Seen, Oldest)
    BY <1>7, ValueIs
  <2>2. dc.des = Oldest.rd
    BY <1>1, <1>7, OldestIs
  <2> QED
    BY <1>1, <1>5, <1>7, <2>1, <2>2 DEF Execute, HasResult
<1> QED
  BY <1>6, <1>7

(* ImplementsHart: the core executes its program one instruction after the  *)
(* other; the bypass, the kill and the cycles of a shift are not seen.      *)
THEOREM CoreImplementsHart == RiscvSpec => ImplementsHart
<1>1. RiscvInit => Hart!Init
  <2> SUFFICES ASSUME RiscvInit PROVE Hart!Init
    OBVIOUS
  <2>1. OldestPc = 0 /\ SeenRegs = regFile
    BY DEF RiscvInit, OldestPc, SeenRegs, BypassIdx
  <2> QED
    BY <2>1, ProgramsAssumption DEF RiscvInit, Hart!Init
<1>2. RiscvInv /\ [RiscvNext]_riscvVars => [Hart!Next]_Hart!vars
  <2>1. ASSUME RiscvInv, RiscvNext, SlaveFin PROVE Hart!Next
    <3>1. code[OldestPc] = Oldest /\ code' = code
      BY <2>1, LeavesAre DEF Oldest, RiscvNext
    <3>2. Execute(Seen, Oldest).pc = Follower(Seen, Oldest)
      BY DEF Execute
    <3>3. /\ OldestPc' = Execute(Seen, Oldest).pc
          /\ SeenRegs' = Execute(Seen, Oldest).reg
          /\ memBlk' = Execute(Seen, Oldest).mem
      BY <2>1, <3>2, FollowerIs, RegistersAre, MemoryIs
    <3>4. Seen.pc = OldestPc
      BY DEF Seen
    <3>5. Hart!After(Hart!Now) = Execute(Seen, Oldest)
      BY <3>1, <3>4 DEF Hart!After, Hart!Now, Seen
    <3> QED
      BY <3>1, <3>3, <3>5 DEF Hart!Next, Hart!One, Hart!Becomes
  <2>2. ASSUME RiscvInv, RiscvNext, ~SlaveFin PROVE UNCHANGED Hart!vars
    BY <2>2, Idles DEF Hart!vars
  <2>3. ASSUME UNCHANGED riscvVars PROVE UNCHANGED Hart!vars
    BY <2>3 DEF Hart!vars, OldestPc, SeenRegs, BypassIdx, riscvVars
  <2> QED
    BY <2>1, <2>2, <2>3
<1> QED
  BY <1>1, <1>2, InvInit, InvStep, PTL DEF RiscvSpec, ImplementsHart, Hart!Spec

-----------------------------------------------------------------------------
(* The cache server.                                                        *)

USE DEF NextHead, NextSize, NextBusy, NextInput, NextTimer, ReadValue

(* The ring holds the words from headPos on, and the schedule executes a    *)
(* request of its own bank, as what it is.                                  *)
RingInv == curSize \in 0 .. WORD_AMT /\ lastPos = Cell(curSize + 1)

ScheduleInv == \A b \in Banks :
  /\ state[b] = "load" => isBusy[b] /\ input[b].isLoad
  /\ state[b] = "write" => isBusy[b] /\ ~input[b].isLoad
  /\ isBusy[b] => input[b].bank = b

CacheInv == CacheTypeOK /\ RingInv /\ ScheduleInv

LEMMA CacheNumbers ==
  /\ BANK \in Nat \ {0} /\ ROW \in Nat \ {0} /\ WORD_AMT \in Nat \ {0} /\ LIMIT_TIME \in Nat
  /\ 0 \in Banks /\ 0 \in Rows /\ 0 \in Cells /\ Zero \in Value
  BY CacheAssumption DEF Banks, Rows, Cells

LEMMA ContainerIs == Container \in Nat \ {0}
  BY CacheNumbers DEF Container

LEMMA CacheBegins == CacheInit => CacheInv
<1> SUFFICES ASSUME CacheInit PROVE CacheInv
  OBVIOUS
<1>1. [isLoad |-> FALSE, bank |-> 0, row |-> 0, value |-> Zero] \in Packet
  BY CacheNumbers DEF Packet
<1>2. /\ queueMem \in [Cells -> Packet] /\ input \in [Banks -> Packet]
      /\ headPos \in Cells /\ lastPos \in Cells /\ curBankItr \in Banks
  BY <1>1, CacheNumbers DEF CacheInit
<1>3. curSize \in 0 .. (Container - 1) /\ timerCnt \in 0 .. LIMIT_TIME
  BY CacheNumbers, ContainerIs DEF CacheInit
<1>4. /\ isBusy \in [Banks -> BOOLEAN]
      /\ state \in [Banks -> {"wait", "load", "write", "first", "clean"}]
      /\ cleanCnt \in [Banks -> Rows] /\ poolData \in [Banks -> [Rows -> Value]]
      /\ output \in [valid : BOOLEAN, bank : Banks, row : Rows, value : Value]
  BY CacheNumbers DEF CacheInit
<1>5. CacheTypeOK
  BY <1>2, <1>3, <1>4 DEF CacheTypeOK
<1>6. RingInv
  BY CacheNumbers DEF CacheInit, RingInv, Cell
<1>7. ScheduleInv
  BY DEF CacheInit, ScheduleInv
<1> QED BY <1>5, <1>6, <1>7 DEF CacheInv

LEMMA FrontIs ==
  ASSUME CacheTypeOK PROVE Front \in Packet /\ Front.bank \in Banks
  BY DEF CacheTypeOK, Front, Packet

LEMMA CounterWraps ==
  ASSUME NEW n \in Nat \ {0}, NEW k \in 0 .. (n - 1) PROVE (k + 1) % n \in 0 .. (n - 1)
  OBVIOUS

LEMMA AfterIs ==
  ASSUME NEW p \in Cells
  PROVE  /\ After(p) \in Cells
         /\ After(p) = IF p + 1 < WORD_AMT THEN p + 1 ELSE p + 1 - WORD_AMT
  BY CacheNumbers DEF After, Cells

LEMMA ClockKeepsType == ASSUME CacheTypeOK, Clock PROVE CacheTypeOK'
<1>1. Front \in Packet
  BY FrontIs
<1>2. queueMem' \in [Cells -> Packet] /\ lastPos' \in Cells
  BY DEF CacheTypeOK, Clock
<1>3. headPos' \in Cells
  BY AfterIs DEF CacheTypeOK, Clock
<1>4. curSize' \in 0 .. (Container - 1)
  BY ContainerIs DEF CacheTypeOK, Clock, ReqToDequeue, ReqResult, ReqToSend
<1>5. isBusy' \in [Banks -> BOOLEAN]
  <2>1. \A b \in Banks : (ReqResult(b) \/ (isBusy[b] /\ ~ReadyToGetNew(b))) \in BOOLEAN
    BY DEF ReqResult, ReqToSend, ReadyToGetNew, OutSuccess
  <2> QED BY <2>1 DEF Clock
<1>6. input' \in [Banks -> Packet]
  BY <1>1 DEF CacheTypeOK, Clock
<1>7. state' \in [Banks -> {"wait", "load", "write", "first", "clean"}]
  <2>1. \A b \in Banks : NextState(b) \in {"wait", "load", "write", "first", "clean"}
    BY DEF CacheTypeOK, NextState, Choice
  <2> QED BY <2>1 DEF Clock
<1>8. timerCnt' \in 0 .. LIMIT_TIME
  BY CacheNumbers DEF CacheTypeOK, Clock
<1>9. cleanCnt' \in [Banks -> Rows]
  <2>1. \A b \in Banks : NextClean(b) \in Rows
    <3> TAKE b \in Banks
    <3>1. cleanCnt[b] \in Rows
      BY DEF CacheTypeOK
    <3>2. (cleanCnt[b] + 1) % ROW \in Rows
      BY <3>1, CacheNumbers, CounterWraps DEF Rows
    <3> QED BY <3>1, <3>2, CacheNumbers DEF NextClean
  <2> QED BY <2>1 DEF Clock
<1>10. poolData' \in [Banks -> [Rows -> Value]]
  <2>1. \A b \in Banks : NextRows(b) \in [Rows -> Value]
    <3> TAKE b \in Banks
    <3>1. poolData[b] \in [Rows -> Value] /\ input[b] \in Packet /\ cleanCnt[b] \in Rows
      BY DEF CacheTypeOK
    <3>2. input[b].value \in Value
      BY <3>1 DEF Packet
    <3>3. \A r, v : v \in Value => [poolData[b] EXCEPT ![r] = v] \in [Rows -> Value]
      BY <3>1
    <3> QED BY <3>1, <3>2, <3>3, CacheNumbers DEF NextRows
  <2> QED BY <2>1 DEF Clock
<1>11. curBankItr' \in Banks
  BY CacheNumbers, CounterWraps DEF CacheTypeOK, Clock, Banks
<1>12. output' \in [valid : BOOLEAN, bank : Banks, row : Rows, value : Value]
  <2>1. curBankItr \in Banks /\ input[curBankItr] \in Packet /\ poolData[curBankItr] \in [Rows -> Value]
    BY DEF CacheTypeOK
  <2>2. input[curBankItr].row \in Rows
    BY <2>1 DEF Packet
  <2>3. poolData[curBankItr][input[curBankItr].row] \in Value
    BY <2>1, <2>2
  <2>4. [output EXCEPT !.valid = FALSE] \in [valid : BOOLEAN, bank : Banks, row : Rows, value : Value]
    BY DEF CacheTypeOK
  <2> QED BY <2>1, <2>2, <2>3, <2>4 DEF Clock, NextOutput
<1> QED
  BY <1>2, <1>3, <1>4, <1>5, <1>6, <1>7, <1>8, <1>9, <1>10, <1>11, <1>12 DEF CacheTypeOK

LEMMA ClockKeepsSchedule == ASSUME CacheInv, Clock PROVE ScheduleInv'
<1> SUFFICES ASSUME NEW b \in Banks
             PROVE  /\ state'[b] = "load" => isBusy'[b] /\ input'[b].isLoad
                    /\ state'[b] = "write" => isBusy'[b] /\ ~input'[b].isLoad
                    /\ isBusy'[b] => input'[b].bank = b
  BY DEF ScheduleInv
<1>1. /\ state'[b] = NextState(b)
      /\ isBusy'[b] = (ReqResult(b) \/ (isBusy[b] /\ ~ReadyToGetNew(b)))
      /\ input'[b] = IF ReqResult(b) THEN Front ELSE input[b]
  BY DEF Clock
<1>2. /\ state[b] = "load" => isBusy[b] /\ input[b].isLoad
      /\ isBusy[b] => input[b].bank = b
  BY DEF CacheInv, ScheduleInv
<1>3. /\ Front \in Packet /\ input[b] \in Packet /\ isBusy[b] \in BOOLEAN
      /\ state[b] \in {"wait", "load", "write", "first", "clean"}
  BY FrontIs DEF CacheInv, CacheTypeOK
<1>4. Front.isLoad \in BOOLEAN /\ input[b].isLoad \in BOOLEAN
  BY <1>3 DEF Packet
<1>5. isBusy'[b] => input'[b].bank = b
  BY <1>1, <1>2 DEF ReqResult, ReqToSend
<1>6. CASE RoundOver(b)
  <2>1. state'[b] = Choice(b)
    BY <1>1, <1>6 DEF NextState
  <2>2. state'[b] = "load" => IsNextCycleBusy(b) /\ NextIsLoad(b)
    BY <2>1 DEF Choice
  <2>3. state'[b] = "write" => IsNextCycleBusy(b) /\ ~NextIsLoad(b)
    BY <2>1 DEF Choice
  <2>4. isBusy'[b] = IsNextCycleBusy(b)
    BY <1>1, <1>3 DEF IsNextCycleBusy
  <2>5. IsNextCycleBusy(b) => input'[b].isLoad = NextIsLoad(b)
    BY <1>1, <1>3, <1>4 DEF IsNextCycleBusy, NextIsLoad
  <2> QED BY <1>5, <2>2, <2>3, <2>4, <2>5
<1>7. CASE ~RoundOver(b)
  <2>1. state'[b] \in {"load", "clean"} /\ (state'[b] = "load" => state[b] = "load")
    BY <1>1, <1>3, <1>7 DEF NextState, RoundOver
  <2>2. ~ReadyToGetNew(b)
    BY <1>7 DEF RoundOver, ReadyToGetNew
  <2>3. isBusy[b] => ~ReqResult(b)
    BY <2>2 DEF ReqResult
  <2>4. state[b] = "load" => isBusy'[b] /\ input'[b] = input[b]
    BY <1>1, <1>2, <2>2, <2>3
  <2> QED BY <1>2, <1>5, <2>1, <2>4
<1> QED BY <1>6, <1>7

LEMMA ClockKeepsRing == ASSUME CacheInv, Clock PROVE RingInv'
<1>1. headPos \in Cells /\ lastPos \in Cells /\ curSize \in 0 .. WORD_AMT /\ lastPos = Cell(curSize + 1)
  BY DEF CacheInv, CacheTypeOK, RingInv
<1>2. CASE ReqToDequeue
  <2>1. curSize # 0
    BY <1>2 DEF ReqToDequeue, ReqResult, ReqToSend
  <2>2. headPos' = After(headPos) /\ curSize' = curSize - 1 /\ lastPos' = lastPos
    BY <1>2 DEF Clock
  <2>3. headPos' = IF headPos + 1 < WORD_AMT THEN headPos + 1 ELSE headPos + 1 - WORD_AMT
    BY <1>1, <2>2, AfterIs
  <2> QED BY <1>1, <2>1, <2>2, <2>3, CacheNumbers DEF RingInv, Cell, Cells
<1>3. CASE ~ReqToDequeue
  BY <1>1, <1>3 DEF Clock, RingInv, Cell
<1> QED BY <1>2, <1>3

LEMMA PushKeepsType ==
  ASSUME CacheTypeOK, NEW packet \in Workload, PushDataSim(packet) PROVE CacheTypeOK'
<1>1. packet \in Packet
  BY WorkloadAssumption
<1>2. curSize' \in 0 .. (Container - 1)
  <2>1. curSize \in Nat
    BY ContainerIs DEF CacheTypeOK
  <2> QED BY <2>1, ContainerIs DEF PushDataSim
<1> QED
  BY <1>1, <1>2, AfterIs, CacheNumbers DEF CacheTypeOK, PushDataSim, bankVars

(* The ring has room, and the number for one more.                          *)
LEMMA PushCounts ==
  ASSUME RingCounted, RingInv, NEW packet, PushDataSim(packet) PROVE curSize' = curSize + 1
<1>1. curSize + 1 \in 0 .. (Container - 1)
  BY CacheNumbers, ContainerIs DEF RingCounted, RingInv, PushDataSim
<1>2. \A x \in 0 .. (Container - 1) : x % Container = x
  BY ContainerIs
<1> QED BY <1>1, <1>2 DEF PushDataSim

LEMMA PushKeeps ==
  ASSUME RingCounted, CacheInv, NEW packet \in Workload, PushDataSim(packet) PROVE CacheInv'
<1>1. headPos \in Cells /\ lastPos \in Cells /\ curSize \in 0 .. WORD_AMT /\ lastPos = Cell(curSize + 1)
  BY DEF CacheInv, CacheTypeOK, RingInv
<1>2. lastPos' = IF lastPos + 1 < WORD_AMT THEN lastPos + 1 ELSE lastPos + 1 - WORD_AMT
  BY <1>1, AfterIs DEF PushDataSim
<1>3. headPos' = headPos /\ curSize' = curSize + 1 /\ curSize # WORD_AMT
  BY PushCounts DEF CacheInv, PushDataSim
<1>4. RingInv'
  BY <1>1, <1>2, <1>3, CacheNumbers DEF RingInv, Cell, Cells
<1>5. ScheduleInv'
  BY DEF CacheInv, ScheduleInv, PushDataSim, bankVars
<1> QED BY <1>4, <1>5, PushKeepsType DEF CacheInv

LEMMA CacheKeeps == RingCounted /\ CacheInv /\ [CacheNext]_cacheVars => CacheInv'
<1> SUFFICES ASSUME RingCounted, CacheInv, [CacheNext]_cacheVars PROVE CacheInv'
  OBVIOUS
<1>1. CASE Clock
  BY <1>1, ClockKeepsType, ClockKeepsSchedule, ClockKeepsRing DEF CacheInv
<1>2. CASE \E packet \in Workload : PushDataSim(packet)
  BY <1>2, PushKeeps
<1>3. CASE UNCHANGED cacheVars
  BY <1>3 DEF CacheInv, CacheTypeOK, RingInv, ScheduleInv, Cell, cacheVars
<1> QED BY <1>1, <1>2, <1>3 DEF CacheNext

(* Whatever the requests and the sizes: the ring stays within its words,    *)
(* the counters of a bank within their rows, and what a bank holds is a     *)
(* request of the ring (queue.h, bank.h, interface.h).                      *)
THEOREM CacheTypeCorrect == CacheSpec => []CacheTypeOK
<1>1. CacheInit => CacheTypeOK
  BY CacheBegins DEF CacheInv
<1>2. CacheTypeOK /\ [CacheNext]_cacheVars => CacheTypeOK'
  <2>1. CASE UNCHANGED cacheVars
    BY <2>1 DEF CacheTypeOK, cacheVars
  <2> QED BY <2>1, ClockKeepsType, PushKeepsType DEF CacheNext
<1> QED BY <1>1, <1>2, PTL DEF CacheSpec

LEMMA LineIs ==
  ASSUME CacheInv
  PROVE  /\ Line \in Seq(Packet) /\ Len(Line) = curSize
         /\ \A i \in 1 .. curSize : Cell(i) \in Cells /\ Line[i] = queueMem[Cell(i)]
         /\ curSize # 0 => Line # << >> /\ Head(Line) = Front
<1>1. /\ headPos \in Cells /\ curSize \in 0 .. WORD_AMT
      /\ queueMem \in [Cells -> Packet]
  BY DEF CacheInv, CacheTypeOK, RingInv
<1>2. \A i \in 1 .. curSize : Cell(i) \in Cells
  BY <1>1, CacheNumbers DEF Cell, Cells
<1>3. \A i \in 1 .. curSize : Line[i] = queueMem[Cell(i)] /\ Line[i] \in Packet
  BY <1>1, <1>2 DEF Line
<1>4. Line \in [1 .. curSize -> Packet]
  BY <1>3 DEF Line
<1>5. Line \in Seq(Packet) /\ Len(Line) = curSize
  BY <1>1, <1>4
<1>6. ASSUME curSize # 0 PROVE Line # << >> /\ Head(Line) = Front
  <2>1. Cell(1) = headPos
    BY <1>1, CacheNumbers DEF Cell, Cells
  <2>2. Line[1] = Front
    BY <1>1, <1>3, <1>6, <2>1 DEF Front
  <2> QED BY <1>1, <1>5, <1>6, <2>2
<1> QED BY <1>2, <1>3, <1>5, <1>6

LEMMA LineMoves ==
  ASSUME CacheInv, Clock, ReqToDequeue PROVE Line' = Tail(Line)
<1>1. CacheInv'
  BY ClockKeepsType, ClockKeepsSchedule, ClockKeepsRing DEF CacheInv
<1>2. curSize # 0 /\ curSize' = curSize - 1 /\ headPos' = After(headPos) /\ queueMem' = queueMem
  BY DEF ReqToDequeue, ReqResult, ReqToSend, Clock
<1>3. headPos \in Cells /\ curSize \in 0 .. WORD_AMT
  BY DEF CacheInv, CacheTypeOK, RingInv
<1>4. headPos' = IF headPos + 1 < WORD_AMT THEN headPos + 1 ELSE headPos + 1 - WORD_AMT
  BY <1>2, <1>3, AfterIs
<1>5. \A i \in 1 .. curSize' : Cell(i)' = Cell(i + 1)
  BY <1>2, <1>3, <1>4, CacheNumbers DEF Cell, Cells
<1>6. Line \in Seq(Packet) /\ Len(Line) = curSize /\ Line # << >>
  BY <1>2, LineIs
<1>7. Tail(Line) \in Seq(Packet) /\ Len(Tail(Line)) = curSize'
  BY <1>2, <1>3, <1>6
<1>8. Line' \in Seq(Packet) /\ Len(Line') = curSize'
  <2>1. /\ headPos' \in Cells /\ curSize' \in 0 .. WORD_AMT
        /\ queueMem' \in [Cells -> Packet]
    BY <1>1 DEF CacheInv, CacheTypeOK, RingInv
  <2>2. \A i \in 1 .. curSize' : Cell(i)' \in Cells
    BY <1>2, <1>3, <1>5, LineIs
  <2>3. Line' \in [1 .. curSize' -> Packet]
    BY <2>1, <2>2 DEF Line
  <2> QED BY <2>1, <2>3
<1>9. \A i \in 1 .. curSize' : Line'[i] = Tail(Line)[i]
  <2> TAKE i \in 1 .. curSize'
  <2>1. i + 1 \in 1 .. curSize
    BY <1>2, <1>3
  <2>2. Line'[i] = queueMem[Cell(i + 1)]
    BY <1>2, <1>5 DEF Line
  <2>3. Tail(Line)[i] = Line[i + 1]
    BY <1>6, <1>7, <2>1
  <2> QED BY <2>1, <2>2, <2>3, LineIs
<1> QED BY <1>7, <1>8, <1>9

LEMMA LineGrows ==
  ASSUME RingCounted, CacheInv, NEW packet \in Workload, PushDataSim(packet)
  PROVE  Line' = Append(Line, packet)
<1>1. /\ curSize' = curSize + 1 /\ headPos' = headPos
      /\ queueMem' = [queueMem EXCEPT ![lastPos] = packet]
  BY PushCounts DEF CacheInv, PushDataSim
<1>2. /\ headPos \in Cells /\ curSize \in 0 .. WORD_AMT /\ curSize # WORD_AMT
      /\ queueMem \in [Cells -> Packet] /\ lastPos = Cell(curSize + 1) /\ lastPos \in Cells
  BY DEF CacheInv, CacheTypeOK, RingInv, PushDataSim
<1>3. \A i : Cell(i)' = Cell(i)
  BY <1>1 DEF Cell
<1>4. \A i \in 1 .. curSize : Cell(i) # lastPos /\ Cell(i) \in Cells
  BY <1>2, CacheNumbers DEF Cell, Cells
<1>5. Line \in Seq(Packet) /\ Len(Line) = curSize /\ packet \in Packet
  BY LineIs, WorkloadAssumption
<1>6. /\ Append(Line, packet) \in Seq(Packet) /\ Len(Append(Line, packet)) = curSize + 1
      /\ Append(Line, packet)[curSize + 1] = packet
      /\ \A i \in 1 .. curSize : Append(Line, packet)[i] = Line[i]
  BY <1>2, <1>5
<1>7. Line' = [i \in 1 .. curSize + 1 |-> queueMem'[Cell(i)]]
  BY <1>1, <1>3 DEF Line
<1>8. \A i \in 1 .. curSize : Line'[i] = Line[i]
  <2> TAKE i \in 1 .. curSize
  <2>1. i \in 1 .. curSize + 1
    BY <1>2
  <2>2. Line'[i] = queueMem[Cell(i)]
    BY <1>1, <1>2, <1>4, <1>7, <2>1
  <2> QED BY <2>2, LineIs
<1>9. Line'[curSize + 1] = packet
  BY <1>1, <1>2, <1>7
<1>10. \A i \in 1 .. curSize + 1 : Line'[i] = Append(Line, packet)[i]
  BY <1>2, <1>6, <1>8, <1>9
<1>11. Line' \in Seq(Packet) /\ Len(Line') = curSize + 1
  <2>1. \A i \in 1 .. curSize + 1 : Cell(i) \in Cells
    BY <1>2, CacheNumbers DEF Cell, Cells
  <2>2. queueMem' \in [Cells -> Packet]
    BY <1>1, <1>2, <1>5
  <2>3. Line' \in [1 .. curSize + 1 -> Packet]
    BY <1>7, <2>1, <2>2
  <2> QED BY <1>2, <2>3
<1> QED BY <1>6, <1>10, <1>11

LEMMA StoreBegins == CacheInit => Server!StoreInit
<1> SUFFICES ASSUME CacheInit PROVE Server!StoreInit
  OBVIOUS
<1>1. Line = << >>
  BY DEF CacheInit, Line
<1>2. Place = [b \in Banks |-> Server!Nothing]
  BY DEF CacheInit, Place, Server!Nothing
<1>3. Answer = Server!Nothing
  BY DEF CacheInit, Answer, Server!Nothing
<1> QED BY <1>1, <1>2, <1>3 DEF CacheInit, Server!StoreInit

LEMMA BenchAsks ==
  ASSUME RingCounted, CacheInv, NEW packet \in Workload, PushDataSim(packet) PROVE Server!Ask
<1>1. packet \in Server!Request
  BY WorkloadAssumption DEF Packet, Server!Request
<1>2. Line' = Append(Line, packet)
  BY LineGrows
<1>3. Len(Line) < WORD_AMT
  BY LineIs, CacheNumbers DEF PushDataSim, CacheInv, RingInv
<1>4. UNCHANGED <<Place, poolData, Answer>>
  BY DEF PushDataSim, bankVars, Place, Answer
<1> QED BY <1>1, <1>2, <1>3, <1>4 DEF Server!Ask

(* The banks that write, clear a row or are answered in this cycle.         *)
Writing  == {b \in Banks : state[b] = "write"}
Clearing == {b \in Banks : state[b] = "clean"}
Loading  == {b \in Banks : OutSuccess(b)}

LEMMA BankIs ==
  ASSUME CacheInv, NEW b \in Banks
  PROVE  /\ input[b] \in Packet /\ poolData[b] \in [Rows -> Value] /\ cleanCnt[b] \in Rows
         /\ isBusy[b] \in BOOLEAN
         /\ Place[b] = IF isBusy[b] THEN [is |-> "request", request |-> input[b]]
                       ELSE [is |-> "nothing"]
         /\ Server!Occupied(b) <=> isBusy[b]
         /\ isBusy[b] => Server!Mine(b) = input[b]
         /\ b \in Writing => isBusy[b] /\ ~input[b].isLoad
         /\ b \in Loading => isBusy[b] /\ input[b].isLoad
         /\ (b \in Writing \cup Loading) = ReadyToGetNew(b)
<1>1. Place[b] = IF isBusy[b] THEN [is |-> "request", request |-> input[b]]
                 ELSE [is |-> "nothing"]
  BY DEF Place
<1>2. [is |-> "request", request |-> input[b]] # [is |-> "nothing"]
  <2>1. [is |-> "request", request |-> input[b]].is # [is |-> "nothing"].is
    OBVIOUS
  <2> QED BY <2>1
<1>3. Server!Occupied(b) <=> isBusy[b]
  BY <1>1, <1>2 DEF Server!Occupied, Server!Nothing
<1>4. isBusy[b] => Server!Mine(b) = input[b]
  BY <1>1 DEF Server!Mine
<1> QED
  BY <1>1, <1>3, <1>4 DEF CacheInv, CacheTypeOK, ScheduleInv, Writing, Loading, OutSuccess, ReadyToGetNew

LEMMA RowsAre ==
  ASSUME CacheInv, Clock, NEW b \in Banks
  PROVE  /\ b \notin Writing \cup Clearing => poolData'[b] = poolData[b]
         /\ b \in Writing => poolData'[b] = [poolData[b] EXCEPT ![input[b].row] = input[b].value]
         /\ b \in Clearing => poolData'[b] = [poolData[b] EXCEPT ![cleanCnt[b]] = Zero]
  BY DEF Clock, NextRows, Writing, Clearing

LEMMA AnswerIs ==
  ASSUME CacheInv, Clock
  PROVE  /\ \A b \in Loading :
              /\ b = curBankItr
              /\ Answer' = Server!Answers(input[b], poolData[b][input[b].row])
         /\ Loading = {} => Answer' = Server!Nothing
<1>1. ASSUME NEW b \in Loading
      PROVE  b = curBankItr /\ Answer' = Server!Answers(input[b], poolData[b][input[b].row])
  <2>1. b \in Banks /\ OutSuccess(b) /\ b = curBankItr
    BY DEF Loading, OutSuccess
  <2>2. output' = [valid |-> TRUE, bank |-> b, row |-> input[b].row,
                   value |-> poolData[b][input[b].row]]
    BY <2>1 DEF Clock, NextOutput
  <2>3. input[b].bank = b
    BY <2>1, BankIs DEF CacheInv, ScheduleInv, Loading
  <2> QED BY <2>1, <2>2, <2>3 DEF Answer, Server!Answers
<1>2. ASSUME Loading = {} PROVE Answer' = Server!Nothing
  <2>1. output' = [output EXCEPT !.valid = FALSE]
    BY <1>2 DEF Clock, NextOutput, Loading
  <2>2. ~output'.valid
    BY <2>1 DEF CacheInv, CacheTypeOK
  <2> QED BY <2>2 DEF Answer, Server!Nothing
<1> QED BY <1>1, <1>2

LEMMA RequestMoves ==
  ASSUME CacheInv, Clock
  PROVE  /\ Line' = IF ReqToDequeue THEN Tail(Line) ELSE Line
         /\ ReqToDequeue => /\ Line # << >> /\ Head(Line) = Front /\ Front.bank \in Banks
                            /\ ReqResult(Front.bank)
         /\ \A b \in Banks : ReqResult(b) <=> (ReqToDequeue /\ Front.bank = b)
<1>1. ~ReqToDequeue => Line' = Line
  <2> SUFFICES ASSUME ~ReqToDequeue PROVE Line' = Line
    OBVIOUS
  <2>1. headPos' = headPos /\ curSize' = curSize /\ queueMem' = queueMem
    BY DEF Clock
  <2> QED BY <2>1 DEF Line, Cell
<1>2. ReqToDequeue => curSize # 0
  BY DEF ReqToDequeue, ReqResult, ReqToSend
<1>3. Front.bank \in Banks
  BY FrontIs DEF CacheInv
<1>4. \A b \in Banks : ReqResult(b) => Front.bank = b
  BY DEF ReqResult, ReqToSend
<1>5. \A b \in Banks : ReqResult(b) <=> (ReqToDequeue /\ Front.bank = b)
  BY <1>4 DEF ReqToDequeue
<1>6. ReqToDequeue => Line' = Tail(Line)
  BY LineMoves
<1>7. ReqToDequeue => Line # << >> /\ Head(Line) = Front
  BY <1>2, LineIs
<1>8. ReqToDequeue => ReqResult(Front.bank)
  BY <1>3, <1>5
<1> QED BY <1>1, <1>3, <1>5, <1>6, <1>7, <1>8

LEMMA PlaceIs ==
  ASSUME CacheInv, Clock, NEW b \in Banks
  PROVE  Place'[b] = IF ReqToDequeue /\ Head(Line).bank = b THEN Server!Asks(Head(Line))
                     ELSE IF b \in Writing \cup Loading THEN Server!Nothing ELSE Place[b]
<1>1. Place'[b] = IF isBusy'[b] THEN [is |-> "request", request |-> input'[b]]
                  ELSE [is |-> "nothing"]
  BY DEF Place
<1>2. /\ isBusy'[b] = (ReqResult(b) \/ (isBusy[b] /\ ~ReadyToGetNew(b)))
      /\ input'[b] = IF ReqResult(b) THEN Front ELSE input[b]
  BY DEF Clock
<1>3. CASE ReqResult(b)
  BY <1>1, <1>2, <1>3, RequestMoves DEF Server!Asks
<1>4. CASE ~ReqResult(b)
  <2>1. ~(ReqToDequeue /\ Head(Line).bank = b)
    BY <1>4, RequestMoves
  <2> QED BY <1>1, <1>2, <1>4, <2>1, BankIs DEF Server!Nothing
<1> QED BY <1>3, <1>4

LEMMA ClockIsTurn == ASSUME CacheInv, Clock PROVE Server!TurnNext
<1>1. /\ \A b \in Writing : Server!Occupied(b) /\ ~Server!Mine(b).isLoad
      /\ \A b \in Loading : Server!Occupied(b) /\ Server!Mine(b).isLoad
  BY BankIs DEF Writing, Loading
<1>2. /\ \A b \in Loading : Answer' = Server!Answers(Server!Mine(b), poolData[b][Server!Mine(b).row])
      /\ Loading = {} => Answer' = Server!Nothing
  BY AnswerIs, BankIs DEF Loading
<1>3. /\ \A b \in Banks \ (Writing \cup Clearing) : poolData'[b] = poolData[b]
      /\ \A b \in Writing :
           poolData'[b] = [poolData[b] EXCEPT ![Server!Mine(b).row] = Server!Mine(b).value]
  BY RowsAre, BankIs DEF Writing
<1>4. \A b \in Clearing : \E r \in Rows : poolData'[b] = [poolData[b] EXCEPT ![r] = Zero]
  BY RowsAre, BankIs DEF Clearing
<1>5. ReqToDequeue => /\ Line # << >>
                      /\ Server!Occupied(Head(Line).bank) => Head(Line).bank \in Writing \cup Loading
  BY RequestMoves, BankIs DEF ReqResult
<1>6. Line' = IF ReqToDequeue THEN Tail(Line) ELSE Line
  BY RequestMoves
<1>7. Place' = [b \in Banks |-> IF ReqToDequeue /\ Head(Line).bank = b THEN Server!Asks(Head(Line))
                                ELSE IF b \in Writing \cup Loading THEN Server!Nothing ELSE Place[b]]
  <2>1. Place' = [b \in Banks |-> Place'[b]]
    BY DEF Place
  <2> QED BY <2>1, PlaceIs
<1>8. Server!Turn(Writing, Loading, Clearing, ReqToDequeue)
  BY <1>1, <1>2, <1>3, <1>4, <1>5, <1>6, <1>7 DEF Server!Turn
<1>9. Writing \in SUBSET Banks /\ Clearing \in SUBSET (Banks \ Writing)
  BY DEF Writing, Clearing
<1>10. Loading \in {{}} \cup {{b} : b \in Banks \ (Writing \cup Clearing)}
  BY AnswerIs DEF Loading, Writing, Clearing, OutSuccess
<1>11. ReqToDequeue \in BOOLEAN
  BY DEF ReqToDequeue
<1> QED BY <1>8, <1>9, <1>10, <1>11 DEF Server!TurnNext

(* The cache server executes every request once, those of a bank in the     *)
(* order of the ring, and answers a load with what the last write left, for *)
(* every number of banks, rows and words and whenever the banks clear their *)
(* rows (CacheStore): a bank that hands over its request takes the next one *)
(* in the same cycle, and the schedule knows it by then.  The C++ number of *)
(* the size must hold that of the full ring (queue.h:155).                  *)
THEOREM CacheImplementsStore == RingCounted => (CacheSpec => ImplementsStore)
<1>1. SUFFICES ASSUME RingCounted PROVE CacheSpec => ImplementsStore
  OBVIOUS
<1>2. CacheInv /\ [CacheNext]_cacheVars => CacheInv'
  BY <1>1, CacheKeeps
<1>3. CacheInv /\ [CacheNext]_cacheVars => [Server!StoreNext]_Server!storeVars
  <2>1. CASE UNCHANGED cacheVars
    BY <2>1 DEF cacheVars, Server!storeVars, Line, Cell, Place, Answer
  <2> QED BY <1>1, <2>1, BenchAsks, ClockIsTurn DEF CacheNext, Server!StoreNext
<1> QED
  BY <1>2, <1>3, StoreBegins, CacheBegins, PTL DEF CacheSpec, ImplementsStore, Server!StoreSpec
=============================================================================
