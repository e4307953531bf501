------------------------------- MODULE Cache -------------------------------
(***************************************************************************)
(* The cache server of example/cacheAc, made of the single hand shake of   *)
(* the library (model/interface/singleHandShake) and a ring in a memory    *)
(* (example/dataStruct/queue).  The ingress offers the first request of the*)
(* ring to the bank its key belongs to; the input interface of a bank takes*)
(* one when the bank has none or is just done with it; the bank executes   *)
(* it, unless its timer has run out when it chooses what to do: then it    *)
(* clears its rows first.  The answer of a load waits for the outgress,    *)
(* which looks at one bank in every cycle.                                 *)
(*                                                                         *)
(* One step is one clock cycle after the start node, or a request that the *)
(* bench puts into the ring between two cycles.  A key is the bank of its  *)
(* prefix and the row of the rest; the fields of a value are one value.    *)
(* The outgress counts on before the start and through a reset: the cycle  *)
(* of the start decides where it is.                                       *)
(* The timers of the banks start together and count alike: there is one    *)
(* here.  The valid bit of a row is only read for debugging.               *)
(***************************************************************************)
EXTENDS Integers

CONSTANTS
  BANK,        (* banks, 2 to the power prefixBit                           *)
  ROW,         (* rows of a bank                                            *)
  Value,       (* what a row may hold                                       *)
  Zero,        (* DUMMY_RESET_VALUE                                         *)
  WORD_AMT,    (* words of the ring                                         *)
  LIMIT_TIME,  (* the timer that starts a maintenance                       *)
  Workload     (* the requests the bench makes                              *)

ASSUME CacheAssumption ==
  /\ BANK \in Nat \ {0} /\ ROW \in Nat \ {0}
  /\ WORD_AMT \in Nat \ {0} /\ LIMIT_TIME \in Nat
  /\ Zero \in Value

Banks == 0 .. (BANK - 1)
Rows  == 0 .. (ROW - 1)
Cells == 0 .. (WORD_AMT - 1)

(* curSize is a register of log2Ceil(WORD_AMT) bits, in the simulation a C++ *)
(* number of 8, 16 or 32 bits.  The bench counts in this number, and where   *)
(* the whole register is compared it is this number that is compared.        *)
Container ==
  IF WORD_AMT <= 256 THEN 256 ELSE IF WORD_AMT <= 65536 THEN 65536 ELSE 65536 * 65536

Packet == [isLoad : BOOLEAN, bank : Banks, row : Rows, value : Value]

ASSUME WorkloadAssumption == Workload \subseteq Packet

VARIABLES
  queueMem, headPos, lastPos, curSize,  (* Queue                            *)
  isBusy, input,     (* BankInputInterface of each bank                     *)
  state,             (* where the schedule of each bank is                  *)
  timerCnt, cleanCnt, poolData,
  curBankItr, output (* SimpleOutgress                                      *)

ringVars  == <<queueMem, headPos, lastPos, curSize>>
bankVars  == <<isBusy, input, state, timerCnt, cleanCnt, poolData>>
cacheVars == <<queueMem, headPos, lastPos, curSize, isBusy, input, state, timerCnt, cleanCnt,
               poolData, curBankItr, output>>

-----------------------------------------------------------------------------
(* The wires, as they settle.                                               *)

Front == queueMem[headPos]

(* Outgress: the bank whose turn it is and that has an answer.              *)
OutSuccess(b) == state[b] = "load" /\ curBankItr = b

(* declareReadyToRcv, by a write and by a load that is answered.            *)
ReadyToGetNew(b) == state[b] = "write" \/ OutSuccess(b)

ReqToSend(b) == curSize # 0 /\ Front.bank = b
ReqResult(b) == (~isBusy[b] \/ ReadyToGetNew(b)) /\ ReqToSend(b)
ReqToDequeue == \E b \in Banks : ReqResult(b)

IsNextCycleBusy(b) == (isBusy[b] /\ ~ReadyToGetNew(b)) \/ ReqResult(b)

(* Mutant: the register is asked, which still has the request before. *)
NextIsLoadLate(b) == input[b].isLoad

(* "we need to make sure that decision is correct for next cycle"           *)
NextIsLoad(b) ==
  (ReqResult(b) /\ Front.isLoad) \/ (~ReqResult(b) /\ isBusy[b] /\ input[b].isLoad)

(* doSchedule, when the round before is over.                               *)
Choice(b) ==
  IF timerCnt = LIMIT_TIME THEN "first"
  ELSE IF IsNextCycleBusy(b) THEN IF NextIsLoad(b) THEN "load" ELSE "write"
  ELSE "wait"

RoundOver(b) ==
  \/ state[b] \in {"wait", "write"}
  \/ OutSuccess(b)
  \/ state[b] = "clean" /\ cleanCnt[b] = ROW - 1

-----------------------------------------------------------------------------
(* The registers load.                                                      *)

NextState(b) ==
  IF RoundOver(b) THEN Choice(b) ELSE IF state[b] = "first" THEN "clean" ELSE state[b]

(* The one write port of a bank's memory.                                   *)
NextRows(b) ==
  CASE state[b] = "write" -> [poolData[b] EXCEPT ![input[b].row] = input[b].value]
    [] state[b] = "clean" -> [poolData[b] EXCEPT ![cleanCnt[b]] = Zero]
    [] OTHER              -> poolData[b]

NextClean(b) ==
  CASE state[b] = "first" -> 0
    [] state[b] = "clean" -> (cleanCnt[b] + 1) % ROW
    [] OTHER              -> cleanCnt[b]

After(pos) == IF pos = WORD_AMT - 1 THEN 0 ELSE pos + 1
NextHead == IF ReqToDequeue THEN After(headPos) ELSE headPos
NextSize == IF ReqToDequeue THEN curSize - 1 ELSE curSize

NextBusy(b)  == ReqResult(b) \/ (isBusy[b] /\ ~ReadyToGetNew(b))
NextInput(b) == IF ReqResult(b) THEN Front ELSE input[b]

NextTimer == IF timerCnt = LIMIT_TIME THEN 0 ELSE timerCnt + 1

(* The one read port of a bank's memory.                                    *)
ReadValue(b) == poolData[b][input[b].row]

NextOutput ==
  IF \E b \in Banks : OutSuccess(b)
  THEN [valid |-> TRUE, bank |-> curBankItr, row |-> input[curBankItr].row,
        value |-> ReadValue(curBankItr)]
  ELSE [output EXCEPT !.valid = FALSE]

Clock ==
  /\ headPos' = NextHead /\ curSize' = NextSize
  /\ isBusy'     = [b \in Banks |-> NextBusy(b)]
  /\ input'      = [b \in Banks |-> NextInput(b)]
  /\ state'      = [b \in Banks |-> NextState(b)]
  /\ timerCnt'   = NextTimer
  /\ cleanCnt'   = [b \in Banks |-> NextClean(b)]
  /\ poolData'   = [b \in Banks |-> NextRows(b)]
  /\ curBankItr' = (curBankItr + 1) % BANK
  /\ output'     = NextOutput
  /\ UNCHANGED <<queueMem, lastPos>>

(* The bench; it asserts that there is room.                                *)
PushDataSim(packet) ==
  /\ curSize # WORD_AMT
  /\ queueMem' = [queueMem EXCEPT ![lastPos] = packet]
  /\ curSize'  = (curSize + 1) % Container
  /\ lastPos'  = After(lastPos)
  /\ UNCHANGED <<headPos, bankVars, curBankItr, output>>

CacheInit ==
  LET none == [isLoad |-> FALSE, bank |-> 0, row |-> 0, value |-> Zero] IN
  /\ queueMem = [w \in Cells |-> none] /\ headPos = 0 /\ lastPos = 0 /\ curSize = 0
  /\ isBusy = [b \in Banks |-> FALSE] /\ input = [b \in Banks |-> none]
  /\ state = [b \in Banks |-> "wait"]
  /\ timerCnt = 0 /\ cleanCnt = [b \in Banks |-> 0]
  /\ poolData = [b \in Banks |-> [r \in Rows |-> Zero]]
  /\ curBankItr \in Banks
  /\ output = [valid |-> FALSE, bank |-> 0, row |-> 0, value |-> Zero]

CacheNext == Clock \/ \E packet \in Workload : PushDataSim(packet)

CacheSpec == CacheInit /\ [][CacheNext]_cacheVars

(* The clock goes on.                                                       *)
CacheFair == CacheSpec /\ WF_cacheVars(Clock)

-----------------------------------------------------------------------------
(* Properties.                                                              *)

(* Every register holds a value of its kind.                                *)
CacheTypeOK ==
  /\ queueMem \in [Cells -> Packet]
  /\ headPos \in Cells /\ lastPos \in Cells /\ curSize \in 0 .. (Container - 1)
  /\ isBusy \in [Banks -> BOOLEAN] /\ input \in [Banks -> Packet]
  /\ state \in [Banks -> {"wait", "load", "write", "first", "clean"}]
  /\ timerCnt \in 0 .. LIMIT_TIME /\ cleanCnt \in [Banks -> Rows]
  /\ poolData \in [Banks -> [Rows -> Value]]
  /\ curBankItr \in Banks
  /\ output \in [valid : BOOLEAN, bank : Banks, row : Rows, value : Value]

(* The i-th request of the ring.                                            *)
Cell(i) == IF headPos + i - 1 < WORD_AMT THEN headPos + i - 1 ELSE headPos + i - 1 - WORD_AMT
Line    == [i \in 1 .. curSize |-> queueMem[Cell(i)]]

Place   == [b \in Banks |-> IF isBusy[b] THEN [is |-> "request", request |-> input[b]]
                           ELSE [is |-> "nothing"]]
Answer  == IF output.valid
           THEN [is |-> "answer", bank |-> output.bank, row |-> output.row,
                 value |-> output.value]
           ELSE [is |-> "nothing"]

Server == INSTANCE CacheStore WITH
  Cleared <- Zero, Capacity <- WORD_AMT,
  line <- Line, place <- Place, store <- poolData, answer <- Answer

(* The number can hold the size of the full ring; with 256 or 65536 words it *)
(* cannot, and the full ring looks empty.                                    *)
RingCounted == WORD_AMT < Container

(* Every request is executed once, those of a bank in the order in which    *)
(* they were put into the ring, and a load is answered with what the last   *)
(* write to its key left, whatever waits, clears its rows or is handed on   *)
(* in the same cycle.                                                       *)
ImplementsStore == Server!StoreSpec

(* A full ring gets room again: no bank waits for ever, neither for the     *)
(* outgress nor for its own maintenance.                                    *)
KeepsServing == [](curSize = WORD_AMT => <>(curSize # WORD_AMT))
=============================================================================
