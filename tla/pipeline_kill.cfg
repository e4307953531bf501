\* Three stages with kills, restarts and holds of the middle and the last one, in any cycle and any combination.
SPECIFICATION MCSpec
CONSTANTS
  N = 3
  Work <- ThreeStages
  MaxItem = 5
  HoldSlave = {2, 3}
  HoldMaster = {2}
  Refuse = {1, 3}
  KillSlave = {2, 3}
  KillMaster = {2}
  Restart = {2, 3}
  REG = 3
  WORD = 16
  BYTE = 4
  HALF = 8
  AMOUNT = 4
  Shift <- MCShift
  Programs <- MCNoPrograms
  BANK = 2
  ROW = 2
  Value = {0, 1}
  Zero = 0
  WORD_AMT = 2
  LIMIT_TIME = 5
  Workload <- MCWorkload
  Parts = {"stages"}
INVARIANTS InOrder Handshake SignalsObeyed
