\* Four stages with holds and refusals, which do not last for ever, and no kills; programs of the five stage core; a cache of two banks.
SPECIFICATION MCFair
CONSTANTS
  N = 4
  Work <- FourStages
  MaxItem = 9
  HoldSlave = {2, 4}
  HoldMaster = {1, 3}
  Refuse = {1, 2, 4}
  KillSlave = {}
  KillMaster = {}
  Restart = {}
  REG = 3
  WORD = 16
  BYTE = 4
  HALF = 8
  AMOUNT = 4
  Shift <- MCShift
  Programs <- MCPrograms
  BANK = 2
  ROW = 2
  Value = {0, 1}
  Zero = 0
  WORD_AMT = 2
  LIMIT_TIME = 5
  Workload <- MCWorkload
  Parts = {"stages", "core", "cache"}
PROPERTIES ImplementsChannel Progress ImplementsHart ImplementsStore
