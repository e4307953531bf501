\* Every block in every other, every pair in a par, deeper programs, programs that are held, reset and started again; conditions free in every cycle; a clock on every block of a known length.
SPECIFICATION FairSpec
CONSTANTS Programs <- AllPrograms
INVARIANTS OnePlace CyclesExact
PROPERTIES LeavesNothing NoTokenLost Drains ResetEmpties HoldFreezes
