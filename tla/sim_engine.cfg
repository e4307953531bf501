CONSTANTS
  Designs <- MCDesigns
  Graphs <- MCGraphs
  Blocks <- MCBlocks
  Traced <- MCTraced
  Parent <- MCParent
  Home <- MCHome
  GlobOutputs <- MCGlobOutputs
  LongLimit = 3
  MaxCycle = 3
SPECIFICATION Spec
INVARIANTS SortsOrAborts CollectedSettled PerfExact VerilogAgrees
PROPERTIES SimulatesHardware
CHECK_DEADLOCK FALSE
