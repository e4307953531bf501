\* Programs of branches, loops, loads and stores, and chains of sums that fill the ring; a station and a store buffer with room for them.
CONSTANTS
  REG_NUM = 4
  WORD = 16
  RRF_NUM = 8
  BRANCH_ENT_NUM = 2
  ALU_ENT_NUM = 4
  MUL_ENT_NUM = 8
  LDST_ENT_NUM = 4
  STBUF_ENT_NUM = 4
  Programs <- AllKinds
  Benches <- AloneOrInPairs
SPECIFICATION FairSpec
INVARIANTS OnePlace OperandArrives FixExact SpecOwned TablesRight SameMemory OnlyTheGuilty
PROPERTIES ImplementsISA TagsAndRingLive KeepsCommitting
