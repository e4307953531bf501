\* Words of three bits: registers in native types they do not fill or fill below the word, and in two words; and
\* programs of two to four calls of the library, which stop when they have made them.
SPECIFICATION MCSpec
CONSTANTS
  WordBits = 3
  Natives = {2, 3}
  Sizes = {1, 2, 4, 5, 6}
  SliceFrom = {2, 5}
  Stocks <- MCStocks
  Designs = {}
  InstrSets <- MCInstrSets
INVARIANTS Exact MeansWhatIsWritten DecodesAsWritten
CHECK_DEADLOCK FALSE
