\* A register of exactly one word.
SPECIFICATION Spec
CONSTANTS
  WordBits = 3
  Natives = {2, 3}
  Sizes = {3}
  SliceFrom = {2}
INVARIANTS Exact
