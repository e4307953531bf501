\* A bench that visits any of the cycles up to the limit beside user events, and long runs ended by callbacks that schedule events and stop.
SPECIFICATION FairSpec
CONSTANTS
  Scenarios <- Within
  RunMax = 3
INVARIANTS UserOnTime NoForeignUnlock
PROPERTIES TakesTurns Joined
