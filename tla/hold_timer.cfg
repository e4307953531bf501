\* A syWait held in its last cycle never ends.
SPECIFICATION TSpec
CONSTANTS Programs <- HeldTimer
PROPERTIES HoldFreezes
