\* A held branch of a par: the par does not wait for it.
SPECIFICATION TSpec
CONSTANTS Programs <- HeldBranch
PROPERTIES LeavesNothing
