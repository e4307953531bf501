\* The bench asks for a cycle beyond the limit.
SPECIFICATION FairSpec
CONSTANTS
  Scenarios <- Beyond
  RunMax = 3
PROPERTIES Joined
CHECK_DEADLOCK FALSE
