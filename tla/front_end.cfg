\* Users who write structures of blocks, users who write conditional assignments, and designs of boxes, interfaces and modules; each menu and sketch has its bound.
SPECIFICATION MCSpec
CONSTANTS
  Menus <- MCMenus
  Sketches <- MCSketches
INVARIANTS BuiltAsWritten AssignsAsWritten LazyContinued WellMade
CHECK_DEADLOCK FALSE
