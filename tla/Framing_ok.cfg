SPECIFICATION FairSpec
CONSTANTS
  Lengths = {0, 3}
  MaxRects = 2
  MaxMessages = 2
  Rooms = {2, 5}
  Wrapped = 99
CHECK_DEADLOCK FALSE
INVARIANTS TypeOK Framed MisreadIsLast
PROPERTIES EndHonoured
