SPECIFICATION FairSpec
CONSTANTS
  Width = 3
  Height = 4
  BitsPerPixel = {8, 16, 32}
  MaxBytes = 24
  PacketInit = 20
  MaxRects = 2
CHECK_DEADLOCK FALSE
INVARIANTS TypeOK RowsInPlace Faithful PduWellFormed
PROPERTIES RoomForRect Finished
