SPECIFICATION FairSpec
CONSTANTS
  Width = 3
  Height = 2
  BitsPerPixel = {32}
  MaxBytes = 8
  PacketInit = 20
  MaxRects = 1
CHECK_DEADLOCK FALSE
PROPERTIES Finished
