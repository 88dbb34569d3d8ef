SPECIFICATION FairSpec
CONSTANTS
  Tiles = {t1}
  Contents = {a, b}
  Blank = blank
  Entries = {e1}
  Colours = {c1}
  NoColour = zero
  ViewOnly = {FALSE}
  MaxPdus = 2
  MaxNotices = 0
  MaxPaints = 1
  Environment = {"minimise", "leave", "clientCloses", "paint", "flood", "type"}
CHECK_DEADLOCK FALSE
INVARIANTS InputOrder
PROPERTIES ScreenConverges LeavingHonoured
