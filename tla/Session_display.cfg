SPECIFICATION Spec
CONSTANTS
  Tiles = {t1, t2}
  Contents = {a, b}
  Blank = blank
  Entries = {e1}
  Colours = {c1}
  NoColour = zero
  ViewOnly = {FALSE}
  MaxPdus = 3
  MaxNotices = 0
  MaxPaints = 2
  Environment = {"minimise", "paint", "copy"}
SYMMETRY Symmetric
CHECK_DEADLOCK FALSE
INVARIANTS InStep RequestAlive QuiescentSync
PROPERTIES SuppressDrains Implements
