SPECIFICATION Spec
CONSTANTS
  Tiles = {t1}
  Contents = {a}
  Blank = blank
  Entries = {e1, e2}
  Colours = {c1}
  NoColour = zero
  ViewOnly = {TRUE, FALSE}
  MaxPdus = 1
  MaxNotices = 2
  MaxPaints = 0
  Environment = {"minimise", "type", "leave", "clientCloses", "notify", "serverCloses",
                 "interrupt"}
SYMMETRY Symmetric
CHECK_DEADLOCK FALSE
INVARIANTS TypeOK QuiescentSync
PROPERTIES EndsForAReason Implements
