SPECIFICATION Spec
CONSTANTS
  Keys = {"lshift", "rshift", "lalt", "capslock", "numlock", "letter", "less", "keypad"}
  Buttons = {1, 2}
  Positions = {p1, p2}
  Origin = origin
  MaxEvents = 5
  MaxSessions = 2
CHECK_DEADLOCK FALSE
INVARIANTS TypeOK KeysAgree MeansWhatItShows ButtonsAgree PointerAgrees
