-------------------------------- MODULE Input --------------------------------
(***************************************************************************)
(* The translation of input events (input.c, with the tables of keymaps.c) *)
(* between the keyboard and mouse of the client and what the VNC server    *)
(* holds to be pressed.  One action is one event of an input PDU.  What    *)
(* belongs to v2r_rdp_t begins anew with each session; what is static in   *)
(* v2r_input_process_mouse_event outlives it.                              *)
(***************************************************************************)
EXTENDS Naturals, FiniteSets

CONSTANTS Keys,         \* keys of the client's keyboard, out of KeyNames
          Buttons,      \* buttons of its mouse
          Positions,    \* places of its pointer
          Origin,       \* where the static variables are at first
          MaxEvents,    \* bound: events of a session
          MaxSessions   \* bound

\* Scan codes by what becomes of them: those that are special cases of input.c, and for
\* the others the ways in which the tables of keymaps.c hold symbols for their key codes:
\* letters; keys with a second symbol; the keys of the keypad with one; the key with a
\* third; and keys with one only.  (Keys without a symbol in some table are left out.)
KeyNames == {"lshift", "rshift", "lalt", "ralt", "capslock", "numlock",
             "letter", "digit", "keypad", "less", "other"}
ASSUME KeysAssumption == Keys \subseteq KeyNames
ASSUME ButtonsAssumption == Buttons \subseteq 1..3
ASSUME PositionsAssumption == Origin \notin Positions
ASSUME BoundsAssumption == MaxEvents \in Nat /\ MaxSessions \in Nat

VARIABLES
  lshift, rshift, altgr, capslock, numlock,   \* of v2r_rdp_t
  clicked, pos,           \* button1..3_clicked, x_pos and y_pos
  held, caps, num,        \* the client: keys held, its locks
  buttons, at,            \* its buttons held, its pointer
  down, mask, pointer,    \* the server: key symbols, buttons, pointer
  events, sessions,       \* how much of the bounds is used
  strange, lost, astray, leftover, last, moved   \* what happened, see below

modifiers == <<lshift, rshift, altgr, capslock, numlock>>
keyboard  == <<held, caps, num, down, strange, lost, astray>>
mouse     == <<clicked, pos, buttons, at, mask, pointer, leftover, last, moved>>
vars      == <<modifiers, keyboard, mouse, events, sessions>>

(***************************************************************************)
(* History, from the side of the client:                                   *)
(*   strange   keys that stood for another symbol at a moment while they   *)
(*             were held, or whose release was not reported                *)
(*   lost      keys whose release was not reported, until pressed again    *)
(*   astray    locks of which more key events than changes were reported   *)
(*             since they were last synchronised: any event of an alt key, *)
(*             or the repetition of a lock key held down                   *)
(*   leftover  buttons held at the end of an earlier session and not used  *)
(*             since                                                       *)
(*   last      kind of the last mouse event of the session                 *)
(*   moved     the pointer was moved in this session                       *)
(***************************************************************************)

\* The table v2r_input_process_keyboard_event looks the key up in.
Table(key) ==
  CASE key = "keypad" -> IF numlock THEN "shift" ELSE "noshift"
    [] key # "keypad" /\ (lshift \/ rshift) ->
         IF capslock THEN "shiftcapslock" ELSE "shift"
    [] key # "keypad" /\ ~(lshift \/ rshift) /\ capslock -> "capslock"
    [] OTHER -> IF altgr THEN "altgr" ELSE "noshift"

\* Which of the symbols of a key a table has: the first but for these.
Symbols ==
  [key \in KeyNames |->
     CASE key = "letter" -> [second |-> {"shift", "capslock"}, third |-> {}]
       [] key \in {"digit", "keypad", "numlock", "lalt", "ralt"} ->
            [second |-> {"shift", "shiftcapslock"}, third |-> {}]
       [] key = "less" -> [second |-> {"shift", "shiftcapslock"}, third |-> {"altgr"}]
       [] OTHER -> [second |-> {}, third |-> {}]]

KeySym(key) ==
  LET table == Table(key)
  IN [key |-> key, symbol |-> IF table \in Symbols[key].second THEN 2
                              ELSE IF table \in Symbols[key].third THEN 3 ELSE 1]
KeySyms == [key : Keys, symbol : 1..3]

Init ==
  /\ lshift = FALSE /\ rshift = FALSE /\ altgr = FALSE
  /\ capslock = FALSE /\ numlock = FALSE
  /\ clicked = [b \in Buttons |-> FALSE] /\ pos = Origin
  /\ held = {} /\ caps \in BOOLEAN /\ num \in BOOLEAN
  /\ buttons = {} /\ at \in Positions
  /\ down = {} /\ mask = {} /\ pointer = Origin /\ events = 0 /\ sessions = 1
  /\ strange = {} /\ lost = {} /\ astray = {"capslock", "numlock"}
  /\ leftover = {} /\ last = "none" /\ moved = FALSE

Event == events < MaxEvents /\ events' = events + 1 /\ UNCHANGED sessions

(***************************************************************************)
(* Keyboard.                                                               *)
(***************************************************************************)
\* Mutant: one flag for both shift keys.
SetModifiersOneShift(key, d) ==
  /\ lshift' = IF key \in {"lshift", "rshift"} THEN d ELSE lshift
  /\ rshift' = rshift
  /\ altgr' = IF key \in {"lalt", "ralt"} THEN d ELSE altgr
  /\ capslock' = IF d /\ key \in {"lalt", "ralt", "capslock"} THEN ~capslock ELSE capslock
  /\ numlock' = IF d /\ key = "numlock" THEN ~numlock ELSE numlock

\* The switch over the scan code.  Both alt keys have the same one, and their case
\* falls through into that of caps lock.
SetModifiers(key, d) ==
  /\ lshift' = IF key = "lshift" THEN d ELSE lshift
  /\ rshift' = IF key = "rshift" THEN d ELSE rshift
  /\ altgr' = IF key \in {"lalt", "ralt"} THEN d ELSE altgr
  /\ capslock' = IF d /\ key \in {"lalt", "ralt", "capslock"} THEN ~capslock ELSE capslock
  /\ numlock' = IF d /\ key = "numlock" THEN ~numlock ELSE numlock

\* Keys that stand for another symbol after the step.
Shifted == {k \in Keys : KeySym(k)' # KeySym(k)}

\* Mutant: a key is taken to go down when KBDFLAGS_DOWN is set, which says that it was
\* down already before the event.
KeyboardEventFlagDown(key, d) ==
  LET down_flag == key \in held
  IN /\ SetModifiers(key, down_flag)
     /\ down' = IF down_flag THEN down \cup {KeySym(key)'} ELSE down \ {KeySym(key)'}

\* The symbol is looked up with the modifiers as the event leaves them.
v2r_input_process_keyboard_event(key, d) ==
  /\ SetModifiers(key, d)
  /\ down' = IF d THEN down \cup {KeySym(key)'} ELSE down \ {KeySym(key)'}

\* The client presses a key, and it is reported again while it is held.
Strays(key, repeated) ==
  (IF key \in {"lalt", "ralt"} \/ (key = "capslock" /\ repeated) THEN {"capslock"} ELSE {})
  \cup (IF key = "numlock" /\ repeated THEN {"numlock"} ELSE {})

Press(key) ==
  LET repeated == key \in held
  IN /\ Event /\ v2r_input_process_keyboard_event(key, TRUE)
     /\ held' = held \cup {key}
     /\ caps' = IF key = "capslock" /\ ~repeated THEN ~caps ELSE caps
     /\ num'  = IF key = "numlock" /\ ~repeated THEN ~num ELSE num
     /\ lost' = lost \ {key}
     /\ strange' = strange \cup (held \cap Shifted)
     /\ astray' = astray \cup Strays(key, repeated)
     /\ UNCHANGED mouse

Release(key) ==
  /\ Event /\ key \in held /\ v2r_input_process_keyboard_event(key, FALSE)
  /\ held' = held \ {key}
  /\ strange' = strange \cup (held \cap Shifted)
  /\ UNCHANGED <<caps, num, lost, astray, mouse>>

v2r_input_process_sync_event(c, n) ==
  /\ capslock' = c /\ numlock' = n
  /\ UNCHANGED <<lshift, rshift, altgr, down>>

\* The client's window loses the focus: keys are released and locks changed without
\* its knowing; when it has the focus again, it reports the locks.
FocusReturns ==
  /\ Event
  /\ held' = {} /\ caps' \in BOOLEAN /\ num' \in BOOLEAN
  /\ v2r_input_process_sync_event(caps', num')
  /\ strange' = strange \cup held /\ lost' = lost \cup held /\ astray' = {}
  /\ UNCHANGED mouse

(***************************************************************************)
(* Mouse.                                                                  *)
(***************************************************************************)
\* What an event says: whether it moves the pointer and where to, whether it is a
\* turn of the wheel, and which button (0: none) it presses or releases.
Still(p) == [move |-> FALSE, to |-> p, wheel |-> FALSE, button |-> 0, down |-> FALSE]

\* Mutant: the second pointer event of a turn of the wheel, which is button 4, is missing.
MouseEventWheelStays(f) ==
  /\ pos' = IF f.move THEN f.to ELSE pos
  /\ clicked' = IF f.wheel \/ f.button = 0 THEN clicked
                ELSE [clicked EXCEPT ![f.button] = f.down]
  /\ mask' = IF f.wheel THEN {4} ELSE {b \in Buttons : clicked'[b]}
  /\ pointer' = pos'

\* Mutant: the mask has only the button of the event.
MouseEventAlone(f) ==
  /\ pos' = IF f.move THEN f.to ELSE pos
  /\ clicked' = IF f.wheel \/ f.button = 0 THEN clicked
                ELSE [clicked EXCEPT ![f.button] = f.down]
  /\ mask' = IF f.down THEN {f.button} ELSE {}
  /\ pointer' = pos'

\* Mutant: the position sent is the one of before the event.
MouseEventLate(f) ==
  /\ pos' = IF f.move THEN f.to ELSE pos
  /\ clicked' = IF f.wheel \/ f.button = 0 THEN clicked
                ELSE [clicked EXCEPT ![f.button] = f.down]
  /\ mask' = IF f.wheel THEN {} ELSE {b \in Buttons : clicked'[b]}
  /\ pointer' = pos

\* A position that does not come with a move is skipped.  A turn of the wheel is two
\* pointer events, the second without any button.
v2r_input_process_mouse_event(f) ==
  /\ pos' = IF f.move THEN f.to ELSE pos
  /\ clicked' = IF f.wheel \/ f.button = 0 THEN clicked
                ELSE [clicked EXCEPT ![f.button] = f.down]
  /\ mask' = IF f.wheel THEN {} ELSE {b \in Buttons : clicked'[b]}
  /\ pointer' = pos'

Click(b) ==
  LET d == b \notin buttons
  IN /\ Event
     /\ v2r_input_process_mouse_event([Still(at) EXCEPT !.button = b, !.down = d])
     /\ buttons' = IF d THEN buttons \cup {b} ELSE buttons \ {b}
     /\ leftover' = leftover \ {b} /\ last' = "click"
     /\ UNCHANGED <<modifiers, keyboard, at, moved>>

Move(p) ==
  /\ Event /\ v2r_input_process_mouse_event([Still(p) EXCEPT !.move = TRUE])
  /\ at' = p /\ moved' = TRUE /\ last' = "move"
  /\ UNCHANGED <<modifiers, keyboard, buttons, leftover>>

Wheel ==
  /\ Event /\ v2r_input_process_mouse_event([Still(at) EXCEPT !.wheel = TRUE])
  /\ last' = "wheel"
  /\ UNCHANGED <<modifiers, keyboard, buttons, at, leftover, moved>>

(***************************************************************************)
(* The session ends, and another begins: v2r_rdp_init.                     *)
(***************************************************************************)
NextSession ==
  /\ sessions < MaxSessions /\ sessions' = sessions + 1
  /\ lshift' = FALSE /\ rshift' = FALSE /\ altgr' = FALSE
  /\ capslock' = FALSE /\ numlock' = FALSE
  /\ held' = {} /\ caps' \in BOOLEAN /\ num' \in BOOLEAN
  /\ buttons' = {} /\ at' \in Positions
  /\ down' = {} /\ mask' = {} /\ pointer' = Origin /\ events' = 0
  /\ strange' = {} /\ lost' = {} /\ astray' = {"capslock", "numlock"}
  /\ last' = "none" /\ moved' = FALSE
  /\ leftover' = leftover \cup buttons
  /\ UNCHANGED <<clicked, pos>>

Next ==
  \/ \E k \in Keys : Press(k) \/ Release(k)
  \/ FocusReturns
  \/ \E b \in Buttons : Click(b)
  \/ \E p \in Positions : Move(p)
  \/ Wheel
  \/ NextSession

Spec == Init /\ [][Next]_vars

(***************************************************************************)
(* Properties.                                                             *)
(***************************************************************************)
\* Every variable has its type.
TypeOK ==
  /\ lshift \in BOOLEAN /\ rshift \in BOOLEAN /\ altgr \in BOOLEAN
  /\ capslock \in BOOLEAN /\ numlock \in BOOLEAN
  /\ clicked \in [Buttons -> BOOLEAN] /\ pos \in Positions \cup {Origin}
  /\ held \subseteq Keys /\ caps \in BOOLEAN /\ num \in BOOLEAN
  /\ buttons \subseteq Buttons /\ at \in Positions
  /\ down \subseteq KeySyms /\ mask \subseteq Buttons
  /\ pointer \in Positions \cup {Origin}
  /\ events \in 0..MaxEvents /\ sessions \in Nat
  /\ strange \subseteq Keys /\ lost \subseteq Keys
  /\ astray \subseteq {"capslock", "numlock"}
  /\ leftover \subseteq Buttons
  /\ last \in {"none", "click", "move", "wheel"} /\ moved \in BOOLEAN

\* The server holds down what the client does, symbol by symbol: a key whose symbol
\* stayed the same while it was held is released when the client releases it, and no
\* other key ever is.  (A key whose modifiers change while it is held is released as
\* another symbol than it was pressed as, input.c:106.)
KeysAgree ==
  /\ \A s \in down : s.key \in held \cup strange
  /\ \A k \in held \ strange : KeySym(k) \in down

Shift == held \cap {"lshift", "rshift"} # {}

\* A key means to the server what the user sees on the keyboard: capitals follow
\* both shift keys and the caps lock of the client, whichever order they are pressed
\* and released in, unless the release of a shift key was not reported, or the
\* locks have gone astray since they were last synchronised.
MeansWhatItShows ==
  /\ lost \cap {"lshift", "rshift"} = {} =>
       (KeySym("digit").symbol = 2) = Shift
       /\ ("capslock" \notin astray => (KeySym("letter").symbol = 2) = (Shift # caps))
  /\ "numlock" \notin astray => (KeySym("keypad").symbol = 2) = num

\* The server believes a button held only if the client holds it, or held it when an
\* earlier session ended; and all of those, unless the last event was a turn of the
\* wheel, whose second pointer event releases them all (input.c:142).
ButtonsAgree ==
  /\ mask \subseteq buttons \cup leftover
  /\ last \in {"click", "move"} => mask = buttons \cup leftover

\* Buttons act where the client's pointer is, as soon as it was moved in the session:
\* before that they act where the pointer of the session before it was.
PointerAgrees == moved => pointer = at
=============================================================================
