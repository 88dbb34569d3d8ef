----------------------------- MODULE InputProof -----------------------------
(***************************************************************************)
(* Proofs about Input: keys, buttons and pointer agree, keys mean what     *)
(* they show, and the types, for any keyboard, mouse, number of events and *)
(* number of sessions.                                                     *)
(***************************************************************************)
EXTENDS Input, TLAPS

(***************************************************************************)
(* Keys.  What is down of a key that was never strange is the one symbol   *)
(* it has now, which KeysAgree does not say: without it, the release of    *)
(* such a key could leave another symbol down.                             *)
(***************************************************************************)
KeysInv ==
  /\ \A s \in down : s.key \in strange \/ (s.key \in held /\ s = KeySym(s.key))
  /\ \A k \in held \ strange : KeySym(k) \in down
  /\ held \subseteq Keys

\* A symbol names its key, before an event and after it.
LEMMA SymbolOfKey == \A k : KeySym(k).key = k /\ (KeySym(k)').key = k
  BY DEF KeySym

\* Symbols do not change while the modifiers stay.
LEMMA SymbolsStay == UNCHANGED modifiers => \A k : KeySym(k)' = KeySym(k)
  BY DEF KeySym, Table, modifiers

\* A key that is pressed is down as the symbol it has then; keys held that have another
\* symbol now become strange.
LEMMA PressKeeps == ASSUME KeysInv, NEW key \in Keys, Press(key) PROVE KeysInv'
<1>1. /\ down' = down \cup {KeySym(key)'} /\ held' = held \cup {key}
      /\ strange' = strange \cup (held \cap Shifted)
  BY DEF Press, v2r_input_process_keyboard_event
<1>2. \A k \in held \ strange' : KeySym(k)' = KeySym(k)
  BY <1>1 DEF Shifted, KeysInv
<1>3. \A s \in down' : s.key \in strange' \/ (s.key \in held' /\ s = KeySym(s.key)')
  <2> SUFFICES ASSUME NEW s \in down', s.key \notin strange'
               PROVE  s.key \in held' /\ s = KeySym(s.key)'
    OBVIOUS
  <2>1. CASE s = KeySym(key)'
    BY <2>1, <1>1, SymbolOfKey
  <2>2. CASE s \in down
    <3>1. s.key \in held \ strange' /\ s = KeySym(s.key)
      BY <2>2, <1>1 DEF KeysInv
    <3> QED BY <3>1, <1>1, <1>2
  <2> QED BY <2>1, <2>2, <1>1
<1>4. \A k \in held' \ strange' : KeySym(k)' \in down'
  BY <1>1, <1>2 DEF KeysInv
<1>5. held' \subseteq Keys
  BY <1>1 DEF KeysInv
<1> QED BY <1>3, <1>4, <1>5 DEF KeysInv

\* A key that was never strange goes up as the symbol it went down as.
LEMMA ReleaseKeeps == ASSUME KeysInv, NEW key \in Keys, Release(key) PROVE KeysInv'
<1>1. /\ down' = down \ {KeySym(key)'} /\ held' = held \ {key} /\ key \in held
      /\ strange' = strange \cup (held \cap Shifted)
  BY DEF Release, v2r_input_process_keyboard_event
<1>2. \A k \in held \ strange' : KeySym(k)' = KeySym(k)
  BY <1>1 DEF Shifted, KeysInv
<1>3. \A s \in down' : s.key \in strange' \/ (s.key \in held' /\ s = KeySym(s.key)')
  <2> SUFFICES ASSUME NEW s \in down', s.key \notin strange'
               PROVE  s.key \in held' /\ s = KeySym(s.key)'
    OBVIOUS
  <2>1. s.key \in held \ strange' /\ s = KeySym(s.key)
    BY <1>1 DEF KeysInv
  <2>2. s = KeySym(s.key)'
    BY <2>1, <1>2
  <2>3. s.key # key
    BY <2>2, <1>1
  <2> QED BY <2>1, <2>2, <2>3, <1>1
<1>4. \A k \in held' \ strange' : KeySym(k)' \in down'
  <2> SUFFICES ASSUME NEW k \in held' \ strange' PROVE KeySym(k)' \in down'
    OBVIOUS
  <2>1. k \in held \ strange' /\ k # key /\ k \notin strange
    BY <1>1
  <2>2. KeySym(k)' \in down
    BY <2>1, <1>2 DEF KeysInv
  <2>3. KeySym(k)' # KeySym(key)'
    BY <2>1, SymbolOfKey
  <2> QED BY <2>2, <2>3, <1>1
<1>5. held' \subseteq Keys
  BY <1>1 DEF KeysInv
<1> QED BY <1>3, <1>4, <1>5 DEF KeysInv

\* What was held when the focus went is strange from then on.
LEMMA FocusKeeps == ASSUME KeysInv, FocusReturns PROVE KeysInv'
<1>1. held' = {} /\ strange' = strange \cup held /\ down' = down
  BY DEF FocusReturns, v2r_input_process_sync_event
<1> QED BY <1>1 DEF KeysInv

\* Steps that leave the keyboard alone.
LEMMA KeyboardStays ==
  ASSUME KeysInv, UNCHANGED <<modifiers, keyboard>> PROVE KeysInv'
<1>1. /\ down' = down /\ held' = held /\ strange' = strange
      /\ \A k : KeySym(k)' = KeySym(k)
  BY SymbolsStay DEF keyboard
<1> QED BY <1>1 DEF KeysInv

\* Every step keeps it.
LEMMA KeysInvInductive == KeysInv /\ [Next]_vars => KeysInv'
<1> SUFFICES ASSUME KeysInv, [Next]_vars PROVE KeysInv'
  OBVIOUS
<1>1. ASSUME NEW k \in Keys, Press(k) PROVE KeysInv'
  BY <1>1, PressKeeps
<1>2. ASSUME NEW k \in Keys, Release(k) PROVE KeysInv'
  BY <1>2, ReleaseKeeps
<1>3. CASE FocusReturns
  BY <1>3, FocusKeeps
<1>4. ASSUME NEW b \in Buttons, Click(b) PROVE KeysInv'
  BY <1>4, KeyboardStays DEF Click
<1>5. ASSUME NEW p \in Positions, Move(p) PROVE KeysInv'
  BY <1>5, KeyboardStays DEF Move
<1>6. CASE Wheel
  BY <1>6, KeyboardStays DEF Wheel
<1>7. CASE NextSession
  BY <1>7 DEF NextSession, KeysInv
<1>8. CASE UNCHANGED vars
  BY <1>8, KeyboardStays DEF vars
<1> QED BY <1>1, <1>2, <1>3, <1>4, <1>5, <1>6, <1>7, <1>8 DEF Next

\* For any keyboard the server holds down what the client does, but for keys whose
\* symbol changed while they were held or whose release was not reported.
THEOREM KeysAlwaysAgree == Spec => []KeysAgree
<1>1. Init => KeysInv
  BY DEF Init, KeysInv
<1>2. KeysInv => KeysAgree
  BY DEF KeysInv, KeysAgree
<1> QED BY <1>1, <1>2, KeysInvInductive, PTL DEF Spec

(***************************************************************************)
(* Mouse.  The static variables are the buttons held and those left over.  *)
(***************************************************************************)
MouseInv ==
  /\ clicked \in [Buttons -> BOOLEAN] /\ buttons \subseteq Buttons
  /\ leftover \subseteq Buttons /\ 0 \notin Buttons
  /\ \A b \in Buttons : clicked[b] <=> b \in buttons \cup leftover
  /\ mask \subseteq buttons \cup leftover
  /\ last \in {"click", "move"} => mask = buttons \cup leftover
  /\ moved => pointer = at /\ pos = at

\* A press or release changes its own button, in the proxy as at the client.
LEMMA ClickKeeps == ASSUME MouseInv, NEW b \in Buttons, Click(b) PROVE MouseInv'
<1> DEFINE d == b \notin buttons
<1>1. /\ clicked' = [clicked EXCEPT ![b] = d] /\ pos' = pos /\ pointer' = pos'
      /\ mask' = {c \in Buttons : clicked'[c]}
      /\ buttons' = (IF d THEN buttons \cup {b} ELSE buttons \ {b})
      /\ leftover' = leftover \ {b} /\ last' = "click" /\ at' = at /\ moved' = moved
  BY DEF Click, Still, v2r_input_process_mouse_event, MouseInv
<1>2. clicked' \in [Buttons -> BOOLEAN] /\ buttons' \subseteq Buttons
      /\ leftover' \subseteq Buttons
  BY <1>1 DEF MouseInv
<1>3. \A c \in Buttons : clicked'[c] <=> c \in buttons' \cup leftover'
  <2> SUFFICES ASSUME NEW c \in Buttons
               PROVE clicked'[c] <=> c \in buttons' \cup leftover'
    OBVIOUS
  <2>1. CASE c = b
    BY <2>1, <1>1 DEF MouseInv
  <2>2. CASE c # b
    BY <2>2, <1>1 DEF MouseInv
  <2> QED BY <2>1, <2>2
<1>4. mask' = buttons' \cup leftover'
  BY <1>1, <1>2, <1>3
<1> QED BY <1>1, <1>2, <1>3, <1>4 DEF MouseInv

\* The pointer is moved.
LEMMA MoveKeeps == ASSUME MouseInv, NEW p \in Positions, Move(p) PROVE MouseInv'
<1>1. /\ clicked' = clicked /\ pos' = p /\ pointer' = p /\ at' = p /\ moved' = TRUE
      /\ mask' = {c \in Buttons : clicked'[c]}
      /\ buttons' = buttons /\ leftover' = leftover
  BY DEF Move, Still, v2r_input_process_mouse_event
<1>2. mask' = buttons' \cup leftover'
  BY <1>1 DEF MouseInv
<1> QED BY <1>1, <1>2 DEF MouseInv

\* The wheel is turned.
LEMMA WheelKeeps == ASSUME MouseInv, Wheel PROVE MouseInv'
<1>1. /\ clicked' = clicked /\ pos' = pos /\ pointer' = pos' /\ at' = at /\ moved' = moved
      /\ mask' = {} /\ buttons' = buttons /\ leftover' = leftover /\ last' = "wheel"
  BY DEF Wheel, Still, v2r_input_process_mouse_event
<1> QED BY <1>1 DEF MouseInv

\* Every step keeps it.
LEMMA MouseInvInductive == MouseInv /\ [Next]_vars => MouseInv'
<1> SUFFICES ASSUME MouseInv, [Next]_vars PROVE MouseInv'
  OBVIOUS
<1>0. UNCHANGED mouse => MouseInv'
  BY DEF mouse, MouseInv
<1>1. ASSUME NEW k \in Keys, Press(k) \/ Release(k) PROVE MouseInv'
  <2>1. CASE Press(k)
    BY <2>1, <1>0 DEF Press
  <2>2. CASE Release(k)
    BY <2>2, <1>0 DEF Release, mouse
  <2> QED BY <1>1, <2>1, <2>2
<1>2. CASE FocusReturns
  BY <1>2, <1>0 DEF FocusReturns
<1>3. ASSUME NEW b \in Buttons, Click(b) PROVE MouseInv'
  BY <1>3, ClickKeeps
<1>4. ASSUME NEW p \in Positions, Move(p) PROVE MouseInv'
  BY <1>4, MoveKeeps
<1>5. CASE Wheel
  BY <1>5, WheelKeeps
<1>6. CASE NextSession
  BY <1>6 DEF NextSession, MouseInv
<1>7. CASE UNCHANGED vars
  BY <1>7, <1>0 DEF vars
<1> QED BY <1>1, <1>2, <1>3, <1>4, <1>5, <1>6, <1>7 DEF Next

\* At first nothing is held.
LEMMA MouseInvInit == Init => MouseInv
<1> SUFFICES ASSUME Init PROVE MouseInv
  OBVIOUS
<1>1. 0 \notin Buttons
  BY ButtonsAssumption
<1> QED BY <1>1 DEF Init, MouseInv

\* Over any number of sessions the server believes held only buttons that the client
\* holds, or held when an earlier session ended.
THEOREM ButtonsAlwaysAgree == Spec => []ButtonsAgree
<1>1. MouseInv => ButtonsAgree
  BY DEF MouseInv, ButtonsAgree
<1> QED BY <1>1, MouseInvInit, MouseInvInductive, PTL DEF Spec

\* Buttons act where the client's pointer is as soon as it was moved in the session.
THEOREM PointerAlwaysAgrees == Spec => []PointerAgrees
<1>1. MouseInv => PointerAgrees
  BY DEF MouseInv, PointerAgrees
<1> QED BY <1>1, MouseInvInit, MouseInvInductive, PTL DEF Spec

(***************************************************************************)
(* What keys mean.  A flag of a shift key is set while the key is held, or *)
(* after a release that was not reported; a lock of the proxy is the one   *)
(* of the client unless it has gone astray.                                *)
(***************************************************************************)
LocksInv ==
  /\ lshift \in BOOLEAN /\ rshift \in BOOLEAN /\ altgr \in BOOLEAN
  /\ capslock \in BOOLEAN /\ numlock \in BOOLEAN
  /\ caps \in BOOLEAN /\ num \in BOOLEAN
  /\ lshift <=> "lshift" \in held \cup lost
  /\ rshift <=> "rshift" \in held \cup lost
  /\ held \cap lost = {}
  /\ "capslock" \notin astray => capslock = caps
  /\ "numlock" \notin astray => numlock = num

\* The symbols of the three keys that tell the shift keys and the locks apart.
LEMMA SymbolOfDigit == (KeySym("digit").symbol = 2) <=> (lshift \/ rshift)
<1>1. CASE lshift \/ rshift
  <2>1. Table("digit") \in {"shiftcapslock", "shift"}
    BY <1>1 DEF Table
  <2> QED BY <2>1, <1>1 DEF KeySym, Symbols, KeyNames
<1>2. CASE ~(lshift \/ rshift)
  <2>1. Table("digit") \in {"capslock", "altgr", "noshift"}
    BY <1>2 DEF Table
  <2> QED BY <2>1, <1>2 DEF KeySym, Symbols, KeyNames
<1> QED BY <1>1, <1>2

\* The symbol of a letter says whether it is a capital.
LEMMA SymbolOfLetter ==
  (KeySym("letter").symbol = 2) <=> ((lshift \/ rshift) <=> ~capslock)
<1>1. CASE (lshift \/ rshift) /\ capslock
  <2>1. Table("letter") = "shiftcapslock"
    BY <1>1 DEF Table
  <2> QED BY <2>1, <1>1 DEF KeySym, Symbols, KeyNames
<1>2. CASE (lshift \/ rshift) /\ ~capslock
  <2>1. Table("letter") = "shift"
    BY <1>2 DEF Table
  <2> QED BY <2>1, <1>2 DEF KeySym, Symbols, KeyNames
<1>3. CASE ~(lshift \/ rshift) /\ capslock
  <2>1. Table("letter") = "capslock"
    BY <1>3 DEF Table
  <2> QED BY <2>1, <1>3 DEF KeySym, Symbols, KeyNames
<1>4. CASE ~(lshift \/ rshift) /\ ~capslock
  <2>1. Table("letter") \in {"altgr", "noshift"}
    BY <1>4 DEF Table
  <2> QED BY <2>1, <1>4 DEF KeySym, Symbols, KeyNames
<1> QED BY <1>1, <1>2, <1>3, <1>4

\* The symbol of a key of the keypad says whether num lock is on.
LEMMA SymbolOfKeypad == (KeySym("keypad").symbol = 2) <=> numlock
<1>1. Table("keypad") = (IF numlock THEN "shift" ELSE "noshift")
  BY DEF Table
<1> QED BY <1>1 DEF KeySym, Symbols, KeyNames

\* The flags say what the user sees.
LEMMA LocksMean == LocksInv => MeansWhatItShows
<1> SUFFICES ASSUME LocksInv PROVE MeansWhatItShows
  OBVIOUS
<1>1. ASSUME lost \cap {"lshift", "rshift"} = {} PROVE (lshift \/ rshift) <=> Shift
  BY <1>1 DEF LocksInv, Shift
<1>2. ASSUME lost \cap {"lshift", "rshift"} = {}
      PROVE  (KeySym("digit").symbol = 2) = Shift
  <2>1. (KeySym("digit").symbol = 2) <=> Shift
    BY <1>1, <1>2, SymbolOfDigit
  <2>2. Shift \in BOOLEAN
    BY DEF Shift
  <2> QED BY <2>1, <2>2
<1>3. ASSUME lost \cap {"lshift", "rshift"} = {}, "capslock" \notin astray
      PROVE  (KeySym("letter").symbol = 2) = (Shift # caps)
  <2>1. (KeySym("letter").symbol = 2) <=> (Shift <=> ~caps)
    BY <1>1, <1>3, SymbolOfLetter DEF LocksInv
  <2>2. Shift \in BOOLEAN /\ caps \in BOOLEAN
    BY DEF Shift, LocksInv
  <2>3. (Shift <=> ~caps) <=> (Shift # caps)
    BY <2>2
  <2> QED BY <2>1, <2>3
<1>4. ASSUME "numlock" \notin astray PROVE (KeySym("keypad").symbol = 2) = num
  <2>1. num \in BOOLEAN /\ numlock = num
    BY <1>4 DEF LocksInv
  <2>2. (KeySym("keypad").symbol = 2) <=> num
    BY <2>1, SymbolOfKeypad
  <2> QED BY <2>1, <2>2
<1> QED BY <1>2, <1>3, <1>4 DEF MeansWhatItShows

\* A press sets the flag of a shift key, and toggles a lock on both sides unless it
\* leaves the lock astray.
LEMMA PressLocks == ASSUME LocksInv, NEW key \in Keys, Press(key) PROVE LocksInv'
<1>1. /\ SetModifiers(key, TRUE) /\ held' = held \cup {key} /\ lost' = lost \ {key}
      /\ caps' = (IF key = "capslock" /\ key \notin held THEN ~caps ELSE caps)
      /\ num' = (IF key = "numlock" /\ key \notin held THEN ~num ELSE num)
      /\ astray' = astray \cup Strays(key, key \in held)
  BY DEF Press, v2r_input_process_keyboard_event
<1>2. /\ lshift' = (IF key = "lshift" THEN TRUE ELSE lshift)
      /\ rshift' = (IF key = "rshift" THEN TRUE ELSE rshift)
      /\ altgr' = (IF key \in {"lalt", "ralt"} THEN TRUE ELSE altgr)
      /\ capslock' = (IF key \in {"lalt", "ralt", "capslock"} THEN ~capslock ELSE capslock)
      /\ numlock' = (IF key = "numlock" THEN ~numlock ELSE numlock)
  BY <1>1 DEF SetModifiers
<1>3. /\ lshift' \in BOOLEAN /\ rshift' \in BOOLEAN /\ altgr' \in BOOLEAN
      /\ capslock' \in BOOLEAN /\ numlock' \in BOOLEAN
      /\ caps' \in BOOLEAN /\ num' \in BOOLEAN
  BY <1>1, <1>2 DEF LocksInv
<1>4. /\ lshift' <=> "lshift" \in held' \cup lost'
      /\ rshift' <=> "rshift" \in held' \cup lost'
      /\ held' \cap lost' = {}
  BY <1>1, <1>2 DEF LocksInv
<1>5. "capslock" \notin astray' => capslock' = caps'
  BY <1>1, <1>2 DEF LocksInv, Strays
<1>6. "numlock" \notin astray' => numlock' = num'
  BY <1>1, <1>2 DEF LocksInv, Strays
<1> QED BY <1>3, <1>4, <1>5, <1>6 DEF LocksInv

\* A release clears the flag of a shift key, and touches no lock.
LEMMA ReleaseLocks == ASSUME LocksInv, NEW key \in Keys, Release(key) PROVE LocksInv'
<1>1. /\ SetModifiers(key, FALSE) /\ key \in held /\ held' = held \ {key}
      /\ UNCHANGED <<lost, caps, num, astray>>
  BY DEF Release, v2r_input_process_keyboard_event
<1>2. /\ lshift' = (IF key = "lshift" THEN FALSE ELSE lshift)
      /\ rshift' = (IF key = "rshift" THEN FALSE ELSE rshift)
      /\ altgr' = (IF key \in {"lalt", "ralt"} THEN FALSE ELSE altgr)
      /\ capslock' = capslock /\ numlock' = numlock
  BY <1>1 DEF SetModifiers
<1> QED BY <1>1, <1>2 DEF LocksInv

\* The synchronisation of the locks brings those of both sides together.
LEMMA FocusLocks == ASSUME LocksInv, FocusReturns PROVE LocksInv'
<1>1. /\ held' = {} /\ lost' = lost \cup held /\ astray' = {}
      /\ caps' \in BOOLEAN /\ num' \in BOOLEAN /\ capslock' = caps' /\ numlock' = num'
      /\ UNCHANGED <<lshift, rshift, altgr>>
  BY DEF FocusReturns, v2r_input_process_sync_event
<1> QED BY <1>1 DEF LocksInv

\* Every step keeps it.
LEMMA LocksInvInductive == LocksInv /\ [Next]_vars => LocksInv'
<1> SUFFICES ASSUME LocksInv, [Next]_vars PROVE LocksInv'
  OBVIOUS
<1>1. ASSUME UNCHANGED <<modifiers, keyboard>> PROVE LocksInv'
  BY <1>1 DEF modifiers, keyboard, LocksInv
<1>2. ASSUME NEW k \in Keys, Press(k) \/ Release(k) PROVE LocksInv'
  BY <1>2, PressLocks, ReleaseLocks
<1>3. CASE FocusReturns
  BY <1>3, FocusLocks
<1>4. ASSUME NEW b \in Buttons, Click(b) PROVE LocksInv'
  BY <1>4, <1>1 DEF Click
<1>5. ASSUME NEW p \in Positions, Move(p) PROVE LocksInv'
  BY <1>5, <1>1 DEF Move
<1>6. CASE Wheel
  BY <1>6, <1>1 DEF Wheel
<1>7. CASE NextSession
  BY <1>7 DEF NextSession, LocksInv
<1>8. CASE UNCHANGED vars
  BY <1>8, <1>1 DEF vars
<1> QED BY <1>2, <1>3, <1>4, <1>5, <1>6, <1>7, <1>8 DEF Next

\* At first no lock is on.
LEMMA LocksInvInit == Init => LocksInv
  BY DEF Init, LocksInv

\* Capitals follow both shift keys and the caps lock of the client, and the keypad its
\* num lock, after any sequence of presses, repetitions, releases and changes of focus.
THEOREM KeysMeanWhatTheyShow == Spec => []MeansWhatItShows
  BY LocksMean, LocksInvInit, LocksInvInductive, PTL DEF Spec

(***************************************************************************)
(* Types.                                                                  *)
(***************************************************************************)
\* A key stands for one of its three symbols.
LEMMA SymbolTyped == ASSUME NEW k \in Keys PROVE KeySym(k) \in KeySyms /\ KeySym(k)' \in KeySyms
<1>1. \A symbol \in 1..3 : [key |-> k, symbol |-> symbol] \in KeySyms
  BY DEF KeySyms
<1>2. KeySym(k).symbol \in 1..3 /\ KeySym(k)'.symbol \in 1..3
  BY DEF KeySym
<1>3. /\ KeySym(k) = [key |-> k, symbol |-> KeySym(k).symbol]
      /\ KeySym(k)' = [key |-> k, symbol |-> KeySym(k)'.symbol]
  BY DEF KeySym
<1> QED BY <1>1, <1>2, <1>3

\* The types that LocksInv does not state.
TypesInv ==
  /\ clicked \in [Buttons -> BOOLEAN] /\ pos \in Positions \cup {Origin}
  /\ held \subseteq Keys /\ buttons \subseteq Buttons /\ at \in Positions
  /\ down \subseteq KeySyms /\ mask \subseteq Buttons
  /\ pointer \in Positions \cup {Origin}
  /\ events \in 0..MaxEvents /\ sessions \in Nat
  /\ strange \subseteq Keys /\ lost \subseteq Keys
  /\ astray \subseteq {"capslock", "numlock"}
  /\ leftover \subseteq Buttons
  /\ last \in {"none", "click", "move", "wheel"} /\ moved \in BOOLEAN

\* Events are counted up to their bound.
LEMMA EventTyped == ASSUME TypesInv, Event PROVE events' \in 0..MaxEvents /\ sessions' \in Nat
  BY BoundsAssumption DEF TypesInv, Event

\* Every step keeps it.
LEMMA TypesInvInductive == TypesInv /\ [Next]_vars => TypesInv'
<1> SUFFICES ASSUME TypesInv, [Next]_vars PROVE TypesInv'
  OBVIOUS
<1>1. ASSUME NEW key \in Keys, Press(key) PROVE TypesInv'
  <2>1. /\ down' = down \cup {KeySym(key)'} /\ held' = held \cup {key} /\ lost' = lost \ {key}
        /\ strange' = strange \cup (held \cap Shifted) /\ Event
        /\ astray' = astray \cup Strays(key, key \in held) /\ UNCHANGED mouse
    BY <1>1 DEF Press, v2r_input_process_keyboard_event
  <2>2. astray' \subseteq {"capslock", "numlock"}
    BY <2>1 DEF TypesInv, Strays
  <2> QED BY <2>1, <2>2, EventTyped, SymbolTyped DEF TypesInv, mouse
<1>2. ASSUME NEW key \in Keys, Release(key) PROVE TypesInv'
  <2>1. /\ down' = down \ {KeySym(key)'} /\ held' = held \ {key} /\ Event
        /\ strange' = strange \cup (held \cap Shifted) /\ UNCHANGED <<lost, astray, mouse>>
    BY <1>2 DEF Release, v2r_input_process_keyboard_event
  <2> QED BY <2>1, EventTyped DEF TypesInv, mouse
<1>3. CASE FocusReturns
  <2>1. /\ held' = {} /\ strange' = strange \cup held /\ lost' = lost \cup held
        /\ astray' = {} /\ down' = down /\ Event /\ UNCHANGED mouse
    BY <1>3 DEF FocusReturns, v2r_input_process_sync_event
  <2> QED BY <2>1, EventTyped DEF TypesInv, mouse
<1>4. ASSUME NEW b \in Buttons, Click(b) PROVE TypesInv'
  <2> DEFINE d == b \notin buttons
  <2>1. /\ \/ clicked' = clicked
           \/ clicked' = [clicked EXCEPT ![b] = d]
        /\ pos' = pos /\ pointer' = pos' /\ mask' \subseteq Buttons
        /\ buttons' \subseteq buttons \cup {b} /\ leftover' = leftover \ {b}
        /\ last' = "click" /\ Event /\ UNCHANGED <<keyboard, at, moved>>
    BY <1>4 DEF Click, Still, v2r_input_process_mouse_event
  <2> QED BY <2>1, EventTyped DEF TypesInv, keyboard
<1>5. ASSUME NEW p \in Positions, Move(p) PROVE TypesInv'
  <2>1. /\ clicked' = clicked /\ pos' = p /\ pointer' = p /\ at' = p /\ moved' = TRUE
        /\ mask' \subseteq Buttons /\ last' = "move" /\ Event
        /\ UNCHANGED <<keyboard, buttons, leftover>>
    BY <1>5 DEF Move, Still, v2r_input_process_mouse_event
  <2> QED BY <2>1, EventTyped DEF TypesInv, keyboard
<1>6. CASE Wheel
  <2>1. /\ clicked' = clicked /\ pos' = pos /\ pointer' = pos' /\ mask' = {}
        /\ last' = "wheel" /\ Event /\ UNCHANGED <<keyboard, buttons, at, leftover, moved>>
    BY <1>6 DEF Wheel, Still, v2r_input_process_mouse_event
  <2> QED BY <2>1, EventTyped DEF TypesInv, keyboard
<1>7. CASE NextSession
  <2>1. 0 \in 0..MaxEvents /\ sessions + 1 \in Nat
    BY BoundsAssumption DEF TypesInv
  <2>2. /\ held' = {} /\ buttons' = {} /\ at' \in Positions /\ down' = {} /\ mask' = {}
        /\ pointer' = Origin /\ events' = 0 /\ sessions' = sessions + 1 /\ strange' = {}
        /\ lost' = {} /\ astray' = {"capslock", "numlock"} /\ last' = "none"
        /\ moved' = FALSE /\ leftover' = leftover \cup buttons /\ UNCHANGED <<clicked, pos>>
    BY <1>7 DEF NextSession
  <2> QED BY <2>1, <2>2 DEF TypesInv
<1>8. CASE UNCHANGED vars
  BY <1>8 DEF vars, keyboard, mouse, TypesInv
<1> QED BY <1>1, <1>2, <1>3, <1>4, <1>5, <1>6, <1>7, <1>8 DEF Next

\* It holds at first.
LEMMA TypesInvInit == Init => TypesInv
<1> SUFFICES ASSUME Init PROVE TypesInv
  OBVIOUS
<1>1. 0 \in 0..MaxEvents
  BY BoundsAssumption
<1>2. /\ clicked = [b \in Buttons |-> FALSE] /\ pos = Origin /\ held = {} /\ buttons = {}
      /\ at \in Positions /\ down = {} /\ mask = {} /\ pointer = Origin /\ events = 0
      /\ sessions = 1 /\ strange = {} /\ lost = {} /\ astray = {"capslock", "numlock"}
      /\ leftover = {} /\ last = "none" /\ moved = FALSE
  BY DEF Init
<1>3. clicked \in [Buttons -> BOOLEAN]
  BY <1>2
<1> QED BY <1>1, <1>2, <1>3 DEF TypesInv

\* Every variable has its type, for any keyboard and mouse.
THEOREM InputTypes == Spec => []TypeOK
<1>1. LocksInv /\ TypesInv => TypeOK
  BY DEF LocksInv, TypesInv, TypeOK
<1> QED BY <1>1, LocksInvInit, LocksInvInductive, TypesInvInit, TypesInvInductive, PTL
        DEF Spec
=============================================================================
