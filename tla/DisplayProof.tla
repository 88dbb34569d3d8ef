---------------------------- MODULE DisplayProof ----------------------------
(***************************************************************************)
(* Proof that a session implements the remote display of Display, for all  *)
(* values of the constants: every step of the proxy and of its peers is a  *)
(* step of the two wires, or none.                                         *)
(***************************************************************************)
EXTENDS SessionProof, SessionDisplay

(***************************************************************************)
(* What is on the wires.                                                   *)
(***************************************************************************)
\* What is drawn, and what the proxy may read and send on the way to the server.
Strokes ==
  [type : {"bitmap"}, tile : Tiles, content : Contents]
  \cup [type : {"scrblt"}, tile : Tiles, src : Tiles]
Inbound == RequestMessages \cup ClientMessages

DrawTurn  == [m \in Messages |-> Draws(m)]
EventTurn == [m \in Inbound |-> Brings(m)]

\* Every message for the client becomes drawings.
LEMMA DrawTurns == Turns(DrawTurn, Messages, Strokes)
<1> SUFFICES ASSUME NEW m \in Messages
             PROVE  Draws(m) \in Seq(Strokes)
  BY DEF Turns, DrawTurn
<1>1. CASE m.type \in {"bitmap", "scrblt"}
  <2>1. m \in Strokes
    BY <1>1 DEF Messages, ServerMessages, OutputMessages, Rectangles, Strokes
  <2> QED
    BY <1>1, <2>1 DEF Draws
<1>2. CASE m.type \in {"raw", "copyrect"}
  <2>1. m \in Rectangles
    BY <1>2 DEF Messages, ServerMessages, OutputMessages, Rectangles
  <2>2. Drawn(m) \in Strokes
    BY <2>1 DEF Drawn, Bitmap, Scrblt, Rectangles, Strokes
  <2> QED
    BY <1>2, <2>2 DEF Draws
<1>3. CASE m.type \notin {"bitmap", "scrblt", "raw", "copyrect"}
  BY <1>3 DEF Draws
<1> QED
  BY <1>1, <1>2, <1>3

\* What the events of an input PDU are numbered.
LEMMA ForwardedIs ==
  ASSUME TypeOK, NEW m \in ClientMessages, m.type = "input"
  PROVE  \E n \in Nat : \E e \in [1..n -> Nat] :
           /\ Forwarded(m) \in [1..n -> RequestMessages]
           /\ \A i \in 1..n : Forwarded(m)[i] = Event(e[i])
           /\ Brings(m) = e
<1>1. Forwarded(m) \in Seq(RequestMessages)
  BY InputType
<1>2. PICK n \in Nat : n = Len(Forwarded(m))
  BY <1>1
<1>3. Forwarded(m) \in [1..n -> RequestMessages] /\ DOMAIN Forwarded(m) = 1..n
  BY <1>1, <1>2
<1>4. PICK a \in Nat, b \in Nat : a = m.from /\ b = m.to
  BY DEF ClientMessages
<1> DEFINE e == [i \in 1..n |-> a + i - 1]
<1>5. e \in [1..n -> Nat]
  OBVIOUS
<1>6. ASSUME NEW i \in 1..n
      PROVE  Forwarded(m)[i] = Event(e[i])
  <2>1. CASE viewonly
    <3>1. DOMAIN Forwarded(m) = {}
      BY <2>1 DEF Forwarded
    <3> QED
      BY <1>3, <3>1
  <2>2. CASE ~viewonly
    <3>1. Forwarded(m) = [j \in 1..(b - a + 1) |-> Event(a + j - 1)]
      BY <1>4, <2>2 DEF Forwarded
    <3>2. i \in 1..(b - a + 1)
      BY <1>3, <3>1
    <3> QED
      BY <3>1, <3>2
  <2> QED
    BY <2>1, <2>2
<1> HIDE DEF e
<1>7. Brings(m) = e
  <2>1. Brings(m) = [i \in DOMAIN Forwarded(m) |-> Forwarded(m)[i].id]
    BY DEF Brings
  <2>2. ASSUME NEW i \in 1..n
        PROVE  Forwarded(m)[i].id = e[i]
    <3>1. Forwarded(m)[i] = Event(e[i])
      BY <1>6
    <3>2. Event(e[i]).id = e[i]
      BY DEF Event
    <3> QED
      BY <3>1, <3>2
  <2>3. Brings(m) = [i \in 1..n |-> Forwarded(m)[i].id]
    BY <1>3, <2>1
  <2>4. Brings(m) = [i \in 1..n |-> e[i]]
    BY <2>2, <2>3
  <2>5. e = [i \in 1..n |-> e[i]]
    BY <1>5
  <2> QED
    BY <2>4, <2>5
<1> QED
  BY <1>3, <1>5, <1>6, <1>7

\* Every message for the server becomes events.
LEMMA EventTurns ==
  ASSUME TypeOK
  PROVE  Turns(EventTurn, Inbound, Nat)
<1> SUFFICES ASSUME NEW m \in Inbound
             PROVE  Brings(m) \in Seq(Nat)
  BY DEF Turns, EventTurn
<1>1. CASE m.type = "event"
  <2>1. m.id \in Nat
    BY <1>1 DEF Inbound, RequestMessages, ClientMessages
  <2> QED
    BY <1>1, <2>1 DEF Brings
<1>2. CASE m.type = "input"
  <2>1. m \in ClientMessages
    BY <1>2 DEF Inbound, RequestMessages, ClientMessages
  <2>2. PICK n \in Nat : \E e \in [1..n -> Nat] : Brings(m) = e
    BY <1>2, <2>1, ForwardedIs
  <2> QED
    BY <2>2
<1>3. CASE m.type \notin {"event", "input"}
  BY <1>3 DEF Brings
<1> QED
  BY <1>1, <1>2, <1>3

\* The events that a PDU becomes are the events it brings.
LEMMA ForwardedBrings ==
  ASSUME TypeOK, NEW m \in ClientMessages, m.type = "input"
  PROVE  Become(EventTurn, Forwarded(m)) = EventTurn[m]
<1>0. PICK n \in Nat : \E e \in [1..n -> Nat] :
           /\ Forwarded(m) \in [1..n -> RequestMessages]
           /\ \A i \in 1..n : Forwarded(m)[i] = Event(e[i])
           /\ Brings(m) = e
  BY ForwardedIs
<1>1. PICK e \in [1..n -> Nat] :
           /\ Forwarded(m) \in [1..n -> RequestMessages]
           /\ \A i \in 1..n : Forwarded(m)[i] = Event(e[i])
           /\ Brings(m) = e
  BY <1>0
<1>2. PICK f \in [1..n -> Inbound] : f = Forwarded(m)
  BY <1>1 DEF Inbound
<1>3. ASSUME NEW i \in 1..n
      PROVE  EventTurn[f[i]] = <<e[i]>>
  <2>1. f[i] = Event(e[i]) /\ f[i] \in Inbound
    BY <1>1, <1>2
  <2> QED
    BY <2>1 DEF EventTurn, Brings, Event
<1>4. Singly(EventTurn, f, n, e)
  BY <1>3 DEF Singly
<1>5. n \in Nat /\ f \in [1..n -> Inbound] /\ e \in [1..n -> Nat]
  BY <1>0, <1>1, <1>2
<1>6. Become(EventTurn, f) = e
  BY <1>4, <1>5, EventTurns, BecomeEach
<1>7. EventTurn[m] = e
  BY <1>1 DEF EventTurn, Inbound
<1> QED
  BY <1>2, <1>6, <1>7

\* The wires of the refinement are the streams on both sides of the proxy.
LEMMA WiresAre ==
  ASSUME TypeOK
  PROVE  /\ ToClient = IF status = "running" /\ clientOpen THEN Wire(DrawTurn, p2c, s2p)
                       ELSE <<>>
         /\ ToServer = IF status = "running" /\ serverOpen THEN Wire(EventTurn, p2s, c2p)
                       ELSE <<>>
         /\ p2c \in Streams(Messages) /\ s2p \in Streams(Messages)
         /\ p2s \in Streams(Inbound) /\ c2p \in Streams(Inbound)
<1>1. p2c \in Seq(Messages) /\ s2p \in Seq(Messages)
  BY StreamTypes
<1>2. p2s \in Seq(Inbound) /\ c2p \in Seq(Inbound)
  BY SeqMonotonic DEF TypeOK, Inbound
<1>3. p2c \o s2p \in Seq(Messages) /\ p2s \o c2p \in Seq(Inbound)
  BY <1>1, <1>2, ConcatProperties
<1>4. ASSUME NEW s \in Seq(Messages)
      PROVE  DrawingsIn(s) = Become(DrawTurn, s)
  <2>1. \A i \in DOMAIN s : DrawTurn[s[i]] = Draws(s[i])
    BY DEF DrawTurn
  <2>2. [i \in DOMAIN s |-> DrawTurn[s[i]]] = [i \in DOMAIN s |-> Draws(s[i])]
    BY <2>1
  <2> QED
    BY <2>2 DEF DrawingsIn, Become
<1>5. ASSUME NEW s \in Seq(Inbound)
      PROVE  EventsIn(s) = Become(EventTurn, s)
  <2>1. \A i \in DOMAIN s : EventTurn[s[i]] = Brings(s[i])
    BY DEF EventTurn
  <2>2. [i \in DOMAIN s |-> EventTurn[s[i]]] = [i \in DOMAIN s |-> Brings(s[i])]
    BY <2>1
  <2> QED
    BY <2>2 DEF EventsIn, Become
<1>6. DrawingsIn(p2c \o s2p) = Wire(DrawTurn, p2c, s2p)
  BY <1>3, <1>4 DEF Wire, Cat
<1>7. EventsIn(p2s \o c2p) = Wire(EventTurn, p2s, c2p)
  BY <1>3, <1>5 DEF Wire, Cat
<1> QED
  BY <1>1, <1>2, <1>6, <1>7 DEF ToClient, ToServer, Running, Streams

(***************************************************************************)
(* Steps the display does not see, and the end.                            *)
(***************************************************************************)
\* The wires before a step and after it.
LEMMA WiresOf ==
  ASSUME TypeOK, TypeOK', viewonly' = viewonly
  PROVE  /\ ToClient = IF status = "running" /\ clientOpen THEN Wire(DrawTurn, p2c, s2p)
                       ELSE <<>>
         /\ ToClient' = IF status' = "running" /\ clientOpen'
                          THEN Wire(DrawTurn, p2c', s2p') ELSE <<>>
         /\ ToServer = IF status = "running" /\ serverOpen THEN Wire(EventTurn, p2s, c2p)
                       ELSE <<>>
         /\ ToServer' = IF status' = "running" /\ serverOpen'
                          THEN Wire(EventTurn, p2s', c2p') ELSE <<>>
         /\ p2c \in Streams(Messages) /\ s2p \in Streams(Messages)
         /\ p2s \in Streams(Inbound) /\ c2p \in Streams(Inbound)
         /\ p2c' \in Streams(Messages) /\ s2p' \in Streams(Messages)
         /\ p2s' \in Streams(Inbound) /\ c2p' \in Streams(Inbound)
<1>1. (/\ ToClient = IF status = "running" /\ clientOpen THEN Wire(DrawTurn, p2c, s2p)
                     ELSE <<>>
       /\ ToServer = IF status = "running" /\ serverOpen THEN Wire(EventTurn, p2s, c2p)
                     ELSE <<>>
       /\ p2c \in Streams(Messages) /\ s2p \in Streams(Messages)
       /\ p2s \in Streams(Inbound) /\ c2p \in Streams(Inbound))'
  BY WiresAre, PTL
<1>2. EventTurn' = EventTurn
  BY DEF EventTurn, Brings, Forwarded
<1>3. DrawTurn' = DrawTurn /\ Inbound' = Inbound /\ Messages' = Messages
  BY DEF DrawTurn, Inbound, Messages
<1> QED
  BY <1>1, <1>2, <1>3, WiresAre DEF Wire, Streams

\* A step that leaves the wires and the ends alone.
LEMMA Unseen ==
  ASSUME TypeOK, TypeOK',
         UNCHANGED <<status, clientOpen, serverOpen, screen, sent, minimised, shown, typed,
                     received, viewonly>>,
         clientOpen => Wire(DrawTurn, p2c', s2p') = Wire(DrawTurn, p2c, s2p),
         serverOpen => Wire(EventTurn, p2s', c2p') = Wire(EventTurn, p2s, c2p)
  PROVE  UNCHANGED Remote!vars
<1>1. ToClient' = ToClient /\ ToServer' = ToServer
  BY WiresOf
<1>2. Up' = Up
  BY DEF Up, Running
<1> QED
  BY <1>1, <1>2 DEF Remote!vars

\* The session is destroyed.
LEMMA LeaveEnds ==
  ASSUME TypeOK, TypeOK', status = "running", NEW how \in {"ended", "killed"}, Leave(how)
  PROVE  Remote!End
<1>1. status' = how /\ how # "running"
      /\ UNCHANGED <<clientOpen, serverOpen, screen, sent, minimised, shown, typed, received,
                     viewonly>>
  BY DEF Leave, client, server
<1>2. ToClient' = <<>> /\ ToServer' = <<>>
  BY <1>1, WiresOf
<1>3. "session" \in Up /\ Up' = Up \ {"session"}
  BY <1>1 DEF Up, Running
<1> QED
  BY <1>1, <1>2, <1>3 DEF Remote!End

\* A send that fails.
LEMMA SendFailsEnds ==
  ASSUME TypeOK, TypeOK', status = "running", NEW open, SendFails(open)
  PROVE  Remote!End
  BY LeaveEnds DEF SendFails

(***************************************************************************)
(* The proxy: what it reads at the one end it sends, translated, at the    *)
(* other.                                                                  *)
(***************************************************************************)
\* A PDU is passed on to the server.
LEMMA PduPassed ==
  ASSUME TypeOK, TypeOK', c2p # <<>>, NEW new \in Streams(Inbound),
         Become(EventTurn, new) = EventTurn[Head(c2p)],
         p2s' = Put(serverOpen, p2s, new), c2p' = Tail(c2p),
         UNCHANGED <<status, p2c, s2p, viewonly, client, server>>
  PROVE  UNCHANGED Remote!vars
<1>1. p2s \in Streams(Inbound) /\ c2p \in Streams(Inbound)
  BY WiresAre
<1>2. Wire(EventTurn, Cat(p2s, new), Tail(c2p)) = Wire(EventTurn, p2s, c2p)
  BY <1>1, EventTurns, WirePassed
<1>3. serverOpen => p2s' = Cat(p2s, new)
  BY DEF Put, Cat
<1>4. serverOpen => Wire(EventTurn, p2s', c2p') = Wire(EventTurn, p2s, c2p)
  BY <1>2, <1>3
<1>5. Wire(DrawTurn, p2c', s2p') = Wire(DrawTurn, p2c, s2p)
  OBVIOUS
<1> QED
  BY <1>4, <1>5, Unseen DEF client, server

\* A message is passed on to the client.
LEMMA MessagePassed ==
  ASSUME TypeOK, TypeOK', s2p # <<>>, NEW new \in Streams(Messages),
         Become(DrawTurn, new) = DrawTurn[Head(s2p)],
         p2c' = Put(clientOpen, p2c, new), s2p' = Tail(s2p),
         UNCHANGED <<status, p2s, c2p, viewonly, client, server>>
  PROVE  UNCHANGED Remote!vars
<1>1. p2c \in Streams(Messages) /\ s2p \in Streams(Messages)
  BY WiresAre
<1>2. Wire(DrawTurn, Cat(p2c, new), Tail(s2p)) = Wire(DrawTurn, p2c, s2p)
  BY <1>1, DrawTurns, WirePassed
<1>3. clientOpen => p2c' = Cat(p2c, new)
  BY DEF Put, Cat
<1>4. clientOpen => Wire(DrawTurn, p2c', s2p') = Wire(DrawTurn, p2c, s2p)
  BY <1>2, <1>3
<1>5. Wire(EventTurn, p2s', c2p') = Wire(EventTurn, p2s, c2p)
  OBVIOUS
<1> QED
  BY <1>4, <1>5, Unseen DEF client, server

\* A request for an update is no event.
LEMMA RequestBrings ==
  ASSUME TypeOK, NEW inc \in BOOLEAN, NEW allowed
  PROVE  /\ v2r_vnc_send_fb_update_req(inc, allowed) \in Streams(Inbound)
         /\ Become(EventTurn, v2r_vnc_send_fb_update_req(inc, allowed)) = <<>>
<1>1. Request(inc) \in Inbound /\ Request(inc).type = "request"
  BY DEF Request, RequestMessages, Inbound
<1>2. EventTurn[Request(inc)] = <<>>
  BY <1>1 DEF EventTurn, Brings
<1>3. Become(EventTurn, One(Request(inc))) = <<>> /\ Become(EventTurn, <<>>) = <<>>
  BY <1>1, <1>2, EventTurns, BecomeFew
<1>4. One(Request(inc)) \in Streams(Inbound) /\ <<>> \in Streams(Inbound)
  BY <1>1, OneType
<1> QED
  BY <1>3, <1>4 DEF v2r_vnc_send_fb_update_req, One

\* The handler of PDUs.
LEMMA RdpShown ==
  ASSUME TypeOK, TypeOK', v2r_rdp_process
  PROVE  Remote!End \/ UNCHANGED Remote!vars
<1>1. status = "running"
  BY DEF v2r_rdp_process, v2r_rdp_process_suppress_output, v2r_input_process, IgnorePdu,
         RdpFails, RdpReads, Handling
<1>2. ASSUME c2p # <<>>
      PROVE  Head(c2p) \in Inbound /\ Head(c2p) \in ClientMessages
  BY <1>2, TailOf DEF TypeOK, Inbound
<1>3. ASSUME c2p # <<>>, Head(c2p).type \notin {"event", "input"}
      PROVE  EventTurn[Head(c2p)] = <<>>
  BY <1>2, <1>3 DEF EventTurn, Brings
<1>4. CASE v2r_rdp_process_suppress_output
  <2> DEFINE req == IF Head(c2p).allow = ALLOW_DISPLAY_UPDATES
                      THEN v2r_vnc_send_fb_update_req(FALSE, Head(c2p).allow) ELSE <<>>
  <2>1. c2p # <<>> /\ Head(c2p).type = "suppress_output"
    BY <1>4 DEF v2r_rdp_process_suppress_output, RdpReads
  <2>2. Become(EventTurn, <<>>) = <<>> /\ <<>> \in Streams(Inbound)
    BY EventTurns, BecomeFew, OneType
  <2>3. req \in Streams(Inbound) /\ Become(EventTurn, req) = <<>>
    BY <2>2, RequestBrings
  <2>4. \/ /\ p2s' = Put(serverOpen, p2s, req) /\ c2p' = Tail(c2p)
           /\ UNCHANGED <<status, p2c, s2p, viewonly, client, server>>
        \/ SendFails(serverOpen)
    BY <1>4 DEF v2r_rdp_process_suppress_output, NextEvent
  <2> HIDE DEF req
  <2> QED
    BY <1>1, <1>3, <2>1, <2>3, <2>4, PduPassed, SendFailsEnds
<1>5. CASE v2r_input_process
  <2>1. c2p # <<>> /\ Head(c2p).type = "input"
    BY <1>5 DEF v2r_input_process, RdpReads
  <2>2. Become(EventTurn, Forwarded(Head(c2p))) = EventTurn[Head(c2p)]
    BY <1>2, <2>1, ForwardedBrings
  <2>3. Forwarded(Head(c2p)) \in Streams(Inbound)
    <3>1. Forwarded(Head(c2p)) \in Seq(RequestMessages)
      BY <1>2, <2>1, InputType
    <3> QED
      BY <3>1, SeqMonotonic DEF Inbound, Streams
  <2>4. \/ /\ p2s' = Put(serverOpen, p2s, Forwarded(Head(c2p))) /\ c2p' = Tail(c2p)
           /\ UNCHANGED <<status, p2c, s2p, viewonly, client, server>>
        \/ SendFails(serverOpen)
    BY <1>5 DEF v2r_input_process, NextEvent
  <2> QED
    BY <1>1, <2>1, <2>2, <2>3, <2>4, PduPassed, SendFailsEnds
<1>6. CASE IgnorePdu
  <2>1. c2p # <<>> /\ Head(c2p).type = "other"
    BY <1>6 DEF IgnorePdu, RdpReads
  <2>2. Become(EventTurn, <<>>) = <<>> /\ <<>> \in Streams(Inbound)
    BY EventTurns, BecomeFew, OneType
  <2>3. p2s' = Put(serverOpen, p2s, <<>>)
    <3>1. p2s' = p2s /\ p2s \in Seq(RequestMessages)
      BY <1>6 DEF IgnorePdu, TypeOK
    <3> QED
      BY <3>1, ConcatEmptySeq DEF Put
  <2>4. c2p' = Tail(c2p) /\ UNCHANGED <<status, p2c, s2p, viewonly, client, server>>
    BY <1>6 DEF IgnorePdu, NextEvent
  <2> QED
    BY <1>3, <2>1, <2>2, <2>3, <2>4, PduPassed
<1>7. CASE RdpFails
  BY <1>1, <1>7, LeaveEnds DEF RdpFails
<1> QED
  BY <1>4, <1>5, <1>6, <1>7 DEF v2r_rdp_process

\* A message that draws nothing is answered with what draws nothing.
LEMMA AnswerShown ==
  ASSUME TypeOK, TypeOK', status = "running", s2p # <<>>,
         Head(s2p).type \notin {"raw", "copyrect", "bitmap", "scrblt"},
         NEW msgs \in Streams(Messages), Become(DrawTurn, msgs) = <<>>, NEW map,
         Answer(msgs, map)
  PROVE  Remote!End \/ UNCHANGED Remote!vars
<1>1. Head(s2p) \in Messages
  BY TailOf DEF TypeOK, Messages
<1>2. DrawTurn[Head(s2p)] = <<>>
  BY <1>1 DEF DrawTurn, Draws
<1>3. \/ /\ p2c' = Put(clientOpen, p2c, msgs) /\ s2p' = Tail(s2p)
         /\ UNCHANGED <<status, p2s, c2p, viewonly, client, server>>
      \/ SendFails(clientOpen)
  BY DEF Answer, NextEvent
<1> QED
  BY <1>2, <1>3, MessagePassed, SendFailsEnds

\* Messages to the client that draw nothing.
LEMMA DrawNothing ==
  ASSUME NEW m \in Messages, m.type \notin {"raw", "copyrect", "bitmap", "scrblt"}
  PROVE  /\ <<m>> \in Streams(Messages) /\ <<>> \in Streams(Messages)
         /\ Become(DrawTurn, <<m>>) = <<>> /\ Become(DrawTurn, <<>>) = <<>>
         /\ DrawTurn[m] = <<>>
<1>1. DrawTurn[m] = <<>>
  BY DEF DrawTurn, Draws
<1>2. Become(DrawTurn, One(m)) = DrawTurn[m] /\ Become(DrawTurn, <<>>) = <<>>
  BY DrawTurns, BecomeFew
<1>3. One(m) \in Streams(Messages) /\ <<>> \in Streams(Messages)
  BY OneType
<1> QED
  BY <1>1, <1>2, <1>3 DEF One

\* The handler of messages.
LEMMA VncShown ==
  ASSUME TypeOK, TypeOK', InStep, v2r_vnc_process
  PROVE  Remote!End \/ UNCHANGED Remote!vars
<1>1. status = "running"
  BY DEF v2r_vnc_process, UpdateHeader, UpdateRectangle, UpdateDone,
         v2r_vnc_process_set_colour_map_entries, v2r_vnc_process_bell,
         v2r_vnc_process_server_cut_text, VncFails, VncReads, Handling
<1>2. ASSUME s2p # <<>>
      PROVE  /\ Head(s2p) \in ServerMessages /\ Head(s2p) \in Messages
             /\ Head(s2p) = s2p[1] /\ 1 \in DOMAIN s2p
  BY <1>2, TailOf DEF TypeOK, Messages
<1>3. CASE UpdateHeader
  <2>1. s2p # <<>> /\ Head(s2p).type = "update"
    BY <1>3 DEF UpdateHeader, VncReads
  <2>2. /\ <<>> \in Streams(Messages) /\ Become(DrawTurn, <<>>) = <<>>
        /\ DrawTurn[Head(s2p)] = <<>>
    BY <1>2, <2>1, DrawNothing
  <2>3. p2c' = Put(clientOpen, p2c, <<>>)
    <3>1. p2c' = p2c /\ p2c \in Seq(OutputMessages)
      BY <1>3 DEF UpdateHeader, TypeOK
    <3> QED
      BY <3>1, ConcatEmptySeq DEF Put
  <2>4. s2p' = Tail(s2p) /\ UNCHANGED <<status, p2s, c2p, viewonly, client, server>>
    BY <1>3 DEF UpdateHeader
  <2> QED
    BY <2>1, <2>2, <2>3, <2>4, MessagePassed
<1>4. CASE UpdateRectangle
  <2>1. s2p # <<>> /\ rects > 0 /\ pc = "update"
    BY <1>4 DEF UpdateRectangle
  <2>2. Head(s2p) \in Rectangles
    <3>1. 1 <= Expected
      BY <2>1 DEF Expected, TypeOK
    <3> QED
      BY <1>1, <1>2, <2>1, <3>1 DEF InStep
  <2>3. Drawn(Head(s2p)) \in Messages
    BY <2>2, DrawnType DEF Messages
  <2>4. DrawTurn[Drawn(Head(s2p))] = DrawTurn[Head(s2p)]
    <3>1. Draws(Drawn(Head(s2p))) = <<Drawn(Head(s2p))>>
      BY DEF Draws, Drawn, Bitmap, Scrblt
    <3>2. Draws(Head(s2p)) = <<Drawn(Head(s2p))>>
      BY <2>2 DEF Draws, Rectangles
    <3> QED
      BY <1>2, <2>1, <2>3, <3>1, <3>2 DEF DrawTurn
  <2>5. Become(DrawTurn, One(Drawn(Head(s2p)))) = DrawTurn[Drawn(Head(s2p))]
    BY <2>3, DrawTurns, BecomeFew
  <2>6. One(Drawn(Head(s2p))) \in Streams(Messages)
    BY <2>3, OneType
  <2>7. \/ /\ p2c' = Put(clientOpen, p2c, One(Drawn(Head(s2p)))) /\ s2p' = Tail(s2p)
           /\ UNCHANGED <<status, p2s, c2p, viewonly, client, server>>
        \/ SendFails(clientOpen)
    BY <1>4 DEF UpdateRectangle, One
  <2> QED
    BY <1>1, <2>1, <2>4, <2>5, <2>6, <2>7, MessagePassed, SendFailsEnds
<1>5. CASE UpdateDone
  <2> DEFINE req == v2r_vnc_send_fb_update_req(TRUE, allow)
  <2>1. req \in Streams(Inbound) /\ Become(EventTurn, req) = <<>>
    BY RequestBrings
  <2>2. \/ /\ p2s' = Put(serverOpen, p2s, req)
           /\ UNCHANGED <<status, viewonly, c2p, p2c, s2p, client, server>>
        \/ SendFails(serverOpen)
    BY <1>5 DEF UpdateDone, NextEvent
  <2> HIDE DEF req
  <2>3. ASSUME p2s' = Put(serverOpen, p2s, req), serverOpen, c2p' = c2p
        PROVE  Wire(EventTurn, p2s', c2p') = Wire(EventTurn, p2s, c2p)
    <3>1. p2s \in Streams(Inbound) /\ c2p \in Streams(Inbound)
      BY WiresAre
    <3>2. Wire(EventTurn, Cat(p2s, req), c2p) = Wire(EventTurn, p2s, c2p)
      BY <2>1, <3>1, EventTurns, WireAside
    <3>3. p2s' = Cat(p2s, req)
      BY <2>3 DEF Put, Cat
    <3> QED
      BY <2>3, <3>2, <3>3
  <2> QED
    BY <1>1, <2>2, <2>3, Unseen, SendFailsEnds DEF client, server
<1>6. CASE v2r_vnc_process_set_colour_map_entries
  <2> DEFINE map == NewColourMap(Head(s2p).entries)
  <2>1. s2p # <<>> /\ Head(s2p).type = "colours" /\ Answer(<<Palette(map)>>, map)
    BY <1>6 DEF v2r_vnc_process_set_colour_map_entries, VncReads
  <2>2. Palette(map) \in Messages /\ Palette(map).type = "palette"
    <3>1. map \in ColourMap
      <4>1. PICK S \in SUBSET Entries : Head(s2p).entries \in [S -> Colours]
        BY <1>2, <2>1 DEF ServerMessages, Rectangles
      <4> QED
        BY <4>1, OverlayType DEF TypeOK, NewColourMap
    <3> QED
      BY <3>1 DEF Palette, Messages, OutputMessages
  <2> HIDE DEF map
  <2>3. <<Palette(map)>> \in Streams(Messages) /\ Become(DrawTurn, <<Palette(map)>>) = <<>>
    BY <2>2, DrawNothing
  <2> QED
    BY <1>1, <2>1, <2>3, AnswerShown
<1>7. CASE v2r_vnc_process_bell
  <2>1. s2p # <<>> /\ Head(s2p).type = "bell" /\ Answer(<<Sound>>, colour_map)
    BY <1>7 DEF v2r_vnc_process_bell, VncReads
  <2>2. Sound \in Messages /\ Sound.type = "play_sound"
    BY DEF Sound, Messages, OutputMessages
  <2>3. <<Sound>> \in Streams(Messages) /\ Become(DrawTurn, <<Sound>>) = <<>>
    BY <2>2, DrawNothing
  <2> QED
    BY <1>1, <2>1, <2>3, AnswerShown
<1>8. CASE v2r_vnc_process_server_cut_text
  <2>1. s2p # <<>> /\ Head(s2p).type = "cut_text" /\ Answer(<<>>, colour_map)
    BY <1>8 DEF v2r_vnc_process_server_cut_text, VncReads
  <2>2. <<>> \in Streams(Messages) /\ Become(DrawTurn, <<>>) = <<>>
    BY <1>2, <2>1, DrawNothing
  <2> QED
    BY <1>1, <2>1, <2>2, AnswerShown
<1>9. CASE VncFails
  BY <1>1, <1>9, LeaveEnds DEF VncFails
<1> QED
  BY <1>3, <1>4, <1>5, <1>6, <1>7, <1>8, <1>9 DEF v2r_vnc_process

(***************************************************************************)
(* The client.                                                             *)
(***************************************************************************)
\* A PDU is put behind the others.
LEMMA PduSent ==
  ASSUME TypeOK, TypeOK', NEW m \in ClientMessages, ClientSends(m)
  PROVE  /\ ToClient' = ToClient
         /\ ToServer' = IF serverOpen THEN ToServer \o EventTurn[m] ELSE ToServer
         /\ ToServer \in Seq(Nat)
         /\ Up' = Up /\ "client" \in Up /\ ("server" \in Up <=> serverOpen)
         /\ UNCHANGED <<screen, sent, shown, received, viewonly>>
<1>1. /\ status = "running" /\ clientOpen /\ c2p' = Append(c2p, m)
      /\ UNCHANGED <<status, clientOpen, serverOpen, viewonly, p2c, s2p, p2s, screen, sent,
                     shown, received>>
  BY DEF ClientSends, proxy, server
<1>2. m \in Inbound
  BY DEF Inbound
<1>3. p2s \in Streams(Inbound) /\ c2p \in Streams(Inbound)
  BY WiresAre
<1>4. One(m) \in Streams(Inbound) /\ Become(EventTurn, One(m)) = EventTurn[m]
  BY <1>2, OneType, EventTurns, BecomeFew
<1>5. Wire(EventTurn, p2s, Cat(c2p, One(m)))
        = Cat(Wire(EventTurn, p2s, c2p), Become(EventTurn, One(m)))
  BY <1>3, <1>4, EventTurns, WirePut
<1>6. c2p' = Cat(c2p, One(m))
  <2>1. Append(c2p, m) = c2p \o <<m>>
    BY <1>2, <1>3, AppendIsConcat DEF Streams
  <2> QED
    BY <1>1, <2>1 DEF Cat, One
<1>7. Wire(EventTurn, p2s', c2p') = Wire(EventTurn, p2s, c2p) \o EventTurn[m]
  BY <1>1, <1>4, <1>5, <1>6 DEF Cat
<1>8. Wire(EventTurn, p2s, c2p) \in Streams(Nat)
  BY <1>3, EventTurns, WireIs
<1>9. ToServer \in Seq(Nat)
  <2>1. Wire(EventTurn, p2s, c2p) \in Seq(Nat) /\ <<>> \in Seq(Nat)
    BY <1>8 DEF Streams
  <2>2. \/ ToServer = Wire(EventTurn, p2s, c2p)
        \/ ToServer = <<>>
    BY WiresAre
  <2> QED
    BY <2>1, <2>2
<1>10. ToClient' = ToClient /\ ToServer' = IF serverOpen THEN ToServer \o EventTurn[m]
                                           ELSE ToServer
  BY <1>1, <1>7, WiresOf
<1>11. Up' = Up /\ "client" \in Up /\ ("server" \in Up <=> serverOpen)
  BY <1>1 DEF Up, Running
<1> QED
  BY <1>1, <1>9, <1>10, <1>11

\* A PDU that brings nothing.
LEMMA QuietPdu ==
  ASSUME TypeOK, TypeOK', NEW m \in ClientMessages, m.type # "input", ClientSends(m)
  PROVE  /\ UNCHANGED <<ToClient, ToServer, Up, screen, sent, shown, received, viewonly>>
         /\ "client" \in Up
<1>1. m \in Inbound /\ m.type # "event"
  BY DEF Inbound, ClientMessages
<1>2. EventTurn[m] = <<>>
  BY <1>1 DEF EventTurn, Brings
<1>3. ToServer \in Seq(Nat)
  BY PduSent
<1>4. ToServer \o <<>> = ToServer
  BY <1>3, ConcatEmptySeq
<1> QED
  BY <1>2, <1>4, PduSent

\* Typing.
LEMMA TypingShown ==
  ASSUME TypeOK, TypeOK', NEW n \in {1, 2}, ClientTypes(n)
  PROVE  Remote!Type
<1> DEFINE m == Input(typed + 1, typed + n)
<1>1. ClientSends(m) /\ typed' = typed + n /\ minimised' = minimised
  BY DEF ClientTypes
<1>2. m \in ClientMessages /\ m.type = "input" /\ m.from = typed + 1 /\ m.to = typed + n
  BY DEF Input, ClientMessages, TypeOK
<1>3. EventTurn[m] = IF viewonly THEN <<>> ELSE [i \in 1..n |-> typed + i]
  <2> HIDE DEF m
  <2>1. EventTurn[m] = [i \in DOMAIN Forwarded(m) |-> Forwarded(m)[i].id]
    BY <1>2 DEF EventTurn, Inbound, Brings
  <2>2. CASE viewonly
    <3>1. Forwarded(m) = <<>>
      BY <2>2 DEF Forwarded
    <3>2. EventTurn[m] = <<>>
      BY <2>1, <3>1
    <3> QED
      BY <2>2, <3>2
  <2>3. CASE ~viewonly
    <3>1. m.to - m.from + 1 = n
      BY <1>2 DEF TypeOK
    <3>2. Forwarded(m) = [i \in 1..n |-> Event(typed + 1 + i - 1)]
      BY <1>2, <2>3, <3>1 DEF Forwarded
    <3>3. \A i \in 1..n : Forwarded(m)[i].id = typed + i
      BY <3>2 DEF Event, TypeOK
    <3>4. DOMAIN Forwarded(m) = 1..n
      BY <3>2
    <3> QED
      BY <2>1, <2>3, <3>3, <3>4
  <2> QED
    BY <2>2, <2>3
<1>4. typed' > typed /\ typed' - typed = n
  BY <1>1 DEF TypeOK
<1> HIDE DEF m
<1>5. ToServer' = IF serverOpen THEN ToServer \o EventTurn[m] ELSE ToServer
  BY <1>1, <1>2, PduSent
<1>6. ToServer \o <<>> = ToServer
  <2>1. ToServer \in Seq(Nat)
    BY <1>1, <1>2, PduSent
  <2> QED
    BY <2>1, ConcatEmptySeq
<1>7. ToServer' = IF viewonly \/ "server" \notin Up THEN ToServer
                  ELSE ToServer \o [i \in 1..(typed' - typed) |-> typed + i]
  <2>1. "server" \in Up <=> serverOpen
    BY <1>1, <1>2, PduSent
  <2> QED
    BY <1>3, <1>4, <1>5, <1>6, <2>1
<1>8. "client" \in Up
      /\ UNCHANGED <<Up, ToClient, screen, sent, shown, received, viewonly>>
  BY <1>1, <1>2, PduSent
<1> QED
  BY <1>1, <1>4, <1>7, <1>8 DEF Remote!Type

\* The client reads what it draws, or what it does not.
LEMMA ReadingShown ==
  ASSUME TypeOK, TypeOK', ClientReads
  PROVE  Remote!Deliver \/ UNCHANGED Remote!vars
<1>1. /\ status = "running" /\ clientOpen /\ p2c # <<>> /\ p2c' = Tail(p2c)
      /\ UNCHANGED <<status, clientOpen, serverOpen, viewonly, c2p, s2p, p2s, screen, sent,
                     minimised, typed, received>>
  BY DEF ClientReads, proxy, server
<1>2. PICK m \in OutputMessages : m = Head(p2c)
  BY <1>1, TailOf DEF TypeOK
<1>3. m \in Messages
  BY DEF Messages
<1>4. Wire(DrawTurn, p2c, s2p) = Cat(DrawTurn[m], Wire(DrawTurn, p2c', s2p'))
  BY <1>1, <1>2, DrawTurns, WiresAre, WireRead
<1>5. Wire(DrawTurn, p2c', s2p') \in Streams(Strokes)
  BY WiresOf, DrawTurns, WireIs, <1>1
<1>6. ToClient = Wire(DrawTurn, p2c, s2p) /\ ToClient' = Wire(DrawTurn, p2c', s2p')
      /\ ToServer' = ToServer
  BY <1>1, WiresOf
<1>7. "client" \in Up /\ Up' = Up
  BY <1>1 DEF Up, Running
<1>8. CASE m.type \in {"bitmap", "scrblt"}
  <2>1. m \in Strokes
    BY <1>8 DEF OutputMessages, Strokes
  <2>2. DrawTurn[m] = One(m)
    BY <1>3, <1>8 DEF DrawTurn, Draws, One
  <2>3. PICK t \in Streams(Strokes) : t = Wire(DrawTurn, p2c', s2p')
    BY <1>5
  <2>4. t \in Streams(Strokes)
    BY <2>3
  <2>5. Cat(One(m), t) # <<>> /\ Head(Cat(One(m), t)) = m /\ Tail(Cat(One(m), t)) = t
    BY <2>1, <2>4, RestOf
  <2>6. ToClient # <<>> /\ Head(ToClient) = m /\ ToClient' = Tail(ToClient)
    BY <1>4, <1>6, <2>2, <2>3, <2>5
  <2>7. shown' = IF minimised THEN shown ELSE Remote!Draw(shown, m)
    BY <1>2, <1>8 DEF ClientReads, Remote!Draw
  <2> QED
    BY <1>1, <1>6, <1>7, <2>6, <2>7 DEF Remote!Deliver
<1>9. CASE m.type \notin {"bitmap", "scrblt"}
  <2>1. DrawTurn[m] = <<>>
    <3>1. m.type \notin {"raw", "copyrect"}
      BY DEF OutputMessages
    <3> QED
      BY <1>3, <1>9, <3>1 DEF DrawTurn, Draws
  <2>2. ToClient' = ToClient
    BY <1>4, <1>5, <1>6, <2>1, CatNone
  <2>3. shown' = shown
    BY <1>2, <1>9 DEF ClientReads
  <2> QED
    BY <1>1, <1>6, <1>7, <2>2, <2>3 DEF Remote!vars
<1> QED
  BY <1>8, <1>9

\* What is left of a wire of which the end is cut off.
LEMMA WireCut ==
  ASSUME NEW M, NEW S, NEW g, Turns(g, M, S), NEW s \in Streams(M), NEW t \in Streams(M),
         NEW n \in 0..Len(t)
  PROVE  IsPrefix(Wire(g, s, SubSeq(t, 1, n)), Wire(g, s, t))
<1>1. PICK u \in Streams(M) : u = SubSeq(t, 1, n)
  BY CutOff
<1>2. PICK v \in Streams(M) : t = Cat(u, v)
  BY <1>1, CutOff
<1>3. u \in Streams(M) /\ v \in Streams(M)
  BY <1>1, <1>2
<1>4. Wire(g, s, Cat(u, v)) = Cat(Wire(g, s, u), Become(g, v))
  BY <1>3, WirePut
<1>5. Wire(g, s, u) \in Streams(S)
  BY <1>3, WireIs
<1>6. Become(g, v) \in Streams(S)
  BY <1>3, BecomeType
<1>7. IsPrefix(Wire(g, s, u), Cat(Wire(g, s, u), Become(g, v)))
  BY <1>5, <1>6, PrefixCat
<1> QED
  BY <1>1, <1>2, <1>4, <1>7

\* The client goes.
LEMMA ClientClosesShown ==
  ASSUME TypeOK, TypeOK', ClientCloses
  PROVE  Remote!ClientGoes
<1>1. /\ status = "running" /\ clientOpen /\ clientOpen' = FALSE
      /\ \E n \in 0..Len(c2p) : c2p' = SubSeq(c2p, 1, n)
      /\ UNCHANGED <<status, serverOpen, viewonly, s2p, p2s, screen, sent, minimised, shown,
                     typed, received>>
  BY DEF ClientCloses, proxy, server
<1>2. "client" \in Up /\ Up' = Up \ {"client"}
  BY <1>1 DEF Up, Running
<1>3. IsPrefix(Wire(EventTurn, p2s', c2p'), Wire(EventTurn, p2s, c2p))
  BY <1>1, WiresAre, EventTurns, WireCut
<1>4. IsPrefix(<<>>, <<>>)
  BY DEF IsPrefix
<1>5. IsPrefix(ToServer', ToServer)
  BY <1>1, <1>3, <1>4, WiresOf
<1>6. ToClient' = <<>>
  BY <1>1, WiresOf
<1>7. Remote!IsPrefix(ToServer', ToServer)
  BY <1>5 DEF IsPrefix, Remote!IsPrefix
<1> QED
  BY <1>1, <1>2, <1>6, <1>7 DEF Remote!ClientGoes, Remote!Goes

\* The client's steps.
LEMMA ClientShown ==
  ASSUME TypeOK, TypeOK', Client
  PROVE  [Remote!Next]_Remote!vars
<1>1. CASE ClientMinimise \/ ClientRestore
  <2>1. PICK a \in {SUPPRESS_DISPLAY_UPDATES, ALLOW_DISPLAY_UPDATES} :
          ClientSends(Suppress(a)) /\ minimised' = ~minimised /\ typed' = typed
    BY <1>1 DEF ClientMinimise, ClientRestore, TypeOK
  <2>2. Suppress(a) \in ClientMessages /\ Suppress(a).type # "input"
    BY DEF Suppress, ClientMessages
  <2>3. /\ UNCHANGED <<ToClient, ToServer, Up, screen, sent, shown, received, viewonly>>
        /\ "client" \in Up
    BY <2>1, <2>2, QuietPdu
  <2>4. Remote!Resize
    BY <2>1, <2>3 DEF Remote!Resize
  <2> QED
    BY <2>4 DEF Remote!Next
<1>2. ASSUME NEW n \in {1, 2}, ClientTypes(n)
      PROVE  [Remote!Next]_Remote!vars
  BY <1>2, TypingShown DEF Remote!Next
<1>3. CASE ClientSendsOther
  <2>1. PICK m \in {Other, Shutdown, Invalid} : ClientSends(m)
    BY <1>3 DEF ClientSendsOther
  <2>2. m \in ClientMessages /\ m.type # "input"
    BY DEF Other, Shutdown, Invalid, ClientMessages
  <2>3. UNCHANGED <<ToClient, ToServer, Up, screen, sent, shown, received, viewonly>>
    BY <2>1, <2>2, QuietPdu
  <2>4. UNCHANGED Remote!vars
    BY <1>3, <2>3 DEF ClientSendsOther, Remote!vars
  <2> QED
    BY <2>4
<1>4. CASE ClientCloses
  BY <1>4, ClientClosesShown DEF Remote!Next
<1>5. CASE ClientReads
  BY <1>5, ReadingShown DEF Remote!Next
<1> QED
  BY <1>1, <1>2, <1>3, <1>4, <1>5 DEF Client

(***************************************************************************)
(* Drawings, one after another: what a run of Drawing makes of a picture   *)
(* is what the display makes of it.                                        *)
(***************************************************************************)
\* A run is a run of all but the last message, and that.
LEMMA RunLast ==
  ASSUME NEW s \in Streams(Messages), NEW m \in Messages, NEW x \in Pictures,
         NEW z \in Pictures, Run(Drawing, Pictures, Cat(s, One(m)), x, z)
  PROVE  \E y \in Pictures : Run(Drawing, Pictures, s, x, y) /\ z = Drawing[<<y, m>>]
<1>1. PICK n \in Nat : n = Len(s)
  BY DEF Streams
<1>2. /\ Len(Cat(s, One(m))) = n + 1 /\ Cat(s, One(m))[n + 1] = m
      /\ \A i \in 1..n : Cat(s, One(m))[i] = s[i]
  BY <1>1 DEF Cat, One, Streams
<1>3. PICK P \in [0..(n + 1) -> Pictures] :
        /\ P[0] = x /\ P[n + 1] = z
        /\ \A i \in 1..(n + 1) : P[i] = Drawing[<<P[i - 1], Cat(s, One(m))[i]>>]
  BY <1>2 DEF Run
<1> DEFINE Q == [i \in 0..n |-> P[i]]
<1>4. Q \in [0..n -> Pictures] /\ Q[0] = x /\ Q[n] = P[n] /\ P[n] \in Pictures
  BY <1>3
<1>5. ASSUME NEW i \in 1..n
      PROVE  Q[i] = Drawing[<<Q[i - 1], s[i]>>]
  <2>1. P[i] = Drawing[<<P[i - 1], Cat(s, One(m))[i]>>]
    BY <1>3
  <2>2. Q[i] = P[i] /\ Q[i - 1] = P[i - 1]
    OBVIOUS
  <2> QED
    BY <1>2, <2>1, <2>2
<1> HIDE DEF Q
<1>6. Run(Drawing, Pictures, s, x, P[n])
  BY <1>1, <1>4, <1>5, RunBy
<1>7. z = Drawing[<<P[n], m>>]
  <2>1. n + 1 \in 1..(n + 1) /\ (n + 1) - 1 = n
    OBVIOUS
  <2> QED
    BY <1>2, <1>3, <2>1
<1> QED
  BY <1>4, <1>6, <1>7

\* A message and what it draws show the same.
LEMMA TurnShows ==
  ASSUME NEW p \in Pictures, NEW m \in Messages
  PROVE  Run(Drawing, Pictures, DrawTurn[m], p, Drawing[<<p, m>>])
<1>1. CASE m.type \in {"bitmap", "scrblt"}
  <2>1. DrawTurn[m] = <<m>>
    BY <1>1 DEF DrawTurn, Draws
  <2> QED
    BY <2>1, RunOne, DrawingType
<1>2. CASE m.type \in {"raw", "copyrect"}
  <2>1. m \in Rectangles
    BY <1>2 DEF Messages, ServerMessages, OutputMessages, Rectangles
  <2>2. Drawn(m) \in Messages /\ Drawing[<<p, Drawn(m)>>] = Drawing[<<p, m>>]
    BY <2>1, DrawnShows
  <2>3. DrawTurn[m] = <<Drawn(m)>>
    BY <1>2 DEF DrawTurn, Draws
  <2>4. Run(Drawing, Pictures, <<Drawn(m)>>, p, Drawing[<<p, Drawn(m)>>])
    BY <2>2, RunOne, DrawingType
  <2> QED
    BY <2>2, <2>3, <2>4
<1>3. CASE m.type \notin {"bitmap", "scrblt", "raw", "copyrect"}
  <2>1. DrawTurn[m] = <<>>
    BY <1>3 DEF DrawTurn, Draws
  <2>2. Drawing[<<p, m>>] = p
    BY <1>3, DrawsNothing
  <2> QED
    BY <2>1, <2>2, RunEmpty
<1> QED
  BY <1>1, <1>2, <1>3

\* Nor does it matter whether a whole stream has been translated.
LEMMA BecomeShows ==
  ASSUME NEW s \in Streams(Messages), NEW x \in Pictures, NEW y \in Pictures,
         Run(Drawing, Pictures, s, x, y)
  PROVE  Run(Drawing, Pictures, Become(DrawTurn, s), x, y)
<1> DEFINE T == {u \in Streams(Messages) : \A z \in Pictures :
                           Run(Drawing, Pictures, u, x, z) =>
                             Run(Drawing, Pictures, Become(DrawTurn, u), x, z)}
<1>1. <<>> \in T
  <2>1. Become(DrawTurn, <<>>) = <<>>
    BY DrawTurns, BecomeFew
  <2>2. <<>> \in Streams(Messages)
    BY OneType
  <2> QED
    BY <2>1, <2>2
<1>2. ASSUME NEW v \in Streams(Messages), NEW m \in Messages, v \in T
      PROVE  Cat(v, One(m)) \in T
  <2>1. ASSUME NEW z \in Pictures, Run(Drawing, Pictures, Cat(v, One(m)), x, z)
        PROVE  Run(Drawing, Pictures, Become(DrawTurn, Cat(v, One(m))), x, z)
    <3>1. PICK w \in Pictures : Run(Drawing, Pictures, v, x, w) /\ z = Drawing[<<w, m>>]
      <4> HIDE DEF T
      <4> QED
        BY <2>1, RunLast
    <3>2. Run(Drawing, Pictures, Become(DrawTurn, v), x, w)
      BY <1>2, <3>1
    <3>3. Run(Drawing, Pictures, DrawTurn[m], w, z)
      BY <3>1, TurnShows
    <3>4. Become(DrawTurn, v) \in Seq(Strokes) /\ DrawTurn[m] \in Seq(Strokes)
      BY DrawTurns, BecomeType, TurnType DEF Streams
    <3>5. Run(Drawing, Pictures, Become(DrawTurn, v) \o DrawTurn[m], x, z)
      <4> HIDE DEF T
      <4> QED
        BY <3>2, <3>3, <3>4, RunConcat
    <3>6. Become(DrawTurn, Cat(v, One(m))) = Become(DrawTurn, v) \o DrawTurn[m]
      BY DrawTurns, BecomeLast DEF Cat
    <3> QED
      BY <3>5, <3>6
  <2>2. Cat(v, One(m)) \in Streams(Messages)
    BY CatType, OneType
  <2> QED
    BY <2>1, <2>2
<1>3. s \in T
  <2> HIDE DEF T
  <2> QED
    BY <1>1, <1>2, StreamInduct
<1> QED
  BY <1>3

(***************************************************************************)
(* The display says it with a fold over the positions of a stream, from    *)
(* the last one down: g says what those of a set of positions make of x.   *)
(***************************************************************************)
IsFold(g, n, ds, x) ==
  g = [s \in SUBSET (1..n) |->
         IF s = {} THEN x ELSE Remote!Draw(g[s \ {Max(s)}], ds[Max(s)])]

\* The last of some positions.
LEMMA MaxIs ==
  ASSUME NEW k \in Nat, NEW s \in SUBSET (1..(k + 1)), k + 1 \in s
  PROVE  Max(s) = k + 1
<1>1. \A y \in s : k + 1 >= y
  OBVIOUS
<1>2. Max(s) \in s /\ \A y \in s : Max(s) >= y
  <2>1. \E z \in s : \A y \in s : z >= y
    BY <1>1
  <2>2. Max(s) = CHOOSE z \in s : \A y \in s : z >= y
    BY DEF Max
  <2> QED
    BY <2>1, <2>2
<1>3. Max(s) \in Nat
  <2>1. \A y \in s : y \in Nat
    OBVIOUS
  <2> QED
    BY <1>2, <2>1
<1> QED
  BY <1>1, <1>2, <1>3

\* There is such a fold.
LEMMA FoldExists ==
  ASSUME NEW n \in Nat, NEW ds, NEW x
  PROVE  \E g : IsFold(g, n, ds, x)
<1> DEFINE K == {k \in Nat : \E g : IsFold(g, k, ds, x)}
<1>1. 0 \in K
  <2> DEFINE g == [s \in SUBSET (1..0) |-> x]
  <2>1. \A s \in SUBSET (1..0) : s = {}
    OBVIOUS
  <2>2. IsFold(g, 0, ds, x)
    BY <2>1 DEF IsFold
  <2> QED
    BY <2>2
<1>2. ASSUME NEW k \in Nat, k \in K
      PROVE  k + 1 \in K
  <2>1. PICK g : IsFold(g, k, ds, x)
    BY <1>2
  <2>2. \A s \in SUBSET (1..k) :
          g[s] = IF s = {} THEN x ELSE Remote!Draw(g[s \ {Max(s)}], ds[Max(s)])
    BY <2>1 DEF IsFold
  <2> DEFINE h == [s \in SUBSET (1..(k + 1)) |->
                     IF k + 1 \in s THEN Remote!Draw(g[s \ {k + 1}], ds[k + 1]) ELSE g[s]]
  <2>3. ASSUME NEW s \in SUBSET (1..(k + 1))
        PROVE  h[s] = IF s = {} THEN x ELSE Remote!Draw(h[s \ {Max(s)}], ds[Max(s)])
    <3>1. CASE k + 1 \in s
      <4>1. Max(s) = k + 1
        BY <3>1, MaxIs
      <4>2. h[s \ {k + 1}] = g[s \ {k + 1}]
        OBVIOUS
      <4>3. h[s] = Remote!Draw(g[s \ {k + 1}], ds[k + 1]) /\ s # {}
        BY <3>1
      <4> QED
        BY <4>1, <4>2, <4>3
    <3>2. CASE k + 1 \notin s
      <4>1. s \in SUBSET (1..k) /\ h[s] = g[s]
        BY <3>2
      <4>2. h[s \ {Max(s)}] = g[s \ {Max(s)}]
        BY <3>2
      <4> HIDE DEF h
      <4> QED
        BY <2>2, <4>1, <4>2
    <3> QED
      BY <3>1, <3>2
  <2>4. h = [s \in SUBSET (1..(k + 1)) |-> h[s]]
    OBVIOUS
  <2> HIDE DEF h
  <2>5. IsFold(h, k + 1, ds, x)
    BY <2>3, <2>4 DEF IsFold
  <2> QED
    BY <2>5
<1>3. n \in K
  <2> HIDE DEF K
  <2> QED
    BY <1>1, <1>2, NatInduct
<1> QED
  BY <1>3

\* What a stroke makes of a picture.
LEMMA StrokeDraws ==
  ASSUME NEW p \in Pictures, NEW d \in Strokes
  PROVE  d \in Messages /\ Remote!Draw(p, d) = Drawing[<<p, d>>]
<1>1. d \in Messages
  BY DEF Strokes, Messages, OutputMessages
<1>2. Shows(p, d) = Remote!Draw(p, d)
  BY DEF Shows, Remote!Draw, Strokes
<1> QED
  BY <1>1, <1>2 DEF Drawing

\* The drawings of a run make of a picture what the run makes of it.
LEMMA RunDraws ==
  ASSUME NEW ds \in Seq(Strokes), NEW x \in Pictures, NEW y \in Pictures,
         Run(Drawing, Pictures, ds, x, y)
  PROVE  Remote!Drawings(x, ds) = y
<1>1. PICK n \in Nat : n = Len(ds)
  OBVIOUS
<1>2. DOMAIN ds = 1..n
  BY <1>1
<1>3. PICK P \in [0..n -> Pictures] :
        /\ P[0] = x /\ P[n] = y
        /\ \A i \in 1..n : P[i] = Drawing[<<P[i - 1], ds[i]>>]
  BY <1>1 DEF Run
<1> DEFINE G == CHOOSE g : IsFold(g, n, ds, x)
<1>4. IsFold(G, n, ds, x)
  BY FoldExists
<1>5. Remote!Drawings(x, ds) = G[1..n]
  <2>1. Remote!Drawings(x, ds)
          = (CHOOSE f : f = [s \in SUBSET DOMAIN ds |->
               IF s = {} THEN x ELSE Remote!Draw(f[s \ {Max(s)}], ds[Max(s)])])[DOMAIN ds]
    BY DEF Remote!Drawings, Remote!FoldLeft, Remote!MapThenFoldSet, FoldLeft,
           MapThenFoldSet, Max, Remote!Max
  <2> QED
    BY <1>2, <2>1 DEF IsFold
<1> HIDE DEF G
<1>6. \A s \in SUBSET (1..n) :
        G[s] = IF s = {} THEN x ELSE Remote!Draw(G[s \ {Max(s)}], ds[Max(s)])
  BY <1>4 DEF IsFold
<1> DEFINE K == {k \in Nat : k <= n => G[1..k] = P[k]}
<1>7. 0 \in K
  <2>1. 1..0 = {} /\ {} \in SUBSET (1..n)
    OBVIOUS
  <2> QED
    BY <1>3, <1>6, <2>1
<1>8. ASSUME NEW k \in Nat, k \in K
      PROVE  k + 1 \in K
  <2> SUFFICES ASSUME k + 1 <= n
               PROVE  G[1..(k + 1)] = P[k + 1]
    OBVIOUS
  <2>1. G[1..k] = P[k]
    BY <1>8
  <2> DEFINE s == 1..(k + 1)
  <2>2. s \in SUBSET (1..n) /\ s # {} /\ k + 1 \in s /\ s \in SUBSET (1..(k + 1))
    OBVIOUS
  <2>3. s \ {k + 1} = 1..k
    OBVIOUS
  <2> HIDE DEF s, K
  <2>4. Max(s) = k + 1
    BY <2>2, MaxIs
  <2>5. G[s] = Remote!Draw(P[k], ds[k + 1])
    BY <1>6, <2>1, <2>2, <2>3, <2>4
  <2>6. k + 1 \in 1..n /\ (k + 1) - 1 = k /\ k \in 0..n
    OBVIOUS
  <2>7. P[k + 1] = Drawing[<<P[k], ds[k + 1]>>] /\ P[k] \in Pictures
    BY <1>3, <2>6
  <2>8. ds[k + 1] \in Strokes
    BY <1>1, <2>6
  <2>9. Remote!Draw(P[k], ds[k + 1]) = Drawing[<<P[k], ds[k + 1]>>]
    BY <2>7, <2>8, StrokeDraws
  <2> QED
    BY <2>5, <2>7, <2>9 DEF s
<1>9. n \in K
  <2> HIDE DEF K
  <2> QED
    BY <1>7, <1>8, NatInduct
<1> QED
  BY <1>3, <1>5, <1>9

(***************************************************************************)
(* The server.                                                             *)
(***************************************************************************)
\* Messages are put behind the others.
LEMMA NewsSent ==
  ASSUME TypeOK, TypeOK', status = "running", NEW news \in Streams(Messages),
         s2p' = Cat(s2p, news),
         UNCHANGED <<status, clientOpen, serverOpen, viewonly, p2c, c2p, p2s>>
  PROVE  /\ ToClient' = IF clientOpen THEN ToClient \o Become(DrawTurn, news) ELSE <<>>
         /\ clientOpen \/ ToClient = <<>>
         /\ ToClient \in Streams(Strokes)
         /\ ToServer' = ToServer /\ Up' = Up
<1>1. p2c \in Streams(Messages) /\ s2p \in Streams(Messages)
  BY WiresAre
<1>2. Wire(DrawTurn, p2c, Cat(s2p, news))
        = Cat(Wire(DrawTurn, p2c, s2p), Become(DrawTurn, news))
  BY <1>1, DrawTurns, WirePut
<1>3. Wire(DrawTurn, p2c', s2p') = Wire(DrawTurn, p2c, s2p) \o Become(DrawTurn, news)
  BY <1>2 DEF Cat
<1>4. Wire(DrawTurn, p2c, s2p) \in Streams(Strokes)
  BY <1>1, DrawTurns, WireIs
<1>5. <<>> \in Streams(Strokes)
  BY OneType
<1>6. ToClient = (IF clientOpen THEN Wire(DrawTurn, p2c, s2p) ELSE <<>>)
      /\ ToClient' = (IF clientOpen THEN Wire(DrawTurn, p2c', s2p') ELSE <<>>)
      /\ ToServer' = ToServer
  BY WiresOf
<1>7. Up' = Up
  BY DEF Up, Running
<1> QED
  BY <1>3, <1>4, <1>5, <1>6, <1>7

\* A message that draws nothing.
LEMMA QuietNews ==
  ASSUME TypeOK, TypeOK', NEW m \in ServerMessages, m.type \notin {"raw", "copyrect"},
         ServerNotifies(m)
  PROVE  UNCHANGED Remote!vars
<1>1. /\ status = "running" /\ s2p' = Append(s2p, m)
      /\ UNCHANGED <<status, clientOpen, serverOpen, viewonly, p2c, c2p, p2s, screen, sent,
                     minimised, shown, typed, received>>
  BY DEF ServerNotifies, proxy, client
<1>2. m \in Messages /\ m.type \notin {"bitmap", "scrblt"}
  BY DEF Messages, ServerMessages, Rectangles
<1>3. One(m) \in Streams(Messages) /\ Become(DrawTurn, One(m)) = <<>>
  BY <1>2, DrawNothing DEF One
<1>4. s2p' = Cat(s2p, One(m))
  BY <1>1, AppendIsConcat DEF TypeOK, Cat, One
<1>5. /\ ToClient' = IF clientOpen THEN ToClient \o Become(DrawTurn, One(m)) ELSE <<>>
      /\ clientOpen \/ ToClient = <<>>
      /\ ToClient \in Streams(Strokes)
      /\ ToServer' = ToServer /\ Up' = Up
  BY <1>1, <1>3, <1>4, NewsSent
<1>6. ToClient \o <<>> = ToClient
  BY <1>5, CatNone DEF Cat
<1>7. ToClient' = ToClient
  BY <1>3, <1>5, <1>6
<1> QED
  BY <1>1, <1>5, <1>7 DEF Remote!vars

\* An update.
LEMMA UpdateShown ==
  ASSUME TypeOK, TypeOK', ServerUpdates
  PROVE  Remote!Update
<1>1. /\ status = "running" /\ serverOpen /\ sent' = screen
      /\ UNCHANGED <<status, clientOpen, serverOpen, viewonly, p2c, c2p, p2s, screen,
                     minimised, shown, typed, received>>
  BY DEF ServerUpdates, proxy, client
<1>2. PICK news \in Seq(Messages) :
        s2p' = s2p \o news /\ Run(Drawing, Pictures, news, sent, screen)
  BY UpdateShows
<1>3. news \in Streams(Messages) /\ s2p' = Cat(s2p, news)
  BY <1>2 DEF Streams, Cat
<1>4. /\ ToClient' = IF clientOpen THEN ToClient \o Become(DrawTurn, news) ELSE <<>>
      /\ clientOpen \/ ToClient = <<>>
      /\ ToClient \in Streams(Strokes)
      /\ ToServer' = ToServer /\ Up' = Up
  BY <1>1, <1>3, NewsSent
<1>5. {"server", "session"} \subseteq Up /\ ("client" \in Up <=> clientOpen)
  BY <1>1 DEF Up, Running
<1>6. PICK ds \in Streams(Strokes) : ds = Become(DrawTurn, news)
  BY <1>3, DrawTurns, BecomeType
<1>7. ds \in Streams(Strokes)
  BY <1>6
<1>8. sent \in Pictures /\ screen \in Pictures
  BY DEF TypeOK, Screens, Pictures
<1>9. Run(Drawing, Pictures, ds, sent, screen)
  BY <1>2, <1>3, <1>6, <1>8, BecomeShows
<1>10. Remote!Drawings(sent, ds) = screen
  BY <1>7, <1>8, <1>9, RunDraws DEF Streams
<1>11. ASSUME clientOpen
       PROVE  /\ Remote!IsPrefix(ToClient, ToClient')
              /\ Remote!Drawings(sent, Remote!Sent(ToClient, ToClient')) = screen
  <2>1. PICK w \in Streams(Strokes) : w = ToClient
    BY <1>4
  <2>2. w \in Streams(Strokes)
    BY <2>1
  <2>3. IsPrefix(w, Cat(w, ds)) /\ SubSeq(Cat(w, ds), Len(w) + 1, Len(Cat(w, ds))) = ds
    BY <1>7, <2>2, PrefixCat
  <2>4. ToClient' = Cat(w, ds)
    BY <1>4, <1>6, <1>11, <2>1 DEF Cat
  <2>5. Remote!Sent(ToClient, ToClient') = ds
    BY <2>1, <2>3, <2>4 DEF Remote!Sent
  <2>6. Remote!IsPrefix(ToClient, ToClient')
    BY <2>1, <2>3, <2>4 DEF IsPrefix, Remote!IsPrefix
  <2> QED
    BY <1>10, <2>5, <2>6
<1>12. ~clientOpen => ToClient' = <<>>
  BY <1>4
<1> QED
  BY <1>1, <1>4, <1>5, <1>11, <1>12 DEF Remote!Update

\* The server reads an event, or a request.
LEMMA ServerReadsShown ==
  ASSUME TypeOK, TypeOK', ServerReads
  PROVE  Remote!Receive \/ UNCHANGED Remote!vars
<1>1. /\ status = "running" /\ serverOpen /\ p2s # <<>> /\ p2s' = Tail(p2s)
      /\ received' = IF Head(p2s).type = "event" THEN Head(p2s).id ELSE received
      /\ UNCHANGED <<status, clientOpen, serverOpen, viewonly, c2p, s2p, p2c, screen, sent,
                     minimised, typed, shown>>
  BY DEF ServerReads, proxy, client
<1>2. PICK m \in RequestMessages : m = Head(p2s)
  BY <1>1, TailOf DEF TypeOK
<1>3. m \in Inbound /\ m.type # "input"
  BY DEF Inbound, RequestMessages
<1>4. Wire(EventTurn, p2s, c2p) = Cat(EventTurn[m], Wire(EventTurn, p2s', c2p'))
  BY <1>1, <1>2, EventTurns, WiresAre, WireRead
<1>5. Wire(EventTurn, p2s', c2p') \in Streams(Nat)
  BY <1>1, WiresOf, EventTurns, WireIs
<1>6. ToServer = Wire(EventTurn, p2s, c2p) /\ ToServer' = Wire(EventTurn, p2s', c2p')
      /\ ToClient' = ToClient
  BY <1>1, WiresOf
<1>7. "server" \in Up /\ Up' = Up
  BY <1>1 DEF Up, Running
<1>8. CASE m.type = "event"
  <2>1. PICK k \in Nat : k = m.id
    BY <1>8 DEF RequestMessages
  <2>2. EventTurn[m] = One(k)
    BY <1>3, <1>8, <2>1 DEF EventTurn, Brings, One
  <2>3. PICK t \in Streams(Nat) : t = Wire(EventTurn, p2s', c2p')
    BY <1>5
  <2>4. t \in Streams(Nat) /\ k \in Nat
    BY <2>1, <2>3
  <2>5. Cat(One(k), t) # <<>> /\ Head(Cat(One(k), t)) = k /\ Tail(Cat(One(k), t)) = t
    BY <2>4, RestOf
  <2>6. ToServer # <<>> /\ Head(ToServer) = k /\ ToServer' = Tail(ToServer)
    BY <1>4, <1>6, <2>2, <2>3, <2>5
  <2>7. received' = k
    BY <1>1, <1>2, <1>8, <2>1
  <2> QED
    BY <1>1, <1>6, <1>7, <2>6, <2>7 DEF Remote!Receive
<1>9. CASE m.type # "event"
  <2>1. EventTurn[m] = <<>>
    BY <1>3, <1>9 DEF EventTurn, Brings
  <2>2. ToServer' = ToServer
    BY <1>4, <1>5, <1>6, <2>1, CatNone
  <2>3. received' = received
    BY <1>1, <1>2, <1>9
  <2> QED
    BY <1>1, <1>6, <1>7, <2>2, <2>3 DEF Remote!vars
<1> QED
  BY <1>8, <1>9

\* The server goes.
LEMMA ServerClosesShown ==
  ASSUME TypeOK, TypeOK', ServerCloses
  PROVE  Remote!ServerGoes
<1>1. /\ status = "running" /\ serverOpen /\ serverOpen' = FALSE
      /\ \E n \in 0..Len(s2p) : s2p' = SubSeq(s2p, 1, n)
      /\ UNCHANGED <<status, clientOpen, viewonly, c2p, p2c, screen, sent, minimised, shown,
                     typed, received>>
  BY DEF ServerCloses, proxy, client
<1>2. "server" \in Up /\ Up' = Up \ {"server"}
  BY <1>1 DEF Up, Running
<1>3. IsPrefix(Wire(DrawTurn, p2c', s2p'), Wire(DrawTurn, p2c, s2p))
  BY <1>1, WiresAre, DrawTurns, WireCut
<1>4. IsPrefix(<<>>, <<>>)
  BY DEF IsPrefix
<1>5. IsPrefix(ToClient', ToClient)
  BY <1>1, <1>3, <1>4, WiresOf
<1>6. ToServer' = <<>>
  BY <1>1, WiresOf
<1>7. Remote!IsPrefix(ToClient', ToClient)
  BY <1>5 DEF IsPrefix, Remote!IsPrefix
<1> QED
  BY <1>1, <1>2, <1>6, <1>7 DEF Remote!ServerGoes, Remote!Goes

\* The server's steps.
LEMMA ServerShown ==
  ASSUME TypeOK, TypeOK', Server
  PROVE  [Remote!Next]_Remote!vars
<1>1. ASSUME NEW t \in Tiles, NEW c \in Contents, ServerPaints(t, c)
      PROVE  Remote!Next
  <2>1. /\ status = "running" /\ serverOpen /\ screen' = [screen EXCEPT ![t] = c]
        /\ UNCHANGED <<status, clientOpen, serverOpen, viewonly, c2p, p2c, s2p, p2s, sent,
                       minimised, shown, typed, received>>
    BY <1>1 DEF ServerPaints, proxy, client
  <2>2. ToClient' = ToClient /\ ToServer' = ToServer
    BY <2>1, WiresOf
  <2>3. "server" \in Up /\ Up' = Up
    BY <2>1 DEF Up, Running
  <2>4. Remote!Paint
    BY <2>1, <2>2, <2>3 DEF Remote!Paint
  <2> QED
    BY <2>4 DEF Remote!Next
<1>2. CASE ServerReads
  BY <1>2, ServerReadsShown DEF Remote!Next
<1>3. CASE ServerUpdates
  BY <1>3, UpdateShown DEF Remote!Next
<1>4. CASE ServerSetsColours
  <2>1. PICK S \in SUBSET Entries : \E f \in [S -> Colours] : ServerNotifies(SetColours(f))
    BY <1>4 DEF ServerSetsColours
  <2>2. PICK f \in [S -> Colours] : ServerNotifies(SetColours(f))
    BY <2>1
  <2>3. SetColours(f) \in ServerMessages /\ SetColours(f).type = "colours"
    BY DEF SetColours, ServerMessages
  <2>4. UNCHANGED Remote!vars
    BY <2>2, <2>3, QuietNews
  <2> QED
    BY <2>4
<1>5. CASE ServerSendsOther
  <2>1. PICK m \in {Bell, CutText(0), CutText(1), Unknown} : ServerNotifies(m)
    BY <1>5 DEF ServerSendsOther
  <2>2. m \in ServerMessages /\ m.type \notin {"raw", "copyrect"}
    BY DEF Bell, CutText, Unknown, ServerMessages
  <2>3. UNCHANGED Remote!vars
    BY <2>1, <2>2, QuietNews
  <2> QED
    BY <2>3
<1>6. CASE ServerCloses
  BY <1>6, ServerClosesShown DEF Remote!Next
<1> QED
  BY <1>1, <1>2, <1>3, <1>4, <1>5, <1>6 DEF Server

(***************************************************************************)
(* The refinement.                                                         *)
(***************************************************************************)
\* Every step is one of the display, or none.
LEMMA StepShown ==
  ASSUME TypeOK, TypeOK', InStep, [Next]_vars
  PROVE  [Remote!Next]_Remote!vars
<1>1. CASE UNCHANGED vars
  <2>1. UNCHANGED <<status, clientOpen, serverOpen, screen, sent, minimised, shown, typed,
                    received, viewonly, c2p, p2c, s2p, p2s>>
    BY <1>1 DEF vars, proxy, client, server
  <2> QED
    BY <2>1, Unseen
<1>2. CASE Client
  BY <1>2, ClientShown
<1>3. CASE Server
  BY <1>3, ServerShown
<1>4. ASSUME NEW fd \in {"rdp", "vnc"}, EpollWait(fd)
      PROVE  UNCHANGED Remote!vars
  <2>1. UNCHANGED <<status, clientOpen, serverOpen, screen, sent, minimised, shown, typed,
                    received, viewonly, c2p, p2c, s2p, p2s>>
    BY <1>4 DEF EpollWait, client, server
  <2> QED
    BY <2>1, Unseen
<1>5. CASE Interrupted
  BY <1>5, LeaveEnds DEF Interrupted, Remote!Next
<1>6. CASE v2r_rdp_process
  BY <1>6, RdpShown DEF Remote!Next
<1>7. CASE v2r_vnc_process
  BY <1>7, VncShown DEF Remote!Next
<1> QED
  BY <1>1, <1>2, <1>3, <1>4, <1>5, <1>6, <1>7 DEF Next, v2r_session_transmit

\* A session begins with a display that shows nothing, and a request no wire carries.
LEMMA InitShown == Init => Remote!Init
<1> SUFFICES ASSUME Init
             PROVE  Remote!Init
  OBVIOUS
<1>1. TypeOK
  BY InitType
<1>2. status = "running" /\ clientOpen /\ serverOpen /\ c2p = <<>> /\ p2c = <<>>
      /\ s2p = <<>> /\ p2s = <<Request(FALSE)>>
  BY DEF Init
<1>3. Up = {"client", "server", "session"}
  BY <1>2 DEF Up, Running
<1>4. ToClient = <<>>
  <2>1. Cat(<<>>, <<>>) = <<>>
    BY OneType, CatNone
  <2>2. Become(DrawTurn, <<>>) = <<>>
    BY DrawTurns, BecomeFew
  <2> QED
    BY <1>1, <1>2, <2>1, <2>2, WiresAre DEF Wire
<1>5. ToServer = <<>>
  <2>1. Request(FALSE) \in Inbound /\ Request(FALSE).type = "request"
    BY DEF Request, RequestMessages, Inbound
  <2>2. EventTurn[Request(FALSE)] = <<>>
    BY <2>1 DEF EventTurn, Brings
  <2>3. Become(EventTurn, One(Request(FALSE))) = <<>>
    BY <1>1, <2>1, <2>2, EventTurns, BecomeFew
  <2>4. Cat(One(Request(FALSE)), <<>>) = One(Request(FALSE))
    BY <2>1, OneType, CatNone
  <2>5. p2s = One(Request(FALSE))
    BY <1>2 DEF One
  <2> QED
    BY <1>1, <1>2, <2>3, <2>4, <2>5, WiresAre DEF Wire
<1>6. screen \in [Tiles -> Contents] /\ viewonly \in BOOLEAN
  BY <1>1 DEF TypeOK, Screens
<1> QED
  BY <1>3, <1>4, <1>5, <1>6 DEF Init, Remote!Init

\* A session is a remote display: whatever session.c reads first and whatever its peers
\* do, no drawing and no event is lost, repeated, changed or overtaken on its way through
\* the proxy, and when a peer goes only what was sent last is lost.
THEOREM SessionImplements == Spec => Implements
<1>1. Init => Remote!Init
  BY InitShown
<1>2. TypeOK /\ InStep /\ TypeOK' /\ [Next]_vars => [Remote!Next]_Remote!vars
  BY StepShown
<1>3. Spec => Remote!Init /\ [][Remote!Next]_Remote!vars
  BY <1>1, <1>2, SafeInv, PTL DEF Spec
<1> QED
  BY <1>3 DEF Implements, Remote!Spec
=============================================================================
