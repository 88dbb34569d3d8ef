---------------------------- MODULE SessionProof ----------------------------
(***************************************************************************)
(* Proofs about Session, for all values of its constants: the types, that  *)
(* the streams stay in step, that the chain of requests is not broken,     *)
(* that the picture follows, that input arrives once and in order, that    *)
(* requests drain while output is suppressed, and that a session ends for  *)
(* a reason.                                                               *)
(***************************************************************************)
EXTENDS Session, StreamLemmas, FiniteSetTheorems

(***************************************************************************)
(* Streams.                                                                *)
(***************************************************************************)

\* The first message of a stream that is not empty, and the rest.
LEMMA TailOf ==
  ASSUME NEW S, NEW s \in Seq(S), s # <<>>
  PROVE  /\ Head(s) \in S /\ Head(s) = s[1] /\ 1 \in DOMAIN s
         /\ Tail(s) \in Seq(S)
         /\ DOMAIN Tail(s) = 1..Len(s) - 1
         /\ \A i \in 1..Len(s) - 1 : Tail(s)[i] = s[i + 1]
         /\ DOMAIN s = 1..Len(s) /\ Len(s) \in Nat \ {0}
<1>1. /\ Head(s) \in S /\ Tail(s) \in Seq(S) /\ Len(Tail(s)) = Len(s) - 1
      /\ \A i \in 1..Len(Tail(s)) : Tail(s)[i] = s[i + 1]
  BY HeadTailProperties
<1>2. Len(s) \in Nat \ {0}
  BY EmptySeq
<1> QED
  BY <1>1, <1>2, LenProperties

\* Where the messages of two streams are in their concatenation.
LEMMA ConcatOf ==
  ASSUME NEW S, NEW s \in Seq(S), NEW t \in Seq(S)
  PROVE  /\ s \o t \in Seq(S)
         /\ DOMAIN (s \o t) = 1..Len(s) + Len(t)
         /\ DOMAIN s = 1..Len(s) /\ DOMAIN t = 1..Len(t)
         /\ Len(s) \in Nat /\ Len(t) \in Nat
         /\ \A i \in 1..Len(s) : (s \o t)[i] = s[i]
         /\ \A i \in 1..Len(t) : (s \o t)[Len(s) + i] = t[i]
<1>1. /\ s \o t \in Seq(S) /\ Len(s \o t) = Len(s) + Len(t)
      /\ \A i \in 1 .. Len(s) + Len(t) : (s \o t)[i] =
           IF i <= Len(s) THEN s[i] ELSE t[i - Len(s)]
  BY ConcatProperties
<1>2. Len(s) \in Nat /\ Len(t) \in Nat
  BY LenProperties
<1> QED
  BY <1>1, <1>2, LenProperties

\* A stream of one message.
LEMMA SingletonOf ==
  ASSUME NEW S, NEW e \in S
  PROVE  <<e>> \in Seq(S) /\ Len(<<e>>) = 1 /\ <<e>>[1] = e /\ <<>> \in Seq(S)
  OBVIOUS

\* Where the messages of a stream are when one is added.
LEMMA AppendOf ==
  ASSUME NEW S, NEW s \in Seq(S), NEW e \in S
  PROVE  /\ Append(s, e) \in Seq(S)
         /\ DOMAIN Append(s, e) = 1..Len(s) + 1 /\ DOMAIN s = 1..Len(s)
         /\ Len(s) \in Nat
         /\ \A i \in 1..Len(s) : Append(s, e)[i] = s[i]
         /\ Append(s, e)[Len(s) + 1] = e
  BY AppendProperties, LenProperties

\* The beginning of a stream is a stream of the same messages.
LEMMA PrefixOf ==
  ASSUME NEW S, NEW s \in Seq(S), NEW n \in 0..Len(s)
  PROVE  SubSeq(s, 1, n) \in Seq(S)
<1>1. \A i \in 1..n : s[i] \in S
  BY ElementOfSeq, LenProperties
<1> QED
  BY <1>1, SubSeqProperties, LenProperties

\* What a send makes of a stream is a stream of the same messages.
LEMMA PutType ==
  ASSUME NEW S, NEW s \in Seq(S), NEW t \in Seq(S), NEW open
  PROVE  Put(open, s, t) \in Seq(S)
  BY ConcatOf DEF Put
(***************************************************************************)
(* The messages the proxy composes.                                        *)
(***************************************************************************)

\* What v2r_vnc_send_fb_update_req sends are messages to the server.
LEMMA RequestType ==
  ASSUME NEW inc \in BOOLEAN, NEW allowed
  PROVE  v2r_vnc_send_fb_update_req(inc, allowed) \in Seq(RequestMessages)
<1>1. Request(inc) \in RequestMessages
  BY DEF Request, RequestMessages
<1> QED
  BY <1>1, SingletonOf DEF v2r_vnc_send_fb_update_req

\* What an input PDU becomes are messages to the server.
LEMMA InputType ==
  ASSUME TypeOK, NEW m \in ClientMessages, m.type = "input"
  PROVE  Forwarded(m) \in Seq(RequestMessages)
<1>1. m.from \in Nat /\ m.to \in Nat
  BY DEF ClientMessages
<1>2. \A i \in 1..(m.to - m.from + 1) : Event(m.from + i - 1) \in RequestMessages
  BY <1>1 DEF Event, RequestMessages
<1>3. <<>> \in Seq(RequestMessages)
  OBVIOUS
<1>4. CASE m.to - m.from + 1 \in Nat
  <2> DEFINE n == m.to - m.from + 1
             f == [i \in 1..n |-> Event(m.from + i - 1)]
  <2>1. f \in [1..n -> RequestMessages]
    BY <1>2
  <2>2. f \in Seq(RequestMessages)
    BY <1>4, <2>1
  <2> QED
    BY <1>3, <2>2 DEF Forwarded
<1>5. CASE m.to - m.from + 1 \notin Nat
  <2>1. 1..(m.to - m.from + 1) = {}
    BY <1>1, <1>5
  <2>2. [i \in 1..(m.to - m.from + 1) |-> Event(m.from + i - 1)] = <<>>
    BY <2>1
  <2> QED
    BY <1>3, <2>2 DEF Forwarded
<1> QED
  BY <1>4, <1>5

\* What a rectangle becomes is a message to the client.
LEMMA DrawnType ==
  ASSUME NEW r \in Rectangles
  PROVE  Drawn(r) \in OutputMessages
  BY DEF Drawn, Bitmap, Scrblt, Rectangles, OutputMessages

\* A colour map stays one under the entries of a message.
LEMMA OverlayType ==
  ASSUME NEW map \in ColourMap, NEW S \in SUBSET Entries, NEW f \in [S -> Colours]
  PROVE  Overlay(f, map) \in ColourMap
  BY DEF ColourMap, Overlay

\* The rest of a batch of events is a batch, or nothing.
LEMMA TailBatch ==
  ASSUME batch \in Batches
  PROVE  Tail(batch) \in Batches \cup {<<>>}
<1>1. CASE batch = <<"rdp">> \/ batch = <<"vnc">>
  <2>1. Tail(<<"rdp">>) = <<>> /\ Tail(<<"vnc">>) = <<>>
    OBVIOUS
  <2> QED
    BY <1>1, <2>1
<1>2. CASE batch = <<"rdp", "vnc">>
  <2>1. Tail(<<"rdp", "vnc">>) = <<"vnc">>
    OBVIOUS
  <2> QED
    BY <1>2, <2>1 DEF Batches
<1>3. CASE batch = <<"vnc", "rdp">>
  <2>1. Tail(<<"vnc", "rdp">>) = <<"rdp">>
    OBVIOUS
  <2> QED
    BY <1>3, <2>1 DEF Batches
<1> QED
  BY <1>1, <1>2, <1>3 DEF Batches
(***************************************************************************)
(* Every step preserves the types.  A rectangle is drawn from what is read *)
(* where one is expected, so this needs InStep.                            *)
(***************************************************************************)

\* A new session has the right types.
LEMMA InitType == Init => TypeOK
<1> SUFFICES ASSUME Init PROVE TypeOK
  OBVIOUS
<1>1. Request(FALSE) \in RequestMessages
  BY DEF Request, RequestMessages
<1>2. p2s \in Seq(RequestMessages)
  BY <1>1, SingletonOf DEF Init
<1>3. /\ c2p \in Seq(ClientMessages) /\ p2c \in Seq(OutputMessages)
      /\ s2p \in Seq(ServerMessages)
  BY DEF Init
<1>4. /\ colour_map \in ColourMap /\ palette \in ColourMap /\ colours \in ColourMap
      /\ shown \in Pictures /\ sent \in Pictures
  BY DEF Init, Pictures, ColourMap
<1>5. viewonly \in BOOLEAN
  BY ViewOnlyAssumption DEF Init
<1> QED
  BY <1>2, <1>3, <1>4, <1>5 DEF Init, TypeOK

\* Destroying the session keeps the types.
LEMMA LeaveType ==
  ASSUME TypeOK, NEW how \in {"ended", "killed"}, Leave(how)
  PROVE  TypeOK'
  BY DEF Leave, TypeOK, client, server

\* A send that fails keeps the types.
LEMMA SendFailsType ==
  ASSUME TypeOK, NEW open, SendFails(open)
  PROVE  TypeOK'
  BY LeaveType DEF SendFails

\* Going on with the next event of the batch keeps the types.
LEMMA NextEventType ==
  ASSUME TypeOK, NextEvent, batch # <<>>
  PROVE  batch' \in Batches \cup {<<>>} /\ status' = status
  BY TailBatch DEF NextEvent, TypeOK

\* epoll_wait keeps the types.
LEMMA EpollType ==
  ASSUME TypeOK, NEW fd, EpollWait(fd)
  PROVE  TypeOK'
  BY DEF EpollWait, TypeOK, client, server

\* v2r_rdp_process keeps the types.
LEMMA RdpType ==
  ASSUME TypeOK, v2r_rdp_process
  PROVE  TypeOK'
<1>1. CASE v2r_rdp_process_suppress_output
  <2> DEFINE m == Head(c2p)
             req == IF m.allow = ALLOW_DISPLAY_UPDATES
                      THEN v2r_vnc_send_fb_update_req(FALSE, m.allow) ELSE <<>>
  <2>1. m \in ClientMessages /\ Tail(c2p) \in Seq(ClientMessages) /\ batch # <<>>
        /\ m.type = "suppress_output"
    BY <1>1, TailOf DEF v2r_rdp_process_suppress_output, RdpReads, Handling, TypeOK
  <2>2. m.allow \in {SUPPRESS_DISPLAY_UPDATES, ALLOW_DISPLAY_UPDATES}
    BY <2>1 DEF ClientMessages
  <2>3. req \in Seq(RequestMessages)
    <3>1. v2r_vnc_send_fb_update_req(FALSE, m.allow) \in Seq(RequestMessages)
      BY RequestType
    <3>2. <<>> \in Seq(RequestMessages)
      OBVIOUS
    <3> QED
      BY <3>1, <3>2
  <2>4. Put(serverOpen, p2s, req) \in Seq(RequestMessages)
    BY <2>3, PutType DEF TypeOK
  <2>5. CASE SendFails(serverOpen)
    BY <2>5, SendFailsType
  <2>6. CASE /\ allow' = m.allow /\ p2s' = Put(serverOpen, p2s, req)
             /\ c2p' = Tail(c2p) /\ NextEvent
             /\ UNCHANGED <<pc, rects, colour_map, viewonly, p2c, s2p, client, server>>
    <3>1. batch' \in Batches \cup {<<>>} /\ status' = status
      BY <2>1, <2>6, NextEventType
    <3>2. /\ allow' \in {SUPPRESS_DISPLAY_UPDATES, ALLOW_DISPLAY_UPDATES}
          /\ p2s' \in Seq(RequestMessages) /\ c2p' \in Seq(ClientMessages)
      BY <2>1, <2>2, <2>4, <2>6
    <3> HIDE DEF m, req
    <3> QED
      BY <2>6, <3>1, <3>2 DEF TypeOK, client, server
  <2> QED
    BY <1>1, <2>5, <2>6 DEF v2r_rdp_process_suppress_output
<1>2. CASE v2r_input_process
  <2>1. Head(c2p) \in ClientMessages /\ Tail(c2p) \in Seq(ClientMessages)
        /\ batch # <<>> /\ Head(c2p).type = "input"
    BY <1>2, TailOf DEF v2r_input_process, RdpReads, Handling, TypeOK
  <2>2. Put(serverOpen, p2s, Forwarded(Head(c2p))) \in Seq(RequestMessages)
    BY <2>1, InputType, PutType DEF TypeOK
  <2>3. CASE SendFails(serverOpen)
    BY <2>3, SendFailsType
  <2>4. CASE ~SendFails(serverOpen)
    <3>1. /\ p2s' = Put(serverOpen, p2s, Forwarded(Head(c2p))) /\ c2p' = Tail(c2p)
          /\ NextEvent
          /\ UNCHANGED <<pc, rects, allow, colour_map, viewonly, p2c, s2p, client,
                         server>>
      BY <1>2, <2>4 DEF v2r_input_process
    <3>2. batch' \in Batches \cup {<<>>} /\ status' = status
      BY <2>1, <3>1, NextEventType
    <3>3. p2s' \in Seq(RequestMessages) /\ c2p' \in Seq(ClientMessages)
      BY <2>1, <2>2, <3>1
    <3> QED
      BY <3>1, <3>2, <3>3 DEF TypeOK, client, server
  <2> QED
    BY <2>3, <2>4
<1>3. CASE IgnorePdu
  <2>1. Tail(c2p) \in Seq(ClientMessages) /\ batch # <<>>
    BY <1>3, TailOf DEF IgnorePdu, RdpReads, Handling, TypeOK
  <2> QED
    BY <1>3, <2>1, NextEventType DEF IgnorePdu, TypeOK, client, server
<1>4. CASE RdpFails
  BY <1>4, LeaveType DEF RdpFails
<1> QED
  BY <1>1, <1>2, <1>3, <1>4 DEF v2r_rdp_process

\* A handler that reads one message of the server and answers it keeps the types.
LEMMA AnswerType ==
  ASSUME TypeOK, NEW type, VncReads(type),
         NEW msgs \in Seq(OutputMessages), NEW map \in ColourMap, Answer(msgs, map)
  PROVE  TypeOK'
<1>1. Tail(s2p) \in Seq(ServerMessages) /\ batch # <<>>
  BY TailOf DEF VncReads, Handling, TypeOK
<1>2. Put(clientOpen, p2c, msgs) \in Seq(OutputMessages)
  BY PutType DEF TypeOK
<1>3. CASE SendFails(clientOpen)
  BY <1>3, SendFailsType
<1>4. CASE ~SendFails(clientOpen)
  <2>1. /\ p2c' = Put(clientOpen, p2c, msgs) /\ colour_map' = map /\ s2p' = Tail(s2p)
        /\ NextEvent
        /\ UNCHANGED <<pc, rects, allow, viewonly, c2p, p2s, client, server>>
    BY <1>4 DEF Answer
  <2>2. batch' \in Batches \cup {<<>>} /\ status' = status
    BY <1>1, <2>1, NextEventType
  <2>3. p2c' \in Seq(OutputMessages) /\ s2p' \in Seq(ServerMessages)
    BY <1>1, <1>2, <2>1
  <2> QED
    BY <2>1, <2>2, <2>3 DEF TypeOK, client, server
<1> QED
  BY <1>3, <1>4

\* v2r_vnc_process keeps the types: being in step, it finds a rectangle in its loop.
LEMMA VncType ==
  ASSUME TypeOK, InStep, v2r_vnc_process
  PROVE  TypeOK'
<1>1. CASE UpdateHeader
  <2>1. Head(s2p) \in ServerMessages /\ Head(s2p).type = "update"
        /\ Tail(s2p) \in Seq(ServerMessages)
    BY <1>1, TailOf DEF UpdateHeader, VncReads, TypeOK
  <2>2. Head(s2p).nrects \in Nat
    BY <2>1 DEF ServerMessages, Rectangles
  <2> QED
    BY <1>1, <2>1, <2>2 DEF UpdateHeader, TypeOK, client, server
<1>2. CASE UpdateRectangle
  <2>1. /\ status = "running" /\ pc = "update" /\ rects \in Nat /\ rects > 0
        /\ s2p # <<>> /\ s2p \in Seq(ServerMessages)
    BY <1>2 DEF UpdateRectangle, Handling, TypeOK
  <2>2. /\ Head(s2p) = s2p[1] /\ 1 \in DOMAIN s2p
        /\ Tail(s2p) \in Seq(ServerMessages)
    BY <2>1, TailOf
  <2>3. s2p[1] \in Rectangles
    BY <2>1, <2>2 DEF InStep, Expected
  <2>4. <<Drawn(Head(s2p))>> \in Seq(OutputMessages)
    BY <2>2, <2>3, DrawnType, SingletonOf
  <2>5. Put(clientOpen, p2c, <<Drawn(Head(s2p))>>) \in Seq(OutputMessages)
    BY <2>4, PutType DEF TypeOK
  <2>6. CASE SendFails(clientOpen)
    BY <2>6, SendFailsType
  <2>7. CASE ~SendFails(clientOpen)
    <3>1. /\ p2c' \in Seq(OutputMessages) /\ s2p' \in Seq(ServerMessages)
          /\ rects' = rects - 1
          /\ UNCHANGED <<status, pc, batch, allow, colour_map, viewonly, c2p, p2s,
                         client, server>>
      BY <1>2, <2>2, <2>5, <2>7 DEF UpdateRectangle
    <3>2. rects' \in Nat
      BY <2>1, <3>1
    <3> QED
      BY <3>1, <3>2 DEF TypeOK, client, server
  <2> QED
    BY <2>6, <2>7
<1>3. CASE UpdateDone
  <2> DEFINE req == v2r_vnc_send_fb_update_req(TRUE, allow)
  <2>1. Put(serverOpen, p2s, req) \in Seq(RequestMessages)
    BY RequestType, PutType DEF TypeOK
  <2>2. batch # <<>>
    BY <1>3 DEF UpdateDone, Handling
  <2>3. CASE SendFails(serverOpen)
    BY <2>3, SendFailsType
  <2>4. CASE ~SendFails(serverOpen)
    BY <1>3, <2>1, <2>2, <2>4, NextEventType DEF UpdateDone, TypeOK, client, server
  <2> QED
    BY <2>3, <2>4
<1>4. CASE v2r_vnc_process_set_colour_map_entries
  <2> DEFINE f == Head(s2p).entries
  <2>1. VncReads("colours") /\ Head(s2p) \in ServerMessages /\ Head(s2p).type = "colours"
    BY <1>4, TailOf DEF v2r_vnc_process_set_colour_map_entries, VncReads, TypeOK
  <2>2. PICK S \in SUBSET Entries : f \in [S -> Colours]
    BY <2>1 DEF ServerMessages, Rectangles
  <2>3. NewColourMap(f) \in ColourMap
    BY <2>2, OverlayType DEF NewColourMap, TypeOK
  <2>4. <<Palette(NewColourMap(f))>> \in Seq(OutputMessages)
    <3>1. Palette(NewColourMap(f)) \in OutputMessages
      BY <2>3 DEF Palette, OutputMessages
    <3> QED
      BY <3>1, SingletonOf
  <2>5. Answer(<<Palette(NewColourMap(f))>>, NewColourMap(f))
    BY <1>4 DEF v2r_vnc_process_set_colour_map_entries
  <2> QED
    BY <2>1, <2>3, <2>4, <2>5, AnswerType
<1>5. CASE v2r_vnc_process_bell
  <2>1. <<Sound>> \in Seq(OutputMessages)
    <3>1. Sound \in OutputMessages
      BY DEF Sound, OutputMessages
    <3> QED
      BY <3>1, SingletonOf
  <2> QED
    BY <1>5, <2>1, AnswerType DEF v2r_vnc_process_bell, TypeOK
<1>6. CASE v2r_vnc_process_server_cut_text
  <2>1. <<>> \in Seq(OutputMessages)
    OBVIOUS
  <2> QED
    BY <1>6, <2>1, AnswerType DEF v2r_vnc_process_server_cut_text, TypeOK
<1>7. CASE VncFails
  BY <1>7, LeaveType DEF VncFails
<1> QED
  BY <1>1, <1>2, <1>3, <1>4, <1>5, <1>6, <1>7 DEF v2r_vnc_process

\* A PDU of the client keeps the types.
LEMMA ClientSendsType ==
  ASSUME TypeOK, NEW m \in ClientMessages, ClientSends(m),
         minimised' \in BOOLEAN, typed' \in Nat
  PROVE  TypeOK'
<1>1. c2p' \in Seq(ClientMessages)
  BY AppendOf DEF ClientSends, TypeOK
<1>2. pdus' \in Nat
  BY DEF ClientSends, TypeOK
<1> QED
  BY <1>1, <1>2 DEF ClientSends, TypeOK, proxy, server

\* The client keeps the types.
LEMMA ClientType ==
  ASSUME TypeOK, Client
  PROVE  TypeOK'
<1> USE DEF ClientMessages
<1>1. CASE ClientMinimise
  BY <1>1, ClientSendsType DEF ClientMinimise, Suppress, TypeOK
<1>2. CASE ClientRestore
  BY <1>2, ClientSendsType DEF ClientRestore, Suppress, TypeOK
<1>3. ASSUME NEW n \in {1, 2}, ClientTypes(n)
      PROVE  TypeOK'
  <2>1. /\ typed + 1 \in Nat /\ typed + n \in Nat
        /\ typed' = typed + n /\ minimised' \in BOOLEAN
    BY <1>3 DEF ClientTypes, TypeOK
  <2>2. Input(typed + 1, typed + n) \in ClientMessages
    BY <2>1 DEF Input
  <2> QED
    BY <1>3, <2>1, <2>2, ClientSendsType DEF ClientTypes
<1>4. CASE ClientSendsOther
  <2>1. {Other, Shutdown, Invalid} \subseteq ClientMessages
    BY DEF Other, Shutdown, Invalid
  <2> QED
    BY <1>4, <2>1, ClientSendsType DEF ClientSendsOther, TypeOK
<1>5. CASE ClientCloses
  <2>1. c2p' \in Seq(ClientMessages)
    BY <1>5, PrefixOf DEF ClientCloses, TypeOK
  <2>2. p2c' \in Seq(OutputMessages)
    BY <1>5 DEF ClientCloses
  <2> QED
    BY <1>5, <2>1, <2>2 DEF ClientCloses, TypeOK, proxy, server
<1>6. CASE ClientReads
  <2> DEFINE m == Head(p2c)
  <2>1. m \in OutputMessages /\ Tail(p2c) \in Seq(OutputMessages)
    BY <1>6, TailOf DEF ClientReads, TypeOK
  <2>2. shown' \in Pictures
    <3>1. CASE minimised \/ m.type \notin {"bitmap", "scrblt"}
      BY <1>6, <3>1 DEF ClientReads, TypeOK
    <3>2. CASE ~minimised /\ m.type = "bitmap"
      <4>1. m.content \in Contents
        BY <2>1, <3>2 DEF OutputMessages
      <4> QED
        BY <1>6, <3>2, <4>1 DEF ClientReads, TypeOK, Pictures
    <3>3. CASE ~minimised /\ m.type = "scrblt"
      <4>1. m.src \in Tiles
        BY <2>1, <3>3 DEF OutputMessages
      <4> QED
        BY <1>6, <3>3, <4>1 DEF ClientReads, TypeOK, Pictures
    <3> QED
      BY <3>1, <3>2, <3>3
  <2>3. palette' \in ColourMap
    BY <1>6, <2>1 DEF ClientReads, TypeOK, OutputMessages
  <2> QED
    BY <1>6, <2>1, <2>2, <2>3 DEF ClientReads, TypeOK, proxy, server
<1> QED
  BY <1>1, <1>2, <1>3, <1>4, <1>5, <1>6 DEF Client
\* An update is sent as a header and as many rectangles as it announces.
LEMMA UpdateMessages ==
  ASSUME TypeOK, ServerUpdates
  PROVE  \E r \in Seq(Rectangles) : s2p' = (s2p \o <<Header(Len(r))>>) \o r
<1> DEFINE changed == IF pend = "full" THEN Tiles
                      ELSE {t \in Tiles : sent[t] # screen[t]}
<1>1. PICK copies \in Copies(changed) :
        \E order \in SetToSeqs(changed \ {copies[i].tile : i \in DOMAIN copies}) :
          s2p' = s2p \o <<Header(Cardinality(changed))>> \o copies
                   \o [i \in DOMAIN order |-> Raw(order[i], screen[order[i]])]
  BY DEF ServerUpdates
<1> DEFINE rest == changed \ {copies[i].tile : i \in DOMAIN copies}
<1>2. PICK order \in SetToSeqs(rest) :
        s2p' = s2p \o <<Header(Cardinality(changed))>> \o copies
                 \o [i \in DOMAIN order |-> Raw(order[i], screen[order[i]])]
  BY <1>1
<1> DEFINE raws == [i \in DOMAIN order |-> Raw(order[i], screen[order[i]])]
<1>3. IsFiniteSet(changed) /\ Cardinality(changed) \in Nat /\ changed \subseteq Tiles
  BY TilesAssumption, FS_Subset, FS_CardinalityType
<1>4. /\ copies \in Seq(Rectangles) /\ IsFiniteSet(rest)
      /\ Cardinality(rest) \in Nat
      /\ Len(copies) + Cardinality(rest) = Cardinality(changed)
  <2>1. CASE copies = <<>>
    <3>1. rest = changed
      BY <2>1
    <3>2. copies \in Seq(Rectangles) /\ Len(copies) = 0
      BY <2>1
    <3> HIDE DEF rest, changed
    <3> QED
      BY <1>3, <3>1, <3>2
  <2>2. CASE copies # <<>>
    <3>1. PICK q \in changed \X Tiles : copies = <<CopyRect(q[1], q[2])>>
      BY <2>2 DEF Copies
    <3>2. CopyRect(q[1], q[2]) \in Rectangles /\ q[1] \in changed
      BY <1>3, <3>1 DEF CopyRect, Rectangles
    <3>3. copies \in Seq(Rectangles) /\ Len(copies) = 1 /\ DOMAIN copies = {1}
          /\ copies[1].tile = q[1]
      BY <3>1, <3>2 DEF CopyRect
    <3>4. rest = changed \ {q[1]}
      BY <3>3
    <3> HIDE DEF rest, changed
    <3>5. IsFiniteSet(rest) /\ Cardinality(rest) = Cardinality(changed) - 1
      BY <1>3, <3>2, <3>4, FS_RemoveElement
    <3>6. Cardinality(rest) \in Nat
      BY <3>5, FS_CardinalityType
    <3> QED
      BY <1>3, <3>3, <3>5, <3>6
  <2> QED
    BY <2>1, <2>2
<1>5. raws \in Seq(Rectangles) /\ Len(raws) = Cardinality(rest)
  <2>1. order \in [1..Cardinality(rest) -> rest]
    BY DEF SetToSeqs
  <2>2. \A i \in 1..Cardinality(rest) : Raw(order[i], screen[order[i]]) \in Rectangles
    BY <1>3, <2>1 DEF Raw, Rectangles, TypeOK, Screens
  <2>3. raws \in [1..Cardinality(rest) -> Rectangles]
    BY <2>1, <2>2
  <2> HIDE DEF raws, rest
  <2> QED
    BY <1>4, <2>3
<1> DEFINE r == copies \o raws
<1>6. r \in Seq(Rectangles) /\ Len(r) = Cardinality(changed)
  BY <1>4, <1>5, ConcatProperties
<1>7. s2p' = (s2p \o <<Header(Len(r))>>) \o r
  <2> DEFINE All == ServerMessages
             h == s2p \o <<Header(Cardinality(changed))>>
  <2>1. Rectangles \subseteq All
    BY DEF ServerMessages
  <2>2. copies \in Seq(All) /\ raws \in Seq(All)
    BY <1>4, <1>5, <2>1, SeqMonotonic
  <2>3. Header(Cardinality(changed)) \in All
    BY <1>3 DEF Header, ServerMessages
  <2>4. h \in Seq(All)
    BY <2>3, ConcatOf, SingletonOf DEF TypeOK
  <2>5. (h \o copies) \o raws = h \o (copies \o raws)
    BY <2>2, <2>4, ConcatAssociative, SMTT(20)
  <2> QED
    BY <1>2, <1>6, <2>5
<1> QED
  BY <1>6, <1>7

\* The server keeps the types.
LEMMA ServerType ==
  ASSUME TypeOK, Server
  PROVE  TypeOK'
<1>1. ASSUME NEW t \in Tiles, NEW c \in Contents, ServerPaints(t, c)
      PROVE  TypeOK'
  <2>1. screen' \in Screens
    BY <1>1 DEF ServerPaints, TypeOK, Screens
  <2>2. paints' \in Nat
    BY <1>1 DEF ServerPaints, TypeOK
  <2> QED
    BY <1>1, <2>1, <2>2 DEF ServerPaints, TypeOK, proxy, client
<1>2. CASE ServerReads
  <2>1. Head(p2s) \in RequestMessages /\ Tail(p2s) \in Seq(RequestMessages)
    BY <1>2, TailOf DEF ServerReads, TypeOK
  <2>2. received' \in Nat
    BY <1>2, <2>1 DEF ServerReads, TypeOK, RequestMessages
  <2>3. pend' \in {"none", "incremental", "full"}
    BY <1>2 DEF ServerReads, TypeOK
  <2> QED
    BY <1>2, <2>1, <2>2, <2>3 DEF ServerReads, TypeOK, proxy, client
<1>3. CASE ServerUpdates
  <2>1. PICK r \in Seq(Rectangles) : s2p' = (s2p \o <<Header(Len(r))>>) \o r
    BY <1>3, UpdateMessages
  <2>2. r \in Seq(ServerMessages)
    BY SeqMonotonic DEF ServerMessages
  <2>3. Header(Len(r)) \in ServerMessages
    BY LenProperties DEF Header, ServerMessages
  <2>4. s2p \o <<Header(Len(r))>> \in Seq(ServerMessages)
    BY <2>3, ConcatOf, SingletonOf DEF TypeOK
  <2>5. s2p' \in Seq(ServerMessages)
    BY <2>1, <2>2, <2>4, ConcatOf
  <2>6. sent' \in Pictures
    BY <1>3 DEF ServerUpdates, TypeOK, Pictures, Screens
  <2>7. UNCHANGED <<proxy, c2p, p2c, p2s, client, serverOpen, screen, colours,
                    received, notices, paints>> /\ pend' = "none"
    BY <1>3 DEF ServerUpdates
  <2> QED
    BY <2>5, <2>6, <2>7 DEF TypeOK, proxy, client
<1>4. ASSUME NEW m \in ServerMessages, ServerNotifies(m), colours' \in ColourMap
      PROVE  TypeOK'
  <2>1. s2p' \in Seq(ServerMessages)
    BY <1>4, AppendOf DEF ServerNotifies, TypeOK
  <2>2. notices' \in Nat
    BY <1>4 DEF ServerNotifies, TypeOK
  <2> QED
    BY <1>4, <2>1, <2>2 DEF ServerNotifies, TypeOK, proxy, client
<1>5. CASE ServerSetsColours
  <2>0. PICK S \in SUBSET Entries : \E f \in [S -> Colours] :
          ServerNotifies(SetColours(f)) /\ colours' = Overlay(f, colours)
    BY <1>5 DEF ServerSetsColours
  <2>1. PICK f \in [S -> Colours] :
          ServerNotifies(SetColours(f)) /\ colours' = Overlay(f, colours)
    BY <2>0
  <2>2. colours' \in ColourMap
    BY <2>1, OverlayType DEF TypeOK
  <2>3. SetColours(f) \in ServerMessages
    BY DEF SetColours, ServerMessages
  <2> QED
    BY <1>4, <2>1, <2>2, <2>3
<1>6. CASE ServerSendsOther
  <2>1. {Bell, CutText(0), CutText(1), Unknown} \subseteq ServerMessages
    BY DEF Bell, CutText, Unknown, ServerMessages
  <2> QED
    BY <1>4, <1>6, <2>1 DEF ServerSendsOther, TypeOK
<1>7. CASE ServerCloses
  <2>1. s2p' \in Seq(ServerMessages)
    BY <1>7, PrefixOf DEF ServerCloses, TypeOK
  <2>2. p2s' \in Seq(RequestMessages)
    BY <1>7 DEF ServerCloses
  <2> QED
    BY <1>7, <2>1, <2>2 DEF ServerCloses, TypeOK, proxy, client
<1> QED
  BY <1>1, <1>2, <1>3, <1>5, <1>6, <1>7 DEF Server

\* Every step keeps the types.
LEMMA NextType ==
  ASSUME TypeOK, InStep, [Next]_vars
  PROVE  TypeOK'
<1>1. CASE UNCHANGED vars
  BY <1>1 DEF vars, proxy, client, server, TypeOK
<1> QED
  BY <1>1, EpollType, LeaveType, RdpType, VncType, ClientType, ServerType
  DEF Next, v2r_session_transmit, Interrupted
(***************************************************************************)
(* The proxy stays in step with the server.                                *)
(***************************************************************************)

\* The header of an update is not a rectangle.
LEMMA HeaderType ==
  ASSUME NEW m \in ServerMessages, m.type = "update"
  PROVE  m.nrects \in Nat /\ m \notin Rectangles
  BY DEF ServerMessages, Rectangles

\* What a step that leaves the stream from the server alone does to InStep.
LEMMA StillInStep ==
  ASSUME InStep, UNCHANGED <<s2p, pc, rects>>, serverOpen' => serverOpen,
         status' = "running" => status = "running"
  PROVE  InStep'
  BY DEF InStep, Expected, Announced

\* A session that is destroyed is in step, as it reads nothing more.
LEMMA LeaveInStep ==
  ASSUME InStep, NEW how \in {"ended", "killed"}, Leave(how)
  PROVE  InStep'
  BY DEF InStep, Leave

\* So is one that ends at a failed send.
LEMMA SendFailsInStep ==
  ASSUME InStep, NEW open, SendFails(open)
  PROVE  InStep'
  BY LeaveInStep DEF SendFails

\* What reading one message of the server does to InStep.
LEMMA ReadInStep ==
  ASSUME TypeOK, InStep, status = "running", s2p # <<>>, s2p' = Tail(s2p),
         UNCHANGED serverOpen,
         \/ /\ s2p[1].type = "update" /\ Expected = 0
            /\ Expected' = s2p[1].nrects
         \/ /\ s2p[1].type # "update" /\ Expected \in Nat
            /\ \/ Expected = 0 /\ Expected' = 0
               \/ Expected > 0 /\ Expected' = Expected - 1
  PROVE  InStep'
<1> DEFINE n == Len(s2p)
<1>1. /\ n \in Nat \ {0} /\ DOMAIN s2p = 1..n /\ DOMAIN s2p' = 1..(n - 1)
      /\ \A i \in 1..(n - 1) : s2p'[i] = s2p[i + 1]
      /\ s2p' \in Seq(ServerMessages) /\ s2p \in Seq(ServerMessages)
  BY TailOf DEF TypeOK
<1>2. Len(s2p') = n - 1
  BY <1>1, LenProperties
<1>3. \A j \in 1..n : s2p[j].type = "update" => s2p[j].nrects \in Nat
  BY <1>1, HeaderType, ElementOfSeq
<1>4. Expected \in Nat /\ Expected' \in Nat
  BY <1>1, <1>3
<1>5. ASSUME NEW i \in 1..(n - 1)
      PROVE  i + 1 <= Expected \/ Announced(i + 1)
               <=> i <= Expected' \/ Announced(i)'
  <2>1. Announced(i + 1) <=>
          \/ s2p[1].type = "update" /\ i <= s2p[1].nrects
          \/ Announced(i)'
    <3>1. ASSUME Announced(i + 1)
          PROVE  \/ s2p[1].type = "update" /\ i <= s2p[1].nrects
                 \/ Announced(i)'
      <4>1. PICK j \in 1..n : /\ s2p[j].type = "update" /\ j < i + 1
                              /\ i + 1 <= j + s2p[j].nrects
        BY <1>1, <3>1 DEF Announced
      <4>2. CASE j = 1
        BY <1>3, <4>1, <4>2
      <4>3. CASE j # 1
        <5>1. j - 1 \in 1..(n - 1) /\ s2p'[j - 1] = s2p[j]
          BY <1>1, <4>3
        <5>2. j - 1 < i /\ i <= (j - 1) + s2p[j].nrects
          BY <1>3, <4>1
        <5> QED
          BY <1>1, <4>1, <5>1, <5>2 DEF Announced
      <4> QED
        BY <4>2, <4>3
    <3>2. ASSUME s2p[1].type = "update" /\ i <= s2p[1].nrects
          PROVE  Announced(i + 1)
      BY <1>1, <1>3, <3>2 DEF Announced
    <3>3. ASSUME Announced(i)'
          PROVE  Announced(i + 1)
      <4>1. PICK j \in 1..(n - 1) : /\ s2p'[j].type = "update" /\ j < i
                                    /\ i <= j + s2p'[j].nrects
        BY <1>1, <3>3 DEF Announced
      <4>2. j + 1 \in 1..n /\ s2p'[j] = s2p[j + 1]
        BY <1>1
      <4>3. j + 1 < i + 1 /\ i + 1 <= (j + 1) + s2p[j + 1].nrects
        BY <1>3, <4>1, <4>2
      <4> QED
        BY <1>1, <4>1, <4>2, <4>3 DEF Announced
    <3> QED
      BY <3>1, <3>2, <3>3
  <2>2. CASE s2p[1].type = "update"
    BY <1>1, <1>3, <2>1, <2>2
  <2>3. CASE s2p[1].type # "update"
    BY <1>4, <2>1, <2>3
  <2> QED
    BY <2>2, <2>3
<1>6. \A i \in DOMAIN s2p' : s2p'[i] \in Rectangles <=> i <= Expected' \/ Announced(i)'
  <2> SUFFICES ASSUME NEW i \in 1..(n - 1)
               PROVE  s2p'[i] \in Rectangles <=> i <= Expected' \/ Announced(i)'
    BY <1>1
  <2>1. s2p'[i] = s2p[i + 1] /\ i + 1 \in DOMAIN s2p
    BY <1>1
  <2>2. s2p[i + 1] \in Rectangles <=> i + 1 <= Expected \/ Announced(i + 1)
    BY <2>1 DEF InStep
  <2> QED
    BY <1>5, <2>1, <2>2
<1>7. ASSUME serverOpen
      PROVE  /\ Expected' <= n - 1
             /\ \A j \in 1..(n - 1) :
                  s2p'[j].type = "update" => j + s2p'[j].nrects <= n - 1
  <2>1. /\ Expected <= n
        /\ \A j \in 1..n : s2p[j].type = "update" => j + s2p[j].nrects <= n
    BY <1>1, <1>7 DEF InStep
  <2>2. Expected' <= n - 1
    BY <1>1, <1>3, <2>1
  <2>3. ASSUME NEW j \in 1..(n - 1), s2p'[j].type = "update"
        PROVE  j + s2p'[j].nrects <= n - 1
    <3>1. s2p'[j] = s2p[j + 1] /\ j + 1 \in 1..n
      BY <1>1
    <3>2. (j + 1) + s2p[j + 1].nrects <= n /\ s2p[j + 1].nrects \in Nat
      BY <1>3, <2>1, <2>3, <3>1
    <3> QED
      BY <1>1, <3>1, <3>2
  <2> QED
    BY <2>2, <2>3
<1> QED
  BY <1>1, <1>2, <1>6, <1>7 DEF InStep
\* What a message that is neither a header nor a rectangle does to InStep.
LEMMA NoticeInStep ==
  ASSUME TypeOK, InStep, status = "running", serverOpen,
         NEW m \in ServerMessages, m.type # "update", m \notin Rectangles,
         s2p' = Append(s2p, m), UNCHANGED <<serverOpen, pc, rects>>
  PROVE  InStep'
<1>0. PICK n \in Nat : n = Len(s2p)
  BY LenProperties DEF TypeOK
<1>1. /\ DOMAIN s2p = 1..n /\ DOMAIN s2p' = 1..n + 1
      /\ \A i \in 1..n : s2p'[i] = s2p[i]
      /\ s2p'[n + 1] = m /\ s2p' \in Seq(ServerMessages)
  BY <1>0, AppendOf DEF TypeOK
<1>2. Len(s2p') = n + 1
  BY <1>1, LenProperties
<1>3. \A j \in 1..n : s2p[j].type = "update" => s2p[j].nrects \in Nat
  BY <1>1, HeaderType, ElementOfSeq DEF TypeOK
<1>4. /\ Expected' = Expected /\ Expected \in Nat /\ Expected <= n
      /\ \A j \in 1..n : s2p[j].type = "update" => j + s2p[j].nrects <= n
  BY <1>0, <1>1 DEF InStep, Expected, TypeOK
<1>5. \A i \in 1..n : Announced(i)' <=> Announced(i)
  BY <1>1 DEF Announced
<1>6. ~Announced(n + 1)'
  BY <1>1, <1>3, <1>4 DEF Announced
<1>7. \A i \in DOMAIN s2p' : s2p'[i] \in Rectangles <=> i <= Expected' \/ Announced(i)'
  <2> SUFFICES ASSUME NEW i \in 1..n + 1
               PROVE  s2p'[i] \in Rectangles <=> i <= Expected' \/ Announced(i)'
    BY <1>1
  <2>1. CASE i \in 1..n
    BY <1>1, <1>4, <1>5, <2>1 DEF InStep
  <2>2. CASE i = n + 1
    BY <1>1, <1>4, <1>6, <2>2
  <2> QED
    BY <1>1, <2>1, <2>2
<1>8. \A j \in DOMAIN s2p' : s2p'[j].type = "update" => j + s2p'[j].nrects <= n + 1
  BY <1>1, <1>3, <1>4
<1> QED
  BY <1>1, <1>2, <1>4, <1>7, <1>8 DEF InStep

\* What an update of the server does to InStep.
LEMMA UpdateInStep ==
  ASSUME TypeOK, InStep, ServerUpdates
  PROVE  InStep'
<1>a. PICK n \in Nat : n = Len(s2p)
  BY LenProperties DEF TypeOK
<1>0. status = "running" /\ serverOpen /\ UNCHANGED <<serverOpen, pc, rects>>
  BY DEF ServerUpdates, proxy
<1>1. PICK r \in Seq(Rectangles) : s2p' = (s2p \o <<Header(Len(r))>>) \o r
  BY UpdateMessages
<1>b. PICK k \in Nat : k = Len(r)
  BY LenProperties
<1> DEFINE h == s2p \o <<Header(k)>>
<1>2. r \in Seq(ServerMessages) /\ Header(k) \in ServerMessages
      /\ \A i \in 1..k : r[i] \in Rectangles
  BY <1>b, LenProperties, SeqMonotonic, ElementOfSeq DEF Header, ServerMessages
<1>3. /\ h \in Seq(ServerMessages) /\ Len(h) = n + 1
      /\ h[n + 1] = Header(k) /\ \A i \in 1..n : h[i] = s2p[i]
      /\ DOMAIN s2p = 1..n
  BY <1>a, <1>2, ConcatOf, SingletonOf, LenProperties DEF TypeOK
<1>4. /\ s2p' \in Seq(ServerMessages)
      /\ DOMAIN s2p' = 1..(n + 1 + k) /\ Len(s2p') = n + 1 + k
      /\ \A i \in 1..n + 1 : s2p'[i] = h[i]
      /\ \A i \in 1..k : s2p'[n + 1 + i] = r[i]
  <2>1. s2p' = h \o r
    BY <1>b, <1>1
  <2> HIDE DEF h
  <2>0. h \in Seq(ServerMessages) /\ r \in Seq(ServerMessages)
    BY <1>2, <1>3
  <2>2. h \o r \in Seq(ServerMessages)
    BY <1>2, <1>3, ConcatOf
  <2>3. /\ DOMAIN (h \o r) = 1..Len(h) + Len(r)
        /\ \A i \in 1..Len(h) : (h \o r)[i] = h[i]
        /\ \A i \in 1..Len(r) : (h \o r)[Len(h) + i] = r[i]
        /\ Len(h \o r) = Len(h) + Len(r)
    <3>1. Len(h \o r) = Len(h) + Len(r)
      BY <2>0, ConcatProperties
    <3> QED
      BY <2>0, <3>1, ConcatOf
  <2>4. Len(h) = n + 1 /\ Len(r) = k
    BY <1>b, <1>3
  <2> QED
    BY <2>1, <2>2, <2>3, <2>4
<1>5. /\ \A i \in 1..n : s2p'[i] = s2p[i]
      /\ s2p'[n + 1] = Header(k)
      /\ \A i \in n + 2..n + 1 + k : s2p'[i] \in Rectangles
  <2>1. ASSUME NEW i \in n + 2..n + 1 + k
        PROVE  s2p'[i] \in Rectangles
    <3>1. i - (n + 1) \in 1..k /\ n + 1 + (i - (n + 1)) = i
      BY <1>2, <1>3
    <3> QED
      BY <1>2, <1>4, <3>1
  <2> QED
    BY <1>3, <1>4, <2>1
<1>6. Header(k).type = "update" /\ Header(k).nrects = k /\ Header(k) \notin Rectangles
  BY DEF Header, Rectangles
<1> HIDE DEF h
<1>7. \A j \in 1..n : s2p[j].type = "update" => s2p[j].nrects \in Nat
  BY <1>a, <1>3, HeaderType, ElementOfSeq DEF TypeOK
<1>8. /\ Expected' = Expected /\ Expected \in Nat /\ Expected <= n
      /\ \A j \in 1..n : s2p[j].type = "update" => j + s2p[j].nrects <= n
  BY <1>a, <1>0, <1>3, <1>7 DEF InStep, Expected, TypeOK
<1>9. ASSUME NEW i \in 1..n
      PROVE  Announced(i)' <=> Announced(i)
  <2>1. ASSUME NEW j \in 1..(n + 1 + k), j < i
        PROVE  j \in 1..n
    BY <1>2, <1>3, <2>1
  <2> QED
    BY <1>2, <1>3, <1>4, <1>5, <2>1 DEF Announced
<1>10. ~Announced(n + 1)'
  <2> SUFFICES ASSUME NEW j \in 1..(n + 1 + k), s2p'[j].type = "update", j < n + 1,
                      n + 1 <= j + s2p'[j].nrects
               PROVE  FALSE
    BY <1>4 DEF Announced
  <2>1. j \in 1..n /\ s2p'[j] = s2p[j]
    BY <1>2, <1>3, <1>5
  <2> QED
    BY <1>3, <1>7, <1>8, <2>1
<1>11. ASSUME NEW i \in n + 2..n + 1 + k
       PROVE  Announced(i)'
  <2>1. n + 1 \in 1..(n + 1 + k) /\ n + 1 < i /\ i <= (n + 1) + k
    BY <1>2, <1>3
  <2> QED
    BY <1>4, <1>5, <1>6, <2>1 DEF Announced
<1>12. ASSUME NEW i \in DOMAIN s2p'
       PROVE  s2p'[i] \in Rectangles <=> i <= Expected' \/ Announced(i)'
  <2>1. CASE i \in 1..n
    BY <1>0, <1>3, <1>5, <1>8, <1>9, <2>1 DEF InStep
  <2>2. CASE i = n + 1
    BY <1>3, <1>5, <1>6, <1>8, <1>10, <2>2
  <2>3. CASE i \in n + 2..n + 1 + k
    BY <1>5, <1>11, <2>3
  <2> QED
    BY <1>2, <1>3, <1>4, <2>1, <2>2, <2>3
<1>13. ASSUME NEW j \in DOMAIN s2p', s2p'[j].type = "update"
       PROVE  j + s2p'[j].nrects <= n + 1 + k
  <2>1. CASE j \in 1..n
    BY <1>2, <1>3, <1>5, <1>7, <1>8, <1>13, <2>1
  <2>2. CASE j = n + 1
    BY <1>2, <1>3, <1>5, <1>6, <2>2
  <2>3. CASE j \in n + 2..n + 1 + k
    BY <1>5, <1>13, <2>3 DEF Rectangles
  <2> QED
    BY <1>2, <1>3, <1>4, <2>1, <2>2, <2>3
<1> QED
  BY <1>2, <1>3, <1>4, <1>8, <1>12, <1>13 DEF InStep

\* What losing the end of the stream with the connection does to InStep.
LEMMA CloseInStep ==
  ASSUME TypeOK, InStep, ServerCloses
  PROVE  InStep'
<1>1. PICK k \in 0..Len(s2p) : s2p' = SubSeq(s2p, 1, k)
  BY DEF ServerCloses
<1>2. /\ k \in Nat /\ k <= Len(s2p) /\ Len(s2p) \in Nat /\ DOMAIN s2p = 1..Len(s2p)
      /\ DOMAIN s2p' = 1..k /\ \A i \in 1..k : s2p'[i] = s2p[i]
  <2>1. Len(s2p) \in Nat /\ DOMAIN s2p = 1..Len(s2p)
    BY LenProperties DEF TypeOK
  <2>2. \A i \in 1..k : s2p[i] \in ServerMessages
    BY <2>1, ElementOfSeq DEF TypeOK
  <2>3. /\ s2p' \in Seq(ServerMessages)
        /\ Len(s2p') = IF 1 <= k THEN k - 1 + 1 ELSE 0
        /\ \A i \in 1..(k - 1 + 1) : s2p'[i] = s2p[1 + i - 1]
    BY <1>1, <2>1, <2>2, SubSeqProperties
  <2>4. Len(s2p') = k /\ \A i \in 1..k : s2p'[i] = s2p[i]
    BY <2>1, <2>3
  <2> QED
    BY <2>1, <2>3, <2>4, LenProperties
<1>3. status = "running" /\ ~serverOpen' /\ UNCHANGED <<pc, rects>>
  BY DEF ServerCloses, proxy
<1>4. ASSUME NEW i \in 1..k
      PROVE  Announced(i)' <=> Announced(i)
  BY <1>2 DEF Announced
<1> QED
  BY <1>2, <1>3, <1>4 DEF InStep, Expected

\* v2r_vnc_process stays in step.
LEMMA VncInStep ==
  ASSUME TypeOK, InStep, v2r_vnc_process
  PROVE  InStep'
<1>1. s2p \in Seq(ServerMessages) /\ rects \in Nat
  BY DEF TypeOK
<1>2. s2p # <<>> => Head(s2p) = s2p[1] /\ s2p[1] \in ServerMessages
  BY <1>1, TailOf
<1>3. CASE UpdateHeader
  <2>1. /\ status = "running" /\ pc = "transmit" /\ s2p # <<>>
        /\ Head(s2p).type = "update" /\ s2p' = Tail(s2p) /\ serverOpen' = serverOpen
        /\ pc' = "update" /\ rects' = Head(s2p).nrects
    BY <1>3 DEF UpdateHeader, VncReads, Handling, server
  <2>2. Expected = 0 /\ Expected' = s2p[1].nrects /\ s2p[1].type = "update"
    BY <1>2, <2>1 DEF Expected
  <2> QED
    BY <2>1, <2>2, ReadInStep
<1>4. CASE UpdateRectangle
  <2>1. CASE SendFails(clientOpen)
    BY <2>1, SendFailsInStep
  <2>2. CASE ~SendFails(clientOpen)
    <3>1. /\ status = "running" /\ pc = "update" /\ s2p # <<>> /\ rects > 0
          /\ s2p' = Tail(s2p) /\ serverOpen' = serverOpen
          /\ pc' = "update" /\ rects' = rects - 1
      BY <1>4, <2>2 DEF UpdateRectangle, Handling, server
    <3>2. Expected \in Nat /\ Expected > 0 /\ Expected' = Expected - 1
      BY <1>1, <3>1 DEF Expected
    <3>3. s2p[1] \in Rectangles
      BY <1>1, <3>1, <3>2, TailOf DEF InStep
    <3>4. s2p[1].type # "update"
      BY <3>3 DEF Rectangles
    <3> QED
      BY <3>1, <3>2, <3>4, ReadInStep
  <2> QED
    BY <2>1, <2>2
<1>5. CASE UpdateDone
  <2>1. CASE SendFails(serverOpen)
    BY <2>1, SendFailsInStep
  <2>2. CASE ~SendFails(serverOpen)
    <3>1. /\ status = "running" /\ pc = "update" /\ rects = 0
          /\ pc' = "transmit" /\ rects' = rects
          /\ UNCHANGED <<s2p, serverOpen>>
      BY <1>5, <2>2 DEF UpdateDone, Handling, server
    <3>2. Expected = 0 /\ Expected' = 0
      BY <3>1 DEF Expected
    <3> QED
      BY <3>1, <3>2 DEF InStep, Announced
  <2> QED
    BY <2>1, <2>2
<1>6. ASSUME NEW type \in {"colours", "bell", "cut_text"}, VncReads(type),
             NEW msgs, NEW map, Answer(msgs, map)
      PROVE  InStep'
  <2>1. CASE SendFails(clientOpen)
    BY <2>1, SendFailsInStep
  <2>2. CASE ~SendFails(clientOpen)
    <3>1. /\ status = "running" /\ pc = "transmit" /\ s2p # <<>>
          /\ Head(s2p).type = type /\ s2p' = Tail(s2p)
          /\ serverOpen' = serverOpen /\ pc' = pc
      BY <1>6, <2>2 DEF VncReads, Handling, Answer, server
    <3>2. Expected = 0 /\ Expected' = 0 /\ s2p[1].type # "update"
      BY <1>2, <3>1 DEF Expected
    <3> QED
      BY <3>1, <3>2, ReadInStep
  <2> QED
    BY <2>1, <2>2
<1>7. CASE VncFails
  BY <1>7, LeaveInStep DEF VncFails
<1> QED
  BY <1>3, <1>4, <1>5, <1>6, <1>7
  DEF v2r_vnc_process, v2r_vnc_process_set_colour_map_entries,
      v2r_vnc_process_bell, v2r_vnc_process_server_cut_text

\* v2r_rdp_process stays in step.
LEMMA RdpInStep ==
  ASSUME InStep, v2r_rdp_process
  PROVE  InStep'
<1>1. CASE SendFails(serverOpen) \/ Leave("ended")
  BY <1>1, SendFailsInStep, LeaveInStep
<1>2. CASE ~SendFails(serverOpen) /\ ~Leave("ended")
  <2>1. UNCHANGED <<s2p, pc, rects, serverOpen, status>>
    BY <1>2 DEF v2r_rdp_process, v2r_rdp_process_suppress_output, v2r_input_process,
                IgnorePdu, RdpFails, NextEvent, server
  <2> QED
    BY <2>1, StillInStep
<1> QED
  BY <1>1, <1>2

\* The server stays in step.
LEMMA ServerInStep ==
  ASSUME TypeOK, InStep, Server
  PROVE  InStep'
<1>1. ASSUME NEW t \in Tiles, NEW c \in Contents, ServerPaints(t, c)
      PROVE  InStep'
  BY <1>1, StillInStep DEF ServerPaints, proxy
<1>2. CASE ServerReads
  BY <1>2, StillInStep DEF ServerReads, proxy
<1>3. ASSUME NEW m \in ServerMessages, m.type # "update", m \notin Rectangles,
             ServerNotifies(m)
      PROVE  InStep'
  BY <1>3, NoticeInStep DEF ServerNotifies, proxy
<1>4. CASE ServerSetsColours
  <2>1. PICK S \in SUBSET Entries : \E f \in [S -> Colours] :
          ServerNotifies(SetColours(f))
    BY <1>4 DEF ServerSetsColours
  <2>2. PICK f \in [S -> Colours] : ServerNotifies(SetColours(f))
    BY <2>1
  <2>3. /\ SetColours(f) \in ServerMessages /\ SetColours(f).type # "update"
        /\ SetColours(f) \notin Rectangles
    BY DEF SetColours, ServerMessages, Rectangles
  <2> QED
    BY <1>3, <2>2, <2>3
<1>5. CASE ServerSendsOther
  <2>1. PICK m \in {Bell, CutText(0), CutText(1), Unknown} : ServerNotifies(m)
    BY <1>5 DEF ServerSendsOther
  <2>2. m \in ServerMessages /\ m.type # "update" /\ m \notin Rectangles
    BY DEF Bell, CutText, Unknown, ServerMessages, Rectangles
  <2> QED
    BY <1>3, <2>1, <2>2
<1> QED
  BY <1>1, <1>2, <1>4, <1>5, UpdateInStep, CloseInStep DEF Server

\* Every step stays in step.
LEMMA NextInStep ==
  ASSUME TypeOK, InStep, [Next]_vars
  PROVE  InStep'
<1>1. ASSUME NEW fd, EpollWait(fd)
      PROVE  InStep'
  BY <1>1, StillInStep DEF EpollWait, server
<1>2. CASE Client
  <2>1. UNCHANGED <<s2p, pc, rects, status, serverOpen>>
    BY <1>2 DEF Client, ClientMinimise, ClientRestore, ClientTypes, ClientSendsOther,
                ClientSends, ClientCloses, ClientReads, proxy, server
  <2> QED
    BY <2>1, StillInStep
<1>3. CASE UNCHANGED vars
  BY <1>3, StillInStep DEF vars, proxy, server
<1> QED
  BY <1>1, <1>2, <1>3, LeaveInStep, RdpInStep, VncInStep, ServerInStep
  DEF Next, v2r_session_transmit, Interrupted

(***************************************************************************)
(* The types are right, and the proxy and the server agree on where        *)
(* messages begin.  Each needs the other: a rectangle is drawn only from   *)
(* what is one, and positions are compared only between numbers.           *)
(***************************************************************************)

\* A new session is in step.
LEMMA InitInStep == Init => InStep
  BY DEF Init, InStep, Expected, Announced, Header

\* The types and being in step are an inductive invariant, each needing the other.
LEMMA SafeInv == Spec => [](TypeOK /\ InStep)
<1>1. Init => TypeOK /\ InStep
  BY InitType, InitInStep
<1>2. TypeOK /\ InStep /\ [Next]_vars => TypeOK' /\ InStep'
  BY NextType, NextInStep
<1> QED
  BY <1>1, <1>2, PTL DEF Spec

\* Every variable keeps its type in every state the session can reach.
THEOREM TypeCorrect == Spec => []TypeOK
  BY SafeInv, PTL

\* The proxy never takes a message of the server for a rectangle, nor a rectangle
\* for a message, and never waits for a rectangle a live server will not send
\* (v2r_vnc_process_framebuffer_update).
THEOREM StaysInStep == Spec => []InStep
  BY SafeInv, PTL
(***************************************************************************)
(* The chain of update requests is never broken.                           *)
(***************************************************************************)

\* Reading a message of another type leaves a stream with the messages of a type.
LEMMA HasTail ==
  ASSUME NEW S, NEW s \in Seq(S), s # <<>>, NEW type, Head(s).type # type,
         HasType(s, type)
  PROVE  HasType(Tail(s), type)
<1>1. PICK i \in DOMAIN s : s[i].type = type
  BY DEF HasType
<1>2. /\ Head(s) = s[1] /\ DOMAIN Tail(s) = 1..Len(s) - 1
      /\ \A k \in 1..Len(s) - 1 : Tail(s)[k] = s[k + 1]
      /\ DOMAIN s = 1..Len(s) /\ Len(s) \in Nat \ {0}
  BY TailOf
<1>3. i \in 1..Len(s) /\ i # 1
  BY <1>1, <1>2
<1>4. i - 1 \in 1..Len(s) - 1 /\ Tail(s)[i - 1] = s[i]
  BY <1>2, <1>3
<1> QED
  BY <1>1, <1>2, <1>4 DEF HasType

\* A concatenation has the messages of both streams.
LEMMA HasConcat ==
  ASSUME NEW S, NEW s \in Seq(S), NEW t \in Seq(S), NEW type,
         HasType(s, type) \/ HasType(t, type)
  PROVE  HasType(s \o t, type)
<1>1. /\ DOMAIN (s \o t) = 1..Len(s) + Len(t)
      /\ DOMAIN s = 1..Len(s) /\ DOMAIN t = 1..Len(t)
      /\ Len(s) \in Nat /\ Len(t) \in Nat
      /\ \A i \in 1..Len(s) : (s \o t)[i] = s[i]
      /\ \A i \in 1..Len(t) : (s \o t)[Len(s) + i] = t[i]
  BY ConcatOf
<1>2. CASE HasType(s, type)
  <2>1. PICK i \in 1..Len(s) : s[i].type = type
    BY <1>1, <1>2 DEF HasType
  <2>2. i \in DOMAIN (s \o t) /\ (s \o t)[i] = s[i]
    BY <1>1
  <2> QED
    BY <2>1, <2>2 DEF HasType
<1>3. CASE HasType(t, type)
  <2>1. PICK i \in 1..Len(t) : t[i].type = type
    BY <1>1, <1>3 DEF HasType
  <2>2. Len(s) + i \in DOMAIN (s \o t) /\ (s \o t)[Len(s) + i] = t[i]
    BY <1>1
  <2> QED
    BY <2>1, <2>2 DEF HasType
<1> QED
  BY <1>2, <1>3

\* A stream keeps its messages when one is added.
LEMMA HasAppend ==
  ASSUME NEW S, NEW s \in Seq(S), NEW e \in S, NEW type, HasType(s, type)
  PROVE  HasType(Append(s, e), type)
<1>1. PICK i \in DOMAIN s : s[i].type = type
  BY DEF HasType
<1>2. i \in DOMAIN Append(s, e) /\ Append(s, e)[i] = s[i]
  BY AppendOf
<1> QED
  BY <1>1, <1>2 DEF HasType

\* A request the guard lets through is in the stream of a live server.
LEMMA RequestSent ==
  ASSUME TypeOK, serverOpen, NEW inc \in BOOLEAN,
         p2s' = Put(serverOpen, p2s,
                    v2r_vnc_send_fb_update_req(inc, ALLOW_DISPLAY_UPDATES))
  PROVE  HasType(p2s', "request")
<1>1. v2r_vnc_send_fb_update_req(inc, ALLOW_DISPLAY_UPDATES) = <<Request(inc)>>
  BY DEF v2r_vnc_send_fb_update_req, ALLOW_DISPLAY_UPDATES, SUPPRESS_DISPLAY_UPDATES
<1>2. p2s' = p2s \o <<Request(inc)>>
  BY <1>1 DEF Put
<1>3. <<Request(inc)>> \in Seq(RequestMessages)
  BY <1>1, RequestType
<1>4. HasType(<<Request(inc)>>, "request")
  BY DEF HasType, Request
<1>5. p2s \in Seq(RequestMessages)
  BY DEF TypeOK
<1>6. HasType(p2s \o <<Request(inc)>>, "request")
  BY <1>3, <1>4, <1>5, HasConcat
<1> QED
  BY <1>2, <1>6

\* A step that leaves every place of the request chain alone.
LEMMA StillAlive ==
  ASSUME RequestAlive, UNCHANGED <<p2s, s2p, pend, pc, allow>>,
         serverOpen' => serverOpen, status' = "running" => status = "running"
  PROVE  RequestAlive'
  BY DEF RequestAlive, HasType

\* v2r_rdp_process does not break the chain of requests.
LEMMA RdpAlive ==
  ASSUME TypeOK, RequestAlive, v2r_rdp_process
  PROVE  RequestAlive'
<1>1. CASE SendFails(serverOpen) \/ Leave("ended")
  BY <1>1 DEF SendFails, Leave, RequestAlive
<1>2. CASE v2r_rdp_process_suppress_output /\ ~SendFails(serverOpen)
  <2>1. /\ Head(c2p) \in ClientMessages /\ Head(c2p).type = "suppress_output"
    BY <1>2, TailOf DEF v2r_rdp_process_suppress_output, RdpReads, TypeOK
  <2>2. Head(c2p).allow \in {SUPPRESS_DISPLAY_UPDATES, ALLOW_DISPLAY_UPDATES}
    BY <2>1 DEF ClientMessages
  <2>3. allow' = Head(c2p).allow /\ serverOpen' = serverOpen
    BY <1>2 DEF v2r_rdp_process_suppress_output, server
  <2>4. CASE allow' = ALLOW_DISPLAY_UPDATES /\ serverOpen
    <3>1. p2s' = Put(serverOpen, p2s,
                     v2r_vnc_send_fb_update_req(FALSE, ALLOW_DISPLAY_UPDATES))
      BY <1>2, <2>3, <2>4 DEF v2r_rdp_process_suppress_output
    <3> QED
      BY <2>4, <3>1, RequestSent DEF RequestAlive
  <2>5. CASE ~(allow' = ALLOW_DISPLAY_UPDATES /\ serverOpen)
    BY <2>3, <2>5 DEF RequestAlive
  <2> QED
    BY <2>4, <2>5
<1>3. CASE v2r_input_process /\ ~SendFails(serverOpen)
  <2>1. Head(c2p) \in ClientMessages /\ Head(c2p).type = "input"
    BY <1>3, TailOf DEF v2r_input_process, RdpReads, TypeOK
  <2>2. Forwarded(Head(c2p)) \in Seq(RequestMessages)
    BY <2>1, InputType
  <2>3. p2s' = Put(serverOpen, p2s, Forwarded(Head(c2p)))
        /\ UNCHANGED <<s2p, pend, pc, allow, serverOpen, status>>
    BY <1>3 DEF v2r_input_process, NextEvent, server
  <2>4. HasType(p2s, "request") => HasType(p2s', "request")
    BY <2>2, <2>3, HasConcat DEF Put, TypeOK
  <2> QED
    BY <2>3, <2>4 DEF RequestAlive, HasType
<1>4. CASE IgnorePdu
  BY <1>4, StillAlive DEF IgnorePdu, NextEvent, server
<1> QED
  BY <1>1, <1>2, <1>3, <1>4 DEF v2r_rdp_process, RdpFails

\* v2r_vnc_process does not break the chain of requests.
LEMMA VncAlive ==
  ASSUME TypeOK, RequestAlive, v2r_vnc_process
  PROVE  RequestAlive'
<1>1. CASE SendFails(serverOpen) \/ SendFails(clientOpen) \/ Leave("ended")
  BY <1>1 DEF SendFails, Leave, RequestAlive
<1>2. CASE UpdateHeader
  BY <1>2 DEF UpdateHeader, RequestAlive
<1>3. CASE UpdateRectangle /\ ~SendFails(clientOpen)
  BY <1>3 DEF UpdateRectangle, RequestAlive
<1>4. CASE UpdateDone /\ ~SendFails(serverOpen)
  <2>1. /\ p2s' = Put(serverOpen, p2s, v2r_vnc_send_fb_update_req(TRUE, allow))
        /\ UNCHANGED <<allow, serverOpen>>
    BY <1>4 DEF UpdateDone, server
  <2>2. CASE allow = ALLOW_DISPLAY_UPDATES /\ serverOpen
    BY <2>1, <2>2, RequestSent DEF RequestAlive
  <2>3. CASE ~(allow = ALLOW_DISPLAY_UPDATES /\ serverOpen)
    BY <2>1, <2>3 DEF RequestAlive
  <2> QED
    BY <2>2, <2>3
<1>5. ASSUME NEW type \in {"colours", "bell", "cut_text"}, VncReads(type),
             NEW msgs, NEW map, Answer(msgs, map), ~SendFails(clientOpen)
      PROVE  RequestAlive'
  <2>1. /\ s2p # <<>> /\ Head(s2p).type # "update" /\ s2p' = Tail(s2p)
        /\ UNCHANGED <<p2s, pend, pc, allow, serverOpen, status>>
    BY <1>5 DEF VncReads, Answer, NextEvent, server
  <2>2. HasType(s2p, "update") => HasType(s2p', "update")
    BY <2>1, HasTail DEF TypeOK
  <2> QED
    BY <2>1, <2>2 DEF RequestAlive, HasType
<1> QED
  BY <1>1, <1>2, <1>3, <1>4, <1>5
  DEF v2r_vnc_process, v2r_vnc_process_set_colour_map_entries, v2r_vnc_process_bell,
      v2r_vnc_process_server_cut_text, VncFails

\* The server does not break the chain of requests.
LEMMA ServerAlive ==
  ASSUME TypeOK, RequestAlive, Server
  PROVE  RequestAlive'
<1>1. ASSUME NEW t \in Tiles, NEW c \in Contents, ServerPaints(t, c)
      PROVE  RequestAlive'
  BY <1>1, StillAlive DEF ServerPaints, proxy
<1>2. CASE ServerReads
  <2>1. /\ p2s # <<>> /\ p2s' = Tail(p2s)
        /\ UNCHANGED <<s2p, pc, allow, status, serverOpen>>
    BY <1>2 DEF ServerReads, proxy
  <2>2. CASE Head(p2s).type = "request"
    BY <1>2, <2>2 DEF ServerReads, RequestAlive
  <2>3. CASE Head(p2s).type # "request"
    <3>1. pend' = pend
      BY <1>2, <2>3 DEF ServerReads
    <3>2. HasType(p2s, "request") => HasType(p2s', "request")
      BY <2>1, <2>3, HasTail DEF TypeOK
    <3> QED
      BY <2>1, <3>1, <3>2 DEF RequestAlive, HasType
  <2> QED
    BY <2>2, <2>3
<1>3. CASE ServerUpdates
  <2>1. PICK r \in Seq(Rectangles) : s2p' = (s2p \o <<Header(Len(r))>>) \o r
    BY <1>3, UpdateMessages
  <2>2. Header(Len(r)) \in ServerMessages /\ r \in Seq(ServerMessages)
    BY LenProperties, SeqMonotonic DEF Header, ServerMessages
  <2>3. HasType(<<Header(Len(r))>>, "update")
    BY DEF HasType, Header
  <2>4. <<Header(Len(r))>> \in Seq(ServerMessages)
    BY <2>2, SingletonOf
  <2>5. /\ s2p \o <<Header(Len(r))>> \in Seq(ServerMessages)
        /\ HasType(s2p \o <<Header(Len(r))>>, "update")
    BY <2>3, <2>4, HasConcat, ConcatProperties DEF TypeOK
  <2>6. HasType(s2p', "update")
    BY <2>1, <2>2, <2>5, HasConcat
  <2> QED
    BY <2>6 DEF RequestAlive
<1>4. ASSUME NEW m \in ServerMessages, ServerNotifies(m)
      PROVE  RequestAlive'
  <2>1. /\ s2p' = Append(s2p, m)
        /\ UNCHANGED <<p2s, pend, pc, allow, serverOpen, status>>
    BY <1>4 DEF ServerNotifies, proxy
  <2>2. HasType(s2p, "update") => HasType(s2p', "update")
    BY <2>1, HasAppend DEF TypeOK
  <2> QED
    BY <2>1, <2>2 DEF RequestAlive, HasType
<1>5. CASE ServerSetsColours
  <2>1. PICK S \in SUBSET Entries : \E f \in [S -> Colours] :
          ServerNotifies(SetColours(f))
    BY <1>5 DEF ServerSetsColours
  <2>2. PICK f \in [S -> Colours] : ServerNotifies(SetColours(f))
    BY <2>1
  <2>3. SetColours(f) \in ServerMessages
    BY DEF SetColours, ServerMessages
  <2> QED
    BY <1>4, <2>2, <2>3
<1>6. CASE ServerSendsOther
  <2>1. {Bell, CutText(0), CutText(1), Unknown} \subseteq ServerMessages
    BY DEF Bell, CutText, Unknown, ServerMessages
  <2> QED
    BY <1>4, <1>6, <2>1 DEF ServerSendsOther
<1>7. CASE ServerCloses
  BY <1>7 DEF ServerCloses, RequestAlive
<1> QED
  BY <1>1, <1>2, <1>3, <1>5, <1>6, <1>7 DEF Server

\* No step breaks the chain of requests.
LEMMA NextAlive ==
  ASSUME TypeOK, RequestAlive, [Next]_vars
  PROVE  RequestAlive'
<1>1. ASSUME NEW fd, EpollWait(fd)
      PROVE  RequestAlive'
  BY <1>1, StillAlive DEF EpollWait, server
<1>2. CASE Client
  <2>1. UNCHANGED <<p2s, s2p, pend, pc, allow, status, serverOpen>>
    BY <1>2 DEF Client, ClientMinimise, ClientRestore, ClientTypes, ClientSendsOther,
                ClientSends, ClientCloses, ClientReads, proxy, server
  <2> QED
    BY <2>1, StillAlive
<1>3. CASE UNCHANGED vars
  BY <1>3, StillAlive DEF vars, proxy, server
<1>4. CASE Interrupted
  BY <1>4 DEF Interrupted, Leave, RequestAlive
<1> QED
  BY <1>1, <1>2, <1>3, <1>4, RdpAlive, VncAlive, ServerAlive
  DEF Next, v2r_session_transmit

\* While the client lets the proxy draw and the server is there, a request for the
\* next update, an update, or the handler that will ask again is always somewhere:
\* the picture cannot freeze because a request was lost (vnc.c, rdp.c).
THEOREM ChainUnbroken == Spec => []RequestAlive
<1>1. Init => RequestAlive
  BY DEF Init, RequestAlive, HasType, Request
<1>2. TypeOK /\ RequestAlive /\ [Next]_vars => RequestAlive'
  BY NextAlive
<1> QED
  BY <1>1, <1>2, TypeCorrect, PTL DEF Spec

(***************************************************************************)
(* What the messages of a stream, in their order, make of a state.  That y *)
(* comes of x is said by the states in between, so that adding a message   *)
(* adds a state and taking the first one away takes one away.              *)
(***************************************************************************)
Run(f, X, s, x, y) ==
  \E P \in [0..Len(s) -> X] :
    /\ P[0] = x /\ P[Len(s)] = y
    /\ \A i \in 1..Len(s) : P[i] = f[<<P[i - 1], s[i]>>]

\* The states in between, of a stream of a known length.
LEMMA RunBy ==
  ASSUME NEW f, NEW X, NEW s, NEW n, n = Len(s), NEW P \in [0..n -> X],
         \A i \in 1..n : P[i] = f[<<P[i - 1], s[i]>>],
         NEW x, NEW y, x = P[0], y = P[n]
  PROVE  Run(f, X, s, x, y)
  BY DEF Run

\* No message changes nothing.
LEMMA RunEmpty ==
  ASSUME NEW f, NEW X, NEW x \in X
  PROVE  Run(f, X, <<>>, x, x) /\ \A y : Run(f, X, <<>>, x, y) => x = y
<1>1. Run(f, X, <<>>, x, x)
  <2> DEFINE P == [i \in 0..0 |-> x]
  <2>1. P \in [0..0 -> X] /\ P[0] = x /\ 0 = Len(<<>>) /\ 1..0 = {}
    OBVIOUS
  <2> HIDE DEF P
  <2> QED
    BY <2>1, RunBy
<1>2. ASSUME NEW y, Run(f, X, <<>>, x, y)
      PROVE  x = y
  <2>1. Len(<<>>) = 0
    OBVIOUS
  <2> QED
    BY <1>2, <2>1 DEF Run
<1> QED
  BY <1>1, <1>2

\* One message is one step.
LEMMA RunOne ==
  ASSUME NEW M, NEW X, NEW f \in [X \X M -> X], NEW e \in M, NEW x \in X
  PROVE  Run(f, X, <<e>>, x, f[<<x, e>>])
<1> DEFINE P == [i \in 0..1 |-> IF i = 0 THEN x ELSE f[<<x, e>>]]
<1>1. f[<<x, e>>] \in X
  OBVIOUS
<1>2. P \in [0..1 -> X] /\ P[0] = x /\ P[1] = f[<<x, e>>]
  BY <1>1
<1>3. Len(<<e>>) = 1 /\ <<e>>[1] = e
  OBVIOUS
<1> HIDE DEF P
<1> QED
  BY <1>2, <1>3 DEF Run

\* The messages of one stream, then those of another.
LEMMA RunConcat ==
  ASSUME NEW M, NEW X, NEW f, NEW s \in Seq(M), NEW t \in Seq(M),
         NEW x, NEW y, NEW z, Run(f, X, s, x, y), Run(f, X, t, y, z)
  PROVE  Run(f, X, s \o t, x, z)
<1>1. PICK A \in [0..Len(s) -> X] :
        /\ A[0] = x /\ A[Len(s)] = y
        /\ \A i \in 1..Len(s) : A[i] = f[<<A[i - 1], s[i]>>]
  BY DEF Run
<1>2. PICK B \in [0..Len(t) -> X] :
        /\ B[0] = y /\ B[Len(t)] = z
        /\ \A i \in 1..Len(t) : B[i] = f[<<B[i - 1], t[i]>>]
  BY DEF Run
<1>3. PICK m \in Nat, n \in Nat : m = Len(s) /\ n = Len(t)
  BY LenProperties
<1>4. /\ Len(s \o t) = m + n
      /\ \A i \in 1..m + n : (s \o t)[i] = IF i <= m THEN s[i] ELSE t[i - m]
  BY <1>3, ConcatProperties
<1> DEFINE P == [i \in 0..m + n |-> IF i <= m THEN A[i] ELSE B[i - m]]
<1>5. P \in [0..m + n -> X]
  BY <1>1, <1>2, <1>3
<1>6. P[0] = x /\ P[m + n] = z
  BY <1>1, <1>2, <1>3
<1>7. ASSUME NEW i \in 1..m + n
      PROVE  P[i] = f[<<P[i - 1], (s \o t)[i]>>]
  <2>1. CASE i <= m
    <3>1. P[i] = A[i] /\ P[i - 1] = A[i - 1] /\ (s \o t)[i] = s[i] /\ i \in 1..m
      BY <1>4, <2>1
    <3> QED
      BY <1>1, <1>3, <3>1
  <2>2. CASE i = m + 1
    <3>1. i - m = 1 /\ ~(i <= m) /\ 1 \in 1..n /\ i - 1 = m /\ m \in 0..m + n
          /\ i \in 0..m + n
      BY <2>2
    <3>2. P[i] = B[1] /\ (s \o t)[i] = t[1]
      BY <1>4, <3>1
    <3>3. P[i - 1] = A[m]
      BY <3>1
    <3>4. B[1] = f[<<B[0], t[1]>>]
      BY <1>2, <1>3, <3>1
    <3> QED
      BY <1>1, <1>2, <1>3, <3>2, <3>3, <3>4
  <2>3. CASE i > m + 1
    <3> DEFINE j == i - m
    <3>1. /\ ~(i <= m) /\ ~(i - 1 <= m) /\ i \in 0..m + n /\ i - 1 \in 0..m + n
          /\ (i - 1) - m = j - 1 /\ j \in 1..n
      BY <2>3
    <3>2. P[i] = B[j] /\ P[i - 1] = B[j - 1] /\ (s \o t)[i] = t[j]
      BY <1>4, <3>1
    <3>3. B[j] = f[<<B[j - 1], t[j]>>]
      BY <1>2, <1>3, <3>1
    <3> QED
      BY <3>2, <3>3
  <2>4. i <= m \/ i = m + 1 \/ i > m + 1
    OBVIOUS
  <2> QED
    BY <2>1, <2>2, <2>3, <2>4
<1> HIDE DEF P
<1> QED
  BY <1>4, <1>5, <1>6, <1>7, RunBy

\* The first message is taken away.
LEMMA RunTail ==
  ASSUME NEW M, NEW X, NEW f, NEW s \in Seq(M), s # <<>>,
         NEW x, NEW y, Run(f, X, s, x, y)
  PROVE  Run(f, X, Tail(s), f[<<x, Head(s)>>], y)
<1>1. PICK A \in [0..Len(s) -> X] :
        /\ A[0] = x /\ A[Len(s)] = y
        /\ \A i \in 1..Len(s) : A[i] = f[<<A[i - 1], s[i]>>]
  BY DEF Run
<1>2. PICK n \in Nat \ {0} : n = Len(s)
  BY EmptySeq
<1>3. /\ Len(Tail(s)) = n - 1 /\ Head(s) = s[1]
      /\ \A i \in 1..n - 1 : Tail(s)[i] = s[i + 1]
  BY <1>2, HeadTailProperties, TailOf
<1> DEFINE P == [i \in 0..n - 1 |-> A[i + 1]]
<1>4. P \in [0..n - 1 -> X]
  BY <1>1, <1>2
<1>5. P[0] = f[<<x, Head(s)>>] /\ P[n - 1] = y
  BY <1>1, <1>2, <1>3
<1>6. ASSUME NEW i \in 1..n - 1
      PROVE  P[i] = f[<<P[i - 1], Tail(s)[i]>>]
  <2>1. P[i] = A[i + 1] /\ P[i - 1] = A[i] /\ Tail(s)[i] = s[i + 1] /\ i + 1 \in 1..n
    BY <1>3
  <2> QED
    BY <1>1, <1>2, <2>1
<1> HIDE DEF P
<1> QED
  BY <1>3, <1>4, <1>5, <1>6, RunBy

\* Every stream makes something of every state.
LEMMA RunExists ==
  ASSUME NEW M, NEW X, NEW f \in [X \X M -> X], NEW s \in Seq(M), NEW x \in X
  PROVE  \E y \in X : Run(f, X, s, x, y)
<1>1. PICK n \in Nat : n = Len(s)
  BY LenProperties
<1> DEFINE S == {k \in Nat : k <= n =>
                   \E P \in [0..k -> X] :
                     P[0] = x /\ \A i \in 1..k : P[i] = f[<<P[i - 1], s[i]>>]}
<1>2. 0 \in S
  <2> DEFINE P == [i \in 0..0 |-> x]
  <2>1. P \in [0..0 -> X] /\ P[0] = x /\ 1..0 = {}
    OBVIOUS
  <2> QED
    BY <2>1
<1>3. ASSUME NEW k \in Nat, k \in S
      PROVE  k + 1 \in S
  <2> SUFFICES ASSUME k + 1 <= n
               PROVE  \E P \in [0..k + 1 -> X] :
                        P[0] = x /\ \A i \in 1..k + 1 : P[i] = f[<<P[i - 1], s[i]>>]
    OBVIOUS
  <2>1. PICK A \in [0..k -> X] : A[0] = x /\ \A i \in 1..k : A[i] = f[<<A[i - 1], s[i]>>]
    BY <1>3
  <2>2. k + 1 \in 1..Len(s)
    BY <1>1
  <2>3. s[k + 1] \in M
    BY <2>2, ElementOfSeq
  <2>4. f[<<A[k], s[k + 1]>>] \in X
    BY <2>1, <2>3
  <2> DEFINE P == [i \in 0..k + 1 |-> IF i <= k THEN A[i] ELSE f[<<A[k], s[k + 1]>>]]
  <2>5. P \in [0..k + 1 -> X] /\ P[0] = x
    BY <2>1, <2>4
  <2>6. ASSUME NEW i \in 1..k + 1
        PROVE  P[i] = f[<<P[i - 1], s[i]>>]
    <3>1. CASE i <= k
      <4>1. P[i] = A[i] /\ P[i - 1] = A[i - 1] /\ i \in 1..k
        BY <3>1
      <4> QED
        BY <2>1, <4>1
    <3>2. CASE i = k + 1
      <4>1. i - 1 = k /\ ~(i <= k) /\ k \in 0..k + 1 /\ i \in 0..k + 1
        BY <3>2
      <4>2. P[i] = f[<<A[k], s[k + 1]>>] /\ P[i - 1] = A[k]
        BY <4>1
      <4> QED
        BY <3>2, <4>2
    <3>3. i <= k \/ i = k + 1
      OBVIOUS
    <3> QED
      BY <3>1, <3>2, <3>3
  <2> HIDE DEF P
  <2> QED
    BY <2>5, <2>6
<1>4. n \in S
  <2> HIDE DEF S
  <2> QED
    BY <1>2, <1>3, NatInduct
<1>5. PICK P \in [0..n -> X] : P[0] = x /\ \A i \in 1..n : P[i] = f[<<P[i - 1], s[i]>>]
  BY <1>4
<1>6. P[n] \in X
  BY <1>5
<1> QED
  BY <1>1, <1>5, <1>6, RunBy

(***************************************************************************)
(* What a message does to a picture and to a colour map, whether it has    *)
(* been translated by the proxy or not.                                    *)
(***************************************************************************)
Shows(picture, m) ==
  IF m.type \in {"bitmap", "raw"} THEN [picture EXCEPT ![m.tile] = m.content]
  ELSE IF m.type \in {"scrblt", "copyrect"}
         THEN [picture EXCEPT ![m.tile] = picture[m.src]]
  ELSE picture

Paints(map, m) ==
  IF m.type = "palette" THEN m.map
  ELSE IF m.type = "colours" THEN Overlay(m.entries, map)
  ELSE map

Messages == ServerMessages \cup OutputMessages
Drawing  == [q \in Pictures \X Messages |-> Shows(q[1], q[2])]
Painting == [q \in ColourMap \X Messages |-> Paints(q[1], q[2])]

\* A drawing makes a picture of a picture.
LEMMA DrawingType == Drawing \in [Pictures \X Messages -> Pictures]
<1> SUFFICES ASSUME NEW p \in Pictures, NEW m \in Messages
             PROVE  Shows(p, m) \in Pictures
  BY DEF Drawing
<1>1. CASE m.type \in {"bitmap", "raw"}
  <2>1. m.tile \in Tiles /\ m.content \in Contents
    BY <1>1 DEF Messages, ServerMessages, OutputMessages, Rectangles
  <2> QED
    BY <1>1, <2>1 DEF Shows, Pictures
<1>2. CASE m.type \in {"scrblt", "copyrect"}
  <2>1. m.tile \in Tiles /\ m.src \in Tiles
    BY <1>2 DEF Messages, ServerMessages, OutputMessages, Rectangles
  <2> QED
    BY <1>2, <2>1 DEF Shows, Pictures
<1> QED
  BY <1>1, <1>2 DEF Shows

\* A message makes a palette of a palette.
LEMMA PaintingType == Painting \in [ColourMap \X Messages -> ColourMap]
<1> SUFFICES ASSUME NEW map \in ColourMap, NEW m \in Messages
             PROVE  Paints(map, m) \in ColourMap
  BY DEF Painting
<1>1. CASE m.type = "palette"
  <2>1. m.map \in ColourMap
    BY <1>1 DEF Messages, ServerMessages, OutputMessages, Rectangles
  <2> QED
    BY <1>1, <2>1 DEF Paints
<1>2. CASE m.type = "colours"
  <2>1. \E S \in SUBSET Entries : m.entries \in [S -> Colours]
    BY <1>2 DEF Messages, ServerMessages, OutputMessages, Rectangles
  <2>2. Overlay(m.entries, map) \in ColourMap
    BY <2>1, OverlayType
  <2> QED
    BY <1>2, <2>2 DEF Paints
<1> QED
  BY <1>1, <1>2 DEF Paints

\* A message that draws nothing, and one that paints nothing.
LEMMA DrawsNothing ==
  ASSUME NEW p \in Pictures, NEW m \in Messages,
         m.type \notin {"bitmap", "raw", "scrblt", "copyrect"}
  PROVE  Drawing[<<p, m>>] = p
  BY DEF Drawing, Shows

\* A message without colours leaves the palette alone.
LEMMA PaintsNothing ==
  ASSUME NEW map \in ColourMap, NEW m \in Messages, m.type \notin {"palette", "colours"}
  PROVE  Painting[<<map, m>>] = map
  BY DEF Painting, Paints

\* A rectangle and what the proxy makes of it show the same.
LEMMA DrawnShows ==
  ASSUME NEW p \in Pictures, NEW r \in Rectangles
  PROVE  /\ Drawn(r) \in Messages /\ r \in Messages
         /\ Drawing[<<p, Drawn(r)>>] = Drawing[<<p, r>>]
<1>1. Drawn(r) \in Messages /\ r \in Messages
  BY DrawnType DEF Messages, ServerMessages
<1>2. Shows(p, Drawn(r)) = Shows(p, r)
  BY DEF Drawn, Bitmap, Scrblt, Rectangles, Shows
<1> QED
  BY <1>1, <1>2 DEF Drawing

(***************************************************************************)
(* An update makes of what the server sent before what its screen shows.   *)
(***************************************************************************)
LEMMA RawShows ==
  ASSUME NEW p \in Pictures, NEW t \in Tiles, NEW c \in Contents
  PROVE  Drawing[<<p, Raw(t, c)>>] = [p EXCEPT ![t] = c]
<1>1. Raw(t, c) \in Messages
  BY DEF Raw, Messages, ServerMessages, Rectangles
<1>2. Drawing[<<p, Raw(t, c)>>] = Shows(p, Raw(t, c))
  BY <1>1 DEF Drawing
<1> QED
  BY <1>2 DEF Shows, Raw

\* The raw rectangles of tiles in an order, and a picture with the screen's content in some.
RawsOf(order, n) == [i \in 1..n |-> Raw(order[i], screen[order[i]])]
Redrawn(tiles, p) == [t \in Tiles |-> IF t \in tiles THEN screen[t] ELSE p[t]]

\* The rectangles of some tiles, each once, in any order, show the screen there.
LEMMA RawsShow ==
  ASSUME TypeOK, NEW D \in SUBSET Tiles, NEW n \in Nat, NEW order \in [1..n -> D],
         \A t \in D : \E i \in 1..n : order[i] = t,
         NEW p \in Pictures
  PROVE  Run(Drawing, Pictures, RawsOf(order, n), p, Redrawn(D, p))
<1> USE DEF RawsOf, Redrawn
<1> DEFINE raws == [i \in 1..n |-> Raw(order[i], screen[order[i]])]
           Done(k) == {order[i] : i \in 1..k}
           P == [k \in 0..n |-> [t \in Tiles |-> IF t \in Done(k) THEN screen[t] ELSE p[t]]]
<1>1. screen \in [Tiles -> Contents] /\ p \in [Tiles -> Contents \cup {Blank}]
  BY DEF TypeOK, Screens, Pictures
<1>2. raws \in [1..n -> Messages] /\ Len(raws) = n
  <2>1. \A i \in 1..n : Raw(order[i], screen[order[i]]) \in Messages
    BY <1>1 DEF Raw, Messages, ServerMessages, Rectangles
  <2> QED
    BY <2>1
<1>3. P \in [0..n -> Pictures]
  BY <1>1 DEF Pictures
<1>4. p = P[0]
  <2>1. Done(0) = {}
    OBVIOUS
  <2>2. P[0] = [t \in Tiles |-> p[t]]
    BY <2>1
  <2> QED
    BY <1>1, <2>2
<1>5. [t \in Tiles |-> IF t \in D THEN screen[t] ELSE p[t]] = P[n]
  <2>1. Done(n) = D
    OBVIOUS
  <2> QED
    BY <2>1
<1>6. ASSUME NEW i \in 1..n
      PROVE  P[i] = Drawing[<<P[i - 1], raws[i]>>]
  <2>1. Done(i) = Done(i - 1) \cup {order[i]}
    OBVIOUS
  <2>2. raws[i] = Raw(order[i], screen[order[i]]) /\ raws[i] \in Messages
    BY <1>2
  <2>3. i - 1 \in 0..n /\ P[i - 1] \in Pictures
    BY <1>3
  <2>4. Drawing[<<P[i - 1], raws[i]>>] = [P[i - 1] EXCEPT ![order[i]] = screen[order[i]]]
    <3> HIDE DEF P, raws
    <3>1. PICK q \in Pictures, t \in Tiles, c \in Contents :
            q = P[i - 1] /\ t = order[i] /\ c = screen[order[i]]
      BY <1>1, <2>3
    <3>2. q \in Pictures /\ t \in Tiles /\ c \in Contents
      BY <3>1
    <3>3. Drawing[<<q, Raw(t, c)>>] = [q EXCEPT ![t] = c]
      BY <3>2, RawShows
    <3> QED
      BY <2>2, <3>1, <3>3
  <2>5. P[i] = [t \in Tiles |-> IF t \in Done(i) THEN screen[t] ELSE p[t]]
    OBVIOUS
  <2>6. P[i - 1] = [t \in Tiles |-> IF t \in Done(i - 1) THEN screen[t] ELSE p[t]]
    BY <2>3
  <2> HIDE DEF P, raws, Done
  <2>7. [P[i - 1] EXCEPT ![order[i]] = screen[order[i]]]
          = [t \in Tiles |-> IF t \in Done(i - 1) \cup {order[i]} THEN screen[t] ELSE p[t]]
    BY <2>6
  <2> QED
    BY <2>1, <2>4, <2>5, <2>7
<1>7. Run(Drawing, Pictures, raws, p, P[n])
  <2> HIDE DEF P, raws
  <2> QED
    BY <1>2, <1>3, <1>4, <1>6, RunBy
<1> QED
  BY <1>5, <1>7

\* Messages that change nothing.
LEMMA RunIdle ==
  ASSUME NEW M, NEW X, NEW f, NEW s \in Seq(M), NEW x \in X,
         \A m \in M : f[<<x, m>>] = x
  PROVE  Run(f, X, s, x, x)
<1>1. PICK n \in Nat : n = Len(s)
  BY LenProperties
<1> DEFINE P == [i \in 0..n |-> x]
<1>2. P \in [0..n -> X] /\ P[0] = x /\ P[n] = x
  OBVIOUS
<1>3. ASSUME NEW i \in 1..n
      PROVE  P[i] = f[<<P[i - 1], s[i]>>]
  <2>1. P[i] = x /\ P[i - 1] = x
    OBVIOUS
  <2>2. s[i] \in M
    BY <1>1, ElementOfSeq
  <2> HIDE DEF P
  <2> QED
    BY <2>1, <2>2
<1> HIDE DEF P
<1> QED
  BY <1>1, <1>2, <1>3, RunBy

\* A sequence of the elements of a set, each once, has all of them.
LEMMA OrderCovers ==
  ASSUME NEW S, IsFiniteSet(S), NEW order \in SetToSeqs(S)
  PROVE  /\ Cardinality(S) \in Nat
         /\ order \in [1..Cardinality(S) -> S]
         /\ \A x \in S : \E i \in 1..Cardinality(S) : order[i] = x
<1>1. PICK n \in Nat : n = Cardinality(S)
  BY FS_CardinalityType
<1>2. order \in [1..n -> S] /\ \A i, j \in 1..n : i # j => order[i] # order[j]
  BY <1>1 DEF SetToSeqs
<1>3. order \in Injection(1..n, S)
  BY <1>2 DEF Injection, IsInjective
<1>4. IsFiniteSet(1..n) /\ Cardinality(1..n) = n
  BY FS_Interval
<1>5. order \in Surjection(1..n, S)
  BY <1>1, <1>3, <1>4, FS_Injection
<1> QED
  BY <1>1, <1>2, <1>5 DEF Surjection

\* What the server puts into its stream with an update.  A full update shows its
\* screen whatever was shown before.
LEMMA UpdateShows ==
  ASSUME TypeOK, ServerUpdates
  PROVE  \E news \in Seq(Messages) :
           /\ s2p' = s2p \o news
           /\ Run(Painting, ColourMap, news, colours, colours)
           /\ Run(Drawing, Pictures, news, sent, screen)
           /\ pend = "full" => \A p \in Pictures : Run(Drawing, Pictures, news, p, screen)
<1> DEFINE changed == IF pend = "full" THEN Tiles
                      ELSE {t \in Tiles : sent[t] # screen[t]}
<1>1. PICK copies \in Copies(changed) :
        \E order \in SetToSeqs(changed \ {copies[i].tile : i \in DOMAIN copies}) :
          s2p' = s2p \o <<Header(Cardinality(changed))>> \o copies
                   \o [i \in DOMAIN order |-> Raw(order[i], screen[order[i]])]
  BY DEF ServerUpdates
<1> DEFINE rest == changed \ {copies[i].tile : i \in DOMAIN copies}
<1>2. PICK order \in SetToSeqs(rest) :
        s2p' = s2p \o <<Header(Cardinality(changed))>> \o copies
                 \o [i \in DOMAIN order |-> Raw(order[i], screen[order[i]])]
  BY <1>1
<1> DEFINE raws == [i \in DOMAIN order |-> Raw(order[i], screen[order[i]])]
           header == <<Header(Cardinality(changed))>>
           Quiet == [type : {"update"}, nrects : Nat] \cup Rectangles
<1>3. /\ IsFiniteSet(changed) /\ Cardinality(changed) \in Nat /\ changed \subseteq Tiles
      /\ IsFiniteSet(rest) /\ Cardinality(rest) \in Nat /\ rest \subseteq Tiles
  BY TilesAssumption, FS_Subset, FS_CardinalityType
<1>4. /\ sent \in [Tiles -> Contents \cup {Blank}] /\ sent \in Pictures
      /\ screen \in [Tiles -> Contents]
  BY DEF TypeOK, Screens, Pictures
<1>5. /\ order \in [1..Cardinality(rest) -> rest]
      /\ \A t \in rest : \E i \in 1..Cardinality(rest) : order[i] = t
  <2> HIDE DEF rest
  <2> QED
    BY <1>3, OrderCovers
<1>6. raws = [i \in 1..Cardinality(rest) |-> Raw(order[i], screen[order[i]])]
  BY <1>5
<1>7. raws \in Seq(Quiet)
  <2>1. \A i \in 1..Cardinality(rest) : Raw(order[i], screen[order[i]]) \in Quiet
    BY <1>3, <1>4, <1>5 DEF Raw, Rectangles
  <2>2. raws \in [1..Cardinality(rest) -> Quiet]
    BY <1>6, <2>1
  <2> HIDE DEF raws, rest, Quiet
  <2> QED
    BY <1>3, <2>2, SeqDef
<1>8. copies \in Seq(Quiet) /\ header \in Seq(Quiet)
  <2>1. \A q \in changed \X Tiles : CopyRect(q[1], q[2]) \in Quiet
    BY <1>3 DEF CopyRect, Rectangles
  <2>2. copies = <<>> \/ \E q \in changed \X Tiles : copies = <<CopyRect(q[1], q[2])>>
    BY DEF Copies
  <2>3. copies \in Seq(Quiet)
    <3> HIDE DEF Quiet, changed
    <3>1. CASE copies = <<>>
      BY <3>1
    <3>2. ASSUME NEW q \in changed \X Tiles, copies = <<CopyRect(q[1], q[2])>>
          PROVE  copies \in Seq(Quiet)
      BY <2>1, <3>2, SingletonOf
    <3> QED
      BY <2>2, <3>1, <3>2
  <2>4. Header(Cardinality(changed)) \in Quiet
    BY <1>3 DEF Header
  <2> QED
    BY <2>3, <2>4
<1> DEFINE news == header \o (copies \o raws)
<1>9. Quiet \subseteq Messages /\ Quiet \subseteq ServerMessages
  BY DEF Messages, ServerMessages, Rectangles
<1>10. /\ news \in Seq(Quiet) /\ news \in Seq(Messages)
       /\ copies \in Seq(Messages) /\ raws \in Seq(Messages) /\ header \in Seq(Messages)
       /\ copies \o raws \in Seq(Messages)
  <2> HIDE DEF Quiet, raws, header
  <2> QED
    BY <1>7, <1>8, <1>9, SeqMonotonic, ConcatProperties
<1>11. s2p' = s2p \o news
  <2>1. s2p \in Seq(Messages)
    BY SeqMonotonic DEF TypeOK, Messages
  <2>2. s2p' = ((s2p \o header) \o copies) \o raws
    <3> HIDE DEF changed, rest
    <3> QED
      BY <1>2, Zenon
  <2> HIDE DEF raws, header
  <2>3. s2p \o header \in Seq(Messages)
    BY <1>10, <2>1, ConcatProperties
  <2>4. ((s2p \o header) \o copies) \o raws = (s2p \o header) \o (copies \o raws)
    <3> DEFINE ahead == s2p \o header
    <3>1. ahead \in Seq(Messages) /\ copies \in Seq(Messages) /\ raws \in Seq(Messages)
      BY <1>10, <2>3
    <3> HIDE DEF ahead
    <3>2. (ahead \o copies) \o raws = ahead \o (copies \o raws)
      BY <3>1, ConcatAssociative
    <3> QED
      BY <3>2 DEF ahead
  <2>5. (s2p \o header) \o (copies \o raws) = s2p \o (header \o (copies \o raws))
    <3> DEFINE after == copies \o raws
    <3>1. after \in Seq(Messages) /\ header \in Seq(Messages)
      BY <1>10
    <3> HIDE DEF after
    <3>2. (s2p \o header) \o after = s2p \o (header \o after)
      BY <2>1, <3>1, ConcatAssociative
    <3> QED
      BY <3>2 DEF after
  <2> QED
    BY <2>2, <2>4, <2>5
<1>12. Run(Painting, ColourMap, news, colours, colours)
  <2>1. \A m \in Quiet : Painting[<<colours, m>>] = colours
    BY <1>9, PaintsNothing DEF TypeOK, Rectangles
  <2> HIDE DEF news, Quiet
  <2> QED
    BY <1>10, <2>1, RunIdle DEF TypeOK
<1>13. ASSUME NEW p \in Pictures, NEW q, Run(Drawing, Pictures, copies \o raws, p, q)
       PROVE  Run(Drawing, Pictures, news, p, q)
  <2>1. Header(Cardinality(changed)) \in Messages
        /\ Header(Cardinality(changed)).type = "update"
    BY <1>3 DEF Header, Messages, ServerMessages
  <2>2. Drawing[<<p, Header(Cardinality(changed))>>] = p
    BY <2>1, DrawsNothing
  <2>3. Run(Drawing, Pictures, header, p, p)
    BY <2>1, <2>2, RunOne, DrawingType
  <2> HIDE DEF header, raws
  <2> QED
    BY <1>10, <1>13, <2>3, RunConcat
<1>14. ASSUME NEW p \in Pictures
       PROVE  Run(Drawing, Pictures, raws, p,
                  [t \in Tiles |-> IF t \in rest THEN screen[t] ELSE p[t]])
  <2> HIDE DEF rest, raws
  <2>1. PICK n \in Nat : n = Cardinality(rest)
    BY <1>3
  <2>2. /\ order \in [1..n -> rest] /\ \A t \in rest : \E i \in 1..n : order[i] = t
        /\ raws = RawsOf(order, n)
        /\ rest \in SUBSET Tiles
    <3>1. order \in [1..n -> rest] /\ \A t \in rest : \E i \in 1..n : order[i] = t
      BY <1>5, <2>1
    <3>2. raws = RawsOf(order, n)
      BY <1>6, <2>1 DEF RawsOf
    <3> QED
      BY <1>3, <3>1, <3>2
  <2>3. Run(Drawing, Pictures, RawsOf(order, n), p, Redrawn(rest, p))
    <3>1. n \in Nat
      BY <2>1
    <3> QED
      BY <2>2, <3>1, RawsShow
  <2> QED
    BY <2>2, <2>3 DEF Redrawn
<1>15. CASE copies = <<>>
  <2>1. rest = changed
    BY <1>15
  <2>2. copies \o raws = raws
    <3> HIDE DEF raws
    <3> QED
      BY <1>10, <1>15, ConcatEmptySeq
  <2>3. Run(Drawing, Pictures, news, sent, screen)
    <3>1. [t \in Tiles |-> IF t \in rest THEN screen[t] ELSE sent[t]] = screen
      BY <1>4, <2>1
    <3> HIDE DEF news, raws, rest, changed
    <3> QED
      BY <1>4, <1>13, <1>14, <2>2, <3>1
  <2>4. ASSUME pend = "full", NEW p \in Pictures
        PROVE  Run(Drawing, Pictures, news, p, screen)
    <3>1. [t \in Tiles |-> IF t \in rest THEN screen[t] ELSE p[t]] = screen
      BY <1>4, <2>1, <2>4
    <3> HIDE DEF news, raws, rest, changed
    <3> QED
      BY <1>13, <1>14, <2>2, <3>1
  <2> HIDE DEF news
  <2> QED
    BY <1>10, <1>11, <1>12, <2>3, <2>4
<1>16. CASE copies # <<>>
  <2>1. PICK q \in changed \X Tiles :
          copies = <<CopyRect(q[1], q[2])>> /\ pend = "incremental" /\ sent[q[2]] = screen[q[1]]
    BY <1>16 DEF Copies
  <2> DEFINE e == CopyRect(q[1], q[2])
             copied == [sent EXCEPT ![q[1]] = sent[q[2]]]
  <2>2. q[1] \in Tiles /\ q[2] \in Tiles /\ q[1] \in changed
    BY <1>3, <2>1
  <2>3. e \in Messages
    BY <2>2 DEF CopyRect, Messages, ServerMessages, Rectangles
  <2>4. Drawing[<<sent, e>>] = copied
    <3>1. Drawing[<<sent, e>>] = Shows(sent, e)
      BY <1>4, <2>3 DEF Drawing
    <3> QED
      BY <3>1 DEF Shows, CopyRect
  <2>5. Run(Drawing, Pictures, copies, sent, copied) /\ copied \in Pictures
    <3>1. Run(Drawing, Pictures, <<e>>, sent, Drawing[<<sent, e>>])
      <4> HIDE DEF e
      <4> QED
        BY <1>4, <2>3, RunOne, DrawingType
    <3>2. copied \in Pictures
      BY <1>4, <2>2 DEF Pictures
    <3> QED
      BY <2>1, <2>4, <3>1, <3>2
  <2>6. rest = changed \ {q[1]}
    BY <2>1 DEF CopyRect
  <2>7. [t \in Tiles |-> IF t \in rest THEN screen[t] ELSE copied[t]] = screen
    <3>1. \A t \in Tiles : (IF t \in rest THEN screen[t] ELSE copied[t]) = screen[t]
      BY <1>4, <2>1, <2>2, <2>6
    <3> HIDE DEF copied, rest
    <3> QED
      BY <1>4, <3>1
  <2>8. Run(Drawing, Pictures, news, sent, screen)
    <3> HIDE DEF news, raws, rest, copied
    <3>1. Run(Drawing, Pictures, raws, copied, screen)
      BY <1>14, <2>5, <2>7
    <3>2. Run(Drawing, Pictures, copies \o raws, sent, screen)
      BY <1>10, <2>5, <3>1, RunConcat
    <3> QED
      BY <1>4, <1>13, <3>2
  <2> HIDE DEF news
  <2> QED
    BY <1>10, <1>11, <1>12, <2>1, <2>8
<1> QED
  BY <1>15, <1>16

(***************************************************************************)
(* The client shows what the server believes it has sent as soon as all    *)
(* that is on its way has arrived: first what is in the stream to the      *)
(* client, then what is in the stream from the server.  Only while the     *)
(* client is minimised, or has asked for a full update that has not been   *)
(* sent, this is not said of the picture.  The last PDU about output of a  *)
(* client that is not minimised asks for it, so when there is no such PDU  *)
(* in the stream any more, the full request has been sent.                 *)
(***************************************************************************)
Watching == ~minimised /\ ~HasType(c2p, "suppress_output") /\ ~FullRequested

RestoredLast ==
  ~minimised =>
    \A i \in DOMAIN c2p :
      c2p[i].type = "suppress_output" /\ c2p[i].allow = SUPPRESS_DISPLAY_UPDATES
        => \E j \in DOMAIN c2p : j > i /\ c2p[j].type = "suppress_output"

WillPaint ==
  /\ Run(Painting, ColourMap, p2c, palette, colour_map)
  /\ Run(Painting, ColourMap, s2p, colour_map, colours)

WillShow ==
  Watching =>
    \E between \in Pictures :
      /\ Run(Drawing, Pictures, p2c, shown, between)
      /\ Run(Drawing, Pictures, s2p, between, sent)

Connected == status = "running" /\ clientOpen /\ serverOpen

SyncInv == Connected => RestoredLast /\ WillPaint /\ WillShow

\* The types of the streams, as streams of messages.
LEMMA StreamTypes ==
  ASSUME TypeOK
  PROVE  /\ p2c \in Seq(Messages) /\ s2p \in Seq(Messages)
         /\ \A s \in Seq(OutputMessages) : s \in Seq(Messages)
         /\ \A s \in Seq(ServerMessages) : s \in Seq(Messages)
  BY SeqMonotonic DEF TypeOK, Messages

\* A step that leaves the drawings on their way alone.
LEMMA StillSync ==
  ASSUME SyncInv, Connected' => Connected,
         Connected => UNCHANGED <<p2c, s2p, colour_map, shown, palette, sent, colours>>,
         Connected /\ Connected' => RestoredLast' /\ (Watching' => Watching)
  PROVE  SyncInv'
<1> SUFFICES ASSUME Connected'
             PROVE  RestoredLast' /\ WillPaint' /\ WillShow'
  BY DEF SyncInv
<1>1. Connected /\ RestoredLast /\ WillPaint /\ WillShow
  BY DEF SyncInv
<1>2. WillPaint'
  BY <1>1 DEF WillPaint
<1>3. WillShow'
  BY <1>1 DEF WillShow
<1> QED
  BY <1>1, <1>2, <1>3

\* A step of the proxy that takes a message of the server and passes on what it makes
\* of it.
LEMMA PassesSync ==
  ASSUME TypeOK, SyncInv, Connected, s2p # <<>>, s2p' = Tail(s2p),
         NEW out \in Seq(OutputMessages), p2c' = p2c \o out,
         UNCHANGED <<shown, palette, sent, colours, c2p, p2s, pend, minimised>>,
         colour_map' = Painting[<<colour_map, Head(s2p)>>],
         Run(Painting, ColourMap, out, colour_map, colour_map'),
         \A p \in Pictures : Run(Drawing, Pictures, out, p, Drawing[<<p, Head(s2p)>>])
  PROVE  SyncInv'
<1>1. /\ p2c \in Seq(Messages) /\ s2p \in Seq(Messages) /\ out \in Seq(Messages)
      /\ Head(s2p) \in Messages
  BY StreamTypes, HeadTailProperties
<1>2. RestoredLast /\ WillPaint /\ WillShow
  BY DEF SyncInv
<1>3. RestoredLast'
  BY <1>2 DEF RestoredLast
<1>4. WillPaint'
  <2>1. Run(Painting, ColourMap, p2c \o out, palette, colour_map')
    BY <1>1, <1>2, RunConcat DEF WillPaint
  <2>2. Run(Painting, ColourMap, Tail(s2p), colour_map', colours)
    BY <1>1, <1>2, RunTail DEF WillPaint
  <2> QED
    BY <2>1, <2>2 DEF WillPaint
<1>5. WillShow'
  <2> SUFFICES ASSUME Watching'
               PROVE  \E between \in Pictures :
                        /\ Run(Drawing, Pictures, p2c', shown', between)
                        /\ Run(Drawing, Pictures, s2p', between, sent')
    BY DEF WillShow
  <2>1. Watching
    BY DEF Watching, HasType, FullRequested
  <2>2. PICK between \in Pictures : /\ Run(Drawing, Pictures, p2c, shown, between)
                                    /\ Run(Drawing, Pictures, s2p, between, sent)
    BY <1>2, <2>1 DEF WillShow
  <2>3. Drawing[<<between, Head(s2p)>>] \in Pictures
    BY <1>1, DrawingType
  <2>4. Run(Drawing, Pictures, p2c \o out, shown, Drawing[<<between, Head(s2p)>>])
    BY <1>1, <2>2, RunConcat
  <2>5. Run(Drawing, Pictures, Tail(s2p), Drawing[<<between, Head(s2p)>>], sent)
    BY <1>1, <2>2, RunTail
  <2> QED
    BY <2>3, <2>4, <2>5
<1> QED
  BY <1>3, <1>4, <1>5 DEF SyncInv

\* A step of the server that sends something.
LEMMA SendsSync ==
  ASSUME TypeOK, SyncInv, Connected, NEW news \in Seq(Messages), s2p' = s2p \o news,
         UNCHANGED <<shown, palette, p2c, c2p, p2s, colour_map, minimised>>,
         Run(Painting, ColourMap, news, colours, colours'),
         \/ pend' = pend /\ Run(Drawing, Pictures, news, sent, sent')
         \/ pend # "full" /\ Run(Drawing, Pictures, news, sent, sent')
         \/ \A p \in Pictures : Run(Drawing, Pictures, news, p, sent')
  PROVE  SyncInv'
<1>1. p2c \in Seq(Messages) /\ s2p \in Seq(Messages)
  BY StreamTypes
<1>2. RestoredLast /\ WillPaint /\ WillShow
  BY DEF SyncInv
<1>3. RestoredLast'
  BY <1>2 DEF RestoredLast
<1>4. WillPaint'
  <2>1. Run(Painting, ColourMap, s2p \o news, colour_map, colours')
    BY <1>1, <1>2, RunConcat DEF WillPaint
  <2> QED
    BY <1>2, <2>1 DEF WillPaint
<1>5. WillShow'
  <2> SUFFICES ASSUME Watching'
               PROVE  \E between \in Pictures :
                        /\ Run(Drawing, Pictures, p2c, shown, between)
                        /\ Run(Drawing, Pictures, s2p \o news, between, sent')
    BY DEF WillShow
  <2>1. CASE \A p \in Pictures : Run(Drawing, Pictures, news, p, sent')
    <3>1. PICK between \in Pictures : Run(Drawing, Pictures, p2c, shown, between)
      BY <1>1, RunExists, DrawingType DEF TypeOK
    <3>2. PICK after \in Pictures : Run(Drawing, Pictures, s2p, between, after)
      BY <1>1, RunExists, DrawingType
    <3>3. Run(Drawing, Pictures, s2p \o news, between, sent')
      BY <1>1, <2>1, <3>2, RunConcat
    <3> QED
      BY <3>1, <3>3
  <2>2. CASE (pend' = pend \/ pend # "full") /\ Run(Drawing, Pictures, news, sent, sent')
    <3>1. Watching
      BY <2>2 DEF Watching, HasType, FullRequested
    <3>2. PICK between \in Pictures : /\ Run(Drawing, Pictures, p2c, shown, between)
                                      /\ Run(Drawing, Pictures, s2p, between, sent)
      BY <1>2, <3>1 DEF WillShow
    <3>3. Run(Drawing, Pictures, s2p \o news, between, sent')
      BY <1>1, <2>2, <3>2, RunConcat
    <3> QED
      BY <3>2, <3>3
  <2> QED
    BY <2>1, <2>2
<1> QED
  BY <1>3, <1>4, <1>5 DEF SyncInv

\* A PDU is taken from the stream of the client.
LEMMA RestoredTail ==
  ASSUME TypeOK, RestoredLast, c2p # <<>>, c2p' = Tail(c2p), UNCHANGED minimised
  PROVE  RestoredLast'
<1>1. PICK n \in Nat \ {0} : n = Len(c2p)
  BY EmptySeq DEF TypeOK
<1>2. /\ DOMAIN Tail(c2p) = 1..n - 1 /\ DOMAIN c2p = 1..n
      /\ \A k \in 1..n - 1 : Tail(c2p)[k] = c2p[k + 1]
  BY <1>1, TailOf DEF TypeOK
<1> SUFFICES ASSUME ~minimised, NEW i \in 1..n - 1,
                    Tail(c2p)[i].type = "suppress_output",
                    Tail(c2p)[i].allow = SUPPRESS_DISPLAY_UPDATES
             PROVE  \E j \in 1..n - 1 : j > i /\ Tail(c2p)[j].type = "suppress_output"
  BY <1>2 DEF RestoredLast
<1>3. i + 1 \in 1..n /\ Tail(c2p)[i] = c2p[i + 1]
  BY <1>2
<1>4. PICK j \in 1..n : j > i + 1 /\ c2p[j].type = "suppress_output"
  BY <1>2, <1>3 DEF RestoredLast
<1>5. j - 1 \in 1..n - 1 /\ j - 1 > i /\ (j - 1) + 1 = j
  BY <1>4
<1>6. Tail(c2p)[j - 1] = c2p[j]
  BY <1>2, <1>5
<1> QED
  BY <1>4, <1>5, <1>6

\* A step that reads a PDU of the client without losing one about output, and does not
\* take back a request for a full update.
LEMMA PduSync ==
  ASSUME TypeOK, SyncInv, c2p # <<>>, c2p' = Tail(c2p),
         Head(c2p).type # "suppress_output", FullRequested => FullRequested',
         UNCHANGED <<status, p2c, s2p, colour_map, client, server>>
  PROVE  SyncInv'
<1>1. /\ c2p \in Seq(ClientMessages)
      /\ Head(c2p) = c2p[1] /\ DOMAIN Tail(c2p) = 1..Len(c2p) - 1
      /\ \A k \in 1..Len(c2p) - 1 : Tail(c2p)[k] = c2p[k + 1]
      /\ DOMAIN c2p = 1..Len(c2p) /\ Len(c2p) \in Nat \ {0}
  BY TailOf DEF TypeOK
<1>2. RestoredLast => RestoredLast'
  BY RestoredTail DEF client
<1>3. HasType(c2p, "suppress_output") => HasType(c2p', "suppress_output")
  BY <1>1, HasTail
<1>4. Watching' => Watching
  BY <1>3 DEF Watching, client
<1> QED
  BY <1>2, <1>4, StillSync DEF client, server, SyncInv, Connected

\* A full request in a stream stays in it when more is added.
LEMMA FullStays ==
  ASSUME TypeOK, NEW t \in Seq(RequestMessages), p2s' = Put(serverOpen, p2s, t),
         pend' = pend, FullRequested
  PROVE  FullRequested'
<1>1. CASE pend = "full" \/ ~serverOpen
  BY <1>1 DEF FullRequested, Put
<1>2. CASE pend # "full" /\ serverOpen
  <2>1. PICK i \in DOMAIN p2s : p2s[i] = Request(FALSE)
    BY <1>2 DEF FullRequested
  <2>2. p2s' = p2s \o t
    BY <1>2 DEF Put
  <2>3. i \in DOMAIN (p2s \o t) /\ (p2s \o t)[i] = p2s[i]
    <3>1. PICK m \in Nat, n \in Nat : m = Len(p2s) /\ n = Len(t)
      BY LenProperties DEF TypeOK
    <3>2. /\ DOMAIN (p2s \o t) = 1..m + n /\ DOMAIN p2s = 1..m
          /\ \A k \in 1..m : (p2s \o t)[k] = p2s[k]
      BY <3>1, ConcatOf DEF TypeOK
    <3>3. i \in 1..m /\ i \in 1..m + n
      BY <3>2
    <3> QED
      BY <3>2, <3>3
  <2> QED
    BY <2>1, <2>2, <2>3 DEF FullRequested
<1> QED
  BY <1>1, <1>2

\* The request of a restore is a full one.
LEMMA RestoreRequests ==
  ASSUME TypeOK, serverOpen,
         p2s' = Put(serverOpen, p2s,
                    v2r_vnc_send_fb_update_req(FALSE, ALLOW_DISPLAY_UPDATES))
  PROVE  FullRequested'
<1>1. v2r_vnc_send_fb_update_req(FALSE, ALLOW_DISPLAY_UPDATES) = <<Request(FALSE)>>
  BY DEF v2r_vnc_send_fb_update_req, ALLOW_DISPLAY_UPDATES, SUPPRESS_DISPLAY_UPDATES
<1>2. Request(FALSE) \in RequestMessages /\ p2s \in Seq(RequestMessages)
  BY DEF Request, RequestMessages, TypeOK
<1>3. p2s' = p2s \o <<Request(FALSE)>>
  BY <1>1 DEF Put
<1>4. p2s' = Append(p2s, Request(FALSE))
  BY <1>2, <1>3, AppendIsConcat
<1>5. PICK n \in Nat : n = Len(p2s)
  BY <1>2, LenProperties
<1>6. PICK e \in RequestMessages : e = Request(FALSE)
  BY <1>2
<1>7. n + 1 \in DOMAIN Append(p2s, e) /\ Append(p2s, e)[n + 1] = e
  <2>1. DOMAIN Append(p2s, e) = 1..n + 1 /\ Append(p2s, e)[n + 1] = e
    BY <1>2, <1>5, AppendOf
  <2> QED
    BY <2>1
<1> QED
  BY <1>4, <1>6, <1>7 DEF FullRequested

\* A session that ends says nothing of the picture.
LEMMA LeaveSync ==
  ASSUME NEW how \in {"ended", "killed"}, Leave(how)
  PROVE  SyncInv'
  BY DEF Leave, SyncInv, Connected

\* A send that fails ends the session.
LEMMA SendFailsSync ==
  ASSUME NEW open, SendFails(open)
  PROVE  SyncInv'
  BY LeaveSync DEF SendFails

\* Every handler of a PDU.
LEMMA RdpSync ==
  ASSUME TypeOK, SyncInv, v2r_rdp_process
  PROVE  SyncInv'
<1>1. CASE SendFails(serverOpen) \/ Leave("ended")
  BY <1>1, LeaveSync, SendFailsSync
<1>2. CASE v2r_rdp_process_suppress_output /\ ~SendFails(serverOpen)
  <2> DEFINE m == Head(c2p)
  <2>1. /\ c2p \in Seq(ClientMessages) /\ c2p # <<>> /\ c2p' = Tail(c2p)
        /\ m.type = "suppress_output" /\ m \in ClientMessages
        /\ UNCHANGED <<status, p2c, s2p, colour_map, client, server>>
    BY <1>2, TailOf DEF v2r_rdp_process_suppress_output, RdpReads, NextEvent, TypeOK
  <2>2. /\ m = c2p[1] /\ DOMAIN Tail(c2p) = 1..Len(c2p) - 1
        /\ \A k \in 1..Len(c2p) - 1 : Tail(c2p)[k] = c2p[k + 1]
        /\ DOMAIN c2p = 1..Len(c2p) /\ Len(c2p) \in Nat \ {0}
    BY <2>1, TailOf
  <2>3. RestoredLast => RestoredLast'
    BY <2>1, RestoredTail DEF client
  <2>4. ASSUME Connected, RestoredLast
        PROVE  ~Watching'
    <3>1. CASE m.allow = ALLOW_DISPLAY_UPDATES
      <4>1. FullRequested'
        BY <1>2, <2>4, <3>1, RestoreRequests
           DEF v2r_rdp_process_suppress_output, Connected
      <4> QED
        BY <4>1 DEF Watching
    <3>2. CASE m.allow = SUPPRESS_DISPLAY_UPDATES /\ ~minimised
      <4>1. PICK j \in DOMAIN c2p : j > 1 /\ c2p[j].type = "suppress_output"
        BY <2>1, <2>2, <2>4, <3>2 DEF RestoredLast
      <4>2. j - 1 \in DOMAIN Tail(c2p) /\ Tail(c2p)[j - 1] = c2p[j]
        BY <2>2, <4>1
      <4>3. HasType(c2p', "suppress_output")
        BY <2>1, <4>1, <4>2 DEF HasType
      <4> QED
        BY <4>3 DEF Watching
    <3>3. m.allow \in {SUPPRESS_DISPLAY_UPDATES, ALLOW_DISPLAY_UPDATES}
      BY <2>1 DEF ClientMessages
    <3> QED
      BY <2>1, <3>1, <3>2, <3>3 DEF Watching, client
  <2> QED
    BY <2>1, <2>3, <2>4, StillSync DEF client, server, SyncInv, Connected
<1>3. CASE v2r_input_process /\ ~SendFails(serverOpen)
  <2>1. /\ c2p # <<>> /\ c2p' = Tail(c2p) /\ Head(c2p) \in ClientMessages
        /\ Head(c2p).type = "input"
        /\ p2s' = Put(serverOpen, p2s, Forwarded(Head(c2p)))
        /\ UNCHANGED <<status, p2c, s2p, colour_map, client, server>>
    BY <1>3, TailOf DEF v2r_input_process, RdpReads, NextEvent, TypeOK
  <2>2. Forwarded(Head(c2p)) \in Seq(RequestMessages)
    BY <2>1, InputType
  <2>3. FullRequested => FullRequested'
    BY <2>1, <2>2, FullStays DEF server
  <2> QED
    BY <2>1, <2>3, PduSync
<1>4. CASE IgnorePdu
  <2>1. FullRequested => FullRequested'
    BY <1>4 DEF IgnorePdu, FullRequested, server
  <2> QED
    BY <1>4, <2>1, PduSync DEF IgnorePdu, RdpReads, NextEvent
<1> QED
  BY <1>1, <1>2, <1>3, <1>4 DEF v2r_rdp_process, RdpFails

\* The proxy answers a message of the server with what makes of the colour map and of
\* the picture what the message makes of them.
LEMMA AnswerSync ==
  ASSUME TypeOK, SyncInv, NEW type, VncReads(type),
         NEW out \in Seq(OutputMessages), NEW map, Answer(out, map),
         Connected => map = Painting[<<colour_map, Head(s2p)>>],
         Connected => Run(Painting, ColourMap, out, colour_map, map),
         \A p \in Pictures : Run(Drawing, Pictures, out, p, Drawing[<<p, Head(s2p)>>])
  PROVE  SyncInv'
<1>1. CASE SendFails(clientOpen)
  BY <1>1, SendFailsSync
<1>2. CASE ~SendFails(clientOpen)
  <2>1. /\ p2c' = Put(clientOpen, p2c, out) /\ colour_map' = map /\ s2p' = Tail(s2p)
        /\ s2p # <<>>
        /\ UNCHANGED <<status, c2p, p2s, client, server>>
    BY <1>2 DEF Answer, NextEvent, VncReads
  <2>2. CASE Connected
    <3>1. p2c' = p2c \o out
      BY <2>1, <2>2 DEF Put, Connected
    <3> QED
      BY <2>1, <2>2, <3>1, PassesSync DEF client, server
  <2>3. CASE ~Connected
    BY <2>1, <2>3 DEF SyncInv, Connected, client, server
  <2> QED
    BY <2>2, <2>3
<1> QED
  BY <1>1, <1>2

\* An answer that draws nothing, to a message that draws nothing.
LEMMA QuietAnswer ==
  ASSUME NEW e \in OutputMessages, e.type \notin {"bitmap", "scrblt"},
         NEW m \in ServerMessages, m.type \notin {"raw", "copyrect"},
         NEW p \in Pictures
  PROVE  /\ Run(Drawing, Pictures, <<e>>, p, Drawing[<<p, m>>])
         /\ Run(Drawing, Pictures, <<>>, p, Drawing[<<p, m>>])
<1>1. e \in Messages /\ m \in Messages
  BY DEF Messages
<1>2. e.type \notin {"raw", "copyrect"} /\ m.type \notin {"bitmap", "scrblt"}
  BY DEF OutputMessages, ServerMessages, Rectangles
<1>3. Drawing[<<p, e>>] = p /\ Drawing[<<p, m>>] = p
  BY <1>1, <1>2, DrawsNothing
<1> QED
  BY <1>1, <1>3, RunOne, RunEmpty, DrawingType, ZenonT(30)

\* v2r_vnc_process keeps what is on its way to the client in order.
LEMMA VncSync ==
  ASSUME TypeOK, InStep, SyncInv, v2r_vnc_process
  PROVE  SyncInv'
<1> DEFINE m == Head(s2p)
<1>1. s2p # <<>> => m \in ServerMessages /\ m \in Messages
  BY TailOf DEF TypeOK, Messages
<1>2. CASE SendFails(clientOpen) \/ SendFails(serverOpen) \/ Leave("ended")
  BY <1>2, LeaveSync, SendFailsSync
<1>3. CASE UpdateHeader
  <2>1. /\ s2p # <<>> /\ m.type = "update" /\ s2p' = Tail(s2p)
        /\ UNCHANGED <<status, colour_map, c2p, p2c, p2s, client, server>>
    BY <1>3 DEF UpdateHeader, VncReads
  <2>2. CASE Connected
    <3>1. Painting[<<colour_map, m>>] = colour_map /\ colour_map \in ColourMap
      BY <1>1, <2>1, PaintsNothing DEF TypeOK
    <3>2. \A p \in Pictures : Drawing[<<p, m>>] = p
      BY <1>1, <2>1, DrawsNothing
    <3>3. /\ Run(Painting, ColourMap, <<>>, colour_map, colour_map)
          /\ \A p \in Pictures : Run(Drawing, Pictures, <<>>, p, p)
      BY <3>1, RunEmpty
    <3>4. p2c = p2c \o <<>> /\ <<>> \in Seq(OutputMessages)
      BY DEF TypeOK
    <3> QED
      BY <2>1, <2>2, <3>1, <3>2, <3>3, <3>4, PassesSync DEF client, server
  <2>3. CASE ~Connected
    BY <2>1, <2>3 DEF SyncInv, Connected, client, server
  <2> QED
    BY <2>2, <2>3
<1>4. CASE UpdateRectangle /\ ~SendFails(clientOpen)
  <2>1. /\ status = "running" /\ pc = "update" /\ rects > 0 /\ s2p # <<>>
        /\ p2c' = Put(clientOpen, p2c, <<Drawn(m)>>) /\ s2p' = Tail(s2p)
        /\ UNCHANGED <<status, colour_map, c2p, p2s, client, server>>
    BY <1>4 DEF UpdateRectangle, Handling
  <2>2. m = s2p[1] /\ 1 \in DOMAIN s2p /\ rects \in Nat
    BY <2>1, TailOf DEF TypeOK
  <2>3. m \in Rectangles
    BY <2>1, <2>2 DEF InStep, Expected
  <2>4. CASE Connected
    <3>1. Drawn(m) \in OutputMessages /\ Drawn(m) \in Messages
      <4> HIDE DEF m
      <4> QED
        BY <2>3, DrawnType DEF Messages
    <3>2. /\ Painting[<<colour_map, m>>] = colour_map
          /\ Painting[<<colour_map, Drawn(m)>>] = colour_map
          /\ colour_map \in ColourMap
      <4>1. m.type \in {"raw", "copyrect"} /\ Drawn(m).type \in {"bitmap", "scrblt"}
        BY <2>3 DEF Rectangles, Drawn, Bitmap, Scrblt
      <4> HIDE DEF m
      <4>2. m.type \notin {"palette", "colours"} /\ Drawn(m).type \notin {"palette", "colours"}
        BY <4>1
      <4> QED
        BY <1>1, <2>1, <3>1, <4>2, PaintsNothing DEF TypeOK
    <3>3. Run(Painting, ColourMap, <<Drawn(m)>>, colour_map, colour_map)
      BY <3>1, <3>2, RunOne, PaintingType
    <3>4. \A p \in Pictures : Run(Drawing, Pictures, <<Drawn(m)>>, p, Drawing[<<p, m>>])
      <4> TAKE p \in Pictures
      <4>1. Run(Drawing, Pictures, <<Drawn(m)>>, p, Drawing[<<p, Drawn(m)>>])
        BY <3>1, RunOne, DrawingType
      <4> QED
        BY <2>3, <4>1, DrawnShows
    <3>5. p2c' = p2c \o <<Drawn(m)>> /\ <<Drawn(m)>> \in Seq(OutputMessages)
      BY <2>1, <2>4, <3>1 DEF Put, Connected
    <3> HIDE DEF m
    <3> QED
      BY <2>1, <2>4, <3>2, <3>3, <3>4, <3>5, PassesSync DEF client, server, m
  <2>5. CASE ~Connected
    BY <2>1, <2>5 DEF SyncInv, Connected, client, server
  <2> QED
    BY <2>4, <2>5
<1>5. CASE UpdateDone /\ ~SendFails(serverOpen)
  <2>1. /\ p2s' = Put(serverOpen, p2s, v2r_vnc_send_fb_update_req(TRUE, allow))
        /\ UNCHANGED <<status, colour_map, c2p, p2c, s2p, client, server>>
    BY <1>5 DEF UpdateDone, NextEvent
  <2>2. FullRequested => FullRequested'
    BY <2>1, FullStays, RequestType DEF server
  <2>3. Watching' => Watching
    BY <2>1, <2>2 DEF Watching, HasType, client
  <2>4. RestoredLast => RestoredLast'
    BY <2>1 DEF RestoredLast, client
  <2> QED
    BY <2>1, <2>3, <2>4, StillSync DEF client, server, SyncInv, Connected
<1>6. CASE v2r_vnc_process_set_colour_map_entries
  <2> DEFINE map == NewColourMap(m.entries)
  <2>1. VncReads("colours") /\ s2p # <<>> /\ m.type = "colours" /\ Answer(<<Palette(map)>>, map)
    BY <1>6 DEF v2r_vnc_process_set_colour_map_entries, VncReads
  <2>2. PICK S \in SUBSET Entries : m.entries \in [S -> Colours]
    BY <1>1, <2>1 DEF ServerMessages, Rectangles
  <2>3. map \in ColourMap /\ map = Overlay(m.entries, colour_map)
    BY <2>2, OverlayType DEF NewColourMap, TypeOK
  <2>4. /\ Palette(map) \in OutputMessages /\ Palette(map) \in Messages
        /\ Palette(map).type = "palette" /\ Palette(map).map = map
    BY <2>3 DEF Palette, OutputMessages, Messages
  <2>5. Painting[<<colour_map, m>>] = map
    BY <1>1, <2>1, <2>3 DEF Painting, Paints, TypeOK
  <2>6. Painting[<<colour_map, Palette(map)>>] = map
    <3> HIDE DEF map
    <3> QED
      BY <2>4 DEF Painting, Paints, TypeOK
  <2>7. Run(Painting, ColourMap, <<Palette(map)>>, colour_map, map)
    <3> HIDE DEF map
    <3>1. Run(Painting, ColourMap, <<Palette(map)>>, colour_map,
              Painting[<<colour_map, Palette(map)>>])
      BY <2>4, RunOne, PaintingType DEF TypeOK
    <3> QED
      BY <2>6, <3>1
  <2>8. \A p \in Pictures : Run(Drawing, Pictures, <<Palette(map)>>, p, Drawing[<<p, m>>])
    <3> HIDE DEF map, m
    <3> QED
      BY <1>1, <2>1, <2>4, QuietAnswer
  <2>9. <<Palette(map)>> \in Seq(OutputMessages)
    <3> HIDE DEF map
    <3> QED
      BY <2>4
  <2> HIDE DEF map, m
  <2> QED
    BY <2>1, <2>5, <2>7, <2>8, <2>9, AnswerSync DEF m
<1>7. CASE v2r_vnc_process_bell
  <2>1. VncReads("bell") /\ s2p # <<>> /\ m.type = "bell" /\ Answer(<<Sound>>, colour_map)
    BY <1>7 DEF v2r_vnc_process_bell, VncReads
  <2>2. /\ Sound \in OutputMessages /\ Sound \in Messages
        /\ Sound.type = "play_sound" /\ <<Sound>> \in Seq(OutputMessages)
    BY DEF Sound, OutputMessages, Messages
  <2>3. /\ Painting[<<colour_map, m>>] = colour_map
        /\ Painting[<<colour_map, Sound>>] = colour_map
        /\ colour_map \in ColourMap
    BY <1>1, <2>1, <2>2, PaintsNothing DEF TypeOK
  <2>4. Run(Painting, ColourMap, <<Sound>>, colour_map, colour_map)
    BY <2>2, <2>3, RunOne, PaintingType
  <2>5. \A p \in Pictures : Run(Drawing, Pictures, <<Sound>>, p, Drawing[<<p, m>>])
    BY <1>1, <2>1, <2>2, QuietAnswer
  <2> QED
    BY <2>1, <2>2, <2>3, <2>4, <2>5, AnswerSync
<1>8. CASE v2r_vnc_process_server_cut_text
  <2>1. VncReads("cut_text") /\ s2p # <<>> /\ m.type = "cut_text" /\ Answer(<<>>, colour_map)
    BY <1>8 DEF v2r_vnc_process_server_cut_text, VncReads
  <2>2. Painting[<<colour_map, m>>] = colour_map /\ colour_map \in ColourMap
    BY <1>1, <2>1, PaintsNothing DEF TypeOK
  <2>3. Run(Painting, ColourMap, <<>>, colour_map, colour_map)
    BY <2>2, RunEmpty
  <2>4. Sound \in OutputMessages /\ Sound.type = "play_sound"
    BY DEF Sound, OutputMessages
  <2>5. \A p \in Pictures : Run(Drawing, Pictures, <<>>, p, Drawing[<<p, m>>])
    BY <1>1, <2>1, <2>4, QuietAnswer
  <2>6. <<>> \in Seq(OutputMessages)
    OBVIOUS
  <2> QED
    BY <2>1, <2>2, <2>3, <2>5, <2>6, AnswerSync
<1> QED
  BY <1>2, <1>3, <1>4, <1>5, <1>6, <1>7, <1>8 DEF v2r_vnc_process, VncFails

\* A PDU of the client that does not ask to draw, or the last of the streams.
LEMMA ClientSendsSync ==
  ASSUME TypeOK, SyncInv, NEW e \in ClientMessages, ClientSends(e),
         \/ minimised' = minimised /\ e.type # "suppress_output"
         \/ e.type = "suppress_output"
            /\ (~minimised' => e.allow = ALLOW_DISPLAY_UPDATES)
  PROVE  SyncInv'
<1>1. /\ c2p' = Append(c2p, e)
      /\ UNCHANGED <<status, colour_map, p2c, s2p, p2s, server, clientOpen, shown, palette>>
  BY DEF ClientSends, proxy
<1>2. PICK n \in Nat : n = Len(c2p)
  BY LenProperties DEF TypeOK
<1>3. /\ DOMAIN c2p = 1..n /\ DOMAIN c2p' = 1..n + 1 /\ c2p'[n + 1] = e
      /\ \A i \in 1..n : c2p'[i] = c2p[i]
  BY <1>1, <1>2, AppendOf DEF TypeOK
<1>4. n + 1 \in 1..n + 1
  OBVIOUS
<1>5. CASE e.type # "suppress_output" /\ minimised' = minimised
  <2>1. RestoredLast => RestoredLast'
    <3> SUFFICES ASSUME RestoredLast, ~minimised, NEW i \in 1..n + 1,
                        c2p'[i].type = "suppress_output",
                        c2p'[i].allow = SUPPRESS_DISPLAY_UPDATES
                 PROVE  \E j \in 1..n + 1 : j > i /\ c2p'[j].type = "suppress_output"
      BY <1>3, <1>5 DEF RestoredLast
    <3>1. i \in 1..n
      BY <1>3, <1>5
    <3>2. PICK j \in 1..n : j > i /\ c2p[j].type = "suppress_output"
      BY <1>3, <3>1 DEF RestoredLast
    <3>3. j \in 1..n + 1 /\ c2p'[j] = c2p[j]
      BY <1>3
    <3> QED
      BY <3>2, <3>3
  <2>2. HasType(c2p, "suppress_output") => HasType(c2p', "suppress_output")
    BY <1>1, HasAppend DEF TypeOK
  <2>3. Watching' => Watching
    BY <1>1, <1>5, <2>2 DEF Watching, FullRequested, server
  <2> QED
    BY <1>1, <2>1, <2>3, StillSync DEF server, SyncInv, Connected
<1>6. CASE e.type = "suppress_output" /\ (~minimised' => e.allow = ALLOW_DISPLAY_UPDATES)
  <2>1. RestoredLast'
    <3> SUFFICES ASSUME ~minimised', NEW i \in 1..n + 1,
                        c2p'[i].type = "suppress_output",
                        c2p'[i].allow = SUPPRESS_DISPLAY_UPDATES
                 PROVE  \E j \in 1..n + 1 : j > i /\ c2p'[j].type = "suppress_output"
      BY <1>3 DEF RestoredLast
    <3>1. i # n + 1
      BY <1>3, <1>6 DEF ALLOW_DISPLAY_UPDATES, SUPPRESS_DISPLAY_UPDATES
    <3>2. n + 1 > i
      BY <3>1
    <3> QED
      BY <1>3, <1>4, <1>6, <3>2
  <2>2. ~Watching'
    <3>1. HasType(c2p', "suppress_output")
      BY <1>3, <1>4, <1>6 DEF HasType
    <3> QED
      BY <3>1 DEF Watching
  <2> QED
    BY <1>1, <2>1, <2>2, StillSync DEF server, SyncInv, Connected
<1> QED
  BY <1>5, <1>6

\* The client keeps it: what it reads it shows, or it is minimised.
LEMMA ClientSync ==
  ASSUME TypeOK, SyncInv, Client
  PROVE  SyncInv'
<1> USE DEF ClientMessages
<1>1. CASE ClientMinimise
  <2>1. Suppress(SUPPRESS_DISPLAY_UPDATES) \in ClientMessages
    BY DEF Suppress
  <2> QED
    BY <1>1, <2>1, ClientSendsSync DEF ClientMinimise, Suppress
<1>2. CASE ClientRestore
  <2>1. Suppress(ALLOW_DISPLAY_UPDATES) \in ClientMessages
    BY DEF Suppress
  <2> QED
    BY <1>2, <2>1, ClientSendsSync DEF ClientRestore, Suppress
<1>3. ASSUME NEW n \in {1, 2}, ClientTypes(n)
      PROVE  SyncInv'
  <2>1. typed + 1 \in Nat /\ typed + n \in Nat
    BY DEF TypeOK
  <2>2. Input(typed + 1, typed + n) \in ClientMessages
        /\ Input(typed + 1, typed + n).type = "input"
    BY <2>1 DEF Input
  <2> QED
    BY <1>3, <2>2, ClientSendsSync DEF ClientTypes
<1>4. CASE ClientSendsOther
  <2>1. PICK e \in {Other, Shutdown, Invalid} : ClientSends(e)
    BY <1>4 DEF ClientSendsOther
  <2>2. e \in ClientMessages /\ e.type # "suppress_output" /\ minimised' = minimised
    BY <1>4 DEF ClientSendsOther, Other, Shutdown, Invalid
  <2> QED
    BY <2>1, <2>2, ClientSendsSync
<1>5. CASE ClientCloses
  BY <1>5 DEF ClientCloses, SyncInv, Connected
<1>6. CASE ClientReads
  <2> DEFINE m == Head(p2c)
  <2>1. /\ p2c # <<>> /\ p2c' = Tail(p2c)
        /\ UNCHANGED <<status, colour_map, c2p, s2p, p2s, server, clientOpen, minimised>>
    BY <1>6 DEF ClientReads, proxy
  <2>2. m \in OutputMessages /\ m \in Messages /\ p2c \in Seq(Messages)
    BY <2>1, TailOf, StreamTypes DEF TypeOK, Messages
  <2>3. palette' = Painting[<<palette, m>>]
    <3>1. palette' = IF m.type = "palette" THEN m.map ELSE palette
      BY <1>6 DEF ClientReads
    <3>2. m.type # "colours"
      BY <2>2 DEF OutputMessages
    <3> QED
      BY <2>2, <3>1, <3>2 DEF Painting, Paints, TypeOK
  <2>4. ~minimised => shown' = Drawing[<<shown, m>>]
    <3>1. ~minimised =>
            shown' = IF m.type \notin {"bitmap", "scrblt"} THEN shown
                     ELSE [shown EXCEPT ![m.tile] = IF m.type = "bitmap" THEN m.content
                                                    ELSE shown[m.src]]
      BY <1>6 DEF ClientReads
    <3>2. m.type \notin {"raw", "copyrect"}
      BY <2>2 DEF OutputMessages
    <3> QED
      BY <2>2, <3>1, <3>2 DEF Drawing, Shows, TypeOK
  <2> SUFFICES ASSUME Connected'
               PROVE  RestoredLast' /\ WillPaint' /\ WillShow'
    BY DEF SyncInv
  <2>5. RestoredLast /\ WillPaint /\ WillShow
    BY <2>1 DEF SyncInv, Connected, server
  <2> HIDE DEF m
  <2>6. RestoredLast'
    BY <2>1, <2>5 DEF RestoredLast
  <2>7. WillPaint'
    <3>1. Run(Painting, ColourMap, Tail(p2c), Painting[<<palette, m>>], colour_map)
      BY <2>1, <2>2, <2>5, RunTail DEF WillPaint, m
    <3> QED
      BY <2>1, <2>3, <2>5, <3>1 DEF WillPaint, server
  <2>8. WillShow'
    <3> SUFFICES ASSUME Watching'
                 PROVE  \E between \in Pictures :
                          /\ Run(Drawing, Pictures, p2c', shown', between)
                          /\ Run(Drawing, Pictures, s2p', between, sent')
      BY DEF WillShow
    <3>1. Watching /\ ~minimised
      BY <2>1 DEF Watching, HasType, FullRequested, server
    <3>2. PICK between \in Pictures : /\ Run(Drawing, Pictures, p2c, shown, between)
                                      /\ Run(Drawing, Pictures, s2p, between, sent)
      BY <2>5, <3>1 DEF WillShow
    <3>3. Run(Drawing, Pictures, Tail(p2c), Drawing[<<shown, m>>], between)
      BY <2>1, <2>2, <3>2, RunTail DEF m
    <3> QED
      BY <2>1, <2>4, <3>1, <3>2, <3>3 DEF server
  <2> QED
    BY <2>6, <2>7, <2>8
<1> QED
  BY <1>1, <1>2, <1>3, <1>4, <1>5, <1>6 DEF Client

\* Reading does not lose a request for a full update.
LEMMA ReadKeepsFull ==
  ASSUME TypeOK, ServerReads, FullRequested
  PROVE  FullRequested'
<1>1. /\ p2s # <<>> /\ p2s' = Tail(p2s) /\ Head(p2s) \in RequestMessages
      /\ pend' = IF Head(p2s).type # "request" THEN pend
                 ELSE IF Head(p2s).incremental /\ pend # "full" THEN "incremental"
                 ELSE "full"
  BY TailOf DEF ServerReads, TypeOK
<1>2. PICK n \in Nat \ {0} : n = Len(p2s)
  BY <1>1, EmptySeq DEF TypeOK
<1>3. /\ Head(p2s) = p2s[1] /\ DOMAIN Tail(p2s) = 1..n - 1 /\ DOMAIN p2s = 1..n
      /\ \A k \in 1..n - 1 : Tail(p2s)[k] = p2s[k + 1]
  BY <1>1, <1>2, TailOf DEF TypeOK
<1>4. CASE pend = "full"
  BY <1>1, <1>4 DEF FullRequested
<1>5. CASE pend # "full"
  <2>1. PICK i \in 1..n : p2s[i] = Request(FALSE)
    BY <1>3, <1>5 DEF FullRequested
  <2>2. CASE i = 1
    <3>1. Head(p2s).type = "request" /\ ~Head(p2s).incremental
      BY <1>3, <2>1, <2>2 DEF Request
    <3> QED
      BY <1>1, <3>1 DEF FullRequested
  <2>3. CASE i # 1
    <3>1. i - 1 \in 1..n - 1 /\ (i - 1) + 1 = i
      BY <2>3
    <3>2. Tail(p2s)[i - 1] = Request(FALSE)
      BY <1>3, <2>1, <3>1
    <3> QED
      BY <1>1, <1>3, <3>1, <3>2 DEF FullRequested
  <2> QED
    BY <2>2, <2>3
<1> QED
  BY <1>4, <1>5

\* The server keeps it: what it believes it has sent it puts into its stream.
LEMMA ServerSync ==
  ASSUME TypeOK, SyncInv, Server
  PROVE  SyncInv'
<1>1. ASSUME NEW t \in Tiles, NEW c \in Contents, ServerPaints(t, c)
      PROVE  SyncInv'
  <2>1. UNCHANGED <<proxy, c2p, p2c, s2p, p2s, client, serverOpen, sent, pend, colours>>
    BY <1>1 DEF ServerPaints
  <2>2. Watching' => Watching
    BY <2>1 DEF Watching, HasType, FullRequested, client
  <2>3. RestoredLast => RestoredLast'
    BY <2>1 DEF RestoredLast, client
  <2> QED
    BY <2>1, <2>2, <2>3, StillSync DEF proxy, client, SyncInv, Connected
<1>2. CASE ServerReads
  <2>1. UNCHANGED <<proxy, c2p, p2c, s2p, client, serverOpen, sent, colours>>
    BY <1>2 DEF ServerReads
  <2>2. Watching' => Watching
    BY <1>2, <2>1, ReadKeepsFull DEF Watching, HasType, client
  <2>3. RestoredLast => RestoredLast'
    BY <2>1 DEF RestoredLast, client
  <2> QED
    BY <2>1, <2>2, <2>3, StillSync DEF proxy, client, SyncInv, Connected
<1>3. CASE ServerUpdates
  <2>1. /\ UNCHANGED <<proxy, c2p, p2c, p2s, client, serverOpen, colours>>
        /\ sent' = screen /\ pend' = "none"
    BY <1>3 DEF ServerUpdates
  <2>2. PICK news \in Seq(Messages) :
          /\ s2p' = s2p \o news
          /\ Run(Painting, ColourMap, news, colours, colours)
          /\ Run(Drawing, Pictures, news, sent, screen)
          /\ pend = "full" => \A p \in Pictures : Run(Drawing, Pictures, news, p, screen)
    BY <1>3, UpdateShows
  <2>3. CASE Connected
    BY <2>1, <2>2, <2>3, SendsSync DEF proxy, client
  <2>4. CASE ~Connected
    BY <2>1, <2>4 DEF SyncInv, Connected, proxy, client
  <2> QED
    BY <2>3, <2>4
<1>4. ASSUME NEW e \in ServerMessages, ServerNotifies(e), e.type \notin {"raw", "copyrect"},
             colours' = Painting[<<colours, e>>]
      PROVE  SyncInv'
  <2>1. /\ s2p' = Append(s2p, e) /\ status = "running" /\ serverOpen
        /\ UNCHANGED <<proxy, c2p, p2c, p2s, client, serverOpen, sent, pend>>
    BY <1>4 DEF ServerNotifies
  <2>2. e \in Messages /\ <<e>> \in Seq(Messages) /\ s2p' = s2p \o <<e>>
    BY <2>1, AppendIsConcat DEF Messages, TypeOK
  <2>3. Run(Painting, ColourMap, <<e>>, colours, colours')
    BY <1>4, <2>2, RunOne, PaintingType DEF TypeOK
  <2>4. Run(Drawing, Pictures, <<e>>, sent, sent')
    <3>1. e.type \notin {"bitmap", "scrblt"}
      BY DEF ServerMessages, Rectangles
    <3>2. Drawing[<<sent, e>>] = sent
      BY <1>4, <2>2, <3>1, DrawsNothing DEF TypeOK
    <3>3. sent \in Pictures
      BY DEF TypeOK
    <3>4. Run(Drawing, Pictures, <<e>>, sent, Drawing[<<sent, e>>])
      BY <2>2, <3>3, RunOne, DrawingType
    <3> QED
      BY <2>1, <3>2, <3>4
  <2>5. CASE Connected
    BY <2>1, <2>2, <2>3, <2>4, <2>5, SendsSync DEF proxy, client
  <2>6. CASE ~Connected
    BY <2>1, <2>6 DEF SyncInv, Connected, proxy, client
  <2> QED
    BY <2>5, <2>6
<1>5. CASE ServerSetsColours
  <2>1. PICK S \in SUBSET Entries : \E f \in [S -> Colours] :
          ServerNotifies(SetColours(f)) /\ colours' = Overlay(f, colours)
    BY <1>5 DEF ServerSetsColours
  <2>2. PICK f \in [S -> Colours] :
          ServerNotifies(SetColours(f)) /\ colours' = Overlay(f, colours)
    BY <2>1
  <2>3. /\ SetColours(f) \in ServerMessages /\ SetColours(f).type = "colours"
        /\ SetColours(f).entries = f
    BY DEF SetColours, ServerMessages, Rectangles
  <2>4. Painting[<<colours, SetColours(f)>>] = Overlay(f, colours)
    <3>1. SetColours(f) \in Messages
      BY <2>3 DEF Messages
    <3>2. Painting[<<colours, SetColours(f)>>] = Paints(colours, SetColours(f))
      BY <3>1 DEF Painting, TypeOK
    <3> QED
      BY <2>3, <3>2 DEF Paints
  <2> QED
    BY <1>4, <2>2, <2>3, <2>4
<1>6. CASE ServerSendsOther
  <2>1. PICK e \in {Bell, CutText(0), CutText(1), Unknown} : ServerNotifies(e)
    BY <1>6 DEF ServerSendsOther
  <2>2. e \in ServerMessages /\ e.type \notin {"raw", "copyrect", "palette", "colours"}
    BY DEF Bell, CutText, Unknown, ServerMessages, Rectangles
  <2>3. Painting[<<colours, e>>] = colours /\ colours' = colours
    BY <1>6, <2>2, PaintsNothing DEF TypeOK, Messages, ServerSendsOther
  <2> QED
    BY <1>4, <2>1, <2>2, <2>3
<1>7. CASE ServerCloses
  BY <1>7 DEF ServerCloses, SyncInv, Connected
<1> QED
  BY <1>1, <1>2, <1>3, <1>5, <1>6, <1>7 DEF Server

\* Every step keeps it.
LEMMA NextSync ==
  ASSUME TypeOK, InStep, SyncInv, [Next]_vars
  PROVE  SyncInv'
<1>1. ASSUME UNCHANGED <<status, colour_map, c2p, p2c, s2p, p2s, client, server>>
      PROVE  SyncInv'
  <2>1. (Watching' => Watching) /\ (RestoredLast => RestoredLast')
    BY <1>1 DEF Watching, RestoredLast, HasType, FullRequested, client, server
  <2> QED
    BY <1>1, <2>1, StillSync DEF client, server, SyncInv, Connected
<1>2. ASSUME NEW fd, EpollWait(fd)
      PROVE  SyncInv'
  BY <1>1, <1>2 DEF EpollWait
<1>3. CASE UNCHANGED vars
  BY <1>1, <1>3 DEF vars, proxy
<1> QED
  BY <1>2, <1>3, LeaveSync, RdpSync, VncSync, ClientSync, ServerSync
  DEF Next, v2r_session_transmit, Interrupted

\* A new session has sent nothing, and a full update is asked for.
LEMMA InitSync == Init => SyncInv
<1> SUFFICES ASSUME Init
             PROVE  SyncInv
  OBVIOUS
<1>1. RestoredLast
  BY DEF Init, RestoredLast
<1>2. WillPaint
  <2>1. palette = colour_map /\ colour_map = colours /\ colours \in ColourMap
        /\ p2c = <<>> /\ s2p = <<>>
    BY DEF Init, ColourMap
  <2> QED
    BY <2>1, RunEmpty DEF WillPaint
<1>3. WillShow
  <2>1. shown = sent /\ sent \in Pictures /\ p2c = <<>> /\ s2p = <<>>
    BY DEF Init, Pictures
  <2> QED
    BY <2>1, RunEmpty DEF WillShow
<1> QED
  BY <1>1, <1>2, <1>3 DEF SyncInv

\* When the streams are empty, what is said of what arrives is said of what is shown.
LEMMA SyncSettles ==
  ASSUME TypeOK, SyncInv
  PROVE  QuiescentSync
<1> SUFFICES ASSUME Connected, s2p = <<>>, p2c = <<>>
             PROVE  palette = colours /\ (Watching => shown = sent)
  BY DEF QuiescentSync, Connected, Watching
<1>1. WillPaint /\ WillShow
  BY DEF SyncInv
<1>2. palette = colours
  BY <1>1, RunEmpty DEF WillPaint, TypeOK
<1>3. ASSUME Watching
      PROVE  shown = sent
  <2>1. PICK between \in Pictures : /\ Run(Drawing, Pictures, <<>>, shown, between)
                                    /\ Run(Drawing, Pictures, <<>>, between, sent)
    BY <1>1, <1>3 DEF WillShow
  <2> QED
    BY <2>1, RunEmpty DEF TypeOK
<1> QED
  BY <1>2, <1>3

\* Whatever was thrown away behind a minimised window, whatever copies, palettes and
\* notices were interleaved: when nothing is on its way to a client whose window is
\* open, and no full update is due, it shows what the server believes it has sent and
\* has its colour map (vnc.c, rdp.c).
THEOREM PictureFollows == Spec => []QuiescentSync
<1>1. Init => SyncInv
  BY InitSync
<1>2. TypeOK /\ InStep /\ SyncInv /\ [Next]_vars => SyncInv'
  BY NextSync
<1>3. TypeOK /\ SyncInv => QuiescentSync
  BY SyncSettles
<1> QED
  BY <1>1, <1>2, <1>3, SafeInv, PTL DEF Spec

(***************************************************************************)
(* What a stream holds, when one is added and when the first is read.      *)
(***************************************************************************)

\* The messages of two streams, one after the other, are those of both.
LEMMA RangeConcat ==
  ASSUME NEW M, NEW s \in Seq(M), NEW t \in Seq(M)
  PROVE  Range(s \o t) = Range(s) \cup Range(t)
<1>1. PICK m \in Nat, n \in Nat : m = Len(s) /\ n = Len(t)
  BY LenProperties
<1>2. /\ DOMAIN (s \o t) = 1..m + n /\ DOMAIN s = 1..m /\ DOMAIN t = 1..n
      /\ \A i \in 1..m : (s \o t)[i] = s[i]
      /\ \A i \in 1..n : (s \o t)[m + i] = t[i]
  BY <1>1, ConcatOf
<1>3. ASSUME NEW i \in 1..m + n
      PROVE  (s \o t)[i] \in Range(s) \cup Range(t)
  <2>1. CASE i <= m
    <3>1. i \in 1..m
      BY <2>1
    <3> QED
      BY <1>2, <3>1 DEF Range
  <2>2. CASE ~(i <= m)
    <3>1. i - m \in 1..n /\ m + (i - m) = i
      BY <2>2
    <3>2. (s \o t)[i] = t[i - m]
      BY <1>2, <3>1
    <3> QED
      BY <1>2, <3>1, <3>2 DEF Range
  <2> QED
    BY <2>1, <2>2
<1>4. ASSUME NEW i \in 1..m
      PROVE  s[i] \in Range(s \o t)
  <2>1. i \in 1..m + n
    OBVIOUS
  <2> QED
    BY <1>2, <2>1 DEF Range
<1>5. ASSUME NEW i \in 1..n
      PROVE  t[i] \in Range(s \o t)
  <2>1. m + i \in 1..m + n
    OBVIOUS
  <2> QED
    BY <1>2, <2>1 DEF Range
<1>6. \A x : x \in Range(s \o t) <=> x \in Range(s) \/ x \in Range(t)
  BY <1>2, <1>3, <1>4, <1>5, ZenonT(30) DEF Range
<1> QED
  BY <1>6

\* A stream holds its first message and the rest.
LEMMA RangeTail ==
  ASSUME NEW M, NEW s \in Seq(M), s # <<>>
  PROVE  Range(s) = {Head(s)} \cup Range(Tail(s))
<1>1. PICK n \in Nat \ {0} : n = Len(s)
  BY EmptySeq
<1>2. /\ Head(s) = s[1] /\ DOMAIN Tail(s) = 1..n - 1 /\ DOMAIN s = 1..n
      /\ \A k \in 1..n - 1 : Tail(s)[k] = s[k + 1]
  BY <1>1, TailOf
<1>3. ASSUME NEW i \in 1..n
      PROVE  s[i] \in {Head(s)} \cup Range(Tail(s))
  <2>1. CASE i # 1
    <3>1. i - 1 \in 1..n - 1 /\ (i - 1) + 1 = i
      BY <2>1
    <3>2. s[i] = Tail(s)[i - 1]
      BY <1>2, <3>1
    <3> QED
      BY <1>2, <3>1, <3>2 DEF Range
  <2> QED
    BY <1>2, <2>1
<1>4. 1 \in 1..n /\ \A k \in 1..n - 1 : k + 1 \in 1..n
  OBVIOUS
<1> QED
  BY <1>2, <1>3, <1>4 DEF Range

\* The stream without a message holds none, that of one message that one.
LEMMA RangeFew ==
  ASSUME NEW e
  PROVE  Range(<<>>) = {} /\ Range(<<e>>) = {e}
<1>1. DOMAIN <<>> = {} /\ DOMAIN <<e>> = {1} /\ <<e>>[1] = e
  OBVIOUS
<1>2. Range(<<>>) = {}
  BY <1>1 DEF Range
<1>3. Range(<<e>>) = {e}
  <2> DEFINE s == <<e>>
  <2>1. DOMAIN s = {1} /\ s[1] = e
    BY <1>1
  <2> HIDE DEF s
  <2>2. Range(s) = {e}
    BY <2>1 DEF Range
  <2> QED
    BY <2>2 DEF s
<1> QED
  BY <1>2, <1>3

\* What v2r_vnc_send_fb_update_req sends are requests.
LEMMA RequestOnly ==
  ASSUME NEW inc \in BOOLEAN, NEW allowed
  PROVE  \A m \in Range(v2r_vnc_send_fb_update_req(inc, allowed)) : m.type = "request"
<1>1. \/ v2r_vnc_send_fb_update_req(inc, allowed) = <<>>
      \/ v2r_vnc_send_fb_update_req(inc, allowed) = <<Request(inc)>>
  BY DEF v2r_vnc_send_fb_update_req
<1>2. Request(inc).type = "request"
  BY DEF Request
<1>3. Range(<<>>) = {} /\ Range(<<Request(inc)>>) = {Request(inc)}
  BY RangeFew
<1> QED
  BY <1>1, <1>2, <1>3

\* What InputOrder speaks of, by the messages a stream holds.
LEMMA IdsOf ==
  ASSUME NEW s, NEW x
  PROVE  x \in Ids(s) <=> \E m \in Range(s) : m.type = "event" /\ m.id = x
  BY DEF Ids, Range

\* The events of the PDUs in a stream, by the PDU they are in.
LEMMA EventsOfPdus ==
  ASSUME NEW s, NEW x
  PROVE  x \in InputsOf(s) <=> \E m \in Range(s) : m.type = "input" /\ x \in m.from..m.to
  BY DEF InputsOf, Range

(***************************************************************************)
(* Input arrives once and in order.  The PDUs of the client that have not  *)
(* been read follow one another in what they hold, and nothing is received *)
(* that was not typed.                                                     *)
(***************************************************************************)
EventsOrdered ==
  \A i, j \in DOMAIN p2s :
    i < j /\ p2s[i].type = "event" /\ p2s[j].type = "event" => p2s[i].id < p2s[j].id

InputsOrdered ==
  /\ \A i \in DOMAIN c2p : c2p[i].type = "input" => c2p[i].from <= c2p[i].to
  /\ \A i, j \in DOMAIN c2p :
       i < j /\ c2p[i].type = "input" /\ c2p[j].type = "input"
         => c2p[i].to < c2p[j].from

ForwardedFirst == \A i \in Ids(p2s), j \in InputsOf(c2p) : i < j

NothingLost ==
  /\ received <= typed
  /\ Ids(p2s) \cup InputsOf(c2p) = received + 1 .. typed

InputInv ==
  Connected =>
    IF viewonly THEN received = 0 /\ Ids(p2s) = {}
    ELSE EventsOrdered /\ InputsOrdered /\ ForwardedFirst /\ NothingLost

\* What is typed and what is received are numbers.
LEMMA IdsType ==
  ASSUME TypeOK
  PROVE  Ids(p2s) \subseteq Nat /\ InputsOf(c2p) \subseteq Nat
<1>1. \A i \in DOMAIN p2s : p2s[i] \in RequestMessages
  BY ElementOfSeq, LenProperties DEF TypeOK
<1>2. \A i \in DOMAIN c2p : c2p[i] \in ClientMessages
  BY ElementOfSeq, LenProperties DEF TypeOK
<1>3. ASSUME NEW i \in DOMAIN c2p, c2p[i].type = "input"
      PROVE  c2p[i].from..c2p[i].to \subseteq Nat
  <2>1. c2p[i].from \in Nat /\ c2p[i].to \in Nat
    BY <1>2, <1>3 DEF ClientMessages
  <2> QED
    BY <2>1
<1>4. ASSUME NEW i \in DOMAIN p2s, p2s[i].type = "event"
      PROVE  p2s[i].id \in Nat
  BY <1>1, <1>4 DEF RequestMessages
<1> QED
  BY <1>3, <1>4 DEF Ids, InputsOf

\* A step that leaves the input on its way alone.
LEMMA StillOrdered ==
  ASSUME InputInv, Connected' => Connected,
         Connected => UNCHANGED <<c2p, p2s, received, typed, viewonly>>
  PROVE  InputInv'
<1> SUFFICES ASSUME Connected'
             PROVE  IF viewonly' THEN received' = 0 /\ Ids(p2s') = {}
                    ELSE EventsOrdered' /\ InputsOrdered' /\ ForwardedFirst' /\ NothingLost'
  BY DEF InputInv
<1>1. Connected /\ UNCHANGED <<c2p, p2s, received, typed, viewonly>>
  OBVIOUS
<1> QED
  BY <1>1 DEF InputInv, EventsOrdered, InputsOrdered, ForwardedFirst, NothingLost

\* A stream to which nothing but a request is added holds the same events.
LEMMA RequestsOrdered ==
  ASSUME TypeOK, NEW t \in Seq(RequestMessages), \A m \in Range(t) : m.type = "request"
  PROVE  /\ Ids(p2s \o t) = Ids(p2s)
         /\ EventsOrdered /\ p2s' = p2s \o t => EventsOrdered'
<1>1. p2s \in Seq(RequestMessages)
  BY DEF TypeOK
<1>2. Ids(p2s \o t) = Ids(p2s)
  <2>1. Range(p2s \o t) = Range(p2s) \cup Range(t)
    BY <1>1, RangeConcat
  <2>2. \A x : x \in Ids(p2s \o t) <=> x \in Ids(p2s)
    BY <2>1, IdsOf
  <2> QED
    BY <2>2
<1>3. ASSUME EventsOrdered, p2s' = p2s \o t
      PROVE  EventsOrdered'
  <2>1. PICK m \in Nat, n \in Nat : m = Len(p2s) /\ n = Len(t)
    BY <1>1, LenProperties
  <2>2. /\ DOMAIN (p2s \o t) = 1..m + n /\ DOMAIN p2s = 1..m /\ DOMAIN t = 1..n
        /\ \A i \in 1..m : (p2s \o t)[i] = p2s[i]
        /\ \A i \in 1..n : (p2s \o t)[m + i] = t[i]
    BY <1>1, <2>1, ConcatOf
  <2>3. ASSUME NEW i \in 1..m + n, (p2s \o t)[i].type = "event"
        PROVE  i \in 1..m
    <3> SUFFICES ASSUME ~(i <= m)
                 PROVE  FALSE
      OBVIOUS
    <3>1. i - m \in 1..n /\ m + (i - m) = i
      OBVIOUS
    <3>2. (p2s \o t)[i] = t[i - m]
      BY <2>2, <3>1
    <3> QED
      BY <2>2, <2>3, <3>1, <3>2 DEF Range
  <2> QED
    BY <1>3, <2>2, <2>3 DEF EventsOrdered
<1> QED
  BY <1>2, <1>3

\* A PDU that is no input changes nothing when it is read.
LEMMA PduOrdered ==
  ASSUME TypeOK, c2p # <<>>, Head(c2p).type # "input", c2p' = Tail(c2p)
  PROVE  InputsOf(c2p') = InputsOf(c2p) /\ (InputsOrdered => InputsOrdered')
<1>1. c2p \in Seq(ClientMessages)
  BY DEF TypeOK
<1>2. PICK n \in Nat \ {0} : n = Len(c2p)
  BY <1>1, EmptySeq
<1>3. /\ DOMAIN Tail(c2p) = 1..n - 1 /\ DOMAIN c2p = 1..n
      /\ \A k \in 1..n - 1 : Tail(c2p)[k] = c2p[k + 1]
  BY <1>1, <1>2, TailOf
<1>4. InputsOf(c2p') = InputsOf(c2p)
  <2>1. Range(c2p) = {Head(c2p)} \cup Range(Tail(c2p))
    BY <1>1, RangeTail
  <2>2. \A x : x \in InputsOf(c2p) <=> x \in InputsOf(Tail(c2p))
    BY <2>1, EventsOfPdus
  <2> QED
    BY <2>2
<1>5. \A k \in 1..n - 1 : k + 1 \in 1..n
  OBVIOUS
<1>6. \A i, j \in 1..n - 1 : i < j => i + 1 < j + 1
  OBVIOUS
<1>7. InputsOrdered => InputsOrdered'
  BY <1>3, <1>5, <1>6 DEF InputsOrdered
<1> QED
  BY <1>4, <1>7

\* A step that adds at most requests to the stream of the server, and reads at most a
\* PDU that is no input.
LEMMA RequestsKeepOrder ==
  ASSUME TypeOK, InputInv, NEW t \in Seq(RequestMessages),
         \A m \in Range(t) : m.type = "request",
         p2s' = Put(serverOpen, p2s, t),
         c2p' = c2p \/ (c2p # <<>> /\ Head(c2p).type # "input" /\ c2p' = Tail(c2p)),
         UNCHANGED <<status, viewonly, client, server>>
  PROVE  InputInv'
<1> SUFFICES ASSUME Connected'
             PROVE  IF viewonly' THEN received' = 0 /\ Ids(p2s') = {}
                    ELSE EventsOrdered' /\ InputsOrdered' /\ ForwardedFirst' /\ NothingLost'
  BY DEF InputInv
<1>1. Connected /\ UNCHANGED <<received, typed, viewonly>> /\ p2s' = p2s \o t
  BY DEF Connected, client, server, Put
<1>2. Ids(p2s') = Ids(p2s) /\ (EventsOrdered => EventsOrdered')
  BY <1>1, RequestsOrdered
<1>3. InputsOf(c2p') = InputsOf(c2p) /\ (InputsOrdered => InputsOrdered')
  <2>1. CASE c2p' = c2p
    BY <2>1 DEF InputsOrdered
  <2> QED
    BY <2>1, PduOrdered
<1> QED
  BY <1>1, <1>2, <1>3 DEF InputInv, ForwardedFirst, NothingLost

\* v2r_input_process: the events of a PDU follow those that were forwarded before.
LEMMA InputForwarded ==
  ASSUME TypeOK, EventsOrdered, InputsOrdered, ForwardedFirst, NothingLost, ~viewonly,
         c2p # <<>>, Head(c2p).type = "input", c2p' = Tail(c2p),
         p2s' = p2s \o Forwarded(Head(c2p)),
         UNCHANGED <<received, typed>>
  PROVE  EventsOrdered' /\ InputsOrdered' /\ ForwardedFirst' /\ NothingLost'
<1>1. c2p \in Seq(ClientMessages) /\ p2s \in Seq(RequestMessages)
  BY DEF TypeOK
<1>2. PICK k \in Nat \ {0} : k = Len(c2p)
  BY <1>1, EmptySeq
<1>3. /\ Head(c2p) \in ClientMessages /\ Head(c2p) = c2p[1]
      /\ DOMAIN Tail(c2p) = 1..k - 1 /\ DOMAIN c2p = 1..k
      /\ \A i \in 1..k - 1 : Tail(c2p)[i] = c2p[i + 1]
  BY <1>1, <1>2, TailOf
<1>4. PICK a \in Nat, b \in Nat : a = Head(c2p).from /\ b = Head(c2p).to
  BY <1>3 DEF ClientMessages
<1>5. a <= b
  <2>1. 1 \in 1..k
    OBVIOUS
  <2> QED
    BY <1>3, <1>4, <2>1 DEF InputsOrdered
<1>6. PICK n \in Nat \ {0} : n = b - a + 1
  BY <1>5
<1> DEFINE fwd == [i \in 1..n |-> Event(a + i - 1)]
<1>7. Forwarded(Head(c2p)) = fwd
  BY <1>4, <1>6 DEF Forwarded
<1>8. fwd \in Seq(RequestMessages) /\ Len(fwd) = n
  <2>1. \A i \in 1..n : Event(a + i - 1) \in RequestMessages
    BY DEF Event, RequestMessages
  <2>2. fwd \in [1..n -> RequestMessages]
    BY <2>1
  <2> HIDE DEF fwd
  <2> QED
    BY <2>2
<1>9. \A i \in 1..n : fwd[i].type = "event" /\ fwd[i].id = a + i - 1
  BY DEF Event
<1>10. DOMAIN fwd = 1..n
  OBVIOUS
<1> HIDE DEF fwd
<1>11. p2s' = p2s \o fwd
  BY <1>7
<1>12. \A x : x \in Ids(fwd) <=> x \in a..b
  <2>1. ASSUME NEW x \in a..b
        PROVE  x \in Ids(fwd)
    <3>1. x - a + 1 \in 1..n /\ a + (x - a + 1) - 1 = x
      BY <1>6
    <3>2. fwd[x - a + 1].type = "event" /\ fwd[x - a + 1].id = x
      BY <1>9, <3>1
    <3> QED
      BY <1>10, <3>1, <3>2 DEF Ids
  <2>2. ASSUME NEW i \in 1..n
        PROVE  fwd[i].id \in a..b
    BY <1>6, <1>9
  <2> QED
    BY <1>10, <2>1, <2>2 DEF Ids
<1>13. Ids(p2s') = Ids(p2s) \cup a..b
  <2>1. Range(p2s \o fwd) = Range(p2s) \cup Range(fwd)
    BY <1>1, <1>8, RangeConcat
  <2>2. \A x : x \in Ids(p2s \o fwd) <=> x \in Ids(p2s) \/ x \in Ids(fwd)
    BY <2>1, IdsOf
  <2>3. \A x : x \in Ids(p2s') <=> x \in Ids(p2s) \/ x \in a..b
    BY <1>11, <1>12, <2>2
  <2> QED
    BY <2>3
<1>14. InputsOf(c2p) = a..b \cup InputsOf(c2p')
  <2>1. Range(c2p) = {Head(c2p)} \cup Range(Tail(c2p))
    BY <1>1, RangeTail
  <2>2. \A x : x \in InputsOf(c2p) <=> x \in a..b \/ x \in InputsOf(Tail(c2p))
    BY <1>4, <2>1, EventsOfPdus
  <2>3. \A x : x \in InputsOf(c2p) <=> x \in a..b \/ x \in InputsOf(c2p')
    BY <2>2
  <2> QED
    BY <2>3
<1>15. NothingLost'
  BY <1>13, <1>14 DEF NothingLost
<1>16. InputsOrdered'
  <2>1. \A i \in 1..k - 1 : i + 1 \in 1..k
    OBVIOUS
  <2>2. \A i, j \in 1..k - 1 : i < j => i + 1 < j + 1
    OBVIOUS
  <2> QED
    BY <1>3, <2>1, <2>2 DEF InputsOrdered
<1>17. ASSUME NEW x \in InputsOf(c2p')
       PROVE  b < x
  <2>1. PICK i \in 1..k - 1 :
          Tail(c2p)[i].type = "input" /\ x \in Tail(c2p)[i].from..Tail(c2p)[i].to
    BY <1>3, <1>17 DEF InputsOf
  <2>2. i + 1 \in 1..k /\ 1 \in 1..k /\ 1 < i + 1
    OBVIOUS
  <2>3. b < c2p[i + 1].from
    BY <1>3, <1>4, <2>1, <2>2 DEF InputsOrdered
  <2>4. c2p[i + 1] \in ClientMessages
    BY <1>1, <1>2, <2>2, ElementOfSeq
  <2>5. c2p[i + 1].from \in Nat /\ c2p[i + 1].to \in Nat
    BY <1>3, <2>1, <2>4 DEF ClientMessages
  <2>6. x \in c2p[i + 1].from..c2p[i + 1].to
    BY <1>3, <2>1
  <2> QED
    BY <2>3, <2>5, <2>6
<1>18. ForwardedFirst'
  <2>1. \A x \in Ids(p2s), y \in InputsOf(c2p') : x < y
    BY <1>14 DEF ForwardedFirst
  <2>2. InputsOf(c2p') \subseteq Nat
    BY <1>14, IdsType
  <2>3. \A x \in a..b, y \in InputsOf(c2p') : x < y
    BY <1>17, <2>2
  <2> QED
    BY <1>13, <2>1, <2>3 DEF ForwardedFirst
<1>19. EventsOrdered'
  <2>1. PICK m \in Nat : m = Len(p2s) /\ n = Len(fwd)
    BY <1>1, <1>8, LenProperties
  <2>2. /\ DOMAIN (p2s \o fwd) = 1..m + n /\ DOMAIN p2s = 1..m
        /\ \A i \in 1..m : (p2s \o fwd)[i] = p2s[i]
        /\ \A i \in 1..n : (p2s \o fwd)[m + i] = fwd[i]
    <3>1. PICK t \in Seq(RequestMessages) : t = fwd
      BY <1>8
    <3>2. /\ DOMAIN (p2s \o t) = 1..m + n /\ DOMAIN p2s = 1..m
          /\ \A i \in 1..m : (p2s \o t)[i] = p2s[i]
          /\ \A i \in 1..n : (p2s \o t)[m + i] = t[i]
      BY <1>1, <2>1, <3>1, ConcatOf
    <3> QED
      BY <3>1, <3>2
  <2> SUFFICES ASSUME NEW i \in 1..m + n, NEW j \in 1..m + n, i < j,
                      (p2s \o fwd)[i].type = "event", (p2s \o fwd)[j].type = "event"
               PROVE  (p2s \o fwd)[i].id < (p2s \o fwd)[j].id
    BY <1>11, <2>2 DEF EventsOrdered
  <2>3. CASE j <= m
    <3>1. i \in 1..m /\ j \in 1..m
      BY <2>3
    <3> QED
      BY <2>2, <3>1 DEF EventsOrdered
  <2>4. CASE i <= m /\ m < j
    <3>1. i \in 1..m /\ j - m \in 1..n /\ m + (j - m) = j
      BY <2>4
    <3>2. (p2s \o fwd)[i] = p2s[i] /\ (p2s \o fwd)[j].id = a + (j - m) - 1
      BY <1>9, <2>2, <3>1
    <3>3. p2s[i].id \in Ids(p2s)
      BY <2>2, <3>1, <3>2 DEF Ids
    <3>4. a \in InputsOf(c2p)
      BY <1>5, <1>14
    <3>5. p2s[i].id < a /\ p2s[i].id \in Nat
      BY <3>3, <3>4, IdsType DEF ForwardedFirst
    <3>6. a + (j - m) - 1 >= a
      BY <3>1
    <3> QED
      BY <3>2, <3>5, <3>6
  <2>5. CASE m < i
    <3>1. i - m \in 1..n /\ m + (i - m) = i /\ j - m \in 1..n /\ m + (j - m) = j
      BY <2>5
    <3>2. (p2s \o fwd)[i].id = a + (i - m) - 1 /\ (p2s \o fwd)[j].id = a + (j - m) - 1
      BY <1>9, <2>2, <3>1
    <3> QED
      BY <3>1, <3>2
  <2>6. j <= m \/ (i <= m /\ m < j) \/ m < i
    OBVIOUS
  <2> QED
    BY <2>3, <2>4, <2>5, <2>6
<1> QED
  BY <1>15, <1>16, <1>18, <1>19

\* The server reads the event it has to receive next.
LEMMA EventRead ==
  ASSUME TypeOK, EventsOrdered, ForwardedFirst, NothingLost,
         p2s # <<>>, p2s' = Tail(p2s), UNCHANGED <<c2p, typed>>,
         received' = IF Head(p2s).type = "event" THEN Head(p2s).id ELSE received
  PROVE  EventsOrdered' /\ ForwardedFirst' /\ NothingLost'
<1>1. p2s \in Seq(RequestMessages)
  BY DEF TypeOK
<1>2. PICK n \in Nat \ {0} : n = Len(p2s)
  BY <1>1, EmptySeq
<1>3. /\ Head(p2s) \in RequestMessages /\ Head(p2s) = p2s[1]
      /\ DOMAIN Tail(p2s) = 1..n - 1 /\ DOMAIN p2s = 1..n
      /\ \A i \in 1..n - 1 : Tail(p2s)[i] = p2s[i + 1]
  BY <1>1, <1>2, TailOf
<1>4. \A i \in 1..n - 1 : i + 1 \in 1..n /\ 1 \in 1..n /\ 1 < i + 1
  OBVIOUS
<1>5. EventsOrdered'
  <2>1. \A i, j \in 1..n - 1 : i < j => i + 1 < j + 1
    OBVIOUS
  <2> QED
    BY <1>3, <1>4, <2>1 DEF EventsOrdered
<1>6. \A x : x \in Ids(p2s) <=>
             x \in Ids(p2s') \/ (Head(p2s).type = "event" /\ x = Head(p2s).id)
  <2>1. Range(p2s) = {Head(p2s)} \cup Range(Tail(p2s))
    BY <1>1, RangeTail
  <2> QED
    BY <2>1, IdsOf
<1>7. ForwardedFirst'
  BY <1>6 DEF ForwardedFirst
<1>8. NothingLost'
  <2>1. CASE Head(p2s).type # "event"
    <3>1. Ids(p2s') = Ids(p2s)
      BY <1>6, <2>1
    <3> QED
      BY <2>1, <3>1 DEF NothingLost
  <2>2. CASE Head(p2s).type = "event"
    <3>1. PICK x \in Nat : x = Head(p2s).id
      BY <1>3, <2>2 DEF RequestMessages
    <3>2. x \in Ids(p2s) /\ received' = x
      BY <1>6, <2>2, <3>1
    <3>3. \A y \in Ids(p2s') : x < y
      <4> SUFFICES ASSUME NEW i \in 1..n - 1, Tail(p2s)[i].type = "event"
                   PROVE  x < Tail(p2s)[i].id
        BY <1>3 DEF Ids
      <4> QED
        BY <1>3, <1>4, <2>2, <3>1 DEF EventsOrdered
    <3>4. \A y \in InputsOf(c2p) : x < y
      BY <3>2 DEF ForwardedFirst
    <3>5. \A y : y \in received + 1 .. typed <=>
                 y = x \/ y \in Ids(p2s') \/ y \in InputsOf(c2p)
      BY <1>6, <2>2, <3>1 DEF NothingLost
    <3> DEFINE Rest == Ids(p2s') \cup InputsOf(c2p)
    <3>6. /\ \A y : y \in received + 1 .. typed <=> y = x \/ y \in Rest
          /\ \A y \in Rest : x < y
      BY <3>3, <3>4, <3>5
    <3> HIDE DEF Rest
    <3>7. received \in Nat /\ typed \in Nat
      BY DEF TypeOK
    <3>8. x = received + 1 /\ x <= typed
      <4>1. received + 1 <= x /\ x <= typed
        BY <3>1, <3>6, <3>7
      <4>2. received + 1 \in received + 1 .. typed
        BY <3>1, <3>7, <4>1
      <4>3. ~(received + 1 \in Rest)
        BY <3>1, <3>6, <3>7, <4>1
      <4> QED
        BY <3>6, <4>1, <4>2, <4>3
    <3>9. \A y : y \in x + 1 .. typed <=> y \in Rest
      <4>1. ASSUME NEW y \in x + 1 .. typed
            PROVE  y \in Rest
        <5>1. y \in received + 1 .. typed /\ y # x
          BY <3>7, <3>8
        <5> QED
          BY <3>6, <5>1
      <4>2. ASSUME NEW y \in Rest
            PROVE  y \in x + 1 .. typed
        <5>1. y \in received + 1 .. typed /\ x < y
          BY <3>6
        <5> QED
          BY <3>7, <3>8, <5>1
      <4> QED
        BY <4>1, <4>2
    <3>10. Rest = x + 1 .. typed
      BY <3>9
    <3> QED
      BY <3>2, <3>8, <3>10 DEF NothingLost, Rest
  <2> QED
    BY <2>1, <2>2
<1> QED
  BY <1>5, <1>7, <1>8

\* The client types the input that follows.
LEMMA InputTyped ==
  ASSUME TypeOK, InputsOrdered, ForwardedFirst, NothingLost, NEW n \in {1, 2},
         c2p' = Append(c2p, Input(typed + 1, typed + n)), typed' = typed + n,
         UNCHANGED <<p2s, received>>
  PROVE  InputsOrdered' /\ ForwardedFirst' /\ NothingLost'
<1> DEFINE e == Input(typed + 1, typed + n)
<1>1. /\ typed \in Nat /\ received \in Nat /\ n \in Nat \ {0}
      /\ c2p \in Seq(ClientMessages)
  BY DEF TypeOK
<1>2. e \in ClientMessages
  BY <1>1 DEF Input, ClientMessages
<1>3. e.type = "input" /\ e.from = typed + 1 /\ e.to = typed + n
  BY DEF Input
<1> HIDE DEF e
<1>4. c2p' = Append(c2p, e)
  BY DEF e
<1>5. PICK k \in Nat : k = Len(c2p)
  BY <1>1, LenProperties
<1>6. /\ DOMAIN c2p = 1..k /\ DOMAIN c2p' = 1..k + 1 /\ c2p'[k + 1] = e
      /\ \A i \in 1..k : c2p'[i] = c2p[i]
  BY <1>1, <1>2, <1>4, <1>5, AppendOf
<1>7. InputsOf(c2p') = InputsOf(c2p) \cup typed + 1 .. typed + n
  <2>1. <<e>> \in Seq(ClientMessages) /\ c2p' = c2p \o <<e>>
    BY <1>1, <1>2, <1>4, AppendIsConcat
  <2>2. Range(c2p \o <<e>>) = Range(c2p) \cup Range(<<e>>)
    <3>1. PICK t \in Seq(ClientMessages) : t = <<e>>
      BY <2>1
    <3>2. Range(c2p \o t) = Range(c2p) \cup Range(t)
      BY <1>1, RangeConcat
    <3> QED
      BY <3>1, <3>2
  <2>3. Range(<<e>>) = {e}
    BY DEF Range
  <2>4. \A x : x \in InputsOf(c2p \o <<e>>) <=> x \in InputsOf(c2p) \/ x \in e.from..e.to
    BY <1>3, <2>2, <2>3, EventsOfPdus
  <2>5. \A x : x \in InputsOf(c2p') <=>
               x \in InputsOf(c2p) \/ x \in typed + 1 .. typed + n
    BY <1>3, <2>1, <2>4
  <2> QED
    BY <2>5
<1>8. \A x \in Ids(p2s) \cup InputsOf(c2p) : x \in received + 1 .. typed
  BY DEF NothingLost
<1>9. ForwardedFirst'
  <2>1. \A x \in Ids(p2s), y \in typed + 1 .. typed + n : x < y
    BY <1>1, <1>8
  <2> QED
    BY <1>7, <2>1 DEF ForwardedFirst
<1>10. NothingLost'
  <2>1. received <= typed
    BY DEF NothingLost
  <2>2. received + 1 .. typed + n = (received + 1 .. typed) \cup (typed + 1 .. typed + n)
    BY <1>1, <2>1
  <2>3. received <= typed + n
    BY <1>1, <2>1
  <2> QED
    BY <1>7, <2>2, <2>3 DEF NothingLost
<1>11. ASSUME NEW i \in 1..k, c2p[i].type = "input"
       PROVE  c2p[i].from <= c2p[i].to /\ c2p[i].to <= typed
  <2>1. c2p[i] \in ClientMessages
    BY <1>1, <1>5, ElementOfSeq
  <2>2. c2p[i].from \in Nat /\ c2p[i].to \in Nat /\ c2p[i].from <= c2p[i].to
    BY <1>6, <1>11, <2>1 DEF ClientMessages, InputsOrdered
  <2>3. c2p[i].to \in InputsOf(c2p)
    BY <1>6, <1>11, <2>2 DEF InputsOf
  <2> QED
    BY <1>1, <1>8, <2>2, <2>3
<1>12. InputsOrdered'
  <2>0. \A i \in 1..k + 1 : i \in 1..k \/ i = k + 1
    OBVIOUS
  <2>1. ASSUME NEW i \in 1..k + 1, c2p'[i].type = "input"
        PROVE  c2p'[i].from <= c2p'[i].to
    <3>1. CASE i \in 1..k
      BY <1>6, <1>11, <2>1, <3>1
    <3>2. CASE i = k + 1
      <4>1. typed + 1 <= typed + n
        BY <1>1
      <4> QED
        BY <1>3, <1>6, <3>2, <4>1
    <3> QED
      BY <2>0, <3>1, <3>2
  <2>2. ASSUME NEW i \in 1..k + 1, NEW j \in 1..k + 1, i < j,
               c2p'[i].type = "input", c2p'[j].type = "input"
        PROVE  c2p'[i].to < c2p'[j].from
    <3>1. i \in 1..k
      BY <2>2
    <3>2. CASE j \in 1..k
      BY <1>6, <2>2, <3>1, <3>2 DEF InputsOrdered
    <3>3. CASE j = k + 1
      <4>1. c2p[i].to \in Nat
        <5>1. c2p[i] \in ClientMessages
          BY <1>1, <1>5, <3>1, ElementOfSeq
        <5> QED
          BY <1>6, <2>2, <3>1, <5>1 DEF ClientMessages
      <4>2. c2p[i].to <= typed
        BY <1>6, <1>11, <2>2, <3>1
      <4>3. c2p[i].to < typed + 1
        BY <1>1, <4>1, <4>2
      <4>4. c2p'[i].to = c2p[i].to /\ c2p'[j].from = typed + 1
        BY <1>3, <1>6, <3>1, <3>3
      <4> QED
        BY <4>3, <4>4
    <3> QED
      BY <2>0, <3>2, <3>3
  <2> QED
    BY <1>6, <2>1, <2>2 DEF InputsOrdered
<1> QED
  BY <1>9, <1>10, <1>12

\* v2r_rdp_process keeps the input in order.
LEMMA RdpOrdered ==
  ASSUME TypeOK, InputInv, v2r_rdp_process
  PROVE  InputInv'
<1>1. CASE SendFails(serverOpen) \/ Leave("ended")
  BY <1>1 DEF SendFails, Leave, InputInv, Connected
<1>2. CASE v2r_rdp_process_suppress_output /\ ~SendFails(serverOpen)
  <2> DEFINE req == IF Head(c2p).allow = ALLOW_DISPLAY_UPDATES
                      THEN v2r_vnc_send_fb_update_req(FALSE, Head(c2p).allow) ELSE <<>>
  <2>1. /\ c2p # <<>> /\ Head(c2p).type = "suppress_output" /\ c2p' = Tail(c2p)
        /\ p2s' = Put(serverOpen, p2s, req)
        /\ UNCHANGED <<status, viewonly, client, server>>
    BY <1>2 DEF v2r_rdp_process_suppress_output, RdpReads, NextEvent
  <2>2. req \in Seq(RequestMessages) /\ \A m \in Range(req) : m.type = "request"
    <3>1. <<>> \in Seq(RequestMessages) /\ \A m \in Range(<<>>) : m.type = "request"
      <4>1. Range(<<>>) = {} /\ Range(<<0>>) = {0}
        BY RangeFew
      <4> QED
        BY <4>1
    <3> QED
      BY <3>1, RequestType, RequestOnly
  <2> HIDE DEF req
  <2> QED
    BY <2>1, <2>2, RequestsKeepOrder
<1>3. CASE v2r_input_process /\ ~SendFails(serverOpen)
  <2>1. /\ c2p # <<>> /\ Head(c2p).type = "input" /\ c2p' = Tail(c2p)
        /\ p2s' = Put(serverOpen, p2s, Forwarded(Head(c2p)))
        /\ UNCHANGED <<status, viewonly, client, server>>
    BY <1>3 DEF v2r_input_process, RdpReads, NextEvent
  <2> SUFFICES ASSUME Connected'
               PROVE  IF viewonly THEN received' = 0 /\ Ids(p2s') = {}
                      ELSE EventsOrdered' /\ InputsOrdered' /\ ForwardedFirst' /\ NothingLost'
    BY <2>1 DEF InputInv
  <2>2. Connected /\ p2s' = p2s \o Forwarded(Head(c2p)) /\ UNCHANGED <<received, typed>>
    BY <2>1 DEF Connected, client, server, Put
  <2>3. CASE viewonly
    <3>1. p2s' = p2s
      BY <2>2, <2>3 DEF Forwarded, TypeOK
    <3> QED
      BY <2>2, <2>3, <3>1 DEF InputInv
  <2>4. CASE ~viewonly
    <3>1. EventsOrdered /\ InputsOrdered /\ ForwardedFirst /\ NothingLost
      BY <2>2, <2>4 DEF InputInv
    <3> QED
      BY <2>1, <2>2, <2>4, <3>1, InputForwarded
  <2> QED
    BY <2>3, <2>4
<1>4. CASE IgnorePdu
  <2>1. /\ c2p # <<>> /\ Head(c2p).type # "input" /\ c2p' = Tail(c2p)
        /\ p2s' = p2s /\ UNCHANGED <<status, viewonly, client, server>>
    BY <1>4 DEF IgnorePdu, RdpReads, NextEvent
  <2>2. /\ p2s' = Put(serverOpen, p2s, <<>>) /\ <<>> \in Seq(RequestMessages)
        /\ \A m \in Range(<<>>) : m.type = "request"
    BY <2>1 DEF Put, TypeOK, Range
  <2> QED
    BY <2>1, <2>2, RequestsKeepOrder
<1> QED
  BY <1>1, <1>2, <1>3, <1>4 DEF v2r_rdp_process, RdpFails

\* v2r_vnc_process keeps the input in order: it sends nothing but requests.
LEMMA VncOrdered ==
  ASSUME TypeOK, InputInv, v2r_vnc_process
  PROVE  InputInv'
<1>1. CASE SendFails(serverOpen) \/ SendFails(clientOpen) \/ Leave("ended")
  BY <1>1 DEF SendFails, Leave, InputInv, Connected
<1>2. CASE UpdateDone /\ ~SendFails(serverOpen)
  <2> DEFINE req == v2r_vnc_send_fb_update_req(TRUE, allow)
  <2>1. /\ p2s' = Put(serverOpen, p2s, req) /\ c2p' = c2p
        /\ UNCHANGED <<status, viewonly, client, server>>
    BY <1>2 DEF UpdateDone, NextEvent
  <2>2. req \in Seq(RequestMessages) /\ \A m \in Range(req) : m.type = "request"
    BY RequestType, RequestOnly
  <2> HIDE DEF req
  <2> QED
    BY <2>1, <2>2, RequestsKeepOrder
<1>3. CASE UpdateHeader \/ (UpdateRectangle /\ ~SendFails(clientOpen))
  BY <1>3, StillOrdered DEF UpdateHeader, UpdateRectangle, Connected, client, server
<1>4. ASSUME NEW out, NEW map, Answer(out, map), ~SendFails(clientOpen)
      PROVE  InputInv'
  BY <1>4, StillOrdered DEF Answer, NextEvent, Connected, client, server
<1> QED
  BY <1>1, <1>2, <1>3, <1>4
  DEF v2r_vnc_process, v2r_vnc_process_set_colour_map_entries, v2r_vnc_process_bell,
      v2r_vnc_process_server_cut_text, VncFails

\* The client types in order.
LEMMA ClientOrdered ==
  ASSUME TypeOK, InputInv, Client
  PROVE  InputInv'
<1>1. ASSUME NEW e \in ClientMessages, e.type # "input", ClientSends(e), typed' = typed
      PROVE  InputInv'
  <2>1. /\ c2p' = Append(c2p, e)
        /\ UNCHANGED <<proxy, p2c, s2p, p2s, server, clientOpen>>
    BY <1>1 DEF ClientSends
  <2>2. PICK k \in Nat : k = Len(c2p)
    BY LenProperties DEF TypeOK
  <2>3. /\ DOMAIN c2p = 1..k /\ DOMAIN c2p' = 1..k + 1 /\ c2p'[k + 1] = e
        /\ \A i \in 1..k : c2p'[i] = c2p[i]
    BY <2>1, <2>2, AppendOf DEF TypeOK
  <2>4. \A i \in 1..k + 1 : i \in 1..k \/ i = k + 1
    OBVIOUS
  <2>5. \A i \in 1..k : i \in 1..k + 1
    OBVIOUS
  <2>6. InputsOf(c2p') = InputsOf(c2p)
    BY <1>1, <2>3, <2>4, <2>5 DEF InputsOf
  <2>7. InputsOrdered => InputsOrdered'
    BY <1>1, <2>3, <2>4 DEF InputsOrdered
  <2> QED
    BY <1>1, <2>1, <2>6, <2>7
    DEF InputInv, EventsOrdered, ForwardedFirst, NothingLost, Connected, proxy, server
<1>2. CASE ClientMinimise \/ ClientRestore \/ ClientSendsOther
  <2>1. typed' = typed
    BY <1>2 DEF ClientMinimise, ClientRestore, ClientSendsOther
  <2>2. {Suppress(SUPPRESS_DISPLAY_UPDATES), Suppress(ALLOW_DISPLAY_UPDATES), Other,
         Shutdown, Invalid} \subseteq ClientMessages
    BY DEF Suppress, Other, Shutdown, Invalid, ClientMessages
  <2>3. \A e \in {Suppress(SUPPRESS_DISPLAY_UPDATES), Suppress(ALLOW_DISPLAY_UPDATES),
                   Other, Shutdown, Invalid} : e.type # "input"
    BY DEF Suppress, Other, Shutdown, Invalid
  <2>4. PICK e \in {Suppress(SUPPRESS_DISPLAY_UPDATES), Suppress(ALLOW_DISPLAY_UPDATES),
                    Other, Shutdown, Invalid} : ClientSends(e)
    BY <1>2 DEF ClientMinimise, ClientRestore, ClientSendsOther
  <2> QED
    BY <1>1, <2>1, <2>2, <2>3, <2>4
<1>3. ASSUME NEW n \in {1, 2}, ClientTypes(n)
      PROVE  InputInv'
  <2>1. /\ c2p' = Append(c2p, Input(typed + 1, typed + n)) /\ typed' = typed + n
        /\ UNCHANGED <<status, viewonly, p2s, server, clientOpen>>
    BY <1>3 DEF ClientTypes, ClientSends, proxy
  <2> SUFFICES ASSUME Connected'
               PROVE  IF viewonly THEN received' = 0 /\ Ids(p2s') = {}
                      ELSE EventsOrdered' /\ InputsOrdered' /\ ForwardedFirst' /\ NothingLost'
    BY <2>1 DEF InputInv
  <2>2. Connected /\ UNCHANGED <<received, p2s>>
    BY <2>1 DEF Connected, server
  <2>3. EventsOrdered => EventsOrdered'
    BY <2>2 DEF EventsOrdered
  <2>4. CASE viewonly
    BY <2>2, <2>4 DEF InputInv
  <2>5. CASE ~viewonly
    <3>1. EventsOrdered /\ InputsOrdered /\ ForwardedFirst /\ NothingLost
      BY <2>2, <2>5 DEF InputInv
    <3>2. InputsOrdered' /\ ForwardedFirst' /\ NothingLost'
      BY <2>1, <2>2, <3>1, InputTyped
    <3> QED
      BY <2>3, <2>5, <3>1, <3>2
  <2> QED
    BY <2>4, <2>5
<1>4. CASE ClientCloses
  BY <1>4 DEF ClientCloses, InputInv, Connected
<1>5. CASE ClientReads
  BY <1>5, StillOrdered DEF ClientReads, Connected, proxy, server
<1> QED
  BY <1>2, <1>3, <1>4, <1>5 DEF Client

\* The server receives in order.
LEMMA ServerOrdered ==
  ASSUME TypeOK, InputInv, Server
  PROVE  InputInv'
<1>1. CASE ServerReads
  <2>1. /\ p2s # <<>> /\ p2s' = Tail(p2s)
        /\ received' = IF Head(p2s).type = "event" THEN Head(p2s).id ELSE received
        /\ UNCHANGED <<proxy, c2p, client, serverOpen>>
    BY <1>1 DEF ServerReads
  <2> SUFFICES ASSUME Connected'
               PROVE  IF viewonly THEN received' = 0 /\ Ids(p2s') = {}
                      ELSE EventsOrdered' /\ InputsOrdered' /\ ForwardedFirst' /\ NothingLost'
    BY <2>1 DEF InputInv, proxy
  <2>2. Connected /\ UNCHANGED <<typed, c2p>>
    BY <2>1 DEF Connected, client, proxy
  <2>3. CASE viewonly
    <3>1. Range(p2s) = {Head(p2s)} \cup Range(Tail(p2s))
      BY <2>1, RangeTail DEF TypeOK
    <3>2. \A x : x \in Ids(p2s) <=>
                 x \in Ids(Tail(p2s)) \/ (Head(p2s).type = "event" /\ x = Head(p2s).id)
      BY <3>1, IdsOf
    <3>3. received = 0 /\ Ids(p2s) = {}
      BY <2>2, <2>3 DEF InputInv
    <3>4. received' = 0 /\ Ids(p2s') = {}
      BY <2>1, <3>2, <3>3
    <3> QED
      BY <2>3, <3>4
  <2>4. CASE ~viewonly
    <3>1. EventsOrdered /\ InputsOrdered /\ ForwardedFirst /\ NothingLost
      BY <2>2, <2>4 DEF InputInv
    <3>2. EventsOrdered' /\ ForwardedFirst' /\ NothingLost'
      BY <2>1, <2>2, <3>1, EventRead
    <3>3. InputsOrdered'
      BY <2>2, <3>1 DEF InputsOrdered
    <3> QED
      BY <2>4, <3>1, <3>2, <3>3
  <2> QED
    BY <2>3, <2>4
<1>2. CASE ServerCloses
  BY <1>2 DEF ServerCloses, InputInv, Connected
<1>3. CASE ~ServerReads /\ ~ServerCloses
  <2>1. UNCHANGED <<proxy, c2p, p2s, client, serverOpen, received>>
    BY <1>3 DEF Server, ServerPaints, ServerUpdates, ServerSetsColours, ServerSendsOther,
                ServerNotifies
  <2> QED
    BY <2>1, StillOrdered DEF Connected, proxy, client
<1> QED
  BY <1>1, <1>2, <1>3

\* Every step keeps the input in order.
LEMMA NextOrdered ==
  ASSUME TypeOK, InputInv, [Next]_vars
  PROVE  InputInv'
<1>1. ASSUME NEW fd, EpollWait(fd)
      PROVE  InputInv'
  BY <1>1, StillOrdered DEF EpollWait, Connected, client, server
<1>2. CASE UNCHANGED vars
  BY <1>2, StillOrdered DEF vars, Connected, proxy, client, server
<1>3. CASE Interrupted
  BY <1>3 DEF Interrupted, Leave, InputInv, Connected
<1> QED
  BY <1>1, <1>2, <1>3, RdpOrdered, VncOrdered, ClientOrdered, ServerOrdered
  DEF Next, v2r_session_transmit

\* Every event typed reaches the server once, in the order typed, whatever PDUs,
\* requests and updates it is interleaved with; a view-only session forwards none
\* (input.c, rdp.c).
THEOREM InputArrives == Spec => []InputOrder
<1>1. Init => InputInv
  <2> SUFFICES ASSUME Init
               PROVE  InputInv
    OBVIOUS
  <2>1. p2s = <<Request(FALSE)>> /\ c2p = <<>> /\ typed = 0 /\ received = 0
    BY DEF Init
  <2>2. Ids(p2s) = {} /\ InputsOf(c2p) = {}
    BY <2>1 DEF Ids, InputsOf, Request
  <2>3. EventsOrdered /\ InputsOrdered /\ ForwardedFirst
    BY <2>1, <2>2 DEF EventsOrdered, InputsOrdered, ForwardedFirst
  <2>4. NothingLost
    <3>1. received <= typed /\ received + 1 .. typed = {}
      BY <2>1
    <3>2. Ids(p2s) \cup InputsOf(c2p) = received + 1 .. typed
      BY <2>2, <3>1
    <3> QED
      BY <3>1, <3>2 DEF NothingLost
  <2> QED
    BY <2>1, <2>2, <2>3, <2>4 DEF InputInv
<1>2. TypeOK /\ InputInv /\ [Next]_vars => InputInv'
  BY NextOrdered
<1>3. InputInv => InputOrder
  BY DEF InputInv, InputOrder, Connected, EventsOrdered, ForwardedFirst, NothingLost
<1> QED
  BY <1>1, <1>2, <1>3, TypeCorrect, PTL DEF Spec

(***************************************************************************)
(* How many messages of a type a stream holds.                             *)
(***************************************************************************)

\* The places of the messages of a type are finitely many.
LEMMA CountType ==
  ASSUME NEW M, NEW s \in Seq(M), NEW type
  PROVE  /\ IsFiniteSet({i \in DOMAIN s : s[i].type = type})
         /\ Count(s, type) \in Nat
<1>1. DOMAIN s = 1..Len(s) /\ Len(s) \in Nat
  BY LenProperties
<1>2. IsFiniteSet(DOMAIN s)
  BY <1>1, FS_Interval
<1>3. IsFiniteSet({i \in DOMAIN s : s[i].type = type})
  BY <1>2, FS_Subset
<1> QED
  BY <1>3, FS_CardinalityType DEF Count

\* Reading a message leaves no more, and one less when it was of the type.
LEMMA CountTail ==
  ASSUME NEW M, NEW s \in Seq(M), s # <<>>, NEW type
  PROVE  /\ Tail(s) \in Seq(M)
         /\ Count(Tail(s), type)
              <= Count(s, type) - (IF Head(s).type = type THEN 1 ELSE 0)
<1> DEFINE A == {i \in DOMAIN s : s[i].type = type}
           B == {i \in DOMAIN Tail(s) : Tail(s)[i].type = type}
           f == [i \in B |-> i + 1]
<1>1. PICK n \in Nat \ {0} : n = Len(s)
  BY EmptySeq
<1>2. /\ Head(s) = s[1] /\ DOMAIN Tail(s) = 1..n - 1 /\ DOMAIN s = 1..n
      /\ Tail(s) \in Seq(M) /\ \A i \in 1..n - 1 : Tail(s)[i] = s[i + 1]
  BY <1>1, TailOf
<1>3. IsFiniteSet(A) /\ Cardinality(A) \in Nat
  BY CountType DEF Count
<1>4. /\ IsFiniteSet(A \ {1})
      /\ Cardinality(A \ {1}) = IF 1 \in A THEN Cardinality(A) - 1 ELSE Cardinality(A)
  <2> HIDE DEF A
  <2> QED
    BY <1>3, FS_RemoveElement
<1>5. 1 \in A <=> Head(s).type = type
  <2>1. 1 \in 1..n
    OBVIOUS
  <2> QED
    BY <1>2, <2>1
<1>6. f \in Injection(B, A \ {1})
  <2>1. \A i \in B : i \in Nat /\ i + 1 \in A \ {1}
    <3> SUFFICES ASSUME NEW i \in 1..n - 1, Tail(s)[i].type = type
                 PROVE  i \in Nat /\ i + 1 \in A \ {1}
      BY <1>2
    <3>1. i + 1 \in 1..n /\ i + 1 # 1
      OBVIOUS
    <3> QED
      BY <1>2, <3>1
  <2>2. f \in [B -> A \ {1}]
    <3> HIDE DEF A, B
    <3> QED
      BY <2>1
  <2>3. \A i, j \in B : f[i] = f[j] => i = j
    <3> HIDE DEF A, B
    <3> QED
      BY <2>1
  <2> HIDE DEF A, B, f
  <2> QED
    BY <2>2, <2>3 DEF Injection, IsInjective
<1>7. Cardinality(B) <= Cardinality(A \ {1})
  <2> HIDE DEF A, B, f
  <2> QED
    BY <1>4, <1>6, FS_Injection
<1> HIDE DEF f
<1>8. Count(s, type) = Cardinality(A) /\ Count(Tail(s), type) = Cardinality(B)
  BY DEF Count
<1> HIDE DEF A, B
<1> QED
  BY <1>2, <1>3, <1>4, <1>5, <1>7, <1>8

\* Messages of other types add none.
LEMMA CountOthers ==
  ASSUME NEW M, NEW s \in Seq(M), NEW t \in Seq(M), NEW type,
         \A i \in DOMAIN t : t[i].type # type
  PROVE  Count(s \o t, type) = Count(s, type)
<1>1. PICK m \in Nat, n \in Nat : m = Len(s) /\ n = Len(t)
  BY LenProperties
<1>2. /\ DOMAIN (s \o t) = 1..m + n /\ DOMAIN s = 1..m /\ DOMAIN t = 1..n
      /\ \A i \in 1..m : (s \o t)[i] = s[i]
      /\ \A i \in 1..n : (s \o t)[m + i] = t[i]
  BY <1>1, ConcatOf
<1>3. \A i \in 1..m : i \in 1..m + n
  OBVIOUS
<1>4. ASSUME NEW i \in 1..m + n, (s \o t)[i].type = type
      PROVE  i \in 1..m
  <2> SUFFICES ASSUME ~(i <= m)
               PROVE  FALSE
    OBVIOUS
  <2>1. i - m \in 1..n /\ m + (i - m) = i
    OBVIOUS
  <2>2. (s \o t)[i] = t[i - m]
    BY <1>2, <2>1
  <2> QED
    BY <1>2, <1>4, <2>1, <2>2
<1>5. {i \in DOMAIN (s \o t) : (s \o t)[i].type = type} = {i \in DOMAIN s : s[i].type = type}
  BY <1>2, <1>3, <1>4
<1> QED
  BY <1>5 DEF Count

\* One message adds at most one.
LEMMA CountAppend ==
  ASSUME NEW M, NEW s \in Seq(M), NEW e \in M, NEW type
  PROVE  Count(Append(s, e), type) <= Count(s, type) + (IF e.type = type THEN 1 ELSE 0)
<1> DEFINE A == {i \in DOMAIN s : s[i].type = type}
           B == {i \in DOMAIN Append(s, e) : Append(s, e)[i].type = type}
<1>1. PICK m \in Nat : m = Len(s)
  BY LenProperties
<1>2. /\ DOMAIN Append(s, e) = 1..m + 1 /\ DOMAIN s = 1..m
      /\ Append(s, e)[m + 1] = e
      /\ \A i \in 1..m : Append(s, e)[i] = s[i]
  BY <1>1, AppendOf
<1>3. \A i \in 1..m + 1 : i \in 1..m \/ i = m + 1
  OBVIOUS
<1>4. IsFiniteSet(A) /\ Cardinality(A) \in Nat
  BY CountType DEF Count
<1>5. B \subseteq A \cup (IF e.type = type THEN {m + 1} ELSE {})
  BY <1>2, <1>3
<1>6. Count(s, type) = Cardinality(A) /\ Count(Append(s, e), type) = Cardinality(B)
  BY DEF Count
<1> HIDE DEF A, B
<1>7. CASE e.type = type
  <2>1. /\ IsFiniteSet(A \cup {m + 1})
        /\ Cardinality(A \cup {m + 1})
             = IF m + 1 \in A THEN Cardinality(A) ELSE Cardinality(A) + 1
    BY <1>4, FS_AddElement
  <2>2. Cardinality(B) <= Cardinality(A \cup {m + 1})
    BY <1>5, <1>7, <2>1, FS_Subset
  <2>3. IsFiniteSet(B) /\ Cardinality(B) \in Nat
    BY <1>5, <1>7, <2>1, FS_Subset, FS_CardinalityType
  <2> QED
    BY <1>4, <1>6, <1>7, <2>1, <2>2, <2>3
<1>8. CASE e.type # type
  <2>1. B \subseteq A
    BY <1>5, <1>8
  <2>2. Cardinality(B) <= Cardinality(A)
    BY <1>4, <2>1, FS_Subset
  <2> QED
    BY <1>4, <1>6, <1>8, <2>2
<1> QED
  BY <1>7, <1>8

\* What is left of a stream that is cut holds no more.
LEMMA CountPrefix ==
  ASSUME NEW M, NEW s \in Seq(M), NEW n \in 0..Len(s), NEW type
  PROVE  Count(SubSeq(s, 1, n), type) <= Count(s, type)
<1> DEFINE A == {i \in DOMAIN s : s[i].type = type}
           B == {i \in DOMAIN SubSeq(s, 1, n) : SubSeq(s, 1, n)[i].type = type}
<1>1. PICK m \in Nat : m = Len(s)
  BY LenProperties
<1>2. /\ DOMAIN s = 1..m /\ n \in 0..m
      /\ DOMAIN SubSeq(s, 1, n) = 1..n /\ \A i \in 1..n : SubSeq(s, 1, n)[i] = s[i]
  BY <1>1, LenProperties, SubSeqProperties
<1>3. \A i \in 1..n : i \in 1..m
  BY <1>2
<1>4. B \subseteq A
  BY <1>2, <1>3
<1>5. IsFiniteSet(A)
  BY CountType
<1>6. Count(s, type) = Cardinality(A) /\ Count(SubSeq(s, 1, n), type) = Cardinality(B)
  BY DEF Count
<1> HIDE DEF A, B
<1> QED
  BY <1>4, <1>5, <1>6, FS_Subset

(***************************************************************************)
(* While output is suppressed the requests in circulation only drain.      *)
(***************************************************************************)
Drains == Circulating' <= Circulating

\* A step that takes messages from the streams, or adds others.
LEMMA DrainsBy ==
  ASSUME TypeOK, TypeOK', pend' = pend \/ pend' = "none",
         Count(p2s', "request") <= Count(p2s, "request"),
         Count(s2p', "update") <= Count(s2p, "update")
  PROVE  Drains
<1>1. /\ Count(p2s, "request") \in Nat /\ Count(p2s', "request") \in Nat
      /\ Count(s2p, "update") \in Nat /\ Count(s2p', "update") \in Nat
  BY CountType DEF TypeOK
<1> HIDE DEF Count
<1> QED
  BY <1>1 DEF Drains, Circulating

\* v2r_rdp_process asks for nothing while output is suppressed.
LEMMA RdpDrains ==
  ASSUME TypeOK, TypeOK', v2r_rdp_process, allow = SUPPRESS_DISPLAY_UPDATES,
         allow' = allow, status' = "running"
  PROVE  Drains
<1>1. ~SendFails(serverOpen) /\ ~Leave("ended")
  BY DEF SendFails, Leave
<1>2. CASE v2r_rdp_process_suppress_output
  <2>1. Head(c2p).allow = SUPPRESS_DISPLAY_UPDATES
    BY <1>1, <1>2 DEF v2r_rdp_process_suppress_output
  <2>2. p2s' = Put(serverOpen, p2s, <<>>) /\ UNCHANGED <<s2p, pend>>
    BY <1>1, <1>2, <2>1
    DEF v2r_rdp_process_suppress_output, v2r_vnc_send_fb_update_req, server,
        SUPPRESS_DISPLAY_UPDATES, ALLOW_DISPLAY_UPDATES
  <2>3. p2s' = p2s
    BY <2>2 DEF Put, TypeOK
  <2>4. Count(p2s, "request") \in Nat /\ Count(s2p, "update") \in Nat
    BY CountType DEF TypeOK
  <2> QED
    BY <2>2, <2>3, <2>4, DrainsBy
<1>3. CASE v2r_input_process
  <2>1. /\ Head(c2p) \in ClientMessages /\ Head(c2p).type = "input"
        /\ p2s' = Put(serverOpen, p2s, Forwarded(Head(c2p))) /\ UNCHANGED <<s2p, pend>>
    BY <1>1, <1>3, TailOf DEF v2r_input_process, RdpReads, TypeOK, server
  <2>2. Forwarded(Head(c2p)) \in Seq(RequestMessages)
    BY <2>1, InputType
  <2>3. \A i \in DOMAIN Forwarded(Head(c2p)) : Forwarded(Head(c2p))[i].type # "request"
    BY DEF Forwarded, Event
  <2>4. Count(p2s', "request") = Count(p2s, "request")
    <3>1. CASE serverOpen
      BY <2>1, <2>2, <2>3, <3>1, CountOthers DEF Put, TypeOK
    <3>2. CASE ~serverOpen
      BY <2>1, <3>2 DEF Put
    <3> QED
      BY <3>1, <3>2
  <2>5. Count(p2s, "request") \in Nat /\ Count(s2p, "update") \in Nat
    BY CountType DEF TypeOK
  <2> QED
    BY <2>1, <2>4, <2>5, DrainsBy
<1>4. CASE IgnorePdu
  <2>1. UNCHANGED <<p2s, s2p, pend>>
    BY <1>4 DEF IgnorePdu, server
  <2>2. Count(p2s, "request") \in Nat /\ Count(s2p, "update") \in Nat
    BY CountType DEF TypeOK
  <2> QED
    BY <2>1, <2>2, DrainsBy
<1> QED
  BY <1>1, <1>2, <1>3, <1>4 DEF v2r_rdp_process, RdpFails

\* v2r_vnc_process asks for nothing while output is suppressed, not even for an update
\* that was being received.
LEMMA VncDrains ==
  ASSUME TypeOK, TypeOK', v2r_vnc_process, allow = SUPPRESS_DISPLAY_UPDATES,
         allow' = allow, status' = "running"
  PROVE  Drains
<1>1. ~SendFails(serverOpen) /\ ~SendFails(clientOpen) /\ ~Leave("ended")
  BY DEF SendFails, Leave
<1>2. Count(p2s, "request") \in Nat /\ Count(s2p, "update") \in Nat
  BY CountType DEF TypeOK
<1>3. ASSUME s2p # <<>>, s2p' = Tail(s2p), UNCHANGED <<p2s, pend>>
      PROVE  Drains
  <2>1. Count(Tail(s2p), "update")
          <= Count(s2p, "update") - (IF Head(s2p).type = "update" THEN 1 ELSE 0)
    BY <1>3, CountTail DEF TypeOK
  <2>2. Count(s2p', "update") \in Nat
    BY CountType DEF TypeOK
  <2>3. Count(s2p', "update") <= Count(s2p, "update")
    BY <1>2, <1>3, <2>1, <2>2
  <2> QED
    BY <1>2, <1>3, <2>3, DrainsBy
<1>4. CASE UpdateHeader
  BY <1>3, <1>4 DEF UpdateHeader, VncReads, server
<1>5. CASE UpdateRectangle
  BY <1>1, <1>3, <1>5 DEF UpdateRectangle, server
<1>6. CASE UpdateDone
  <2>1. p2s' = Put(serverOpen, p2s, <<>>) /\ UNCHANGED <<s2p, pend>>
    BY <1>1, <1>6 DEF UpdateDone, v2r_vnc_send_fb_update_req, server
  <2>2. p2s' = p2s
    BY <2>1 DEF Put, TypeOK
  <2> QED
    BY <1>2, <2>1, <2>2, DrainsBy
<1>7. ASSUME NEW type, VncReads(type), NEW out, NEW map, Answer(out, map)
      PROVE  Drains
  BY <1>1, <1>3, <1>7 DEF VncReads, Answer, server
<1> QED
  BY <1>1, <1>4, <1>5, <1>6, <1>7
  DEF v2r_vnc_process, v2r_vnc_process_set_colour_map_entries, v2r_vnc_process_bell,
      v2r_vnc_process_server_cut_text, VncFails

\* The server answers a request at most once.
LEMMA ServerDrains ==
  ASSUME TypeOK, TypeOK', Server
  PROVE  Drains
<1>1. /\ Count(p2s, "request") \in Nat /\ Count(s2p, "update") \in Nat
      /\ Count(p2s', "request") \in Nat /\ Count(s2p', "update") \in Nat
  BY CountType DEF TypeOK
<1>2. ASSUME NEW t \in Tiles, NEW c \in Contents, ServerPaints(t, c)
      PROVE  Drains
  BY <1>1, <1>2, DrainsBy DEF ServerPaints
<1>3. CASE ServerReads
  <2>1. /\ p2s # <<>> /\ p2s' = Tail(p2s) /\ s2p' = s2p
        /\ Head(p2s).type # "request" => pend' = pend
    BY <1>3 DEF ServerReads
  <2>2. Count(Tail(p2s), "request")
          <= Count(p2s, "request") - (IF Head(p2s).type = "request" THEN 1 ELSE 0)
    BY <2>1, CountTail DEF TypeOK
  <2>3. PICK a \in Nat, b \in Nat, c \in Nat :
          a = Count(p2s, "request") /\ b = Count(p2s', "request") /\ c = Count(s2p, "update")
    BY <1>1
  <2>4. /\ Circulating = a + c + (IF pend = "none" THEN 0 ELSE 1)
        /\ Circulating' = b + c + (IF pend' = "none" THEN 0 ELSE 1)
    BY <2>1, <2>3 DEF Circulating
  <2>5. b <= a - (IF Head(p2s).type = "request" THEN 1 ELSE 0)
    BY <2>1, <2>2, <2>3
  <2>6. CASE Head(p2s).type = "request"
    <3>1. b <= a - 1
      BY <2>5, <2>6
    <3> QED
      BY <2>4, <3>1 DEF Drains
  <2>7. CASE Head(p2s).type # "request"
    <3>1. b <= a /\ pend' = pend
      BY <2>1, <2>5, <2>7
    <3> QED
      BY <2>4, <3>1 DEF Drains
  <2> QED
    BY <2>6, <2>7
<1>4. CASE ServerUpdates
  <2>1. PICK r \in Seq(Rectangles) : s2p' = (s2p \o <<Header(Len(r))>>) \o r
    BY <1>4, UpdateMessages
  <2>2. pend # "none" /\ pend' = "none" /\ p2s' = p2s
    BY <1>4 DEF ServerUpdates
  <2>3. Header(Len(r)) \in ServerMessages /\ r \in Seq(ServerMessages)
        /\ s2p \in Seq(ServerMessages)
    BY LenProperties, SeqMonotonic, SMTT(20) DEF Header, ServerMessages, TypeOK
  <2>4. PICK h \in ServerMessages : h = Header(Len(r)) /\ h.type = "update"
    BY <2>3 DEF Header
  <2>5. s2p \o <<h>> = Append(s2p, h) /\ Append(s2p, h) \in Seq(ServerMessages)
    BY <2>3, AppendIsConcat, AppendOf
  <2>6. Count(Append(s2p, h), "update") <= Count(s2p, "update") + 1
    BY <2>3, <2>4, CountAppend
  <2>7. \A i \in DOMAIN r : r[i].type # "update"
    <3>1. \A i \in DOMAIN r : r[i] \in Rectangles
      BY ElementOfSeq, LenProperties
    <3> QED
      BY <3>1 DEF Rectangles
  <2>8. Count(Append(s2p, h) \o r, "update") = Count(Append(s2p, h), "update")
    BY <2>3, <2>5, <2>7, CountOthers
  <2>9. Count(s2p', "update") <= Count(s2p, "update") + 1
    BY <2>1, <2>4, <2>5, <2>6, <2>8
  <2> QED
    BY <1>1, <2>2, <2>9 DEF Drains, Circulating
<1>5. ASSUME NEW m \in ServerMessages, m.type # "update", ServerNotifies(m)
      PROVE  Drains
  <2>1. s2p' = Append(s2p, m) /\ UNCHANGED <<p2s, pend>>
    BY <1>5 DEF ServerNotifies
  <2>2. Count(Append(s2p, m), "update")
          <= Count(s2p, "update") + (IF m.type = "update" THEN 1 ELSE 0)
    BY CountAppend DEF TypeOK
  <2>3. Count(s2p', "update") <= Count(s2p, "update")
    BY <1>1, <1>5, <2>1, <2>2
  <2> QED
    BY <1>1, <2>1, <2>3, DrainsBy
<1>6. CASE ServerSetsColours
  <2>1. PICK S \in SUBSET Entries : \E f \in [S -> Colours] :
          ServerNotifies(SetColours(f))
    BY <1>6 DEF ServerSetsColours
  <2>2. PICK f \in [S -> Colours] : ServerNotifies(SetColours(f))
    BY <2>1
  <2>3. SetColours(f) \in ServerMessages /\ SetColours(f).type # "update"
    BY DEF SetColours, ServerMessages
  <2> QED
    BY <1>5, <2>2, <2>3
<1>7. CASE ServerSendsOther
  <2>1. PICK m \in {Bell, CutText(0), CutText(1), Unknown} : ServerNotifies(m)
    BY <1>7 DEF ServerSendsOther
  <2>2. m \in ServerMessages /\ m.type # "update"
    BY DEF Bell, CutText, Unknown, ServerMessages
  <2> QED
    BY <1>5, <2>1, <2>2
<1>8. CASE ServerCloses
  <2>1. PICK n \in 0..Len(s2p) : s2p' = SubSeq(s2p, 1, n)
    BY <1>8 DEF ServerCloses
  <2>2. Count(s2p', "update") <= Count(s2p, "update")
    BY <2>1, CountPrefix DEF TypeOK
  <2>3. p2s' = <<>> /\ pend' = pend
    BY <1>8 DEF ServerCloses
  <2>4. Count(p2s', "request") = 0
    <3>1. DOMAIN <<>> = {}
      OBVIOUS
    <3>2. {i \in DOMAIN <<>> : <<>>[i].type = "request"} = {}
      BY <3>1
    <3> QED
      BY <2>3, <3>2, FS_EmptySet DEF Count
  <2>5. Count(p2s', "request") <= Count(p2s, "request")
    BY <1>1, <2>4
  <2> QED
    BY <2>2, <2>3, <2>5, DrainsBy
<1> QED
  BY <1>2, <1>3, <1>4, <1>6, <1>7, <1>8 DEF Server

\* While the client has suppressed its output, no step of the proxy or of the server
\* adds an update request or an update to those in circulation (vnc.c, rdp.c).
THEOREM RequestsDrain == Spec => SuppressDrains
<1>1. ASSUME TypeOK, TypeOK', [Next]_vars, allow = SUPPRESS_DISPLAY_UPDATES,
             allow' = allow, status' = "running"
      PROVE  Drains
  <2>1. ASSUME UNCHANGED <<p2s, s2p, pend>>
        PROVE  Drains
    <3>1. Count(p2s, "request") \in Nat /\ Count(s2p, "update") \in Nat
      BY <1>1, CountType DEF TypeOK
    <3> QED
      BY <1>1, <2>1, <3>1, DrainsBy
  <2>2. ASSUME NEW fd, EpollWait(fd)
        PROVE  Drains
    BY <2>1, <2>2 DEF EpollWait, server
  <2>3. CASE Client
    <3>1. UNCHANGED <<p2s, s2p, pend>>
      BY <2>3 DEF Client, ClientMinimise, ClientRestore, ClientTypes, ClientSendsOther,
                  ClientSends, ClientCloses, ClientReads, server
    <3> QED
      BY <2>1, <3>1
  <2>4. CASE UNCHANGED vars
    BY <2>1, <2>4 DEF vars, server
  <2>5. ~Interrupted
    BY <1>1 DEF Interrupted, Leave
  <2> QED
    BY <1>1, <2>2, <2>3, <2>4, <2>5, RdpDrains, VncDrains, ServerDrains
    DEF Next, v2r_session_transmit
<1>2. TypeOK /\ TypeOK' /\ [Next]_vars
        => [allow = SUPPRESS_DISPLAY_UPDATES /\ allow' = allow /\ status' = "running"
              => Circulating' <= Circulating]_vars
  BY <1>1 DEF Drains
<1> QED
  BY <1>2, TypeCorrect, PTL DEF Spec, SuppressDrains

(***************************************************************************)
(* The session ends for a reason.                                          *)
(***************************************************************************)

\* The session ends only because a peer closed its connection, or at a message that
\* ends it, or because SIGINT interrupts a wait (session.c, rdp.c, vnc.c).
THEOREM NoEndWithoutReason == Spec => EndsForAReason
<1> DEFINE Reason ==
      \/ Waiting
      \/ ~clientOpen
      \/ ~serverOpen
      \/ /\ Head(batch) = "rdp"
         /\ Head(c2p).type \in {"shutdown_request", "invalid"}
      \/ /\ Head(batch) = "vnc" /\ pc = "transmit"
         /\ Head(s2p) \in {Unknown, CutText(0), SetColours(<<>>)}
<1>1. ASSUME TypeOK, [Next]_vars, status' # status
      PROVE  Reason
  <2>1. ~Client /\ ~Server /\ ~UNCHANGED vars /\ ~\E fd \in {"rdp", "vnc"} : EpollWait(fd)
    BY <1>1 DEF Client, ClientMinimise, ClientRestore, ClientTypes, ClientSendsOther,
                ClientSends, ClientCloses, ClientReads, Server, ServerPaints, ServerReads,
                ServerUpdates, ServerSetsColours, ServerSendsOther, ServerNotifies,
                ServerCloses, EpollWait, vars, proxy
  <2>2. CASE Interrupted
    BY <2>2 DEF Interrupted
  <2>3. CASE v2r_rdp_process
    BY <1>1, <2>3
    DEF v2r_rdp_process, v2r_rdp_process_suppress_output, v2r_input_process, IgnorePdu,
        RdpFails, RdpReads, Handling, NextEvent, SendFails
  <2>4. CASE v2r_vnc_process
    <3>1. CASE SendFails(serverOpen) \/ SendFails(clientOpen)
      BY <3>1 DEF SendFails
    <3>2. CASE VncFails
      <4>1. s2p # <<>> => Head(s2p) \in ServerMessages
        BY <1>1, TailOf DEF TypeOK
      <4>2. CASE VncReads("unknown")
        BY <4>1, <4>2 DEF VncReads, Handling, Unknown, ServerMessages, Rectangles
      <4>3. CASE VncReads("colours") /\ DOMAIN Head(s2p).entries = {}
        <5>1. s2p # <<>> /\ Head(s2p).type = "colours" /\ Head(batch) = "vnc" /\ pc = "transmit"
          BY <4>3 DEF VncReads, Handling
        <5>2. PICK f \in UNION {[S -> Colours] : S \in SUBSET Entries} :
                Head(s2p) = [type |-> "colours", entries |-> f]
          BY <4>1, <5>1 DEF ServerMessages, Rectangles
        <5>3. f = <<>>
          <6>1. Head(s2p).entries = f
            BY <5>2
          <6>2. f \in [{} -> Colours]
            BY <4>3, <6>1
          <6> QED
            BY <6>2
        <5>4. Head(s2p) = SetColours(<<>>)
          BY <5>2, <5>3 DEF SetColours
        <5> QED
          BY <5>1, <5>4
      <4>4. CASE VncReads("cut_text") /\ Head(s2p).length = 0
        BY <4>1, <4>4 DEF VncReads, Handling, CutText, ServerMessages, Rectangles
      <4> QED
        BY <3>2, <4>2, <4>3, <4>4 DEF VncFails
    <3>3. CASE ~(SendFails(serverOpen) \/ SendFails(clientOpen)) /\ ~VncFails
      <4>1. status' = status
        BY <2>4, <3>3
        DEF v2r_vnc_process, UpdateHeader, UpdateRectangle, UpdateDone, Answer, NextEvent,
            v2r_vnc_process_set_colour_map_entries, v2r_vnc_process_bell,
            v2r_vnc_process_server_cut_text
      <4> QED
        BY <1>1, <4>1
    <3> QED
      BY <3>1, <3>2, <3>3
  <2> QED
    BY <1>1, <2>1, <2>2, <2>3, <2>4 DEF Next, v2r_session_transmit
<1>2. TypeOK /\ [Next]_vars => [status' # status => Reason]_vars
  BY <1>1
<1> QED
  BY <1>2, TypeCorrect, PTL DEF Spec, EndsForAReason
==============================================================================
