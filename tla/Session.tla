------------------------------ MODULE Session ------------------------------
(***************************************************************************)
(* A proxied session after both connections are up: the epoll loop of      *)
(* v2r_session_transmit (session.c), the handler of RDP PDUs (rdp.c) and   *)
(* the handler of VNC messages (vnc.c), between an RDP client and a VNC    *)
(* server that run on their own.  The four byte streams are FIFO           *)
(* sequences of messages; a framebuffer update travels as its header       *)
(* followed by its rectangles, because the proxy reads it piece by piece.  *)
(* Pixels are abstracted to one content per tile of the screen.  Every     *)
(* message fits the packet it is read into (Framing says which may not);   *)
(* the flag of a PDU about output is one of the two rdp.h knows (any other *)
(* is kept too, rdp.c:639, and neither suppresses nor asks for an update). *)
(***************************************************************************)
EXTENDS Naturals, Sequences, FiniteSets, SequencesExt

CONSTANTS Tiles,        \* parts of the screen a rectangle may cover
          Contents,     \* pixels a tile may show
          Blank,        \* what the viewer shows before the first update
          Entries,      \* entries of the colour map
          Colours,      \* values of an entry
          NoColour,     \* the zeroed entry of a new session
          ViewOnly,     \* values the command line option viewonly may have
          MaxPdus,      \* bound: PDUs the client sends
          MaxNotices,   \* bound: messages of the server other than updates
          MaxPaints,    \* bound: changes of the screen, unless it floods
          Environment   \* bound: what the peers do, out of Behaviours

ASSUME TilesAssumption == IsFiniteSet(Tiles) /\ Tiles # {}
ASSUME ContentsAssumption == Contents # {} /\ Blank \notin Contents
ASSUME ColoursAssumption == NoColour \notin Colours
ASSUME ViewOnlyAssumption == ViewOnly \subseteq BOOLEAN
ASSUME BoundsAssumption == MaxPdus \in Nat /\ MaxNotices \in Nat /\ MaxPaints \in Nat

Behaviours == {"minimise", "type", "leave", "clientCloses",
               "paint", "flood", "copy", "notify", "serverCloses", "interrupt"}
ASSUME EnvironmentAssumption == Environment \subseteq Behaviours

SUPPRESS_DISPLAY_UPDATES == 0
ALLOW_DISPLAY_UPDATES == 1

VARIABLES
  status,      \* "running", "ended" (session destroyed) or "killed" (SIGPIPE)
  pc,          \* "transmit", or "update" inside a framebuffer update
  batch,       \* events of the last epoll_wait not handled yet
  rects,       \* rectangles of the current update not handled yet
  allow,       \* v2r_rdp_t.allow_display_updates
  colour_map,  \* v2r_vnc_t.colour_map
  viewonly,    \* the command line option
  c2p, p2c,    \* client to proxy, proxy to client
  s2p, p2s,    \* server to proxy, proxy to server
  clientOpen, serverOpen,         \* the peer has not closed its connection
  minimised, shown, palette,      \* the client: window state, pixels, palette
  screen, sent, pend, colours,    \* the server: pixels, pixels the viewer was
                                  \* sent, the pending request, its colour map
  typed, received,                \* last input event typed, last one received
  pdus, notices, paints           \* how much of the bounds is used

proxy  == <<status, pc, batch, rects, allow, colour_map, viewonly>>
client == <<clientOpen, minimised, shown, palette, typed, pdus>>
server == <<serverOpen, screen, sent, pend, colours, received, notices, paints>>
vars   == <<proxy, c2p, p2c, s2p, p2s, client, server>>

Screens   == [Tiles -> Contents]
Pictures  == [Tiles -> Contents \cup {Blank}]
ColourMap == [Entries -> Colours \cup {NoColour}]
Overlay(f, map) == [e \in Entries |-> IF e \in DOMAIN f THEN f[e] ELSE map[e]]

(***************************************************************************)
(* Messages.                                                               *)
(***************************************************************************)
Suppress(a)  == [type |-> "suppress_output", allow |-> a]
Input(from, to) == [type |-> "input", from |-> from, to |-> to]
Other        == [type |-> "other"]
Shutdown     == [type |-> "shutdown_request"]
Invalid      == [type |-> "invalid"]

Request(inc) == [type |-> "request", incremental |-> inc]
Event(id)    == [type |-> "event", id |-> id]

Header(n)      == [type |-> "update", nrects |-> n]
Raw(t, c)      == [type |-> "raw", tile |-> t, content |-> c]
CopyRect(t, s) == [type |-> "copyrect", tile |-> t, src |-> s]
SetColours(f)  == [type |-> "colours", entries |-> f]
Bell           == [type |-> "bell"]
CutText(n)     == [type |-> "cut_text", length |-> n]
Unknown        == [type |-> "unknown"]

Bitmap(t, c) == [type |-> "bitmap", tile |-> t, content |-> c]
Scrblt(t, s) == [type |-> "scrblt", tile |-> t, src |-> s]
Palette(m)   == [type |-> "palette", map |-> m]
Sound        == [type |-> "play_sound"]

ClientMessages ==
  [type : {"suppress_output"},
   allow : {SUPPRESS_DISPLAY_UPDATES, ALLOW_DISPLAY_UPDATES}]
  \cup [type : {"input"}, from : Nat, to : Nat]
  \cup [type : {"other", "shutdown_request", "invalid"}]
RequestMessages ==
  [type : {"request"}, incremental : BOOLEAN] \cup [type : {"event"}, id : Nat]
Rectangles ==
  [type : {"raw"}, tile : Tiles, content : Contents]
  \cup [type : {"copyrect"}, tile : Tiles, src : Tiles]
ServerMessages ==
  [type : {"update"}, nrects : Nat] \cup Rectangles
  \cup [type : {"colours"}, entries : UNION {[S -> Colours] : S \in SUBSET Entries}]
  \cup [type : {"cut_text"}, length : {0, 1}]
  \cup [type : {"bell", "unknown"}]
OutputMessages ==
  [type : {"bitmap"}, tile : Tiles, content : Contents]
  \cup [type : {"scrblt"}, tile : Tiles, src : Tiles]
  \cup [type : {"palette"}, map : ColourMap]
  \cup [type : {"play_sound"}]

Batches == {<<"rdp">>, <<"vnc">>, <<"rdp", "vnc">>, <<"vnc", "rdp">>}

(***************************************************************************)
(* The session as v2r_session_build_conn leaves it: the client may draw,   *)
(* and the first, full update request is on its way to the server.         *)
(***************************************************************************)
Init ==
  /\ status = "running" /\ pc = "transmit" /\ batch = <<>> /\ rects = 0
  /\ allow = ALLOW_DISPLAY_UPDATES
  /\ colour_map = [e \in Entries |-> NoColour]
  /\ viewonly \in ViewOnly
  /\ c2p = <<>> /\ p2c = <<>> /\ s2p = <<>> /\ p2s = <<Request(FALSE)>>
  /\ clientOpen = TRUE /\ serverOpen = TRUE
  /\ minimised = FALSE
  /\ shown = [t \in Tiles |-> Blank]
  /\ palette = [e \in Entries |-> NoColour]
  /\ screen \in Screens
  /\ sent = [t \in Tiles |-> Blank]
  /\ pend = "none"
  /\ colours = [e \in Entries |-> NoColour]
  /\ typed = 0 /\ received = 0 /\ pdus = 0 /\ notices = 0 /\ paints = 0

(***************************************************************************)
(* The epoll loop.  Which of the readable descriptors are reported, and in *)
(* which order, is the kernel's choice; a descriptor it does not report    *)
(* yet is one whose bytes are still on the way.                            *)
(***************************************************************************)
Readable == {fd \in {"rdp", "vnc"} :
               \/ fd = "rdp" /\ (c2p # <<>> \/ ~clientOpen)
               \/ fd = "vnc" /\ (s2p # <<>> \/ ~serverOpen)}

EpollWait(fd) ==
  /\ status = "running" /\ batch = <<>>
  /\ \E b \in Batches :
       /\ \E i \in DOMAIN b : b[i] = fd
       /\ \A i \in DOMAIN b : b[i] \in Readable
       /\ batch' = b
  /\ UNCHANGED <<status, pc, rects, allow, colour_map, viewonly, c2p, p2c, s2p,
                 p2s, client, server>>

Handling(fd) == status = "running" /\ batch # <<>> /\ Head(batch) = fd

\* The handler returned 0: go on with the next event of the batch.
NextEvent == batch' = Tail(batch) /\ UNCHANGED status

\* The handler returned -1: the rest of the batch is dropped and the session
\* is destroyed with whatever was left to read.
Leave(how) ==
  /\ status' = how /\ batch' = <<>> /\ pc' = "transmit" /\ rects' = 0
  /\ UNCHANGED <<allow, colour_map, viewonly, c2p, p2c, s2p, p2s, client, server>>

\* send() to a peer that has closed: an error the handler reports, or SIGPIPE,
\* whose default action ends the process.  (The third outcome, a send the
\* kernel still accepts, is the Put of a closed stream below.)
SendFails(open) == ~open /\ \E how \in {"ended", "killed"} : Leave(how)

\* What send() makes of a stream; bytes accepted for a closed peer are lost.
Put(open, stream, msgs) == IF open THEN stream \o msgs ELSE stream

(***************************************************************************)
(* v2r_rdp_process: one PDU of the client.                                 *)
(***************************************************************************)
RdpReads(type) ==
  /\ Handling("rdp") /\ pc = "transmit"
  /\ c2p # <<>> /\ Head(c2p).type = type

\* Mutant: requests are sent although output is suppressed.
RequestUnguarded(incremental, allowed) == <<Request(incremental)>>

\* What v2r_vnc_send_fb_update_req adds to the stream: nothing while the client
\* has suppressed its output.
v2r_vnc_send_fb_update_req(incremental, allowed) ==
  IF allowed = SUPPRESS_DISPLAY_UPDATES THEN <<>> ELSE <<Request(incremental)>>

\* Mutant: the request is decided with the value of before the PDU.
SuppressOutputStale ==
  /\ RdpReads("suppress_output")
  /\ LET m   == Head(c2p)
         req == IF m.allow = ALLOW_DISPLAY_UPDATES
                  THEN v2r_vnc_send_fb_update_req(FALSE, allow) ELSE <<>>
     IN /\ allow' = m.allow
        /\ p2s' = Put(serverOpen, p2s, req)
        /\ c2p' = Tail(c2p)
        /\ NextEvent
        /\ UNCHANGED <<pc, rects, colour_map, viewonly, p2c, s2p, client, server>>

\* Mutant: the request after a restore is incremental.
SuppressOutputIncremental ==
  /\ RdpReads("suppress_output")
  /\ LET m   == Head(c2p)
         req == IF m.allow = ALLOW_DISPLAY_UPDATES
                  THEN v2r_vnc_send_fb_update_req(TRUE, m.allow) ELSE <<>>
     IN /\ allow' = m.allow
        /\ p2s' = Put(serverOpen, p2s, req)
        /\ c2p' = Tail(c2p)
        /\ NextEvent
        /\ UNCHANGED <<pc, rects, colour_map, viewonly, p2c, s2p, client, server>>

v2r_rdp_process_suppress_output ==
  /\ RdpReads("suppress_output")
  /\ LET m   == Head(c2p)
         req == IF m.allow = ALLOW_DISPLAY_UPDATES
                  THEN v2r_vnc_send_fb_update_req(FALSE, m.allow) ELSE <<>>
     IN \/ /\ allow' = m.allow
           /\ p2s' = Put(serverOpen, p2s, req)
           /\ c2p' = Tail(c2p)
           /\ NextEvent
           /\ UNCHANGED <<pc, rects, colour_map, viewonly, p2c, s2p, client, server>>
        \/ req # <<>> /\ SendFails(serverOpen)

\* Mutant: the last event of a PDU is not forwarded.
ForwardedOneShort(m) ==
  IF viewonly THEN <<>>
  ELSE [i \in 1..(m.to - m.from) |-> Event(m.from + i - 1)]

\* The messages an input PDU becomes: one for each of its keyboard and mouse events,
\* none in a view-only session.  (Events the proxy forwards to nobody are not
\* counted, and the two messages of a turn of the wheel are one event here.)
Forwarded(m) ==
  IF viewonly THEN <<>>
  ELSE [i \in 1..(m.to - m.from + 1) |-> Event(m.from + i - 1)]

v2r_input_process ==
  /\ RdpReads("input")
  /\ \/ /\ p2s' = Put(serverOpen, p2s, Forwarded(Head(c2p)))
        /\ c2p' = Tail(c2p)
        /\ NextEvent
        /\ UNCHANGED <<pc, rects, allow, colour_map, viewonly, p2c, s2p, client,
                       server>>
     \/ ~viewonly /\ SendFails(serverOpen)

\* A data PDU of another kind, and every PDU that is not a data PDU, is read
\* and ignored.
IgnorePdu ==
  /\ RdpReads("other")
  /\ c2p' = Tail(c2p)
  /\ NextEvent
  /\ UNCHANGED <<pc, rects, allow, colour_map, viewonly, p2c, s2p, p2s, client,
                 server>>

\* Mutant: an unknown data PDU ends the session.
RdpFailsOnOther ==
  /\ \/ RdpReads("shutdown_request")
     \/ RdpReads("invalid")
     \/ RdpReads("other")
     \/ Handling("rdp") /\ pc = "transmit" /\ c2p = <<>> /\ ~clientOpen
  /\ Leave("ended")

\* Mutant: the end of the client's stream is not noticed.
RdpFailsNotAtEnd ==
  /\ RdpReads("shutdown_request") \/ RdpReads("invalid")
  /\ Leave("ended")

\* A shutdown request, a PDU that does not parse, or the end of the stream.
RdpFails ==
  /\ \/ RdpReads("shutdown_request")
     \/ RdpReads("invalid")
     \/ Handling("rdp") /\ pc = "transmit" /\ c2p = <<>> /\ ~clientOpen
  /\ Leave("ended")

v2r_rdp_process ==
  \/ v2r_rdp_process_suppress_output
  \/ v2r_input_process
  \/ IgnorePdu
  \/ RdpFails

(***************************************************************************)
(* v2r_vnc_process: one message of the server.                             *)
(***************************************************************************)
VncReads(type) ==
  /\ Handling("vnc") /\ pc = "transmit"
  /\ s2p # <<>> /\ Head(s2p).type = type

\* The message is answered with msgs to the client (v2r_rdp_send and, under it,
\* v2r_tpkt_send), and the handler returns.
Answer(msgs, map) ==
  \/ /\ p2c' = Put(clientOpen, p2c, msgs)
     /\ colour_map' = map
     /\ s2p' = Tail(s2p)
     /\ NextEvent
     /\ UNCHANGED <<pc, rects, allow, viewonly, c2p, p2s, client, server>>
  \/ msgs # <<>> /\ SendFails(clientOpen)

\* Mutant: the loop handles one rectangle less than announced.
UpdateHeaderOneShort ==
  /\ VncReads("update")
  /\ pc' = "update"
  /\ rects' = Head(s2p).nrects - 1
  /\ s2p' = Tail(s2p)
  /\ UNCHANGED <<status, batch, allow, colour_map, viewonly, c2p, p2c, p2s, client,
                 server>>

\* v2r_vnc_process_framebuffer_update up to its loop.
UpdateHeader ==
  /\ VncReads("update")
  /\ pc' = "update"
  /\ rects' = Head(s2p).nrects
  /\ s2p' = Tail(s2p)
  /\ UNCHANGED <<status, batch, allow, colour_map, viewonly, c2p, p2c, p2s, client,
                 server>>

\* What a rectangle becomes.
Drawn(r) == IF r.type = "raw" THEN Bitmap(r.tile, r.content)
                              ELSE Scrblt(r.tile, r.src)

\* Mutant: a rectangle overtakes what is on its way to the client.
UpdateRectangleAhead ==
  /\ Handling("vnc") /\ pc = "update" /\ rects > 0 /\ s2p # <<>>
  /\ \/ /\ p2c' = Put(clientOpen, <<Drawn(Head(s2p))>>, p2c)
        /\ s2p' = Tail(s2p)
        /\ rects' = rects - 1
        /\ UNCHANGED <<status, pc, batch, allow, colour_map, viewonly, c2p, p2s,
                       client, server>>
     \/ SendFails(clientOpen)

\* One iteration of the loop.  It blocks, and the client with it, while the
\* rest of the update has not arrived.
UpdateRectangle ==
  /\ Handling("vnc") /\ pc = "update" /\ rects > 0 /\ s2p # <<>>
  /\ \/ /\ p2c' = Put(clientOpen, p2c, <<Drawn(Head(s2p))>>)
        /\ s2p' = Tail(s2p)
        /\ rects' = rects - 1
        /\ UNCHANGED <<status, pc, batch, allow, colour_map, viewonly, c2p, p2s,
                       client, server>>
     \/ SendFails(clientOpen)

\* Mutant: no update is asked for after the loop.
UpdateDoneSilent ==
  /\ Handling("vnc") /\ pc = "update" /\ rects = 0
  /\ pc' = "transmit"
  /\ NextEvent
  /\ UNCHANGED <<rects, allow, colour_map, viewonly, c2p, p2c, s2p, p2s, client,
                 server>>

\* After the loop the next, incremental update is asked for.
UpdateDone ==
  /\ Handling("vnc") /\ pc = "update" /\ rects = 0
  /\ LET req == v2r_vnc_send_fb_update_req(TRUE, allow)
     IN \/ /\ p2s' = Put(serverOpen, p2s, req)
           /\ pc' = "transmit"
           /\ NextEvent
           /\ UNCHANGED <<rects, allow, colour_map, viewonly, c2p, p2c, s2p, client,
                          server>>
        \/ req # <<>> /\ SendFails(serverOpen)

\* Mutant: the entries of a message take the place of the whole map.
NewColourMapOnly(f) == Overlay(f, [e \in Entries |-> NoColour])

\* Mutant: only the entries of the message are kept.
NewColourMapShort(f) == f

\* The entries of the message overlay the map, and the client is sent all of it.
NewColourMap(f) == Overlay(f, colour_map)

v2r_vnc_process_set_colour_map_entries ==
  /\ VncReads("colours") /\ DOMAIN Head(s2p).entries # {}
  /\ LET map == NewColourMap(Head(s2p).entries)
     IN Answer(<<Palette(map)>>, map)

v2r_vnc_process_bell ==
  VncReads("bell") /\ Answer(<<Sound>>, colour_map)

\* The text is read and dropped.  One that is longer than the packet (vnc.c:582) is left
\* to Framing.
v2r_vnc_process_server_cut_text ==
  VncReads("cut_text") /\ Head(s2p).length > 0 /\ Answer(<<>>, colour_map)

\* An unknown message, a colour map or a clipboard text without content (recv()
\* of zero bytes returns zero, which v2r_vnc_recv1 takes for the end of the
\* stream), or the end of the stream, in the middle of an update as well.
VncFails ==
  /\ \/ VncReads("unknown")
     \/ VncReads("colours") /\ DOMAIN Head(s2p).entries = {}
     \/ VncReads("cut_text") /\ Head(s2p).length = 0
     \/ /\ Handling("vnc") /\ s2p = <<>> /\ ~serverOpen
        /\ pc = "update" => rects > 0
  /\ Leave("ended")

v2r_vnc_process ==
  \/ UpdateHeader
  \/ UpdateRectangle
  \/ UpdateDone
  \/ v2r_vnc_process_set_colour_map_entries
  \/ v2r_vnc_process_bell
  \/ v2r_vnc_process_server_cut_text
  \/ VncFails

(***************************************************************************)
(* The RDP client: a viewer that minimises and restores its window, types, *)
(* and leaves.  While minimised it throws away what it is told to draw.    *)
(***************************************************************************)
ClientSends(m) ==
  /\ status = "running" /\ clientOpen /\ pdus < MaxPdus
  /\ c2p' = Append(c2p, m)
  /\ pdus' = pdus + 1
  /\ UNCHANGED <<proxy, p2c, s2p, p2s, server, clientOpen, shown, palette>>

ClientMinimise ==
  /\ "minimise" \in Environment
  /\ ~minimised /\ minimised' = TRUE
  /\ ClientSends(Suppress(SUPPRESS_DISPLAY_UPDATES)) /\ UNCHANGED typed

ClientRestore ==
  /\ minimised /\ minimised' = FALSE
  /\ ClientSends(Suppress(ALLOW_DISPLAY_UPDATES)) /\ UNCHANGED typed

ClientTypes(n) ==
  /\ "type" \in Environment
  /\ ClientSends(Input(typed + 1, typed + n))
  /\ typed' = typed + n /\ UNCHANGED minimised

ClientSendsOther ==
  /\ "leave" \in Environment
  /\ \E m \in {Other, Shutdown, Invalid} : ClientSends(m)
  /\ UNCHANGED <<typed, minimised>>

\* Bytes the proxy has not read may be lost with the connection.
ClientCloses ==
  /\ "clientCloses" \in Environment
  /\ status = "running" /\ clientOpen
  /\ clientOpen' = FALSE
  /\ \E n \in 0..Len(c2p) : c2p' = SubSeq(c2p, 1, n)
  /\ p2c' = <<>>
  /\ UNCHANGED <<proxy, s2p, p2s, server, minimised, shown, palette, typed, pdus>>

ClientReads ==
  /\ status = "running" /\ clientOpen /\ p2c # <<>>
  /\ p2c' = Tail(p2c)
  /\ LET m == Head(p2c)
     IN /\ shown' = IF minimised \/ m.type \notin {"bitmap", "scrblt"} THEN shown
                    ELSE [shown EXCEPT ![m.tile] = IF m.type = "bitmap" THEN m.content
                                                   ELSE shown[m.src]]
        /\ palette' = IF m.type = "palette" THEN m.map ELSE palette
  /\ UNCHANGED <<proxy, c2p, s2p, p2s, server, clientOpen, minimised, typed, pdus>>

Client ==
  \/ ClientMinimise
  \/ ClientRestore
  \/ \E n \in {1, 2} : ClientTypes(n)
  \/ ClientSendsOther
  \/ ClientCloses
  \/ ClientReads

(***************************************************************************)
(* The VNC server: it keeps at most one update request pending, a full one *)
(* taking the place of an incremental one, and answers it as soon as there *)
(* is something to send.                                                   *)
(***************************************************************************)
\* Flooding, the server paints for ever, at the pace at which the client draws.
ServerPaints(t, c) ==
  /\ "paint" \in Environment
  /\ status = "running" /\ serverOpen /\ screen[t] # c
  /\ \/ "flood" \in Environment /\ p2c = <<>> /\ paints' = paints
     \/ paints < MaxPaints /\ paints' = paints + 1
  /\ screen' = [screen EXCEPT ![t] = c]
  /\ UNCHANGED <<proxy, c2p, p2c, s2p, p2s, client, serverOpen, sent, pend, colours,
                 received, notices>>

ServerReads ==
  /\ status = "running" /\ serverOpen /\ p2s # <<>>
  /\ p2s' = Tail(p2s)
  /\ LET m == Head(p2s)
     IN /\ pend' = IF m.type # "request" THEN pend
                   ELSE IF m.incremental /\ pend # "full" THEN "incremental" ELSE "full"
        /\ received' = IF m.type = "event" THEN m.id ELSE received
  /\ UNCHANGED <<proxy, c2p, p2c, s2p, client, serverOpen, screen, sent, colours,
                 notices, paints>>

\* A tile that now shows what the viewer has elsewhere may be sent as a copy,
\* before the others so that the copy is of what the viewer has.
Copies(changed) ==
  {<<>>} \cup
  {<<CopyRect(p[1], p[2])>> :
     p \in {q \in changed \X Tiles : /\ "copy" \in Environment
                                     /\ pend = "incremental"
                                     /\ sent[q[2]] = screen[q[1]]}}

ServerUpdates ==
  /\ status = "running" /\ serverOpen /\ pend # "none"
  /\ LET changed == IF pend = "full" THEN Tiles ELSE {t \in Tiles : sent[t] # screen[t]}
     IN /\ changed # {}
        /\ \E copies \in Copies(changed) :
             LET copied == {copies[i].tile : i \in DOMAIN copies}
             IN \E order \in SetToSeqs(changed \ copied) :
                  s2p' = s2p \o <<Header(Cardinality(changed))>> \o copies
                             \o [i \in DOMAIN order |-> Raw(order[i], screen[order[i]])]
  /\ sent' = screen
  /\ pend' = "none"
  /\ UNCHANGED <<proxy, c2p, p2c, p2s, client, serverOpen, screen, colours, received,
                 notices, paints>>

ServerNotifies(m) ==
  /\ "notify" \in Environment
  /\ status = "running" /\ serverOpen /\ notices < MaxNotices
  /\ s2p' = Append(s2p, m)
  /\ notices' = notices + 1
  /\ UNCHANGED <<proxy, c2p, p2c, p2s, client, serverOpen, screen, sent, pend,
                 received, paints>>

ServerSetsColours ==
  \E S \in SUBSET Entries : \E f \in [S -> Colours] :
     ServerNotifies(SetColours(f)) /\ colours' = Overlay(f, colours)

ServerSendsOther ==
  /\ \E m \in {Bell, CutText(0), CutText(1), Unknown} : ServerNotifies(m)
  /\ UNCHANGED colours

ServerCloses ==
  /\ "serverCloses" \in Environment
  /\ status = "running" /\ serverOpen
  /\ serverOpen' = FALSE
  /\ \E n \in 0..Len(s2p) : s2p' = SubSeq(s2p, 1, n)
  /\ p2s' = <<>>
  /\ UNCHANGED <<proxy, c2p, p2c, client, screen, sent, pend, colours, received,
                 notices, paints>>

Server ==
  \/ \E t \in Tiles, c \in Contents : ServerPaints(t, c)
  \/ ServerReads
  \/ ServerUpdates
  \/ ServerSetsColours
  \/ ServerSendsOther
  \/ ServerCloses

\* The process waits in epoll_wait, or in recv for the rest of an update.
Waiting == batch = <<>> \/ (pc = "update" /\ rects > 0 /\ s2p = <<>>)

\* SIGINT, whose handler is installed without SA_RESTART, makes a call that waits
\* fail; the session ends.
Interrupted ==
  "interrupt" \in Environment /\ status = "running" /\ Waiting /\ Leave("ended")

v2r_session_transmit ==
  \/ \E fd \in {"rdp", "vnc"} : EpollWait(fd)
  \/ Interrupted
  \/ v2r_rdp_process
  \/ v2r_vnc_process

Next == v2r_session_transmit \/ Client \/ Server

Spec == Init /\ [][Next]_vars

(***************************************************************************)
(* Fairness.  The proxy's process keeps running; a readable descriptor is  *)
(* reported in the end, since epoll is level-triggered and its event array *)
(* has room for both; the peers read their streams, and the server answers *)
(* requests.  Nothing obliges anybody to paint, type, resize or leave.     *)
(***************************************************************************)
Fairness ==
  /\ SF_vars(EpollWait("rdp")) /\ SF_vars(EpollWait("vnc"))
  /\ WF_vars(v2r_rdp_process) /\ WF_vars(v2r_vnc_process)
  /\ WF_vars(ClientReads) /\ WF_vars(ServerReads) /\ WF_vars(ServerUpdates)

FairSpec == Spec /\ Fairness

(***************************************************************************)
(* Properties.                                                             *)
(***************************************************************************)
\* Every variable has its type.
TypeOK ==
  /\ status \in {"running", "ended", "killed"}
  /\ pc \in {"transmit", "update"}
  /\ batch \in Batches \cup {<<>>}
  /\ rects \in Nat
  /\ allow \in {SUPPRESS_DISPLAY_UPDATES, ALLOW_DISPLAY_UPDATES}
  /\ colour_map \in ColourMap /\ viewonly \in BOOLEAN
  /\ c2p \in Seq(ClientMessages) /\ p2c \in Seq(OutputMessages)
  /\ s2p \in Seq(ServerMessages) /\ p2s \in Seq(RequestMessages)
  /\ clientOpen \in BOOLEAN /\ serverOpen \in BOOLEAN
  /\ minimised \in BOOLEAN /\ shown \in Pictures /\ palette \in ColourMap
  /\ screen \in Screens /\ sent \in Pictures
  /\ pend \in {"none", "incremental", "full"} /\ colours \in ColourMap
  /\ typed \in Nat /\ received \in Nat /\ pdus \in Nat /\ notices \in Nat /\ paints \in Nat

HasType(stream, type) == \E i \in DOMAIN stream : stream[i].type = type

\* The proxy and the server agree on where messages begin: the rectangles in the
\* stream are those the proxy still expects for the current update and those
\* announced by a header further on, so no message of the server is taken for a
\* rectangle and no rectangle for a message.  While the server is there, every
\* rectangle expected or announced is in the stream: the loop of vnc.c never
\* waits for one that nobody will send.
Expected == IF pc = "update" THEN rects ELSE 0
Announced(i) ==
  \E j \in DOMAIN s2p : /\ s2p[j].type = "update"
                        /\ j < i /\ i <= j + s2p[j].nrects
InStep ==
  status = "running" =>
    /\ \A i \in DOMAIN s2p :
         s2p[i] \in Rectangles <=> i <= Expected \/ Announced(i)
    /\ serverOpen =>
         /\ Expected <= Len(s2p)
         /\ \A j \in DOMAIN s2p :
              s2p[j].type = "update" => j + s2p[j].nrects <= Len(s2p)

\* While the client lets the proxy draw, the chain of update requests is never
\* broken: a request, its answer or the handler that repeats it is always
\* somewhere.  vnc.c asks for the next update only at the end of one, so a link
\* dropped anywhere (a suppressed request, a message skipped by the batch loop)
\* would freeze the screen for good.
RequestAlive ==
  status = "running" /\ serverOpen /\ allow = ALLOW_DISPLAY_UPDATES =>
    \/ HasType(p2s, "request")
    \/ pend # "none"
    \/ HasType(s2p, "update")
    \/ pc = "update"

FullRequested ==
  \/ pend = "full"
  \/ \E i \in DOMAIN p2s : p2s[i] = Request(FALSE)

\* When nothing is on its way to a client whose window is open, and no full
\* update is due, the client shows exactly what the server believes it sent, and
\* has its colour map: what was thrown away behind a minimised window is repaired
\* by the full request of rdp.c, no rectangle is drawn out of order, and a partial
\* change of the palette does not disturb the other entries.
QuiescentSync ==
  /\ status = "running" /\ clientOpen /\ serverOpen
  /\ s2p = <<>> /\ p2c = <<>> /\ pc = "transmit"
  => /\ palette = colours
     /\ ~minimised /\ ~HasType(c2p, "suppress_output") /\ ~FullRequested
        => shown = sent

Ids(stream) == {stream[i].id : i \in {j \in DOMAIN stream : stream[j].type = "event"}}
InputsOf(stream) ==
  UNION {stream[i].from..stream[i].to :
           i \in {j \in DOMAIN stream : stream[j].type = "input"}}

\* Input reaches the server exactly once and in the order typed, whatever other
\* PDUs and updates it is interleaved with: what was typed and not received is in
\* the two streams, each event once.  A view-only session forwards none of it.
InputOrder ==
  status = "running" /\ clientOpen /\ serverOpen =>
    IF viewonly THEN received = 0 /\ Ids(p2s) = {}
    ELSE /\ Ids(p2s) \cup InputsOf(c2p) = received + 1 .. typed
         /\ \A i, j \in DOMAIN p2s :
              i < j /\ p2s[i].type = "event" /\ p2s[j].type = "event"
                => p2s[i].id < p2s[j].id
         /\ \A i \in Ids(p2s), j \in InputsOf(c2p) : i < j

Count(stream, type) == Cardinality({i \in DOMAIN stream : stream[i].type = type})

\* The update requests, and the updates that answer one.
Circulating ==
  Count(p2s, "request") + Count(s2p, "update") + (IF pend = "none" THEN 0 ELSE 1)

\* While output is suppressed the requests in circulation only drain: no step of
\* the proxy or of the server adds one, even for an update that was being received
\* when the client minimised its window.
SuppressDrains ==
  [][allow = SUPPRESS_DISPLAY_UPDATES /\ allow' = allow /\ status' = "running"
       => Circulating' <= Circulating]_vars

\* The session ends only because a peer closed its connection, or at a message
\* that ends it, when it is that message's turn, or because SIGINT interrupts a wait:
\* no other PDU, no event of the same batch and no send to a live peer brings it down.
EndsForAReason ==
  [][status' # status =>
       \/ Waiting
       \/ ~clientOpen
       \/ ~serverOpen
       \/ /\ Head(batch) = "rdp"
          /\ Head(c2p).type \in {"shutdown_request", "invalid"}
       \/ /\ Head(batch) = "vnc" /\ pc = "transmit"
          /\ Head(s2p) \in {Unknown, CutText(0), SetColours(<<>>)}]_vars

\* If a tile stops changing while the client watches it, the client comes to show
\* it, whatever was suppressed, lost or repeated before.
ScreenConverges ==
  \A t \in Tiles, c \in Contents :
    <>[](screen[t] = c /\ ~minimised /\ clientOpen /\ serverOpen)
      => <>[](shown[t] = c \/ status # "running")

\* A client that asks to shut down, or goes away, is not kept waiting by the
\* updates that keep arriving from the server: the session ends.
LeavingHonoured ==
  HasType(c2p, "shutdown_request") \/ ~clientOpen ~> status # "running"
=============================================================================
