------------------------------- MODULE Framing -------------------------------
(***************************************************************************)
(* How the proxy finds the messages in a stream of bytes: the reads of a   *)
(* running session on one of its connections, the lengths it takes from    *)
(* what it has read, and the reads that return less than was asked for,    *)
(* which v2r_vnc_recv1 (vnc.c) and v2r_tpkt_recv (tpkt.c) do not notice.   *)
(* What a short read leaves in the packet is of an earlier message: fields *)
(* taken from there have any value.  The other modules take messages as a  *)
(* whole; this one says how far that is justified.                         *)
(*                                                                         *)
(* All reads go into one packet.  It is made larger for raw pixels only:   *)
(* a text, the entries of a colour map or a PDU that is longer than the    *)
(* packet is written beyond it ("overrun"), and so are entries beyond the  *)
(* end of the colour map.  What the process does then is not defined, and  *)
(* nothing is said of it here.                                             *)
(***************************************************************************)
EXTENDS Naturals, Sequences, SequencesExt

CONSTANTS Lengths,       \* units of what is preceded by its length
          MaxRects,      \* bound: rectangles of an update
          MaxMessages,   \* bound: messages of the peer
          Rooms,         \* units a packet may have room for when it is made
          Wrapped        \* a length below that of the TPKT header, less that header

ASSUME BoundsAssumption ==
  Lengths \subseteq Nat /\ MaxRects \in Nat \ {0} /\ MaxMessages \in Nat

\* The parts of a fixed size fit every packet; a size_t below 0 is larger than any.
ASSUME RoomsAssumption ==
  Rooms \subseteq Nat \ {0, 1} /\ Wrapped \in Nat /\ \A r \in Rooms : r < Wrapped

VARIABLES
  side,        \* whose connection it is
  sent,        \* messages the peer has begun to send
  coming,      \* what is under way
  stream,      \* what has arrived and is not read
  closed,      \* the peer has closed its side: nothing more comes
  pc,          \* "reading", "over", the end of the session, or "overrun"
  room,        \* v2r_packet_t.max_len, of the packet that is read into
  step, want,  \* the part of a message to be read, and its length as the proxy has it
  rects,       \* rectangles left, with the one being read
  signalled,   \* a signal has made a read return early
  misread,     \* of the present message something was taken for what it is not
  acted        \* messages misread and yet handled to their end (up to 2)

peer == <<side, sent, coming, closed>>
proxy == <<pc, room, step, want, rects, signalled, misread, acted>>
vars == <<peer, stream, proxy>>

(***************************************************************************)
(* The messages of the peers.  A part of n units says what its reader      *)
(* needs to go on: a kind, and a number of rectangles or units.            *)
(***************************************************************************)
Part(part, size, kind, number) ==
  [part |-> part, size |-> size, kind |-> kind, number |-> number]

Kinds == {"bell", "text", "colours", "update"}
Encodings == {"raw", "copy"}
\* Where the entries of a colour map go: into the 256 there are, or past them.
Places == {"", "past"}

FixedSize == [type |-> 1, length |-> 2, first |-> 2, nrects |-> 2, rect |-> 2,
              source |-> 2, tpkt |-> 2]

Fixed(part, kind, number) == Part(part, FixedSize[part], kind, number)

Rectangles ==
  {<<Fixed("rect", "copy", 0), Fixed("source", "", 0)>>}
  \cup {<<Fixed("rect", "raw", n), Part("pixels", n, "", 0)>> : n \in Lengths \ {0}}

ColourMaps(where) ==
  {<<Fixed("type", "colours", 0), Fixed("first", "", n), Part("entries", n, where, 0)>> :
     n \in Lengths}

ServerMessages ==
  {<<Fixed("type", "bell", 0)>>}
  \cup {<<Fixed("type", "text", 0), Fixed("length", "", n), Part("text", n, "", 0)>> :
          n \in Lengths}
  \cup ColourMaps("") \cup ColourMaps("past")
  \cup {<<Fixed("type", "update", 0), Fixed("nrects", "", Len(r))>> \o FlattenSeq(r) :
          r \in SeqOf(Rectangles, MaxRects)}

ClientMessages ==
  {<<Fixed("tpkt", "", n), Part("pdu", n, "", 0)>> : n \in Lengths \ {0}}

Messages == IF side = "server" THEN ServerMessages ELSE ClientMessages

\* The units of a message; each knows its part and place.
UnitsOf(part) == [i \in 1..part.size |-> [at |-> i, of |-> part]]
Units(message) == FlattenSeq([i \in 1..Len(message) |-> UnitsOf(message[i])])

PeerSends ==
  /\ coming = <<>> /\ ~closed /\ sent < MaxMessages /\ sent' = sent + 1
  /\ \E m \in Messages : coming' = Units(m)
  /\ UNCHANGED <<side, closed, stream, proxy>>

Arrive ==
  /\ coming # <<>> /\ coming' = Tail(coming) /\ stream' = Append(stream, Head(coming))
  /\ UNCHANGED <<side, sent, closed, proxy>>

\* The peer may close, or be gone, in the middle of a message.
PeerCloses ==
  /\ ~closed /\ closed' = TRUE /\ coming' = <<>>
  /\ UNCHANGED <<side, sent, stream, proxy>>

(***************************************************************************)
(* The handlers, from one part to the next.                                *)
(***************************************************************************)
FirstStep == IF side = "server" THEN "type" ELSE "tpkt"

Goto(part, size, left) ==
  /\ pc' = "reading" /\ step' = part /\ want' = size /\ rects' = left
  /\ acted' = acted

Read(part, size, left) == Goto(part, size, left) /\ room' = room

ReadFixed(part, left) == Read(part, FixedSize[part], left)

Fail == pc' = "over" /\ UNCHANGED <<room, step, want, rects, acted>>

Beyond == pc' = "overrun" /\ UNCHANGED <<room, step, want, rects, acted>>

\* The handler returns to the session's loop, which reads the next message.
Done ==
  /\ pc' = "reading" /\ step' = FirstStep /\ want' = FixedSize[FirstStep] /\ rects' = 0
  /\ room' = room
  /\ acted' = IF misread' /\ acted < 2 THEN acted + 1 ELSE acted

v2r_vnc_process(kind) ==
  \/ kind = "bell" /\ Done
  \/ kind = "text" /\ ReadFixed("length", 0)
  \/ kind = "colours" /\ ReadFixed("first", 0)
  \/ kind = "update" /\ ReadFixed("nrects", 0)
  \/ kind \notin Kinds /\ Fail

\* Mutant: one rectangle too many.
LastRectLate == rects = 0

LastRect == rects = 1

NextRect == IF LastRect THEN Done ELSE ReadFixed("rect", rects - 1)

\* A larger packet is made for raw pixels that need it.
RoomFor(size) == IF size > room THEN size ELSE room

\* An unknown encoding is passed over, without its body.
v2r_vnc_process_framebuffer_update(kind, number) ==
  \/ step = "nrects" /\ IF number = 0 THEN Done ELSE ReadFixed("rect", number)
  \/ step = "rect" /\ kind = "raw" /\ Goto("pixels", number, rects) /\ room' = RoomFor(number)
  \/ step = "rect" /\ kind = "raw" /\ number > room /\ Fail
  \/ step = "rect" /\ kind = "copy" /\ ReadFixed("source", rects)
  \/ step = "rect" /\ kind \notin Encodings /\ NextRect
  \/ step \in {"pixels", "source"} /\ NextRect

v2r_vnc_process_server_cut_text(number) ==
  \/ step = "length" /\ Read("text", number, 0)
  \/ step = "text" /\ Done

\* As many entries as announced are taken from the packet, wherever they belong.
v2r_vnc_process_set_colour_map_entries(kind, number) ==
  \/ step = "first" /\ Read("entries", number, 0)
  \/ step = "entries" /\ IF kind = "past" \/ want > room THEN Beyond ELSE Done

\* The version of a header and the fields of a PDU are checked, so that one misread
\* may fail.
v2r_tpkt_recv(number) ==
  \/ step = "tpkt" /\ Read("pdu", number, 0)
  \/ step = "pdu" /\ Done
  \/ step \in {"tpkt", "pdu"} /\ misread' /\ Fail

Handle(kind, number) ==
  \/ step = "type" /\ v2r_vnc_process(kind)
  \/ v2r_vnc_process_framebuffer_update(kind, number)
  \/ v2r_vnc_process_server_cut_text(number)
  \/ v2r_vnc_process_set_colour_map_entries(kind, number)
  \/ v2r_tpkt_recv(number)

(***************************************************************************)
(* recv() with MSG_WAITALL.                                                *)
(***************************************************************************)
\* Mutant: without MSG_WAITALL.
SomeHasCome == stream # <<>>

AllHasCome == Len(stream) >= want

\* Mutant: only -1 is taken for a failure.
NeverNothing(k) == FALSE

Nothing(k) == k = 0

\* What is read is the part it is read for, from its beginning to its end.
IsPart(units) ==
  /\ Len(units) = want
  /\ \A i \in DOMAIN units : units[i].of.part = step /\ units[i].at = i

\* What the proxy may take from a part that is not what it takes it for.
AnyKind == CASE step = "type" -> Kinds \cup {""}
             [] step = "rect" -> Encodings \cup {""}
             [] step = "entries" -> Places
             [] OTHER -> {""}
AnyNumber == IF step \in {"type", "source", "pixels", "text", "entries", "pdu"} THEN {0}
             ELSE Lengths \cup (IF step = "tpkt" THEN {Wrapped} ELSE {})

\* What the packet holds already: the body of a PDU is read behind its header.
Held == IF step = "pdu" THEN FixedSize["tpkt"] ELSE 0
\* What has come does not fit the packet, and all of it is asked for.
TooMuch == want + Held > room /\ Len(stream) + Held > room

\* recv() returns the next k units, which fit.
Recv(k) ==
  LET units == SubSeq(stream, 1, k)
  IN /\ stream' = SubSeq(stream, k + 1, Len(stream))
     /\ misread' = (~IsPart(units) \/ (misread /\ step # FirstStep))
     /\ IF Nothing(k) THEN Fail
        ELSE IF k > 0 /\ IsPart(units) THEN Handle(Last(units).of.kind, Last(units).of.number)
        ELSE \E kind \in AnyKind, number \in AnyNumber : Handle(kind, number)

Available == IF Len(stream) < want THEN Len(stream) ELSE want

ReadAll ==
  /\ pc = "reading" /\ ~TooMuch /\ want > 0 /\ AllHasCome /\ Recv(Available)
  /\ UNCHANGED <<peer, signalled>>

\* At the end of the stream recv() returns what there is, and 0 when there is nothing
\* or nothing was asked for; if the peer reset the connection, it may return -1.
ReadShort ==
  /\ pc = "reading" /\ ~TooMuch
  /\ \/ (want = 0 \/ (closed /\ Len(stream) < want)) /\ Recv(Available)
     \/ closed /\ Fail /\ UNCHANGED <<stream, misread>>
  /\ UNCHANGED <<peer, signalled>>

\* SIGINT, whose handler is installed without SA_RESTART, while recv() waits: it
\* returns what has come, or fails if nothing has.
Interrupted ==
  /\ pc = "reading" /\ ~TooMuch /\ ~closed /\ Len(stream) < want
  /\ IF stream = <<>> THEN Fail /\ UNCHANGED <<stream, misread>> ELSE Recv(Len(stream))
  /\ signalled' = TRUE
  /\ UNCHANGED peer

\* recv() writes what comes, and more comes than there is room for.
Overrun ==
  /\ pc = "reading" /\ TooMuch /\ Beyond
  /\ UNCHANGED <<peer, stream, signalled, misread>>

Init ==
  /\ side \in {"server", "client"} /\ sent = 0
  /\ coming = <<>> /\ stream = <<>> /\ closed = FALSE
  /\ pc = "reading" /\ room \in Rooms /\ step = FirstStep /\ want = FixedSize[FirstStep] /\ rects = 0
  /\ signalled = FALSE /\ misread = FALSE /\ acted = 0

Next ==
  \/ PeerSends \/ Arrive \/ PeerCloses
  \/ ReadAll \/ ReadShort \/ Interrupted \/ Overrun

Spec == Init /\ [][Next]_vars
FairSpec == Spec /\ WF_vars(ReadAll \/ ReadShort \/ Overrun)

(***************************************************************************)
(* Properties.                                                             *)
(***************************************************************************)
\* Every variable has its type; the loop over the rectangles has one to read.
TypeOK ==
  /\ side \in {"server", "client"} /\ sent \in 0..MaxMessages
  /\ pc \in {"reading", "over", "overrun"} /\ room \in Nat
  /\ step \in DOMAIN FixedSize \cup {"pixels", "text", "entries", "pdu"}
  /\ want \in Nat
  /\ rects \in IF step \in {"rect", "pixels", "source"} THEN Nat \ {0} ELSE {0}
  /\ closed \in BOOLEAN /\ signalled \in BOOLEAN /\ misread \in BOOLEAN
  /\ acted \in 0..2

\* As long as no signal cut a read short and the packet was not overrun, what the proxy
\* reads next, and the length it reads, are what the peer sends next, however the stream
\* arrives in pieces.  (An empty text or colour map, for which it reads nothing, ends the
\* session, vnc.c:57.)  The packet has room for it, unless it is a text, the entries of a
\* colour map or a PDU, whose lengths nobody checks (vnc.c:582, vnc.c:530, tpkt.c:108).
Framed ==
  /\ (pc = "reading" /\ want > 0 /\ ~signalled /\ stream \o coming # <<>>) =>
       LET next == Head(stream \o coming)
       IN next.at = 1 /\ next.of.part = step /\ (closed \/ next.of.size = want)
  /\ step \notin {"text", "entries", "pdu"} => want <= room

\* A read that is short because the stream has ended may make the proxy act on what an
\* earlier message left in the packet, but on one message at most, which is the last:
\* there is nothing behind it that could be taken for something else.
MisreadIsLast ==
  ~signalled => /\ acted <= 1
                /\ misread \/ acted > 0 => closed /\ stream = <<>>

\* However what is left in the stream is cut and read, the end of the stream ends the
\* session, unless the packet is overrun.
EndHonoured == closed ~> pc # "reading"
=============================================================================
