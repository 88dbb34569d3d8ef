----------------------------- MODULE RawBitmap -----------------------------
(***************************************************************************)
(* v2r_vnc_process_raw_encoding (vnc.c): a raw rectangle of the VNC server *)
(* becomes a series of RDP bitmap updates.  The rows arrive top down and   *)
(* are padded to a multiple of four bytes, turned upside down in a buffer  *)
(* that grows with the largest rectangle, and sent in slices of whole rows *)
(* of at most MaxBytes bytes, the lowest slice first.                      *)
(*                                                                         *)
(* A pixel is known by the rectangle it came with and its place in it, a   *)
(* row of a buffer by its rectangle and its place: all that can go wrong   *)
(* is that a row ends up somewhere else.                                   *)
(***************************************************************************)
EXTENDS Naturals

CONSTANTS Width, Height,     \* of the framebuffer
          BitsPerPixel,      \* pixel sizes the server may use, in bits
          MaxBytes,          \* max_byte_per_packet
          PacketInit,        \* length of the packet v2r_vnc_init allocates
          MaxRects           \* bound: rectangles received

ASSUME SizeAssumption == Width \in Nat \ {0} /\ Height \in Nat \ {0}
ASSUME BitsAssumption == BitsPerPixel \subseteq {8, 16, 32}
ASSUME PacketAssumption == MaxBytes \in Nat \ {0} /\ PacketInit \in Nat
ASSUME RectsAssumption == MaxRects \in Nat

VARIABLES
  bits_per_pixel,  \* v2r_vnc_t.bits_per_pixel, fixed by the ServerInit message
  phase,           \* "idle", "receive", "send" or "failed"
  rect,            \* the rectangle being handled
  i,               \* rows of it sent so far
  packet_len,      \* v2r_vnc_t.packet->max_len
  buffer_size,     \* v2r_vnc_t.buffer_size
  buffer,          \* the rows in v2r_vnc_t.buffer
  count,           \* rectangles received, which name their pixels
  frame,           \* the pixels the server has sent
  viewer,          \* the pixels the client shows
  before,          \* the pixels it showed before the rectangle
  pdu              \* the last bitmap update sent

vars == <<bits_per_pixel, phase, rect, i, packet_len, buffer_size, buffer, count,
          frame, viewer, before, pdu>>

Cells == (0..Width - 1) \X (0..Height - 1)
Rects == {r \in [x : 0..Width - 1, y : 0..Height - 1, w : 1..Width, h : 1..Height] :
            r.x + r.w <= Width /\ r.y + r.h <= Height}
InRect(c, r) == /\ r.x <= c[1] /\ c[1] < r.x + r.w
                /\ r.y <= c[2] /\ c[2] < r.y + r.h

Pixel(n, dx, dy) == <<n, dx, dy>>
Blank == Pixel(0, 0, 0)
None == [height |-> 0]

(***************************************************************************)
(* Sizes in bytes.                                                         *)
(***************************************************************************)
data_size(r) == (r.w * r.h * bits_per_pixel) \div 8
line_size(r) == (r.w * bits_per_pixel) \div 8

\* Mutant: rows are not padded.
RdpLineSizeUnpadded(r) == line_size(r)
rdp_line_size(r) ==
  IF line_size(r) % 4 = 0 THEN line_size(r) ELSE (line_size(r) \div 4 + 1) * 4

rdp_data_size(r) == rdp_line_size(r) * r.h

\* Mutant: the size of the bitmap is taken for that of a row.
MaxLineOfBitmap(r) == MaxBytes \div rdp_data_size(r)
max_line_per_packet(r) == MaxBytes \div rdp_line_size(r)

\* Mutant: the last slice is not cut to the rows that are left.
LinePerPacketUncut(r, n) == max_line_per_packet(r)
\* Rows of the slice that starts at row n.
line_per_packet(r, n) ==
  IF n + max_line_per_packet(r) > r.h THEN r.h - n ELSE max_line_per_packet(r)

Init ==
  /\ bits_per_pixel \in BitsPerPixel
  /\ phase = "idle" /\ rect = [x |-> 0, y |-> 0, w |-> 1, h |-> 1] /\ i = 0
  /\ packet_len = PacketInit /\ buffer_size = 0
  /\ buffer = [k \in 0..Height - 1 |-> <<0, 0>>]
  /\ count = 0
  /\ frame = [c \in Cells |-> Blank]
  /\ viewer = frame /\ before = frame
  /\ pdu = None

\* Mutant: the packet is made anew for every rectangle, as large as that needs.
BeginExact(r) ==
  /\ phase = "idle" /\ count < MaxRects
  /\ rect' = r /\ i' = 0 /\ before' = viewer /\ pdu' = None
  /\ packet_len' = data_size(r)
  /\ buffer_size' = IF rdp_data_size(r) > buffer_size THEN rdp_data_size(r)
                                                     ELSE buffer_size
  /\ phase' = "receive"
  /\ UNCHANGED <<bits_per_pixel, buffer, count, frame, viewer>>

\* Mutant: the swap buffer is sized for rows without padding.
BeginSmallBuffer(r) ==
  /\ phase = "idle" /\ count < MaxRects
  /\ rect' = r /\ i' = 0 /\ before' = viewer /\ pdu' = None
  /\ packet_len' = IF data_size(r) > packet_len THEN data_size(r) ELSE packet_len
  /\ buffer_size' = IF data_size(r) > buffer_size THEN data_size(r) ELSE buffer_size
  /\ phase' = "receive"
  /\ UNCHANGED <<bits_per_pixel, buffer, count, frame, viewer>>

\* A rectangle header was read: the packet and the buffer grow to fit.  A failed
\* allocation ends the session.
Begin(r) ==
  /\ phase = "idle" /\ count < MaxRects
  /\ rect' = r /\ i' = 0 /\ before' = viewer /\ pdu' = None
  /\ packet_len' = IF data_size(r) > packet_len THEN data_size(r) ELSE packet_len
  /\ buffer_size' = IF rdp_data_size(r) > buffer_size THEN rdp_data_size(r)
                                                     ELSE buffer_size
  /\ \/ phase' = "receive"
     \/ /\ data_size(r) > packet_len \/ rdp_data_size(r) > buffer_size
        /\ phase' = "failed"
  /\ UNCHANGED <<bits_per_pixel, buffer, count, frame, viewer>>

\* Mutant: the rows stay in the order of the server.
FlippedNot(r, n) == [k \in 0..Height - 1 |-> IF k < r.h THEN <<n, k>> ELSE buffer[k]]
\* Row k of the buffer is row h - k - 1 of the rectangle; rows of an earlier, higher
\* rectangle stay behind it.
Flipped(r, n) ==
  [k \in 0..Height - 1 |-> IF k < r.h THEN <<n, r.h - k - 1>> ELSE buffer[k]]

\* The pixels are received and turned upside down.
Receive ==
  /\ phase = "receive"
  /\ count' = count + 1
  /\ frame' = [c \in Cells |-> IF InRect(c, rect)
                               THEN Pixel(count + 1, c[1] - rect.x, c[2] - rect.y)
                               ELSE frame[c]]
  /\ buffer' = Flipped(rect, count + 1)
  /\ phase' = "send"
  /\ UNCHANGED <<bits_per_pixel, rect, i, packet_len, buffer_size, viewer, before, pdu>>

\* Mutant: a slice starts one row too low.
SliceOneLow(r, n) ==
  LET lines == line_per_packet(r, n)
  IN [left |-> r.x, top |-> r.y + r.h - n - lines + 1,
      right |-> r.x + r.w - 1, bottom |-> r.y + r.h - n,
      width |-> r.w, height |-> lines,
      bytes |-> rdp_line_size(r) * lines, first |-> n]
\* The update for the rows from row n of the buffer.
Slice(r, n) ==
  LET lines == line_per_packet(r, n)
  IN [left |-> r.x, top |-> r.y + r.h - n - lines,
      right |-> r.x + r.w - 1, bottom |-> r.y + r.h - n - 1,
      width |-> r.w, height |-> lines,
      bytes |-> rdp_line_size(r) * lines, first |-> n]

\* What the client makes of an update: RDP bitmaps are stored bottom up.
Drawn(p) ==
  [c \in Cells |->
     IF p.left <= c[1] /\ c[1] <= p.right /\ p.top <= c[2] /\ c[2] <= p.bottom
     THEN LET row == buffer[p.first + p.bottom - c[2]]
          IN Pixel(row[1], c[1] - p.left, row[2])
     ELSE viewer[c]]

\* One iteration of the loop.
SendSlice ==
  /\ phase = "send" /\ i < rect.h
  /\ pdu' = Slice(rect, i)
  /\ viewer' = Drawn(Slice(rect, i))
  /\ i' = i + line_per_packet(rect, i)
  /\ UNCHANGED <<bits_per_pixel, phase, rect, packet_len, buffer_size, buffer, count,
                 frame, before>>

\* The server has gone before all pixels were received, or the client before all
\* were sent.
Fails ==
  /\ phase = "receive" \/ (phase = "send" /\ i < rect.h)
  /\ phase' = "failed"
  /\ UNCHANGED <<bits_per_pixel, rect, i, packet_len, buffer_size, buffer, count,
                 frame, viewer, before, pdu>>

Finish ==
  /\ phase = "send" /\ i >= rect.h
  /\ phase' = "idle"
  /\ UNCHANGED <<bits_per_pixel, rect, i, packet_len, buffer_size, buffer, count,
                 frame, viewer, before, pdu>>

Next == (\E r \in Rects : Begin(r)) \/ Receive \/ SendSlice \/ Fails \/ Finish

Spec == Init /\ [][Next]_vars

\* The handler runs on and the server sends the pixels it announced; nobody has to go.
Fairness == WF_vars(Receive) /\ WF_vars(SendSlice) /\ WF_vars(Finish)
FairSpec == Spec /\ Fairness

(***************************************************************************)
(* Properties.                                                             *)
(***************************************************************************)
Pixels == (0..MaxRects) \X (0..Width - 1) \X (0..Height - 1)

\* Every variable has its type; no more rows are sent than the rectangle has.
TypeOK ==
  /\ bits_per_pixel \in BitsPerPixel
  /\ phase \in {"idle", "receive", "send", "failed"}
  /\ rect \in Rects
  /\ i \in 0..rect.h
  /\ packet_len \in Nat /\ buffer_size \in Nat
  /\ buffer \in [0..Height - 1 -> (0..MaxRects) \X (0..Height - 1)]
  /\ count \in 0..MaxRects
  /\ frame \in [Cells -> Pixels]
  /\ viewer \in [Cells -> Pixels] /\ before \in [Cells -> Pixels]

\* While the rows are sent, the client shows the new pixels in the rows sent so far,
\* which are the lowest ones, and what it showed before everywhere else: the slices
\* tile the rectangle from below, each row in its place, and touch nothing outside
\* (the loop at vnc.c:411 and the turning at vnc.c:391).
RowsInPlace ==
  phase = "send" =>
    \A c \in Cells :
      viewer[c] = IF InRect(c, rect) /\ c[2] >= rect.y + rect.h - i
                  THEN frame[c] ELSE before[c]

\* Between rectangles the client shows exactly what the server has sent.
Faithful == phase \in {"idle", "receive"} => viewer = frame

\* Every update describes itself correctly, is no longer than the limit, has rows of
\* whole words, and reads its bytes from inside the buffer.
PduWellFormed ==
  pdu # None =>
    /\ pdu.height >= 1 /\ pdu.bytes <= MaxBytes
    /\ pdu.bottom + 1 = pdu.top + pdu.height
    /\ pdu.right + 1 = pdu.left + pdu.width
    /\ pdu.bytes % (4 * pdu.height) = 0
    /\ pdu.bytes \div pdu.height >= line_size(rect)
    /\ (pdu.first + pdu.height) * rdp_line_size(rect) <= buffer_size

\* The packet and the buffer have room for the rectangle being received, and for all of
\* its rows while they are sent; and neither ever shrinks, so that what fitted into the
\* packet once, a rectangle or another message, fits again (vnc.c:369 and vnc.c:377).
\* How much of the other messages fits is in Framing.
HasRoom ==
  phase \in {"receive", "send"} =>
    data_size(rect) <= packet_len /\ rdp_data_size(rect) <= buffer_size
RoomForRect ==
  [][HasRoom' /\ packet_len <= packet_len' /\ buffer_size <= buffer_size']_vars

\* Every rectangle of the screen is finished, unless the session ends: "Add support
\* for VNC Raw/CopyRect encoding" (ChangeLog.md:10) names no limit of its width.
Finished == phase = "send" ~> phase \in {"idle", "failed"}
=============================================================================
