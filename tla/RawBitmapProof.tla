--------------------------- MODULE RawBitmapProof ---------------------------
(***************************************************************************)
(* Proofs about RawBitmap, for a screen and a limit of any size: the       *)
(* types, pixels in their places, rows inside the buffer, and updates that *)
(* are well formed.                                                        *)
(***************************************************************************)
EXTENDS RawBitmap, TLAPS

(***************************************************************************)
(* Sizes.                                                                  *)
(***************************************************************************)
\* A quotient of natural numbers is one.
LEMMA QuotientType ==
  ASSUME NEW a \in Nat, NEW b \in Nat \ {0}
  PROVE  a \div b \in Nat
  OBVIOUS

\* A row of a rectangle has a size, and not zero.
LEMMA LineType ==
  ASSUME NEW r \in Rects, bits_per_pixel \in BitsPerPixel
  PROVE  rdp_line_size(r) \in Nat \ {0}
<1>1. r.w \in Nat \ {0}
  BY SizeAssumption DEF Rects
<1>2. bits_per_pixel \in {8, 16, 32}
  BY BitsAssumption
<1>3. line_size(r) \in Nat \ {0}
  <2>1. CASE bits_per_pixel = 8
    BY <1>1, <2>1 DEF line_size
  <2>2. CASE bits_per_pixel = 16
    BY <1>1, <2>2 DEF line_size
  <2>3. CASE bits_per_pixel = 32
    BY <1>1, <2>3 DEF line_size
  <2> QED
    BY <1>2, <2>1, <2>2, <2>3
<1> HIDE DEF line_size
<1> QED
  BY <1>3 DEF rdp_line_size

\* A slice has no more rows than are left of the rectangle.
LEMMA SliceFits ==
  ASSUME NEW r \in Rects, bits_per_pixel \in BitsPerPixel, NEW n \in 0..r.h
  PROVE  /\ line_per_packet(r, n) \in Nat
         /\ n + line_per_packet(r, n) <= r.h
<1>1. r.h \in Nat
  BY SizeAssumption DEF Rects
<1>2. max_line_per_packet(r) \in Nat
  BY LineType, QuotientType, PacketAssumption DEF max_line_per_packet
<1> HIDE DEF max_line_per_packet
<1> QED
  BY <1>1, <1>2 DEF line_per_packet

\* The size of the pixels is a number.
LEMMA DataType ==
  ASSUME NEW r \in Rects, bits_per_pixel \in BitsPerPixel
  PROVE  data_size(r) \in Nat /\ rdp_data_size(r) \in Nat
<1>1. r.w \in Nat /\ r.h \in Nat
  BY SizeAssumption DEF Rects
<1>2. r.w * r.h \in Nat
  BY <1>1
<1>3. data_size(r) \in Nat
  <2> DEFINE area == r.w * r.h
  <2>1. area \in Nat /\ data_size(r) = (area * bits_per_pixel) \div 8
    BY <1>2 DEF data_size
  <2> HIDE DEF area
  <2>2. bits_per_pixel \in {8, 16, 32}
    BY BitsAssumption
  <2>3. (area * bits_per_pixel) \div 8 \in Nat
    <3>1. CASE bits_per_pixel = 8
      BY <2>1, <3>1
    <3>2. CASE bits_per_pixel = 16
      BY <2>1, <3>2
    <3>3. CASE bits_per_pixel = 32
      BY <2>1, <3>3
    <3> QED
      BY <2>2, <3>1, <3>2, <3>3
  <2> QED
    BY <2>1, <2>3
<1>4. rdp_data_size(r) \in Nat
  <2>1. rdp_line_size(r) \in Nat
    BY LineType
  <2> HIDE DEF rdp_line_size
  <2> QED
    BY <1>1, <2>1 DEF rdp_data_size
<1> QED
  BY <1>3, <1>4

\* A cell has a column and a row.
LEMMA CellType ==
  ASSUME NEW c \in Cells
  PROVE  c[1] \in 0..Width - 1 /\ c[2] \in 0..Height - 1
  BY DEF Cells

\* A rectangle lies on the screen.
LEMMA RectType ==
  ASSUME NEW r \in Rects
  PROVE  /\ r.x \in Nat /\ r.y \in Nat /\ r.w \in Nat \ {0} /\ r.h \in Nat \ {0}
         /\ r.x + r.w <= Width /\ r.y + r.h <= Height
  BY SizeAssumption DEF Rects

(***************************************************************************)
(* The inductive invariant.  While the rows are sent, the buffer holds the *)
(* rows of the rectangle upside down and the frame is what the client      *)
(* showed before with the rectangle on it; this is what makes a slice      *)
(* carry the right pixels.                                                 *)
(***************************************************************************)
Received ==
  phase = "send" =>
    /\ \A k \in 0..rect.h - 1 : buffer[k] = <<count, rect.h - k - 1>>
    /\ \A c \in Cells : frame[c] = IF InRect(c, rect)
                                   THEN Pixel(count, c[1] - rect.x, c[2] - rect.y)
                                   ELSE before[c]
Begun == phase = "receive" => before = viewer /\ i = 0 /\ count < MaxRects

Inv == TypeOK /\ RowsInPlace /\ Faithful /\ Received /\ Begun

\* The invariant holds at first.
LEMMA InitInv == Init => Inv
<1> SUFFICES ASSUME Init PROVE Inv
  OBVIOUS
<1>1. TypeOK
  <2>1. /\ bits_per_pixel \in BitsPerPixel
        /\ phase \in {"idle", "receive", "send", "failed"}
        /\ packet_len \in Nat /\ buffer_size \in Nat
        /\ count \in 0..MaxRects
    BY PacketAssumption, RectsAssumption DEF Init
  <2>2. rect \in Rects /\ i \in 0..rect.h
    BY SizeAssumption DEF Init, Rects
  <2>3. buffer \in [0..Height - 1 -> (0..MaxRects) \X (0..Height - 1)]
    BY SizeAssumption, RectsAssumption DEF Init
  <2>4. Blank \in Pixels
    BY SizeAssumption, RectsAssumption DEF Blank, Pixel, Pixels
  <2>5. /\ frame \in [Cells -> Pixels] /\ viewer \in [Cells -> Pixels]
        /\ before \in [Cells -> Pixels]
    BY <2>4 DEF Init
  <2> QED
    BY <2>1, <2>2, <2>3, <2>5 DEF TypeOK
<1> QED
  BY <1>1 DEF Init, Inv, RowsInPlace, Faithful, Received, Begun

\* A new rectangle changes nothing that is shown.
LEMMA BeginInv ==
  ASSUME Inv, NEW r \in Rects, Begin(r)
  PROVE  Inv'
<1>1. data_size(r) \in Nat /\ rdp_data_size(r) \in Nat
  BY DataType DEF Inv, TypeOK
<1>2. packet_len' \in Nat /\ buffer_size' \in Nat
  <2> HIDE DEF data_size, rdp_data_size
  <2> QED
    BY <1>1 DEF Inv, TypeOK, Begin
<1>3. rect' = r /\ i' = 0 /\ i' \in 0..rect'.h
  BY RectType DEF Begin
<1>4. phase = "idle" /\ phase' \in {"receive", "failed"} /\ count < MaxRects
  BY DEF Begin
<1>5. before' = viewer /\ viewer' = viewer /\ frame' = frame /\ buffer' = buffer
      /\ count' = count /\ bits_per_pixel' = bits_per_pixel
  BY DEF Begin
<1>6. TypeOK'
  BY <1>2, <1>3, <1>4, <1>5 DEF Inv, TypeOK
<1>7. RowsInPlace' /\ Received'
  BY <1>4 DEF RowsInPlace, Received
<1>8. Faithful' /\ Begun'
  BY <1>3, <1>4, <1>5 DEF Inv, Faithful, Begun
<1> QED
  BY <1>6, <1>7, <1>8 DEF Inv

\* The pixels are in the buffer, upside down, and nothing is sent yet.
LEMMA ReceiveInv ==
  ASSUME Inv, Receive
  PROVE  Inv'
<1>1. /\ phase = "receive" /\ phase' = "send" /\ count' = count + 1
      /\ rect' = rect /\ i' = 0 /\ viewer' = viewer /\ before' = before
      /\ frame = before /\ viewer = before
      /\ packet_len' = packet_len /\ buffer_size' = buffer_size
      /\ bits_per_pixel' = bits_per_pixel
  BY DEF Receive, Inv, Faithful, Begun
<1>0. /\ count \in 0..MaxRects /\ count < MaxRects /\ rect \in Rects
      /\ buffer \in [0..Height - 1 -> (0..MaxRects) \X (0..Height - 1)]
      /\ frame \in [Cells -> Pixels]
  BY DEF Receive, Inv, TypeOK, Begun
<1>2. /\ count + 1 \in 0..MaxRects /\ rect \in Rects /\ rect.h \in Nat \ {0}
      /\ rect.h <= Height
  <2>1. count + 1 \in 0..MaxRects
    BY <1>0, RectsAssumption
  <2>2. rect.y \in Nat /\ rect.h \in Nat \ {0} /\ rect.y + rect.h <= Height
    BY <1>0, RectType
  <2>3. rect.h <= Height
    BY <2>2, SizeAssumption
  <2> QED
    BY <1>0, <2>1, <2>2, <2>3
<1>3. \A k \in 0..rect.h - 1 :
        k \in 0..Height - 1 /\ buffer'[k] = <<count + 1, rect.h - k - 1>>
  BY <1>2, SizeAssumption DEF Receive, Flipped
<1>4. buffer' \in [0..Height - 1 -> (0..MaxRects) \X (0..Height - 1)]
  <2>1. \A k \in 0..Height - 1 :
          (IF k < rect.h THEN <<count + 1, rect.h - k - 1>> ELSE buffer[k])
            \in (0..MaxRects) \X (0..Height - 1)
    <3> TAKE k \in 0..Height - 1
    <3>1. CASE k < rect.h
      <4>1. rect.h - k - 1 \in 0..Height - 1
        BY <1>2, <3>1, SizeAssumption
      <4> QED
        BY <1>2, <3>1, <4>1
    <3>2. CASE ~(k < rect.h)
      BY <1>0, <3>2
    <3> QED
      BY <3>1, <3>2
  <2> QED
    BY <2>1 DEF Receive, Flipped
<1>5. \A c \in Cells :
        frame'[c] = IF InRect(c, rect)
                    THEN Pixel(count + 1, c[1] - rect.x, c[2] - rect.y)
                    ELSE before[c]
  BY <1>1 DEF Receive
<1>6. frame' \in [Cells -> Pixels]
  <2>1. ASSUME NEW c \in Cells, InRect(c, rect)
        PROVE  Pixel(count + 1, c[1] - rect.x, c[2] - rect.y) \in Pixels
    <3>1. c[1] \in 0..Width - 1 /\ c[2] \in 0..Height - 1
      BY CellType
    <3>2. /\ rect.x \in Nat /\ rect.y \in Nat /\ rect.x + rect.w <= Width
          /\ rect.y + rect.h <= Height
      BY <1>0, RectType
    <3>3. c[1] - rect.x \in 0..Width - 1 /\ c[2] - rect.y \in 0..Height - 1
      BY <2>1, <3>1, <3>2, SizeAssumption DEF InRect
    <3> QED
      BY <1>2, <3>3 DEF Pixel, Pixels
  <2>2. frame' = [c \in Cells |-> IF InRect(c, rect)
                    THEN Pixel(count + 1, c[1] - rect.x, c[2] - rect.y) ELSE frame[c]]
    BY DEF Receive
  <2> QED
    BY <1>0, <2>1, <2>2
<1>7. TypeOK'
  BY <1>1, <1>2, <1>4, <1>6 DEF Inv, TypeOK
<1>8. RowsInPlace'
  <2>1. ASSUME NEW c \in Cells
        PROVE  ~(InRect(c, rect) /\ c[2] >= rect.y + rect.h - 0)
    BY <1>2, CellType, RectType DEF InRect
  <2> QED
    BY <1>1, <2>1 DEF RowsInPlace, InRect
<1>9. Received'
  BY <1>1, <1>3, <1>5 DEF Received, InRect, Pixel
<1> QED
  BY <1>1, <1>7, <1>8, <1>9 DEF Inv, Faithful, Begun

\* A slice puts the rows from row n of the buffer on the rows of the rectangle above
\* those sent before, each in its place.
LEMMA SliceDrawn ==
  ASSUME Inv, phase = "send", i < rect.h, NEW c \in Cells
  PROVE  LET lines == line_per_packet(rect, i)
         IN Drawn(Slice(rect, i))[c] =
              IF InRect(c, rect) /\ c[2] >= rect.y + rect.h - i - lines
                                /\ c[2] < rect.y + rect.h - i
              THEN frame[c] ELSE viewer[c]
<1> DEFINE lines == line_per_packet(rect, i)
           p     == Slice(rect, i)
           drawn == /\ p.left <= c[1] /\ c[1] <= p.right
                    /\ p.top <= c[2] /\ c[2] <= p.bottom
<1>1. rect \in Rects /\ i \in 0..rect.h /\ bits_per_pixel \in BitsPerPixel
  BY DEF Inv, TypeOK
<1>2. /\ rect.x \in Nat /\ rect.y \in Nat /\ rect.w \in Nat \ {0}
      /\ rect.h \in Nat \ {0} /\ i \in Nat
  BY <1>1, RectType
<1>3. lines \in Nat /\ i + lines <= rect.h
  BY <1>1, SliceFits
<1>4. c[1] \in Nat /\ c[2] \in Nat
  BY CellType, SizeAssumption
<1>5. /\ p.left = rect.x /\ p.right = rect.x + rect.w - 1 /\ p.first = i
      /\ p.top = rect.y + rect.h - i - lines /\ p.bottom = rect.y + rect.h - i - 1
  BY DEF Slice
<1>6. Drawn(p)[c] = IF drawn
                    THEN Pixel(buffer[p.first + p.bottom - c[2]][1], c[1] - p.left,
                               buffer[p.first + p.bottom - c[2]][2])
                    ELSE viewer[c]
  BY DEF Drawn
<1> HIDE DEF lines, p
<1>7. drawn <=> /\ InRect(c, rect) /\ c[2] >= rect.y + rect.h - i - lines
                /\ c[2] < rect.y + rect.h - i
  BY <1>2, <1>3, <1>4, <1>5 DEF InRect
<1>8. ASSUME drawn
      PROVE  Pixel(buffer[p.first + p.bottom - c[2]][1], c[1] - p.left,
                   buffer[p.first + p.bottom - c[2]][2]) = frame[c]
  <2> DEFINE k == rect.y + rect.h - 1 - c[2]
  <2>1. InRect(c, rect) /\ k \in 0..rect.h - 1 /\ rect.h - k - 1 = c[2] - rect.y
        /\ p.first + p.bottom - c[2] = k
    BY <1>2, <1>3, <1>4, <1>5, <1>7, <1>8 DEF InRect
  <2> HIDE DEF k
  <2>2. buffer[k] = <<count, c[2] - rect.y>>
    BY <2>1 DEF Inv, Received
  <2>3. frame[c] = Pixel(count, c[1] - rect.x, c[2] - rect.y)
    BY <2>1 DEF Inv, Received
  <2> QED
    BY <1>5, <2>1, <2>2, <2>3
<1> HIDE DEF drawn
<1> QED
  BY <1>6, <1>7, <1>8 DEF lines, p

\* A slice adds its rows to those in place.
LEMMA SendSliceInv ==
  ASSUME Inv, SendSlice
  PROVE  Inv'
<1> DEFINE lines == line_per_packet(rect, i)
<1>1. /\ phase = "send" /\ i < rect.h /\ phase' = phase /\ rect' = rect
      /\ frame' = frame /\ before' = before /\ buffer' = buffer /\ count' = count
      /\ packet_len' = packet_len /\ buffer_size' = buffer_size
      /\ bits_per_pixel' = bits_per_pixel
      /\ i' = i + lines /\ viewer' = Drawn(Slice(rect, i))
  BY DEF SendSlice
<1>2. rect \in Rects /\ i \in 0..rect.h /\ bits_per_pixel \in BitsPerPixel
      /\ viewer \in [Cells -> Pixels] /\ frame \in [Cells -> Pixels]
  BY DEF Inv, TypeOK
<1>3. rect.h \in Nat \ {0} /\ rect.y \in Nat /\ i \in Nat
  BY <1>2, RectType
<1>4. lines \in Nat /\ i + lines <= rect.h
  BY <1>2, SliceFits
<1>5. \A c \in Cells :
        viewer'[c] = IF InRect(c, rect) /\ c[2] >= rect.y + rect.h - i - lines
                                       /\ c[2] < rect.y + rect.h - i
                     THEN frame[c] ELSE viewer[c]
  BY <1>1, SliceDrawn
<1>6. \A c \in Cells : viewer[c] = IF InRect(c, rect) /\ c[2] >= rect.y + rect.h - i
                                   THEN frame[c] ELSE before[c]
  BY <1>1 DEF Inv, RowsInPlace
<1>7. viewer' = [c \in Cells |-> viewer'[c]]
  BY <1>1 DEF Drawn
<1> HIDE DEF lines
<1>8. viewer' \in [Cells -> Pixels]
  <2>1. \A c \in Cells : viewer'[c] \in Pixels
    BY <1>2, <1>5
  <2> QED
    BY <1>7, <2>1
<1>9. i' \in 0..rect.h
  BY <1>1, <1>3, <1>4
<1>10. TypeOK'
  BY <1>1, <1>8, <1>9 DEF Inv, TypeOK
<1>11. RowsInPlace'
  <2> SUFFICES ASSUME NEW c \in Cells
               PROVE  viewer'[c] = IF InRect(c, rect) /\ c[2] >= rect.y + rect.h - i'
                                   THEN frame[c] ELSE before[c]
    BY <1>1 DEF RowsInPlace, InRect
  <2>1. c[2] \in Nat
    BY CellType, SizeAssumption
  <2>2. c[2] >= rect.y + rect.h - i' <=>
          \/ c[2] >= rect.y + rect.h - i
          \/ c[2] >= rect.y + rect.h - i - lines /\ c[2] < rect.y + rect.h - i
    BY <1>1, <1>3, <1>4, <2>1
  <2> QED
    BY <1>5, <1>6, <2>2
<1>12. Received'
  BY <1>1 DEF Inv, Received, InRect, Pixel
<1> QED
  BY <1>1, <1>10, <1>11, <1>12 DEF Inv, Faithful, Begun

\* When all rows are sent, the client shows the frame.
LEMMA FinishInv ==
  ASSUME Inv, Finish
  PROVE  Inv'
<1>1. /\ phase = "send" /\ i >= rect.h /\ phase' = "idle"
      /\ UNCHANGED <<bits_per_pixel, rect, i, packet_len, buffer_size, buffer, count,
                     frame, viewer, before, pdu>>
  BY DEF Finish
<1>2. TypeOK'
  BY <1>1 DEF Inv, TypeOK
<1>3. rect \in Rects /\ i \in 0..rect.h
      /\ viewer \in [Cells -> Pixels] /\ frame \in [Cells -> Pixels]
  BY DEF Inv, TypeOK
<1>4. ASSUME NEW c \in Cells PROVE viewer[c] = frame[c]
  <2>1. c[2] \in Nat
    BY CellType, SizeAssumption
  <2>2. rect.y \in Nat /\ rect.h \in Nat
    BY <1>3, RectType
  <2>3. CASE InRect(c, rect)
    <3>1. c[2] >= rect.y + rect.h - i
      BY <1>1, <1>3, <2>1, <2>2, <2>3 DEF InRect
    <3> QED
      BY <1>1, <2>3, <3>1 DEF Inv, RowsInPlace
  <2>4. CASE ~InRect(c, rect)
    BY <1>1, <2>4 DEF Inv, RowsInPlace, Received
  <2> QED
    BY <2>3, <2>4
<1>5. viewer = frame
  BY <1>3, <1>4
<1> QED
  BY <1>1, <1>2, <1>5 DEF Inv, RowsInPlace, Faithful, Received, Begun

\* A failure ends it all.
LEMMA FailsInv ==
  ASSUME Inv, Fails
  PROVE  Inv'
<1>1. TypeOK'
  BY DEF Inv, TypeOK, Fails
<1> QED
  BY <1>1 DEF Inv, RowsInPlace, Faithful, Received, Begun, Fails

\* Every step preserves the invariant.
LEMMA NextInv ==
  ASSUME Inv, [Next]_vars
  PROVE  Inv'
<1>1. ASSUME NEW r \in Rects, Begin(r) PROVE Inv'
  BY <1>1, BeginInv
<1>2. CASE Receive
  BY <1>2, ReceiveInv
<1>3. CASE SendSlice
  BY <1>3, SendSliceInv
<1>4. CASE Fails
  BY <1>4, FailsInv
<1>5. CASE Finish
  BY <1>5, FinishInv
<1>6. CASE UNCHANGED vars
  <2>1. TypeOK'
    BY <1>6 DEF vars, Inv, TypeOK
  <2> QED
    BY <1>6, <2>1 DEF vars, Inv, RowsInPlace, Faithful, Received, Begun, InRect
<1> QED
  BY <1>1, <1>2, <1>3, <1>4, <1>5, <1>6 DEF Next

\* The invariant holds always.
LEMMA Invariance == Spec => []Inv
<1>1. Init => Inv
  BY InitInv
<1>2. Inv /\ [Next]_vars => Inv'
  BY NextInv
<1> QED
  BY <1>1, <1>2, PTL DEF Spec

(***************************************************************************)
(* Theorems.                                                               *)
(***************************************************************************)
\* Type correctness of the handler of raw rectangles.
THEOREM TypeCorrect == Spec => []TypeOK
<1>1. Inv => TypeOK
  BY DEF Inv
<1> QED
  BY <1>1, Invariance, PTL

\* Whatever the size of the rectangle and the limit of an update, the rows sent so
\* far are in their place and no other pixel is touched (vnc.c:391 and vnc.c:411).
THEOREM SlicesInPlace == Spec => []RowsInPlace
<1>1. Inv => RowsInPlace
  BY DEF Inv
<1> QED
  BY <1>1, Invariance, PTL

\* Between rectangles the client shows exactly what the server has sent.
THEOREM ShowsFrame == Spec => []Faithful
<1>1. Inv => Faithful
  BY DEF Inv
<1> QED
  BY <1>1, Invariance, PTL

(***************************************************************************)
(* The buffers have room.                                                  *)
(***************************************************************************)

\* A rectangle finds its room or gets it; nothing else changes the room.
LEMMA RoomNext ==
  ASSUME Inv, HasRoom, [Next]_vars
  PROVE  HasRoom' /\ packet_len <= packet_len' /\ buffer_size <= buffer_size'
<1>1. ASSUME NEW r \in Rects, Begin(r)
      PROVE  HasRoom' /\ packet_len <= packet_len' /\ buffer_size <= buffer_size'
  <2>1. data_size(r) \in Nat /\ rdp_data_size(r) \in Nat
    BY DataType DEF Inv, TypeOK
  <2>2. rect' = r /\ bits_per_pixel' = bits_per_pixel
    BY <1>1 DEF Begin
  <2>3. /\ data_size(rect)' = data_size(r)
        /\ rdp_data_size(rect)' = rdp_data_size(r)
    BY <2>2 DEF data_size, rdp_data_size, rdp_line_size, line_size
  <2>4. /\ packet_len' = IF data_size(r) > packet_len THEN data_size(r) ELSE packet_len
        /\ buffer_size' = IF rdp_data_size(r) > buffer_size THEN rdp_data_size(r)
                                                           ELSE buffer_size
        /\ packet_len \in Nat /\ buffer_size \in Nat
    BY <1>1 DEF Begin, Inv, TypeOK
  <2> HIDE DEF data_size, rdp_data_size
  <2>5. /\ data_size(r) <= packet_len' /\ rdp_data_size(r) <= buffer_size'
        /\ packet_len <= packet_len' /\ buffer_size <= buffer_size'
    BY <2>1, <2>4
  <2> QED
    BY <2>3, <2>5 DEF HasRoom
<1>2. ASSUME UNCHANGED <<bits_per_pixel, rect, packet_len, buffer_size>>,
             phase' \in {"receive", "send"} => phase \in {"receive", "send"}
      PROVE  HasRoom' /\ packet_len <= packet_len' /\ buffer_size <= buffer_size'
  <2>1. HasRoom'
    BY <1>2 DEF HasRoom, data_size, rdp_data_size, rdp_line_size, line_size
  <2>2. packet_len <= packet_len' /\ buffer_size <= buffer_size'
    BY <1>2 DEF Inv, TypeOK
  <2> QED BY <2>1, <2>2
<1>3. CASE Receive
  BY <1>2, <1>3 DEF Receive
<1>4. CASE SendSlice
  BY <1>2, <1>4 DEF SendSlice
<1>5. CASE Fails \/ Finish
  BY <1>2, <1>5 DEF Fails, Finish
<1>6. CASE UNCHANGED vars
  BY <1>2, <1>6 DEF vars
<1> QED
  BY <1>1, <1>3, <1>4, <1>5, <1>6 DEF Next

\* The packet and the buffer have room for the rectangle, while it is handled.
LEMMA HasRoomAlways == Spec => []HasRoom
<1>1. Init => HasRoom
  BY DEF Init, HasRoom
<1>2. Inv /\ HasRoom /\ [Next]_vars => HasRoom'
  BY RoomNext
<1> QED
  BY <1>1, <1>2, Invariance, PTL DEF Spec

\* The packet and the buffer have room for the rectangle being received, and for all of
\* its rows while they are sent, and what they had room for once they have room for ever
\* (vnc.c:369 and vnc.c:377).
THEOREM RoomAlways == Spec => RoomForRect
<1>1. Inv /\ HasRoom /\ [Next]_vars
        => HasRoom' /\ packet_len <= packet_len' /\ buffer_size <= buffer_size'
  BY RoomNext
<1>2. Inv /\ HasRoom /\ [Next]_vars
        => [HasRoom' /\ packet_len <= packet_len' /\ buffer_size <= buffer_size']_vars
  BY <1>1
<1> QED
  BY <1>2, Invariance, HasRoomAlways, PTL DEF Spec, RoomForRect

(***************************************************************************)
(* Updates are well formed, if a row of the screen fits into one.          *)
(***************************************************************************)
RowsFit == \A b \in BitsPerPixel : ((Width * b + 31) \div 32) * 4 <= MaxBytes

\* What division leaves out is not negative.
LEMMA QuotientBound ==
  ASSUME NEW a \in Nat, NEW b \in Nat \ {0}
  PROVE  b * (a \div b) <= a
  OBVIOUS

\* A product grows with its factors.
LEMMA ProductMono ==
  ASSUME NEW b \in Nat, NEW c \in Nat, NEW q \in Nat, c <= q
  PROVE  b * c <= b * q
  OBVIOUS

\* A multiple is divided evenly.
LEMMA Multiple ==
  ASSUME NEW a \in Nat \ {0}, NEW k \in Nat
  PROVE  (a * k) % a = 0 /\ (a * k) \div a = k
  OBVIOUS

\* A row is padded to whole words, and fits an update when one of the screen does.
LEMMA RowFits ==
  ASSUME NEW r \in Rects, bits_per_pixel \in BitsPerPixel, RowsFit
  PROVE  /\ rdp_line_size(r) <= MaxBytes /\ line_size(r) <= rdp_line_size(r)
         /\ line_size(r) \in Nat
         /\ \E k \in Nat \ {0} : rdp_line_size(r) = 4 * k
<1>1. PICK w \in Nat \ {0} : w = r.w
  BY RectType
<1>2. w <= Width /\ Width \in Nat /\ MaxBytes \in Nat
  <2>1. r.x \in Nat /\ r.x + r.w <= Width
    BY RectType
  <2> QED
    BY <1>1, <2>1, SizeAssumption, PacketAssumption
<1>3. ((Width * bits_per_pixel + 31) \div 32) * 4 <= MaxBytes
  BY DEF RowsFit
<1>4. bits_per_pixel \in {8, 16, 32}
  BY BitsAssumption
<1>5. line_size(r) = (w * bits_per_pixel) \div 8
  BY <1>1 DEF line_size
<1>6. CASE bits_per_pixel = 8
  <2>1. line_size(r) = w /\ ((Width * 8 + 31) \div 32) * 4 <= MaxBytes
    BY <1>3, <1>5, <1>6
  <2>2. rdp_line_size(r) = IF w % 4 = 0 THEN w ELSE (w \div 4 + 1) * 4
    BY <2>1 DEF rdp_line_size
  <2>3. PICK k \in Nat \ {0} : rdp_line_size(r) = 4 * k /\ k <= (w + 3) \div 4 /\ w <= 4 * k
    <3>1. CASE w % 4 = 0
      <4>1. w \div 4 \in Nat \ {0} /\ w = 4 * (w \div 4) /\ w \div 4 <= (w + 3) \div 4
        BY <3>1
      <4> QED
        BY <2>2, <3>1, <4>1
    <3>2. CASE w % 4 # 0
      <4>1. /\ w \div 4 + 1 \in Nat \ {0} /\ w <= 4 * (w \div 4 + 1)
            /\ w \div 4 + 1 <= (w + 3) \div 4
        BY <3>2
      <4>2. rdp_line_size(r) = 4 * (w \div 4 + 1)
        BY <2>2, <3>2
      <4> QED
        BY <4>1, <4>2
    <3> QED
      BY <3>1, <3>2
  <2>4. (w + 3) \div 4 <= (Width * 8 + 31) \div 32
    BY <1>2
  <2>5. 4 * k <= MaxBytes
    BY <1>2, <2>1, <2>3, <2>4
  <2> QED
    BY <2>1, <2>3, <2>5
<1>7. CASE bits_per_pixel = 16
  <2>1. line_size(r) = 2 * w /\ ((Width * 16 + 31) \div 32) * 4 <= MaxBytes
    BY <1>3, <1>5, <1>7
  <2>2. rdp_line_size(r) = IF (2 * w) % 4 = 0 THEN 2 * w ELSE ((2 * w) \div 4 + 1) * 4
    BY <2>1 DEF rdp_line_size
  <2>3. PICK k \in Nat \ {0} :
          rdp_line_size(r) = 4 * k /\ k <= (w + 1) \div 2 /\ 2 * w <= 4 * k
    <3>1. CASE (2 * w) % 4 = 0
      <4>1. w \div 2 \in Nat \ {0} /\ 2 * w = 4 * (w \div 2) /\ w \div 2 <= (w + 1) \div 2
        BY <3>1
      <4> QED
        BY <2>2, <3>1, <4>1
    <3>2. CASE (2 * w) % 4 # 0
      <4>1. /\ (2 * w) \div 4 + 1 \in Nat \ {0} /\ 2 * w <= 4 * ((2 * w) \div 4 + 1)
            /\ (2 * w) \div 4 + 1 <= (w + 1) \div 2
        BY <3>2
      <4>2. rdp_line_size(r) = 4 * ((2 * w) \div 4 + 1)
        BY <2>2, <3>2
      <4> QED
        BY <4>1, <4>2
    <3> QED
      BY <3>1, <3>2
  <2>4. (w + 1) \div 2 <= (Width * 16 + 31) \div 32
    BY <1>2
  <2>5. 4 * k <= MaxBytes
    BY <1>2, <2>1, <2>3, <2>4
  <2> QED
    BY <2>1, <2>3, <2>5
<1>8. CASE bits_per_pixel = 32
  <2>1. line_size(r) = 4 * w /\ ((Width * 32 + 31) \div 32) * 4 <= MaxBytes
    BY <1>3, <1>5, <1>8
  <2>2. rdp_line_size(r) = 4 * w
    BY <2>1 DEF rdp_line_size
  <2>3. w <= (Width * 32 + 31) \div 32
    BY <1>2
  <2>4. 4 * w <= MaxBytes
    BY <1>2, <2>1, <2>3
  <2> QED
    BY <2>1, <2>2, <2>4
<1> QED
  BY <1>4, <1>6, <1>7, <1>8

\* Every update describes itself correctly, and reads its bytes from inside the buffer,
\* whenever a row of the screen fits into an update (vnc.c:411).
LEMMA SliceWellFormed ==
  ASSUME Inv, HasRoom, RowsFit, SendSlice
  PROVE  PduWellFormed'
<1> DEFINE lines == line_per_packet(rect, i)
<1>1. /\ phase = "send" /\ i < rect.h /\ pdu' = Slice(rect, i)
      /\ UNCHANGED <<bits_per_pixel, rect, buffer_size>>
      /\ rect \in Rects /\ bits_per_pixel \in BitsPerPixel /\ i \in 0..rect.h
      /\ buffer_size \in Nat
  BY DEF SendSlice, Inv, TypeOK
<1>2. /\ rect.x \in Nat /\ rect.y \in Nat /\ rect.w \in Nat \ {0} /\ rect.h \in Nat \ {0}
  BY <1>1, RectType
<1>3. PICK size \in Nat \ {0} : size = rdp_line_size(rect)
  BY <1>1, LineType
<1>4. PICK k \in Nat \ {0} : size = 4 * k
  BY <1>1, <1>3, RowFits
<1>5. size <= MaxBytes /\ line_size(rect) <= size /\ line_size(rect) \in Nat
  BY <1>1, <1>3, RowFits
<1>6. PICK max \in Nat \ {0} : max = max_line_per_packet(rect) /\ size * max <= MaxBytes
  <2>1. MaxBytes \in Nat /\ MaxBytes \div size \in Nat
    BY QuotientType, PacketAssumption
  <2>2. size * (MaxBytes \div size) <= MaxBytes
    BY QuotientBound, PacketAssumption
  <2>3. MaxBytes \div size # 0
    BY <1>5, <2>1
  <2> QED
    BY <1>3, <2>1, <2>2, <2>3 DEF max_line_per_packet
<1>7. lines = IF i + max > rect.h THEN rect.h - i ELSE max
  BY <1>6 DEF line_per_packet
<1> HIDE DEF lines
<1>8. PICK n \in Nat \ {0} : n = lines /\ n <= max /\ i + n <= rect.h
  <2>1. lines \in Nat \ {0} /\ lines <= max /\ i + lines <= rect.h
    BY <1>1, <1>2, <1>7
  <2> QED
    BY <2>1
<1>9. size * n <= MaxBytes
  <2>1. size * n <= size * max
    BY <1>8, ProductMono
  <2>2. PICK a \in Nat, b \in Nat : a = size * n /\ b = size * max
    BY <1>3, <1>6, <1>8
  <2> QED
    BY <1>6, <2>1, <2>2, PacketAssumption
<1>10. (size * n) % (4 * n) = 0
  <2>1. size * n = (4 * n) * k
    BY <1>4
  <2>2. 4 * n \in Nat \ {0}
    OBVIOUS
  <2> QED
    BY <2>1, <2>2, Multiple
<1>11. (size * n) \div n = size
  <2>1. size * n = n * size
    OBVIOUS
  <2> QED
    BY <2>1, Multiple
<1>12. (i + n) * size <= buffer_size
  <2>1. size * (i + n) <= size * rect.h
    <3>1. i + n \in Nat
      BY <1>1
    <3> QED
      BY <1>2, <1>8, <3>1, ProductMono
  <2>2. size * rect.h <= buffer_size
    BY <1>1, <1>3 DEF HasRoom, rdp_data_size
  <2>3. PICK j \in Nat, h \in Nat : j = i + n /\ h = rect.h
    BY <1>1, <1>2
  <2>4. size * j = j * size /\ size * j \in Nat /\ size * h \in Nat
    OBVIOUS
  <2>5. size * j <= size * h /\ size * h <= buffer_size
    BY <2>1, <2>2, <2>3
  <2>6. j * size <= buffer_size
    BY <1>1, <2>4, <2>5
  <2> QED
    BY <2>3, <2>6
<1>13. pdu' = [left |-> rect.x, top |-> rect.y + rect.h - i - n,
               right |-> rect.x + rect.w - 1, bottom |-> rect.y + rect.h - i - 1,
               width |-> rect.w, height |-> n, bytes |-> size * n, first |-> i]
  BY <1>1, <1>3, <1>8 DEF Slice, lines
<1>14. /\ pdu'.height = n /\ pdu'.bytes = size * n /\ pdu'.first = i
       /\ pdu'.bottom + 1 = pdu'.top + pdu'.height
       /\ pdu'.right + 1 = pdu'.left + pdu'.width
  <2>1. /\ pdu'.height = n /\ pdu'.bytes = size * n /\ pdu'.first = i
        /\ pdu'.bottom = rect.y + rect.h - i - 1 /\ pdu'.top = rect.y + rect.h - i - n
        /\ pdu'.right = rect.x + rect.w - 1 /\ pdu'.left = rect.x /\ pdu'.width = rect.w
    BY <1>13
  <2>2. PICK j \in Nat : j = i
    BY <1>1, <1>2
  <2>3. /\ (rect.y + rect.h - j - 1) + 1 = (rect.y + rect.h - j - n) + n
        /\ (rect.x + rect.w - 1) + 1 = rect.x + rect.w
    BY <1>2
  <2> QED
    BY <2>1, <2>2, <2>3
<1>15. line_size(rect)' = line_size(rect) /\ rdp_line_size(rect)' = size
  BY <1>1, <1>3 DEF line_size, rdp_line_size
<1> QED
  BY <1>5, <1>8, <1>9, <1>10, <1>11, <1>12, <1>14, <1>15, <1>1 DEF PduWellFormed

\* If a padded row of the screen is no longer than an update may be, every update has
\* its rows, is within the limit and reads from inside the buffer (vnc.c:411); the run
\* raw_wide is about screens wider than that.
THEOREM UpdatesWellFormed ==
  ASSUME RowsFit
  PROVE  Spec => []PduWellFormed
<1>1. Init => PduWellFormed
  BY DEF Init, PduWellFormed
<1>2. ASSUME Inv, HasRoom, PduWellFormed, [Next]_vars
      PROVE  PduWellFormed'
  <2>1. CASE \E r \in Rects : Begin(r)
    BY <2>1 DEF Begin, PduWellFormed
  <2>2. CASE SendSlice
    BY <1>2, <2>2, SliceWellFormed
  <2>3. ASSUME UNCHANGED <<bits_per_pixel, rect, buffer_size, pdu>>
        PROVE  PduWellFormed'
    BY <1>2, <2>3 DEF PduWellFormed, line_size, rdp_line_size
  <2>4. CASE Receive \/ Fails \/ Finish \/ UNCHANGED vars
    BY <2>3, <2>4 DEF Receive, Fails, Finish, vars
  <2> QED
    BY <1>2, <2>1, <2>2, <2>4 DEF Next
<1> QED
  BY <1>1, <1>2, Invariance, HasRoomAlways, PTL DEF Spec
=============================================================================
