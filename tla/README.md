# A TLA+ model of vnc2rdp

vnc2rdp is a proxy: an RDP client connects to it, it connects to a VNC server,
and shows the client the server's desktop. This directory holds TLA+ models of
the parts of it that are hard to test, the TLC configurations that check them on
small instances, and proofs, checked by TLAPS, of what matters most for every
instance. Line numbers are those of the sources beside it; `PROJECT.json` names
the lines behind each definition.

    tlc -config Session_display.cfg MCSession      # a run (PROJECT.json lists them)
    tlapm SessionProof.tla                         # a proof

1. [The system](#1-the-system) – components, state, operations, interaction
2. [The modules](#2-the-modules) – how they correspond to the code
3. [What is assumed](#3-what-is-assumed) – environment, bounds, fairness
4. [What the runs show](#4-what-the-runs-show)
5. [What is proved](#5-what-is-proved)
6. [Findings](#6-findings)
7. [What is not modelled](#7-what-is-not-modelled)
8. [Plan](#8-plan)

## 1. The system

One process, one thread. `main` accepts a client, and serves it to the end
before it accepts the next. The concurrency is that of three parties, connected
by two TCP connections, of which the proxy is the one in the middle, and of a
signal handler.

| component (sources) | state | operations | what makes it correct |
|---|---|---|---|
| listener and command line (`vnc2rdp.c`) | `g_process`, options, descriptors | option loop, accept loop, `process_connection`, SIGINT handler | every accepted client is served or closed; options mean what `usage` says; SIGINT ends the program |
| session (`session.c`) | `epoll_fd`, the two sides | `init`, `build_conn`, `transmit`, `destory` | both handshakes in order; every readable side is served; the session ends when, and only when, there is a reason |
| VNC handshake (`vnc.c`) | pixel format, `bpp`, size of the screen | RFB 3.3: version, security, challenge, ClientInit, ServerInit, SetPixelFormat, SetEncodings, the first request | pixels come in the format the client is told; no message is read in part |
| VNC messages (`vnc.c`) | `packet`, `colour_map` | framebuffer update, colour map, bell, clipboard; request, key and pointer events | the stream stays framed; each update is followed by a request; the palette follows the colour map |
| raw rectangles (`vnc.c`) | `packet`, `buffer`, `buffer_size` | receive, pad and turn, send in slices | each pixel ends up in its place |
| RDP connection sequence (`x224.c`, `mcs.c`, `sec.c`, `rdp.c`, `capabilities.c`) | `user_channel_id`, `channel_count`, `encryption_method` | ten messages received, nine sent, and the channel joins | agrees with the client on the channels, depth and encryption; neither waits for the other |
| RDP messages (`rdp.c`) | `allow_display_updates`, `packet` | suppress output, input, shutdown; bitmap, screen copy, palette, sound | suppression stops the updates and its end brings them back |
| framing (`tpkt.c`, `x224.c`, `mcs.c`, `sec.c`, `packet.c`) | cursors of a packet | init, send and receive, layer by layer | lengths on the wire are those of the contents |
| input translation (`input.c`, `keymaps.c`) | shift, alt and caps lock; static mouse buttons | keyboard, mouse and synchronise events | the server sees the keys and buttons the user presses, and each released in the end |
| VNC authentication (`vncauth.c`, `d3des.c`) | – | DES of the challenge | cryptography |
| capabilities, orders, licence (`capabilities.c`, `*.h`) | – | layout of PDUs | layout |
| logging (`log.c`), key map generator (`convert_km.py`) | – | – | – |

**How they interact.** A call of the session reaches down the layers of one side
(`rdp → sec → mcs → x224 → tpkt → recv`), and what it means is passed to the
other side by a direct call: `vnc.c` calls `v2r_rdp_send_*` for what it is told
to draw, `input.c` and `rdp.c` call `v2r_vnc_send_*` for what the client asks.
The two sides share one flag, `allow_display_updates`, which a PDU of the client
sets and the sending of every update request reads. All reads and writes block:
a handler in the middle of a message of one side keeps the other side waiting.

**What is hard.**

* *The request chain.* RFB is pull-driven. The proxy asks for the next update only
  at the end of the handler of one (`vnc.c:506`), so one request not sent freezes
  the screen for good. A client that minimises its window breaks the chain on
  purpose; the PDU that restores it must join it again, at any moment of an update
  under way, and without the client's missing what it threw away meanwhile.
* *Framing.* Messages are read field by field with blocking reads; one rectangle
  or byte too many and all that follows is misread.
* *Two handshakes,* some twenty messages each with its demands, one of them nested
  in the time of the other: the server answers the first request while the RDP
  handshake is still going on.
* *Reads of what happens to have arrived* (`v2r_vnc_recv`) beside reads of a given
  length (`v2r_vnc_recv1`).
* *Failure:* either side closing at any moment, sends that fail or raise SIGPIPE,
  SIGINT without SA_RESTART.
* *Boundaries:* slices of rows, empty messages, numbers of channels.

* *State that outlives what it belongs to:* modifiers whose release is not reported,
  buttons in static variables, descriptors handed to nobody, options set by options.

`PROJECT.json` lists these as hazards, each at its line, with the properties that
cover it, or why none does.

## 2. The modules

| module | models | runs |
|---|---|---|
| `Session` (+ `MCSession`) | a running session: `session.c:99`, `rdp.c:409–714`, `vnc.c:441–719` | `Session_*.cfg` |
| `Display` | abstract: what a session promises, a remote display without a proxy | |
| `SessionDisplay` | the refinement of `Display` by `Session` | `Session_display.cfg`, `Session_messages.cfg` |
| `SessionProof` | proofs about `Session` | |
| `DisplayProof` | proof that `Session` implements `Display` | |
| `RawBitmap` | `v2r_vnc_process_raw_encoding` | `RawBitmap_*.cfg` |
| `RawBitmapProof` | proofs about `RawBitmap` | |
| `Handshake` (+ `MCHandshake`) | `v2r_session_build_conn` and all it calls | `Handshake_*.cfg` |
| `HandshakeProof` | proofs about `Handshake` | |
| `McsLengths` | the lengths `mcs.c` writes into the connect response; used by `Handshake` | `Handshake_ok.cfg` |
| `Framing` | the reads of a session, from a stream that comes in pieces | `Framing_ok.cfg` |
| `FramingProof` | proofs about `Framing` | |
| `Input` | `input.c`, with the tables of `keymaps.c`, over several sessions | `Input_ok.cfg` |
| `InputProof` | proofs about `Input` | |
| `Options` | the option loop and `parse_address` of `vnc2rdp.c` | `Proxy_ok.cfg`, `Options_password.cfg` |
| `Proxy` (+ `MCProxy`) | the process: `Options`, the accept loop, `process_connection`, SIGINT | `Proxy_ok.cfg` |
| `ProxyProof` | proofs about `Proxy`, with its options | |
| `StreamLemmas` | induction, flattened sequences, and what the messages of a stream become; for `SessionProof`, `DisplayProof` and `FramingProof` | |

They fit together end to end: `Options` is the first phase of `Proxy`, whose steps
through the stages of a session are the outcomes of `Handshake` and `Session`;
`Handshake` ends in the states `Session` begins with (its invariant `StartsSession`);
`RawBitmap` is the inside of the step that `Session` calls `Drawn` of a raw rectangle,
`Input` that of `Forwarded`, and `Framing` that of every read, which the other modules
take as one of a whole message.

### Session

The state of the proxy is that of the code: `allow` is `allow_display_updates`,
`colour_map` the map of `v2r_vnc_t`, `batch` what is left of the array of
`epoll_wait`, `pc` and `rects` the place in the loop over the rectangles. Around it
are four FIFO streams, named after their ends (`c2p`: client to proxy), and the two
peers, which are external code modelled from how `src/` uses them: a client with a
window, its picture and palette, and a server with its screen, the picture it
believes its viewer has (`sent`), and one pending request (`pend`).

| action | code |
|---|---|
| `EpollWait(fd)` | `epoll_wait` reports a batch with `fd` in it: one or both descriptors, in either order |
| `NextEvent`, `Leave`, `Interrupted` | the batch loop; `goto fail` and `v2r_session_destory`; `epoll_wait` or `recv` failing with EINTR |
| `v2r_rdp_process_suppress_output` | sets `allow`, and on *allow* sends a full request |
| `v2r_input_process` | one message to the server for every event of the PDU, none if view-only |
| `IgnorePdu`, `RdpFails` | other data PDUs and other PDUs; shutdown, a PDU that does not parse, the end of the stream |
| `UpdateHeader`, `UpdateRectangle`, `UpdateDone` | the three parts of `v2r_vnc_process_framebuffer_update`, between which the other parties run |
| `v2r_vnc_process_set_colour_map_entries`, `_bell`, `_server_cut_text`, `VncFails` | the handlers of the other messages |

A handler is one action where it only sends. It is several where it blocks in the
middle (the loop over an update). A framebuffer update therefore travels as a header
followed by its rectangles, and the proxy waits for each; a message that is read in
one piece is one element. `send` to a peer that has closed has its three outcomes:
accepted and lost (`Put`), an error (`Leave("ended")`), or SIGPIPE, whose default
action nobody has changed (`Leave("killed")`). `v2r_vnc_recv1` of an empty body
returns 0 from `recv`, which the code takes for the end of the stream: this is
`VncFails` for an empty clipboard text or colour map.

Pixels are one content per *tile*; a rectangle covers one tile. Finer structure is
`RawBitmap`'s business.

### RawBitmap

One action per part of the function: `Begin` (sizes, the packet and the buffer
grow), `Receive` (the pixels arrive and are turned upside down), `SendSlice` (an
iteration of the loop at `vnc.c:411`), `Finish`, and `Fails` (a receive or send that
fails). The sizes are operators with the names of the code's variables. A pixel is
known by the rectangle it came with and its place in it, so that a row that ends up
elsewhere shows; `viewer` is the picture the client makes of the updates, drawn as
RDP prescribes, bottom up, from the rows of the buffer the update was made of.

### Handshake

`pc` is the place in the two build_conn functions: a label that is the type of a
message is the receive of that message, the other labels are sends. Each receiving
function of the code is an action that accepts what the function accepts (`Accepts`:
type, number of channels, user and channel ids) and each sending one is an action.
The client and the server run through scripts, the sequences of the protocols, that
depend on what they were told: a client joins the channels whose numbers it got, and
sends a security exchange if the proxy chose to encrypt. The server's stream is one
of *units*, which arrive one by one: `Recv` (`v2r_vnc_recv`) takes all that have
arrived, `Recv1` exactly one message.

A format is the server's own bits per pixel, depth and maxima, which the code keeps
(`vnc.c:129`) and sends back (`vnc.c:248`), and an order of the colours, which it
changes by the depth; `bpp`, which the client is told, follows from the depth alone.

The lengths of the connect response are part of the message, computed by `McsLengths`
from what the code writes (`LengthsAgree` compares the two).

### Display

What is left of a session when the proxy is forgotten: two wires. One carries drawings
to the client, one the numbers of input events to the server; they lose nothing, and
change no order, as long as both ends are there. Each update makes of what the server
sent before what its screen shows now. `SessionDisplay` maps a session to it: a wire
holds what the streams on both sides of the proxy hold, the part already translated
first: `Draws(m)` is what a message draws, or will once it is translated, `Brings(m)` the
events it brings, and a wire is what the messages of two streams do, one after the other.
`Implements` says that every step of the proxy, wherever it is in a batch or
in the loop over an update, is a step of the wires or none.

### Framing

One connection of a running session: messages are sequences of parts, parts of units,
and units come one at a time. The state of the proxy is the part it reads next
(`step`), the length it reads (`want`) and the rectangles left. `Recv(k)` is a `recv`
that returns `k` units. If they are the part that is read for, the handler goes on
with what the part says; if not, because the read was short or the stream is out of
step, with whatever an earlier message left in the packet: any value. `ReadAll` is a
read that is served, `ReadShort` one at the end of the stream or of length 0,
`Interrupted` one a signal ends.

`room` is the length of the packet. It grows for raw pixels (`RoomFor`); the lengths of
a text, of the entries of a colour map and of a PDU are used as they come, so one of
them may not fit: `Overrun` is the read that writes beyond the packet, and a colour map
may also be written past its 256 entries. The process is then in the state "overrun",
of which nothing more is said, since C does not say anything either.

### Input

One action is one event: `Press`, `Release`, `Click`, `Move` and `Wheel` are what the
user does, each with the handler of the event it makes
(`v2r_input_process_keyboard_event`, `_mouse_event`), `FocusReturns` is a window that
lost the focus and has it again, with `v2r_input_process_sync_event`; `NextSession` is
`v2r_rdp_init`, which clears the modifiers and leaves the static variables. Scan codes
are classes of keys with the same behaviour in the switch of `input.c` and in the
tables: letters, keys with a second or third symbol, keys of the keypad, the modifiers.
Both alt keys have the same scan code, and their case falls through into the one of
caps lock. History variables say what a property may not ask for: keys whose symbol
changed while held (`strange`), whose release was not reported (`lost`), locks that
toggled without the client's (`astray`), buttons of an earlier session (`leftover`).

### Options and Proxy

`Options` takes one option after another from a command line. A host is a text with a
length: one longer than the buffer is ignored, as is none before a colon, while an
address that is empty as a whole clears the host (`SetsHost`). A host as long as the
buffer is copied, and its end written one byte behind (`vnc2rdp.c:109`, `:120`); what of
the other variables lies there is the compiler's choice, so `TakeListen` tries each
(`BehindListenIp`). Behind the server's host is its port, which is set afterwards. A port
is what `atoi` finds, modulo 2^16, and of a password `strncpy` takes eight characters.
`Proxy` goes on with the process that starts: `SetUp`,
`Test` of `g_process` and `Accept` as separate steps, since SIGINT may come between
them; a waiting `accept` is a state of its own, as SIGINT makes it fail. The steps of
`process_connection` (`ServerSocket`, `Connect`, `Handshakes`, `SessionEnds`) may each
fail, and `Closes` says what `v2r_session_destory` closes by how far the session came.
`Killed` is SIGPIPE.

## 3. What is assumed

### The environment

* A client discards what it is told to draw while it is minimised, but not the
  palette; it keeps to its protocol, apart from the PDU `Invalid`.
* A server keeps at most one pending request, a full one taking the place of an
  incremental one; it answers when there is something to send, and writes an
  update whole. It sends a copy only of what its viewer has, before the other
  rectangles. It uses the two encodings the proxy announces; its rectangles have
  at least one pixel and lie on the screen; products of sizes fit 32 bits.
* A peer closes at a boundary of messages, or inside an update. What has not been
  read yet may be lost with the connection, from the end.
* The server's own pixels have 8, 16 or 32 bits, any depth, and maxima that are those
  of RDP at that depth or others. ServerInit arrives in two units at most (only
  `handshake_split` lets it arrive in two).
* Peers send the messages of their protocols: a TPKT header with a length below 4 is one
  that `Framing` lets the proxy misread, not one that a client sends. The lengths of
  texts, colour maps and PDUs are any.
* In `Session` a client's input event is one message to the server; what it becomes is
  in `Input`, where a turn of the wheel is two.
* In `Input` the client reports a press and a release of every key and button as long
  as it has the focus, and the locks when the focus returns, as RDP clients do; keys
  without a symbol in some table are left out. A button event carries no move.
* `MAX_CHANNELS_ALLOWED` is at most 104 (it is 31, `mcs.h:52`), for which one byte of
  length suffices.
* In `Proxy` a session ends, fails or lasts as its peers like; a client waits in the
  queue until it is accepted.
* Outside `Framing` a read returns what it was asked for, which is what `Framed` says,
  and what is read fits the packet.
* In `Session` the flag of the PDU that suppresses output is 0 or 1, as `rdp.h` has it.
  The code keeps any value (`rdp.c:639`); another one would let output go on without
  asking for the full update.
* Sockets have room for what is sent.

### The bounds

Every bound is a constant of its module.

| constant | why it is enough |
|---|---|
| `Tiles` 2, `Contents` 2 (`Session`) | a copy needs a source and a target; an update of two rectangles can be interrupted between them; a third content adds nothing a change back does not |
| `MaxPdus` 3, `MaxPaints` 2 (`session_display`); 2 and 1 (`session_live`) | minimise, restore, minimise again, with two changes in any place among them, on one tile (a change and its undoing) or on both; what is shown on the screen first is any picture |
| `Entries` 2, `MaxNotices` 2, `MaxPdus` 1 (`session_messages`) | a message that changes one entry and leaves another that was set before; two messages of any kind in every place relative to a PDU and to closing |
| `Environment` | which behaviours of the peers a run has; between them the runs have all. `"flood"` makes painting unbounded, at the pace at which the client draws, so that the state space stays finite |
| screen 3 × 4, `MaxBytes` 24, `MaxRects` 2 (`RawBitmap`) | rows of 4, 8 and 12 bytes (all cases of padding but one of the 8-bit ones), slices of 2 to 6 rows, so a rectangle of 4 rows is sent in one, in two equal slices and in two unequal ones; the second rectangle finds the buffer of the first, larger or smaller; all pairs of rectangles are tried |
| `MAX_CHANNELS_ALLOWED` 31, `ChannelCounts` 0, 1, 2, 31, 32 (`Handshake`) | none, odd (padded), even, as many as the code allows (`mcs.h`), and one too many; the padding takes the user data from 126 bytes (30 channels) to 130 (31), over the boundary of 128 at which the two lengths would differ |
| `Natives` 7 (`MCHandshake`) | the pixels of RDP at each depth the code knows; and one more for each way to differ: more bits than the depth needs, other maxima, a depth without a case |
| `Keys` 8 of 11 classes, 2 buttons, 2 positions, `MaxEvents` 5, `MaxSessions` 2 (`Input`) | two modifiers pressed around a key and both released; a drag with a turn of the wheel; a button held across sessions. The classes left out behave as others do (`ralt` as `lalt`, `digit` is asked for by its symbol in any case) |
| `MaxArgs` 2 (`Options`); `SmallListens` 5, `SmallServers` 6 (`MCProxy`) | an option that changes what an earlier one set, in both orders; addresses with one part, the other, both or none, a host that just fits the buffer and one that does not, a port beyond 2^16 and one that becomes 0 |
| `MaxClients` 4, `MaxFds` 4 (`Proxy`) | the listening socket and a session with all of its descriptors fill the table; three abandoned descriptors leave none, with one more client to come |
| `Lengths` {0, 3}, `Rooms` {2, 5}, `Wrapped` 99, `MaxRects` 2, `MaxMessages` 2 (`Framing`) | every part has two units or more, so it can be cut inside, or none; a packet that has room for the fixed parts only, and one with room for each part, header included; a length below that of the TPKT header, which becomes larger than any packet; a second rectangle and a second message to be misread |

TLC checks the instances; the theorems of section 5 have no bounds but the named
assumptions of the constants. `CHECK_DEADLOCK FALSE` is there because all
models stop where the system does: an idle proxy waits in `epoll_wait` for peers
that have no more to say within their bounds, a session ends, a handshake is
finished, the rectangles run out, the process exits. That nobody waits for what never
comes is stated by `InStep`, `Established`, `LeavingHonoured`, `Finished`,
`EndHonoured`, `StopsOnSigint` and `ClientsServed` instead.

### Fairness

* `Session`: weak fairness of the two handlers (the process is scheduled, its blocking
  calls return when there is something), strong fairness of `EpollWait` per
  descriptor. Epoll is level-triggered here (`ev.events = EPOLLIN`) and its array has
  room for both descriptors, so one that is readable whenever the loop comes round is
  reported in the end; it is not enabled while a batch is handled, which is why weak
  fairness would not say that. Peers read what they are sent, and a server answers
  requests. Nobody is obliged to paint, type, restore a window or leave.
* `RawBitmap`: weak fairness of the steps of the handler; a failure is never forced.
* `Handshake`: weak fairness of the proxy, of delivery and of the peers' scripts; nobody
  has to close.
* `Proxy`: weak fairness of the process outside handshakes and sessions: it is scheduled,
  and `socket`, `connect` and `accept` with a client or without a descriptor return. A
  session may last for ever, nobody has to come, and no signal is forced.
* `Framing`: weak fairness of the reads that can return.
* `Input`, `Options`, `session_display` and `session_messages` need none.

## 4. What the runs show

| run | properties | shows |
|---|---|---|
| `session_display` | `InStep`, `RequestAlive`, `QuiescentSync`, `SuppressDrains`, `Implements` | minimising and restoring at every moment of an update, with repaints and copies: framing, the request chain, a picture that is right whenever all is quiet, requests that only drain while output is suppressed, and the refinement |
| `session_messages` | `TypeOK`, `QuiescentSync`, `EndsForAReason`, `Implements` | every PDU and message, colour maps entry by entry, view-only or not, with peers that close and SIGINT: the session ends for a reason, the palette follows, the wires lose nothing but what was sent last |
| `session_live` | `InputOrder`, `ScreenConverges`, `LeavingHonoured` | input arrives once and in order; a tile that stops changing is shown in the end, whatever was suppressed; an endless stream of updates does not keep a client from leaving |
| `raw_small` | `TypeOK`, `RowsInPlace`, `Faithful`, `PduWellFormed`, `RoomForRect`, `Finished` | all pairs of rectangles: pixels in their places, updates well formed and inside the buffer, which never shrinks, nor does the packet; the loop ends |
| `handshake_ok` | `TypeOK`, `ChannelsAgree`, `FormatAgreed`, `StartsSession`, `LengthsAgree`, `FailsForAReason`, `Established` | both handshakes with every server's answer, closing peers and SIGINT; for which servers the pixels are in the format the client is told, and that they are from the first on; the lengths of the connect response; no circular wait |
| `input_ok` | `TypeOK`, `KeysAgree`, `MeansWhatItShows`, `ButtonsAgree`, `PointerAgrees` | what the server holds to be pressed, and what keys mean to it, against the client, in every order of keys, buttons, focus and sessions |
| `proxy_ok` | `TypeOK`, `OptionsMeant`, `NothingElseLeft`, `OneLateClient`, `StopsOnSigint`, `ClientsServed` | options mean what `usage` says (but for the password, and hosts that do not fit); which descriptors are lost, and that nothing else uses them up; SIGINT at any moment |
| `framing_ok` | `TypeOK`, `Framed`, `MisreadIsLast`, `EndHonoured` | in whatever pieces a stream arrives, messages are read as they were sent, unless they overrun the packet; its end, anywhere, ends the session with one misread message at most |
| `raw_wide`, `handshake_split`, `handshake_encryption`, `options_password` | `Finished`, `ServerInitReceived`, `PreferredEncryption`, `PasswordAsGiven` | violated: section 6 |

Some properties hold with exceptions that are the code's, and name them: a shift key
released before the letter it was held for leaves the capital down (`KeysAgree`), an
alt key toggles caps lock and so does the repetition of the caps lock key
(`MeansWhatItShows`), a turn of the wheel releases the buttons of a drag and buttons
survive a session (`ButtonsAgree`), a session that fails before its client is handed to
the RDP side leaves the descriptor of the client open (`NothingElseLeft`), a signal
between the test of `g_process` and `accept` is noticed only after one more client
(`OneLateClient`, `StopsOnSigint`), and a read that a signal cuts short puts the stream
out of step (`Framed`). A host of `-l` that does not fit its buffer is ignored, one that
just fits may undo a flag or the low byte of the port, and ports are taken modulo 2^16
(`OptionsMeant`). A server whose pixels have more bits than their depth has in RDP, other
maxima, or a depth without a case is sent on as something it is not (`FormatAgreed`).
A text, the entries of a colour map or a PDU may be longer than the packet, and a colour
map go past its end (`Framed`, `MisreadIsLast` and `EndHonoured` end there). Each says
that this is all.

That the process may die of SIGPIPE when a peer has gone (`tpkt.c:134`) is an outcome of
every send in `Session`, `Handshake` and `Proxy`. No property forbids it, as nothing in
the code or its documents says that the process outlives its clients; `EndsForAReason`,
`LeavingHonoured`, `FailsForAReason` and `ClientsServed` count it as an end.

Each property of a passing run has a mutant, an operator beside the definition it
changes, that makes TLC find it violated: a request decided with the flag of before
the PDU, a slice one row low, a first request before the pixel format.

`QuiescentSync` is the one to read first. It says that when nothing is on its way to
a client whose window is open, and no full update is due, the client's picture is
the one the server believes it sent. It needs the full request after a restore (an
incremental one breaks it), the order of the stream, and that copies are not drawn
from a stale source.

## 5. What is proved

For all values of the constants that satisfy the named `ASSUME`s (and, where a
theorem names one, its hypothesis):

| theorem | says |
|---|---|
| `SessionProof!TypeCorrect` | `Spec => []TypeOK` |
| `SessionProof!StaysInStep` | `Spec => []InStep` |
| `SessionProof!ChainUnbroken` | `Spec => []RequestAlive` |
| `SessionProof!PictureFollows` | `Spec => []QuiescentSync` |
| `SessionProof!InputArrives` | `Spec => []InputOrder` |
| `SessionProof!RequestsDrain` | `Spec => SuppressDrains` |
| `SessionProof!NoEndWithoutReason` | `Spec => EndsForAReason` |
| `DisplayProof!SessionImplements` | `Spec => Implements` |
| `RawBitmapProof!TypeCorrect` | `Spec => []TypeOK` |
| `RawBitmapProof!SlicesInPlace` | `Spec => []RowsInPlace` |
| `RawBitmapProof!ShowsFrame` | `Spec => []Faithful` |
| `RawBitmapProof!RoomAlways` | `Spec => []RoomForRect` |
| `RawBitmapProof!UpdatesWellFormed` | `RowsFit` implies `Spec => []PduWellFormed` |
| `InputProof!KeysAlwaysAgree` | `Spec => []KeysAgree` |
| `InputProof!ButtonsAlwaysAgree` | `Spec => []ButtonsAgree` |
| `InputProof!PointerAlwaysAgrees` | `Spec => []PointerAgrees` |
| `InputProof!KeysMeanWhatTheyShow` | `Spec => []MeansWhatItShows` |
| `InputProof!InputTypes` | `Spec => []TypeOK` |
| `ProxyProof!AtMostOneLate` | `Spec => []OneLateClient` |
| `ProxyProof!OnlyAbandonedLeft` | `Spec => []NothingElseLeft` |
| `ProxyProof!OptionsAlwaysMeant` | `Spec => []OptionsMeant` |
| `ProxyProof!ProxyTypes` | `Spec => []TypeOK` |
| `HandshakeProof!LengthsAlwaysAgree` | `Spec => []LengthsAgree` |
| `HandshakeProof!ChannelsAlwaysAgree` | `Spec => []ChannelsAgree` |
| `HandshakeProof!FormatAlwaysAgreed` | `Spec => []FormatAgreed` |
| `HandshakeProof!SessionAlwaysStarts` | ServerInit in one piece implies `Spec => []StartsSession` |
| `HandshakeProof!FailsOnlyForAReason` | ServerInit in one piece and no encryption imply `Spec => FailsForAReason` |
| `HandshakeProof!HandshakeTypes` | `Spec => []TypeOK` |
| `FramingProof!FramingTypes` | `Spec => []TypeOK` |
| `FramingProof!AlwaysFramed` | `Spec => []Framed` |
| `FramingProof!OneMisreadAtMost` | `Spec => []MisreadIsLast` |

So every invariant and every action property of a passing run is proved, and the
refinement; what TLC adds is liveness.

**Hypotheses.** Three theorems have one, and each is needed. `RowsFit` says that a row of
the screen fits the 8192 bytes of an update; run `raw_wide` shows what happens when it
does not. `"split" \notin Environment` (ServerInit arrives in one piece) and `Encryptions
\subseteq {"none"}` exclude what runs `handshake_split` and `handshake_encryption` find.
The runs `raw_small` and `handshake_ok` satisfy them. `FormatAlwaysAgreed` needs none: it
says for which servers the formats agree (`Usual`) and that for others they do not. (The
switch over the depth, `vnc.c:152`, has no default: with another depth `bpp` stays 0 and
the session goes on.)

**Session, framing.** `TypeOK` is not inductive alone: in its loop the proxy takes whatever is
next in the stream for a rectangle, and that it is one is `InStep`. `InStep` is not
inductive without the types, which give the lengths their meaning, nor without its
second part: a header that is read makes the following rectangles *expected*, and
for them to be rectangles they must all be in the stream, which holds as long as the
server is there since it writes updates whole; after it has closed, the stream may
end early but what is in it is still in step. So the inductive invariant is
`TypeOK /\ InStep`. `RequestAlive` is inductive given `TypeOK`: its cases are a
request read by the server (it becomes pending), a pending one answered (an update is
in the stream), the update's header read (the handler runs), the end of the loop
(the handler asks again unless output is suppressed), and a restore, which sends a
request whatever happened before.

**Session, picture.** `QuiescentSync` speaks of a state in which nothing is on its way;
the invariant `SyncInv` says what is going to happen to what is. `Run(f, X, s, x, y)`
says that the messages of *s*, each doing to a member of *X* what *f* says, lead from
*x* to *y*: there is a sequence of states with one for every place in *s*. `WillPaint`
is that of the palette and `WillShow` that of the picture: drawing what is in `p2c` and
then what is in `s2p` leads from what the client shows to what the server believes it
has sent. `RunConcat`, `RunTail` and `RunOne` say what happens to a run when a message
is read, translated or sent, and `UpdateShows` that the rectangles of an update, copies
first, make of `sent` what the screen shows, in whatever order they come. `WillShow`
need hold only while the client is *watching*: its window is open, no PDU about output
is on its way, and no full update is due. That it can begin to watch again only with
a full update is `RestoredLast`: a client that is not minimised has a PDU that allows
output behind every one that suppresses it.

**Session, input and requests.** `InputInv` numbers the events: those in the stream to the
server come before those in the PDUs that have not been read, both are in order, and
together they are all from the one after the last received to the last typed.
`SuppressDrains` counts; `Count` is a cardinality, so each handler's effect on it is
that of one message more or less (`CountAppend`, `CountTail`).

**Session, display.** The refinement mapping turns each stream into what its messages
become: `Become` names that, one sequence for each message, and a wire is what the
messages of the nearer stream become followed by those of the farther one. So there
is one lemma for each thing a handler can do to a wire: pass a message on
(`WirePassed`), which is a stutter of `Display`; put a request aside (`WireAside`), also
one; send at the end (`WirePut`), read at the front (`WireRead`), and close (`WireCut`,
which cuts a tail off). Reading a rectangle needs `InStep`, as what is translated must
be one. The step that is not a translation is a server that writes an update: the
drawings of its rectangles, in the order in which they are in the message, must lead
from the picture sent before to that of the screen. `UpdateShows` of the picture's proof
says so of a run of drawings, and `RunDraws` that a run is what `Display` folds over
positions; that the fold exists is an induction (`FoldExists`).

**RawBitmap.** The inductive invariant is `TypeOK /\ RowsInPlace /\ Faithful /\ Received
/\ Begun`. `Received` says what is in the buffer and in the frame once the pixels have
arrived, row *k* of the buffer being row *h − k − 1* of the rectangle; `Begun` that
the client still shows what it showed before. The core is `SliceDrawn`: the slice
from row *n* covers exactly the rows above the *n* lowest ones, and puts each buffer
row where its rectangle row belongs. When *i* reaches *h*, `RowsInPlace` is `Faithful`.
This holds for every limit, also for one that is too small for a row; there the
loop does not end, which is a question of liveness. `PduWellFormed` does need a limit
of a row at least: below it, the update that is sent is empty. `RoomForRect` follows
from the two `if`s that make the packet and the buffer grow: while a rectangle is read
or sent there is room for it, and no step takes room away.

**Input.** `KeysAgree` does not say that what is down of a key that was never strange is
the *one* symbol the key has now; without it the release of such a key could leave
another down. `KeysInv` does. The step to see is a modifier pressed while keys are
held: those whose symbol it changes become strange in the same step. For the mouse,
`MouseInv` relates the static variables, which the server never sees between sessions,
to the buttons held and left over; `ButtonsAgree` follows for the last event's kind.
`LocksInv` relates each modifier of `input.c` to the key the client holds, and each lock
to the client's, unless it is `astray`: `MeansWhatItShows` is what that means for the
three columns of the key map.

**Proxy.** `LateInv`: a client that was accepted after SIGINT is served on the way to the
next test of `g_process`, which stops the process. `FdInv` says what is open at every
stage of a session, not only between sessions; it needs `ClientsInv`, that the clients
served, serving and queued are numbered in order, so that the descriptors of the next
session are none of those abandoned before. For `OptionsMeant`, `TakenInv` says after
each option that every variable holds the value of the last of the options taken that
set it, or the default (`Follows`), except that a host which just fits its buffer may have
undone a flag or half of the port; `Settled` that the checks after the loop keep this.

**Handshake, lengths.** The length of the whole response is right for 127 bytes of user
data and for 129, but not for 128 (`mcs_rsp_len`); the core of the proof is that the padding of
the channel numbers to an even count leaves 66 + 4*k* bytes, never 128. The rest is an
invariant, `LengthsInv`, about where the count comes from: what is in the streams of
the client has the types of its protocol, the count the proxy answers is the one the
client sent, and it is at most `MAX_CHANNELS_ALLOWED`, which `RoomAssumption` bounds so
that the one-byte length has room (the code's value is 31).

**Handshake, client.** The whole conversation with a client is a sequence of items
determined by the *terms*: the number of channels, the method of encryption and the
depth. `ConversationInv` says that the client is at one item of it, the proxy at another
(`Place` of its label), and that the streams hold what is between the two (`Ahead` when
the client has said more than was read, `Behind` when it has been told more than it has
heard); `Knows` is what the client has learned of the terms by its item, and `ScriptInv`
that it does not leave its script. The terms themselves change when the proxy
chooses the method or learns the depth, always before the item that depends on it.
`ChannelsAgree` is `Knows` at the end.

**Handshake, server.** `ServerInv`: until SetPixelFormat is sent nothing has been asked for
and no update is on its way (`Quiet`); then the stream holds at most the one request of
`vnc.c`, behind the format (`AsksOnce`), so that every update is in it; and the format is
the one `bpp` was computed from (`Told`). Whether such a format is what `bpp` says is then
a question of the server's own pixels only (`ToldAgrees`). `MeetingInv` says where the proxy and the
server are in the same script: `At` is a state of the pair for each label, with what
has arrived of the server's next message, for a server that has not closed. With a
ServerInit in two units there are states in which the proxy goes on with a unit left,
which is why the hypothesis is needed.

**Handshake, types.** `TypesInv`: the numbers of the channels stay in their range because
they are given out only after the count was accepted, which is known to the client
once it has heard the connect response (`cpos > 4`).

**Framing.** The stream, and what is still to come, are units; `FramingInv` labels each of
them with the number of rectangles that are left when it is read, so that every unit is
linked with the next: the next of the same part, or the first of the part that is read
after it (`Chained`, `NextUnit`). What the proxy is about to read (`step`, `want`,
`rects`) is then where the chain begins. A raw rectangle is read into a packet that was
made large enough, so `want <= room` there; of the other lengths nothing is known. That the parts of any message make such a chain
is an induction over its parts, and over the rectangles of an update.

**Induction.** The library's induction theorems take an operator, which the provers cannot
instantiate. `StreamLemmas` states induction for the members of a *set* (`NatInduct`, from
the well-foundedness of the numbers), and from it what `FlattenSeq` returns
(`FlattenInduct`); existence of a run or of a chain is proved the same way.

**Only model-checked:** liveness (`ScreenConverges`, `LeavingHonoured`, `Finished`,
`Established`, `StopsOnSigint`, `ClientsServed`, `EndHonoured`), which is out of the
prover's reach, as fairness and ENABLED are.

## 6. Findings

* `vnc.c:411`, run `raw_wide`: a raw rectangle whose row is longer than 8192 bytes
  makes `max_line_per_packet` zero. The loop then sends empty updates and never ends.
* `vnc.c:124`, run `handshake_split`: ServerInit is read with a `recv` of what has
  arrived. If it comes in two segments, the rest stays in the stream and the session
  takes it for messages.
* `sec.c:59`, run `handshake_encryption`: `usage` offers `-e 40bit/56bit/128bit` as the
  preferred encryption method, but the Security Exchange PDU a client then sends is
  not received, and the connection is given up at it. The one-byte length of the GCC
  blocks (`mcs.c:294`) leaves out the certificate, too.
* `vnc2rdp.c:195`, run `options_password`: the case of `-e` has no `break`; the method
  becomes the password of the VNC server, in place of one given before it.

The modules also show limits of the code, as exceptions which their properties name
(section 4): `parse_address` compares with `<=` where the end of the text needs a byte more
(`vnc2rdp.c:107`, `:118`), and a port is cut to 16 bits (`:112`); the server is asked for
its own pixel size while the client is told the one of the depth (`vnc.c:248`, `:152`);
lengths from the streams are read into a packet of 65535 bytes without being compared
with it (`vnc.c:530`, `:582`, `tpkt.c:108`), and a colour map without its size (`:537`).

## 7. What is not modelled

* Layout of messages, byte order, the orders and capabilities sent: layout only.
* DES and the VNC password: `Handshake` has their outcome.
* Failures of `malloc`, except where a buffer grows in a session, and of `epoll_create`
  and `epoll_ctl`, and of `clock_gettime` in the connect response (`mcs.c:253`): nothing
  happens after them but the end of the session.
* What a process does whose packet or colour map was overrun. In the RDP handshake
  packets have 8192 bytes (`rdp.c:301`) and `tpkt.c:108` does not compare either;
  `Handshake` takes its messages as ones that fit, and leaves the rest to `Framing`.
* The layout inside a misread message: `Framing` takes any value for its fields, and
  a length for its worth in units.
* Full socket buffers: sends never wait. A client and a server that both stop reading
  while they send can stop the proxy (`tpkt.c:134`); how much fits is the system's.
* Rectangles without pixels (`vnc.c:365`), and values of the flag that suppresses output
  other than 0 and 1 (`rdp.c:639`).
* Logging and `convert_km.py`.

## 8. Plan

The most important behaviour first: what the user sees (1, 2), how a session comes
about (3), the life of the process (4), then the parts with state of their own.

| | module | composes or extends | abstract statement, properties | status |
|---|---|---|---|---|
| 1 | `Session`, `MCSession`, `SessionProof`, `StreamLemmas` | – | `InStep`, `RequestAlive`, `QuiescentSync`, `InputOrder`, convergence | done |
| 2 | `RawBitmap`, `RawBitmapProof` | inside of `Session!Drawn` | pixels in their places | done |
| 3 | `Handshake`, `McsLengths`, `HandshakeProof` | precedes `Session` | agreement, lengths, no circular wait | done |
| 4 | `Options`, `Proxy`, `ProxyProof` | sessions one after another, as their outcomes | options, descriptors, SIGINT, later clients | done |
| 5 | `Input`, `InputProof` | the inside of `Session!Forwarded` | keys and buttons agree | done |
| 6 | `Framing`, `FramingProof` | the inside of the reads | a message read is the one sent, however it is cut | done |
| 7 | `Display`, `SessionDisplay`, `DisplayProof` | implemented by `Session` | two wires | done |
