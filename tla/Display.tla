------------------------------ MODULE Display ------------------------------
(***************************************************************************)
(* What a session promises: a remote display without a proxy.  The client  *)
(* is joined to the server by two wires, first in, first out: one carries  *)
(* what the server draws, the other what the user types.  A wire loses     *)
(* nothing, adds nothing and changes no order as long as both ends are     *)
(* there; when one goes, its wires may lose what was sent last, and when   *)
(* the session is over, everything.                                        *)
(***************************************************************************)
EXTENDS Naturals, Sequences, SequencesExt

CONSTANTS Tiles, Contents, Blank

VARIABLES
  up,          \* the parties that are there: "client", "server", "session"
  toClient,    \* drawings on their way
  toServer,    \* numbers of the input events on their way
  screen,      \* the server's pixels
  sent,        \* its idea of what the client has been sent
  minimised,   \* the client's window
  shown,       \* and its pixels
  typed, received,   \* number of the last event typed, of the last received
  viewonly

vars == <<up, toClient, toServer, screen, sent, minimised, shown, typed, received, viewonly>>

Fill(t, c) == [type |-> "bitmap", tile |-> t, content |-> c]
Copy(t, s) == [type |-> "scrblt", tile |-> t, src |-> s]

Draw(picture, d) ==
  [picture EXCEPT ![d.tile] = IF d.type = "bitmap" THEN d.content ELSE picture[d.src]]

\* The picture after all of the drawings of a sequence.
Drawings(picture, ds) == FoldLeft(Draw, picture, ds)

\* What is new on a wire.
Sent(wire, after) == SubSeq(after, Len(wire) + 1, Len(after))

Init ==
  /\ up = {"client", "server", "session"}
  /\ toClient = <<>> /\ toServer = <<>>
  /\ screen \in [Tiles -> Contents]
  /\ sent = [t \in Tiles |-> Blank]
  /\ minimised = FALSE
  /\ shown = [t \in Tiles |-> Blank]
  /\ typed = 0 /\ received = 0
  /\ viewonly \in BOOLEAN


Paint ==
  /\ "server" \in up
  /\ \E t \in Tiles, c \in Contents : screen' = [screen EXCEPT ![t] = c]
  /\ UNCHANGED <<up, toClient, toServer, sent, minimised, shown, typed, received, viewonly>>

\* The server sends drawings that make of what it sent before what its screen shows
\* now; the session may still be there when the client has gone.
Update ==
  /\ {"server", "session"} \subseteq up
  /\ sent' = screen
  /\ IF "client" \in up
       THEN /\ IsPrefix(toClient, toClient')
            /\ Drawings(sent, Sent(toClient, toClient')) = screen
       ELSE toClient' = <<>>
  /\ UNCHANGED <<up, toServer, screen, minimised, shown, typed, received, viewonly>>

\* The client draws, unless its window is minimised.
Deliver ==
  /\ "client" \in up /\ toClient # <<>>
  /\ toClient' = Tail(toClient)
  /\ shown' = IF minimised THEN shown ELSE Draw(shown, Head(toClient))
  /\ UNCHANGED <<up, toServer, screen, sent, minimised, typed, received, viewonly>>

Resize ==
  /\ "client" \in up
  /\ minimised' = ~minimised
  /\ UNCHANGED <<up, toClient, toServer, screen, sent, shown, typed, received, viewonly>>

\* A view-only session has no wire to the server.
Type ==
  /\ "client" \in up
  /\ typed' > typed
  /\ toServer' = IF viewonly \/ "server" \notin up THEN toServer
                 ELSE toServer \o [i \in 1..(typed' - typed) |-> typed + i]
  /\ UNCHANGED <<up, toClient, screen, sent, minimised, shown, received, viewonly>>

Receive ==
  /\ "server" \in up /\ toServer # <<>>
  /\ toServer' = Tail(toServer)
  /\ received' = Head(toServer)
  /\ UNCHANGED <<up, toClient, screen, sent, minimised, shown, typed, viewonly>>

\* The one that goes no longer receives; what it sent last may be lost.
Goes(party, toIt, fromIt) ==
  /\ party \in up /\ up' = up \ {party}
  /\ toIt' = <<>> /\ IsPrefix(fromIt', fromIt)
  /\ UNCHANGED <<screen, sent, minimised, shown, typed, received, viewonly>>

ClientGoes == Goes("client", toClient, toServer)
ServerGoes == Goes("server", toServer, toClient)

End ==
  /\ "session" \in up /\ up' = up \ {"session"}
  /\ toClient' = <<>> /\ toServer' = <<>>
  /\ UNCHANGED <<screen, sent, minimised, shown, typed, received, viewonly>>

Next ==
  \/ Paint \/ Update \/ Deliver \/ Resize \/ Type \/ Receive
  \/ ClientGoes \/ ServerGoes \/ End

Spec == Init /\ [][Next]_vars
=============================================================================
