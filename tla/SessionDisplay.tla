--------------------------- MODULE SessionDisplay ---------------------------
(***************************************************************************)
(* A session implements the remote display: all that the proxy does is     *)
(* invisible.  What is on a wire of the display is what is in the streams  *)
(* on both sides of the proxy, the part it has already translated first.   *)
(***************************************************************************)
EXTENDS Session

\* What a message draws, or will once the proxy has translated it.
Draws(m) ==
  IF m.type \in {"bitmap", "scrblt"} THEN <<m>>
  ELSE IF m.type \in {"raw", "copyrect"} THEN <<Drawn(m)>>
  ELSE <<>>

\* The numbers of the events it brings to the server, or will.
Brings(m) ==
  IF m.type = "event" THEN <<m.id>>
  ELSE IF m.type = "input" THEN LET events == Forwarded(m)
                                IN [i \in DOMAIN events |-> events[i].id]
  ELSE <<>>

DrawingsIn(stream) == FlattenSeq([i \in DOMAIN stream |-> Draws(stream[i])])
EventsIn(stream) == FlattenSeq([i \in DOMAIN stream |-> Brings(stream[i])])

Running == status = "running"
Up == {party \in {"client", "server", "session"} :
         \/ party = "client" /\ clientOpen
         \/ party = "server" /\ serverOpen
         \/ party = "session" /\ Running}
ToClient == IF Running /\ clientOpen THEN DrawingsIn(p2c \o s2p) ELSE <<>>
ToServer == IF Running /\ serverOpen THEN EventsIn(p2s \o c2p) ELSE <<>>

Remote == INSTANCE Display WITH up <- Up, toClient <- ToClient, toServer <- ToServer

\* Every step of the proxy, and every interleaving with the steps of its peers, is a
\* step of the two wires, or none: no rectangle and no event is lost, repeated,
\* changed or overtaken between the two ends, whatever session.c reads first, and
\* what is lost when a peer goes is what was sent last.
Implements == Remote!Spec
=============================================================================
