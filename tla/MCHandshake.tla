----------------------------- MODULE MCHandshake -----------------------------
(***************************************************************************)
(* The servers of the runs of Handshake: those whose pixels are as the     *)
(* client takes them, of each depth, and one of each kind that is not: in  *)
(* more bits, with other maxima, of a depth the proxy does not know.       *)
(***************************************************************************)
EXTENDS Handshake

Pixels(bits, depth, maxima) == [bits |-> bits, depth |-> depth, maxima |-> maxima]

UsualNative == {Pixels(32, 24, "rdp")}

SmallNatives ==
  UsualNative
  \cup {Pixels(8, 8, "other"), Pixels(16, 15, "rdp"), Pixels(16, 16, "rdp")}
  \cup {Pixels(32, 16, "rdp"), Pixels(16, 16, "other"), Pixels(32, 32, "rdp")}
=============================================================================
