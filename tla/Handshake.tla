----------------------------- MODULE Handshake -----------------------------
(***************************************************************************)
(* How a session begins (v2r_session_build_conn, session.c): the proxy     *)
(* first runs the RFB 3.3 handshake as a client of the VNC server (vnc.c), *)
(* then the RDP connection sequence as a server of the RDP client (x224.c, *)
(* mcs.c, sec.c, rdp.c), each a fixed order of messages received and sent. *)
(*                                                                         *)
(* A label pc that is the type of a message means that the proxy waits for *)
(* that message.  The peers run through scripts of their own.  The stream  *)
(* of the server is one of units, since v2r_vnc_recv takes whatever part   *)
(* of it has arrived; everything else is received whole (MSG_WAITALL).     *)
(***************************************************************************)
EXTENDS Naturals, Sequences, FiniteSets, McsLengths

CONSTANTS Encryptions,           \* methods the option --encryption may name
          Securities,            \* what the server may ask for
          Natives,               \* the server's own pixels, but for the order
          ChannelCounts,         \* virtual channels the client may want
          MAX_CHANNELS_ALLOWED,
          Environment            \* bound: what peers and network may do

Behaviours == {"split", "clientCloses", "serverCloses", "interrupt"}
ASSUME EncryptionsAssumption == Encryptions \subseteq {"none", "40bit", "56bit", "128bit"}
ASSUME SecuritiesAssumption ==
         Securities \subseteq {"none", "vnc_auth", "wrong_password", "refused"}
\* The maxima are those of the colours of RDP at this depth, or others.
ASSUME NativesAssumption ==
         Natives \subseteq [bits : {8, 16, 32}, depth : 1..32, maxima : {"rdp", "other"}]
ASSUME ChannelsAssumption == ChannelCounts \subseteq Nat /\ MAX_CHANNELS_ALLOWED \in Nat
ASSUME EnvironmentAssumption == Environment \subseteq Behaviours
\* The one byte of the length of the GCC blocks has room for them.
ASSUME RoomAssumption == MAX_CHANNELS_ALLOWED <= 104

MCS_BASE_CHANNEL_ID == 1001
MCS_IO_CHANNEL_ID   == 1003

VARIABLES
  pc,               \* where build_conn is; "transmit", "failed" or "killed" at last
  encryption,       \* v2r_session_opt_t.encryption_method
  format,           \* v2r_vnc_t.bits_per_pixel to blue_shift
  bpp,              \* v2r_vnc_t.bpp
  channel_count, user_channel_id,   \* of v2r_mcs_t
  joined,           \* channels joined so far
  s2p, arrived,     \* units of the server, how many of them have arrived
  p2s, c2p, p2c,    \* messages to the server, from and to the client
  clientOpen, serverOpen,
  cpos, learned,    \* the client: place in its script, what it was told
  spos, security, native, inEffect, pend, updates
                    \* the server: place in its script, what it asks for, its own
                    \* pixel format and the one it was set to, the pending
                    \* request, updates sent

proxy  == <<encryption, format, bpp, channel_count, user_channel_id, joined>>
client == <<clientOpen, cpos, learned>>
server == <<serverOpen, spos, security, native, inEffect, pend, updates>>
vars   == <<pc, proxy, s2p, arrived, p2s, c2p, p2c, client, server>>

(***************************************************************************)
(* Messages.                                                               *)
(***************************************************************************)
\* What is the server's own, and where the red, green and blue of a pixel are: as the
\* server likes it, in the order of RDP, or in the colour map.
Formats == [own : Natives, order : {"server", "rdp", "map"}]
NoFormat == [own |-> [bits |-> 0, depth |-> 0, maxima |-> "other"], order |-> "server"]

Message(type)           == [type |-> type]
ConnectInitial(n)       == [type |-> "connect_initial", channels |-> n]
ConnectResponse(m, ids, lengths) ==
  [type |-> "connect_response", method |-> m, ids |-> ids, lengths |-> lengths]
AttachUserConfirm(u)    == [type |-> "attach_user_confirm", user |-> u]
ChannelJoin(u, c)       == [type |-> "channel_join_request", user |-> u, channel |-> c]
ChannelJoinConfirm(c)   == [type |-> "channel_join_confirm", channel |-> c]
Data(type, u)           == [type |-> type, user |-> u, channel |-> MCS_IO_CHANNEL_ID]
DemandActive(b)         == [type |-> "demand_active", bpp |-> b]
SetPixelFormat(f)       == [type |-> "set_pixel_format", format |-> f]
Request(inc)            == [type |-> "request", incremental |-> inc]

DataTypes == {"security_exchange", "client_info", "confirm_active", "synchronize",
              "control_cooperate", "control_request", "font_list"}

\* The units a message of the server is split into.
Parts(type) == IF "split" \in Environment /\ type \in {"version", "server_init"}
                 THEN 1..2 ELSE 1..1
Unit(type, part) == [type |-> type, part |-> part]
\* What stays the same (what the server asks for, its native format) is not
\* repeated in its units.
Units(type) == [part \in Parts(type) |-> Unit(type, part)]
Update(f)   == [type |-> "update", part |-> 1, format |-> f]

(***************************************************************************)
(* Both structures are zeroed; the connections are open.                   *)
(***************************************************************************)
Init ==
  /\ pc = "version" /\ encryption \in Encryptions
  /\ format = NoFormat /\ bpp = 0
  /\ channel_count = 0 /\ user_channel_id = 0 /\ joined = 0
  /\ s2p = <<>> /\ arrived = 0 /\ p2s = <<>> /\ c2p = <<>> /\ p2c = <<>>
  /\ clientOpen = TRUE /\ cpos = 1
  /\ \E n \in ChannelCounts :
       learned = [channels |-> n, ids |-> [c \in 1..n |-> 0], user |-> 0,
                  method |-> "none", bpp |-> 0, confirmed |-> {}]
  /\ serverOpen = TRUE /\ spos = 1 /\ security \in Securities
  /\ native \in Natives /\ inEffect = [own |-> native, order |-> "server"]
  /\ pend = "none" /\ updates = 0

Running == pc \notin {"failed", "killed"}

\* The labels at which the proxy receives from the server and from the client.
FromServer == {"version", "security", "challenge", "result", "server_init"}
FromClient == {"connection_request", "connect_initial", "erect_domain_request",
               "attach_user_request", "channel_join_request"} \cup DataTypes
Waiting == (pc \in FromServer /\ arrived = 0) \/ (pc \in FromClient /\ c2p = <<>>)

\* The session is given up: nothing else is received or sent.
GiveUp(how) == pc' = how /\ UNCHANGED <<proxy, s2p, arrived, p2s, c2p, p2c, client, server>>

\* send() to a peer that has closed: an error, or SIGPIPE.
SendFails(open) == ~open /\ \E how \in {"failed", "killed"} : GiveUp(how)

\* The third outcome, a send the kernel still accepts, is lost.
Put(open, stream, msgs) == IF open THEN stream \o msgs ELSE stream

(***************************************************************************)
(* v2r_vnc_build_conn.                                                     *)
(***************************************************************************)
\* v2r_vnc_recv: all that has arrived, which is taken for one message.
Recv == /\ arrived > 0
        /\ s2p' = SubSeq(s2p, arrived + 1, Len(s2p)) /\ arrived' = 0

\* v2r_vnc_recv1: as many bytes as the message has.
Recv1 == /\ arrived > 0
         /\ s2p' = Tail(s2p) /\ arrived' = arrived - 1

SendServer(msgs, label) ==
  \/ /\ pc' = label /\ p2s' = Put(serverOpen, p2s, msgs)
     /\ UNCHANGED <<proxy, s2p, arrived, c2p, p2c, client, server>>
  \/ SendFails(serverOpen)

ReceiveProtocolVersion ==
  /\ pc = "version" /\ Recv
  /\ pc' = "send_version"
  /\ UNCHANGED <<proxy, p2s, c2p, p2c, client, server>>

SendProtocolVersion ==
  pc = "send_version" /\ SendServer(<<Message("version")>>, "security")

ReceiveSecurityType ==
  /\ pc = "security" /\ arrived > 0 /\ Head(s2p).type = "security"
  /\ Recv1
  /\ \/ security = "none" /\ pc' = "send_client_init"
     \/ security \in {"vnc_auth", "wrong_password"} /\ pc' = "challenge"
  /\ UNCHANGED <<proxy, p2s, c2p, p2c, client, server>>

v2r_vnc_process_vnc_authentication ==
  \/ /\ pc = "challenge" /\ Recv1
     /\ pc' = "send_response"
     /\ UNCHANGED <<proxy, p2s, c2p, p2c, client, server>>
  \/ pc = "send_response" /\ SendServer(<<Message("response")>>, "result")
  \/ /\ pc = "result" /\ security = "vnc_auth" /\ Recv1
     /\ pc' = "send_client_init"
     /\ UNCHANGED <<proxy, p2s, c2p, p2c, client, server>>

SendClientInit ==
  pc = "send_client_init" /\ SendServer(<<Message("client_init")>>, "server_init")

\* The order of the colours is changed to that of RDP for the depths RDP knows; the
\* bits of a pixel and the maxima stay as they are, and bpp is taken from the depth.
v2r_vnc_recv_server_init ==
  /\ pc = "server_init" /\ Recv
  /\ pc' = "send_setup"
  /\ format' = [own |-> native,
                order |-> IF native.depth \in {24, 16, 15} THEN "rdp"
                          ELSE IF native.depth = 8 THEN "map" ELSE "server"]
  /\ bpp' = CASE native.depth = 24 -> 32
              [] native.depth \in {8, 15, 16} -> native.depth
              [] OTHER -> bpp
  /\ UNCHANGED <<encryption, channel_count, user_channel_id, joined, p2s, c2p, p2c,
                 client, server>>

\* Mutant: the first update is asked for before the format is set.
SetupRequestFirst == <<Request(FALSE), SetPixelFormat(format), Message("set_encodings")>>
\* Mutant: only changes are asked for, as after an update.
SetupIncremental == <<SetPixelFormat(format), Message("set_encodings"), Request(TRUE)>>
\* The three messages that end the handshake; the display is not suppressed yet.
Setup == <<SetPixelFormat(format), Message("set_encodings"), Request(FALSE)>>

SendSetup == pc = "send_setup" /\ SendServer(Setup, "connection_request")

\* The end of the stream, a security type the proxy does not know (or bytes that
\* are none), a password the server does not accept.
VncFails ==
  /\ \/ /\ pc \in FromServer /\ s2p = <<>> /\ ~serverOpen
     \/ /\ pc = "security" /\ arrived > 0
        /\ Head(s2p).type = "security" => security = "refused"
     \/ pc = "result" /\ arrived > 0 /\ security = "wrong_password"
  /\ GiveUp("failed")

v2r_vnc_build_conn ==
  \/ ReceiveProtocolVersion \/ SendProtocolVersion \/ ReceiveSecurityType
  \/ v2r_vnc_process_vnc_authentication \/ SendClientInit
  \/ v2r_vnc_recv_server_init \/ SendSetup \/ VncFails

(***************************************************************************)
(* v2r_rdp_build_conn, layer by layer.                                     *)
(***************************************************************************)
\* Mutant: the user channel takes the number of the last virtual channel.
UserChannelTaken(n) == MCS_IO_CHANNEL_ID + n
UserChannel(n) == MCS_IO_CHANNEL_ID + n + 1

\* The channel the loop of v2r_mcs_build_conn waits for.
ChannelToJoin ==
  CASE joined = 0 -> user_channel_id
    [] joined = 1 -> MCS_IO_CHANNEL_ID
    [] OTHER      -> MCS_IO_CHANNEL_ID + (joined - 2) + 1

\* Mutant: one virtual channel is not waited for.
LastJoinEarly == joined = channel_count
LastJoin == joined + 1 = channel_count + 2

\* Mutant: any number of channels is accepted.
AcceptsAnyCount(m) ==
  /\ m.type = pc
  /\ m.type \in DataTypes => MCS_BASE_CHANNEL_ID + m.user = user_channel_id
  /\ m.type = "channel_join_request" =>
       MCS_BASE_CHANNEL_ID + m.user = user_channel_id /\ m.channel = ChannelToJoin

\* What each receiving function demands of the message it waits for.
Accepts(m) ==
  /\ m.type = pc
  /\ m.type = "connect_initial" => m.channels <= MAX_CHANNELS_ALLOWED
  /\ m.type \in DataTypes => MCS_BASE_CHANNEL_ID + m.user = user_channel_id
  /\ m.type = "client_info" => m.channel = MCS_IO_CHANNEL_ID
  /\ m.type = "channel_join_request" =>
       MCS_BASE_CHANNEL_ID + m.user = user_channel_id /\ m.channel = ChannelToJoin

Receives(type) == pc = type /\ c2p # <<>> /\ Accepts(Head(c2p))

\* Nothing but the place in the connection sequence changes.
Receive(type, label) ==
  /\ Receives(type)
  /\ pc' = label /\ c2p' = Tail(c2p)
  /\ UNCHANGED <<proxy, s2p, arrived, p2s, p2c, client, server>>

SendClient(m, label) ==
  /\ pc' = label /\ p2c' = Put(clientOpen, p2c, <<m>>)
  /\ UNCHANGED <<proxy, s2p, arrived, p2s, c2p, client, server>>

\* v2r_x224_build_conn does not look at the result of its send.
v2r_x224_build_conn ==
  \/ Receive("connection_request", "send_connection_confirm")
  \/ /\ pc = "send_connection_confirm"
     /\ \/ SendClient(Message("connection_confirm"), "connect_initial")
        \/ ~clientOpen /\ GiveUp("killed")

v2r_mcs_recv_conn_init ==
  /\ Receives("connect_initial")
  /\ channel_count' = Head(c2p).channels
  /\ pc' = "send_connect_response" /\ c2p' = Tail(c2p)
  /\ UNCHANGED <<encryption, format, bpp, user_channel_id, joined, s2p, arrived, p2s,
                 p2c, client, server>>

\* The channels of the response are padded to an even number, and two lengths are
\* announced: of the blocks, and of the whole.  Its send is not looked at either.  It
\* fails itself only if the clock does (mcs.c:253), which is left out.
v2r_mcs_send_conn_resp ==
  LET even == channel_count_even(channel_count)
      ids  == [i \in 1..even |-> IF i <= channel_count THEN MCS_IO_CHANNEL_ID + i ELSE 0]
      lengths == [blocks   |-> GccLength(even),
                  response |-> mcs_rsp_len(UserData(even, encryption))]
  IN /\ pc = "send_connect_response"
     /\ \/ SendClient(ConnectResponse(encryption, ids, lengths), "erect_domain_request")
        \/ ~clientOpen /\ GiveUp("killed")

v2r_mcs_recv_erect_domain_req == Receive("erect_domain_request", "attach_user_request")

v2r_mcs_recv_attach_user_request ==
  Receive("attach_user_request", "send_attach_user_confirm")

v2r_mcs_send_attach_user_confirm ==
  /\ pc = "send_attach_user_confirm"
  /\ \/ /\ user_channel_id' = UserChannel(channel_count)
        /\ p2c' = Put(clientOpen, p2c,
                      <<AttachUserConfirm(user_channel_id' - MCS_BASE_CHANNEL_ID)>>)
        /\ pc' = "channel_join_request"
        /\ UNCHANGED <<encryption, format, bpp, channel_count, joined, s2p, arrived,
                       p2s, c2p, client, server>>
     \/ SendFails(clientOpen)

\* The user channel, the I/O channel and the virtual channels, in this order.
v2r_mcs_join_channel ==
  /\ Receives("channel_join_request")
  /\ \/ /\ c2p' = Tail(c2p)
        /\ p2c' = Put(clientOpen, p2c, <<ChannelJoinConfirm(ChannelToJoin)>>)
        /\ joined' = joined + 1
        /\ pc' = IF LastJoin THEN "client_info" ELSE pc
        /\ UNCHANGED <<encryption, format, bpp, channel_count, user_channel_id, s2p,
                       arrived, p2s, client, server>>
     \/ SendFails(clientOpen)

v2r_mcs_build_conn ==
  \/ v2r_x224_build_conn \/ v2r_mcs_recv_conn_init \/ v2r_mcs_send_conn_resp
  \/ v2r_mcs_recv_erect_domain_req \/ v2r_mcs_recv_attach_user_request
  \/ v2r_mcs_send_attach_user_confirm \/ v2r_mcs_join_channel

Send(label, m, next) ==
  pc = label /\ (SendClient(m, next) \/ SendFails(clientOpen))

v2r_rdp_recv_client_info       == Receive("client_info", "send_license_error")
v2r_rdp_send_license_error     ==
  Send("send_license_error", Message("license_error"), "send_demand_active")
v2r_rdp_send_demand_active     ==
  Send("send_demand_active", DemandActive(bpp), "confirm_active")
v2r_rdp_recv_confirm_active    == Receive("confirm_active", "synchronize")
v2r_rdp_recv_synchronize       == Receive("synchronize", "control_cooperate")
v2r_rdp_recv_control_cooperate == Receive("control_cooperate", "control_request")
v2r_rdp_recv_control_request   == Receive("control_request", "font_list")
v2r_rdp_recv_font_list         == Receive("font_list", "send_synchronize")
v2r_rdp_send_synchronize       ==
  Send("send_synchronize", Message("synchronize"), "send_control_cooperate")
v2r_rdp_send_control_cooperate ==
  Send("send_control_cooperate", Message("control_cooperate"),
       "send_control_grant_control")

\* Mutant: the client is not granted control.
GrantControlSkipped ==
  /\ pc = "send_control_grant_control" /\ pc' = "send_font_map"
  /\ UNCHANGED <<proxy, s2p, arrived, p2s, c2p, p2c, client, server>>
v2r_rdp_send_control_grant_control ==
  Send("send_control_grant_control", Message("control_granted"), "send_font_map")
v2r_rdp_send_font_map          ==
  Send("send_font_map", Message("font_map"), "transmit")

\* The end of the stream, or a message that is not the one waited for.
RdpFails ==
  /\ pc \in FromClient
  /\ IF c2p = <<>> THEN ~clientOpen ELSE ~Accepts(Head(c2p))
  /\ GiveUp("failed")

v2r_rdp_build_conn ==
  \/ v2r_mcs_build_conn
  \/ v2r_rdp_recv_client_info \/ v2r_rdp_send_license_error
  \/ v2r_rdp_send_demand_active \/ v2r_rdp_recv_confirm_active
  \/ v2r_rdp_recv_synchronize \/ v2r_rdp_recv_control_cooperate
  \/ v2r_rdp_recv_control_request \/ v2r_rdp_recv_font_list
  \/ v2r_rdp_send_synchronize \/ v2r_rdp_send_control_cooperate
  \/ v2r_rdp_send_control_grant_control \/ v2r_rdp_send_font_map
  \/ RdpFails

\* SIGINT, whose handler is installed without SA_RESTART, makes a recv that waits
\* fail.
Interrupted == "interrupt" \in Environment /\ Waiting /\ GiveUp("failed")

v2r_session_build_conn == v2r_vnc_build_conn \/ v2r_rdp_build_conn

(***************************************************************************)
(* The RDP client.  Its script depends on what it has been told so far: it *)
(* joins the channels the proxy numbered, and sends a security exchange if *)
(* the proxy chose to encrypt.                                             *)
(***************************************************************************)
Says(m)  == [does |-> "say", msg |-> m]
Hears(t) == [does |-> "hear", type |-> t]

Joins(ids) ==
  [n \in 1..2 * Len(ids) |->
     IF n % 2 = 1 THEN Says(ChannelJoin(learned.user, ids[(n + 1) \div 2]))
                  ELSE Hears("channel_join_confirm")]

ClientScript ==
  LET Says_(type) == Says(Data(type, learned.user))
  IN <<Says(Message("connection_request")), Hears("connection_confirm"),
       Says(ConnectInitial(learned.channels)), Hears("connect_response"),
       Says(Message("erect_domain_request")), Says(Message("attach_user_request")),
       Hears("attach_user_confirm")>>
     \o Joins(<<learned.user + MCS_BASE_CHANNEL_ID, MCS_IO_CHANNEL_ID>> \o learned.ids)
     \o (IF learned.method = "none" THEN <<>> ELSE <<Says_("security_exchange")>>)
     \o <<Says_("client_info"), Hears("license_error"), Hears("demand_active"),
          Says_("confirm_active"), Says_("synchronize"), Says_("control_cooperate"),
          Says_("control_request"), Says_("font_list"), Hears("synchronize"),
          Hears("control_cooperate"), Hears("control_granted"), Hears("font_map")>>

ClientActive == cpos > Len(ClientScript)

\* The client takes as many of the channels of the response as it asked for.
Learn(m) ==
  CASE m.type = "connect_response" ->
         [learned EXCEPT !.method = m.method, !.ids = SubSeq(m.ids, 1, learned.channels)]
    [] m.type = "attach_user_confirm" -> [learned EXCEPT !.user = m.user]
    [] m.type = "channel_join_confirm" ->
         [learned EXCEPT !.confirmed = @ \cup {m.channel}]
    [] m.type = "demand_active" -> [learned EXCEPT !.bpp = m.bpp]
    [] OTHER -> learned

ClientStep ==
  /\ Running /\ clientOpen /\ ~ClientActive
  /\ LET step == ClientScript[cpos]
     IN \/ /\ step.does = "say"
           /\ c2p' = Append(c2p, step.msg)
           /\ UNCHANGED <<p2c, learned>>
        \/ /\ step.does = "hear" /\ p2c # <<>> /\ Head(p2c).type = step.type
           /\ p2c' = Tail(p2c) /\ learned' = Learn(Head(p2c))
           /\ UNCHANGED c2p
  /\ cpos' = cpos + 1
  /\ UNCHANGED <<pc, proxy, s2p, arrived, p2s, clientOpen, server>>

ClientCloses ==
  /\ "clientCloses" \in Environment /\ Running /\ clientOpen
  /\ clientOpen' = FALSE
  /\ \E n \in 0..Len(c2p) : c2p' = SubSeq(c2p, 1, n)
  /\ p2c' = <<>>
  /\ UNCHANGED <<pc, proxy, s2p, arrived, p2s, cpos, learned, server>>

(***************************************************************************)
(* The VNC server, and the network that delivers what it sends.            *)
(***************************************************************************)
ServerScript ==
  <<Says("version"), Hears("version"), Says("security")>>
  \o (IF security = "none" THEN <<>>
      ELSE <<Says("challenge"), Hears("response"), Says("result")>>)
  \o <<Hears("client_init"), Says("server_init")>>

\* It has nothing more to say to a viewer it turned away.
TurnedAway == \/ security = "refused" /\ spos > 3
              \/ security = "wrong_password" /\ spos > 6
ServerActive == ~TurnedAway /\ spos > Len(ServerScript)

ServerStep ==
  /\ Running /\ serverOpen /\ ~TurnedAway /\ ~ServerActive
  /\ LET step == ServerScript[spos]
     IN \/ /\ step.does = "say"
           /\ s2p' = s2p \o Units(step.msg)
           /\ UNCHANGED p2s
        \/ /\ step.does = "hear" /\ p2s # <<>> /\ Head(p2s).type = step.type
           /\ p2s' = Tail(p2s)
           /\ UNCHANGED s2p
  /\ spos' = spos + 1
  /\ UNCHANGED <<pc, proxy, arrived, c2p, p2c, client, serverOpen, security, native,
                 inEffect, pend, updates>>

\* After the handshake it takes the messages of a viewer in any order.
ServerReads ==
  /\ Running /\ serverOpen /\ ServerActive /\ p2s # <<>>
  /\ p2s' = Tail(p2s)
  /\ LET m == Head(p2s)
     IN /\ inEffect' = IF m.type = "set_pixel_format" THEN m.format ELSE inEffect
        /\ pend' = IF m.type # "request" THEN pend
                   ELSE IF m.incremental THEN "incremental" ELSE "full"
  /\ UNCHANGED <<pc, proxy, s2p, arrived, c2p, p2c, client, serverOpen, spos, security,
                 native, updates>>

\* A request is answered as soon as the server likes, in the format of the moment.
ServerUpdates ==
  /\ Running /\ serverOpen /\ pend # "none"
  /\ s2p' = Append(s2p, Update(inEffect))
  /\ pend' = "none" /\ updates' = updates + 1
  /\ UNCHANGED <<pc, proxy, arrived, p2s, c2p, p2c, client, serverOpen, spos, security,
                 native, inEffect>>

ServerTurnsAway ==
  /\ Running /\ serverOpen /\ TurnedAway
  /\ serverOpen' = FALSE /\ p2s' = <<>>
  /\ UNCHANGED <<pc, proxy, s2p, arrived, c2p, p2c, client, spos, security, native,
                 inEffect, pend, updates>>

\* What has not arrived yet may be lost with the connection.
ServerCloses ==
  /\ "serverCloses" \in Environment /\ Running /\ serverOpen
  /\ serverOpen' = FALSE /\ p2s' = <<>>
  /\ \E n \in arrived..Len(s2p) : s2p' = SubSeq(s2p, 1, n)
  /\ UNCHANGED <<pc, proxy, arrived, c2p, p2c, client, spos, security, native,
                 inEffect, pend, updates>>

Arrive ==
  /\ Running /\ arrived < Len(s2p)
  /\ arrived' = arrived + 1
  /\ UNCHANGED <<pc, proxy, s2p, p2s, c2p, p2c, client, server>>

Environs ==
  \/ ClientStep \/ ClientCloses
  \/ ServerStep \/ ServerReads \/ ServerUpdates \/ ServerTurnsAway \/ ServerCloses
  \/ Arrive

Next == v2r_session_build_conn \/ Interrupted \/ Environs

Spec == Init /\ [][Next]_vars

\* The proxy runs on, what was sent arrives, and the peers go on with their
\* scripts; nobody has to close.
Fairness ==
  /\ WF_vars(v2r_session_build_conn) /\ WF_vars(Arrive)
  /\ WF_vars(ClientStep) /\ WF_vars(ServerStep) /\ WF_vars(ServerReads)
  /\ WF_vars(ServerUpdates) /\ WF_vars(ServerTurnsAway)

FairSpec == Spec /\ Fairness

(***************************************************************************)
(* Properties.                                                             *)
(***************************************************************************)
Ids == 0..MCS_IO_CHANNEL_ID + MAX_CHANNELS_ALLOWED + 1
ServerMessages ==
  [type : {"version", "response", "client_init", "set_encodings"}]
  \cup [type : {"set_pixel_format"}, format : Formats]
  \cup [type : {"request"}, incremental : BOOLEAN]
ClientMessages ==
  [type : {"connection_request", "erect_domain_request", "attach_user_request"}]
  \cup [type : {"connect_initial"}, channels : ChannelCounts]
  \cup [type : {"channel_join_request"}, user : Ids, channel : Ids]
  \cup [type : DataTypes, user : Ids, channel : {MCS_IO_CHANNEL_ID}]
OutputMessages ==
  [type : {"connection_confirm", "license_error", "synchronize", "control_cooperate",
           "control_granted", "font_map"}]
  \cup [type : {"connect_response"}, method : Encryptions, ids : Seq(Ids),
        lengths : [blocks : 0..255, response : Nat]]
  \cup [type : {"attach_user_confirm"}, user : Ids]
  \cup [type : {"channel_join_confirm"}, channel : Ids]
  \cup [type : {"demand_active"}, bpp : Nat]
ServerUnits ==
  [type : {"version", "security", "challenge", "result", "server_init"}, part : 1..2]
  \cup [type : {"update"}, part : {1}, format : Formats]

Labels ==
  FromServer \cup (FromClient \ {"security_exchange"})
  \cup {"send_version", "send_response", "send_client_init", "send_setup",
        "send_connection_confirm", "send_connect_response", "send_attach_user_confirm",
        "send_license_error", "send_demand_active", "send_synchronize",
        "send_control_cooperate", "send_control_grant_control", "send_font_map",
        "transmit", "failed", "killed"}

\* Every variable has its type; channels and places stay within their bounds.
TypeOK ==
  /\ pc \in Labels /\ encryption \in Encryptions /\ security \in Securities
  /\ format \in Formats \cup {NoFormat}
  /\ bpp \in {0, 8, 15, 16, 32}
  /\ channel_count \in 0..MAX_CHANNELS_ALLOWED
  /\ user_channel_id \in Ids /\ joined \in 0..channel_count + 2
  /\ s2p \in Seq(ServerUnits) /\ arrived \in 0..Len(s2p)
  /\ p2s \in Seq(ServerMessages)
  /\ c2p \in Seq(ClientMessages) /\ p2c \in Seq(OutputMessages)
  /\ clientOpen \in BOOLEAN /\ serverOpen \in BOOLEAN
  /\ cpos \in 1..Len(ClientScript) + 1 /\ spos \in 1..Len(ServerScript) + 1
  /\ learned \in [channels : ChannelCounts, ids : Seq(Ids), user : Ids, bpp : Nat,
                  method : Encryptions \cup {"none"}, confirmed : SUBSET Ids]
  /\ native \in Natives /\ inEffect \in Formats
  /\ pend \in {"none", "incremental", "full"} /\ updates \in 0..1

\* The client and the proxy agree on the channels when the session starts: the
\* client has joined as many different channels as it wanted and the two of its
\* own, and the user it sends with is the one mcs.c compares every PDU with.
ChannelsAgree ==
  pc = "transmit" =>
    /\ learned.user + MCS_BASE_CHANNEL_ID = user_channel_id
    /\ learned.confirmed = {user_channel_id, MCS_IO_CHANNEL_ID}
                            \cup {learned.ids[c] : c \in 1..learned.channels}
    /\ Cardinality(learned.confirmed) = learned.channels + 2

\* The bits of a pixel of bpp colours.
BitsOf(b) == IF b = 15 THEN 16 ELSE b

\* Pixels in this format are what the client makes of b bits per pixel.
Agrees(f, b) ==
  /\ f.own.bits = BitsOf(b)
  /\ \/ b = 8 /\ f.order = "map"
     \/ b \in {15, 16, 32} /\ f.order = "rdp" /\ f.own.maxima = "rdp"

\* The servers whose pixels the proxy can pass on without looking at them.
Usual(n) ==
  /\ <<n.depth, n.bits>> \in {<<8, 8>>, <<15, 16>>, <<16, 16>>, <<24, 32>>}
  /\ n.depth = 8 \/ n.maxima = "rdp"

\* Every pixel the server sends is in the format the client is told of, for exactly
\* those servers: the proxy tells the server to go on with its own bits per pixel and
\* maxima (vnc.c:248) and the client what the depth alone says (vnc.c:152).  The server
\* has changed to the order of RDP before it answers the first request, however early
\* it does.
FormatAgreed ==
  /\ \A i \in DOMAIN s2p :
       s2p[i].type = "update" => (Agrees(s2p[i].format, bpp) <=> Usual(native))
  /\ pc = "transmit" => learned.bpp = bpp

\* The session starts where Session begins: the handshakes have left nothing in
\* the streams but updates, and the whole screen has been asked for.
StartsSession ==
  pc = "transmit" =>
    /\ c2p = <<>>
    /\ \A i \in DOMAIN s2p : s2p[i].type = "update"
    /\ serverOpen => \/ \E i \in DOMAIN p2s : p2s[i] = Request(FALSE)
                     \/ pend = "full"
                     \/ updates > 0

GoodClient == learned.channels <= MAX_CHANNELS_ALLOWED
GoodServer == security \in {"none", "vnc_auth"}

\* No message of a peer that keeps to its protocol, however early it is sent, is
\* turned down: the connection fails only because a peer has closed, the server
\* does not admit the proxy, the client wants too many channels, or SIGINT
\* interrupts a wait.
FailsForAReason ==
  [][pc' # pc /\ pc' \in {"failed", "killed"} =>
       ~clientOpen \/ ~serverOpen \/ ~GoodClient \/ ~GoodServer \/ Waiting]_vars

\* The lengths mcs.c announces are those of what it writes, for every number of
\* channels a client may ask for: the length of the user data passes the boundary of
\* the short form of BER, where the announced total steps at 0x81 (mcs.c:326) and the
\* written one at 0x80 (mcs.c:219), only thanks to the padding of the channels.
LengthsAgree ==
  \A i \in DOMAIN p2c :
    p2c[i].type = "connect_response" /\ p2c[i].method = "none" =>
      LET even == Len(p2c[i].ids)
      IN /\ p2c[i].lengths.blocks = GccBlocks(even, "none")
         /\ p2c[i].lengths.response = ResponseContents(UserData(even, "none"))

\* With peers that stay, the handshakes end and all three parties know it, unless
\* the connection was given up (for which FailsForAReason knows the reasons): the
\* proxy never waits for a message of a peer that waits for one of the proxy.
Established ==
  GoodClient /\ GoodServer /\ [](clientOpen /\ serverOpen)
    => <>(\/ pc = "failed"
          \/ pc = "transmit" /\ ClientActive /\ ServerActive /\ updates = 1)

\* "recv ServerInit message" (vnc.c:236): once it has been received, nothing of it
\* is left to be taken for the next message.
ServerInitReceived ==
  bpp # 0 => \A i \in DOMAIN s2p : s2p[i].type # "server_init"

\* "preferred RDP encryption method [...] possible values are:
\* none/40bit/56bit/128bit" (vnc2rdp.c:132): a client that encrypts with the method
\* the proxy prefers is connected.
PreferredEncryption ==
  [][encryption # "none" /\ pc' = "failed" =>
       ~clientOpen \/ ~serverOpen \/ ~GoodClient \/ ~GoodServer]_vars
=============================================================================
