--------------------------- MODULE HandshakeProof ---------------------------
(***************************************************************************)
(* Proofs about Handshake.  In this order: the lengths of the connect      *)
(* response, the conversation with the client and the channels it agrees   *)
(* on, the conversation with the server and the format of the pixels, the  *)
(* meeting of the two at the start of a session, why a handshake fails,    *)
(* and the types.                                                          *)
(***************************************************************************)
EXTENDS Handshake, TLAPS, SequenceTheorems, FiniteSetTheorems

(***************************************************************************)
(* The lengths.                                                            *)
(***************************************************************************)
\* The padding makes the count even.
LEMMA EvenIsEven ==
  ASSUME NEW n \in 0..MAX_CHANNELS_ALLOWED
  PROVE  \E k \in 0..52 : channel_count_even(n) = 2 * k
<1>1. n \in 0..104
  BY RoomAssumption, ChannelsAssumption
<1>2. CASE n % 2 = 0
  <2>1. PICK k \in 0..52 : n = 2 * k
    BY <1>1, <1>2
  <2> QED BY <2>1, <1>2 DEF channel_count_even
<1>3. CASE n % 2 = 1
  <2>1. PICK k \in 0..51 : n = 2 * k + 1
    BY <1>1, <1>3
  <2> QED BY <2>1, <1>3 DEF channel_count_even
<1> QED BY <1>1, <1>2, <1>3

\* Both lengths are right for an even number of channels; for the second, the number of
\* bytes of user data at which they would differ, 128, is that of an odd one.
LEMMA EvenLengths ==
  ASSUME NEW k \in 0..52
  PROVE  /\ GccLength(2 * k) = GccBlocks(2 * k, "none")
         /\ mcs_rsp_len(UserData(2 * k, "none")) = ResponseContents(UserData(2 * k, "none"))
<1>1. GccBlocks(2 * k, "none") = 44 + 4 * k
  BY DEF GccBlocks, CoreData, SecurityData, NetworkData
<1>2. UserData(2 * k, "none") = 66 + 4 * k
  BY <1>1 DEF UserData
<1>3. GccLength(2 * k) = 44 + 4 * k
  BY DEF GccLength
<1>4. Elements = 34
  BY DEF Elements, BerHeader
<1>5. ResponseContents(66 + 4 * k)
        = 34 + (1 + (IF 66 + 4 * k >= 128 THEN 3 ELSE 1)) + (66 + 4 * k)
  BY <1>4 DEF ResponseContents, BerHeader
<1>6. mcs_rsp_len(66 + 4 * k) = 66 + 4 * k + (IF 66 + 4 * k > 128 THEN 38 ELSE 36)
  BY DEF mcs_rsp_len
<1>7. 66 + 4 * k # 128
  OBVIOUS
<1> QED BY <1>1, <1>2, <1>3, <1>5, <1>6, <1>7

(***************************************************************************)
(* What is in the streams of the client.  The number of channels the proxy *)
(* pads is one it has accepted, so one that a client asked for; to know    *)
(* that it is a number at all takes the types of what the client has been  *)
(* told, since its script depends on it.                                   *)
(***************************************************************************)
\* The response to a client that wants n channels.
Response(m, n) ==
  LET even == channel_count_even(n)
  IN ConnectResponse(m, [i \in 1..even |-> IF i <= n THEN MCS_IO_CHANNEL_ID + i ELSE 0],
                     [blocks   |-> GccLength(even),
                      response |-> mcs_rsp_len(UserData(even, m))])

ToClient(n) ==
  [type : {"connection_confirm", "license_error", "synchronize", "control_cooperate",
           "control_granted", "font_map"}]
  \cup {Response(m, k) : m \in Encryptions, k \in {n} \cap (0..MAX_CHANNELS_ALLOWED)}
  \cup [type : {"attach_user_confirm"}, user : Nat]
  \cup [type : {"channel_join_confirm"}, channel : Nat]
  \cup [type : {"demand_active"}, bpp : Nat]

FromTheClient(n) ==
  [type : {"connection_request", "erect_domain_request", "attach_user_request"}]
  \cup [type : {"connect_initial"}, channels : {n}]
  \cup [type : {"channel_join_request"}, user : Nat, channel : Nat]
  \cup [type : DataTypes, user : Nat, channel : Nat]

Learned == [channels : Nat, ids : Seq(Nat), user : Nat, method : Encryptions \cup {"none"},
            bpp : Nat, confirmed : SUBSET Nat]

\* The number of channels the client wants does not change.
wanted == learned.channels

LengthsInv ==
  /\ encryption \in Encryptions /\ bpp \in Nat /\ native.depth \in Nat
  /\ channel_count \in 0..MAX_CHANNELS_ALLOWED
  /\ user_channel_id \in Nat /\ joined \in Nat
  /\ c2p \in Seq(FromTheClient(wanted)) /\ p2c \in Seq(ToClient(wanted))
  /\ cpos \in Nat \ {0} /\ learned \in Learned
  /\ pc = "send_connect_response" => channel_count = wanted

\* A response in the stream was made for an even number of channels.
LEMMA InvGivesLengths == LengthsInv => LengthsAgree
<1> SUFFICES ASSUME LengthsInv, NEW i \in DOMAIN p2c,
                    p2c[i].type = "connect_response", p2c[i].method = "none"
             PROVE  LET even == Len(p2c[i].ids)
                    IN /\ p2c[i].lengths.blocks = GccBlocks(even, "none")
                       /\ p2c[i].lengths.response = ResponseContents(UserData(even, "none"))
  BY DEF LengthsAgree
<1>1. p2c[i] \in ToClient(wanted)
  BY DEF LengthsInv
<1>2. PICK m \in Encryptions, n \in 0..MAX_CHANNELS_ALLOWED : p2c[i] = Response(m, n)
  BY <1>1 DEF ToClient
<1>3. PICK k \in 0..52 : channel_count_even(n) = 2 * k
  BY EvenIsEven
<1>4. /\ m = "none"
      /\ p2c[i].ids = [j \in 1..2 * k |-> IF j <= n THEN MCS_IO_CHANNEL_ID + j ELSE 0]
      /\ p2c[i].lengths = [blocks |-> GccLength(2 * k),
                           response |-> mcs_rsp_len(UserData(2 * k, m))]
  BY <1>2, <1>3 DEF Response, ConnectResponse
<1>5. Len(p2c[i].ids) = 2 * k
  <2>1. n \in Nat
    BY ChannelsAssumption
  <2>2. p2c[i].ids \in Seq(Nat)
    <3>1. \A j \in 1..2 * k : (IF j <= n THEN MCS_IO_CHANNEL_ID + j ELSE 0) \in Nat
      BY DEF MCS_IO_CHANNEL_ID
    <3> QED BY <1>4, <3>1, SeqDef
  <2>3. 1..Len(p2c[i].ids) = 1..2 * k /\ Len(p2c[i].ids) \in Nat
    BY <1>4, <2>2, LenProperties
  <2> QED BY <2>3
<1>6. /\ p2c[i].lengths.blocks = GccLength(2 * k)
      /\ p2c[i].lengths.response = mcs_rsp_len(UserData(2 * k, "none"))
  BY <1>4
<1>7. /\ GccLength(2 * k) = GccBlocks(2 * k, "none")
      /\ mcs_rsp_len(UserData(2 * k, "none")) = ResponseContents(UserData(2 * k, "none"))
  BY EvenLengths
<1> QED BY <1>5, <1>6, <1>7

(***************************************************************************)
(* The script of the client.                                               *)
(***************************************************************************)
Heard == {"connection_confirm", "connect_response", "attach_user_confirm",
          "channel_join_confirm", "license_error", "demand_active", "synchronize",
          "control_cooperate", "control_granted", "font_map"}
Steps == [does : {"say"}, msg : FromTheClient(wanted)] \cup [does : {"hear"}, type : Heard]

\* The client's script says and hears messages of its protocol, whatever it was told.
LEMMA SayIsStep == ASSUME NEW m \in FromTheClient(wanted) PROVE Says(m) \in Steps
  BY DEF Says, Steps

\* To hear a message is a step of a script.
LEMMA HearIsStep == ASSUME NEW type \in Heard PROVE Hears(type) \in Steps
  BY DEF Hears, Steps

\* The joins of any channels are steps.
LEMMA JoinsTyped ==
  ASSUME learned \in Learned, NEW ids \in Seq(Nat) PROVE Joins(ids) \in Seq(Steps)
<1>1. Len(ids) \in Nat /\ learned.user \in Nat
  BY DEF Learned
<1>2. ASSUME NEW n \in 1..2 * Len(ids)
      PROVE  (IF n % 2 = 1 THEN Says(ChannelJoin(learned.user, ids[(n + 1) \div 2]))
                           ELSE Hears("channel_join_confirm")) \in Steps
  <2>1. CASE n % 2 = 1
    <3>1. (n + 1) \div 2 \in 1..Len(ids)
      BY <1>1, <2>1
    <3>2. ids[(n + 1) \div 2] \in Nat
      BY <3>1
    <3>3. ChannelJoin(learned.user, ids[(n + 1) \div 2]) \in FromTheClient(wanted)
      BY <3>2, <1>1 DEF ChannelJoin, FromTheClient
    <3> QED BY <3>3, <2>1, SayIsStep
  <2>2. CASE n % 2 # 1
    BY <2>2, HearIsStep DEF Heard
  <2> QED BY <2>1, <2>2
<1>3. 2 * Len(ids) \in Nat
  BY <1>1
<1> QED BY <1>2, <1>3, SeqDef DEF Joins

\* The parts of the script: until the client is attached as a user, then the channels
\* it joins, the security exchange of one that encrypts, and the rest.
Opening(n) ==
  <<Says(Message("connection_request")), Hears("connection_confirm"),
    Says(ConnectInitial(n)), Hears("connect_response"),
    Says(Message("erect_domain_request")), Says(Message("attach_user_request")),
    Hears("attach_user_confirm")>>

ToJoin == <<learned.user + MCS_BASE_CHANNEL_ID, MCS_IO_CHANNEL_ID>> \o learned.ids

Exchange(m, u) == IF m = "none" THEN <<>> ELSE <<Says(Data("security_exchange", u))>>

Closing(u) ==
  LET Says_(type) == Says(Data(type, u))
  IN <<Says_("client_info"), Hears("license_error"), Hears("demand_active"),
       Says_("confirm_active"), Says_("synchronize"), Says_("control_cooperate"),
       Says_("control_request"), Says_("font_list"), Hears("synchronize"),
       Hears("control_cooperate"), Hears("control_granted"), Hears("font_map")>>

\* The client's script, by its four parts.
LEMMA ScriptIs ==
  ClientScript = Opening(learned.channels) \o Joins(ToJoin)
                   \o Exchange(learned.method, learned.user) \o Closing(learned.user)
  BY DEF ClientScript, Opening, ToJoin, Exchange, Closing

\* Each part of it is made of steps.
LEMMA PartsTyped ==
  ASSUME learned \in Learned
  PROVE  /\ Opening(learned.channels) \in Seq(Steps) /\ Joins(ToJoin) \in Seq(Steps)
         /\ Exchange(learned.method, learned.user) \in Seq(Steps)
         /\ Closing(learned.user) \in Seq(Steps)
<1> DEFINE Says_(type) == Says(Data(type, learned.user))
<1>1. learned.user \in Nat /\ learned.channels \in Nat /\ learned.ids \in Seq(Nat)
  BY DEF Learned
<1>2. /\ Says(Message("connection_request")) \in Steps
      /\ Says(Message("erect_domain_request")) \in Steps
      /\ Says(Message("attach_user_request")) \in Steps
  <2>1. \A type \in {"connection_request", "erect_domain_request", "attach_user_request"} :
          Message(type) \in FromTheClient(wanted)
    BY DEF Message, FromTheClient
  <2> QED BY <2>1, SayIsStep
<1>3. Says(ConnectInitial(learned.channels)) \in Steps
  <2>1. ConnectInitial(learned.channels) \in FromTheClient(wanted)
    BY <1>1 DEF ConnectInitial, FromTheClient, wanted
  <2> QED BY <2>1, SayIsStep
<1>4. \A type \in DataTypes : Says_(type) \in Steps
  <2> SUFFICES ASSUME NEW type \in DataTypes PROVE Says_(type) \in Steps
    OBVIOUS
  <2>1. Data(type, learned.user) \in FromTheClient(wanted)
    BY <1>1 DEF Data, MCS_IO_CHANNEL_ID, FromTheClient
  <2> QED BY <2>1, SayIsStep
<1> HIDE DEF Says_
<1>5. Opening(learned.channels) \in Seq(Steps)
  <2>1. /\ Hears("connection_confirm") \in Steps /\ Hears("connect_response") \in Steps
        /\ Hears("attach_user_confirm") \in Steps
    BY HearIsStep DEF Heard
  <2> QED BY <1>2, <1>3, <2>1 DEF Opening
<1>6. Joins(ToJoin) \in Seq(Steps)
  <2>1. <<learned.user + MCS_BASE_CHANNEL_ID, MCS_IO_CHANNEL_ID>> \in Seq(Nat)
    BY <1>1 DEF MCS_BASE_CHANNEL_ID, MCS_IO_CHANNEL_ID
  <2>2. ToJoin \in Seq(Nat)
    BY <1>1, <2>1, ConcatProperties DEF ToJoin
  <2> QED BY <2>2, JoinsTyped
<1>7. Exchange(learned.method, learned.user) \in Seq(Steps)
  <2>1. Says_("security_exchange") \in Steps
    BY <1>4 DEF DataTypes
  <2> QED BY <2>1 DEF Exchange, Says_
<1>8. Closing(learned.user) \in Seq(Steps)
  <2>1. /\ Says_("client_info") \in Steps /\ Says_("confirm_active") \in Steps
        /\ Says_("synchronize") \in Steps /\ Says_("control_cooperate") \in Steps
        /\ Says_("control_request") \in Steps /\ Says_("font_list") \in Steps
    BY <1>4 DEF DataTypes
  <2>2. /\ Hears("license_error") \in Steps /\ Hears("demand_active") \in Steps
        /\ Hears("synchronize") \in Steps /\ Hears("control_cooperate") \in Steps
        /\ Hears("control_granted") \in Steps /\ Hears("font_map") \in Steps
    BY HearIsStep DEF Heard
  <2> QED BY <2>1, <2>2 DEF Closing, Says_
<1> QED BY <1>5, <1>6, <1>7, <1>8

\* So is the whole.
LEMMA ScriptTyped == ASSUME learned \in Learned PROVE ClientScript \in Seq(Steps)
  BY PartsTyped, ScriptIs, ConcatProperties

(***************************************************************************)
(* Steps.                                                                  *)
(***************************************************************************)
\* Streams keep the type of their messages.
LEMMA PutTyped ==
  ASSUME NEW S, NEW stream \in Seq(S), NEW m \in S, NEW open
  PROVE  Put(open, stream, <<m>>) \in Seq(S)
  BY ConcatProperties DEF Put

\* A stream without its first message keeps its type.
LEMMA TailTyped ==
  ASSUME NEW S, NEW stream \in Seq(S), stream # <<>>
  PROVE  Tail(stream) \in Seq(S) /\ Head(stream) \in S
  BY HeadTailProperties

\* What a closing peer leaves of a stream keeps its type.
LEMMA PrefixTyped ==
  ASSUME NEW S, NEW stream \in Seq(S), NEW n \in 0..Len(stream)
  PROVE  SubSeq(stream, 1, n) \in Seq(S)
<1>1. Len(stream) \in Nat /\ \A i \in 1..Len(stream) : stream[i] \in S
  BY LenProperties, ElementOfSeq
<1> QED BY <1>1, SubSeqProperties

\* Types of what the handshake with the server leaves alone.
LEMMA ClientStays ==
  ASSUME LengthsInv,
         UNCHANGED <<encryption, channel_count, user_channel_id, joined, c2p, p2c, client,
                     native>>,
         bpp' \in Nat, pc' # "send_connect_response"
  PROVE  LengthsInv'
  BY DEF LengthsInv, client, wanted

\* A handshake that is given up, and a receive or send, keep the invariant.
LEMMA GiveUpKeeps ==
  ASSUME LengthsInv, NEW how \in {"failed", "killed"}, GiveUp(how) PROVE LengthsInv'
  BY ClientStays DEF GiveUp, proxy, client, server, LengthsInv, wanted

\* A send that fails gives up and sends nothing.
LEMMA SendFailsKeeps == ASSUME LengthsInv, NEW open, SendFails(open) PROVE LengthsInv'
  BY GiveUpKeeps DEF SendFails

\* A message of the client is taken away, and no lengths are computed yet.
LEMMA ReceiveKeeps ==
  ASSUME LengthsInv, NEW type, NEW label, Receive(type, label),
         label # "send_connect_response"
  PROVE  LengthsInv'
<1>1. c2p' \in Seq(FromTheClient(wanted))
  BY TailTyped DEF Receive, Receives, LengthsInv
<1> QED BY <1>1 DEF Receive, proxy, client, server, LengthsInv, wanted

\* A message of the right type is put behind the others.
LEMMA SendClientKeeps ==
  ASSUME LengthsInv, NEW m \in ToClient(wanted), NEW label, SendClient(m, label),
         label # "send_connect_response"
  PROVE  LengthsInv'
<1>1. p2c' \in Seq(ToClient(wanted))
  BY PutTyped DEF SendClient, LengthsInv
<1> QED BY <1>1 DEF SendClient, proxy, client, server, LengthsInv, wanted

\* Sent or not.
LEMMA SendKeeps ==
  ASSUME LengthsInv, NEW m \in ToClient(wanted), NEW label, NEW next, Send(label, m, next),
         next # "send_connect_response"
  PROVE  LengthsInv'
  BY SendClientKeeps, SendFailsKeeps DEF Send

\* The messages without fields.
LEMMA MessagesTyped ==
  /\ Message("connection_confirm") \in ToClient(wanted) /\ Message("license_error") \in ToClient(wanted)
  /\ Message("synchronize") \in ToClient(wanted) /\ Message("control_cooperate") \in ToClient(wanted)
  /\ Message("control_granted") \in ToClient(wanted) /\ Message("font_map") \in ToClient(wanted)
<1>1. \A type \in {"connection_confirm", "license_error", "synchronize",
                   "control_cooperate", "control_granted", "font_map"} :
        Message(type) \in ToClient(wanted)
  BY DEF Message, ToClient
<1> QED BY <1>1

\* The handshake with the server does not touch the client's streams.
LEMMA VncKeeps == ASSUME LengthsInv, v2r_vnc_build_conn PROVE LengthsInv'
<1>1. ASSUME NEW msgs, NEW label, SendServer(msgs, label), label # "send_connect_response"
      PROVE  LengthsInv'
  BY <1>1, ClientStays, SendFailsKeeps DEF SendServer, proxy, server, LengthsInv
<1>2. CASE ReceiveProtocolVersion
  BY <1>2, ClientStays DEF ReceiveProtocolVersion, proxy, server, LengthsInv
<1>3. CASE SendProtocolVersion
  BY <1>3, <1>1 DEF SendProtocolVersion
<1>4. CASE ReceiveSecurityType
  BY <1>4, ClientStays DEF ReceiveSecurityType, proxy, server, LengthsInv
<1>5. CASE v2r_vnc_process_vnc_authentication
  BY <1>5, <1>1, ClientStays DEF v2r_vnc_process_vnc_authentication, proxy, server,
     LengthsInv
<1>6. CASE SendClientInit
  BY <1>6, <1>1 DEF SendClientInit
<1>7. CASE v2r_vnc_recv_server_init
  <2> DEFINE d == native.depth
  <2>1. bpp' = CASE d = 24 -> 32 [] d \in {8, 15, 16} -> d [] OTHER -> bpp
    BY <1>7, Zenon DEF v2r_vnc_recv_server_init
  <2>2. bpp' \in {32, d, bpp}
    <3> HIDE DEF d
    <3>1. CASE d = 24
      BY <2>1, <3>1, Zenon
    <3>2. CASE d \in {8, 15, 16} /\ d # 24
      BY <2>1, <3>2, Zenon
    <3>3. CASE d \notin {8, 15, 16} /\ d # 24
      BY <2>1, <3>3, Zenon
    <3> QED BY <3>1, <3>2, <3>3
  <2>3. bpp' \in Nat
    BY <2>2 DEF LengthsInv
  <2> QED BY <1>7, <2>3, ClientStays DEF v2r_vnc_recv_server_init, server
<1>8. CASE SendSetup
  BY <1>8, <1>1 DEF SendSetup
<1>9. CASE VncFails
  BY <1>9, GiveUpKeeps DEF VncFails
<1> QED BY <1>2, <1>3, <1>4, <1>5, <1>6, <1>7, <1>8, <1>9 DEF v2r_vnc_build_conn

\* The number of channels accepted is one the client sent and the code allows.
LEMMA ConnectInitialKeeps == ASSUME LengthsInv, v2r_mcs_recv_conn_init PROVE LengthsInv'
<1>1. /\ Head(c2p) \in FromTheClient(wanted) /\ c2p' \in Seq(FromTheClient(wanted))
      /\ Head(c2p).type = "connect_initial"
      /\ Head(c2p).channels <= MAX_CHANNELS_ALLOWED
      /\ channel_count' = Head(c2p).channels
  BY TailTyped DEF v2r_mcs_recv_conn_init, Receives, Accepts, LengthsInv
<1>2. Head(c2p).channels = wanted /\ wanted \in Nat
  BY <1>1 DEF FromTheClient, DataTypes, wanted, Learned, LengthsInv
<1>3. channel_count' \in 0..MAX_CHANNELS_ALLOWED
  BY <1>1, <1>2, ChannelsAssumption
<1> QED BY <1>1, <1>2, <1>3 DEF v2r_mcs_recv_conn_init, client, server, LengthsInv, wanted

\* The response is to the number the client asked for, v2r_mcs_recv_conn_init's last.
LEMMA ConnectResponseKeeps ==
  ASSUME LengthsInv, v2r_mcs_send_conn_resp PROVE LengthsInv'
<1>1. Response(encryption, channel_count) \in ToClient(wanted)
  BY DEF LengthsInv, ToClient, v2r_mcs_send_conn_resp
<1>2. \/ SendClient(Response(encryption, channel_count), "erect_domain_request")
      \/ GiveUp("killed")
  BY DEF v2r_mcs_send_conn_resp, Response
<1> QED BY <1>1, <1>2, SendClientKeeps, GiveUpKeeps

\* User and channel ids are numbers.
LEMMA AttachKeeps ==
  ASSUME LengthsInv, v2r_mcs_send_attach_user_confirm PROVE LengthsInv'
<1>1. CASE SendFails(clientOpen)
  BY <1>1, SendFailsKeeps
<1>2. CASE /\ user_channel_id' = UserChannel(channel_count)
           /\ p2c' = Put(clientOpen, p2c,
                         <<AttachUserConfirm(user_channel_id' - MCS_BASE_CHANNEL_ID)>>)
           /\ pc' = "channel_join_request"
           /\ UNCHANGED <<encryption, format, bpp, channel_count, joined, s2p, arrived,
                          p2s, c2p, client, server>>
  <2>1. /\ user_channel_id' \in Nat
        /\ user_channel_id' - MCS_BASE_CHANNEL_ID \in Nat
    BY <1>2, ChannelsAssumption
       DEF UserChannel, MCS_BASE_CHANNEL_ID, MCS_IO_CHANNEL_ID, LengthsInv
  <2>2. AttachUserConfirm(user_channel_id' - MCS_BASE_CHANNEL_ID) \in ToClient(wanted)
    BY <2>1 DEF AttachUserConfirm, ToClient
  <2>3. p2c' \in Seq(ToClient(wanted))
    BY <1>2, <2>2, PutTyped DEF LengthsInv
  <2> QED BY <1>2, <2>1, <2>3 DEF client, server, LengthsInv, wanted
<1> QED BY <1>1, <1>2 DEF v2r_mcs_send_attach_user_confirm

\* A channel join is received and confirmed.
LEMMA JoinKeeps == ASSUME LengthsInv, v2r_mcs_join_channel PROVE LengthsInv'
<1>1. CASE SendFails(clientOpen)
  BY <1>1, SendFailsKeeps
<1>2. CASE /\ c2p' = Tail(c2p)
           /\ p2c' = Put(clientOpen, p2c, <<ChannelJoinConfirm(ChannelToJoin)>>)
           /\ joined' = joined + 1 /\ pc' \in {"client_info", "channel_join_request"}
           /\ UNCHANGED <<encryption, format, bpp, channel_count, user_channel_id, s2p,
                          arrived, p2s, client, server>>
  <2>1. ChannelToJoin \in Nat
    <3>1. CASE joined = 0
      BY <3>1 DEF ChannelToJoin, LengthsInv
    <3>2. CASE joined = 1
      BY <3>2 DEF ChannelToJoin, MCS_IO_CHANNEL_ID, LengthsInv
    <3>3. CASE joined \notin {0, 1}
      <4>1. ChannelToJoin = MCS_IO_CHANNEL_ID + (joined - 2) + 1
        BY <3>3, Zenon DEF ChannelToJoin
      <4> QED BY <4>1, <3>3 DEF MCS_IO_CHANNEL_ID, LengthsInv
    <3> QED BY <3>1, <3>2, <3>3
  <2>2. ChannelJoinConfirm(ChannelToJoin) \in ToClient(wanted)
    BY <2>1 DEF ChannelJoinConfirm, ToClient
  <2>3. p2c' \in Seq(ToClient(wanted))
    BY <1>2, <2>2, PutTyped DEF LengthsInv
  <2>4. c2p' \in Seq(FromTheClient(wanted))
    BY <1>2, TailTyped DEF v2r_mcs_join_channel, Receives, LengthsInv
  <2> QED BY <1>2, <2>3, <2>4 DEF client, server, LengthsInv, wanted
<1> QED BY <1>1, <1>2 DEF v2r_mcs_join_channel, Receives

\* Every step of the MCS connection (mcs.c).
LEMMA McsKeeps == ASSUME LengthsInv, v2r_mcs_build_conn PROVE LengthsInv'
<1>1. CASE v2r_x224_build_conn
  BY <1>1, ReceiveKeeps, SendClientKeeps, GiveUpKeeps, MessagesTyped
     DEF v2r_x224_build_conn
<1>2. CASE v2r_mcs_recv_erect_domain_req \/ v2r_mcs_recv_attach_user_request
  BY <1>2, ReceiveKeeps
     DEF v2r_mcs_recv_erect_domain_req, v2r_mcs_recv_attach_user_request
<1> QED BY <1>1, <1>2, ConnectInitialKeeps, ConnectResponseKeeps, AttachKeeps, JoinKeeps
        DEF v2r_mcs_build_conn

\* Every step of the RDP connection (rdp.c).
LEMMA RdpKeeps == ASSUME LengthsInv, v2r_rdp_build_conn PROVE LengthsInv'
<1>1. CASE \/ v2r_rdp_recv_client_info \/ v2r_rdp_recv_confirm_active
           \/ v2r_rdp_recv_synchronize \/ v2r_rdp_recv_control_cooperate
           \/ v2r_rdp_recv_control_request \/ v2r_rdp_recv_font_list
  BY <1>1, ReceiveKeeps
     DEF v2r_rdp_recv_client_info, v2r_rdp_recv_confirm_active,
         v2r_rdp_recv_synchronize, v2r_rdp_recv_control_cooperate,
         v2r_rdp_recv_control_request, v2r_rdp_recv_font_list
<1>2. CASE \/ v2r_rdp_send_license_error \/ v2r_rdp_send_synchronize
           \/ v2r_rdp_send_control_cooperate \/ v2r_rdp_send_control_grant_control
           \/ v2r_rdp_send_font_map
  BY <1>2, SendKeeps, MessagesTyped
     DEF v2r_rdp_send_license_error, v2r_rdp_send_synchronize,
         v2r_rdp_send_control_cooperate, v2r_rdp_send_control_grant_control,
         v2r_rdp_send_font_map
<1>3. CASE v2r_rdp_send_demand_active
  <2>1. DemandActive(bpp) \in ToClient(wanted)
    BY DEF DemandActive, ToClient, LengthsInv
  <2> QED BY <1>3, <2>1, SendKeeps DEF v2r_rdp_send_demand_active
<1>4. CASE RdpFails
  BY <1>4, GiveUpKeeps DEF RdpFails
<1> QED BY <1>1, <1>2, <1>3, <1>4, McsKeeps DEF v2r_rdp_build_conn

\* What the client learns keeps its type: it takes as many channels as it wants of a
\* response to that number.
LEMMA LearnTyped ==
  ASSUME LengthsInv, NEW m \in ToClient(wanted)
  PROVE  Learn(m) \in Learned /\ Learn(m).channels = wanted
<1>1. learned \in Learned /\ wanted \in Nat
  BY DEF LengthsInv, Learned, wanted
<1>2. CASE m.type = "connect_response"
  <2>1. PICK e \in Encryptions : m = Response(e, wanted) /\ wanted \in 0..MAX_CHANNELS_ALLOWED
    BY <1>2 DEF ToClient
  <2>2. PICK k \in 0..52 : channel_count_even(wanted) = 2 * k
    BY <2>1, EvenIsEven
  <2>3. /\ m.ids = [i \in 1..2 * k |-> IF i <= wanted THEN MCS_IO_CHANNEL_ID + i ELSE 0]
        /\ m.method = e
    BY <2>1, <2>2 DEF Response, ConnectResponse
  <2>4. wanted <= 2 * k
    BY <1>1, <2>2 DEF channel_count_even
  <2>5. SubSeq(m.ids, 1, wanted) \in Seq(Nat)
    <3>1. \A j \in 1..2 * k : (IF j <= wanted THEN MCS_IO_CHANNEL_ID + j ELSE 0) \in Nat
      BY <1>1 DEF MCS_IO_CHANNEL_ID
    <3>2. m.ids \in Seq(Nat)
      BY <2>3, <3>1, SeqDef
    <3>3. 1..Len(m.ids) = 1..2 * k /\ Len(m.ids) \in Nat
      BY <2>3, <3>2, LenProperties
    <3>4. wanted \in 0..Len(m.ids)
      BY <3>3, <2>4, <1>1
    <3> QED BY <3>2, <3>4, PrefixTyped
  <2>6. Learn(m) = [learned EXCEPT !.method = m.method, !.ids = SubSeq(m.ids, 1, wanted)]
    BY <1>2 DEF Learn, wanted
  <2> QED BY <1>1, <2>3, <2>5, <2>6 DEF Learned, wanted
<1>3. CASE m.type = "attach_user_confirm"
  <2>1. m.user \in Nat
    BY <1>3 DEF ToClient, Response, ConnectResponse
  <2>2. Learn(m) = [learned EXCEPT !.user = m.user]
    BY <1>3 DEF Learn
  <2> QED BY <1>1, <2>1, <2>2 DEF Learned, wanted
<1>4. CASE m.type = "channel_join_confirm"
  <2>1. m.channel \in Nat
    BY <1>4 DEF ToClient, Response, ConnectResponse
  <2>2. Learn(m) = [learned EXCEPT !.confirmed = learned.confirmed \cup {m.channel}]
    BY <1>4 DEF Learn
  <2>3. learned.confirmed \cup {m.channel} \in SUBSET Nat
    BY <1>1, <2>1 DEF Learned
  <2>4. PICK confirmed \in SUBSET Nat : Learn(m) = [learned EXCEPT !.confirmed = confirmed]
    BY <2>2, <2>3
  <2> QED BY <1>1, <2>4 DEF Learned, wanted
<1>5. CASE m.type = "demand_active"
  <2>1. m.bpp \in Nat
    BY <1>5 DEF ToClient, Response, ConnectResponse
  <2>2. Learn(m) = [learned EXCEPT !.bpp = m.bpp]
    BY <1>5 DEF Learn
  <2> QED BY <1>1, <2>1, <2>2 DEF Learned, wanted
<1>6. CASE m.type \notin {"connect_response", "attach_user_confirm", "channel_join_confirm",
                         "demand_active"}
  <2>1. Learn(m) = learned
    BY <1>6, Zenon DEF Learn
  <2> QED BY <1>1, <2>1 DEF wanted
<1> QED BY <1>2, <1>3, <1>4, <1>5, <1>6

\* The client says what its script says, or takes what is sent to it.
LEMMA ClientStepKeeps == ASSUME LengthsInv, ClientStep PROVE LengthsInv'
<1> DEFINE step == ClientScript[cpos]
<1>1. step \in Steps
  <2>1. ClientScript \in Seq(Steps)
    BY ScriptTyped DEF LengthsInv
  <2>2. Len(ClientScript) \in Nat /\ ~(cpos > Len(ClientScript)) /\ cpos \in Nat \ {0}
    BY <2>1, LenProperties DEF ClientStep, ClientActive, LengthsInv
  <2>3. cpos \in 1..Len(ClientScript)
    BY <2>2
  <2> QED BY <2>1, <2>3, ElementOfSeq
<1>2. /\ cpos' = cpos + 1
      /\ UNCHANGED <<pc, encryption, bpp, channel_count, user_channel_id, joined, native>>
  BY DEF ClientStep, proxy, server
<1>3. CASE /\ step.does = "say" /\ c2p' = Append(c2p, step.msg)
           /\ UNCHANGED <<p2c, learned>>
  <2>1. step.msg \in FromTheClient(wanted)
    BY <1>1, <1>3 DEF Steps
  <2>2. c2p' \in Seq(FromTheClient(wanted))
    BY <1>3, <2>1, AppendProperties DEF LengthsInv
  <2> QED BY <1>2, <1>3, <2>2 DEF LengthsInv, wanted
<1>4. CASE /\ p2c # <<>> /\ p2c' = Tail(p2c) /\ learned' = Learn(Head(p2c))
           /\ UNCHANGED c2p
  <2>1. Tail(p2c) \in Seq(ToClient(wanted)) /\ Head(p2c) \in ToClient(wanted)
    BY <1>4, TailTyped DEF LengthsInv
  <2>2. learned' \in Learned /\ wanted' = wanted
    BY <1>4, <2>1, LearnTyped DEF wanted
  <2> QED BY <1>2, <1>4, <2>1, <2>2 DEF LengthsInv
<1> QED BY <1>3, <1>4 DEF ClientStep

\* The client closes.
LEMMA ClientClosesKeeps == ASSUME LengthsInv, ClientCloses PROVE LengthsInv'
<1>1. c2p' \in Seq(FromTheClient(wanted))
  BY PrefixTyped DEF ClientCloses, LengthsInv
<1>2. p2c' \in Seq(ToClient(wanted))
  BY DEF ClientCloses
<1> QED BY <1>1, <1>2 DEF ClientCloses, proxy, server, LengthsInv, wanted

\* One step for every disjunct of Next.
LEMMA LengthsInvInductive == LengthsInv /\ [Next]_vars => LengthsInv'
<1> SUFFICES ASSUME LengthsInv, [Next]_vars PROVE LengthsInv'
  OBVIOUS
<1>1. CASE v2r_session_build_conn
  BY <1>1, VncKeeps, RdpKeeps DEF v2r_session_build_conn
<1>2. CASE Interrupted
  BY <1>2, GiveUpKeeps DEF Interrupted
<1>3. CASE ClientStep \/ ClientCloses
  BY <1>3, ClientStepKeeps, ClientClosesKeeps
<1>4. CASE \/ ServerStep \/ ServerReads \/ ServerUpdates \/ ServerTurnsAway
           \/ ServerCloses \/ Arrive \/ UNCHANGED vars
  <2>1. UNCHANGED <<pc, encryption, bpp, channel_count, user_channel_id, joined, c2p, p2c,
                    cpos, learned, native>>
    BY <1>4 DEF ServerStep, ServerReads, ServerUpdates, ServerTurnsAway, ServerCloses,
       Arrive, proxy, client, server, vars
  <2> QED BY <2>1 DEF LengthsInv, wanted
<1> QED BY <1>1, <1>2, <1>3, <1>4 DEF Next, Environs

\* At first there is nothing in the streams.
LEMMA LengthsInvInit == Init => LengthsInv
<1> SUFFICES ASSUME Init PROVE LengthsInv
  OBVIOUS
<1>1. PICK n \in ChannelCounts :
        learned = [channels |-> n, ids |-> [c \in 1..n |-> 0], user |-> 0,
                   method |-> "none", bpp |-> 0, confirmed |-> {}]
  BY DEF Init
<1>2. n \in Nat /\ [c \in 1..n |-> 0] \in Seq(Nat)
  BY ChannelsAssumption, SeqDef
<1>3. learned \in Learned
  BY <1>1, <1>2 DEF Learned
<1>4. \A S : <<>> \in Seq(S)
  OBVIOUS
<1>5. c2p \in Seq(FromTheClient(wanted)) /\ p2c \in Seq(ToClient(wanted))
  BY <1>4 DEF Init
<1>6. native.depth \in Nat
  <2>1. native \in Natives
    BY DEF Init
  <2>2. native.depth \in 1..32
    BY <2>1, NativesAssumption
  <2> QED BY <2>2
<1>7. /\ pc = "version" /\ encryption \in Encryptions /\ bpp = 0 /\ channel_count = 0
      /\ user_channel_id = 0 /\ joined = 0 /\ cpos = 1
  BY DEF Init
<1>8. channel_count \in 0..MAX_CHANNELS_ALLOWED
  BY <1>7, ChannelsAssumption
<1> QED BY <1>3, <1>5, <1>6, <1>7, <1>8 DEF LengthsInv

\* For any number of channels v2r_mcs_send_conn_resp() announces, in a response without
\* encryption, the lengths that its blocks and the whole of it have.
THEOREM LengthsAlwaysAgree == Spec => []LengthsAgree
  BY LengthsInvInit, LengthsInvInductive, InvGivesLengths, PTL DEF Spec

(***************************************************************************)
(* The conversation with the client.  All that client and proxy say to     *)
(* each other is one sequence of items, which only depends on the channels *)
(* the client wants, the method of encryption and the depth of a pixel:    *)
(* the terms.  The client is at one item of it, the proxy at another, and  *)
(* what is between the two is what their streams hold.                     *)
(***************************************************************************)
Terms == [channels |-> wanted, method |-> encryption, bpp |-> bpp]

\* The user the proxy gives to the client, and the channels in the order of joining.
UserOf(d) == d.channels + 3
ChannelOf(d, j) == IF j = 0 THEN UserChannel(d.channels)
                   ELSE IF j = 1 THEN MCS_IO_CHANNEL_ID ELSE MCS_IO_CHANNEL_ID + (j - 2) + 1

\* The item with which the last channel is confirmed.
LastJoinAt(d) == 2 * d.channels + 11

JoinItem(d, k) ==
  IF k % 2 = 0 THEN Says(ChannelJoin(UserOf(d), ChannelOf(d, (k - 8) \div 2)))
  ELSE Hears("channel_join_confirm")

Item(d, k) ==
  IF k <= 7 THEN Opening(d.channels)[k]
  ELSE IF k <= LastJoinAt(d) THEN JoinItem(d, k)
  ELSE IF d.method = "none" THEN Closing(UserOf(d))[k - LastJoinAt(d)]
  ELSE IF k = LastJoinAt(d) + 1 THEN Says(Data("security_exchange", UserOf(d)))
  ELSE Closing(UserOf(d))[k - LastJoinAt(d) - 1]

Items(d) == LastJoinAt(d) + (IF d.method = "none" THEN 12 ELSE 13)

\* What the client knows when q items are behind it.
Knows(d, q, l) ==
  /\ l \in Learned /\ l.channels = d.channels /\ Len(l.ids) = d.channels
  /\ q < 4 => l.method = "none"
  /\ q >= 4 => /\ l.method = d.method
               /\ l.ids = [i \in 1..d.channels |-> MCS_IO_CHANNEL_ID + i]
  /\ q >= 7 => l.user = UserOf(d)
  /\ l.confirmed = {ChannelOf(d, j) : j \in {i \in 0..d.channels + 1 : 2 * i + 9 <= q}}
  /\ q >= LastJoinAt(d) + 3 /\ d.method = "none" => l.bpp = d.bpp

\* What is where in two sequences put together.
LEMMA Together ==
  ASSUME NEW S, NEW s \in Seq(S), NEW t \in Seq(S)
  PROVE  s \o t \in Seq(S) /\ Len(s \o t) = Len(s) + Len(t)
  BY ConcatProperties

\* What two sequences hold, one behind the other.
LEMMA TogetherAt ==
  ASSUME NEW S, NEW s \in Seq(S), NEW t \in Seq(S), NEW i \in 1..Len(s) + Len(t)
  PROVE  (s \o t)[i] = IF i <= Len(s) THEN s[i] ELSE t[i - Len(s)]
  BY ConcatProperties

\* Two channels are put before those of a response.
LEMMA TwoMore ==
  ASSUME NEW two \in Seq(Nat), Len(two) = 2, NEW ids \in Seq(Nat)
  PROVE  two \o ids \in Seq(Nat) /\ Len(two \o ids) = Len(ids) + 2
<1>1. two \o ids \in Seq(Nat) /\ Len(two \o ids) = Len(two) + Len(ids)
  BY Together, Zenon
<1>2. Len(two) + Len(ids) = Len(ids) + 2
  OBVIOUS
<1> QED BY <1>1, <1>2

\* Where the two and those of the response are then.
LEMMA TwoMoreAt ==
  ASSUME NEW two \in Seq(Nat), Len(two) = 2, NEW ids \in Seq(Nat),
         NEW i \in 1..Len(ids) + 2
  PROVE  (two \o ids)[i] = IF i <= 2 THEN two[i] ELSE ids[i - 2]
<1>1. i \in 1..Len(two) + Len(ids)
  OBVIOUS
<1>2. (two \o ids)[i] = IF i <= Len(two) THEN two[i] ELSE ids[i - Len(two)]
  BY <1>1, TogetherAt
<1> QED BY <1>2

\* The channels to join, in the client's script.
LEMMA JoinsAre ==
  ASSUME NEW d, d.channels \in Nat, NEW q \in Nat, q >= 7, Knows(d, q, learned)
  PROVE  /\ ToJoin \in Seq(Nat) /\ Len(ToJoin) = d.channels + 2
         /\ \A i \in 1..d.channels + 2 : ToJoin[i] = ChannelOf(d, i - 1)
<1>1. learned.user = d.channels + 3 /\ learned.ids \in Seq(Nat)
      /\ Len(learned.ids) = d.channels
      /\ learned.ids = [i \in 1..d.channels |-> MCS_IO_CHANNEL_ID + i]
  BY DEF Knows, Learned, UserOf
<1>6. PICK ids \in Seq(Nat) : ids = learned.ids
  BY <1>1
<1>7. PICK n \in Nat : n = d.channels
  OBVIOUS
<1>8. Len(ids) = n /\ learned.user = n + 3
  BY <1>1, <1>6, <1>7
<1>9. ASSUME NEW i \in 1..n PROVE ids[i] = 1003 + i
  BY <1>1, <1>6, <1>7 DEF MCS_IO_CHANNEL_ID
<1>2. <<learned.user + MCS_BASE_CHANNEL_ID, MCS_IO_CHANNEL_ID>> \in Seq(Nat)
  BY <1>8 DEF MCS_BASE_CHANNEL_ID, MCS_IO_CHANNEL_ID
<1>11. PICK two \in Seq(Nat) :
         two = <<learned.user + MCS_BASE_CHANNEL_ID, MCS_IO_CHANNEL_ID>>
  BY <1>2
<1>12. Len(two) = 2 /\ two[1] = n + 1004 /\ two[2] = 1003
  BY <1>8, <1>11 DEF MCS_BASE_CHANNEL_ID, MCS_IO_CHANNEL_ID
<1>3. /\ two \o ids \in Seq(Nat) /\ Len(two \o ids) = n + 2
  BY <1>12, <1>8, TwoMore
<1>10. ASSUME NEW i \in 1..n + 2
       PROVE  (two \o ids)[i] = IF i <= 2 THEN two[i] ELSE ids[i - 2]
  <2>1. i \in 1..Len(ids) + 2
    BY <1>8
  <2> QED BY <1>6, <1>11, <1>12, <2>1, TwoMoreAt
<1>4. ASSUME NEW i \in 1..n + 2
      PROVE  (two \o ids)[i] = ChannelOf(d, i - 1)
  <2>4. (two \o ids)[i] = IF i <= 2 THEN two[i] ELSE ids[i - 2]
    BY <1>10
  <2>1. CASE i = 1
    <3>1. (two \o ids)[i] = two[1]
      BY <2>4, <2>1
    <3>2. ChannelOf(d, i - 1) = n + 1004
      BY <1>7, <2>1 DEF ChannelOf, UserChannel, MCS_IO_CHANNEL_ID
    <3> QED BY <1>12, <3>1, <3>2
  <2>2. CASE i = 2
    <3>1. (two \o ids)[i] = two[2]
      BY <2>4, <2>2
    <3> QED BY <1>12, <2>2, <3>1 DEF ChannelOf, MCS_IO_CHANNEL_ID
  <2>3. CASE i \notin {1, 2}
    <3>1. i - 2 \in 1..n /\ ~(i <= 2)
      BY <2>3
    <3>2. (two \o ids)[i] = ids[i - 2]
      BY <2>4, <3>1
    <3>3. ids[i - 2] = 1003 + (i - 2)
      BY <1>9, <3>1
    <3>4. ChannelOf(d, i - 1) = 1003 + (i - 1 - 2) + 1
      BY <3>1 DEF ChannelOf, MCS_IO_CHANNEL_ID
    <3> QED BY <3>1, <3>2, <3>3, <3>4
  <2> QED BY <2>1, <2>2, <2>3
<1>5. ToJoin = two \o ids /\ d.channels = n
  BY <1>6, <1>7, <1>11 DEF ToJoin
<1> QED BY <1>3, <1>4, <1>5, Zenon

\* What is where in four sequences put together.
LEMMA FourTogether ==
  ASSUME NEW S, NEW s1 \in Seq(S), NEW s2 \in Seq(S), NEW s3 \in Seq(S), NEW s4 \in Seq(S)
  PROVE  LET a == Len(s1)  b == Len(s2)  c == Len(s3)  e == Len(s4)
         IN  /\ Len(s1 \o s2 \o s3 \o s4) = a + b + c + e
             /\ \A i \in 1..a + b + c + e :
                  (s1 \o s2 \o s3 \o s4)[i] =
                     IF i <= a THEN s1[i] ELSE IF i <= a + b THEN s2[i - a]
                     ELSE IF i <= a + b + c THEN s3[i - a - b] ELSE s4[i - a - b - c]
<1> DEFINE a == Len(s1)
           b == Len(s2)
           c == Len(s3)
           e == Len(s4)
<1>5. /\ a \in Nat /\ b \in Nat /\ c \in Nat /\ e \in Nat
      /\ Len(s1) = a /\ Len(s2) = b /\ Len(s3) = c /\ Len(s4) = e
  OBVIOUS
<1> HIDE DEF a, b, c, e
<1>1. s1 \o s2 \in Seq(S) /\ Len(s1 \o s2) = a + b
  BY <1>5, Together
<1>2. s1 \o s2 \o s3 \in Seq(S) /\ Len(s1 \o s2 \o s3) = a + b + c
  <2>1. /\ s1 \o s2 \o s3 \in Seq(S)
        /\ Len(s1 \o s2 \o s3) = Len(s1 \o s2) + Len(s3)
    BY <1>1, Together, Zenon
  <2> QED BY <1>1, <1>5, <2>1
<1>3. s1 \o s2 \o s3 \o s4 \in Seq(S) /\ Len(s1 \o s2 \o s3 \o s4) = a + b + c + e
  <2>1. /\ s1 \o s2 \o s3 \o s4 \in Seq(S)
        /\ Len(s1 \o s2 \o s3 \o s4) = Len(s1 \o s2 \o s3) + Len(s4)
    BY <1>2, Together, Zenon
  <2> QED BY <1>2, <1>5, <2>1
<1>4. ASSUME NEW i \in 1..a + b + c + e
      PROVE  (s1 \o s2 \o s3 \o s4)[i] =
                 IF i <= a THEN s1[i] ELSE IF i <= a + b THEN s2[i - a]
                 ELSE IF i <= a + b + c THEN s3[i - a - b] ELSE s4[i - a - b - c]
  <2>1. (s1 \o s2 \o s3 \o s4)[i] =
          IF i <= a + b + c THEN (s1 \o s2 \o s3)[i] ELSE s4[i - (a + b + c)]
    <3>1. i \in 1..Len(s1 \o s2 \o s3) + Len(s4)
      BY <1>2, <1>5
    <3>2. (s1 \o s2 \o s3 \o s4)[i] =
            IF i <= Len(s1 \o s2 \o s3) THEN (s1 \o s2 \o s3)[i]
            ELSE s4[i - Len(s1 \o s2 \o s3)]
      BY <1>2, <3>1, TogetherAt
    <3> QED BY <1>2, <1>5, <3>2
  <2>2. i <= a + b + c =>
          (s1 \o s2 \o s3)[i] = IF i <= a + b THEN (s1 \o s2)[i] ELSE s3[i - (a + b)]
    <3> SUFFICES ASSUME i <= a + b + c
                 PROVE  (s1 \o s2 \o s3)[i] =
                          IF i <= a + b THEN (s1 \o s2)[i] ELSE s3[i - (a + b)]
      OBVIOUS
    <3>1. i \in 1..Len(s1 \o s2) + Len(s3)
      BY <1>1, <1>5
    <3>2. (s1 \o s2 \o s3)[i] =
            IF i <= Len(s1 \o s2) THEN (s1 \o s2)[i] ELSE s3[i - Len(s1 \o s2)]
      BY <1>1, <3>1, TogetherAt
    <3> QED BY <1>1, <1>5, <3>2
  <2>3. i <= a + b => (s1 \o s2)[i] = IF i <= a THEN s1[i] ELSE s2[i - a]
    <3> SUFFICES ASSUME i <= a + b
                 PROVE  (s1 \o s2)[i] = IF i <= a THEN s1[i] ELSE s2[i - a]
      OBVIOUS
    <3>1. i \in 1..Len(s1) + Len(s2)
      BY <1>5
    <3>2. (s1 \o s2)[i] = IF i <= Len(s1) THEN s1[i] ELSE s2[i - Len(s1)]
      BY <3>1, TogetherAt
    <3> QED BY <1>5, <3>2
  <2>4. i - (a + b + c) = i - a - b - c /\ i - (a + b) = i - a - b
    BY <1>5
  <2>5. CASE i <= a
    <3>1. i <= a + b /\ i <= a + b + c
      BY <1>5, <2>5
    <3> QED BY <2>1, <2>2, <2>3, <2>5, <3>1, Zenon
  <2>6. CASE ~(i <= a) /\ i <= a + b
    <3>1. i <= a + b + c
      BY <1>5, <2>6
    <3> QED BY <2>1, <2>2, <2>3, <2>6, <3>1, Zenon
  <2>7. CASE ~(i <= a + b) /\ i <= a + b + c
    <3>1. ~(i <= a)
      BY <1>5, <2>7
    <3> QED BY <2>1, <2>2, <2>4, <2>7, <3>1, Zenon
  <2>8. CASE ~(i <= a + b + c)
    <3>1. ~(i <= a) /\ ~(i <= a + b)
      BY <1>5, <2>8
    <3> QED BY <2>1, <2>4, <2>8, <3>1, Zenon
  <2> QED BY <2>5, <2>6, <2>7, <2>8, Zenon
<1> QED BY <1>3, <1>4, Zenon DEF a, b, c, e

\* The lengths of the parts of the script.
LEMMA PartLengths ==
  /\ \A n : Len(Opening(n)) = 7
  /\ \A u : Len(Closing(u)) = 12
  /\ \A m, u : Len(Exchange(m, u)) = IF m = "none" THEN 0 ELSE 1
  BY DEF Opening, Closing, Exchange

\* Two steps for each channel that is joined.
LEMMA JoinsLength ==
  ASSUME learned \in Learned, NEW ids \in Seq(Nat) PROVE Len(Joins(ids)) = 2 * Len(ids)
<1>1. 2 * Len(ids) \in Nat
  OBVIOUS
<1>2. Joins(ids) \in Seq(Steps) /\ DOMAIN Joins(ids) = 1..2 * Len(ids)
  BY JoinsTyped DEF Joins
<1>3. PICK joins \in Seq(Steps) : joins = Joins(ids)
  BY <1>2
<1>4. Len(joins) \in Nat /\ 1..Len(joins) = 1..2 * Len(ids)
  BY <1>2, <1>3, LenProperties
<1>5. Len(joins) = 2 * Len(ids)
  BY <1>1, <1>4
<1> QED BY <1>3, <1>5

\* The channels asked for, and two more.
LEMMA ToJoinLength ==
  ASSUME learned \in Learned PROVE ToJoin \in Seq(Nat) /\ Len(ToJoin) = Len(learned.ids) + 2
<1>1. learned.user \in Nat /\ learned.ids \in Seq(Nat)
  BY DEF Learned
<1>2. <<learned.user + MCS_BASE_CHANNEL_ID, MCS_IO_CHANNEL_ID>> \in Seq(Nat)
  BY <1>1 DEF MCS_BASE_CHANNEL_ID, MCS_IO_CHANNEL_ID
<1>3. Len(<<learned.user + MCS_BASE_CHANNEL_ID, MCS_IO_CHANNEL_ID>>) = 2
  OBVIOUS
<1> QED BY <1>1, <1>2, <1>3, TwoMore, Zenon DEF ToJoin

\* The items of joining: the client asks for a channel, then hears it has it.
LEMMA JoinItems ==
  ASSUME NEW d, d.channels \in Nat, NEW j \in 0..d.channels + 1
  PROVE  /\ 8 + 2 * j \in 8..LastJoinAt(d) /\ 9 + 2 * j \in 8..LastJoinAt(d)
         /\ Item(d, 8 + 2 * j) = Says(ChannelJoin(UserOf(d), ChannelOf(d, j)))
         /\ Item(d, 9 + 2 * j) = Hears("channel_join_confirm")
<1>1. 8 + 2 * j \in 8..LastJoinAt(d) /\ 9 + 2 * j \in 8..LastJoinAt(d)
  BY DEF LastJoinAt
<1>2. Item(d, 8 + 2 * j) = JoinItem(d, 8 + 2 * j) /\ Item(d, 9 + 2 * j) = JoinItem(d, 9 + 2 * j)
  BY <1>1 DEF Item, LastJoinAt
<1>3. (8 + 2 * j) % 2 = 0 /\ (9 + 2 * j) % 2 = 1 /\ (8 + 2 * j - 8) \div 2 = j
  OBVIOUS
<1>4. JoinItem(d, 8 + 2 * j) = Says(ChannelJoin(UserOf(d), ChannelOf(d, j)))
  <2>1. PICK k : k = 8 + 2 * j
    OBVIOUS
  <2>2. k % 2 = 0 /\ (k - 8) \div 2 = j
    BY <1>3, <2>1
  <2>3. JoinItem(d, k) = Says(ChannelJoin(UserOf(d), ChannelOf(d, (k - 8) \div 2)))
    BY <2>2, Zenon DEF JoinItem
  <2> QED BY <2>1, <2>2, <2>3, Zenon
<1>5. JoinItem(d, 9 + 2 * j) = Hears("channel_join_confirm")
  BY <1>3 DEF JoinItem
<1> QED BY <1>1, <1>2, <1>4, <1>5

\* The step the client is at is the item that follows those behind it.
LEMMA ScriptAt ==
  ASSUME NEW d, d.channels \in Nat, NEW q \in Nat, Knows(d, q, learned)
  PROVE  /\ Len(ClientScript) =
              LastJoinAt(d) + (IF learned.method = "none" THEN 12 ELSE 13)
         /\ q + 1 <= Len(ClientScript) => ClientScript[q + 1] = Item(d, q + 1)
<1> DEFINE s1 == Opening(learned.channels)
           s2 == Joins(ToJoin)
           s3 == Exchange(learned.method, learned.user)
           s4 == Closing(learned.user)
<1>1. learned \in Learned /\ learned.channels = d.channels /\ Len(learned.ids) = d.channels
  BY DEF Knows
<1>2. PICK n \in Nat : n = d.channels
  OBVIOUS
<1>3. PICK c \in 0..1 : c = IF learned.method = "none" THEN 0 ELSE 1
  OBVIOUS
<1>4. Len(s1) = 7 /\ Len(s4) = 12 /\ Len(s3) = c
  BY <1>3, PartLengths
<1>5. Len(s2) = 2 * n + 4
  <2>1. ToJoin \in Seq(Nat) /\ Len(ToJoin) = n + 2
    BY <1>1, <1>2, ToJoinLength
  <2>2. Len(s2) = 2 * Len(ToJoin)
    BY <1>1, <2>1, JoinsLength
  <2> QED BY <1>2, <2>1, <2>2
<1>6. s1 \in Seq(Steps) /\ s2 \in Seq(Steps) /\ s3 \in Seq(Steps) /\ s4 \in Seq(Steps)
  BY <1>1, PartsTyped
<1>7. ClientScript = s1 \o s2 \o s3 \o s4
  BY ScriptIs
<1>12. 7 \in Nat /\ 2 * n + 4 \in Nat /\ c \in Nat /\ 12 \in Nat
  BY <1>2, <1>3
<1>8. Len(ClientScript) = 7 + (2 * n + 4) + c + 12
  <2> HIDE DEF s1, s2, s3, s4
  <2>1. Len(s1 \o s2 \o s3 \o s4) = Len(s1) + Len(s2) + Len(s3) + Len(s4)
    BY <1>6, FourTogether
  <2> QED BY <1>4, <1>5, <1>7, <2>1
<1>9. ASSUME NEW i \in 1..7 + (2 * n + 4) + c + 12
      PROVE  ClientScript[i] =
               IF i <= 7 THEN s1[i] ELSE IF i <= 7 + (2 * n + 4) THEN s2[i - 7]
               ELSE IF i <= 7 + (2 * n + 4) + c THEN s3[i - 7 - (2 * n + 4)]
               ELSE s4[i - 7 - (2 * n + 4) - c]
  <2> HIDE DEF s1, s2, s3, s4
  <2>1. \A k \in 1..Len(s1) + Len(s2) + Len(s3) + Len(s4) :
          (s1 \o s2 \o s3 \o s4)[k] =
             IF k <= Len(s1) THEN s1[k]
             ELSE IF k <= Len(s1) + Len(s2) THEN s2[k - Len(s1)]
             ELSE IF k <= Len(s1) + Len(s2) + Len(s3) THEN s3[k - Len(s1) - Len(s2)]
             ELSE s4[k - Len(s1) - Len(s2) - Len(s3)]
    BY <1>6, FourTogether, SMTT(20)
  <2> QED BY <1>4, <1>5, <1>7, <2>1, Zenon
<1>10. ASSUME q + 1 <= Len(ClientScript) PROVE ClientScript[q + 1] = Item(d, q + 1)
  <2>1. PICK i \in 1..7 + (2 * n + 4) + c + 12 : i = q + 1
    BY <1>2, <1>3, <1>8, <1>10
  <2>2. CASE i <= 7
    <3>1. ClientScript[i] = Opening(d.channels)[i]
      BY <1>1, <1>9, <2>1, <2>2
    <3> QED BY <2>1, <2>2, <3>1 DEF Item
  <2>3. CASE ~(i <= 7)
    <3>1. q >= 7 /\ q >= 4
      BY <2>1, <2>3
    <3>2. learned.user = UserOf(d) /\ learned.method = d.method
      BY <3>1 DEF Knows
    <3>3. LastJoinAt(d) = 2 * n + 11
      BY <1>2 DEF LastJoinAt
    <3>4. CASE i <= 7 + (2 * n + 4)
      <4>1. ClientScript[i] = Joins(ToJoin)[i - 7]
        BY <1>9, <2>1, <2>3, <3>4
      <4>2. /\ ToJoin \in Seq(Nat) /\ Len(ToJoin) = n + 2
            /\ \A m \in 1..n + 2 : ToJoin[m] = ChannelOf(d, m - 1)
        BY <1>2, <3>1, JoinsAre
      <4>3. i - 7 \in 1..2 * Len(ToJoin)
        <5>1. 2 * Len(ToJoin) = 2 * n + 4
          BY <1>2, <4>2
        <5> QED BY <1>2, <2>1, <2>3, <3>4, <5>1, SMTT(20)
      <4>4. ClientScript[i] =
              IF (i - 7) % 2 = 1 THEN Says(ChannelJoin(learned.user, ToJoin[(i - 7 + 1) \div 2]))
              ELSE Hears("channel_join_confirm")
        BY <4>1, <4>3, Zenon DEF Joins
      <4>5. PICK j \in 0..n + 1 : i = 8 + 2 * j \/ i = 9 + 2 * j
        <5>1. i \in 8..2 * n + 11
          BY <1>2, <2>1, <2>3, <3>4
        <5>2. (i - 8) \div 2 \in 0..n + 1
          BY <1>2, <5>1
        <5>3. i = 8 + 2 * ((i - 8) \div 2) \/ i = 9 + 2 * ((i - 8) \div 2)
          BY <5>1
        <5> QED BY <5>2, <5>3
      <4>6. j \in 0..d.channels + 1
        BY <1>2, <4>5
      <4>7. CASE i = 8 + 2 * j
        <5>1. (i - 7) % 2 = 1 /\ (i - 7 + 1) \div 2 = j + 1
          BY <4>5, <4>7
        <5>2. ToJoin[j + 1] = ChannelOf(d, j)
          <6>1. j + 1 \in 1..n + 2 /\ j + 1 - 1 = j
            BY <1>2, <4>5
          <6> QED BY <4>2, <6>1
        <5>3. ClientScript[i] = Says(ChannelJoin(UserOf(d), ChannelOf(d, j)))
          BY <3>2, <4>4, <5>1, <5>2, Zenon
        <5> QED BY <2>1, <4>6, <4>7, <5>3, JoinItems
      <4>8. CASE i = 9 + 2 * j
        <5>1. (i - 7) % 2 # 1
          BY <4>5, <4>8
        <5>2. ClientScript[i] = Hears("channel_join_confirm")
          BY <4>4, <5>1, Zenon
        <5> QED BY <2>1, <4>6, <4>8, <5>2, JoinItems
      <4> QED BY <4>5, <4>7, <4>8
    <3>5. CASE ~(i <= 7 + (2 * n + 4)) /\ d.method = "none"
      <4>1. c = 0
        BY <1>3, <3>2, <3>5
      <4>2. ClientScript[i] = s4[i - 7 - (2 * n + 4) - c]
        <5> HIDE DEF s1, s2, s3, s4
        <5> QED BY <1>2, <1>9, <2>1, <2>3, <3>5, <4>1
      <4>3. i - 7 - (2 * n + 4) - c = i - LastJoinAt(d)
        BY <1>2, <2>1, <3>3, <4>1
      <4>4. Item(d, i) = Closing(UserOf(d))[i - LastJoinAt(d)]
        BY <1>2, <2>1, <2>3, <3>3, <3>5 DEF Item
      <4> QED BY <2>1, <3>2, <4>2, <4>3, <4>4
    <3>6. CASE ~(i <= 7 + (2 * n + 4)) /\ d.method # "none"
      <4>1. c = 1
        BY <1>3, <3>2, <3>6
      <4>2. CASE i = LastJoinAt(d) + 1
        <5>1. ClientScript[i] = s3[i - 7 - (2 * n + 4)]
          <6> HIDE DEF s1, s2, s3, s4
          <6> QED BY <1>2, <1>9, <2>1, <2>3, <3>3, <3>6, <4>1, <4>2
        <5>2. i - 7 - (2 * n + 4) = 1
          BY <1>2, <2>1, <3>3, <4>2
        <5>3. s3[1] = Says(Data("security_exchange", UserOf(d)))
          BY <3>2, <3>6 DEF Exchange
        <5>4. Item(d, i) = Says(Data("security_exchange", UserOf(d)))
          BY <1>2, <2>1, <2>3, <3>3, <3>6, <4>2 DEF Item
        <5> QED BY <2>1, <5>1, <5>2, <5>3, <5>4, Zenon
      <4>3. CASE i # LastJoinAt(d) + 1
        <5>1. ClientScript[i] = s4[i - 7 - (2 * n + 4) - c]
          <6> HIDE DEF s1, s2, s3, s4
          <6> QED BY <1>2, <1>9, <2>1, <2>3, <3>3, <3>6, <4>1, <4>3
        <5>2. i - 7 - (2 * n + 4) - c = i - LastJoinAt(d) - 1
          BY <1>2, <2>1, <3>3, <4>1
        <5>3. Item(d, i) = Closing(UserOf(d))[i - LastJoinAt(d) - 1]
          BY <1>2, <2>1, <2>3, <3>3, <3>6, <4>3 DEF Item
        <5> QED BY <2>1, <3>2, <5>1, <5>2, <5>3
      <4> QED BY <4>2, <4>3
    <3> QED BY <3>4, <3>5, <3>6
  <2> QED BY <2>2, <2>3
<1>11. Len(ClientScript) = LastJoinAt(d) + (IF learned.method = "none" THEN 12 ELSE 13)
  BY <1>2, <1>3, <1>8, SMTT(20) DEF LastJoinAt
<1> QED BY <1>10, <1>11

\* The other items, by their place.
LEMMA OpeningItems ==
  ASSUME NEW d
  PROVE  /\ Item(d, 1) = Says(Message("connection_request"))
         /\ Item(d, 2) = Hears("connection_confirm")
         /\ Item(d, 3) = Says(ConnectInitial(d.channels))
         /\ Item(d, 4) = Hears("connect_response")
         /\ Item(d, 5) = Says(Message("erect_domain_request"))
         /\ Item(d, 6) = Says(Message("attach_user_request"))
         /\ Item(d, 7) = Hears("attach_user_confirm")
  BY DEF Item, Opening

\* The twelve steps after the last join, without encryption.
LEMMA ClosingItems ==
  ASSUME NEW d, d.channels \in Nat, d.method = "none"
  PROVE  LET n == LastJoinAt(d)
         IN  /\ \A k \in 1..12 : Item(d, n + k) = Closing(UserOf(d))[k]
             /\ Item(d, n + 1) = Says(Data("client_info", UserOf(d)))
             /\ Item(d, n + 2) = Hears("license_error")
             /\ Item(d, n + 3) = Hears("demand_active")
             /\ Item(d, n + 4) = Says(Data("confirm_active", UserOf(d)))
             /\ Item(d, n + 5) = Says(Data("synchronize", UserOf(d)))
             /\ Item(d, n + 6) = Says(Data("control_cooperate", UserOf(d)))
             /\ Item(d, n + 7) = Says(Data("control_request", UserOf(d)))
             /\ Item(d, n + 8) = Says(Data("font_list", UserOf(d)))
             /\ Item(d, n + 9) = Hears("synchronize")
             /\ Item(d, n + 10) = Hears("control_cooperate")
             /\ Item(d, n + 11) = Hears("control_granted")
             /\ Item(d, n + 12) = Hears("font_map")
<1> DEFINE n == LastJoinAt(d)
<1>1. n \in Nat /\ n > 7
  BY DEF LastJoinAt
<1>2. ASSUME NEW k \in 1..12 PROVE Item(d, n + k) = Closing(UserOf(d))[k]
  <2>1. PICK i : i = n + k
    OBVIOUS
  <2>2. ~(i <= 7) /\ ~(i <= n) /\ i - n = k
    <3> HIDE DEF n
    <3> QED BY <1>1, <2>1
  <2>3. Item(d, i) = Closing(UserOf(d))[i - n]
    BY <2>2, Zenon DEF Item
  <2> HIDE DEF n
  <2> QED BY <2>1, <2>2, <2>3, Zenon
<1> HIDE DEF n
<1>3. /\ 1 \in 1..12 /\ 2 \in 1..12 /\ 3 \in 1..12 /\ 4 \in 1..12 /\ 5 \in 1..12 /\ 6 \in 1..12
      /\ 7 \in 1..12 /\ 8 \in 1..12 /\ 9 \in 1..12 /\ 10 \in 1..12 /\ 11 \in 1..12
      /\ 12 \in 1..12
  OBVIOUS
<1>4. /\ Item(d, n + 1) = Closing(UserOf(d))[1] /\ Item(d, n + 2) = Closing(UserOf(d))[2]
      /\ Item(d, n + 3) = Closing(UserOf(d))[3] /\ Item(d, n + 4) = Closing(UserOf(d))[4]
      /\ Item(d, n + 5) = Closing(UserOf(d))[5] /\ Item(d, n + 6) = Closing(UserOf(d))[6]
      /\ Item(d, n + 7) = Closing(UserOf(d))[7] /\ Item(d, n + 8) = Closing(UserOf(d))[8]
      /\ Item(d, n + 9) = Closing(UserOf(d))[9] /\ Item(d, n + 10) = Closing(UserOf(d))[10]
      /\ Item(d, n + 11) = Closing(UserOf(d))[11] /\ Item(d, n + 12) = Closing(UserOf(d))[12]
  BY <1>2, <1>3
<1>5. LET u == UserOf(d)
      IN  /\ Closing(u)[1] = Says(Data("client_info", u))
          /\ Closing(u)[2] = Hears("license_error")
          /\ Closing(u)[3] = Hears("demand_active")
          /\ Closing(u)[4] = Says(Data("confirm_active", u))
          /\ Closing(u)[5] = Says(Data("synchronize", u))
          /\ Closing(u)[6] = Says(Data("control_cooperate", u))
          /\ Closing(u)[7] = Says(Data("control_request", u))
          /\ Closing(u)[8] = Says(Data("font_list", u))
          /\ Closing(u)[9] = Hears("synchronize")
          /\ Closing(u)[10] = Hears("control_cooperate")
          /\ Closing(u)[11] = Hears("control_granted")
          /\ Closing(u)[12] = Hears("font_map")
  BY DEF Closing
<1> QED BY <1>2, <1>4, <1>5 DEF n

\* A client that encrypts sends another message before its information.
LEMMA ExchangeItem ==
  ASSUME NEW d, d.channels \in Nat, d.method # "none"
  PROVE  Item(d, LastJoinAt(d) + 1) = Says(Data("security_exchange", UserOf(d)))
<1> DEFINE n == LastJoinAt(d)
<1>1. n \in Nat /\ n > 7
  BY DEF LastJoinAt
<1>2. ~(n + 1 <= 7) /\ ~(n + 1 <= n)
  BY <1>1
<1> QED BY <1>2, Zenon DEF Item

(***************************************************************************)
(* Where the two are.  The proxy has p items behind it and the client q,   *)
(* and what is between is on its way: what the client has said already, or *)
(* what it has not heard yet.  A client that closes takes some of it away. *)
(***************************************************************************)
Answer(d, k) ==
  IF k = 2 THEN Message("connection_confirm")
  ELSE IF k = 4 THEN Response(d.method, d.channels)
  ELSE IF k = 7 THEN AttachUserConfirm(UserOf(d))
  ELSE IF k <= LastJoinAt(d) THEN ChannelJoinConfirm(ChannelOf(d, (k - 9) \div 2))
  ELSE IF k = LastJoinAt(d) + 3 THEN DemandActive(d.bpp)
  ELSE Message(Item(d, k).type)

Ahead(d, p, q, c, r, open) ==
  /\ p <= q /\ r = <<>>
  /\ Len(c) <= q - p /\ (open => Len(c) = q - p)
  /\ \A i \in 1..q - p : Item(d, p + i).does = "say"
  /\ \A i \in 1..Len(c) : c[i] = Item(d, p + i).msg

Behind(d, p, q, c, r, open) ==
  /\ q < p /\ c = <<>>
  /\ (open => Len(r) = p - q) /\ (~open => Len(r) = 0)
  /\ \A i \in 1..p - q : Item(d, q + i).does = "hear"
  /\ \A i \in 1..Len(r) : r[i] = Answer(d, q + i)

Talk(d, p, q, c, r, open) == Ahead(d, p, q, c, r, open) \/ Behind(d, p, q, c, r, open)

\* The proxy receives what the client said next.
LEMMA ReceiveMoves ==
  ASSUME NEW d, NEW p \in Nat, NEW q \in Nat, NEW S, NEW c \in Seq(S), NEW r,
         NEW open \in BOOLEAN, Talk(d, p, q, c, r, open), c # <<>>
  PROVE  /\ p < q /\ Item(d, p + 1).does = "say" /\ Head(c) = Item(d, p + 1).msg
         /\ Talk(d, p + 1, q, Tail(c), r, open)
<1>1. Ahead(d, p, q, c, r, open)
  BY DEF Talk, Behind
<1>2. PICK m \in Nat : m = Len(c) /\ m > 0
  <2>1. Len(c) \in Nat /\ Len(c) # 0
    BY EmptySeq, LenProperties
  <2> QED BY <2>1
<1>3. /\ Tail(c) \in Seq(S) /\ Len(Tail(c)) = m - 1
      /\ \A i \in 1..m - 1 : Tail(c)[i] = c[i + 1]
      /\ Head(c) = c[1]
  BY <1>2, HeadTailProperties
<1>4. p < q /\ m <= q - p /\ (open => m = q - p)
  BY <1>1, <1>2 DEF Ahead
<1>5. 1 \in 1..q - p /\ 1 \in 1..m
  BY <1>2, <1>4
<1>6. Item(d, p + 1).does = "say" /\ c[1] = Item(d, p + 1).msg
  BY <1>1, <1>2, <1>5 DEF Ahead
<1>7. ASSUME NEW i \in 1..q - (p + 1) PROVE Item(d, p + 1 + i).does = "say"
  <2>1. i + 1 \in 1..q - p /\ p + (i + 1) = p + 1 + i
    BY <1>4
  <2>2. Item(d, p + (i + 1)).does = "say"
    BY <1>1, <2>1 DEF Ahead
  <2> QED BY <2>1, <2>2
<1>8. ASSUME NEW i \in 1..m - 1 PROVE Tail(c)[i] = Item(d, p + 1 + i).msg
  <2>1. i + 1 \in 1..m /\ p + (i + 1) = p + 1 + i
    BY <1>2
  <2>2. c[i + 1] = Item(d, p + (i + 1)).msg
    BY <1>1, <1>2, <2>1 DEF Ahead
  <2> QED BY <1>3, <2>1, <2>2
<1>9. p + 1 <= q /\ m - 1 <= q - (p + 1) /\ (open => m - 1 = q - (p + 1))
  BY <1>2, <1>4
<1>10. r = <<>>
  BY <1>1 DEF Ahead
<1>11. Ahead(d, p + 1, q, Tail(c), r, open)
  BY <1>3, <1>7, <1>8, <1>9, <1>10 DEF Ahead
<1> QED BY <1>3, <1>4, <1>6, <1>11 DEF Talk

\* It answers what the client hears next; when it does, nothing the client said is left.
LEMMA SendMoves ==
  ASSUME NEW d, NEW p \in Nat, NEW q \in Nat, NEW c, NEW T, NEW r \in Seq(T),
         NEW open \in BOOLEAN, Len(c) \in Nat, Len(c) = 0 => c = <<>>,
         Talk(d, p, q, c, r, open), Item(d, p + 1).does = "hear", Answer(d, p + 1) \in T
  PROVE  /\ c = <<>> /\ q <= p
         /\ Talk(d, p + 1, q, c, Put(open, r, <<Answer(d, p + 1)>>), open)
<1>1. q <= p /\ c = <<>>
  <2>1. CASE Ahead(d, p, q, c, r, open)
    <3>1. ~(p < q)
      <4> SUFFICES ASSUME p < q PROVE FALSE
        OBVIOUS
      <4>1. 1 \in 1..q - p
        OBVIOUS
      <4>2. Item(d, p + 1).does = "say"
        BY <2>1, <4>1 DEF Ahead
      <4> QED BY <4>2
    <3>2. p = q /\ Len(c) <= 0
      BY <2>1, <3>1 DEF Ahead
    <3> QED BY <3>2
  <2>2. CASE Behind(d, p, q, c, r, open)
    BY <2>2 DEF Behind
  <2> QED BY <2>1, <2>2 DEF Talk
<1>2. /\ (open => Len(r) = p - q) /\ (~open => Len(r) = 0)
      /\ \A i \in 1..Len(r) : r[i] = Answer(d, q + i)
  <2>1. CASE Ahead(d, p, q, c, r, open)
    <3>1. p = q /\ r = <<>> /\ Len(r) = 0
      BY <1>1, <2>1 DEF Ahead
    <3> QED BY <3>1
  <2>2. CASE Behind(d, p, q, c, r, open)
    BY <2>2 DEF Behind
  <2> QED BY <2>1, <2>2 DEF Talk
<1>3. ASSUME NEW i \in 1..p + 1 - q PROVE Item(d, q + i).does = "hear"
  <2>1. CASE i = p + 1 - q
    <3>1. q + i = p + 1
      BY <2>1, <1>1
    <3> QED BY <3>1
  <2>2. CASE i # p + 1 - q
    <3>1. i \in 1..p - q /\ q < p
      BY <1>1, <2>2
    <3>2. Behind(d, p, q, c, r, open)
      BY <3>1 DEF Talk, Ahead
    <3> QED BY <3>1, <3>2 DEF Behind
  <2> QED BY <2>1, <2>2
<1> DEFINE r2 == Put(open, r, <<Answer(d, p + 1)>>)
<1>4. CASE open
  <2>1. PICK m \in Nat : m = p - q /\ Len(r) = m
    <3>1. Len(r) = p - q
      BY <1>2, <1>4
    <3> QED BY <1>1, <3>1
  <2>2. r2 = r \o <<Answer(d, p + 1)>>
    BY <1>4 DEF Put
  <2>3. <<Answer(d, p + 1)>> \in Seq(T) /\ Len(<<Answer(d, p + 1)>>) = 1
    OBVIOUS
  <2>4. Len(r2) = m + 1
    BY <2>1, <2>2, <2>3, Together
  <2>5. ASSUME NEW i \in 1..m + 1 PROVE r2[i] = Answer(d, q + i)
    <3>1. i \in 1..Len(r) + Len(<<Answer(d, p + 1)>>)
      BY <2>1, <2>3
    <3>2. r2[i] = IF i <= Len(r) THEN r[i] ELSE <<Answer(d, p + 1)>>[i - Len(r)]
      BY <2>2, <2>3, <3>1, TogetherAt
    <3>3. CASE i <= m
      <4>1. i \in 1..Len(r)
        BY <2>1, <3>3
      <4> QED BY <1>2, <2>1, <3>2, <3>3, <4>1
    <3>4. CASE ~(i <= m)
      <4>1. i - Len(r) = 1 /\ q + i = p + 1 /\ ~(i <= Len(r))
        BY <1>1, <2>1, <3>4
      <4> QED BY <3>2, <4>1
    <3> QED BY <3>3, <3>4
  <2>6. Len(r2) = p + 1 - q
    BY <1>1, <2>1, <2>4
  <2>7. q < p + 1
    BY <1>1
  <2> HIDE DEF r2
  <2>8. Behind(d, p + 1, q, c, r2, open)
    BY <1>1, <1>3, <1>4, <2>4, <2>5, <2>6, <2>7 DEF Behind
  <2> QED BY <1>1, <2>8 DEF Talk, r2
<1>5. CASE ~open
  <2>1. r2 = r /\ Len(r) = 0
    BY <1>2, <1>5 DEF Put
  <2>2. q < p + 1
    BY <1>1
  <2> HIDE DEF r2
  <2>3. Behind(d, p + 1, q, c, r2, open)
    BY <1>1, <1>2, <1>3, <1>5, <2>1, <2>2 DEF Behind
  <2> QED BY <1>1, <2>3 DEF Talk, r2
<1> QED BY <1>4, <1>5

\* The client says what comes next for it.
LEMMA SayMoves ==
  ASSUME NEW d, NEW p \in Nat, NEW q \in Nat, NEW S, NEW c \in Seq(S), NEW r,
         Talk(d, p, q, c, r, TRUE), Item(d, q + 1).does = "say", Item(d, q + 1).msg \in S
  PROVE  Talk(d, p, q + 1, Append(c, Item(d, q + 1).msg), r, TRUE)
<1>1. Ahead(d, p, q, c, r, TRUE)
  <2> SUFFICES ASSUME Behind(d, p, q, c, r, TRUE) PROVE FALSE
    BY DEF Talk
  <2>1. q < p /\ 1 \in 1..p - q
    BY DEF Behind
  <2>2. Item(d, q + 1).does = "hear"
    BY <2>1 DEF Behind
  <2> QED BY <2>2
<1>2. PICK m \in Nat : m = q - p /\ Len(c) = m
  <2>1. p <= q /\ Len(c) = q - p
    BY <1>1 DEF Ahead
  <2> QED BY <2>1
<1> DEFINE c2 == Append(c, Item(d, q + 1).msg)
<1>3. /\ Len(c2) = m + 1 /\ c2[m + 1] = Item(d, q + 1).msg
      /\ \A i \in 1..m : c2[i] = c[i]
  BY <1>2, AppendProperties
<1> HIDE DEF c2
<1>4. p <= q + 1 /\ r = <<>> /\ m + 1 = q + 1 - p
  BY <1>1, <1>2 DEF Ahead
<1>5. ASSUME NEW i \in 1..q + 1 - p PROVE Item(d, p + i).does = "say"
  <2>1. CASE i = q + 1 - p
    <3>1. p + i = q + 1
      BY <2>1
    <3> QED BY <3>1
  <2>2. CASE i # q + 1 - p
    <3>1. i \in 1..q - p
      BY <2>2
    <3> QED BY <1>1, <3>1 DEF Ahead
  <2> QED BY <2>1, <2>2
<1>6. ASSUME NEW i \in 1..m + 1 PROVE c2[i] = Item(d, p + i).msg
  <2>1. CASE i = m + 1
    <3>1. p + i = q + 1
      BY <1>2, <2>1
    <3> QED BY <1>3, <2>1, <3>1
  <2>2. CASE i # m + 1
    <3>1. i \in 1..m
      BY <1>2, <2>2
    <3>2. c[i] = Item(d, p + i).msg
      BY <1>1, <1>2, <3>1 DEF Ahead
    <3> QED BY <1>3, <3>1, <3>2
  <2> QED BY <2>1, <2>2
<1>7. m + 1 \in Nat /\ m + 1 <= q + 1 - p
  BY <1>2, <1>4
<1>8. Ahead(d, p, q + 1, c2, r, TRUE)
  BY <1>3, <1>4, <1>5, <1>6, <1>7 DEF Ahead
<1> QED BY <1>8 DEF Talk, c2

\* It hears the answer to what comes next for it.
LEMMA HearMoves ==
  ASSUME NEW d, NEW p \in Nat, NEW q \in Nat, NEW c, NEW T, NEW r \in Seq(T),
         NEW open \in BOOLEAN, Talk(d, p, q, c, r, open), r # <<>>
  PROVE  /\ q < p /\ Item(d, q + 1).does = "hear" /\ Head(r) = Answer(d, q + 1)
         /\ Talk(d, p, q + 1, c, Tail(r), open)
<1>1. Behind(d, p, q, c, r, open)
  BY DEF Talk, Ahead
<1>2. PICK m \in Nat : m = Len(r) /\ m > 0
  <2>1. Len(r) \in Nat /\ Len(r) # 0
    BY EmptySeq, LenProperties
  <2> QED BY <2>1
<1>3. /\ Tail(r) \in Seq(T) /\ Len(Tail(r)) = m - 1
      /\ \A i \in 1..m - 1 : Tail(r)[i] = r[i + 1]
      /\ Head(r) = r[1]
  BY <1>2, HeadTailProperties
<1>4. q < p /\ c = <<>> /\ open /\ m = p - q
  BY <1>1, <1>2 DEF Behind
<1>5. Item(d, q + 1).does = "hear" /\ r[1] = Answer(d, q + 1)
  <2>1. 1 \in 1..p - q /\ 1 \in 1..m
    BY <1>2, <1>4
  <2> QED BY <1>1, <1>2, <2>1 DEF Behind
<1>6. CASE q + 1 = p
  <2>1. m - 1 = 0
    BY <1>4, <1>6
  <2>2. Tail(r) = <<>>
    BY <1>3, <2>1, EmptySeq
  <2>3. Ahead(d, p, q + 1, c, <<>>, open)
    <3>1. q + 1 - p = 0 /\ p <= q + 1 /\ Len(c) = 0 /\ 1..0 = {}
      BY <1>4, <1>6
    <3> QED BY <3>1 DEF Ahead
  <2> QED BY <1>3, <1>4, <1>5, <2>2, <2>3 DEF Talk
<1>7. CASE q + 1 # p
  <2>1. q + 1 < p /\ m - 1 = p - (q + 1)
    BY <1>4, <1>7
  <2>2. ASSUME NEW i \in 1..p - (q + 1) PROVE Item(d, q + 1 + i).does = "hear"
    <3>1. i + 1 \in 1..p - q /\ q + (i + 1) = q + 1 + i
      OBVIOUS
    <3>2. Item(d, q + (i + 1)).does = "hear"
      BY <1>1, <3>1 DEF Behind
    <3> QED BY <3>1, <3>2
  <2>3. ASSUME NEW i \in 1..m - 1 PROVE Tail(r)[i] = Answer(d, q + 1 + i)
    <3>1. i + 1 \in 1..m /\ q + (i + 1) = q + 1 + i
      BY <1>2
    <3>2. r[i + 1] = Answer(d, q + (i + 1))
      BY <1>1, <1>2, <3>1 DEF Behind
    <3> QED BY <1>3, <3>1, <3>2
  <2>4. Behind(d, p, q + 1, c, Tail(r), open)
    BY <1>3, <1>4, <2>1, <2>2, <2>3 DEF Behind
  <2> QED BY <1>3, <1>4, <1>5, <2>4 DEF Talk
<1> QED BY <1>6, <1>7

\* Some of what it said is lost when it closes, and all it has not heard.
LEMMA CloseMoves ==
  ASSUME NEW d, NEW p \in Nat, NEW q \in Nat, NEW S, NEW c \in Seq(S), NEW r,
         NEW open \in BOOLEAN, Talk(d, p, q, c, r, open), NEW n \in 0..Len(c)
  PROVE  Talk(d, p, q, SubSeq(c, 1, n), <<>>, FALSE)
<1>1. PICK m \in Nat : m = Len(c)
  BY LenProperties
<1>2. /\ SubSeq(c, 1, n) \in Seq(S) /\ Len(SubSeq(c, 1, n)) = n
      /\ \A i \in 1..n : SubSeq(c, 1, n)[i] = c[i]
  <2>1. Len(c) \in Nat /\ \A i \in 1..Len(c) : c[i] \in S
    BY LenProperties, ElementOfSeq
  <2>2. SubSeq(c, 1, n) \in Seq(S)
    BY PrefixTyped
  <2>3. Len(SubSeq(c, 1, n)) = n
    BY <2>1, SubSeqProperties
  <2>4. \A i \in 1..n : SubSeq(c, 1, n)[i] = c[i]
    BY <2>1, SubSeqProperties
  <2> QED BY <2>2, <2>3, <2>4
<1>3. CASE Ahead(d, p, q, c, r, open)
  <2>1. n <= q - p /\ p <= q
    BY <1>1, <1>3 DEF Ahead
  <2>2. ASSUME NEW i \in 1..n PROVE SubSeq(c, 1, n)[i] = Item(d, p + i).msg
    <3>1. i \in 1..m
      BY <1>1
    <3>2. c[i] = Item(d, p + i).msg
      BY <1>1, <1>3, <3>1 DEF Ahead
    <3> QED BY <1>2, <3>2
  <2>3. \A i \in 1..q - p : Item(d, p + i).does = "say"
    BY <1>3 DEF Ahead
  <2>4. Ahead(d, p, q, SubSeq(c, 1, n), <<>>, FALSE)
    BY <1>2, <2>1, <2>2, <2>3 DEF Ahead
  <2> QED BY <2>4 DEF Talk
<1>4. CASE Behind(d, p, q, c, r, open)
  <2>1. m = 0 /\ n = 0
    BY <1>1, <1>4 DEF Behind
  <2>2. SubSeq(c, 1, n) = <<>>
    BY <1>2, <2>1, EmptySeq
  <2>3. Behind(d, p, q, <<>>, <<>>, FALSE)
    <3>1. Len(<<>>) = 0 /\ 1..0 = {}
      OBVIOUS
    <3> QED BY <1>4, <3>1 DEF Behind
  <2> QED BY <2>2, <2>3 DEF Talk
<1> QED BY <1>3, <1>4 DEF Talk

(***************************************************************************)
(* Which items the proxy has behind it, by its place in the code.  When it *)
(* is past a message that tells it something, it knows that.               *)
(***************************************************************************)
VncLabels == {"version", "send_version", "security", "challenge", "send_response", "result",
              "send_client_init", "server_init", "send_setup"}
BeforeResponse == {"connection_request", "send_connection_confirm", "connect_initial"}
BeforeJoins == {"send_connect_response", "erect_domain_request", "attach_user_request",
                "send_attach_user_confirm"}
AfterJoins == {"client_info", "send_license_error", "send_demand_active", "confirm_active",
               "synchronize", "control_cooperate", "control_request", "font_list",
               "send_synchronize", "send_control_cooperate", "send_control_grant_control",
               "send_font_map", "transmit"}

Place(label, j, d) ==
  LET n == LastJoinAt(d)
  IN  IF label = "send_connection_confirm" THEN 1
      ELSE IF label = "connect_initial" THEN 2
      ELSE IF label = "send_connect_response" THEN 3
      ELSE IF label = "erect_domain_request" THEN 4
      ELSE IF label = "attach_user_request" THEN 5
      ELSE IF label = "send_attach_user_confirm" THEN 6
      ELSE IF label = "channel_join_request" THEN 7 + 2 * j
      ELSE IF label = "client_info" THEN n
      ELSE IF label = "send_license_error" THEN n + 1
      ELSE IF label = "send_demand_active" THEN n + 2
      ELSE IF label = "confirm_active" THEN n + 3
      ELSE IF label = "synchronize" THEN n + 4
      ELSE IF label = "control_cooperate" THEN n + 5
      ELSE IF label = "control_request" THEN n + 6
      ELSE IF label = "font_list" THEN n + 7
      ELSE IF label = "send_synchronize" THEN n + 8
      ELSE IF label = "send_control_cooperate" THEN n + 9
      ELSE IF label = "send_control_grant_control" THEN n + 10
      ELSE IF label = "send_font_map" THEN n + 11
      ELSE IF label = "transmit" THEN n + 12
      ELSE 0

PlaceInv ==
  /\ pc \in VncLabels \cup BeforeResponse \cup BeforeJoins \cup {"channel_join_request"}
              \cup AfterJoins \cup {"failed", "killed"}
  /\ pc \in VncLabels \cup BeforeResponse \cup BeforeJoins => joined = 0
  /\ pc \in BeforeJoins \cup {"channel_join_request"} \cup AfterJoins =>
       channel_count = wanted
  /\ pc \in {"channel_join_request"} \cup AfterJoins =>
       user_channel_id = UserChannel(wanted)
  /\ pc = "channel_join_request" => joined \in 0..wanted + 1
  /\ pc \in AfterJoins \ {"client_info"} => encryption = "none"

Talking == Talk(Terms, Place(pc, joined, Terms), cpos - 1, c2p, p2c, clientOpen)

ConversationInv ==
  /\ LengthsInv /\ clientOpen \in BOOLEAN
  /\ PlaceInv
  /\ Knows(Terms, cpos - 1, learned)
  /\ Running => Talking

\* What the invariant says of the types.
LEMMA ConversationTypes ==
  ASSUME ConversationInv
  PROVE  /\ wanted \in Nat /\ joined \in Nat /\ cpos \in Nat /\ cpos - 1 \in Nat
         /\ c2p \in Seq(FromTheClient(wanted)) /\ p2c \in Seq(ToClient(wanted))
         /\ clientOpen \in BOOLEAN /\ encryption \in Encryptions /\ bpp \in Nat
         /\ Terms.channels = wanted /\ Terms.method = encryption /\ Terms.bpp = bpp
         /\ LastJoinAt(Terms) \in Nat /\ LastJoinAt(Terms) = 2 * wanted + 11
         /\ Place(pc, joined, Terms) \in Nat
<1>1. /\ wanted \in Nat /\ joined \in Nat /\ cpos \in Nat /\ cpos - 1 \in Nat
      /\ c2p \in Seq(FromTheClient(wanted)) /\ p2c \in Seq(ToClient(wanted))
      /\ clientOpen \in BOOLEAN /\ encryption \in Encryptions /\ bpp \in Nat
  BY DEF ConversationInv, LengthsInv, Learned, wanted
<1>2. Terms.channels = wanted /\ Terms.method = encryption /\ Terms.bpp = bpp
  BY DEF Terms
<1>3. LastJoinAt(Terms) \in Nat /\ LastJoinAt(Terms) = 2 * wanted + 11
  BY <1>1, <1>2 DEF LastJoinAt
<1>4. Place(pc, joined, Terms) \in Nat
  BY <1>1, <1>3 DEF Place
<1> QED BY <1>1, <1>2, <1>3, <1>4

\* Steps of the proxy in the conversation: a message is received, one is sent.
LEMMA ReceiveTalks ==
  ASSUME ConversationInv, Running, c2p # <<>>, c2p' = Tail(c2p), Terms' = Terms,
         UNCHANGED <<cpos, learned, p2c, clientOpen>>,
         Place(pc', joined', Terms) = Place(pc, joined, Terms) + 1
  PROVE  Knows(Terms, cpos - 1, learned)' /\ Talking'
<1> DEFINE p == Place(pc, joined, Terms)
<1>1. p \in Nat /\ cpos - 1 \in Nat /\ c2p \in Seq(FromTheClient(wanted))
      /\ clientOpen \in BOOLEAN
  BY ConversationTypes
<1>2. Talk(Terms, p, cpos - 1, c2p, p2c, clientOpen)
  BY DEF ConversationInv, Talking
<1>3. Talk(Terms, p + 1, cpos - 1, Tail(c2p), p2c, clientOpen)
  <2> HIDE DEF p
  <2> QED BY <1>1, <1>2, ReceiveMoves
<1>4. Talking'
  BY <1>3 DEF Talking
<1>5. Knows(Terms, cpos - 1, learned)'
  <2>1. Knows(Terms, cpos - 1, learned)
    BY DEF ConversationInv
  <2> QED BY <2>1
<1> QED BY <1>4, <1>5

\* What is next in the stream of the client is the next item of the conversation.
LEMMA HeadIs ==
  ASSUME ConversationInv, Running, c2p # <<>>
  PROVE  /\ Place(pc, joined, Terms) < cpos - 1
         /\ Head(c2p) = Item(Terms, Place(pc, joined, Terms) + 1).msg
<1> DEFINE p == Place(pc, joined, Terms)
<1>1. p \in Nat /\ cpos - 1 \in Nat /\ c2p \in Seq(FromTheClient(wanted))
      /\ clientOpen \in BOOLEAN
  BY ConversationTypes
<1>2. Talk(Terms, p, cpos - 1, c2p, p2c, clientOpen)
  BY DEF ConversationInv, Talking
<1> HIDE DEF p
<1>3. p < cpos - 1 /\ Head(c2p) = Item(Terms, p + 1).msg
  BY <1>1, <1>2, ReceiveMoves
<1> QED BY <1>3 DEF p

\* An answer of the proxy is the next item, and brings the proxy's place to it.
LEMMA SendTalks ==
  ASSUME ConversationInv, Running, NEW k \in Nat, k = Place(pc, joined, Terms) + 1,
         Item(Terms, k).does = "hear", Answer(Terms, k) \in ToClient(wanted),
         p2c' = Put(clientOpen, p2c, <<Answer(Terms, k)>>), Terms' = Terms,
         UNCHANGED <<cpos, learned, c2p, clientOpen>>, Place(pc', joined', Terms) = k
  PROVE  Knows(Terms, cpos - 1, learned)' /\ Talking'
<1> DEFINE p == Place(pc, joined, Terms)
<1>1. /\ p \in Nat /\ cpos - 1 \in Nat /\ c2p \in Seq(FromTheClient(wanted))
      /\ clientOpen \in BOOLEAN /\ p2c \in Seq(ToClient(wanted))
  BY ConversationTypes
<1>2. Talk(Terms, p, cpos - 1, c2p, p2c, clientOpen)
  BY DEF ConversationInv, Talking
<1>3. Len(c2p) \in Nat /\ (Len(c2p) = 0 => c2p = <<>>)
  BY <1>1, EmptySeq, LenProperties
<1>4. Talk(Terms, p + 1, cpos - 1, c2p, Put(clientOpen, p2c, <<Answer(Terms, p + 1)>>),
           clientOpen)
  <2>1. Item(Terms, p + 1).does = "hear" /\ Answer(Terms, p + 1) \in ToClient(wanted)
    OBVIOUS
  <2> HIDE DEF p
  <2> QED BY <1>1, <1>2, <1>3, <2>1, SendMoves
<1>5. Talking'
  BY <1>4 DEF Talking
<1>6. Knows(Terms, cpos - 1, learned)'
  <2>1. Knows(Terms, cpos - 1, learned)
    BY DEF ConversationInv
  <2> QED BY <2>1
<1> QED BY <1>5, <1>6

\* What the proxy answers, by the place of the item.
LEMMA AnswersAre ==
  ASSUME NEW d, d.channels \in Nat
  PROVE  LET n == LastJoinAt(d)
         IN  /\ Answer(d, 2) = Message("connection_confirm")
             /\ Answer(d, 4) = Response(d.method, d.channels)
             /\ Answer(d, 7) = AttachUserConfirm(UserOf(d))
             /\ \A j \in 0..d.channels + 1 :
                  Answer(d, 9 + 2 * j) = ChannelJoinConfirm(ChannelOf(d, j))
             /\ d.method = "none" =>
                  /\ Answer(d, n + 2) = Message("license_error")
                  /\ Answer(d, n + 3) = DemandActive(d.bpp)
                  /\ Answer(d, n + 9) = Message("synchronize")
                  /\ Answer(d, n + 10) = Message("control_cooperate")
                  /\ Answer(d, n + 11) = Message("control_granted")
                  /\ Answer(d, n + 12) = Message("font_map")
<1> DEFINE n == LastJoinAt(d)
<1>1. n \in Nat /\ n > 7 /\ n = 2 * d.channels + 11
  BY DEF LastJoinAt
<1>2. /\ Answer(d, 2) = Message("connection_confirm")
      /\ Answer(d, 4) = Response(d.method, d.channels)
      /\ Answer(d, 7) = AttachUserConfirm(UserOf(d))
  BY DEF Answer
<1>3. ASSUME NEW j \in 0..d.channels + 1
      PROVE  Answer(d, 9 + 2 * j) = ChannelJoinConfirm(ChannelOf(d, j))
  <2>1. PICK k : k = 9 + 2 * j
    OBVIOUS
  <2>2. k \notin {2, 4, 7} /\ k <= n /\ (k - 9) \div 2 = j
    <3> HIDE DEF n
    <3> QED BY <1>1, <2>1
  <2>3. Answer(d, k) = ChannelJoinConfirm(ChannelOf(d, (k - 9) \div 2))
    BY <2>2 DEF Answer
  <2> QED BY <2>1, <2>2, <2>3, Zenon
<1>4. ASSUME NEW k \in {2, 9, 10, 11, 12}
      PROVE  Answer(d, n + k) = Message(Item(d, n + k).type)
  <2>1. PICK i : i = n + k
    OBVIOUS
  <2>2. i \notin {2, 4, 7} /\ ~(i <= n) /\ i # n + 3
    <3> HIDE DEF n
    <3> QED BY <1>1, <2>1
  <2>3. Answer(d, i) = Message(Item(d, i).type)
    BY <2>2 DEF Answer
  <2> QED BY <2>1, <2>3, Zenon
<1>5. Answer(d, n + 3) = DemandActive(d.bpp)
  <2>1. PICK i : i = n + 3
    OBVIOUS
  <2>2. i \notin {2, 4, 7} /\ ~(i <= n)
    <3> HIDE DEF n
    <3> QED BY <1>1, <2>1
  <2>3. Answer(d, i) = DemandActive(d.bpp)
    BY <2>1, <2>2 DEF Answer
  <2> QED BY <2>1, <2>3, Zenon
<1>6. ASSUME d.method = "none"
      PROVE  /\ Answer(d, n + 2) = Message("license_error")
             /\ Answer(d, n + 9) = Message("synchronize")
             /\ Answer(d, n + 10) = Message("control_cooperate")
             /\ Answer(d, n + 11) = Message("control_granted")
             /\ Answer(d, n + 12) = Message("font_map")
  <2>1. /\ Item(d, n + 2) = Hears("license_error") /\ Item(d, n + 9) = Hears("synchronize")
        /\ Item(d, n + 10) = Hears("control_cooperate")
        /\ Item(d, n + 11) = Hears("control_granted")
        /\ Item(d, n + 12) = Hears("font_map")
    BY <1>6, ClosingItems
  <2>2. \A type : Hears(type).type = type
    BY DEF Hears
  <2> HIDE DEF n
  <2> QED BY <1>4, <2>1, <2>2
<1> QED BY <1>2, <1>3, <1>5, <1>6

(***************************************************************************)
(* The steps of the proxy.                                                 *)
(***************************************************************************)
TalkInv ==
  /\ PlaceInv
  /\ Knows(Terms, cpos - 1, learned)
  /\ Running => Talking

\* Items and answers under the terms of this session.
LEMMA OpeningTerms ==
  ASSUME ConversationInv
  PROVE  /\ Item(Terms, 1) = Says(Message("connection_request"))
         /\ Item(Terms, 2) = Hears("connection_confirm")
         /\ Item(Terms, 3) = Says(ConnectInitial(wanted))
         /\ Item(Terms, 4) = Hears("connect_response")
         /\ Item(Terms, 5) = Says(Message("erect_domain_request"))
         /\ Item(Terms, 6) = Says(Message("attach_user_request"))
         /\ Item(Terms, 7) = Hears("attach_user_confirm")
         /\ Answer(Terms, 2) = Message("connection_confirm")
         /\ Answer(Terms, 4) = Response(encryption, wanted)
         /\ Answer(Terms, 7) = AttachUserConfirm(wanted + 3)
<1>1. Terms.channels = wanted /\ Terms.method = encryption /\ wanted \in Nat
  BY ConversationTypes
<1>2. PICK d : d = Terms
  OBVIOUS
<1>3. d.channels = wanted /\ d.method = encryption /\ d.channels \in Nat
  BY <1>1, <1>2
<1>4. /\ Item(d, 1) = Says(Message("connection_request"))
      /\ Item(d, 2) = Hears("connection_confirm")
      /\ Item(d, 3) = Says(ConnectInitial(d.channels))
      /\ Item(d, 4) = Hears("connect_response")
      /\ Item(d, 5) = Says(Message("erect_domain_request"))
      /\ Item(d, 6) = Says(Message("attach_user_request"))
      /\ Item(d, 7) = Hears("attach_user_confirm")
  BY OpeningItems
<1>5. /\ Answer(d, 2) = Message("connection_confirm")
      /\ Answer(d, 4) = Response(d.method, d.channels)
      /\ Answer(d, 7) = AttachUserConfirm(UserOf(d))
  BY <1>3, AnswersAre
<1>6. UserOf(d) = wanted + 3
  BY <1>3 DEF UserOf
<1> QED BY <1>2, <1>3, <1>4, <1>5, <1>6, Zenon

\* The two items of each channel join.
LEMMA JoinTerms ==
  ASSUME ConversationInv, NEW j \in 0..wanted + 1
  PROVE  /\ Item(Terms, 8 + 2 * j) = Says(ChannelJoin(wanted + 3, ChannelOf(Terms, j)))
         /\ Item(Terms, 9 + 2 * j) = Hears("channel_join_confirm")
         /\ Answer(Terms, 9 + 2 * j) = ChannelJoinConfirm(ChannelOf(Terms, j))
         /\ ChannelOf(Terms, j) \in Nat
<1>1. Terms.channels = wanted /\ wanted \in Nat
  BY ConversationTypes
<1>2. PICK d : d = Terms
  OBVIOUS
<1>3. d.channels = wanted /\ d.channels \in Nat /\ j \in 0..d.channels + 1
  BY <1>1, <1>2
<1>4. /\ Item(d, 8 + 2 * j) = Says(ChannelJoin(UserOf(d), ChannelOf(d, j)))
      /\ Item(d, 9 + 2 * j) = Hears("channel_join_confirm")
  BY <1>3, JoinItems
<1>5. Answer(d, 9 + 2 * j) = ChannelJoinConfirm(ChannelOf(d, j))
  BY <1>3, AnswersAre
<1>6. UserOf(d) = wanted + 3
  BY <1>3 DEF UserOf
<1>7. ChannelOf(d, j) \in Nat
  BY <1>3 DEF ChannelOf, UserChannel, MCS_IO_CHANNEL_ID
<1> QED BY <1>2, <1>4, <1>5, <1>6, <1>7, Zenon

\* The twelve items after the last join.
LEMMA ClosingTerms ==
  ASSUME ConversationInv, encryption = "none"
  PROVE  LET n == LastJoinAt(Terms)  u == wanted + 3
         IN  /\ Item(Terms, n + 1) = Says(Data("client_info", u))
             /\ Item(Terms, n + 2) = Hears("license_error")
             /\ Item(Terms, n + 3) = Hears("demand_active")
             /\ Item(Terms, n + 4) = Says(Data("confirm_active", u))
             /\ Item(Terms, n + 5) = Says(Data("synchronize", u))
             /\ Item(Terms, n + 6) = Says(Data("control_cooperate", u))
             /\ Item(Terms, n + 7) = Says(Data("control_request", u))
             /\ Item(Terms, n + 8) = Says(Data("font_list", u))
             /\ Item(Terms, n + 9) = Hears("synchronize")
             /\ Item(Terms, n + 10) = Hears("control_cooperate")
             /\ Item(Terms, n + 11) = Hears("control_granted")
             /\ Item(Terms, n + 12) = Hears("font_map")
             /\ Answer(Terms, n + 2) = Message("license_error")
             /\ Answer(Terms, n + 3) = DemandActive(bpp)
             /\ Answer(Terms, n + 9) = Message("synchronize")
             /\ Answer(Terms, n + 10) = Message("control_cooperate")
             /\ Answer(Terms, n + 11) = Message("control_granted")
             /\ Answer(Terms, n + 12) = Message("font_map")
<1>1. Terms.channels = wanted /\ wanted \in Nat /\ Terms.method = encryption /\ Terms.bpp = bpp
  BY ConversationTypes
<1>2. PICK d : d = Terms
  OBVIOUS
<1>3. d.channels = wanted /\ d.channels \in Nat /\ d.method = "none" /\ d.bpp = bpp
  BY <1>1, <1>2
<1> DEFINE n == LastJoinAt(d)
<1>4. /\ Item(d, n + 1) = Says(Data("client_info", UserOf(d)))
      /\ Item(d, n + 2) = Hears("license_error")
      /\ Item(d, n + 3) = Hears("demand_active")
      /\ Item(d, n + 4) = Says(Data("confirm_active", UserOf(d)))
      /\ Item(d, n + 5) = Says(Data("synchronize", UserOf(d)))
      /\ Item(d, n + 6) = Says(Data("control_cooperate", UserOf(d)))
      /\ Item(d, n + 7) = Says(Data("control_request", UserOf(d)))
      /\ Item(d, n + 8) = Says(Data("font_list", UserOf(d)))
      /\ Item(d, n + 9) = Hears("synchronize")
      /\ Item(d, n + 10) = Hears("control_cooperate")
      /\ Item(d, n + 11) = Hears("control_granted")
      /\ Item(d, n + 12) = Hears("font_map")
  BY <1>3, ClosingItems
<1>5. /\ Answer(d, n + 2) = Message("license_error")
      /\ Answer(d, n + 3) = DemandActive(d.bpp)
      /\ Answer(d, n + 9) = Message("synchronize")
      /\ Answer(d, n + 10) = Message("control_cooperate")
      /\ Answer(d, n + 11) = Message("control_granted")
      /\ Answer(d, n + 12) = Message("font_map")
  BY <1>3, AnswersAre
<1>6. UserOf(d) = wanted + 3
  BY <1>3 DEF UserOf
<1> QED BY <1>2, <1>3, <1>4, <1>5, <1>6, Zenon

\* The opening.
LEMMA RequestTalks ==
  ASSUME ConversationInv, v2r_x224_build_conn PROVE TalkInv'
<1>1. Terms' = Terms /\ wanted' = wanted
  BY DEF v2r_x224_build_conn, Receive, SendClient, GiveUp, proxy, client, Terms, wanted
<1>2. CASE Receive("connection_request", "send_connection_confirm")
  <2>1. Place(pc, joined, Terms) = 0 /\ Place(pc', joined', Terms) = 1
    BY <1>2 DEF Place, Receive, Receives
  <2>2. Running /\ c2p # <<>> /\ c2p' = Tail(c2p)
        /\ UNCHANGED <<cpos, learned, p2c, clientOpen>>
    BY <1>2 DEF Receive, Receives, Running, client
  <2>3. Knows(Terms, cpos - 1, learned)' /\ Talking'
    BY <1>1, <2>1, <2>2, ReceiveTalks
  <2>4. PlaceInv'
    BY <1>2 DEF PlaceInv, ConversationInv, Receive, Receives, proxy, VncLabels,
       BeforeResponse, BeforeJoins, AfterJoins
  <2> QED BY <2>3, <2>4 DEF TalkInv
<1>3. CASE /\ pc = "send_connection_confirm"
           /\ SendClient(Message("connection_confirm"), "connect_initial")
  <2>1. Place(pc, joined, Terms) = 1 /\ Place(pc', joined', Terms) = 2
    BY <1>3 DEF Place, SendClient
  <2>2. /\ Item(Terms, 2).does = "hear" /\ Answer(Terms, 2) = Message("connection_confirm")
        /\ Answer(Terms, 2) \in ToClient(wanted)
    BY OpeningTerms, MessagesTyped DEF Hears
  <2>3. Running /\ p2c' = Put(clientOpen, p2c, <<Answer(Terms, 2)>>)
        /\ UNCHANGED <<cpos, learned, c2p, clientOpen>>
    BY <1>3, <2>2 DEF SendClient, Running, client
  <2>4. Knows(Terms, cpos - 1, learned)' /\ Talking'
    BY <1>1, <2>1, <2>2, <2>3, SendTalks
  <2>5. PlaceInv'
    BY <1>3 DEF PlaceInv, ConversationInv, SendClient, proxy, client, wanted, VncLabels,
       BeforeResponse, BeforeJoins, AfterJoins
  <2> QED BY <2>4, <2>5 DEF TalkInv
<1>4. CASE GiveUp("killed")
  <2>1. PlaceInv'
    BY <1>4 DEF GiveUp, PlaceInv, VncLabels, BeforeResponse, BeforeJoins, AfterJoins
  <2>2. Knows(Terms, cpos - 1, learned)'
    BY <1>1, <1>4 DEF GiveUp, client, ConversationInv
  <2>3. ~Running'
    BY <1>4 DEF GiveUp, Running
  <2> QED BY <2>1, <2>2, <2>3 DEF TalkInv
<1> QED BY <1>2, <1>3, <1>4 DEF v2r_x224_build_conn

\* A session that is given up.
LEMMA GiveUpTalks ==
  ASSUME ConversationInv, NEW how \in {"failed", "killed"}, GiveUp(how) PROVE TalkInv'
<1>1. Terms' = Terms /\ wanted' = wanted
  BY DEF GiveUp, proxy, client, Terms, wanted
<1>2. PlaceInv'
  BY DEF GiveUp, PlaceInv, VncLabels, BeforeResponse, BeforeJoins, AfterJoins
<1>3. Knows(Terms, cpos - 1, learned)'
  BY <1>1 DEF GiveUp, client, ConversationInv
<1>4. ~Running'
  BY DEF GiveUp, Running
<1> QED BY <1>2, <1>3, <1>4 DEF TalkInv

\* The client announces as many channels as it wants.
LEMMA ConnectInitialTalks ==
  ASSUME ConversationInv, v2r_mcs_recv_conn_init PROVE TalkInv'
<1>1. Terms' = Terms /\ wanted' = wanted
  BY DEF v2r_mcs_recv_conn_init, client, Terms, wanted
<1>2. Place(pc, joined, Terms) = 2 /\ Place(pc', joined', Terms) = 3
  BY DEF Place, v2r_mcs_recv_conn_init, Receives
<1>3. Running /\ c2p # <<>> /\ c2p' = Tail(c2p)
      /\ UNCHANGED <<cpos, learned, p2c, clientOpen>>
  BY DEF v2r_mcs_recv_conn_init, Receives, Running, client
<1>4. Knows(Terms, cpos - 1, learned)' /\ Talking'
  BY <1>1, <1>2, <1>3, ReceiveTalks
<1>5. channel_count' = wanted
  <2>1. Head(c2p) = Item(Terms, 3).msg
    BY <1>2, <1>3, HeadIs
  <2>2. Item(Terms, 3).msg = ConnectInitial(wanted)
    BY OpeningTerms DEF Says
  <2>3. ConnectInitial(wanted).channels = wanted
    BY DEF ConnectInitial
  <2> QED BY <2>1, <2>2, <2>3 DEF v2r_mcs_recv_conn_init
<1>6. PlaceInv'
  BY <1>1, <1>5 DEF PlaceInv, ConversationInv, v2r_mcs_recv_conn_init, Receives, VncLabels,
     BeforeResponse, BeforeJoins, AfterJoins
<1> QED BY <1>4, <1>6 DEF TalkInv

\* The response is to this number.
LEMMA ConnectResponseTalks ==
  ASSUME ConversationInv, v2r_mcs_send_conn_resp PROVE TalkInv'
<1>1. \/ SendClient(Response(encryption, channel_count), "erect_domain_request")
      \/ GiveUp("killed")
  BY DEF v2r_mcs_send_conn_resp, Response
<1>2. pc = "send_connect_response" /\ channel_count = wanted
  BY DEF v2r_mcs_send_conn_resp, ConversationInv, PlaceInv, BeforeJoins
<1>3. CASE GiveUp("killed")
  BY <1>3, GiveUpTalks
<1>4. CASE SendClient(Response(encryption, wanted), "erect_domain_request")
  <2>1. Terms' = Terms /\ wanted' = wanted
    BY <1>4 DEF SendClient, proxy, client, Terms, wanted
  <2>2. Place(pc, joined, Terms) = 3 /\ Place(pc', joined', Terms) = 4
    BY <1>2, <1>4 DEF Place, SendClient
  <2>3. Response(encryption, wanted) \in ToClient(wanted)
    BY <1>2 DEF ConversationInv, LengthsInv, ToClient
  <2>4. Item(Terms, 4).does = "hear" /\ Answer(Terms, 4) = Response(encryption, wanted)
    BY OpeningTerms DEF Hears
  <2>5. Running /\ p2c' = Put(clientOpen, p2c, <<Answer(Terms, 4)>>)
        /\ UNCHANGED <<cpos, learned, c2p, clientOpen>>
    BY <1>2, <1>4, <2>4, Zenon DEF SendClient, Running, client
  <2>6. Knows(Terms, cpos - 1, learned)' /\ Talking'
    BY <2>1, <2>2, <2>3, <2>4, <2>5, SendTalks
  <2>7. PlaceInv'
    BY <1>2, <1>4, <2>1 DEF PlaceInv, ConversationInv, SendClient, proxy, VncLabels,
       BeforeResponse, BeforeJoins, AfterJoins
  <2> QED BY <2>6, <2>7 DEF TalkInv
<1> QED BY <1>1, <1>2, <1>3, <1>4

\* The two requests that open the domain are received.
LEMMA DomainTalks ==
  ASSUME ConversationInv, v2r_mcs_recv_erect_domain_req \/ v2r_mcs_recv_attach_user_request
  PROVE  TalkInv'
<1>1. /\ Terms' = Terms /\ wanted' = wanted
      /\ Running /\ c2p # <<>> /\ c2p' = Tail(c2p)
      /\ UNCHANGED <<cpos, learned, p2c, clientOpen>>
  BY DEF v2r_mcs_recv_erect_domain_req, v2r_mcs_recv_attach_user_request, Receive, Receives,
     Running, proxy, client, Terms, wanted
<1>2. ASSUME v2r_mcs_recv_erect_domain_req
      PROVE  Knows(Terms, cpos - 1, learned)' /\ Talking'
  <2>1. Place(pc, joined, Terms) = 4 /\ Place(pc', joined', Terms) = 5
    BY <1>2 DEF Place, Receive, Receives, v2r_mcs_recv_erect_domain_req
  <2> QED BY <1>1, <2>1, ReceiveTalks
<1>3. ASSUME v2r_mcs_recv_attach_user_request
      PROVE  Knows(Terms, cpos - 1, learned)' /\ Talking'
  <2>1. Place(pc, joined, Terms) = 5 /\ Place(pc', joined', Terms) = 6
    BY <1>3 DEF Place, Receive, Receives, v2r_mcs_recv_attach_user_request
  <2> QED BY <1>1, <2>1, ReceiveTalks
<1>4. Knows(Terms, cpos - 1, learned)' /\ Talking'
  BY <1>2, <1>3
<1>5. PlaceInv'
  BY <1>1 DEF PlaceInv, ConversationInv, v2r_mcs_recv_erect_domain_req,
     v2r_mcs_recv_attach_user_request, Receive, Receives, proxy, VncLabels,
     BeforeResponse, BeforeJoins, AfterJoins
<1> QED BY <1>4, <1>5 DEF TalkInv

\* The user the client is told is that of the channel the proxy keeps.
LEMMA AttachTalks ==
  ASSUME ConversationInv, v2r_mcs_send_attach_user_confirm PROVE TalkInv'
<1>1. CASE SendFails(clientOpen)
  BY <1>1, GiveUpTalks DEF SendFails
<1>2. CASE /\ user_channel_id' = UserChannel(channel_count)
           /\ p2c' = Put(clientOpen, p2c,
                         <<AttachUserConfirm(user_channel_id' - MCS_BASE_CHANNEL_ID)>>)
           /\ pc' = "channel_join_request"
           /\ UNCHANGED <<encryption, format, bpp, channel_count, joined, s2p, arrived,
                          p2s, c2p, client, server>>
  <2>1. Terms' = Terms /\ wanted' = wanted
    BY <1>2 DEF client, Terms, wanted
  <2>2. pc = "send_attach_user_confirm" /\ joined = 0 /\ channel_count = wanted
        /\ wanted \in Nat
    BY ConversationTypes
       DEF v2r_mcs_send_attach_user_confirm, ConversationInv, PlaceInv, BeforeJoins
  <2>3. Place(pc, joined, Terms) = 6
    BY <2>2 DEF Place
  <2>4. Place(pc', joined', Terms) = 7
    BY <1>2, <2>2 DEF Place
  <2>5. user_channel_id' - MCS_BASE_CHANNEL_ID = wanted + 3
    BY <1>2, <2>2 DEF UserChannel, MCS_BASE_CHANNEL_ID, MCS_IO_CHANNEL_ID
  <2>6. Item(Terms, 7).does = "hear" /\ Answer(Terms, 7) = AttachUserConfirm(wanted + 3)
    BY OpeningTerms DEF Hears
  <2>7. AttachUserConfirm(wanted + 3) \in ToClient(wanted)
    BY <2>2 DEF AttachUserConfirm, ToClient
  <2>8. Running /\ p2c' = Put(clientOpen, p2c, <<Answer(Terms, 7)>>)
        /\ UNCHANGED <<cpos, learned, c2p, clientOpen>>
    <3>1. p2c' = Put(clientOpen, p2c, <<Answer(Terms, 7)>>)
      BY <1>2, <2>5, <2>6, Zenon
    <3> QED BY <1>2, <2>2, <3>1 DEF Running, client
  <2>9. Knows(Terms, cpos - 1, learned)' /\ Talking'
    BY <2>1, <2>3, <2>4, <2>6, <2>7, <2>8, SendTalks
  <2>10. PlaceInv'
    BY <1>2, <2>1, <2>2 DEF PlaceInv, ConversationInv, VncLabels,
       BeforeResponse, BeforeJoins, AfterJoins
  <2> QED BY <2>9, <2>10 DEF TalkInv
<1> QED BY <1>1, <1>2 DEF v2r_mcs_send_attach_user_confirm

\* The channel the proxy waits for is the one the client asks for next.
LEMMA ToJoinIs ==
  ASSUME ConversationInv, pc = "channel_join_request"
  PROVE  /\ joined \in 0..wanted + 1 /\ ChannelToJoin = ChannelOf(Terms, joined)
         /\ user_channel_id = UserChannel(wanted) /\ channel_count = wanted
<1>1. /\ joined \in 0..wanted + 1
      /\ user_channel_id = UserChannel(wanted) /\ channel_count = wanted
  BY DEF ConversationInv, PlaceInv
<1>2. Terms.channels = wanted /\ wanted \in Nat
  BY ConversationTypes
<1>3. CASE joined = 0
  BY <1>1, <1>2, <1>3 DEF ChannelToJoin, ChannelOf
<1>4. CASE joined = 1
  BY <1>1, <1>2, <1>4 DEF ChannelToJoin, ChannelOf
<1>5. CASE joined \notin {0, 1}
  <2>1. ChannelToJoin = MCS_IO_CHANNEL_ID + (joined - 2) + 1
    BY <1>5, Zenon DEF ChannelToJoin
  <2> QED BY <1>1, <1>5, <2>1 DEF ChannelOf
<1> QED BY <1>1, <1>3, <1>4, <1>5

\* A channel join is received and confirmed.
LEMMA JoinTalks == ASSUME ConversationInv, v2r_mcs_join_channel PROVE TalkInv'
<1>1. CASE SendFails(clientOpen)
  BY <1>1, GiveUpTalks DEF SendFails
<1>2. CASE /\ c2p' = Tail(c2p)
           /\ p2c' = Put(clientOpen, p2c, <<ChannelJoinConfirm(ChannelToJoin)>>)
           /\ joined' = joined + 1
           /\ pc' = IF LastJoin THEN "client_info" ELSE pc
           /\ UNCHANGED <<encryption, format, bpp, channel_count, user_channel_id, s2p,
                          arrived, p2s, client, server>>
  <2>1. Terms' = Terms /\ wanted' = wanted /\ UNCHANGED <<cpos, learned, clientOpen>>
    BY <1>2 DEF client, Terms, wanted
  <2>2. pc = "channel_join_request" /\ c2p # <<>> /\ Running
    BY DEF v2r_mcs_join_channel, Receives, Running
  <2>3. /\ joined \in 0..wanted + 1 /\ ChannelToJoin = ChannelOf(Terms, joined)
        /\ user_channel_id = UserChannel(wanted) /\ channel_count = wanted
    BY <2>2, ToJoinIs
  <2>4. /\ wanted \in Nat /\ cpos - 1 \in Nat /\ c2p \in Seq(FromTheClient(wanted))
        /\ p2c \in Seq(ToClient(wanted)) /\ clientOpen \in BOOLEAN
        /\ LastJoinAt(Terms) = 2 * wanted + 11
    BY ConversationTypes
  <2>5. PICK p \in Nat : p = 7 + 2 * joined
    BY <2>3
  <2>6. Place(pc, joined, Terms) = p
    BY <2>2, <2>5 DEF Place
  <2>7. /\ joined + 1 = wanted + 2 => pc' = "client_info"
        /\ joined + 1 # wanted + 2 => pc' = "channel_join_request"
    BY <1>2, <2>2, <2>3 DEF LastJoin
  <2>8. Place(pc', joined', Terms) = p + 2
    <3>1. CASE joined + 1 = wanted + 2
      <4>1. Place(pc', joined', Terms) = LastJoinAt(Terms)
        BY <2>7, <3>1 DEF Place
      <4>2. joined = wanted + 1
        BY <2>3, <2>4, <3>1
      <4> QED BY <2>4, <2>5, <4>1, <4>2
    <3>2. CASE joined + 1 # wanted + 2
      <4>1. Place(pc', joined', Terms) = 7 + 2 * (joined + 1)
        BY <1>2, <2>7, <3>2 DEF Place
      <4> QED BY <2>3, <2>5, <4>1
    <3> QED BY <3>1, <3>2
  <2>9. Talk(Terms, p, cpos - 1, c2p, p2c, clientOpen)
    BY <2>2, <2>6 DEF ConversationInv, Talking
  <2>10. Talk(Terms, p + 1, cpos - 1, Tail(c2p), p2c, clientOpen)
    BY <2>2, <2>4, <2>5, <2>9, ReceiveMoves
  <2>23. PICK k \in Nat : k = p + 1
    BY <2>5
  <2>24. Talk(Terms, k, cpos - 1, Tail(c2p), p2c, clientOpen)
    BY <2>10, <2>23
  <2>11. /\ Item(Terms, 9 + 2 * joined) = Hears("channel_join_confirm")
         /\ Answer(Terms, 9 + 2 * joined) = ChannelJoinConfirm(ChannelOf(Terms, joined))
         /\ ChannelOf(Terms, joined) \in Nat
    BY <2>3, JoinTerms
  <2>12. k + 1 = 9 + 2 * joined
    BY <2>3, <2>5, <2>23
  <2>13. /\ Item(Terms, k + 1).does = "hear"
         /\ Answer(Terms, k + 1) = ChannelJoinConfirm(ChannelToJoin)
    BY <2>3, <2>11, <2>12 DEF Hears
  <2>14. ChannelJoinConfirm(ChannelToJoin) \in ToClient(wanted)
    BY <2>3, <2>11 DEF ChannelJoinConfirm, ToClient
  <2>15. /\ Tail(c2p) \in Seq(FromTheClient(wanted)) /\ Len(Tail(c2p)) \in Nat
         /\ (Len(Tail(c2p)) = 0 => Tail(c2p) = <<>>)
    <3>1. Tail(c2p) \in Seq(FromTheClient(wanted))
      BY <2>2, <2>4, TailTyped
    <3> QED BY <3>1, EmptySeq, LenProperties
  <2>16. Answer(Terms, k + 1) \in ToClient(wanted)
    BY <2>13, <2>14
  <2>17. Talk(Terms, k + 1, cpos - 1, Tail(c2p),
              Put(clientOpen, p2c, <<Answer(Terms, k + 1)>>), clientOpen)
    <3>1. PICK rest \in Seq(FromTheClient(wanted)) : rest = Tail(c2p)
      BY <2>15
    <3>2. Len(rest) \in Nat /\ (Len(rest) = 0 => rest = <<>>)
      BY <2>15, <3>1
    <3>3. Talk(Terms, k, cpos - 1, rest, p2c, clientOpen)
      BY <2>24, <3>1
    <3>4. Talk(Terms, k + 1, cpos - 1, rest,
               Put(clientOpen, p2c, <<Answer(Terms, k + 1)>>), clientOpen)
      <4>1. k \in Nat /\ Item(Terms, k + 1).does = "hear"
        BY <2>13, <2>23
      <4> QED BY <2>4, <2>16, <3>2, <3>3, <4>1, SendMoves
    <3> QED BY <3>1, <3>4
  <2>18. k + 1 = p + 2
    BY <2>5, <2>23
  <2>19. p2c' = Put(clientOpen, p2c, <<Answer(Terms, k + 1)>>) /\ c2p' = Tail(c2p)
    BY <1>2, <2>13, Zenon
  <2>20. Talking'
    BY <2>1, <2>8, <2>17, <2>18, <2>19, Zenon DEF Talking
  <2>21. Knows(Terms, cpos - 1, learned)'
    BY <2>1 DEF ConversationInv
  <2>22. PlaceInv'
    <3>1. joined' = joined + 1 /\ user_channel_id' = user_channel_id
          /\ channel_count' = channel_count
      BY <1>2
    <3>2. pc' = "channel_join_request" => joined' \in 0..wanted + 1
      BY <2>3, <2>4, <2>7, <3>1
    <3>3. pc' \in {"channel_join_request", "client_info"}
      BY <2>7
    <3> QED BY <2>1, <2>3, <3>1, <3>2, <3>3 DEF PlaceInv, VncLabels, BeforeResponse,
            BeforeJoins, AfterJoins
  <2> QED BY <2>20, <2>21, <2>22 DEF TalkInv
<1> QED BY <1>1, <1>2 DEF v2r_mcs_join_channel

\* The information of the client is accepted only from one that does not encrypt.
LEMMA InfoUnencrypted ==
  ASSUME ConversationInv, Receives("client_info") PROVE encryption = "none"
<1> SUFFICES ASSUME encryption # "none" PROVE FALSE
  OBVIOUS
<1>1. pc = "client_info" /\ c2p # <<>> /\ Head(c2p).type = "client_info" /\ Running
  BY DEF Receives, Accepts, Running
<1>2. Place(pc, joined, Terms) = LastJoinAt(Terms)
  BY <1>1 DEF Place
<1>3. Head(c2p) = Item(Terms, LastJoinAt(Terms) + 1).msg
  BY <1>1, <1>2, HeadIs
<1>4. Item(Terms, LastJoinAt(Terms) + 1) = Says(Data("security_exchange", UserOf(Terms)))
  <2>1. Terms.channels \in Nat /\ Terms.method # "none"
    BY ConversationTypes
  <2> QED BY <2>1, ExchangeItem
<1>5. Head(c2p).type = "security_exchange"
  BY <1>3, <1>4 DEF Says, Data
<1> QED BY <1>1, <1>5

\* What follows the joins: places, and where each message leads to.
LEMMA ClosingReceives ==
  ASSUME ConversationInv, NEW type, NEW label, Receive(type, label),
         <<type, label>> \in {<<"client_info", "send_license_error">>,
                              <<"confirm_active", "synchronize">>,
                              <<"synchronize", "control_cooperate">>,
                              <<"control_cooperate", "control_request">>,
                              <<"control_request", "font_list">>,
                              <<"font_list", "send_synchronize">>}
  PROVE  TalkInv'
<1>1. /\ Terms' = Terms /\ wanted' = wanted
      /\ Running /\ c2p # <<>> /\ c2p' = Tail(c2p)
      /\ UNCHANGED <<cpos, learned, p2c, clientOpen>>
      /\ pc = type /\ pc' = label /\ joined' = joined
  BY DEF Receive, Receives, Running, proxy, client, Terms, wanted
<1>2. PICK n \in Nat : n = LastJoinAt(Terms)
  BY ConversationTypes
<1>3. Place(pc', joined, Terms) = Place(pc, joined, Terms) + 1
  BY <1>1, <1>2 DEF Place
<1>4. Knows(Terms, cpos - 1, learned)' /\ Talking'
  BY <1>1, <1>3, ReceiveTalks
<1>5. encryption = "none"
  <2>1. CASE type = "client_info"
    BY <2>1, InfoUnencrypted DEF Receive
  <2>2. CASE type # "client_info"
    BY <1>1, <2>2 DEF ConversationInv, PlaceInv, AfterJoins
  <2> QED BY <2>1, <2>2
<1>6. channel_count = wanted /\ user_channel_id = UserChannel(wanted)
  <2>1. pc \in AfterJoins
    BY <1>1 DEF AfterJoins
  <2> QED BY <2>1 DEF ConversationInv, PlaceInv
<1>7. PlaceInv'
  <2>1. pc' \in AfterJoins
    BY <1>1 DEF AfterJoins
  <2>2. /\ encryption' = encryption /\ channel_count' = channel_count
        /\ user_channel_id' = user_channel_id
    BY DEF Receive, proxy
  <2> QED BY <1>1, <1>5, <1>6, <2>1, <2>2
          DEF PlaceInv, VncLabels, BeforeResponse, BeforeJoins, AfterJoins
<1> QED BY <1>4, <1>7 DEF TalkInv

\* The messages the proxy sends after the joins.
LEMMA ClosingSends ==
  ASSUME ConversationInv, NEW label, NEW m, NEW next, Send(label, m, next),
         \/ <<label, m, next>> \in {<<"send_license_error", Message("license_error"),
                                     "send_demand_active">>,
                                    <<"send_synchronize", Message("synchronize"),
                                     "send_control_cooperate">>,
                                    <<"send_control_cooperate", Message("control_cooperate"),
                                      "send_control_grant_control">>,
                                    <<"send_control_grant_control",
                                      Message("control_granted"), "send_font_map">>,
                                    <<"send_font_map", Message("font_map"), "transmit">>}
         \/ <<label, m, next>> = <<"send_demand_active", DemandActive(bpp), "confirm_active">>
  PROVE  TalkInv'
<1>1. CASE SendFails(clientOpen)
  BY <1>1, GiveUpTalks DEF SendFails
<1>2. CASE pc = label /\ SendClient(m, next)
  <2>1. /\ Terms' = Terms /\ wanted' = wanted
        /\ Running /\ UNCHANGED <<cpos, learned, c2p, clientOpen>>
        /\ pc' = next /\ joined' = joined
        /\ p2c' = Put(clientOpen, p2c, <<m>>)
    BY <1>2 DEF SendClient, Running, proxy, client, Terms, wanted
  <2>2. pc \in AfterJoins \ {"client_info"} /\ pc' \in AfterJoins
    BY <1>2, <2>1 DEF AfterJoins
  <2>3. /\ encryption = "none" /\ channel_count = wanted
        /\ user_channel_id = UserChannel(wanted)
    BY <2>2 DEF ConversationInv, PlaceInv
  <2>4. PICK n \in Nat : n = LastJoinAt(Terms)
    BY ConversationTypes
  <2>5. /\ Item(Terms, n + 2) = Hears("license_error")
        /\ Item(Terms, n + 3) = Hears("demand_active")
        /\ Item(Terms, n + 9) = Hears("synchronize")
        /\ Item(Terms, n + 10) = Hears("control_cooperate")
        /\ Item(Terms, n + 11) = Hears("control_granted")
        /\ Item(Terms, n + 12) = Hears("font_map")
        /\ Answer(Terms, n + 2) = Message("license_error")
        /\ Answer(Terms, n + 3) = DemandActive(bpp)
        /\ Answer(Terms, n + 9) = Message("synchronize")
        /\ Answer(Terms, n + 10) = Message("control_cooperate")
        /\ Answer(Terms, n + 11) = Message("control_granted")
        /\ Answer(Terms, n + 12) = Message("font_map")
    BY <2>3, <2>4, ClosingTerms
  <2>6. DemandActive(bpp) \in ToClient(wanted)
    BY ConversationTypes DEF DemandActive, ToClient
  <2>7. \A type : Hears(type).does = "hear"
    BY DEF Hears
  <2>8. PICK k \in {2, 3, 9, 10, 11, 12} :
          /\ Place(pc, joined, Terms) = n + (k - 1) /\ Place(pc', joined, Terms) = n + k
          /\ Item(Terms, n + k).does = "hear" /\ Answer(Terms, n + k) = m
          /\ m \in ToClient(wanted)
    <3>1. CASE label = "send_license_error"
      <4>1. /\ Place(pc, joined, Terms) = n + (2 - 1) /\ Place(pc', joined, Terms) = n + 2
            /\ m = Message("license_error")
        BY <1>2, <2>1, <2>4, <3>1 DEF Place
      <4> QED BY <2>5, <2>7, <4>1, MessagesTyped
    <3>2. CASE label = "send_demand_active"
      <4>1. /\ Place(pc, joined, Terms) = n + (3 - 1) /\ Place(pc', joined, Terms) = n + 3
            /\ m = DemandActive(bpp)
        BY <1>2, <2>1, <2>4, <3>2 DEF Place
      <4> QED BY <2>5, <2>6, <2>7, <4>1
    <3>3. CASE label = "send_synchronize"
      <4>1. /\ Place(pc, joined, Terms) = n + (9 - 1) /\ Place(pc', joined, Terms) = n + 9
            /\ m = Message("synchronize")
        BY <1>2, <2>1, <2>4, <3>3 DEF Place
      <4> QED BY <2>5, <2>7, <4>1, MessagesTyped
    <3>4. CASE label = "send_control_cooperate"
      <4>1. /\ Place(pc, joined, Terms) = n + (10 - 1) /\ Place(pc', joined, Terms) = n + 10
            /\ m = Message("control_cooperate")
        BY <1>2, <2>1, <2>4, <3>4 DEF Place
      <4> QED BY <2>5, <2>7, <4>1, MessagesTyped
    <3>5. CASE label = "send_control_grant_control"
      <4>1. /\ Place(pc, joined, Terms) = n + (11 - 1) /\ Place(pc', joined, Terms) = n + 11
            /\ m = Message("control_granted")
        BY <1>2, <2>1, <2>4, <3>5 DEF Place
      <4> QED BY <2>5, <2>7, <4>1, MessagesTyped
    <3>6. CASE label = "send_font_map"
      <4>1. /\ Place(pc, joined, Terms) = n + (12 - 1) /\ Place(pc', joined, Terms) = n + 12
            /\ m = Message("font_map")
        BY <1>2, <2>1, <2>4, <3>6 DEF Place
      <4> QED BY <2>5, <2>7, <4>1, MessagesTyped
    <3> QED BY <3>1, <3>2, <3>3, <3>4, <3>5, <3>6
  <2>9. PICK i \in Nat : i = n + k /\ i = Place(pc, joined, Terms) + 1
    BY <2>4, <2>8
  <2>10. /\ Item(Terms, i).does = "hear" /\ Answer(Terms, i) \in ToClient(wanted)
         /\ p2c' = Put(clientOpen, p2c, <<Answer(Terms, i)>>)
         /\ Place(pc', joined', Terms) = i
    BY <2>1, <2>8, <2>9
  <2>11. Knows(Terms, cpos - 1, learned)' /\ Talking'
    BY <2>1, <2>9, <2>10, SendTalks
  <2>12. PlaceInv'
    <3>1. /\ encryption' = encryption /\ channel_count' = channel_count
          /\ user_channel_id' = user_channel_id
      BY <1>2 DEF SendClient, proxy
    <3> QED BY <2>1, <2>2, <2>3, <3>1
            DEF PlaceInv, VncLabels, BeforeResponse, BeforeJoins, AfterJoins
  <2> QED BY <2>11, <2>12 DEF TalkInv
<1> QED BY <1>1, <1>2 DEF Send

\* Every step of the RDP connection.
LEMMA RdpTalks == ASSUME ConversationInv, v2r_rdp_build_conn PROVE TalkInv'
<1>1. CASE v2r_mcs_build_conn
  BY <1>1, RequestTalks, ConnectInitialTalks, ConnectResponseTalks, DomainTalks,
     AttachTalks, JoinTalks DEF v2r_mcs_build_conn
<1>2. CASE \/ v2r_rdp_recv_client_info \/ v2r_rdp_recv_confirm_active
           \/ v2r_rdp_recv_synchronize \/ v2r_rdp_recv_control_cooperate
           \/ v2r_rdp_recv_control_request \/ v2r_rdp_recv_font_list
  BY <1>2, ClosingReceives
     DEF v2r_rdp_recv_client_info, v2r_rdp_recv_confirm_active,
         v2r_rdp_recv_synchronize, v2r_rdp_recv_control_cooperate,
         v2r_rdp_recv_control_request, v2r_rdp_recv_font_list
<1>3. CASE \/ v2r_rdp_send_license_error \/ v2r_rdp_send_demand_active
           \/ v2r_rdp_send_synchronize
           \/ v2r_rdp_send_control_cooperate \/ v2r_rdp_send_control_grant_control
           \/ v2r_rdp_send_font_map
  BY <1>3, ClosingSends
     DEF v2r_rdp_send_license_error, v2r_rdp_send_demand_active, v2r_rdp_send_synchronize,
         v2r_rdp_send_control_cooperate, v2r_rdp_send_control_grant_control,
         v2r_rdp_send_font_map
<1>4. CASE RdpFails
  BY <1>4, GiveUpTalks DEF RdpFails
<1> QED BY <1>1, <1>2, <1>3, <1>4 DEF v2r_rdp_build_conn

\* The depth of a pixel is in one answer only, so it may still change while the client
\* waits for the first.
LEMMA SameItems ==
  ASSUME NEW d, NEW e, d.channels = e.channels, d.method = e.method, NEW k
  PROVE  Item(d, k) = Item(e, k)
<1>1. LastJoinAt(d) = LastJoinAt(e) /\ UserOf(d) = UserOf(e)
  BY DEF LastJoinAt, UserOf
<1>2. \A j : ChannelOf(d, j) = ChannelOf(e, j)
  BY DEF ChannelOf
<1>3. JoinItem(d, k) = JoinItem(e, k)
  BY <1>1, <1>2, Zenon DEF JoinItem
<1> QED BY <1>1, <1>3, Zenon DEF Item

\* What a client knows before it has heard anything depends on few of the terms.
LEMMA SameKnown ==
  ASSUME NEW d, NEW e, d.channels = e.channels, d.method = e.method, d.channels \in Nat,
         NEW l, NEW q \in 0..1, Knows(d, q, l)
  PROVE  Knows(e, q, l)
<1>1. \A j : ChannelOf(d, j) = ChannelOf(e, j)
  BY DEF ChannelOf
<1>2. LastJoinAt(d) = LastJoinAt(e) /\ LastJoinAt(d) > 7 /\ LastJoinAt(d) \in Nat
  BY DEF LastJoinAt
<1>3. /\ ~(q >= 4) /\ ~(q >= 7) /\ ~(q >= LastJoinAt(d) + 3) /\ q < 4
  BY <1>2
<1>4. {ChannelOf(d, j) : j \in {i \in 0..d.channels + 1 : 2 * i + 9 <= q}}
        = {ChannelOf(e, j) : j \in {i \in 0..e.channels + 1 : 2 * i + 9 <= q}}
  BY <1>1
<1>5. /\ l \in Learned /\ l.channels = d.channels /\ Len(l.ids) = d.channels
      /\ l.method = "none"
      /\ l.confirmed = {ChannelOf(d, j) : j \in {i \in 0..d.channels + 1 : 2 * i + 9 <= q}}
  BY <1>3 DEF Knows
<1>6. /\ l \in Learned /\ l.channels = e.channels /\ Len(l.ids) = e.channels
      /\ l.method = "none"
      /\ l.confirmed = {ChannelOf(e, j) : j \in {i \in 0..e.channels + 1 : 2 * i + 9 <= q}}
  BY <1>4, <1>5
<1> QED BY <1>2, <1>3, <1>6 DEF Knows

\* The handshake with the server is before the conversation.
LEMMA VncStepTalks ==
  ASSUME ConversationInv, pc \in VncLabels, pc' \in VncLabels \cup {"connection_request"},
         UNCHANGED <<encryption, channel_count, user_channel_id, joined, c2p, p2c, client>>
  PROVE  TalkInv'
<1>1. Running /\ Place(pc, joined, Terms) = 0 /\ Place(pc', joined', Terms') = 0
  BY DEF Running, Place, VncLabels
<1>2. PICK q \in Nat : q = cpos - 1
  BY ConversationTypes
<1>3. PICK d : d = Terms
  OBVIOUS
<1>4. PICK e : e = Terms'
  OBVIOUS
<1>5. d.channels = e.channels /\ d.method = e.method /\ d.channels \in Nat
  <2>1. Terms.channels \in Nat
    BY ConversationTypes
  <2> QED BY <1>3, <1>4, <2>1 DEF Terms, client, wanted
<1>6. Ahead(d, 0, q, c2p, p2c, clientOpen)
  <2>1. Talk(d, 0, q, c2p, p2c, clientOpen)
    BY <1>1, <1>2, <1>3 DEF ConversationInv, Talking
  <2>2. ~(q < 0)
    BY <1>2
  <2> QED BY <2>1, <2>2 DEF Talk, Behind
<1>7. q \in 0..1
  <2>1. ASSUME q >= 2 PROVE FALSE
    <3>1. 2 \in 1..q - 0 /\ 0 + 2 = 2
      BY <1>2, <2>1
    <3>2. Item(d, 0 + 2).does = "say"
      BY <1>6, <3>1 DEF Ahead
    <3>3. Item(d, 2).does = "hear"
      BY OpeningItems DEF Hears
    <3> QED BY <3>1, <3>2, <3>3
  <2>2. q \in Nat
    BY <1>2
  <2>3. q < 2
    BY <2>1, <2>2
  <2> QED BY <2>2, <2>3
<1>8. Talking'
  <2>1. \A k : Item(d, k) = Item(e, k)
    BY <1>5, SameItems
  <2>2. Ahead(e, 0, q, c2p, p2c, clientOpen)
    BY <1>6, <2>1 DEF Ahead
  <2>3. c2p' = c2p /\ p2c' = p2c /\ clientOpen' = clientOpen /\ cpos' = cpos
    BY DEF client
  <2>4. Talk(e, 0, q, c2p, p2c, clientOpen)
    BY <2>2 DEF Talk
  <2> QED BY <1>1, <1>2, <1>4, <2>3, <2>4 DEF Talking
<1>9. Knows(Terms, cpos - 1, learned)'
  <2>1. Knows(d, q, learned)
    BY <1>2, <1>3 DEF ConversationInv
  <2>2. Knows(e, q, learned)
    BY <1>5, <1>7, <2>1, SameKnown
  <2> QED BY <1>2, <1>4, <2>2 DEF client
<1>10. PlaceInv'
  <2>1. joined = 0
    BY DEF ConversationInv, PlaceInv
  <2> QED BY <2>1 DEF PlaceInv, VncLabels, BeforeResponse, BeforeJoins, AfterJoins
<1> QED BY <1>8, <1>9, <1>10 DEF TalkInv

\* Every step of it.
LEMMA VncTalks == ASSUME ConversationInv, v2r_vnc_build_conn PROVE TalkInv'
<1>1. ASSUME NEW msgs, NEW label \in VncLabels \cup {"connection_request"},
             SendServer(msgs, label), pc \in VncLabels
      PROVE  TalkInv'
  <2>1. CASE SendFails(serverOpen)
    BY <2>1, GiveUpTalks DEF SendFails
  <2>2. CASE pc' = label /\ UNCHANGED <<proxy, s2p, arrived, c2p, p2c, client, server>>
    BY <1>1, <2>2, VncStepTalks DEF proxy
  <2> QED BY <1>1, <2>1, <2>2 DEF SendServer
<1>2. CASE ReceiveProtocolVersion
  <2>1. pc \in VncLabels /\ pc' \in VncLabels
    BY <1>2 DEF ReceiveProtocolVersion, VncLabels
  <2> QED BY <1>2, <2>1, VncStepTalks DEF ReceiveProtocolVersion, proxy
<1>3. CASE SendProtocolVersion
  BY <1>3, <1>1 DEF SendProtocolVersion, VncLabels
<1>4. CASE ReceiveSecurityType
  <2>1. pc \in VncLabels /\ pc' \in VncLabels
    BY <1>4 DEF ReceiveSecurityType, VncLabels
  <2> QED BY <1>4, <2>1, VncStepTalks DEF ReceiveSecurityType, proxy
<1>5. CASE v2r_vnc_process_vnc_authentication
  <2>1. CASE pc = "send_response" /\ SendServer(<<Message("response")>>, "result")
    BY <1>1, <2>1 DEF VncLabels
  <2>2. CASE /\ pc \in {"challenge", "result"} /\ pc' \in {"send_response", "send_client_init"}
             /\ UNCHANGED <<proxy, p2s, c2p, p2c, client, server>>
    <3>1. pc \in VncLabels /\ pc' \in VncLabels
      BY <2>2 DEF VncLabels
    <3> QED BY <2>2, <3>1, VncStepTalks DEF proxy
  <2> QED BY <1>5, <2>1, <2>2 DEF v2r_vnc_process_vnc_authentication
<1>6. CASE SendClientInit
  BY <1>6, <1>1 DEF SendClientInit, VncLabels
<1>7. CASE v2r_vnc_recv_server_init
  <2>1. pc \in VncLabels /\ pc' \in VncLabels
    BY <1>7 DEF v2r_vnc_recv_server_init, VncLabels
  <2> QED BY <1>7, <2>1, VncStepTalks DEF v2r_vnc_recv_server_init
<1>8. CASE SendSetup
  BY <1>8, <1>1 DEF SendSetup, VncLabels
<1>9. CASE VncFails
  BY <1>9, GiveUpTalks DEF VncFails
<1> QED BY <1>2, <1>3, <1>4, <1>5, <1>6, <1>7, <1>8, <1>9 DEF v2r_vnc_build_conn

(***************************************************************************)
(* The steps of the client, and what it knows after them.                  *)
(***************************************************************************)
\* Only five kinds of item tell it something.
Telling(d, k) == k \in {4, 7, LastJoinAt(d) + 3} \cup {9 + 2 * i : i \in 0..d.channels + 1}

\* An item that tells nothing leaves the client with what it knew.
LEMMA KnowsOn ==
  ASSUME NEW d, d.channels \in Nat, NEW q \in Nat, NEW l, Knows(d, q, l),
         ~Telling(d, q + 1)
  PROVE  Knows(d, q + 1, l)
<1>1. PICK n \in Nat : n = LastJoinAt(d)
  BY DEF LastJoinAt
<1>2. q + 1 # 4 /\ q + 1 # 7 /\ q + 1 # n + 3
  BY <1>1 DEF Telling
<1>3. ASSUME NEW i \in 0..d.channels + 1 PROVE 2 * i + 9 <= q + 1 <=> 2 * i + 9 <= q
  <2>1. q + 1 # 9 + 2 * i
    BY DEF Telling
  <2> QED BY <2>1
<1>4. {ChannelOf(d, j) : j \in {i \in 0..d.channels + 1 : 2 * i + 9 <= q + 1}}
        = {ChannelOf(d, j) : j \in {i \in 0..d.channels + 1 : 2 * i + 9 <= q}}
  BY <1>3
<1>5. /\ (q + 1 < 4 <=> q < 4) /\ (q + 1 >= 4 <=> q >= 4) /\ (q + 1 >= 7 <=> q >= 7)
      /\ (q + 1 >= n + 3 <=> q >= n + 3)
  BY <1>1, <1>2
<1> QED BY <1>1, <1>4, <1>5 DEF Knows

\* It takes of the response the channels it asked for, which is those that count.
LEMMA IdsOfResponse ==
  ASSUME NEW n \in Nat, NEW m, NEW t, t = Response(m, n)
  PROVE  /\ SubSeq(t.ids, 1, n) = [i \in 1..n |-> MCS_IO_CHANNEL_ID + i]
         /\ SubSeq(t.ids, 1, n) \in Seq(Nat) /\ Len(SubSeq(t.ids, 1, n)) = n
<1>1. PICK e \in Nat : e = channel_count_even(n) /\ n <= e
  BY DEF channel_count_even
<1>2. t.ids = [i \in 1..e |-> IF i <= n THEN MCS_IO_CHANNEL_ID + i ELSE 0]
  BY <1>1 DEF Response, ConnectResponse
<1>3. PICK ids : ids = [i \in 1..e |-> IF i <= n THEN MCS_IO_CHANNEL_ID + i ELSE 0]
  OBVIOUS
<1>4. ids \in Seq(Nat) /\ Len(ids) = e
  <2>1. \A i \in 1..e : (IF i <= n THEN MCS_IO_CHANNEL_ID + i ELSE 0) \in Nat
    BY DEF MCS_IO_CHANNEL_ID
  <2>2. ids \in Seq(Nat)
    BY <1>1, <1>3, <2>1, SeqDef
  <2>3. 1..Len(ids) = 1..e /\ Len(ids) \in Nat
    BY <1>3, <2>2, LenProperties
  <2> QED BY <1>1, <2>2, <2>3
<1>5. ASSUME NEW i \in 1..n PROVE ids[i] = MCS_IO_CHANNEL_ID + i
  <2>1. i \in 1..e /\ i <= n
    BY <1>1
  <2> QED BY <1>3, <2>1
<1>6. n \in 0..Len(ids)
  BY <1>1, <1>4
<1>7. SubSeq(ids, 1, n) \in Seq(Nat)
  BY <1>4, <1>6, PrefixTyped
<1>8. Len(SubSeq(ids, 1, n)) = n /\ \A i \in 1..n : SubSeq(ids, 1, n)[i] = ids[i]
  BY <1>4, <1>6, SubSeqProperties
<1>9. PICK s \in Seq(Nat) : s = SubSeq(ids, 1, n)
  BY <1>7
<1>10. Len(s) = n /\ \A i \in 1..n : s[i] = MCS_IO_CHANNEL_ID + i
  BY <1>5, <1>8, <1>9
<1>11. s = [i \in 1..n |-> MCS_IO_CHANNEL_ID + i]
  <2>1. DOMAIN s = 1..n
    BY <1>9, <1>10, LenProperties
  <2>2. s = [i \in DOMAIN s |-> s[i]]
    BY <1>9, LenProperties
  <2> QED BY <1>10, <2>1, <2>2
<1> QED BY <1>2, <1>3, <1>8, <1>9, <1>11

\* What the client learns from an answer is what it should know by then.
LEMMA KnowsMore ==
  ASSUME NEW d, d.channels \in Nat, NEW q \in Nat, Knows(d, q, learned), LengthsInv,
         Answer(d, q + 1) \in ToClient(wanted), d.method = "none" \/ q < LastJoinAt(d),
         Item(d, q + 1).does = "hear", q + 1 <= LastJoinAt(d) + 12
  PROVE  Knows(d, q + 1, Learn(Answer(d, q + 1)))
<1>1. PICK n \in Nat : n = LastJoinAt(d) /\ n = 2 * d.channels + 11
  BY DEF LastJoinAt
<1>2. learned \in Learned /\ learned.channels = d.channels /\ Len(learned.ids) = d.channels
  BY DEF Knows
<1>3. PICK k \in Nat : k = q + 1 /\ k <= n + 12 /\ k > 0
  BY <1>1
<1>4. PICK m : m = Answer(d, k)
  OBVIOUS
<1>5. Learn(m) \in Learned /\ Learn(m).channels = d.channels
  BY <1>2, <1>3, <1>4, LearnTyped DEF wanted
<1>6. ASSUME ~Telling(d, k), NEW type, m = Message(type),
             type \notin {"connect_response", "attach_user_confirm", "channel_join_confirm",
                          "demand_active"}
      PROVE  Knows(d, k, Learn(m))
  <2>1. Learn(m) = learned
    <3>1. m.type \notin {"connect_response", "attach_user_confirm", "channel_join_confirm",
                         "demand_active"}
      BY <1>6 DEF Message
    <3> QED BY <3>1, Zenon DEF Learn
  <2> QED BY <1>3, <1>6, <2>1, KnowsOn
<1>7. CASE k = 2
  <2>1. m = Message("connection_confirm")
    BY <1>4, <1>7, AnswersAre
  <2>2. ~Telling(d, k)
    BY <1>1, <1>7 DEF Telling
  <2> QED BY <1>3, <1>4, <1>6, <2>1, <2>2
<1>8. CASE k = 4
  <2>1. m = Response(d.method, d.channels)
    BY <1>4, <1>8, AnswersAre
  <2>2. m.type = "connect_response" /\ m.method = d.method
    BY <2>1 DEF Response, ConnectResponse
  <2>3. Learn(m) = [learned EXCEPT !.method = m.method,
                                   !.ids = SubSeq(m.ids, 1, learned.channels)]
    BY <2>2 DEF Learn
  <2>4. /\ SubSeq(m.ids, 1, d.channels) = [i \in 1..d.channels |-> MCS_IO_CHANNEL_ID + i]
        /\ Len(SubSeq(m.ids, 1, d.channels)) = d.channels
    BY <2>1, IdsOfResponse
  <2>5. /\ Learn(m).method = d.method
        /\ Learn(m).ids = [i \in 1..d.channels |-> MCS_IO_CHANNEL_ID + i]
        /\ Len(Learn(m).ids) = d.channels /\ Learn(m).confirmed = learned.confirmed
    BY <1>2, <2>2, <2>3, <2>4 DEF Learned
  <2>6. learned.confirmed
          = {ChannelOf(d, j) : j \in {i \in 0..d.channels + 1 : 2 * i + 9 <= k}}
    <3>1. \A i \in 0..d.channels + 1 : 2 * i + 9 <= q <=> 2 * i + 9 <= k
      BY <1>3, <1>8
    <3> QED BY <3>1 DEF Knows
  <2>7. ~(k < 4) /\ ~(k >= 7) /\ ~(k >= n + 3)
    BY <1>1, <1>8
  <2>8. Knows(d, k, Learn(m))
    BY <1>1, <1>5, <2>5, <2>6, <2>7 DEF Knows
  <2> QED BY <1>3, <1>4, <2>8
<1>9. CASE k = 7
  <2>1. m = AttachUserConfirm(UserOf(d))
    BY <1>4, <1>9, AnswersAre
  <2>2. m.type = "attach_user_confirm" /\ m.user = UserOf(d)
    BY <2>1 DEF AttachUserConfirm
  <2>3. Learn(m) = [learned EXCEPT !.user = m.user]
    BY <2>2 DEF Learn
  <2>4. q >= 4
    BY <1>3, <1>9
  <2>5. /\ Learn(m).method = d.method
        /\ Learn(m).ids = [i \in 1..d.channels |-> MCS_IO_CHANNEL_ID + i]
        /\ Len(Learn(m).ids) = d.channels /\ Learn(m).confirmed = learned.confirmed
        /\ Learn(m).user = UserOf(d)
    BY <1>2, <2>2, <2>3, <2>4 DEF Knows, Learned
  <2>6. learned.confirmed
          = {ChannelOf(d, j) : j \in {i \in 0..d.channels + 1 : 2 * i + 9 <= k}}
    <3>1. \A i \in 0..d.channels + 1 : 2 * i + 9 <= q <=> 2 * i + 9 <= k
      BY <1>3, <1>9
    <3> QED BY <3>1 DEF Knows
  <2>7. ~(k < 4) /\ ~(k >= n + 3)
    BY <1>1, <1>9
  <2>8. Knows(d, k, Learn(m))
    BY <1>1, <1>5, <2>5, <2>6, <2>7 DEF Knows
  <2> QED BY <1>3, <1>4, <2>8
<1>10. CASE k \in 8..n
  <2>1. PICK j \in 0..d.channels + 1 : k = 8 + 2 * j \/ k = 9 + 2 * j
    <3>1. (k - 8) \div 2 \in 0..d.channels + 1
      BY <1>1, <1>10
    <3>2. k = 8 + 2 * ((k - 8) \div 2) \/ k = 9 + 2 * ((k - 8) \div 2)
      BY <1>10
    <3> QED BY <3>1, <3>2
  <2>2. k # 8 + 2 * j
    <3> SUFFICES ASSUME k = 8 + 2 * j PROVE FALSE
      OBVIOUS
    <3>1. Item(d, k) = Says(ChannelJoin(UserOf(d), ChannelOf(d, j)))
      BY <2>1, JoinItems
    <3>2. Item(d, k).does = "hear"
      BY <1>3
    <3> QED BY <3>1, <3>2 DEF Says
  <2>3. m = ChannelJoinConfirm(ChannelOf(d, j))
    <3>1. Answer(d, 9 + 2 * j) = ChannelJoinConfirm(ChannelOf(d, j))
      BY <2>1, AnswersAre
    <3> QED BY <1>4, <2>1, <2>2, <3>1
  <2>4. m.type = "channel_join_confirm" /\ m.channel = ChannelOf(d, j)
    BY <2>3 DEF ChannelJoinConfirm
  <2>5. Learn(m) = [learned EXCEPT !.confirmed = learned.confirmed \cup {m.channel}]
    BY <2>4 DEF Learn
  <2>6. q >= 7 /\ q >= 4 /\ ~(k < 4) /\ ~(k >= n + 3)
    BY <1>1, <1>3, <1>10
  <2>7. /\ Learn(m).method = d.method /\ Learn(m).user = UserOf(d)
        /\ Learn(m).ids = [i \in 1..d.channels |-> MCS_IO_CHANNEL_ID + i]
        /\ Len(Learn(m).ids) = d.channels
        /\ Learn(m).confirmed = learned.confirmed \cup {ChannelOf(d, j)}
    BY <1>2, <2>4, <2>5, <2>6 DEF Knows, Learned
  <2>8. learned.confirmed \cup {ChannelOf(d, j)}
          = {ChannelOf(d, a) : a \in {i \in 0..d.channels + 1 : 2 * i + 9 <= k}}
    <3>1. \A i \in 0..d.channels + 1 : 2 * i + 9 <= k <=> 2 * i + 9 <= q \/ i = j
      BY <1>3, <2>1, <2>2
    <3>2. learned.confirmed
            = {ChannelOf(d, a) : a \in {i \in 0..d.channels + 1 : 2 * i + 9 <= q}}
      BY DEF Knows
    <3> QED BY <2>1, <3>1, <3>2
  <2>9. Knows(d, k, Learn(m))
    BY <1>1, <1>5, <2>6, <2>7, <2>8 DEF Knows
  <2> QED BY <1>3, <1>4, <2>9
<1>11. CASE k > n
  <2>1. d.method = "none"
    BY <1>1, <1>3, <1>11
  <2>2. PICK a \in 1..12 : k = n + a
    <3>1. k - n \in 1..12
      BY <1>3, <1>11
    <3> QED BY <1>3, <3>1
  <2>3. \A msg : Says(msg).does # "hear"
    BY DEF Says
  <2>4. Item(d, n + a).does = "hear"
    BY <1>3, <2>2
  <2>5. a \in {2, 3, 9, 10, 11, 12}
    <3>1. /\ Item(d, n + 1).does # "hear" /\ Item(d, n + 4).does # "hear"
          /\ Item(d, n + 5).does # "hear" /\ Item(d, n + 6).does # "hear"
          /\ Item(d, n + 7).does # "hear" /\ Item(d, n + 8).does # "hear"
      <4>1. /\ Item(d, n + 1) = Says(Data("client_info", UserOf(d)))
            /\ Item(d, n + 4) = Says(Data("confirm_active", UserOf(d)))
            /\ Item(d, n + 5) = Says(Data("synchronize", UserOf(d)))
            /\ Item(d, n + 6) = Says(Data("control_cooperate", UserOf(d)))
            /\ Item(d, n + 7) = Says(Data("control_request", UserOf(d)))
            /\ Item(d, n + 8) = Says(Data("font_list", UserOf(d)))
        BY <1>1, <2>1, ClosingItems
      <4> QED BY <2>3, <4>1
    <3>2. a \in {1, 2, 3, 4, 5, 6, 7, 8, 9, 10, 11, 12}
      BY <2>2
    <3> QED BY <2>4, <3>1, <3>2
  <2>6. CASE a # 3
    <3>1. /\ Answer(d, n + 2) = Message("license_error")
          /\ Answer(d, n + 9) = Message("synchronize")
          /\ Answer(d, n + 10) = Message("control_cooperate")
          /\ Answer(d, n + 11) = Message("control_granted")
          /\ Answer(d, n + 12) = Message("font_map")
      BY <1>1, <2>1, AnswersAre
    <3>2. PICK type \in {"license_error", "synchronize", "control_cooperate",
                         "control_granted", "font_map"} : m = Message(type)
      BY <1>4, <2>2, <2>5, <2>6, <3>1
    <3>3. ~Telling(d, k)
      <4>1. k \notin {4, 7, n + 3}
        BY <1>1, <2>2, <2>6
      <4>2. \A i \in 0..d.channels + 1 : k # 9 + 2 * i
        BY <1>1, <1>11
      <4> QED BY <1>1, <4>1, <4>2 DEF Telling
    <3> QED BY <1>3, <1>4, <1>6, <3>2, <3>3
  <2>7. CASE a = 3
    <3>1. m = DemandActive(d.bpp)
      BY <1>1, <1>4, <2>1, <2>2, <2>7, AnswersAre
    <3>2. m.type = "demand_active" /\ m.bpp = d.bpp
      BY <3>1 DEF DemandActive
    <3>3. Learn(m) = [learned EXCEPT !.bpp = m.bpp]
      BY <3>2 DEF Learn
    <3>4. q >= 7 /\ q >= 4 /\ ~(k < 4)
      BY <1>1, <1>3, <1>11
    <3>5. /\ Learn(m).method = d.method /\ Learn(m).user = UserOf(d)
          /\ Learn(m).ids = [i \in 1..d.channels |-> MCS_IO_CHANNEL_ID + i]
          /\ Len(Learn(m).ids) = d.channels
          /\ Learn(m).confirmed = learned.confirmed /\ Learn(m).bpp = d.bpp
      BY <1>2, <3>2, <3>3, <3>4 DEF Knows, Learned
    <3>6. learned.confirmed
            = {ChannelOf(d, j) : j \in {i \in 0..d.channels + 1 : 2 * i + 9 <= k}}
      <4>1. \A i \in 0..d.channels + 1 : 2 * i + 9 <= q <=> 2 * i + 9 <= k
        BY <1>1, <1>3, <1>11
      <4> QED BY <4>1 DEF Knows
    <3>7. Knows(d, k, Learn(m))
      BY <1>1, <1>5, <3>4, <3>5, <3>6 DEF Knows
    <3> QED BY <1>3, <1>4, <3>7
  <2> QED BY <2>6, <2>7
<1>12. CASE k \in {1, 3, 5, 6}
  <2>1. Item(d, k).does = "hear"
    BY <1>3
  <2>2. Item(d, k).does # "hear"
    <3>1. /\ Item(d, 1) = Says(Message("connection_request"))
          /\ Item(d, 3) = Says(ConnectInitial(d.channels))
          /\ Item(d, 5) = Says(Message("erect_domain_request"))
          /\ Item(d, 6) = Says(Message("attach_user_request"))
      BY OpeningItems
    <3>2. \A msg : Says(msg).does # "hear"
      BY DEF Says
    <3> QED BY <1>12, <3>1, <3>2
  <2> QED BY <2>1, <2>2
<1>13. k \in {1, 2, 3, 4, 5, 6, 7} \/ k \in 8..n \/ k > n
  BY <1>1, <1>3
<1> QED BY <1>7, <1>8, <1>9, <1>10, <1>11, <1>12, <1>13

\* What the client says tells it nothing.
LEMMA SayingTellsNothing ==
  ASSUME NEW d, d.channels \in Nat, NEW k, Item(d, k).does = "say" PROVE ~Telling(d, k)
<1>1. \A type : Hears(type).does # "say"
  BY DEF Hears
<1>2. k \notin {4, 7}
  <2>1. Item(d, 4) = Hears("connect_response") /\ Item(d, 7) = Hears("attach_user_confirm")
    BY OpeningItems
  <2> QED BY <1>1, <2>1
<1>3. \A i \in 0..d.channels + 1 : k # 9 + 2 * i
  <2>1. \A i \in 0..d.channels + 1 : Item(d, 9 + 2 * i) = Hears("channel_join_confirm")
    BY JoinItems
  <2> QED BY <1>1, <2>1
<1>4. k # LastJoinAt(d) + 3
  <2>1. Item(d, LastJoinAt(d) + 3).does = "hear"
    <3>1. CASE d.method = "none"
      <4>1. Item(d, LastJoinAt(d) + 3) = Hears("demand_active")
        BY <3>1, ClosingItems
      <4> QED BY <4>1 DEF Hears
    <3>2. CASE d.method # "none"
      <4>1. PICK n \in Nat : n = LastJoinAt(d) /\ n > 7
        BY DEF LastJoinAt
      <4>2. PICK i \in Nat : i = n + 3
        BY <4>1
      <4>3. ~(i <= 7) /\ ~(i <= n) /\ i # n + 1 /\ i - n - 1 = 2
        BY <4>1, <4>2
      <4>4. Item(d, i) = Closing(UserOf(d))[i - n - 1]
        BY <3>2, <4>1, <4>3, Zenon DEF Item
      <4>5. Closing(UserOf(d))[2] = Hears("license_error")
        BY DEF Closing
      <4>6. Item(d, i) = Hears("license_error")
        BY <4>3, <4>4, <4>5
      <4> QED BY <4>1, <4>2, <4>6 DEF Hears
    <3> QED BY <3>1, <3>2
  <2> QED BY <2>1
<1> QED BY <1>2, <1>3, <1>4 DEF Telling

\* How far the proxy gets.
LEMMA PlaceBound ==
  ASSUME ConversationInv
  PROVE  /\ Place(pc, joined, Terms) <= LastJoinAt(Terms) + 12
         /\ encryption = "none" \/ Place(pc, joined, Terms) <= LastJoinAt(Terms)
<1>1. PICK n \in Nat : n = LastJoinAt(Terms) /\ n = 2 * wanted + 11
  BY ConversationTypes
<1>2. wanted \in Nat
  BY ConversationTypes
<1>3. CASE pc = "channel_join_request"
  <2>1. joined \in 0..wanted + 1
    BY <1>3 DEF ConversationInv, PlaceInv
  <2>2. Place(pc, joined, Terms) = 7 + 2 * joined
    BY <1>3 DEF Place
  <2>3. 7 + 2 * joined <= n
    BY <1>1, <1>2, <2>1
  <2> QED BY <1>1, <1>2, <2>1, <2>2, <2>3
<1>4. CASE pc \in AfterJoins \ {"client_info"}
  <2>1. encryption = "none"
    BY <1>4 DEF ConversationInv, PlaceInv
  <2>2. Place(pc, joined, Terms) <= n + 12
    BY <1>1, <1>4 DEF Place, AfterJoins
  <2> QED BY <1>1, <2>1, <2>2
<1>5. CASE pc = "client_info"
  BY <1>1, <1>5 DEF Place
<1>6. CASE pc \notin {"channel_join_request"} \cup AfterJoins
  <2>1. Place(pc, joined, Terms) \in 0..6
    BY <1>6 DEF Place, AfterJoins
  <2>2. n > 7
    BY <1>1, <1>2
  <2> QED BY <1>1, <2>1, <2>2
<1> QED BY <1>3, <1>4, <1>5, <1>6

\* The client goes one item on.
LEMMA ClientStepTalks == ASSUME ConversationInv, ClientStep PROVE TalkInv'
<1>1. PICK d : d = Terms
  OBVIOUS
<1>2. d.channels = wanted /\ wanted \in Nat /\ d.method = encryption
      /\ LastJoinAt(d) \in Nat
  BY <1>1, ConversationTypes
<1>3. PICK q \in Nat : q = cpos - 1 /\ q + 1 = cpos
  BY ConversationTypes
<1>4. PICK p \in Nat : p = Place(pc, joined, Terms)
  BY ConversationTypes
<1>5. /\ c2p \in Seq(FromTheClient(wanted)) /\ p2c \in Seq(ToClient(wanted))
      /\ LengthsInv /\ learned \in Learned /\ Knows(d, q, learned) /\ Running /\ clientOpen
  BY <1>1, <1>3 DEF ConversationInv, LengthsInv, ClientStep
<1>6. Talk(d, p, q, c2p, p2c, TRUE)
  <2>1. Talk(d, p, q, c2p, p2c, clientOpen) /\ clientOpen = TRUE
    BY <1>1, <1>3, <1>4, <1>5 DEF ConversationInv, Talking
  <2> QED BY <2>1
<1>7. ClientScript \in Seq(Steps)
  BY <1>5, ScriptTyped
<1>8. q + 1 \in 1..Len(ClientScript)
  <2>1. Len(ClientScript) \in Nat /\ ~(cpos > Len(ClientScript))
    BY <1>7, LenProperties DEF ClientStep, ClientActive
  <2> QED BY <1>3, <2>1
<1>9. ClientScript[q + 1] = Item(d, q + 1) /\ ClientScript[q + 1] \in Steps
  <2>1. q + 1 <= Len(ClientScript)
    BY <1>8
  <2>2. ClientScript[q + 1] = Item(d, q + 1)
    BY <1>2, <1>5, <2>1, ScriptAt
  <2>3. ClientScript[q + 1] \in Steps
    BY <1>7, <1>8, ElementOfSeq
  <2> QED BY <2>2, <2>3
<1>10. /\ pc' = pc /\ joined' = joined /\ cpos' = cpos + 1 /\ clientOpen' = clientOpen
       /\ encryption' = encryption /\ bpp' = bpp /\ channel_count' = channel_count
       /\ user_channel_id' = user_channel_id
  BY DEF ClientStep, proxy
<1>11. cpos' - 1 = q + 1
  BY <1>3, <1>10
<1>12. CASE /\ ClientScript[cpos].does = "say"
            /\ c2p' = Append(c2p, ClientScript[cpos].msg)
            /\ UNCHANGED <<p2c, learned>>
  <2>1. Item(d, q + 1).does = "say" /\ Item(d, q + 1).msg \in FromTheClient(wanted)
    BY <1>3, <1>9, <1>12 DEF Steps
  <2>2. Talk(d, p, q + 1, Append(c2p, Item(d, q + 1).msg), p2c, TRUE)
    BY <1>5, <1>6, <2>1, SayMoves
  <2>3. Knows(d, q + 1, learned)
    <3>1. ~Telling(d, q + 1)
      BY <1>2, <2>1, SayingTellsNothing
    <3> QED BY <1>2, <1>5, <3>1, KnowsOn
  <2>4. Terms' = Terms /\ wanted' = wanted
    BY <1>10, <1>12 DEF Terms, wanted
  <2>5. c2p' = Append(c2p, Item(d, q + 1).msg) /\ p2c' = p2c /\ learned' = learned
    BY <1>3, <1>9, <1>12, Zenon
  <2>6. Knows(Terms, cpos - 1, learned)'
    BY <1>1, <1>11, <2>3, <2>4, <2>5
  <2>7. Talking'
    <3>1. Talk(Terms, p, cpos' - 1, c2p', p2c', clientOpen')
      BY <1>1, <1>5, <1>10, <1>11, <2>2, <2>5
    <3>2. Place(pc', joined', Terms') = p
      BY <1>4, <1>10, <2>4
    <3> QED BY <2>4, <3>1, <3>2 DEF Talking
  <2>8. PlaceInv'
    BY <1>10, <2>4 DEF ConversationInv, PlaceInv
  <2> QED BY <2>6, <2>7, <2>8 DEF TalkInv
<1>13. CASE /\ p2c # <<>> /\ p2c' = Tail(p2c) /\ learned' = Learn(Head(p2c))
            /\ UNCHANGED c2p
  <2>1. /\ q < p /\ Item(d, q + 1).does = "hear" /\ Head(p2c) = Answer(d, q + 1)
        /\ Talk(d, p, q + 1, c2p, Tail(p2c), TRUE)
    BY <1>5, <1>6, <1>13, HearMoves
  <2>2. Answer(d, q + 1) \in ToClient(wanted)
    <3>1. Head(p2c) \in ToClient(wanted)
      BY <1>5, <1>13, TailTyped
    <3> QED BY <2>1, <3>1
  <2>3. d.method = "none" \/ q < LastJoinAt(d)
    BY <1>1, <1>2, <1>4, <2>1, PlaceBound
  <2>4. q + 1 <= LastJoinAt(d) + 12
    BY <1>1, <1>2, <1>4, <2>1, PlaceBound
  <2>5. Knows(d, q + 1, Learn(Answer(d, q + 1)))
    BY <1>2, <1>5, <2>1, <2>2, <2>3, <2>4, KnowsMore
  <2>6. Learn(Answer(d, q + 1)).channels = wanted
    BY <1>5, <2>2, LearnTyped
  <2>7. learned' = Learn(Answer(d, q + 1)) /\ p2c' = Tail(p2c) /\ c2p' = c2p
    BY <1>13, <2>1
  <2>8. Terms' = Terms /\ wanted' = wanted
    BY <1>10, <2>6, <2>7 DEF Terms, wanted
  <2>9. Knows(Terms, cpos - 1, learned)'
    BY <1>1, <1>11, <2>5, <2>7, <2>8
  <2>10. Talking'
    <3>1. Talk(Terms, p, cpos' - 1, c2p', p2c', clientOpen')
      BY <1>1, <1>5, <1>10, <1>11, <2>1, <2>7
    <3>2. Place(pc', joined', Terms') = p
      BY <1>4, <1>10, <2>8
    <3> QED BY <2>8, <3>1, <3>2 DEF Talking
  <2>11. PlaceInv'
    BY <1>10, <2>8 DEF ConversationInv, PlaceInv
  <2> QED BY <2>9, <2>10, <2>11 DEF TalkInv
<1> QED BY <1>12, <1>13 DEF ClientStep

\* A client that closes loses what was sent to it, and some of what it sent last.
LEMMA ClientClosesTalks == ASSUME ConversationInv, ClientCloses PROVE TalkInv'
<1>1. PICK n \in 0..Len(c2p) : c2p' = SubSeq(c2p, 1, n)
  BY DEF ClientCloses
<1>2. /\ p2c' = <<>> /\ clientOpen' = FALSE /\ cpos' = cpos /\ learned' = learned
      /\ pc' = pc /\ joined' = joined /\ Running
      /\ encryption' = encryption /\ bpp' = bpp /\ channel_count' = channel_count
      /\ user_channel_id' = user_channel_id
  BY DEF ClientCloses, proxy
<1>3. Terms' = Terms /\ wanted' = wanted
  BY <1>2 DEF Terms, wanted
<1>4. PICK p \in Nat : p = Place(pc, joined, Terms)
  BY ConversationTypes
<1>5. cpos - 1 \in Nat /\ c2p \in Seq(FromTheClient(wanted)) /\ clientOpen \in BOOLEAN
  BY ConversationTypes
<1>6. Talk(Terms, p, cpos - 1, c2p, p2c, clientOpen)
  BY <1>2, <1>4 DEF ConversationInv, Talking
<1>7. Talk(Terms, p, cpos - 1, SubSeq(c2p, 1, n), <<>>, FALSE)
  BY <1>1, <1>4, <1>5, <1>6, CloseMoves
<1>8. Talking'
  BY <1>1, <1>2, <1>3, <1>4, <1>7 DEF Talking
<1>9. Knows(Terms, cpos - 1, learned)'
  BY <1>2, <1>3 DEF ConversationInv
<1>10. PlaceInv'
  BY <1>2, <1>3 DEF ConversationInv, PlaceInv
<1> QED BY <1>8, <1>9, <1>10 DEF TalkInv

\* Steps of the server change nothing of the conversation.
LEMMA ElsewhereTalks ==
  ASSUME ConversationInv, UNCHANGED <<pc, encryption, bpp, channel_count, user_channel_id,
                                      joined, c2p, p2c, client>>
  PROVE  TalkInv'
  BY DEF ConversationInv, TalkInv, PlaceInv, Knows, Talking, Terms, wanted, client, Running

\* Only the client closes its connection.
LEMMA OnlyClientCloses == [Next]_vars => clientOpen' = clientOpen \/ clientOpen' = FALSE
<1> SUFFICES ASSUME [Next]_vars PROVE clientOpen' = clientOpen \/ clientOpen' = FALSE
  OBVIOUS
<1>1. \A how : GiveUp(how) => clientOpen' = clientOpen
  BY DEF GiveUp, client
<1>2. \A m, label : SendClient(m, label) => clientOpen' = clientOpen
  BY DEF SendClient, client
<1>3. \A open : SendFails(open) => clientOpen' = clientOpen
  BY <1>1 DEF SendFails
<1>4. \A msgs, label : SendServer(msgs, label) => clientOpen' = clientOpen
  BY <1>3 DEF SendServer, client
<1>5. \A type, label : Receive(type, label) => clientOpen' = clientOpen
  BY DEF Receive, client
<1>6. CASE v2r_vnc_build_conn
  BY <1>1, <1>4, <1>6
     DEF v2r_vnc_build_conn, ReceiveProtocolVersion, SendProtocolVersion,
         ReceiveSecurityType, v2r_vnc_process_vnc_authentication, SendClientInit,
         v2r_vnc_recv_server_init, SendSetup, VncFails, client
<1>7. CASE v2r_mcs_build_conn
  BY <1>1, <1>2, <1>3, <1>5, <1>7
     DEF v2r_mcs_build_conn, v2r_x224_build_conn, v2r_mcs_recv_conn_init,
         v2r_mcs_send_conn_resp, v2r_mcs_recv_erect_domain_req,
         v2r_mcs_recv_attach_user_request, v2r_mcs_send_attach_user_confirm,
         v2r_mcs_join_channel, client
<1>8. CASE v2r_rdp_build_conn
  <2>1. \A label, m, next : Send(label, m, next) => clientOpen' = clientOpen
    BY <1>2, <1>3 DEF Send
  <2> QED BY <1>1, <1>5, <1>7, <1>8, <2>1
      DEF v2r_rdp_build_conn, v2r_rdp_recv_client_info, v2r_rdp_send_license_error,
          v2r_rdp_send_demand_active, v2r_rdp_recv_confirm_active,
          v2r_rdp_recv_synchronize, v2r_rdp_recv_control_cooperate,
          v2r_rdp_recv_control_request, v2r_rdp_recv_font_list,
          v2r_rdp_send_synchronize, v2r_rdp_send_control_cooperate,
          v2r_rdp_send_control_grant_control, v2r_rdp_send_font_map, RdpFails
<1>9. CASE Interrupted
  BY <1>1, <1>9 DEF Interrupted
<1>10. CASE Environs
  BY <1>10 DEF Environs, ClientStep, ClientCloses, ServerStep, ServerReads, ServerUpdates,
     ServerTurnsAway, ServerCloses, Arrive, client
<1>11. CASE UNCHANGED vars
  BY <1>11 DEF vars, client
<1> QED BY <1>6, <1>8, <1>9, <1>10, <1>11 DEF Next, v2r_session_build_conn

\* One step for every disjunct of Next.
LEMMA ConversationInvInductive == ConversationInv /\ [Next]_vars => ConversationInv'
<1> SUFFICES ASSUME ConversationInv, [Next]_vars PROVE ConversationInv'
  OBVIOUS
<1>1. TalkInv'
  <2>1. CASE v2r_session_build_conn
    BY <2>1, VncTalks, RdpTalks DEF v2r_session_build_conn
  <2>2. CASE Interrupted
    BY <2>2, GiveUpTalks DEF Interrupted
  <2>3. CASE ClientStep \/ ClientCloses
    BY <2>3, ClientStepTalks, ClientClosesTalks
  <2>4. CASE \/ ServerStep \/ ServerReads \/ ServerUpdates \/ ServerTurnsAway
             \/ ServerCloses \/ Arrive \/ UNCHANGED vars
    <3>1. UNCHANGED <<pc, encryption, bpp, channel_count, user_channel_id, joined, c2p,
                      p2c, client>>
      BY <2>4 DEF ServerStep, ServerReads, ServerUpdates, ServerTurnsAway, ServerCloses,
         Arrive, proxy, client, server, vars
    <3> QED BY <3>1, ElsewhereTalks
  <2> QED BY <2>1, <2>2, <2>3, <2>4 DEF Next, Environs
<1>2. LengthsInv'
  BY LengthsInvInductive DEF ConversationInv
<1>3. clientOpen' \in BOOLEAN
  BY OnlyClientCloses DEF ConversationInv
<1> QED BY <1>1, <1>2, <1>3 DEF ConversationInv, TalkInv

\* At first neither has anything behind it.
LEMMA ConversationInvInit == Init => ConversationInv
<1> SUFFICES ASSUME Init PROVE ConversationInv
  OBVIOUS
<1>1. LengthsInv
  BY LengthsInvInit
<1>2. /\ pc = "version" /\ joined = 0 /\ cpos = 1 /\ clientOpen = TRUE
      /\ c2p = <<>> /\ p2c = <<>>
  BY DEF Init
<1>3. PlaceInv
  BY <1>2 DEF PlaceInv, VncLabels, BeforeResponse, BeforeJoins, AfterJoins
<1>4. PICK n \in Nat :
        learned = [channels |-> n, ids |-> [c \in 1..n |-> 0], user |-> 0,
                   method |-> "none", bpp |-> 0, confirmed |-> {}]
  BY ChannelsAssumption DEF Init
<1>5. cpos - 1 = 0
  BY <1>2
<1>6. Knows(Terms, 0, learned)
  <2>1. learned.channels = n /\ learned.method = "none" /\ learned.confirmed = {}
        /\ learned.ids = [c \in 1..n |-> 0]
    BY <1>4
  <2>2. Terms.channels = n
    BY <2>1 DEF Terms, wanted
  <2>3. Len(learned.ids) = n
    <3>1. PICK s : s = [c \in 1..n |-> 0]
      OBVIOUS
    <3>2. s \in Seq(Nat)
      BY <1>4, <3>1, SeqDef
    <3>3. 1..Len(s) = 1..n /\ Len(s) \in Nat
      BY <3>1, <3>2, LenProperties
    <3>4. n \in Nat
      BY <1>4
    <3>5. Len(s) = n
      BY <3>3, <3>4
    <3> QED BY <2>1, <3>1, <3>5
  <2>4. learned \in Learned
    BY <1>1 DEF LengthsInv
  <2>5. \A i \in 0..Terms.channels + 1 : ~(2 * i + 9 <= 0)
    BY <1>4, <2>2
  <2>6. {ChannelOf(Terms, j) : j \in {i \in 0..Terms.channels + 1 : 2 * i + 9 <= 0}} = {}
    BY <2>5
  <2>7. ~(0 >= 4) /\ ~(0 >= 7) /\ ~(0 >= LastJoinAt(Terms) + 3)
    BY <1>4, <2>2 DEF LastJoinAt
  <2> QED BY <2>1, <2>2, <2>3, <2>4, <2>6, <2>7 DEF Knows
<1>7. Talking
  <2>1. Place(pc, joined, Terms) = 0
    BY <1>2 DEF Place
  <2>2. 0 - 0 = 0 /\ 1..0 = {} /\ Len(<<>>) = 0
    OBVIOUS
  <2>3. Ahead(Terms, 0, 0, <<>>, <<>>, TRUE)
    BY <2>2 DEF Ahead
  <2> QED BY <1>2, <1>5, <2>1, <2>3 DEF Talking, Talk
<1> QED BY <1>1, <1>2, <1>3, <1>5, <1>6, <1>7 DEF ConversationInv

(***************************************************************************)
(* Where the session starts.                                               *)
(***************************************************************************)
\* How long the client's script is.
LEMMA ScriptLength ==
  ASSUME ConversationInv
  PROVE  Len(ClientScript) = 2 * wanted + 11 + (IF learned.method = "none" THEN 12 ELSE 13)
<1>1. PICK d : d = Terms
  OBVIOUS
<1>2. d.channels = wanted /\ wanted \in Nat /\ LastJoinAt(d) = 2 * wanted + 11
  BY <1>1, ConversationTypes
<1>3. PICK q \in Nat : q = cpos - 1
  BY ConversationTypes
<1>4. Knows(d, q, learned)
  BY <1>1, <1>3 DEF ConversationInv
<1>5. Len(ClientScript) = LastJoinAt(d) + (IF learned.method = "none" THEN 12 ELSE 13)
  BY <1>2, <1>4, ScriptAt
<1> QED BY <1>2, <1>5

\* The client does not leave its script, which only the choice of a method makes longer.
ScriptInv ==
  /\ ConversationInv
  /\ cpos - 1 <= Len(ClientScript)

\* At first the client is at the beginning of its script.
LEMMA ScriptInvInit == Init => ScriptInv
<1> SUFFICES ASSUME Init PROVE ScriptInv
  OBVIOUS
<1>1. ConversationInv
  BY ConversationInvInit
<1>2. cpos = 1 /\ wanted \in Nat
  BY <1>1, ConversationTypes DEF Init
<1>3. Len(ClientScript) >= 0
  BY <1>1, <1>2, ScriptLength
<1> QED BY <1>1, <1>2, <1>3 DEF ScriptInv

\* Only its own steps take the client on.
LEMMA OnlyClientMoves == [Next]_vars => ClientStep \/ UNCHANGED <<cpos, learned>>
<1> SUFFICES ASSUME [Next]_vars PROVE ClientStep \/ UNCHANGED <<cpos, learned>>
  OBVIOUS
<1>1. \A how : GiveUp(how) => UNCHANGED <<cpos, learned>>
  BY DEF GiveUp, client
<1>2. \A m, label : SendClient(m, label) => UNCHANGED <<cpos, learned>>
  BY DEF SendClient, client
<1>3. \A open : SendFails(open) => UNCHANGED <<cpos, learned>>
  BY <1>1 DEF SendFails
<1>4. \A msgs, label : SendServer(msgs, label) => UNCHANGED <<cpos, learned>>
  BY <1>3 DEF SendServer, client
<1>5. \A type, label : Receive(type, label) => UNCHANGED <<cpos, learned>>
  BY DEF Receive, client
<1>6. CASE v2r_vnc_build_conn
  BY <1>1, <1>4, <1>6
     DEF v2r_vnc_build_conn, ReceiveProtocolVersion, SendProtocolVersion,
         ReceiveSecurityType, v2r_vnc_process_vnc_authentication, SendClientInit,
         v2r_vnc_recv_server_init, SendSetup, VncFails, client
<1>7. CASE v2r_mcs_build_conn
  BY <1>1, <1>2, <1>3, <1>5, <1>7
     DEF v2r_mcs_build_conn, v2r_x224_build_conn, v2r_mcs_recv_conn_init,
         v2r_mcs_send_conn_resp, v2r_mcs_recv_erect_domain_req,
         v2r_mcs_recv_attach_user_request, v2r_mcs_send_attach_user_confirm,
         v2r_mcs_join_channel, client
<1>8. CASE v2r_rdp_build_conn
  <2>1. \A label, m, next : Send(label, m, next) => UNCHANGED <<cpos, learned>>
    BY <1>2, <1>3 DEF Send
  <2> QED BY <1>1, <1>5, <1>7, <1>8, <2>1
      DEF v2r_rdp_build_conn, v2r_rdp_recv_client_info, v2r_rdp_send_license_error,
          v2r_rdp_send_demand_active, v2r_rdp_recv_confirm_active,
          v2r_rdp_recv_synchronize, v2r_rdp_recv_control_cooperate,
          v2r_rdp_recv_control_request, v2r_rdp_recv_font_list,
          v2r_rdp_send_synchronize, v2r_rdp_send_control_cooperate,
          v2r_rdp_send_control_grant_control, v2r_rdp_send_font_map, RdpFails
<1>9. CASE Interrupted
  BY <1>1, <1>9 DEF Interrupted
<1>10. CASE Environs
  BY <1>10 DEF Environs, ClientStep, ClientCloses, ServerStep, ServerReads, ServerUpdates,
     ServerTurnsAway, ServerCloses, Arrive, client
<1>11. CASE UNCHANGED vars
  BY <1>11 DEF vars, client
<1> QED BY <1>6, <1>8, <1>9, <1>10, <1>11 DEF Next, v2r_session_build_conn

\* The script changes only behind the place of the client.
LEMMA ScriptInvInductive == ScriptInv /\ [Next]_vars => ScriptInv'
<1> SUFFICES ASSUME ScriptInv, [Next]_vars PROVE ScriptInv'
  OBVIOUS
<1>1. ConversationInv /\ ConversationInv'
  BY ConversationInvInductive DEF ScriptInv
<1>2. PICK n \in Nat : n = Len(ClientScript)
  <2>1. Len(ClientScript) \in Nat
    BY <1>1, ScriptLength, ConversationTypes
  <2> QED BY <2>1
<1>3. (ConversationInv => 
         Len(ClientScript) = 2 * wanted + 11 + (IF learned.method = "none" THEN 12 ELSE 13))'
  BY ScriptLength, PTL
<1>4. CASE ClientStep
  <2>1. cpos' = cpos + 1 /\ ~(cpos > Len(ClientScript)) /\ cpos \in Nat
    BY <1>1, <1>4, ConversationTypes DEF ClientStep, ClientActive
  <2>2. cpos' - 1 <= n
    BY <1>2, <2>1
  <2>3. wanted' = wanted /\ (learned.method # "none" => learned'.method # "none")
    <3>1. CASE UNCHANGED learned
      BY <3>1 DEF wanted
    <3>2. CASE p2c # <<>> /\ learned' = Learn(Head(p2c))
      <4>1. PICK m \in ToClient(wanted) : m = Head(p2c)
        <5>1. Head(p2c) \in ToClient(wanted)
          BY <1>1, <3>2, ConversationTypes, TailTyped
        <5> QED BY <5>1
      <4>2. Learn(m).channels = wanted /\ LengthsInv
        BY <1>1, LearnTyped DEF ConversationInv
      <4>3. wanted' = wanted
        BY <3>2, <4>1, <4>2 DEF wanted
      <4>4. ASSUME learned.method # "none" PROVE learned'.method # "none"
        <5>1. PICK q \in Nat : q = cpos - 1 /\ q + 1 = cpos
          BY <1>1, ConversationTypes
        <5>2. Knows(Terms, q, learned)
          BY <1>1, <5>1 DEF ConversationInv
        <5>3. q >= 4 /\ encryption = learned.method
          <6>1. ~(q < 4)
            BY <4>4, <5>2 DEF Knows
          <6> QED BY <5>1, <5>2, <6>1 DEF Knows, Terms
        <5>4. PICK r \in Nat : r = cpos' - 1 /\ r >= 4
          BY <2>1, <5>1, <5>3
        <5>5. Knows(Terms', r, learned')
          <6>1. Knows(Terms', cpos' - 1, learned')
            BY <1>1 DEF ConversationInv
          <6> QED BY <5>4, <6>1
        <5>6. Terms'.method = encryption
          BY <1>4 DEF Terms, ClientStep, proxy
        <5>7. learned'.method = Terms'.method
          BY <5>4, <5>5 DEF Knows
        <5> QED BY <4>4, <5>3, <5>6, <5>7
      <4> QED BY <4>3, <4>4
    <3> QED BY <1>4, <3>1, <3>2 DEF ClientStep
  <2>4. n <= Len(ClientScript)' /\ Len(ClientScript)' \in Nat
    <3>1. wanted \in Nat
      BY <1>1, ConversationTypes
    <3>2. n = 2 * wanted + 11 + (IF learned.method = "none" THEN 12 ELSE 13)
      BY <1>1, <1>2, ScriptLength
    <3>3. Len(ClientScript)' = 2 * wanted + 11
                                + (IF learned'.method = "none" THEN 12 ELSE 13)
      BY <1>1, <1>3, <2>3
    <3> QED BY <2>3, <3>1, <3>2, <3>3
  <2>5. cpos' \in Nat
    BY <2>1
  <2>6. cpos' - 1 <= Len(ClientScript)'
    BY <1>2, <2>2, <2>4, <2>5
  <2> QED BY <1>1, <2>6 DEF ScriptInv
<1>5. CASE UNCHANGED <<cpos, learned>>
  <2>1. wanted' = wanted /\ learned' = learned /\ cpos' = cpos
    BY <1>5 DEF wanted
  <2>2. Len(ClientScript)' = Len(ClientScript)
    BY <1>1, <1>3, <2>1, ScriptLength
  <2> QED BY <1>1, <2>1, <2>2 DEF ScriptInv
<1>6. ClientStep \/ UNCHANGED <<cpos, learned>>
  BY OnlyClientMoves
<1> QED BY <1>4, <1>5, <1>6

\* When the session starts both have said everything, and the client has heard every
\* answer to the end of the joins.
LEMMA AtTransmit ==
  ASSUME ScriptInv, pc = "transmit"
  PROVE  /\ c2p = <<>> /\ encryption = "none" /\ channel_count = wanted
         /\ user_channel_id = UserChannel(wanted)
         /\ cpos - 1 >= 2 * wanted + 19 /\ wanted \in Nat
<1>1. PICK d : d = Terms
  OBVIOUS
<1>2. d.channels = wanted /\ wanted \in Nat /\ LastJoinAt(d) = 2 * wanted + 11
      /\ d.method = encryption
  BY <1>1, ConversationTypes DEF ScriptInv
<1>3. PICK n \in Nat : n = LastJoinAt(d) /\ n = 2 * wanted + 11
  BY <1>2
<1>4. /\ encryption = "none" /\ channel_count = wanted
      /\ user_channel_id = UserChannel(wanted)
  BY DEF ScriptInv, ConversationInv, PlaceInv, AfterJoins
<1>5. PICK q \in Nat : q = cpos - 1
  BY ConversationTypes DEF ScriptInv
<1>6. PICK p \in Nat : p = n + 12
  BY <1>3
<1>7. Place(pc, joined, d) = p
  BY <1>3, <1>6 DEF Place
<1>8. Talk(d, p, q, c2p, p2c, clientOpen)
  <2>1. Running
    BY DEF Running
  <2> QED BY <1>1, <1>5, <1>7, <2>1 DEF ScriptInv, ConversationInv, Talking
<1>9. c2p \in Seq(FromTheClient(wanted))
  BY ConversationTypes DEF ScriptInv
<1>10. q <= p
  <2>1. Knows(d, q, learned)
    BY <1>1, <1>5 DEF ScriptInv, ConversationInv
  <2>2. learned.method = "none"
    BY <1>2, <1>4, <2>1 DEF Knows
  <2>3. Len(ClientScript) = 2 * wanted + 11 + 12
    BY <2>2, ScriptLength DEF ScriptInv
  <2>4. cpos - 1 <= 2 * wanted + 11 + 12
    BY <2>3 DEF ScriptInv
  <2> QED BY <1>3, <1>5, <1>6, <2>4
<1>11. CASE Ahead(d, p, q, c2p, p2c, clientOpen)
  <2>1. p <= q /\ Len(c2p) <= q - p /\ Len(c2p) \in Nat
    BY <1>9, <1>11, LenProperties DEF Ahead
  <2>2. Len(c2p) = 0
    BY <1>5, <1>6, <1>10, <2>1
  <2>3. c2p = <<>>
    BY <1>9, <2>2, EmptySeq
  <2> QED BY <1>2, <1>3, <1>4, <1>5, <1>6, <2>1, <2>3
<1>12. CASE Behind(d, p, q, c2p, p2c, clientOpen)
  <2>1. q < p /\ c2p = <<>> /\ \A i \in 1..p - q : Item(d, q + i).does = "hear"
    BY <1>12 DEF Behind
  <2>2. Item(d, n + 8) = Says(Data("font_list", UserOf(d)))
    BY <1>2, <1>3, <1>4, ClosingItems
  <2>3. ~(Item(d, n + 8).does = "hear")
    BY <2>2 DEF Says
  <2>4. q >= n + 8
    <3>1. ASSUME q < n + 8 PROVE FALSE
      <4>1. PICK i \in Nat : i = n + 8 - q /\ i >= 1 /\ i <= p - q /\ q + i = n + 8
        BY <1>3, <1>5, <1>6, <3>1
      <4>2. i \in 1..p - q
        BY <1>5, <1>6, <4>1
      <4>3. Item(d, q + i).does = "hear"
        BY <2>1, <4>2
      <4> QED BY <2>3, <4>1, <4>3
    <3> QED BY <1>3, <1>5, <3>1
  <2> QED BY <1>2, <1>3, <1>4, <1>5, <2>1, <2>4
<1> QED BY <1>8, <1>11, <1>12 DEF Talk

\* What the client has learnt by then.
LEMMA LearnedAtTransmit ==
  ASSUME ScriptInv, pc = "transmit"
  PROVE  /\ wanted \in Nat /\ user_channel_id = UserChannel(wanted)
         /\ learned.user = wanted + 3 /\ learned.bpp = bpp
         /\ learned.ids = [i \in 1..wanted |-> MCS_IO_CHANNEL_ID + i]
         /\ learned.confirmed = {ChannelOf(Terms, j) : j \in 0..wanted + 1}
<1>1. PICK d : d = Terms
  OBVIOUS
<1>2. d.channels = wanted /\ wanted \in Nat /\ LastJoinAt(d) = 2 * wanted + 11
      /\ d.method = encryption /\ d.bpp = bpp
  BY <1>1, ConversationTypes DEF ScriptInv
<1>3. PICK q \in Nat : q = cpos - 1
  BY ConversationTypes DEF ScriptInv
<1>4. q >= 2 * wanted + 19 /\ encryption = "none" /\ user_channel_id = UserChannel(wanted)
  BY <1>3, AtTransmit
<1>5. Knows(d, q, learned)
  BY <1>1, <1>3 DEF ScriptInv, ConversationInv
<1>6. q >= 4 /\ q >= 7 /\ q >= LastJoinAt(d) + 3
  BY <1>2, <1>3, <1>4
<1>7. learned.user = UserOf(d) /\ learned.bpp = d.bpp
      /\ learned.ids = [i \in 1..wanted |-> MCS_IO_CHANNEL_ID + i]
  BY <1>2, <1>4, <1>5, <1>6 DEF Knows
<1>8. {i \in 0..wanted + 1 : 2 * i + 9 <= q} = 0..wanted + 1
  BY <1>2, <1>3, <1>4
<1>9. learned.confirmed = {ChannelOf(d, j) : j \in 0..wanted + 1}
  BY <1>2, <1>5, <1>8 DEF Knows
<1> QED BY <1>1, <1>2, <1>4, <1>7, <1>9 DEF UserOf

\* The channels joined are numbered without a gap.
LEMMA ChannelsAre ==
  ASSUME NEW n \in Nat, NEW d, d.channels = n
  PROVE  /\ {ChannelOf(d, j) : j \in 0..n + 1} = MCS_IO_CHANNEL_ID..MCS_IO_CHANNEL_ID + n + 1
         /\ {UserChannel(n), MCS_IO_CHANNEL_ID} \cup {MCS_IO_CHANNEL_ID + i : i \in 1..n}
              = MCS_IO_CHANNEL_ID..MCS_IO_CHANNEL_ID + n + 1
<1>1. PICK b \in Nat : b = MCS_IO_CHANNEL_ID
  BY DEF MCS_IO_CHANNEL_ID
<1>2. UserChannel(n) = b + n + 1
  BY <1>1 DEF UserChannel
<1>3. \A j \in 0..n + 1 : ChannelOf(d, j) = IF j = 0 THEN b + n + 1 ELSE b + j - 1
  BY <1>1, <1>2 DEF ChannelOf
<1>4. \A j \in 0..n + 1 : ChannelOf(d, j) \in b..b + n + 1
  BY <1>1, <1>3
<1>5. ASSUME NEW c \in b..b + n + 1 PROVE \E j \in 0..n + 1 : c = ChannelOf(d, j)
  <2>1. CASE c = b + n + 1
    <3>1. 0 \in 0..n + 1
      OBVIOUS
    <3> QED BY <1>3, <2>1, <3>1
  <2>2. CASE c # b + n + 1
    <3>1. PICK j \in Nat : j = c - b + 1 /\ j >= 1 /\ j <= n + 1 /\ c = b + j - 1
      BY <1>1, <2>2
    <3>2. j \in 0..n + 1 /\ j # 0
      BY <3>1
    <3> QED BY <1>3, <3>1, <3>2
  <2> QED BY <2>1, <2>2
<1>6. {ChannelOf(d, j) : j \in 0..n + 1} = b..b + n + 1
  BY <1>4, <1>5
<1>7. {UserChannel(n), b} \cup {b + i : i \in 1..n} = b..b + n + 1
  <2>1. ASSUME NEW c \in {UserChannel(n), b} \cup {b + i : i \in 1..n}
        PROVE  c \in b..b + n + 1
    BY <1>1, <1>2, <2>1
  <2>2. ASSUME NEW c \in b..b + n + 1
        PROVE  c \in {UserChannel(n), b} \cup {b + i : i \in 1..n}
    <3>1. CASE c = b \/ c = b + n + 1
      BY <1>2, <3>1
    <3>2. CASE c # b /\ c # b + n + 1
      <4>1. PICK i \in Nat : i = c - b /\ i >= 1 /\ i <= n /\ c = b + i
        BY <1>1, <3>2
      <4> QED BY <4>1
    <3> QED BY <3>1, <3>2
  <2> QED BY <2>1, <2>2
<1> QED BY <1>1, <1>6, <1>7

\* At the end of the conversation the client has heard every confirmation.
LEMMA ScriptGivesChannels == ScriptInv => ChannelsAgree
<1> SUFFICES ASSUME ScriptInv, pc = "transmit"
             PROVE  /\ learned.user + MCS_BASE_CHANNEL_ID = user_channel_id
                    /\ learned.confirmed = {user_channel_id, MCS_IO_CHANNEL_ID}
                                            \cup {learned.ids[c] : c \in 1..learned.channels}
                    /\ Cardinality(learned.confirmed) = learned.channels + 2
  BY DEF ChannelsAgree
<1>1. PICK n \in Nat : n = wanted
  BY LearnedAtTransmit
<1>2. learned.channels = n
  BY <1>1 DEF wanted
<1>3. user_channel_id = UserChannel(n) /\ learned.user = n + 3
  BY <1>1, LearnedAtTransmit
<1>4. learned.ids = [i \in 1..n |-> MCS_IO_CHANNEL_ID + i]
  BY <1>1, LearnedAtTransmit
<1>5. learned.confirmed = {ChannelOf(Terms, j) : j \in 0..n + 1}
  BY <1>1, LearnedAtTransmit
<1>6. Terms.channels = n
  BY <1>1 DEF Terms
<1>7. learned.confirmed = MCS_IO_CHANNEL_ID..MCS_IO_CHANNEL_ID + n + 1
  BY <1>5, <1>6, ChannelsAre
<1>8. {learned.ids[c] : c \in 1..n} = {MCS_IO_CHANNEL_ID + i : i \in 1..n}
  BY <1>4
<1>9. {user_channel_id, MCS_IO_CHANNEL_ID} \cup {learned.ids[c] : c \in 1..n}
        = MCS_IO_CHANNEL_ID..MCS_IO_CHANNEL_ID + n + 1
  BY <1>3, <1>6, <1>8, ChannelsAre
<1>10. Cardinality(learned.confirmed) = n + 2
  <2>1. PICK a \in Nat : a = MCS_IO_CHANNEL_ID
    BY DEF MCS_IO_CHANNEL_ID
  <2>2. PICK b \in Nat : b = a + n + 1 /\ ~(a > b) /\ b - a + 1 = n + 2
    BY <2>1
  <2>3. Cardinality(a..b) = b - a + 1
    <3>1. a \in Int /\ b \in Int /\ ~(a > b)
      BY <2>1, <2>2
    <3> QED BY <3>1, FS_Interval
  <2> QED BY <1>7, <2>1, <2>2, <2>3
<1>11. learned.user + MCS_BASE_CHANNEL_ID = user_channel_id
  BY <1>1, <1>3 DEF UserChannel, MCS_BASE_CHANNEL_ID, MCS_IO_CHANNEL_ID
<1> QED BY <1>2, <1>7, <1>9, <1>10, <1>11

\* The invariant holds in every state.
LEMMA ScriptInvAlways == Spec => []ScriptInv
<1> QED BY ScriptInvInit, ScriptInvInductive, PTL DEF Spec

\* However the messages of the two interleave, the client has joined every channel it
\* wanted and its own two, each once, when the session starts, and it sends with the
\* user that mcs.c expects.
THEOREM ChannelsAlwaysAgree == Spec => []ChannelsAgree
BY ScriptInvAlways, ScriptGivesChannels, PTL

(***************************************************************************)
(* The VNC server.                                                         *)
(***************************************************************************)
ServerSteps == [does : {"say"}, msg : {"version", "security", "challenge", "result", "server_init"}]
               \cup [does : {"hear"}, type : {"version", "response", "client_init"}]

\* The server's script without concatenations.
ServerItem(s, k) ==
  IF k = 1 THEN Says("version") ELSE IF k = 2 THEN Hears("version")
  ELSE IF k = 3 THEN Says("security")
  ELSE IF s = "none" THEN IF k = 4 THEN Hears("client_init") ELSE Says("server_init")
  ELSE IF k = 4 THEN Says("challenge") ELSE IF k = 5 THEN Hears("response")
  ELSE IF k = 6 THEN Says("result") ELSE IF k = 7 THEN Hears("client_init")
  ELSE Says("server_init")

ServerItems(s) == IF s = "none" THEN 5 ELSE 8

\* The server's script, item by item, for each kind of security.
LEMMA ServerScriptIs ==
  /\ Len(ServerScript) = ServerItems(security)
  /\ \A k \in 1..ServerItems(security) : ServerScript[k] = ServerItem(security, k)
<1>1. PICK a : a = <<Says("version"), Hears("version"), Says("security")>>
  OBVIOUS
<1>2. PICK x : x = IF security = "none" THEN <<>>
                   ELSE <<Says("challenge"), Hears("response"), Says("result")>>
  OBVIOUS
<1>3. PICK b : b = <<Hears("client_init"), Says("server_init")>>
  OBVIOUS
<1>4. ServerScript = (a \o x) \o b
  BY <1>1, <1>2, <1>3, Zenon DEF ServerScript
<1>5. /\ Says("version") \in ServerSteps /\ Hears("version") \in ServerSteps
      /\ Says("security") \in ServerSteps /\ Says("challenge") \in ServerSteps
      /\ Hears("response") \in ServerSteps /\ Says("result") \in ServerSteps
      /\ Hears("client_init") \in ServerSteps /\ Says("server_init") \in ServerSteps
  BY DEF Says, Hears, ServerSteps
<1>6. /\ a \in Seq(ServerSteps) /\ Len(a) = 3 /\ a[1] = Says("version")
      /\ a[2] = Hears("version") /\ a[3] = Says("security")
  BY <1>1, <1>5
<1>7. /\ b \in Seq(ServerSteps) /\ Len(b) = 2 /\ b[1] = Hears("client_init")
      /\ b[2] = Says("server_init")
  BY <1>3, <1>5
<1>8. CASE security = "none"
  <2>1. x = <<>> /\ x \in Seq(ServerSteps) /\ Len(x) = 0
    BY <1>2, <1>8
  <2>2. a \o x \in Seq(ServerSteps) /\ Len(a \o x) = 3
    BY <1>6, <2>1, Together
  <2>3. \A k \in 1..3 : (a \o x)[k] = a[k]
    <3>1. ASSUME NEW k \in 1..3 PROVE (a \o x)[k] = a[k]
      <4>1. k \in 1..Len(a) + Len(x) /\ k <= Len(a)
        BY <1>6, <2>1
      <4> QED BY <1>6, <2>1, <4>1, TogetherAt
    <3> QED BY <3>1
  <2>4. PICK c \in Seq(ServerSteps) : c = a \o x
    BY <2>2
  <2>5. Len(c) = 3 /\ \A k \in 1..3 : c[k] = a[k]
    BY <2>2, <2>3, <2>4
  <2>6. Len(c \o b) = 5 /\ \A k \in 1..5 : (c \o b)[k] = IF k <= 3 THEN c[k] ELSE b[k - 3]
    <3>1. Len(c \o b) = 5
      <4>1. Len(c \o b) = Len(c) + Len(b)
        BY <1>7, <2>4, Together
      <4> QED BY <1>7, <2>5, <4>1
    <3>2. ASSUME NEW k \in 1..5 PROVE (c \o b)[k] = IF k <= 3 THEN c[k] ELSE b[k - 3]
      <4>1. k \in 1..Len(c) + Len(b)
        BY <1>7, <2>5
      <4>2. (c \o b)[k] = IF k <= Len(c) THEN c[k] ELSE b[k - Len(c)]
        BY <1>7, <2>4, <4>1, TogetherAt
      <4> QED BY <2>5, <4>2
    <3> QED BY <3>1, <3>2
  <2>7. ASSUME NEW k \in 1..5 PROVE (c \o b)[k] = ServerItem(security, k)
    <3>1. (c \o b)[k] = IF k <= 3 THEN a[k] ELSE b[k - 3]
      BY <2>5, <2>6
    <3>2. CASE k <= 3
      <4>1. k = 1 \/ k = 2 \/ k = 3
        BY <3>2
      <4>2. (c \o b)[k] = a[k]
        BY <3>1, <3>2
      <4>3. ServerItem(security, 1) = a[1]
        BY <1>6 DEF ServerItem
      <4>4. ServerItem(security, 2) = a[2]
        BY <1>6 DEF ServerItem
      <4>5. ServerItem(security, 3) = a[3]
        BY <1>6 DEF ServerItem
      <4> QED BY <4>1, <4>2, <4>3, <4>4, <4>5
    <3>3. CASE k = 4
      BY <1>7, <1>8, <3>1, <3>3 DEF ServerItem
    <3>4. CASE k = 5
      BY <1>7, <1>8, <3>1, <3>4 DEF ServerItem
    <3>5. k <= 3 \/ k = 4 \/ k = 5
      OBVIOUS
    <3> QED BY <3>2, <3>3, <3>4, <3>5
  <2>8. ServerItems(security) = 5
    BY <1>8 DEF ServerItems
  <2> QED BY <1>4, <2>4, <2>6, <2>7, <2>8
<1>9. CASE security # "none"
  <2>1. /\ x \in Seq(ServerSteps) /\ Len(x) = 3 /\ x[1] = Says("challenge")
        /\ x[2] = Hears("response") /\ x[3] = Says("result")
    BY <1>2, <1>5, <1>9
  <2>2. a \o x \in Seq(ServerSteps) /\ Len(a \o x) = 6
    <3>1. a \o x \in Seq(ServerSteps) /\ Len(a \o x) = Len(a) + Len(x)
      BY <1>6, <2>1, Together
    <3> QED BY <1>6, <2>1, <3>1
  <2>3. \A k \in 1..6 : (a \o x)[k] = IF k <= 3 THEN a[k] ELSE x[k - 3]
    <3>1. ASSUME NEW k \in 1..6 PROVE (a \o x)[k] = IF k <= 3 THEN a[k] ELSE x[k - 3]
      <4>1. k \in 1..Len(a) + Len(x)
        BY <1>6, <2>1
      <4>2. (a \o x)[k] = IF k <= Len(a) THEN a[k] ELSE x[k - Len(a)]
        BY <1>6, <2>1, <4>1, TogetherAt
      <4> QED BY <1>6, <4>2
    <3> QED BY <3>1
  <2>4. PICK c \in Seq(ServerSteps) : c = a \o x
    BY <2>2
  <2>5. Len(c) = 6 /\ \A k \in 1..6 : c[k] = IF k <= 3 THEN a[k] ELSE x[k - 3]
    BY <2>2, <2>3, <2>4
  <2>6. Len(c \o b) = 8 /\ \A k \in 1..8 : (c \o b)[k] = IF k <= 6 THEN c[k] ELSE b[k - 6]
    <3>1. Len(c \o b) = 8
      <4>1. Len(c \o b) = Len(c) + Len(b)
        BY <1>7, <2>4, Together
      <4> QED BY <1>7, <2>5, <4>1
    <3>2. ASSUME NEW k \in 1..8 PROVE (c \o b)[k] = IF k <= 6 THEN c[k] ELSE b[k - 6]
      <4>1. k \in 1..Len(c) + Len(b)
        BY <1>7, <2>5
      <4>2. (c \o b)[k] = IF k <= Len(c) THEN c[k] ELSE b[k - Len(c)]
        BY <1>7, <2>4, <4>1, TogetherAt
      <4> QED BY <2>5, <4>2
    <3> QED BY <3>1, <3>2
  <2>7. ASSUME NEW k \in 1..8 PROVE (c \o b)[k] = ServerItem(security, k)
    <3>1. (c \o b)[k] = IF k <= 6 THEN (IF k <= 3 THEN a[k] ELSE x[k - 3]) ELSE b[k - 6]
      BY <2>5, <2>6
    <3>2. CASE k <= 3
      <4>1. k = 1 \/ k = 2 \/ k = 3
        BY <3>2
      <4>2. (c \o b)[k] = a[k]
        BY <3>1, <3>2
      <4>3. ServerItem(security, 1) = a[1]
        BY <1>6 DEF ServerItem
      <4>4. ServerItem(security, 2) = a[2]
        BY <1>6 DEF ServerItem
      <4>5. ServerItem(security, 3) = a[3]
        BY <1>6 DEF ServerItem
      <4> QED BY <4>1, <4>2, <4>3, <4>4, <4>5
    <3>3. CASE k = 4
      BY <1>9, <2>1, <3>1, <3>3 DEF ServerItem
    <3>4. CASE k = 5
      BY <1>9, <2>1, <3>1, <3>4 DEF ServerItem
    <3>5. CASE k = 6
      BY <1>9, <2>1, <3>1, <3>5 DEF ServerItem
    <3>6. CASE k = 7
      BY <1>7, <1>9, <3>1, <3>6 DEF ServerItem
    <3>7. CASE k = 8
      BY <1>7, <1>9, <3>1, <3>7 DEF ServerItem
    <3>8. k <= 3 \/ k = 4 \/ k = 5 \/ k = 6 \/ k = 7 \/ k = 8
      OBVIOUS
    <3> QED BY <3>2, <3>3, <3>4, <3>5, <3>6, <3>7, <3>8
  <2>8. ServerItems(security) = 8
    BY <1>9 DEF ServerItems
  <2> QED BY <1>4, <2>4, <2>6, <2>7, <2>8
<1> QED BY <1>8, <1>9

(***************************************************************************)
(* What the proxy asks of the server.  Nothing before SendSetup; then one  *)
(* format and one request after it, so that the server has been set to the *)
(* format when it reads the request.                                       *)
(***************************************************************************)
\* The format the proxy makes of the server's own, and its bits per pixel.
Told == [own |-> native,
         order |-> IF native.depth \in {24, 16, 15} THEN "rdp"
                   ELSE IF native.depth = 8 THEN "map" ELSE "server"]
BppOf(depth) == IF depth = 24 THEN 32 ELSE IF depth \in {8, 15, 16} THEN depth ELSE 0

ServerTypes ==
  /\ security \in Securities /\ serverOpen \in BOOLEAN
  /\ native \in Natives
  /\ s2p \in Seq(ServerUnits) /\ arrived \in 0..Len(s2p) /\ p2s \in Seq(ServerMessages)
  /\ spos \in 1..ServerItems(security) + 1
  /\ inEffect \in Formats
  /\ format \in {NoFormat, Told} /\ bpp \in {0, BppOf(native.depth)}
  /\ pend \in {"none", "full"} /\ updates \in 0..1

\* The viewer's messages that are left, with the format they name and what the server
\* has done of them.
AsksOnce(s, f, eff, p, n) ==
  /\ \A i \in 1..Len(s) : s[i].type = "set_pixel_format" => s[i].format = f
  /\ \A i \in 1..Len(s) : s[i].type = "request" =>
       /\ i = Len(s) /\ s[i] = Request(FALSE) /\ p = "none" /\ n = 0
       /\ eff = f \/ \E j \in 1..i - 1 : s[j].type = "set_pixel_format"

NothingAsked(s) == \A i \in 1..Len(s) : s[i].type \notin {"request", "set_pixel_format"}
NoUpdates(s)    == \A i \in 1..Len(s) : s[i].type # "update"
Quiet == NothingAsked(p2s) /\ NoUpdates(s2p) /\ pend = "none" /\ updates = 0

AskingInv ==
  /\ pc \in VncLabels => Quiet
  /\ pc \in VncLabels \ {"send_setup"} => bpp = 0
  /\ Quiet \/ (format = Told /\ bpp = BppOf(native.depth))
  /\ Running /\ pc \notin VncLabels \ {"send_setup"} =>
       format = Told /\ bpp = BppOf(native.depth)
  /\ AsksOnce(p2s, format, inEffect, pend, updates)
  /\ pend # "none" => updates = 0 /\ inEffect = format
  /\ \A i \in 1..Len(s2p) : s2p[i].type = "update" => s2p[i].format = format
  /\ Running /\ pc \notin VncLabels /\ serverOpen =>
       pend = "full" \/ updates = 1 \/ \E i \in 1..Len(p2s) : p2s[i].type = "request"

ServerInv == ServerTypes /\ AskingInv

\* The first element of a stream and the rest of it.
LEMMA TailAt ==
  ASSUME NEW S, NEW s \in Seq(S), s # <<>>
  PROVE  /\ Tail(s) \in Seq(S) /\ Len(Tail(s)) = Len(s) - 1 /\ Len(s) \in Nat \ {0}
         /\ Head(s) = s[1] /\ s[1] \in S
         /\ \A i \in 1..Len(s) - 1 : Tail(s)[i] = s[i + 1] /\ i + 1 \in 1..Len(s)
<1>1. Len(s) \in Nat \ {0}
  BY EmptySeq
<1>2. Tail(s) \in Seq(S) /\ Len(Tail(s)) = Len(s) - 1 /\ Head(s) \in S
  BY HeadTailProperties
<1>3. Head(s) = s[1]
  OBVIOUS
<1>4. Tail(s) = SubSeq(s, 2, Len(s))
  BY TailIsSubSeq
<1>5. \A i \in 2..Len(s) : s[i] \in S
  BY <1>1, ElementOfSeq
<1>6. \A i \in 1..Len(s) - 2 + 1 : SubSeq(s, 2, Len(s))[i] = s[2 + i - 1]
  BY <1>1, <1>5, SubSeqProperties
<1>7. ASSUME NEW i \in 1..Len(s) - 1 PROVE Tail(s)[i] = s[i + 1] /\ i + 1 \in 1..Len(s)
  <2>1. i \in 1..Len(s) - 2 + 1 /\ 2 + i - 1 = i + 1 /\ i + 1 \in 1..Len(s)
    BY <1>1
  <2> QED BY <1>4, <1>6, <2>1
<1> QED BY <1>1, <1>2, <1>3, <1>7

\* Taking a message that neither names a format nor asks leaves what is asked for.
LEMMA TailAsksOnce ==
  ASSUME NEW S, NEW s \in Seq(S), s # <<>>, NEW f, NEW eff, NEW p, NEW n,
         AsksOnce(s, f, eff, p, n), s[1].type # "set_pixel_format"
  PROVE  s[1].type # "request" => AsksOnce(Tail(s), f, eff, p, n)
<1> SUFFICES ASSUME s[1].type # "request" PROVE AsksOnce(Tail(s), f, eff, p, n)
  OBVIOUS
<1>1. PICK t : t = Tail(s)
  OBVIOUS
<1>2. PICK m \in Nat : m = Len(s) - 1 /\ m = Len(t) /\ Len(s) = m + 1
  BY <1>1, TailAt
<1>3. \A i \in 1..m : t[i] = s[i + 1] /\ i + 1 \in 1..Len(s)
  BY <1>1, <1>2, TailAt
<1>4. \A i \in 1..m : t[i].type = "set_pixel_format" => t[i].format = f
  BY <1>3 DEF AsksOnce
<1>5. ASSUME NEW i \in 1..m, t[i].type = "request"
      PROVE  /\ i = m /\ t[i] = Request(FALSE) /\ p = "none" /\ n = 0
             /\ eff = f \/ \E j \in 1..i - 1 : t[j].type = "set_pixel_format"
  <2>1. /\ i + 1 = m + 1 /\ t[i] = Request(FALSE) /\ p = "none" /\ n = 0
        /\ eff = f \/ \E j \in 1..i : s[j].type = "set_pixel_format"
    <3>1. PICK k : k = i + 1
      OBVIOUS
    <3>2. k \in 1..Len(s) /\ t[i] = s[k] /\ s[k].type = "request"
      BY <1>3, <1>5, <3>1
    <3>3. /\ k = Len(s) /\ s[k] = Request(FALSE) /\ p = "none" /\ n = 0
          /\ eff = f \/ \E j \in 1..k - 1 : s[j].type = "set_pixel_format"
      BY <3>2 DEF AsksOnce
    <3>4. 1..k - 1 = 1..i
      BY <3>1
    <3> QED BY <1>2, <3>1, <3>2, <3>3, <3>4
  <2>2. ASSUME NEW j \in 1..i, s[j].type = "set_pixel_format"
        PROVE  \E k \in 1..i - 1 : t[k].type = "set_pixel_format"
    <3>1. j # 1
      BY <2>2
    <3>2. j - 1 \in 1..m /\ j - 1 \in 1..i - 1 /\ j - 1 + 1 = j
      BY <1>2, <3>1
    <3>3. t[j - 1].type = "set_pixel_format"
      BY <1>3, <2>2, <3>2
    <3> QED BY <3>2, <3>3
  <2>3. i = m
    BY <1>2, <2>1
  <2> QED BY <2>1, <2>2, <2>3
<1> QED BY <1>1, <1>2, <1>4, <1>5 DEF AsksOnce

\* Taking the format: the server is set to it.
LEMMA FormatTaken ==
  ASSUME NEW S, NEW s \in Seq(S), s # <<>>, NEW f, NEW eff, NEW p, NEW n,
         AsksOnce(s, f, eff, p, n)
  PROVE  AsksOnce(Tail(s), f, f, p, n)
<1>1. PICK t : t = Tail(s)
  OBVIOUS
<1>2. PICK m \in Nat : m = Len(s) - 1 /\ m = Len(t) /\ Len(s) = m + 1
  BY <1>1, TailAt
<1>3. \A i \in 1..m : t[i] = s[i + 1] /\ i + 1 \in 1..Len(s)
  BY <1>1, <1>2, TailAt
<1>4. \A i \in 1..m : t[i].type = "set_pixel_format" => t[i].format = f
  BY <1>3 DEF AsksOnce
<1>5. ASSUME NEW i \in 1..m, t[i].type = "request"
      PROVE  i = m /\ t[i] = Request(FALSE) /\ p = "none" /\ n = 0
  <2>1. i + 1 = m + 1 /\ t[i] = Request(FALSE) /\ p = "none" /\ n = 0
    BY <1>2, <1>3, <1>5 DEF AsksOnce
  <2> QED BY <1>2, <2>1
<1> QED BY <1>1, <1>2, <1>4, <1>5 DEF AsksOnce

\* Taking the request, which is the last message.
LEMMA RequestTaken ==
  ASSUME NEW S, NEW s \in Seq(S), s # <<>>, NEW f, NEW eff, NEW p, NEW n, NEW q,
         AsksOnce(s, f, eff, p, n), s[1].type = "request"
  PROVE  /\ Tail(s) = <<>> /\ s[1] = Request(FALSE) /\ p = "none" /\ n = 0 /\ eff = f
         /\ AsksOnce(Tail(s), f, eff, q, n)
<1>1. PICK t \in Seq(S) : t = Tail(s)
  BY TailAt
<1>2. Len(s) \in Nat \ {0} /\ Len(t) = Len(s) - 1
  BY <1>1, TailAt
<1>3. 1 \in 1..Len(s)
  BY <1>2
<1>4. /\ 1 = Len(s) /\ s[1] = Request(FALSE) /\ p = "none" /\ n = 0
      /\ eff = f \/ \E j \in 1..1 - 1 : s[j].type = "set_pixel_format"
  BY <1>3 DEF AsksOnce
<1>5. 1..1 - 1 = {}
  OBVIOUS
<1>6. Len(t) = 0
  BY <1>2, <1>4
<1>7. t = <<>>
  BY <1>6, EmptySeq
<1>8. AsksOnce(t, f, eff, q, n)
  <2>1. 1..Len(t) = {}
    BY <1>6
  <2> QED BY <2>1 DEF AsksOnce
<1> QED BY <1>1, <1>4, <1>5, <1>7, <1>8

\* At first nothing was said.
LEMMA ServerInvInit == Init => ServerInv
<1> SUFFICES ASSUME Init PROVE ServerInv
  OBVIOUS
<1>1. /\ pc = "version" /\ format = NoFormat /\ bpp = 0 /\ s2p = <<>> /\ arrived = 0
      /\ p2s = <<>> /\ serverOpen = TRUE /\ spos = 1 /\ security \in Securities
      /\ native \in Natives /\ inEffect = [own |-> native, order |-> "server"]
      /\ pend = "none" /\ updates = 0
  BY DEF Init
<1>2. Len(<<>>) = 0 /\ 0 \in 0..0 /\ 1..0 = {} /\ 0 \in 0..1
  OBVIOUS
<1>3. native \in Natives /\ inEffect \in Formats
  BY <1>1 DEF Formats
<1>4. 1 \in 1..ServerItems(security) + 1
  BY DEF ServerItems
<1>5. ServerTypes
  BY <1>1, <1>2, <1>3, <1>4, EmptySeq DEF ServerTypes
<1>6. NothingAsked(p2s) /\ NoUpdates(s2p) /\ AsksOnce(p2s, format, inEffect, pend, updates)
  BY <1>1, <1>2 DEF NothingAsked, NoUpdates, AsksOnce
<1>7. pc \in VncLabels /\ pc # "send_setup"
  BY <1>1 DEF VncLabels
<1>8. AskingInv
  BY <1>1, <1>2, <1>6, <1>7 DEF AskingInv, Quiet
<1> QED BY <1>5, <1>8 DEF ServerInv

\* A step that does not touch the server, its streams and the format.
LEMMA ServerElsewhere ==
  ASSUME ServerInv, UNCHANGED <<format, bpp, s2p, arrived, p2s, server>>,
         \/ pc' = pc \/ pc' \in {"failed", "killed"}
         \/ Running /\ pc \notin VncLabels /\ pc' \notin VncLabels
  PROVE  ServerInv'
<1>1. /\ spos' = spos /\ security' = security /\ native' = native /\ inEffect' = inEffect
      /\ pend' = pend /\ updates' = updates /\ serverOpen' = serverOpen /\ format' = format
      /\ bpp' = bpp /\ s2p' = s2p /\ p2s' = p2s /\ arrived' = arrived
  BY DEF server
<1>2. ServerTypes'
  BY <1>1 DEF ServerInv, ServerTypes, Told
<1>3. Quiet' = Quiet /\ Told' = Told
  BY <1>1 DEF Quiet, NothingAsked, NoUpdates, Told
<1>4. pc' \in {"failed", "killed"} => pc' \notin VncLabels /\ ~Running'
  BY DEF VncLabels, Running
<1>5. pc' \notin VncLabels => pc' # "send_setup"
  BY DEF VncLabels
<1>6. pc' = pc => Running' = Running
  BY DEF Running
<1>7. AskingInv'
  BY <1>1, <1>3, <1>4, <1>5, <1>6 DEF ServerInv, AskingInv
<1> QED BY <1>2, <1>7 DEF ServerInv

\* What is left of a stream when k of its units are taken.
LEMMA RestAt ==
  ASSUME NEW S, NEW s \in Seq(S), NEW k \in 0..Len(s)
  PROVE  LET t == SubSeq(s, k + 1, Len(s))
         IN  /\ t \in Seq(S) /\ Len(t) = Len(s) - k
             /\ \A i \in 1..Len(s) - k : t[i] = s[k + i] /\ k + i \in 1..Len(s)
<1>1. PICK n \in Nat : n = Len(s)
  BY LenProperties
<1>2. k \in Nat /\ k <= n
  BY <1>1
<1>3. \A i \in k + 1..n : s[i] \in S
  BY <1>1, <1>2, ElementOfSeq
<1>4. PICK t : t = SubSeq(s, k + 1, n)
  OBVIOUS
<1>5. /\ t \in Seq(S) /\ Len(t) = IF k + 1 <= n THEN n - (k + 1) + 1 ELSE 0
      /\ \A i \in 1..n - (k + 1) + 1 : t[i] = s[k + 1 + i - 1]
  BY <1>1, <1>2, <1>3, <1>4, SubSeqProperties
<1>6. Len(t) = n - k
  BY <1>1, <1>2, <1>5
<1>7. ASSUME NEW i \in 1..n - k PROVE t[i] = s[k + i] /\ k + i \in 1..n
  <2>1. i \in 1..n - (k + 1) + 1 /\ k + 1 + i - 1 = k + i /\ k + i \in 1..n
    BY <1>1, <1>2
  <2> QED BY <1>5, <2>1
<1> QED BY <1>1, <1>4, <1>5, <1>6, <1>7

\* A receive from the server takes the units that have arrived, or the first of them.
LEMMA TakenUnits ==
  ASSUME ServerInv, Recv \/ Recv1
  PROVE  /\ s2p' \in Seq(ServerUnits) /\ arrived' \in 0..Len(s2p')
         /\ NoUpdates(s2p) => NoUpdates(s2p')
<1>1. PICK n \in Nat : n = Len(s2p) /\ arrived \in 0..n
  BY LenProperties DEF ServerInv, ServerTypes
<1>2. s2p \in Seq(ServerUnits)
  BY DEF ServerInv, ServerTypes
<1>3. PICK k \in 0..n : /\ s2p' = SubSeq(s2p, k + 1, n) /\ arrived' = arrived - k
                        /\ k <= arrived
  <2>1. CASE Recv
    <3>1. arrived \in 0..n /\ arrived - arrived = 0 /\ arrived <= arrived
      BY <1>1
    <3> QED BY <1>1, <2>1, <3>1 DEF Recv
  <2>2. CASE Recv1
    <3>1. arrived > 0 /\ s2p' = Tail(s2p) /\ arrived' = arrived - 1
      BY <2>2 DEF Recv1
    <3>2. 1 \in 0..n /\ 1 <= arrived /\ n # 0
      BY <1>1, <3>1
    <3>3. s2p # <<>>
      BY <1>1, <3>2
    <3>4. Tail(s2p) = SubSeq(s2p, 2, n)
      BY <1>1, <1>2, <3>3, TailIsSubSeq
    <3>5. 1 + 1 = 2
      OBVIOUS
    <3> QED BY <3>1, <3>2, <3>4, <3>5
  <2> QED BY <2>1, <2>2
<1>4. /\ s2p' \in Seq(ServerUnits) /\ Len(s2p') = n - k
      /\ \A i \in 1..n - k : s2p'[i] = s2p[k + i] /\ k + i \in 1..n
  BY <1>1, <1>2, <1>3, RestAt
<1>5. arrived' \in 0..Len(s2p')
  BY <1>1, <1>3, <1>4
<1>6. NoUpdates(s2p) => NoUpdates(s2p')
  BY <1>1, <1>4 DEF NoUpdates
<1> QED BY <1>4, <1>5, <1>6

\* A receive of the VNC handshake takes units away; ServerInit tells the format.
LEMMA ReceivesServe ==
  ASSUME ServerInv, Recv \/ Recv1, pc \in VncLabels \ {"send_setup"}, pc' \in VncLabels,
         UNCHANGED <<p2s, server>>,
         \/ pc' # "send_setup" /\ UNCHANGED <<format, bpp>>
         \/ pc' = "send_setup" /\ format' = Told /\ bpp' = BppOf(native.depth)
  PROVE  ServerInv'
<1>1. /\ spos' = spos /\ security' = security /\ native' = native /\ inEffect' = inEffect
      /\ pend' = pend /\ updates' = updates /\ serverOpen' = serverOpen /\ p2s' = p2s
  BY DEF server
<1>2. Told' = Told
  BY <1>1 DEF Told
<1>3. s2p' \in Seq(ServerUnits) /\ arrived' \in 0..Len(s2p')
  BY TakenUnits
<1>4. format' \in {NoFormat, Told} /\ bpp' \in {0, BppOf(native.depth)}
  BY DEF ServerInv, ServerTypes
<1>5. ServerTypes'
  BY <1>1, <1>2, <1>3, <1>4 DEF ServerInv, ServerTypes
<1>6. Quiet
  BY DEF ServerInv, AskingInv
<1>7. NothingAsked(p2s') /\ NoUpdates(s2p')
  BY <1>1, <1>6, TakenUnits DEF Quiet
<1>8. Quiet'
  BY <1>1, <1>6, <1>7 DEF Quiet
<1>9. AsksOnce(p2s', format', inEffect', pend', updates')
  BY <1>7 DEF NothingAsked, AsksOnce
<1>10. \A i \in 1..Len(s2p') : s2p'[i].type # "update"
  BY <1>7 DEF NoUpdates
<1>11. pend' = "none"
  BY <1>1, <1>6 DEF Quiet
<1>12. /\ pc' \in VncLabels \ {"send_setup"} => bpp' = 0
       /\ pc' \notin VncLabels \ {"send_setup"} =>
            format' = Told' /\ bpp' = BppOf(native'.depth)
  BY <1>1, <1>2 DEF ServerInv, AskingInv
<1>13. AskingInv'
  BY <1>8, <1>9, <1>10, <1>11, <1>12 DEF AskingInv
<1> QED BY <1>5, <1>13 DEF ServerInv

\* The messages of the handshake proper.
LEMMA AppendedTo ==
  ASSUME NEW S, NEW s \in Seq(S), NEW m \in S, NEW open
  PROVE  /\ Put(open, s, <<m>>) \in Seq(S)
         /\ \A i \in 1..Len(Put(open, s, <<m>>)) :
              \/ Put(open, s, <<m>>)[i] = m
              \/ i \in 1..Len(s) /\ Put(open, s, <<m>>)[i] = s[i]
<1>1. CASE ~open
  <2>1. Put(open, s, <<m>>) = s
    BY <1>1 DEF Put
  <2> QED BY <2>1
<1>2. CASE open
  <2>1. Put(open, s, <<m>>) = s \o <<m>>
    BY <1>2 DEF Put
  <2>2. PICK e \in Seq(S) : e = <<m>> /\ Len(e) = 1 /\ e[1] = m
    <3>1. <<m>> \in Seq(S) /\ Len(<<m>>) = 1 /\ <<m>>[1] = m
      OBVIOUS
    <3> QED BY <3>1
  <2>3. s \o e \in Seq(S) /\ Len(s \o e) = Len(s) + Len(e) /\ Len(s) \in Nat
    BY <2>2, Together, LenProperties
  <2>4. ASSUME NEW i \in 1..Len(s) + 1
        PROVE  (s \o e)[i] = m \/ (i \in 1..Len(s) /\ (s \o e)[i] = s[i])
    <3>1. i \in 1..Len(s) + Len(e)
      BY <2>2
    <3>2. (s \o e)[i] = IF i <= Len(s) THEN s[i] ELSE e[i - Len(s)]
      BY <2>2, <3>1, TogetherAt
    <3>3. CASE i <= Len(s)
      BY <2>3, <3>2, <3>3
    <3>4. CASE ~(i <= Len(s))
      <4>1. PICK k : k = i - Len(s)
        OBVIOUS
      <4>2. (s \o e)[i] = e[k]
        BY <3>2, <3>4, <4>1
      <4>3. k = 1
        BY <2>3, <3>4, <4>1
      <4>4. e[k] = m
        <5>1. e[1] = m
          BY <2>2
        <5> QED BY <4>3, <5>1
      <4>5. (s \o e)[i] = m
        BY <4>2, <4>4
      <4> QED BY <4>5
    <3> QED BY <3>3, <3>4
  <2>5. Put(open, s, <<m>>) = s \o e /\ Len(s \o e) = Len(s) + 1
    BY <2>1, <2>2, <2>3
  <2> QED BY <2>3, <2>4, <2>5
<1> QED BY <1>1, <1>2

\* What the proxy sends before the setup asks for nothing.
LEMMA SendsServe ==
  ASSUME ServerInv, NEW m \in ServerMessages, m.type \notin {"request", "set_pixel_format"},
         NEW label \in VncLabels \ {"send_setup"}, pc \in VncLabels \ {"send_setup"},
         SendServer(<<m>>, label)
  PROVE  ServerInv'
<1>1. CASE SendFails(serverOpen)
  BY <1>1, ServerElsewhere DEF SendFails, GiveUp, proxy
<1>2. CASE /\ pc' = label /\ p2s' = Put(serverOpen, p2s, <<m>>)
           /\ UNCHANGED <<proxy, s2p, arrived, c2p, p2c, client, server>>
  <2>1. /\ spos' = spos /\ security' = security /\ native' = native /\ inEffect' = inEffect
        /\ pend' = pend /\ updates' = updates /\ serverOpen' = serverOpen
        /\ format' = format /\ bpp' = bpp /\ s2p' = s2p /\ arrived' = arrived
    BY <1>2 DEF server, proxy
  <2>2. Told' = Told
    BY <2>1 DEF Told
  <2>3. p2s \in Seq(ServerMessages)
    BY DEF ServerInv, ServerTypes
  <2>4. /\ p2s' \in Seq(ServerMessages)
        /\ \A i \in 1..Len(p2s') : p2s'[i] = m \/ (i \in 1..Len(p2s) /\ p2s'[i] = p2s[i])
    BY <1>2, <2>3, AppendedTo
  <2>5. ServerTypes'
    BY <2>1, <2>2, <2>4 DEF ServerInv, ServerTypes
  <2>6. Quiet
    BY DEF ServerInv, AskingInv
  <2>7. NothingAsked(p2s')
    BY <2>4, <2>6 DEF NothingAsked, Quiet
  <2>8. Quiet'
    BY <2>1, <2>6, <2>7 DEF Quiet
  <2>9. AsksOnce(p2s', format', inEffect', pend', updates')
    BY <2>7 DEF NothingAsked, AsksOnce
  <2>10. pc' \in VncLabels \ {"send_setup"} /\ bpp' = 0
    BY <1>2, <2>1 DEF ServerInv, AskingInv
  <2>11. \A i \in 1..Len(s2p') : s2p'[i].type # "update"
    BY <2>1, <2>6 DEF Quiet, NoUpdates
  <2>12. pend' = "none"
    BY <2>1, <2>6 DEF Quiet
  <2>13. AskingInv'
    BY <2>8, <2>9, <2>10, <2>11, <2>12 DEF AskingInv
  <2> QED BY <2>5, <2>13 DEF ServerInv
<1> QED BY <1>1, <1>2 DEF SendServer

\* The three messages of SendSetup, after whatever the server has not read yet.
LEMMA SetupAppended ==
  ASSUME NEW s \in Seq(ServerMessages), NothingAsked(s), NEW f \in Formats, NEW eff,
         NEW t, t = s \o <<SetPixelFormat(f), Message("set_encodings"), Request(FALSE)>>
  PROVE  /\ t \in Seq(ServerMessages) /\ AsksOnce(t, f, eff, "none", 0)
         /\ \E i \in 1..Len(t) : t[i].type = "request"
<1>1. PICK e : e = <<SetPixelFormat(f), Message("set_encodings"), Request(FALSE)>>
  OBVIOUS
<1>2. /\ SetPixelFormat(f) \in ServerMessages /\ Message("set_encodings") \in ServerMessages
      /\ Request(FALSE) \in ServerMessages
  BY DEF SetPixelFormat, Message, Request, ServerMessages
<1>3. /\ e \in Seq(ServerMessages) /\ Len(e) = 3 /\ e[1] = SetPixelFormat(f)
      /\ e[2] = Message("set_encodings") /\ e[3] = Request(FALSE)
  <2>1. PICK a \in ServerMessages : a = SetPixelFormat(f)
    BY <1>2
  <2>2. PICK b \in ServerMessages : b = Message("set_encodings")
    BY <1>2
  <2>3. PICK c \in ServerMessages : c = Request(FALSE)
    BY <1>2
  <2>4. e = <<a, b, c>>
    BY <1>1, <2>1, <2>2, <2>3
  <2>5. e \in Seq(ServerMessages) /\ Len(e) = 3 /\ e[1] = a /\ e[2] = b /\ e[3] = c
    <3>1. a \in ServerMessages /\ b \in ServerMessages /\ c \in ServerMessages
      BY <2>1, <2>2, <2>3
    <3>2. <<a, b, c>> \in Seq(ServerMessages)
      BY <3>1
    <3>3. Len(<<a, b, c>>) = 3
      OBVIOUS
    <3>4. <<a, b, c>>[1] = a /\ <<a, b, c>>[2] = b /\ <<a, b, c>>[3] = c
      OBVIOUS
    <3> QED BY <2>4, <3>2, <3>3, <3>4
  <2> QED BY <2>1, <2>2, <2>3, <2>5
<1>4. PICK n \in Nat : n = Len(s)
  BY LenProperties
<1>5. t \in Seq(ServerMessages) /\ Len(t) = n + 3
  <2>1. t \in Seq(ServerMessages) /\ Len(t) = Len(s) + Len(e)
    BY <1>1, <1>3, Together
  <2> QED BY <1>3, <1>4, <2>1
<1>6. ASSUME NEW i \in 1..n + 3
      PROVE  t[i] = IF i <= n THEN s[i] ELSE e[i - n]
  <2>1. i \in 1..Len(s) + Len(e)
    BY <1>3, <1>4
  <2>2. t[i] = IF i <= Len(s) THEN s[i] ELSE e[i - Len(s)]
    BY <1>1, <1>3, <2>1, TogetherAt
  <2> QED BY <1>4, <2>2
<1>7. t[n + 1] = SetPixelFormat(f) /\ t[n + 2] = Message("set_encodings")
      /\ t[n + 3] = Request(FALSE)
  <2>1. ASSUME NEW k \in 1..3 PROVE t[n + k] = e[k]
    <3>1. PICK i \in Nat : i = n + k /\ i \in 1..n + 3 /\ ~(i <= n) /\ i - n = k
      BY <1>4
    <3>2. t[i] = e[i - n]
      BY <1>6, <3>1
    <3> QED BY <3>1, <3>2
  <2>2. 1 \in 1..3 /\ 2 \in 1..3 /\ 3 \in 1..3
    OBVIOUS
  <2> QED BY <1>3, <2>1, <2>2
<1>8. /\ t[n + 1].type = "set_pixel_format" /\ t[n + 1].format = f
      /\ t[n + 2].type = "set_encodings" /\ t[n + 3].type = "request"
  <2>1. SetPixelFormat(f).type = "set_pixel_format" /\ SetPixelFormat(f).format = f
    BY DEF SetPixelFormat
  <2>2. Message("set_encodings").type = "set_encodings"
    BY DEF Message
  <2>3. Request(FALSE).type = "request"
    BY DEF Request
  <2> QED BY <1>7, <2>1, <2>2, <2>3
<1>9. \A i \in 1..n : t[i].type \notin {"request", "set_pixel_format"}
  <2>1. \A i \in 1..n : s[i].type \notin {"request", "set_pixel_format"}
    BY <1>4 DEF NothingAsked
  <2> QED BY <1>4, <1>6, <2>1
<1>10. \A i \in 1..n + 3 : i \in 1..n \/ i = n + 1 \/ i = n + 2 \/ i = n + 3
  BY <1>4
<1>11. \A i \in 1..n + 3 : t[i].type = "set_pixel_format" => t[i].format = f
  BY <1>8, <1>9, <1>10
<1>12. ASSUME NEW i \in 1..n + 3, t[i].type = "request"
       PROVE  i = n + 3 /\ \E j \in 1..i - 1 : t[j].type = "set_pixel_format"
  <2>1. i = n + 3
    BY <1>8, <1>9, <1>10, <1>12
  <2>2. n + 1 \in 1..i - 1
    BY <1>4, <2>1
  <2> QED BY <1>8, <2>1, <2>2
<1>13. AsksOnce(t, f, eff, "none", 0)
  BY <1>5, <1>7, <1>11, <1>12, ZenonT(30) DEF AsksOnce
<1>14. n + 3 \in 1..Len(t)
  BY <1>4, <1>5
<1> QED BY <1>5, <1>8, <1>13, <1>14

\* The setup sends the format before the first request.
LEMMA SetupServes == ASSUME ServerInv, SendSetup PROVE ServerInv'
<1>1. pc = "send_setup" /\ SendServer(Setup, "connection_request")
  BY DEF SendSetup
<1>2. CASE SendFails(serverOpen)
  BY <1>2, ServerElsewhere DEF SendFails, GiveUp, proxy
<1>3. CASE /\ pc' = "connection_request" /\ p2s' = Put(serverOpen, p2s, Setup)
           /\ UNCHANGED <<proxy, s2p, arrived, c2p, p2c, client, server>>
  <2>1. /\ spos' = spos /\ security' = security /\ native' = native /\ inEffect' = inEffect
        /\ pend' = pend /\ updates' = updates /\ serverOpen' = serverOpen
        /\ format' = format /\ bpp' = bpp /\ s2p' = s2p /\ arrived' = arrived
    BY <1>3 DEF server, proxy
  <2>2. Told' = Told
    BY <2>1 DEF Told
  <2>3. pc \in VncLabels /\ Running /\ pc' \notin VncLabels
    BY <1>1, <1>3 DEF VncLabels, Running
  <2>4. Quiet /\ format = Told /\ bpp = BppOf(native.depth)
    BY <1>1, <2>3 DEF ServerInv, AskingInv
  <2>5. format \in Formats
    <3>1. native \in Natives
      BY DEF ServerInv, ServerTypes
    <3>2. Told \in Formats
      BY <3>1 DEF Told, Formats
    <3> QED BY <2>4, <3>2
  <2>6. p2s \in Seq(ServerMessages) /\ NothingAsked(p2s) /\ pend = "none" /\ updates = 0
    BY <2>4 DEF ServerInv, ServerTypes, Quiet
  <2>7. /\ p2s' \in Seq(ServerMessages) /\ AsksOnce(p2s', format, inEffect, "none", 0)
        /\ serverOpen => \E i \in 1..Len(p2s') : p2s'[i].type = "request"
    <3>1. CASE serverOpen
      <4>1. p2s' = p2s \o <<SetPixelFormat(format), Message("set_encodings"), Request(FALSE)>>
        BY <1>3, <3>1 DEF Put, Setup
      <4> QED BY <2>5, <2>6, <4>1, SetupAppended
    <3>2. CASE ~serverOpen
      <4>1. p2s' = p2s
        BY <1>3, <3>2 DEF Put
      <4> QED BY <2>6, <3>2, <4>1 DEF NothingAsked, AsksOnce
    <3> QED BY <3>1, <3>2
  <2>8. ServerTypes'
    BY <2>1, <2>2, <2>7 DEF ServerInv, ServerTypes
  <2>9. AsksOnce(p2s', format', inEffect', pend', updates')
    BY <2>1, <2>6, <2>7
  <2>10. \A i \in 1..Len(s2p') : s2p'[i].type = "update" => s2p'[i].format = format'
    BY <2>1 DEF ServerInv, AskingInv
  <2>11. format' = Told' /\ bpp' = BppOf(native'.depth) /\ pend' = "none"
    BY <2>1, <2>2, <2>4, <2>6
  <2>12. AskingInv'
    BY <2>1, <2>3, <2>7, <2>9, <2>10, <2>11 DEF AskingInv
  <2> QED BY <2>8, <2>12 DEF ServerInv
<1> QED BY <1>1, <1>2, <1>3 DEF SendServer

\* The format of the server is changed as RDP wants it when its init message is taken.
LEMMA InitServes == ASSUME ServerInv, v2r_vnc_recv_server_init PROVE ServerInv'
<1>1. Recv /\ pc = "server_init" /\ pc' = "send_setup" /\ UNCHANGED <<p2s, server>>
  BY DEF v2r_vnc_recv_server_init
<1>2. pc \in VncLabels \ {"send_setup"} /\ pc' \in VncLabels
  BY <1>1 DEF VncLabels
<1>3. format' = Told
  BY DEF v2r_vnc_recv_server_init, Told
<1>4. bpp = 0
  BY <1>2 DEF ServerInv, AskingInv
<1> DEFINE d == native.depth
<1>5. bpp' = CASE d = 24 -> 32 [] d \in {8, 15, 16} -> d [] OTHER -> bpp
  BY Zenon DEF v2r_vnc_recv_server_init
<1>6. bpp' = BppOf(d)
  <2> HIDE DEF d
  <2>2. CASE d = 24
    <3>1. d \notin {8, 15, 16}
      BY <2>2
    <3>2. bpp' = 32
      BY <1>5, <2>2, <3>1, Zenon
    <3> QED BY <2>2, <3>2 DEF BppOf
  <2>3. CASE d \in {8, 15, 16} /\ d # 24
    <3>1. bpp' = d
      BY <1>5, <2>3, Zenon
    <3> QED BY <2>3, <3>1 DEF BppOf
  <2>4. CASE d \notin {8, 15, 16} /\ d # 24
    <3>1. bpp' = bpp
      BY <1>5, <2>4, Zenon
    <3> QED BY <1>4, <2>4, <3>1 DEF BppOf
  <2> QED BY <2>2, <2>3, <2>4
<1> QED BY <1>1, <1>2, <1>3, <1>6, ReceivesServe

\* Every step of the VNC handshake.
LEMMA VncServes == ASSUME ServerInv, v2r_vnc_build_conn PROVE ServerInv'
<1>1. /\ Message("version") \in ServerMessages /\ Message("response") \in ServerMessages
      /\ Message("client_init") \in ServerMessages
      /\ \A t : Message(t).type = t
  BY DEF Message, ServerMessages
<1>2. CASE ReceiveProtocolVersion
  <2>1. pc \in VncLabels \ {"send_setup"} /\ pc' \in VncLabels /\ pc' # "send_setup"
    BY <1>2 DEF ReceiveProtocolVersion, VncLabels
  <2> QED BY <1>2, <2>1, ReceivesServe DEF ReceiveProtocolVersion, proxy
<1>3. CASE SendProtocolVersion
  <2>1. pc \in VncLabels \ {"send_setup"} /\ "security" \in VncLabels \ {"send_setup"}
    BY <1>3 DEF SendProtocolVersion, VncLabels
  <2>2. SendServer(<<Message("version")>>, "security")
    BY <1>3 DEF SendProtocolVersion
  <2>3. Message("version").type \notin {"request", "set_pixel_format"}
    BY <1>1
  <2> QED BY <1>1, <2>1, <2>2, <2>3, SendsServe
<1>4. CASE ReceiveSecurityType
  <2>1. pc \in VncLabels \ {"send_setup"} /\ pc' \in VncLabels /\ pc' # "send_setup"
    BY <1>4 DEF ReceiveSecurityType, VncLabels
  <2> QED BY <1>4, <2>1, ReceivesServe DEF ReceiveSecurityType, proxy
<1>5. CASE v2r_vnc_process_vnc_authentication
  <2>1. CASE pc = "send_response" /\ SendServer(<<Message("response")>>, "result")
    <3>1. pc \in VncLabels \ {"send_setup"} /\ "result" \in VncLabels \ {"send_setup"}
      BY <2>1 DEF VncLabels
    <3>2. Message("response").type \notin {"request", "set_pixel_format"}
      BY <1>1
    <3> QED BY <1>1, <2>1, <3>1, <3>2, SendsServe
  <2>2. CASE /\ Recv1 /\ pc \in {"challenge", "result"}
             /\ pc' \in {"send_response", "send_client_init"}
             /\ UNCHANGED <<proxy, p2s, c2p, p2c, client, server>>
    <3>1. pc \in VncLabels \ {"send_setup"} /\ pc' \in VncLabels /\ pc' # "send_setup"
      BY <2>2 DEF VncLabels
    <3> QED BY <2>2, <3>1, ReceivesServe DEF proxy
  <2> QED BY <1>5, <2>1, <2>2 DEF v2r_vnc_process_vnc_authentication
<1>6. CASE SendClientInit
  <2>1. pc \in VncLabels \ {"send_setup"} /\ "server_init" \in VncLabels \ {"send_setup"}
    BY <1>6 DEF SendClientInit, VncLabels
  <2>2. SendServer(<<Message("client_init")>>, "server_init")
    BY <1>6 DEF SendClientInit
  <2>3. Message("client_init").type \notin {"request", "set_pixel_format"}
    BY <1>1
  <2> QED BY <1>1, <2>1, <2>2, <2>3, SendsServe
<1>7. CASE v2r_vnc_recv_server_init
  BY <1>7, InitServes
<1>8. CASE SendSetup
  BY <1>8, SetupServes
<1>9. CASE VncFails
  BY <1>9, ServerElsewhere DEF VncFails, GiveUp, proxy
<1> QED BY <1>2, <1>3, <1>4, <1>5, <1>6, <1>7, <1>8, <1>9 DEF v2r_vnc_build_conn

\* The connection sequence with the client takes no notice of the server.
ServerAside ==
  /\ UNCHANGED <<format, bpp, s2p, arrived, p2s, server>>
  /\ \/ pc' \in {"failed", "killed"}
     \/ Running /\ pc \notin VncLabels /\ pc' \notin VncLabels

\* The RDP connection leaves the side of the server alone.
LEMMA RdpIsElsewhere == v2r_rdp_build_conn => ServerAside
<1> SUFFICES ASSUME v2r_rdp_build_conn PROVE ServerAside
  OBVIOUS
<1>2. \A how \in {"failed", "killed"} : GiveUp(how) => ServerAside
  BY DEF GiveUp, proxy, ServerAside
<1>3. \A open : SendFails(open) => ServerAside
  BY <1>2 DEF SendFails
<1> DEFINE Rdp == {"connection_request", "send_connection_confirm", "connect_initial",
                   "send_connect_response", "erect_domain_request", "attach_user_request",
                   "send_attach_user_confirm", "channel_join_request"} \cup AfterJoins
<1>4. \A label \in Rdp : label \notin VncLabels /\ label \notin {"failed", "killed"}
  BY DEF VncLabels, AfterJoins
<1>5. pc \in Rdp => Running /\ pc \notin VncLabels
  BY <1>4 DEF Running
<1>6. ASSUME NEW m, NEW label \in Rdp, pc \in Rdp, SendClient(m, label) PROVE ServerAside
  BY <1>4, <1>5, <1>6 DEF SendClient, proxy, ServerAside
<1>7. ASSUME NEW type \in Rdp, NEW label \in Rdp, Receive(type, label) PROVE ServerAside
  BY <1>4, <1>5, <1>7 DEF Receive, Receives, proxy, ServerAside
<1>8. ASSUME NEW label \in Rdp, NEW m, NEW next \in Rdp, Send(label, m, next) PROVE ServerAside
  BY <1>3, <1>6, <1>8 DEF Send
<1>9. CASE v2r_mcs_build_conn
  <2>1. CASE v2r_x224_build_conn
    BY <1>2, <1>6, <1>7, <2>1 DEF v2r_x224_build_conn
  <2>2. CASE v2r_mcs_recv_conn_init
    BY <1>4, <1>5, <2>2 DEF v2r_mcs_recv_conn_init, Receives, ServerAside
  <2>3. CASE v2r_mcs_send_conn_resp
    BY <1>2, <1>6, <2>3 DEF v2r_mcs_send_conn_resp
  <2>4. CASE v2r_mcs_recv_erect_domain_req \/ v2r_mcs_recv_attach_user_request
    BY <1>7, <2>4 DEF v2r_mcs_recv_erect_domain_req, v2r_mcs_recv_attach_user_request
  <2>5. CASE v2r_mcs_send_attach_user_confirm
    BY <1>3, <1>4, <1>5, <2>5 DEF v2r_mcs_send_attach_user_confirm, ServerAside
  <2>6. CASE v2r_mcs_join_channel
    <3>1. pc \in Rdp /\ "client_info" \in Rdp
      BY <2>6 DEF v2r_mcs_join_channel, Receives, AfterJoins
    <3>2. CASE SendFails(clientOpen)
      BY <1>3, <3>2
    <3>3. CASE /\ pc' = IF LastJoin THEN "client_info" ELSE pc
               /\ UNCHANGED <<encryption, format, bpp, channel_count, user_channel_id, s2p,
                              arrived, p2s, client, server>>
      <4>1. pc' \in Rdp
        BY <3>1, <3>3
      <4> HIDE DEF Rdp
      <4> QED BY <1>4, <1>5, <3>1, <3>3, <4>1 DEF ServerAside
    <3> QED BY <2>6, <3>2, <3>3 DEF v2r_mcs_join_channel
  <2> QED BY <1>9, <2>1, <2>2, <2>3, <2>4, <2>5, <2>6 DEF v2r_mcs_build_conn
<1>10. CASE RdpFails
  BY <1>2, <1>10 DEF RdpFails
<1>11. CASE \/ v2r_rdp_recv_client_info \/ v2r_rdp_recv_confirm_active
            \/ v2r_rdp_recv_synchronize \/ v2r_rdp_recv_control_cooperate
            \/ v2r_rdp_recv_control_request \/ v2r_rdp_recv_font_list
  BY <1>7, <1>11 DEF AfterJoins, v2r_rdp_recv_client_info, v2r_rdp_recv_confirm_active,
     v2r_rdp_recv_synchronize, v2r_rdp_recv_control_cooperate,
     v2r_rdp_recv_control_request, v2r_rdp_recv_font_list
<1>12. CASE \/ v2r_rdp_send_license_error \/ v2r_rdp_send_demand_active
            \/ v2r_rdp_send_synchronize \/ v2r_rdp_send_control_cooperate
            \/ v2r_rdp_send_control_grant_control \/ v2r_rdp_send_font_map
  BY <1>8, <1>12 DEF AfterJoins, v2r_rdp_send_license_error, v2r_rdp_send_demand_active,
     v2r_rdp_send_synchronize, v2r_rdp_send_control_cooperate,
     v2r_rdp_send_control_grant_control, v2r_rdp_send_font_map
<1>13. ServerAside
  BY <1>9, <1>10, <1>11, <1>12 DEF v2r_rdp_build_conn
<1> QED BY <1>13

\* What the server says in its script are no updates.
Said == {"version", "security", "challenge", "result", "server_init"}

\* The units of a message have its type.
LEMMA UnitsAre ==
  ASSUME NEW t \in Said
  PROVE  /\ Units(t) \in Seq(ServerUnits)
         /\ \A i \in 1..Len(Units(t)) : Units(t)[i].type = t
<1>1. PICK n \in {1, 2} : Parts(t) = 1..n
  BY DEF Parts
<1>2. PICK u : u = Units(t)
  OBVIOUS
<1>3. u = [part \in 1..n |-> Unit(t, part)]
  BY <1>1, <1>2 DEF Units
<1>4. \A part \in 1..n : Unit(t, part) \in ServerUnits /\ Unit(t, part).type = t
  BY <1>1 DEF Unit, ServerUnits, Said
<1>5. n \in Nat
  BY <1>1
<1>6. u \in [1..n -> ServerUnits]
  BY <1>3, <1>4
<1>7. u \in Seq(ServerUnits)
  BY <1>5, <1>6, SeqDef
<1>8. Len(u) \in Nat /\ 1..Len(u) = 1..n
  BY <1>3, <1>7, LenProperties
<1>9. \A i \in 1..Len(u) : u[i].type = t
  BY <1>3, <1>4, <1>8
<1> QED BY <1>2, <1>7, <1>9

\* Units that are no update, put behind a stream.
LEMMA NoUpdatesAdded ==
  ASSUME NEW s \in Seq(ServerUnits), NEW u \in Seq(ServerUnits), NEW f,
         \A i \in 1..Len(u) : u[i].type # "update"
  PROVE  /\ s \o u \in Seq(ServerUnits) /\ Len(s) <= Len(s \o u) /\ Len(s \o u) \in Nat
         /\ NoUpdates(s) => NoUpdates(s \o u)
         /\ (\A i \in 1..Len(s) : s[i].type = "update" => s[i].format = f)
              => \A i \in 1..Len(s \o u) : (s \o u)[i].type = "update" => (s \o u)[i].format = f
<1>1. PICK t : t = s \o u
  OBVIOUS
<1>2. t \in Seq(ServerUnits) /\ Len(t) = Len(s) + Len(u) /\ Len(s) \in Nat /\ Len(u) \in Nat
  BY <1>1, Together, LenProperties
<1>3. ASSUME NEW i \in 1..Len(t)
      PROVE  (i \in 1..Len(s) /\ t[i] = s[i]) \/ t[i].type # "update"
  <2>1. i \in 1..Len(s) + Len(u)
    BY <1>2
  <2>2. t[i] = IF i <= Len(s) THEN s[i] ELSE u[i - Len(s)]
    BY <1>1, <2>1, TogetherAt
  <2>3. CASE i <= Len(s)
    <3>1. i \in 1..Len(s)
      BY <1>2, <2>3
    <3> QED BY <2>2, <2>3, <3>1
  <2>4. CASE ~(i <= Len(s))
    <3>1. i - Len(s) \in 1..Len(u)
      BY <1>2, <2>1, <2>4
    <3>2. t[i] = u[i - Len(s)]
      BY <2>2, <2>4
    <3> QED BY <3>1, <3>2
  <2> QED BY <2>3, <2>4
<1>4. Len(s) <= Len(t) /\ Len(t) \in Nat
  BY <1>2
<1>5. NoUpdates(s) => NoUpdates(t)
  BY <1>3 DEF NoUpdates
<1> QED BY <1>1, <1>2, <1>3, <1>4, <1>5

\* The item of the script the server is at.
LEMMA ScriptStep ==
  ASSUME ServerInv, ServerStep
  PROVE  /\ spos \in 1..ServerItems(security) /\ ServerScript[spos] = ServerItem(security, spos)
         /\ spos + 1 \in 1..ServerItems(security) + 1
         /\ \/ \E t \in Said : ServerItem(security, spos) = Says(t)
            \/ \E t \in {"version", "response", "client_init"} :
                 ServerItem(security, spos) = Hears(t)
<1>1. spos \in 1..ServerItems(security) + 1 /\ ServerItems(security) \in Nat
  BY DEF ServerInv, ServerTypes, ServerItems
<1>2. ~(spos > ServerItems(security))
  <2>1. ~ServerActive /\ ~TurnedAway
    BY DEF ServerStep
  <2>2. ~(spos > Len(ServerScript))
    BY <2>1 DEF ServerActive
  <2> QED BY <2>2, ServerScriptIs
<1>3. spos \in 1..ServerItems(security) /\ spos + 1 \in 1..ServerItems(security) + 1
  BY <1>1, <1>2
<1>4. ServerScript[spos] = ServerItem(security, spos)
  BY <1>3, ServerScriptIs
<1>5. \/ \E t \in Said : ServerItem(security, spos) = Says(t)
      \/ \E t \in {"version", "response", "client_init"} : ServerItem(security, spos) = Hears(t)
  BY Zenon DEF ServerItem, Said
<1> QED BY <1>3, <1>4, <1>5

\* The server goes one item on.
LEMMA ScriptServes == ASSUME ServerInv, ServerStep PROVE ServerInv'
<1>1. /\ security' = security /\ native' = native /\ inEffect' = inEffect /\ pc' = pc
      /\ pend' = pend /\ updates' = updates /\ serverOpen' = serverOpen /\ spos' = spos + 1
      /\ format' = format /\ bpp' = bpp /\ arrived' = arrived /\ Running
  BY DEF ServerStep, proxy
<1>2. Told' = Told /\ Running' = Running
  BY <1>1 DEF Told, Running
<1>3. spos' \in 1..ServerItems(security) + 1
  BY <1>1, ScriptStep
<1>4. s2p \in Seq(ServerUnits) /\ p2s \in Seq(ServerMessages) /\ arrived \in 0..Len(s2p)
  BY DEF ServerInv, ServerTypes
<1>5. CASE \E t \in Said : s2p' = s2p \o Units(t) /\ p2s' = p2s
  <2>1. PICK t \in Said : s2p' = s2p \o Units(t) /\ p2s' = p2s
    BY <1>5
  <2>2. PICK u \in Seq(ServerUnits) : u = Units(t) /\ \A i \in 1..Len(u) : u[i].type = t
    BY UnitsAre
  <2>3. t # "update"
    BY DEF Said
  <2>4. /\ s2p' \in Seq(ServerUnits) /\ Len(s2p) <= Len(s2p') /\ Len(s2p') \in Nat
        /\ NoUpdates(s2p) => NoUpdates(s2p')
        /\ (\A i \in 1..Len(s2p) : s2p[i].type = "update" => s2p[i].format = format)
             => \A i \in 1..Len(s2p') : s2p'[i].type = "update" => s2p'[i].format = format
    <3>1. \A i \in 1..Len(u) : u[i].type # "update"
      BY <2>2, <2>3
    <3>2. s2p' = s2p \o u /\ u \in Seq(ServerUnits)
      BY <2>1, <2>2
    <3>3. /\ s2p \o u \in Seq(ServerUnits) /\ Len(s2p) <= Len(s2p \o u)
          /\ Len(s2p \o u) \in Nat
          /\ NoUpdates(s2p) => NoUpdates(s2p \o u)
      BY <1>4, <3>1, <3>2, NoUpdatesAdded
    <3>4. (\A i \in 1..Len(s2p) : s2p[i].type = "update" => s2p[i].format = format)
             => \A i \in 1..Len(s2p \o u) :
                  (s2p \o u)[i].type = "update" => (s2p \o u)[i].format = format
      BY <1>4, <3>1, <3>2, NoUpdatesAdded
    <3> QED BY <3>2, <3>3, <3>4
  <2>5. arrived' \in 0..Len(s2p')
    <3>1. Len(s2p) \in Nat
      BY <1>4, LenProperties
    <3> QED BY <1>1, <1>4, <2>4, <3>1
  <2>6. ServerTypes'
    BY <1>1, <1>2, <1>3, <2>1, <2>4, <2>5 DEF ServerInv, ServerTypes
  <2>7. Quiet => Quiet'
    BY <1>1, <2>1, <2>4 DEF Quiet
  <2>8. AsksOnce(p2s', format', inEffect', pend', updates')
    BY <1>1, <2>1 DEF ServerInv, AskingInv
  <2>9. \A i \in 1..Len(s2p') : s2p'[i].type = "update" => s2p'[i].format = format'
    BY <1>1, <2>4 DEF ServerInv, AskingInv
  <2>10. AskingInv'
    BY <1>1, <1>2, <2>1, <2>7, <2>8, <2>9 DEF ServerInv, AskingInv
  <2> QED BY <2>6, <2>10 DEF ServerInv
<1>6. CASE \E t \in {"version", "response", "client_init"} :
             p2s # <<>> /\ Head(p2s).type = t /\ p2s' = Tail(p2s) /\ s2p' = s2p
  <2>1. /\ p2s # <<>> /\ p2s[1].type \notin {"request", "set_pixel_format"}
        /\ p2s' = Tail(p2s) /\ s2p' = s2p
    BY <1>4, <1>6, TailAt
  <2>2. /\ p2s' \in Seq(ServerMessages) /\ Len(p2s') = Len(p2s) - 1 /\ Len(p2s) \in Nat \ {0}
        /\ \A i \in 1..Len(p2s) - 1 : p2s'[i] = p2s[i + 1] /\ i + 1 \in 1..Len(p2s)
    BY <1>4, <2>1, TailAt
  <2>3. ServerTypes'
    BY <1>1, <1>2, <1>3, <1>4, <2>1, <2>2 DEF ServerInv, ServerTypes
  <2>4. NothingAsked(p2s) => NothingAsked(p2s')
    BY <2>2 DEF NothingAsked
  <2>5. Quiet => Quiet'
    BY <1>1, <2>1, <2>4 DEF Quiet
  <2>6. AsksOnce(p2s', format', inEffect', pend', updates')
    <3>1. AsksOnce(p2s, format, inEffect, pend, updates)
      BY DEF ServerInv, AskingInv
    <3>2. p2s[1].type # "request" /\ p2s[1].type # "set_pixel_format"
      BY <2>1
    <3>3. AsksOnce(Tail(p2s), format, inEffect, pend, updates)
      BY <1>4, <2>1, <3>1, <3>2, TailAsksOnce
    <3> QED BY <1>1, <2>1, <3>3
  <2>7. ASSUME NEW i \in 1..Len(p2s), p2s[i].type = "request"
        PROVE  \E j \in 1..Len(p2s') : p2s'[j].type = "request"
    <3>1. i # 1
      BY <2>1, <2>7
    <3>2. i - 1 \in 1..Len(p2s) - 1 /\ i - 1 + 1 = i
      BY <2>2, <3>1
    <3>3. p2s'[i - 1] = p2s[i]
      BY <2>2, <3>2
    <3> QED BY <2>2, <2>7, <3>2, <3>3
  <2>8. AskingInv'
    BY <1>1, <1>2, <2>1, <2>5, <2>6, <2>7 DEF ServerInv, AskingInv
  <2> QED BY <2>3, <2>8 DEF ServerInv
<1>7. \/ \E t \in Said : s2p' = s2p \o Units(t) /\ p2s' = p2s
      \/ \E t \in {"version", "response", "client_init"} :
           p2s # <<>> /\ Head(p2s).type = t /\ p2s' = Tail(p2s) /\ s2p' = s2p
  <2>1. PICK step : step = ServerScript[spos]
    OBVIOUS
  <2>2. \/ step.does = "say" /\ s2p' = s2p \o Units(step.msg) /\ p2s' = p2s
        \/ /\ step.does = "hear" /\ p2s # <<>> /\ Head(p2s).type = step.type
           /\ p2s' = Tail(p2s) /\ s2p' = s2p
    BY <2>1 DEF ServerStep
  <2>3. \/ \E t \in Said : step = Says(t)
        \/ \E t \in {"version", "response", "client_init"} : step = Hears(t)
    BY <2>1, ScriptStep
  <2>4. CASE \E t \in Said : step = Says(t)
    <3>1. PICK t \in Said : step = Says(t)
      BY <2>4
    <3>2. step.does = "say" /\ step.msg = t
      BY <3>1 DEF Says
    <3> QED BY <2>2, <3>2
  <2>5. CASE \E t \in {"version", "response", "client_init"} : step = Hears(t)
    <3>1. PICK t \in {"version", "response", "client_init"} : step = Hears(t)
      BY <2>5
    <3>2. step.does = "hear" /\ step.type = t
      BY <3>1 DEF Hears
    <3> QED BY <2>2, <3>2
  <2> QED BY <2>3, <2>4, <2>5
<1> QED BY <1>5, <1>6, <1>7

\* The server is set to the format of the message it reads, or has the request pending.
LEMMA ReadsServe == ASSUME ServerInv, ServerReads PROVE ServerInv'
<1>1. /\ security' = security /\ native' = native /\ pc' = pc /\ s2p' = s2p
      /\ updates' = updates /\ serverOpen' = serverOpen /\ spos' = spos
      /\ format' = format /\ bpp' = bpp /\ arrived' = arrived /\ Running
      /\ p2s # <<>> /\ p2s' = Tail(p2s)
  BY DEF ServerReads, proxy
<1>2. Told' = Told /\ Running' = Running
  BY <1>1 DEF Told, Running
<1>3. p2s \in Seq(ServerMessages)
  BY DEF ServerInv, ServerTypes
<1>4. /\ p2s' \in Seq(ServerMessages) /\ Len(p2s') = Len(p2s) - 1 /\ Len(p2s) \in Nat \ {0}
      /\ \A i \in 1..Len(p2s) - 1 : p2s'[i] = p2s[i + 1] /\ i + 1 \in 1..Len(p2s)
      /\ Head(p2s) = p2s[1] /\ p2s[1] \in ServerMessages
  BY <1>1, <1>3, TailAt
<1>5. PICK m \in ServerMessages : m = p2s[1]
  BY <1>4
<1>6. /\ inEffect' = IF m.type = "set_pixel_format" THEN m.format ELSE inEffect
      /\ pend' = IF m.type # "request" THEN pend
                 ELSE IF m.incremental THEN "incremental" ELSE "full"
  BY <1>4, <1>5 DEF ServerReads
<1>7. AsksOnce(p2s, format, inEffect, pend, updates)
  BY DEF ServerInv, AskingInv
<1>8. 1 \in 1..Len(p2s)
  BY <1>4
<1>9. Quiet => m.type \notin {"request", "set_pixel_format"}
  BY <1>5, <1>8 DEF Quiet, NothingAsked
<1>10. NothingAsked(p2s) => NothingAsked(p2s')
  BY <1>4 DEF NothingAsked
<1>11. \A i \in 1..Len(s2p') : s2p'[i].type = "update" => s2p'[i].format = format'
  BY <1>1 DEF ServerInv, AskingInv
<1>12. ASSUME ServerTypes', Quiet => Quiet', AsksOnce(p2s', format', inEffect', pend', updates'),
              pend' # "none" => updates' = 0 /\ inEffect' = format',
              pend' = "full" \/ (pend' = pend /\ m.type # "request")
       PROVE  ServerInv'
  <2>1. ASSUME NEW i \in 1..Len(p2s), p2s[i].type = "request", m.type # "request"
        PROVE  \E j \in 1..Len(p2s') : p2s'[j].type = "request"
    <3>1. i # 1
      BY <1>5, <2>1
    <3>2. i - 1 \in 1..Len(p2s) - 1 /\ i - 1 + 1 = i
      BY <1>4, <3>1
    <3>3. p2s'[i - 1] = p2s[i]
      BY <1>4, <3>2
    <3> QED BY <1>4, <2>1, <3>2, <3>3
  <2>2. AskingInv'
    BY <1>1, <1>2, <1>11, <1>12, <2>1 DEF ServerInv, AskingInv
  <2> QED BY <1>12, <2>2 DEF ServerInv
<1>13. CASE m.type = "set_pixel_format"
  <2>1. m.format = format
    BY <1>5, <1>8, <1>13, <1>7 DEF AsksOnce
  <2>2. inEffect' = format /\ pend' = pend
    BY <1>6, <1>13, <2>1
  <2>3. ~Quiet
    BY <1>9, <1>13
  <2>4. format = Told
    BY <2>3 DEF ServerInv, AskingInv
  <2>5. format \in Formats
    <3>1. native \in Natives
      BY DEF ServerInv, ServerTypes
    <3> QED BY <2>4, <3>1 DEF Told, Formats
  <2>6. ServerTypes'
    BY <1>1, <1>2, <1>4, <2>2, <2>5 DEF ServerInv, ServerTypes
  <2>7. AsksOnce(Tail(p2s), format, format, pend, updates)
    BY <1>1, <1>3, <1>7, FormatTaken
  <2>8. AsksOnce(p2s', format', inEffect', pend', updates')
    BY <1>1, <2>2, <2>7
  <2>9. pend' # "none" => updates' = 0 /\ inEffect' = format'
    BY <1>1, <2>2 DEF ServerInv, AskingInv
  <2>10. m.type # "request"
    BY <1>13
  <2> QED BY <1>12, <2>2, <2>3, <2>6, <2>8, <2>9, <2>10
<1>14. CASE m.type = "request"
  <2>1. /\ Tail(p2s) = <<>> /\ m = Request(FALSE) /\ updates = 0 /\ inEffect = format
        /\ AsksOnce(Tail(p2s), format, inEffect, "full", updates)
    BY <1>1, <1>3, <1>5, <1>7, <1>14, RequestTaken
  <2>2. m.incremental = FALSE
    BY <2>1 DEF Request
  <2>3. inEffect' = inEffect /\ pend' = "full"
    BY <1>6, <1>14, <2>2
  <2>4. ServerTypes'
    BY <1>1, <1>2, <1>4, <2>3 DEF ServerInv, ServerTypes
  <2>5. ~Quiet
    BY <1>9, <1>14
  <2>6. AsksOnce(p2s', format', inEffect', pend', updates')
    BY <1>1, <2>1, <2>3
  <2> QED BY <1>1, <1>12, <2>1, <2>3, <2>4, <2>5, <2>6
<1>15. CASE m.type \notin {"request", "set_pixel_format"}
  <2>1. inEffect' = inEffect /\ pend' = pend
    BY <1>6, <1>15
  <2>2. ServerTypes'
    BY <1>1, <1>2, <1>4, <2>1 DEF ServerInv, ServerTypes
  <2>3. Quiet => Quiet'
    BY <1>1, <1>10, <2>1 DEF Quiet
  <2>4. AsksOnce(Tail(p2s), format, inEffect, pend, updates)
    BY <1>1, <1>3, <1>5, <1>7, <1>15, TailAsksOnce
  <2>5. AsksOnce(p2s', format', inEffect', pend', updates')
    BY <1>1, <2>1, <2>4
  <2>6. pend' # "none" => updates' = 0 /\ inEffect' = format'
    BY <1>1, <2>1 DEF ServerInv, AskingInv
  <2> QED BY <1>12, <1>15, <2>1, <2>2, <2>3, <2>5, <2>6
<1> QED BY <1>13, <1>14, <1>15

\* An update is sent in the format the server was set to before it took the request.
LEMMA UpdatesServe == ASSUME ServerInv, ServerUpdates PROVE ServerInv'
<1>1. /\ security' = security /\ native' = native /\ pc' = pc /\ p2s' = p2s
      /\ inEffect' = inEffect /\ serverOpen' = serverOpen /\ spos' = spos
      /\ format' = format /\ bpp' = bpp /\ arrived' = arrived /\ Running
      /\ pend # "none" /\ pend' = "none" /\ updates' = updates + 1
      /\ s2p' = Append(s2p, Update(inEffect))
  BY DEF ServerUpdates, proxy
<1>2. Told' = Told /\ Running' = Running
  BY <1>1 DEF Told, Running
<1>3. updates = 0 /\ inEffect = format
  BY <1>1 DEF ServerInv, AskingInv
<1>4. updates' = 1
  BY <1>1, <1>3
<1>5. ~Quiet /\ pc \notin VncLabels /\ format = Told
  BY <1>1 DEF Quiet, ServerInv, AskingInv
<1>6. s2p \in Seq(ServerUnits) /\ arrived \in 0..Len(s2p) /\ Len(s2p) \in Nat
  BY LenProperties DEF ServerInv, ServerTypes
<1>7. PICK u \in ServerUnits : u = Update(inEffect) /\ u.format = format
  <2>1. inEffect \in Formats
    BY DEF ServerInv, ServerTypes
  <2>2. Update(inEffect) \in ServerUnits
    BY <2>1 DEF Update, ServerUnits
  <2>3. Update(inEffect).format = format
    BY <1>3 DEF Update
  <2> QED BY <2>2, <2>3
<1>8. /\ s2p' \in Seq(ServerUnits) /\ Len(s2p') = Len(s2p) + 1
      /\ s2p'[Len(s2p) + 1] = u /\ \A i \in 1..Len(s2p) : s2p'[i] = s2p[i]
  BY <1>1, <1>6, <1>7, AppendProperties
<1>9. ServerTypes'
  <2>1. arrived' \in 0..Len(s2p')
    BY <1>1, <1>6, <1>8
  <2>2. updates' \in 0..1 /\ pend' \in {"none", "full"}
    BY <1>1, <1>4
  <2> QED BY <1>1, <1>2, <1>8, <2>1, <2>2 DEF ServerInv, ServerTypes
<1>10. \A i \in 1..Len(s2p') : s2p'[i].type = "update" => s2p'[i].format = format'
  <2>1. \A i \in 1..Len(s2p) : s2p[i].type = "update" => s2p[i].format = format
    BY DEF ServerInv, AskingInv
  <2>2. \A i \in 1..Len(s2p') : i \in 1..Len(s2p) \/ i = Len(s2p) + 1
    BY <1>6, <1>8
  <2> QED BY <1>1, <1>7, <1>8, <2>1, <2>2
<1>11. AsksOnce(p2s', format', inEffect', pend', updates')
  <2>1. AsksOnce(p2s, format, inEffect, pend, updates)
    BY DEF ServerInv, AskingInv
  <2>2. \A i \in 1..Len(p2s) : p2s[i].type # "request"
    BY <1>1, <2>1 DEF AsksOnce
  <2> QED BY <1>1, <2>1, <2>2 DEF AsksOnce
<1>12. AskingInv'
  BY <1>1, <1>2, <1>4, <1>5, <1>10, <1>11 DEF ServerInv, AskingInv
<1> QED BY <1>9, <1>12 DEF ServerInv

\* A server that closes sends and reads nothing more; what has not arrived may be lost.
LEMMA ClosingServes ==
  ASSUME ServerInv, ServerTurnsAway \/ ServerCloses PROVE ServerInv'
<1>1. /\ security' = security /\ native' = native /\ pc' = pc /\ inEffect' = inEffect
      /\ pend' = pend /\ updates' = updates /\ spos' = spos /\ format' = format
      /\ bpp' = bpp /\ arrived' = arrived /\ Running
      /\ serverOpen' = FALSE /\ p2s' = <<>>
  BY DEF ServerTurnsAway, ServerCloses, proxy
<1>2. Told' = Told /\ Running' = Running
  BY <1>1 DEF Told, Running
<1>3. PICK n \in Nat : n = Len(s2p) /\ s2p \in Seq(ServerUnits) /\ arrived \in 0..n
  BY LenProperties DEF ServerInv, ServerTypes
<1>4. /\ s2p' \in Seq(ServerUnits) /\ arrived \in 0..Len(s2p')
      /\ \A i \in 1..Len(s2p') : i \in 1..n /\ s2p'[i] = s2p[i]
  <2>1. CASE ServerTurnsAway
    <3>1. s2p' = s2p
      BY <2>1 DEF ServerTurnsAway
    <3> QED BY <1>3, <3>1
  <2>2. CASE ServerCloses
    <3>1. PICK k \in arrived..n : s2p' = SubSeq(s2p, 1, k)
      BY <1>3, <2>2 DEF ServerCloses
    <3>2. k \in Nat /\ k <= n /\ arrived <= k
      BY <1>3, <3>1
    <3>3. \A i \in 1..k : i \in 1..n
      BY <3>2
    <3>4. \A i \in 1..k : s2p[i] \in ServerUnits
      BY <1>3, <3>3, ElementOfSeq
    <3>5. /\ s2p' \in Seq(ServerUnits) /\ Len(s2p') = IF 1 <= k THEN k - 1 + 1 ELSE 0
          /\ \A i \in 1..k - 1 + 1 : s2p'[i] = s2p[1 + i - 1]
      BY <3>1, <3>2, <3>4, SubSeqProperties
    <3>6. Len(s2p') = k
      BY <3>2, <3>5
    <3>7. ASSUME NEW i \in 1..k PROVE s2p'[i] = s2p[i]
      <4>1. i \in 1..k - 1 + 1 /\ 1 + i - 1 = i
        BY <3>2
      <4> QED BY <3>5, <4>1
    <3> QED BY <1>3, <3>2, <3>3, <3>5, <3>6, <3>7
  <2> QED BY <2>1, <2>2
<1>5. <<>> \in Seq(ServerMessages) /\ 1..Len(<<>>) = {}
  BY EmptySeq
<1>6. ServerTypes'
  BY <1>1, <1>2, <1>4, <1>5 DEF ServerInv, ServerTypes
<1>7. Quiet => Quiet'
  BY <1>1, <1>3, <1>4, <1>5 DEF Quiet, NothingAsked, NoUpdates
<1>8. AsksOnce(p2s', format', inEffect', pend', updates')
  BY <1>1, <1>5 DEF AsksOnce
<1>9. \A i \in 1..Len(s2p') : s2p'[i].type = "update" => s2p'[i].format = format'
  BY <1>1, <1>3, <1>4 DEF ServerInv, AskingInv
<1>10. AskingInv'
  BY <1>1, <1>2, <1>7, <1>8, <1>9 DEF ServerInv, AskingInv
<1> QED BY <1>6, <1>10 DEF ServerInv

\* One step for every disjunct of Next.
LEMMA ServerInvInductive == ServerInv /\ [Next]_vars => ServerInv'
<1> SUFFICES ASSUME ServerInv, [Next]_vars PROVE ServerInv'
  OBVIOUS
<1>1. CASE v2r_vnc_build_conn
  BY <1>1, VncServes
<1>2. CASE v2r_rdp_build_conn
  BY <1>2, RdpIsElsewhere, ServerElsewhere DEF ServerAside
<1>3. CASE Interrupted
  BY <1>3, ServerElsewhere DEF Interrupted, GiveUp, proxy
<1>4. CASE ClientStep \/ ClientCloses
  BY <1>4, ServerElsewhere DEF ClientStep, ClientCloses, proxy
<1>5. CASE ServerStep
  BY <1>5, ScriptServes
<1>6. CASE ServerReads
  BY <1>6, ReadsServe
<1>7. CASE ServerUpdates
  BY <1>7, UpdatesServe
<1>8. CASE ServerTurnsAway \/ ServerCloses
  BY <1>8, ClosingServes
<1>9. CASE Arrive
  <2>1. /\ UNCHANGED <<pc, format, bpp, s2p, p2s, server>>
        /\ arrived' = arrived + 1 /\ arrived < Len(s2p)
    BY <1>9 DEF Arrive, proxy
  <2>2. /\ spos' = spos /\ security' = security /\ native' = native /\ inEffect' = inEffect
        /\ pend' = pend /\ updates' = updates /\ serverOpen' = serverOpen
        /\ format' = format /\ bpp' = bpp /\ s2p' = s2p /\ p2s' = p2s /\ pc' = pc
    BY <2>1 DEF server
  <2>3. Told' = Told /\ Quiet' = Quiet /\ Running' = Running
    BY <2>2 DEF Told, Quiet, NothingAsked, NoUpdates, Running
  <2>4. arrived' \in 0..Len(s2p)
    <3>1. Len(s2p) \in Nat /\ arrived \in 0..Len(s2p)
      BY LenProperties DEF ServerInv, ServerTypes
    <3> QED BY <2>1, <3>1
  <2>5. ServerTypes'
    BY <2>2, <2>3, <2>4 DEF ServerInv, ServerTypes
  <2>6. AskingInv'
    BY <2>2, <2>3 DEF ServerInv, AskingInv
  <2> QED BY <2>5, <2>6 DEF ServerInv
<1>10. CASE UNCHANGED vars
  BY <1>10, ServerElsewhere DEF vars, proxy
<1> QED BY <1>1, <1>2, <1>3, <1>4, <1>5, <1>6, <1>7, <1>8, <1>9, <1>10
    DEF Next, v2r_session_build_conn, Environs

\* The invariant holds in every state.
LEMMA ServerInvAlways == Spec => []ServerInv
<1> QED BY ServerInvInit, ServerInvInductive, PTL DEF Spec

\* The format the proxy makes of the server's own agrees with what it tells the client
\* for the usual servers.
LEMMA ToldAgrees ==
  ASSUME native \in Natives
  PROVE  Agrees(Told, BppOf(native.depth)) <=> Usual(native)
<1>1. native \in [bits : {8, 16, 32}, depth : 1..32, maxima : {"rdp", "other"}]
  BY NativesAssumption
<1>2. PICK d \in 1..32 : d = native.depth
  BY <1>1
<1>3. PICK b \in {8, 16, 32} : b = native.bits
  BY <1>1
<1> DEFINE plain == native.maxima = "rdp"
<1>4. Usual(native) <=> /\ \/ d = 8 /\ b = 8
                           \/ d = 15 /\ b = 16
                           \/ d = 16 /\ b = 16
                           \/ d = 24 /\ b = 32
                        /\ d = 8 \/ plain
  <2>1. <<d, b>> \in {<<8, 8>>, <<15, 16>>, <<16, 16>>, <<24, 32>>}
          <=> \/ d = 8 /\ b = 8
              \/ d = 15 /\ b = 16
              \/ d = 16 /\ b = 16
              \/ d = 24 /\ b = 32
    OBVIOUS
  <2> QED BY <1>2, <1>3, <2>1 DEF Usual
<1>5. /\ Told.own.bits = b
      /\ Told.order = "map" <=> d = 8
      /\ Told.order = "rdp" <=> d \in {24, 16, 15}
      /\ Told.own.maxima = "rdp" <=> plain
  BY <1>2, <1>3 DEF Told
<1> DEFINE n == BppOf(native.depth)
<1>6. n = IF d = 24 THEN 32 ELSE IF d \in {8, 15, 16} THEN d ELSE 0
  BY <1>2 DEF BppOf
<1>7. Agrees(Told, n) <=> /\ b = BitsOf(n)
                          /\ \/ n = 8 /\ d = 8
                             \/ n \in {15, 16, 32} /\ d \in {24, 16, 15} /\ plain
  <2> HIDE DEF n, plain
  <2> QED BY <1>5 DEF Agrees
<1> HIDE DEF n, plain
<1>8. Agrees(Told, n) <=> Usual(native)
  BY <1>4, <1>6, <1>7 DEF BitsOf
<1> QED BY <1>8 DEF n

\* The updates are in the format of the setup, and the client is told what goes with it.
LEMMA InvGivesFormat ==
  ASSUME ServerInv, ScriptInv
  PROVE  FormatAgreed
<1>1. ASSUME NEW i \in DOMAIN s2p, s2p[i].type = "update"
      PROVE  Agrees(s2p[i].format, bpp) <=> Usual(native)
  <2>1. i \in 1..Len(s2p)
    BY LenProperties DEF ServerInv, ServerTypes
  <2>2. s2p[i].format = format
    BY <1>1, <2>1 DEF ServerInv, AskingInv
  <2>3. ~Quiet
    BY <1>1, <2>1 DEF Quiet, NoUpdates
  <2>4. format = Told /\ bpp = BppOf(native.depth)
    BY <2>3 DEF ServerInv, AskingInv
  <2>5. Agrees(Told, BppOf(native.depth)) <=> Usual(native)
    BY ToldAgrees DEF ServerInv, ServerTypes
  <2> QED BY <2>2, <2>4, <2>5
<1>2. pc = "transmit" => learned.bpp = bpp
  BY LearnedAtTransmit
<1> QED BY <1>1, <1>2 DEF FormatAgreed

\* For every server, every update is in the format the client is told of if and only if
\* the server's own pixels are of one of the usual kinds, however early it answers the
\* request of the handshake; and the client knows the bits per pixel when the session
\* starts.
THEOREM FormatAlwaysAgreed == Spec => []FormatAgreed
<1>1. ServerInv /\ ScriptInv => FormatAgreed
  BY InvGivesFormat
<1> QED BY <1>1, ServerInvAlways, ScriptInvAlways, PTL

\* Sequences of at most two elements.
LEMMA ShortAre ==
  ASSUME NEW x, NEW y
  PROVE  /\ Len(<<>>) = 0 /\ Len(<<x>>) = 1 /\ Len(<<x, y>>) = 2
         /\ Head(<<x>>) = x /\ Head(<<x, y>>) = x
         /\ <<x>> # <<>> /\ <<x, y>> # <<>>
<1>1. Len(<<>>) = 0 /\ Len(<<x>>) = 1 /\ Len(<<x, y>>) = 2
  OBVIOUS
<1>2. Head(<<x>>) = x /\ Head(<<x, y>>) = x
  OBVIOUS
<1>3. <<x>> # <<>> /\ <<x, y>> # <<>>
  BY <1>1
<1> QED BY <1>1, <1>2, <1>3

\* A sequence of one.
LEMMA OneIs ==
  ASSUME NEW S, NEW s \in Seq(S), Len(s) = 1
  PROVE  s = <<s[1]>>
<1>1. PICK x \in S : x = s[1]
  <2>1. 1 \in 1..Len(s)
    OBVIOUS
  <2> QED BY <2>1, ElementOfSeq
<1>2. PICK e \in Seq(S) : e = <<x>>
  <2>1. <<x>> \in Seq(S)
    BY <1>1
  <2> QED BY <2>1
<1>3. Len(e) = 1
  BY <1>2, ShortAre
<1>4. e[1] = x
  BY <1>2
<1>5. \A i \in 1..Len(s) : s[i] = e[i]
  <2>1. \A i \in 1..Len(s) : i = 1
    OBVIOUS
  <2> QED BY <1>1, <1>4, <2>1
<1>6. s = e
  BY <1>3, <1>5, SeqEqual
<1> QED BY <1>1, <1>2, <1>6

\* A sequence of two.
LEMMA TwoAre ==
  ASSUME NEW S, NEW s \in Seq(S), Len(s) = 2
  PROVE  s = <<s[1], s[2]>>
<1>1. PICK x \in S : x = s[1]
  <2>1. 1 \in 1..Len(s)
    OBVIOUS
  <2> QED BY <2>1, ElementOfSeq
<1>2. PICK y \in S : y = s[2]
  <2>1. 2 \in 1..Len(s)
    OBVIOUS
  <2> QED BY <2>1, ElementOfSeq
<1>3. PICK e \in Seq(S) : e = <<x, y>>
  <2>1. <<x, y>> \in Seq(S)
    BY <1>1, <1>2
  <2> QED BY <2>1
<1>4. Len(e) = 2
  BY <1>3, ShortAre
<1>5. e[1] = x
  BY <1>3
<1>6. e[2] = y
  BY <1>3
<1>7. \A i \in 1..Len(s) : s[i] = e[i]
  <2>1. \A i \in 1..Len(s) : i = 1 \/ i = 2
    OBVIOUS
  <2> QED BY <1>1, <1>2, <1>5, <1>6, <2>1
<1>8. s = e
  BY <1>4, <1>7, SeqEqual
<1> QED BY <1>1, <1>2, <1>3, <1>8

\* The elements of short sequences.
LEMMA ShortElements ==
  ASSUME NEW x, NEW y
  PROVE  <<x>>[1] = x /\ <<x, y>>[1] = x /\ <<x, y>>[2] = y
<1>1. <<x>>[1] = x
  OBVIOUS
<1>2. <<x, y>>[1] = x
  OBVIOUS
<1>3. <<x, y>>[2] = y
  OBVIOUS
<1> QED BY <1>1, <1>2, <1>3

\* Their tails.
LEMMA ShortTails ==
  ASSUME NEW x, NEW y
  PROVE  Tail(<<x>>) = <<>> /\ Tail(<<x, y>>) = <<y>>
<1>1. PICK S : S = {x, y}
  OBVIOUS
<1>2. <<x>> \in Seq(S) /\ <<x, y>> \in Seq(S)
  BY <1>1
<1>3. Tail(<<x>>) = <<>>
  <2>1. PICK s \in Seq(S) : s = <<x>> /\ Len(s) = 1 /\ s # <<>>
    BY <1>2, ShortAre
  <2>2. Tail(s) \in Seq(S) /\ Len(Tail(s)) = Len(s) - 1
    BY <2>1, TailAt
  <2>3. Len(Tail(s)) = 0
    BY <2>1, <2>2
  <2> QED BY <2>1, <2>2, <2>3, EmptySeq
<1>4. Tail(<<x, y>>) = <<y>>
  <2>1. PICK s \in Seq(S) : s = <<x, y>> /\ Len(s) = 2 /\ s # <<>> /\ s[2] = y
    BY <1>2, ShortAre, ShortElements
  <2>2. PICK t \in Seq(S) : t = Tail(s) /\ Len(t) = 1 /\ t[1] = y
    <3>1. Tail(s) \in Seq(S) /\ Len(Tail(s)) = Len(s) - 1
      BY <2>1, TailAt
    <3>2. \A i \in 1..Len(s) - 1 : Tail(s)[i] = s[i + 1]
      BY <2>1, TailAt
    <3>3. 1 \in 1..Len(s) - 1 /\ 1 + 1 = 2 /\ Len(s) - 1 = 1
      BY <2>1
    <3>4. Tail(s)[1] = s[1 + 1]
      BY <3>2, <3>3
    <3>5. Tail(s)[1] = y
      BY <2>1, <3>3, <3>4
    <3> QED BY <3>1, <3>3, <3>5
  <2>3. t = <<t[1]>>
    BY <2>2, OneIs
  <2> QED BY <2>1, <2>2, <2>3
<1> QED BY <1>3, <1>4

\* Short sequences put together.
LEMMA ShortPuts ==
  ASSUME NEW x, NEW y
  PROVE  <<>> \o <<x>> = <<x>> /\ <<x>> \o <<y>> = <<x, y>>
<1>1. PICK S : S = {x, y}
  OBVIOUS
<1>2. <<x>> \in Seq(S) /\ <<y>> \in Seq(S)
  BY <1>1
<1>3. <<>> \o <<x>> = <<x>>
  BY <1>2, ConcatEmptySeq
<1>4. PICK s \in Seq(S) : s = <<x>> /\ Len(s) = 1 /\ s[1] = x
  BY <1>2, ShortAre, ShortElements
<1>5. PICK t \in Seq(S) : t = <<y>> /\ Len(t) = 1 /\ t[1] = y
  BY <1>2, ShortAre, ShortElements
<1>6. s \o t \in Seq(S) /\ Len(s \o t) = Len(s) + Len(t)
  BY Together
<1>7. (s \o t)[1] = x
  <2>1. 1 \in 1..Len(s) + Len(t) /\ 1 <= Len(s)
    BY <1>4, <1>5
  <2> QED BY <1>4, <2>1, TogetherAt
<1>8. (s \o t)[2] = y
  <2>1. 2 \in 1..Len(s) + Len(t) /\ ~(2 <= Len(s)) /\ 2 - Len(s) = 1
    BY <1>4, <1>5
  <2>2. (s \o t)[2] = t[2 - Len(s)]
    BY <2>1, TogetherAt
  <2> QED BY <1>5, <2>1, <2>2
<1>9. Len(s \o t) = 2
  BY <1>4, <1>5, <1>6
<1>10. s \o t = <<(s \o t)[1], (s \o t)[2]>>
  BY <1>6, <1>9, TwoAre
<1> QED BY <1>3, <1>4, <1>5, <1>7, <1>8, <1>10

\* Parts of short sequences.
LEMMA ShortParts ==
  ASSUME NEW x, NEW y
  PROVE  /\ SubSeq(<<x>>, 2, 1) = <<>>
         /\ \A n \in 0..0 : SubSeq(<<>>, 1, n) = <<>>
         /\ \A n \in 0..1 : SubSeq(<<x>>, 1, n) \in {<<>>, <<x>>}
         /\ \A n \in 0..2 : SubSeq(<<x, y>>, 1, n) \in {<<>>, <<x>>, <<x, y>>}
<1>0. PICK S : S = {x, y}
  OBVIOUS
<1>1. SubSeq(<<x>>, 2, 1) = <<>>
  BY SubSeqEmpty
<1>2. \A s : SubSeq(s, 1, 0) = <<>>
  BY SubSeqEmpty
<1>3. SubSeq(<<x>>, 1, 1) = <<x>>
  <2>1. PICK s \in Seq(S) : s = <<x>> /\ Len(s) = 1
    <3>1. <<x>> \in Seq(S)
      BY <1>0
    <3> QED BY <3>1, ShortAre
  <2>2. SubSeq(s, 1, Len(s)) = s
    BY SubSeqFull
  <2> QED BY <2>1, <2>2
<1> DEFINE two == <<x, y>>
<1>4. two \in Seq(S) /\ Len(two) = 2
  <2>1. <<x, y>> \in Seq(S)
    BY <1>0
  <2> QED BY <2>1, ShortAre
<1>5. two[1] = x
  BY ShortElements
<1>6. two = <<x, y>>
  OBVIOUS
<1> HIDE DEF two
<1>7. SubSeq(two, 1, 2) = two
  <2>1. SubSeq(two, 1, Len(two)) = two
    BY <1>4, SubSeqFull
  <2> QED BY <1>4, <2>1
<1>8. SubSeq(two, 1, 1) = <<x>>
  <2>1. \A i \in 1..1 : two[i] \in S
    <3>1. \A i \in 1..1 : i \in 1..Len(two)
      BY <1>4
    <3> QED BY <1>4, <3>1, ElementOfSeq
  <2>2. /\ SubSeq(two, 1, 1) \in Seq(S)
        /\ Len(SubSeq(two, 1, 1)) = IF 1 <= 1 THEN 1 - 1 + 1 ELSE 0
        /\ \A i \in 1..1 - 1 + 1 : SubSeq(two, 1, 1)[i] = two[1 + i - 1]
    BY <2>1, SubSeqProperties
  <2>3. PICK t \in Seq(S) : t = SubSeq(two, 1, 1) /\ Len(t) = 1
    <3>1. Len(SubSeq(two, 1, 1)) = 1
      BY <2>2
    <3>2. SubSeq(two, 1, 1) \in Seq(S)
      BY <2>2
    <3> QED BY <3>1, <3>2
  <2>4. 1 \in 1..1 - 1 + 1 /\ 1 + 1 - 1 = 1
    OBVIOUS
  <2>5. t[1] = two[1]
    BY <2>2, <2>3, <2>4
  <2>6. t = <<t[1]>>
    BY <2>3, OneIs
  <2> QED BY <1>5, <2>3, <2>5, <2>6
<1>9. \A n \in 0..0 : SubSeq(<<>>, 1, n) = <<>>
  BY <1>2
<1>10. \A n \in 0..1 : SubSeq(<<x>>, 1, n) \in {<<>>, <<x>>}
  BY <1>2, <1>3
<1>11. \A n \in 0..2 : SubSeq(two, 1, n) \in {<<>>, <<x>>, two}
  <2>1. \A n \in 0..2 : n = 0 \/ n = 1 \/ n = 2
    OBVIOUS
  <2> QED BY <1>2, <1>7, <1>8, <2>1
<1> QED BY <1>1, <1>6, <1>9, <1>10, <1>11

(***************************************************************************)
(* The handshake with a server none of whose messages is split: where the  *)
(* server is in its script, and what is under way, at each of the labels.  *)
(***************************************************************************)
Asking(s)  == s \in {"vnc_auth", "wrong_password"}
Letting(s) == s \in {"none", "vnc_auth"}
\* The item of the script at which the server waits for the init message of the proxy.
InitAt(s)  == IF s = "none" THEN 4 ELSE 7
One(t)     == <<Unit(t, 1)>>

AtVersion(s, k, u, m) ==
  m = <<>> /\ ((k = 1 /\ u = <<>>) \/ (k = 2 /\ u = One("version")))
AtSecurity(s, k, u, m) ==
  \/ k = 2 /\ u = <<>> /\ m = <<Message("version")>>
  \/ k = 3 /\ u = <<>> /\ m = <<>>
  \/ k = 4 /\ u = One("security") /\ m = <<>>
  \/ Asking(s) /\ k = 5 /\ u = <<Unit("security", 1), Unit("challenge", 1)>> /\ m = <<>>
AtChallenge(s, k, u, m) ==
  Asking(s) /\ m = <<>> /\ ((k = 4 /\ u = <<>>) \/ (k = 5 /\ u = One("challenge")))
AtResult(s, k, u, m) ==
  /\ Asking(s)
  /\ \/ k = 5 /\ u = <<>> /\ m = <<Message("response")>>
     \/ k = 6 /\ u = <<>> /\ m = <<>>
     \/ k = 7 /\ u = One("result") /\ m = <<>>
AtInit(s, k, u, m) ==
  /\ Letting(s)
  /\ \/ k = InitAt(s) /\ u = <<>> /\ m = <<Message("client_init")>>
     \/ k = InitAt(s) + 1 /\ u = <<>> /\ m = <<>>
     \/ k = InitAt(s) + 2 /\ u = One("server_init") /\ m = <<>>

At(label, s, k, u, m) ==
  \/ label = "version" /\ AtVersion(s, k, u, m)
  \/ label = "send_version" /\ k = 2 /\ u = <<>> /\ m = <<>>
  \/ label = "security" /\ AtSecurity(s, k, u, m)
  \/ label = "challenge" /\ AtChallenge(s, k, u, m)
  \/ label = "send_response" /\ Asking(s) /\ k = 5 /\ u = <<>> /\ m = <<>>
  \/ label = "result" /\ AtResult(s, k, u, m)
  \/ label = "send_client_init" /\ Letting(s) /\ k = InitAt(s) /\ u = <<>> /\ m = <<>>
  \/ label = "server_init" /\ AtInit(s, k, u, m)
  \/ label = "send_setup" /\ Letting(s) /\ k = InitAt(s) + 2 /\ u = <<>> /\ m = <<>>

\* A server that has closed may have left its script later than its stream says.
Met == \E k, m : At(pc, security, k, s2p, m) /\ (serverOpen => k = spos /\ m = p2s)

MeetingInv ==
  /\ pc \in VncLabels => Met
  /\ Running /\ pc \notin VncLabels =>
       /\ \A i \in 1..Len(s2p) : s2p[i].type = "update"
       /\ serverOpen => spos = ServerItems(security) + 1

\* The two meet at the version, which the server says first.
LEMMA MeetingInvInit == Init => MeetingInv
<1> SUFFICES ASSUME Init PROVE MeetingInv
  OBVIOUS
<1>1. pc = "version" /\ s2p = <<>> /\ p2s = <<>> /\ spos = 1
  BY DEF Init
<1>2. At(pc, security, 1, s2p, <<>>)
  BY <1>1 DEF At, AtVersion
<1>3. Met
  BY <1>1, <1>2 DEF Met
<1>4. pc \in VncLabels
  BY <1>1 DEF VncLabels
<1> QED BY <1>3, <1>4 DEF MeetingInv

\* What is in the stream in each place.
LEMMA MeetingElsewhere ==
  ASSUME MeetingInv, UNCHANGED <<s2p, p2s, server>>,
         \/ pc' = pc \/ pc' \in {"failed", "killed"}
         \/ Running /\ pc \notin VncLabels /\ pc' \notin VncLabels
  PROVE  MeetingInv'
<1>1. /\ spos' = spos /\ security' = security /\ serverOpen' = serverOpen
      /\ s2p' = s2p /\ p2s' = p2s
  BY DEF server
<1>2. CASE pc' = pc
  BY <1>1, <1>2 DEF MeetingInv, Met, Running
<1>3. CASE pc' \in {"failed", "killed"}
  BY <1>3 DEF MeetingInv, VncLabels, Running
<1>4. CASE Running /\ pc \notin VncLabels /\ pc' \notin VncLabels
  BY <1>1, <1>4 DEF MeetingInv
<1> QED BY <1>2, <1>3, <1>4

\* Streams as short as this are taken whole by v2r_vnc_recv.
LEMMA RecvTakesAll ==
  ASSUME ServerInv, Recv, NEW t, s2p = <<>> \/ s2p = One(t)
  PROVE  s2p = One(t) /\ s2p' = <<>>
<1>1. arrived > 0 /\ arrived \in 0..Len(s2p) /\ s2p' = SubSeq(s2p, arrived + 1, Len(s2p))
  BY DEF Recv, ServerInv, ServerTypes
<1>2. s2p # <<>>
  <2>1. Len(<<>>) = 0
    BY ShortAre
  <2>2. Len(s2p) # 0
    BY <1>1
  <2> QED BY <2>1, <2>2
<1>3. s2p = <<Unit(t, 1)>>
  BY <1>2 DEF One
<1>4. Len(s2p) = 1
  BY <1>3, ShortAre
<1>5. arrived + 1 = 2
  BY <1>1, <1>4
<1>6. SubSeq(s2p, 2, 1) = <<>>
  BY <1>3, ShortParts
<1> QED BY <1>1, <1>3, <1>4, <1>5, <1>6 DEF One

\* v2r_vnc_recv1 takes one message.
LEMMA Recv1Takes ==
  ASSUME ServerInv, Recv1
  PROVE  s2p # <<>> /\ s2p' = Tail(s2p)
<1>1. arrived > 0 /\ arrived \in 0..Len(s2p) /\ s2p' = Tail(s2p)
  BY DEF Recv1, ServerInv, ServerTypes
<1>2. Len(s2p) # 0
  BY <1>1
<1> QED BY <1>1, <1>2, ShortAre

\* A message that is not split is one unit.
LEMMA UnsplitUnits ==
  ASSUME "split" \notin Environment, NEW t PROVE Units(t) = One(t)
<1>1. Parts(t) = 1..1
  BY DEF Parts
<1>2. Units(t) = [part \in 1..1 |-> Unit(t, part)]
  BY <1>1 DEF Units
<1>3. PICK u : u = [part \in 1..1 |-> Unit(t, part)]
  OBVIOUS
<1>4. PICK S : S = {Unit(t, 1)}
  OBVIOUS
<1>5. u \in [1..1 -> S]
  <2>1. \A part \in 1..1 : part = 1
    OBVIOUS
  <2> QED BY <1>3, <1>4, <2>1
<1>6. u \in Seq(S)
  <2>1. PICK n \in Nat : n = 1
    OBVIOUS
  <2>2. u \in [1..n -> S]
    BY <1>5, <2>1
  <2> QED BY <2>2, SeqDef
<1>7. Len(u) = 1
  <2>1. Len(u) \in Nat /\ DOMAIN u = 1..Len(u)
    BY <1>6, LenProperties
  <2>2. DOMAIN u = 1..1
    BY <1>3
  <2>3. 1..Len(u) = 1..1
    BY <2>1, <2>2
  <2> QED BY <2>1, <2>3
<1>8. u[1] = Unit(t, 1)
  <2>1. 1 \in 1..1
    OBVIOUS
  <2> QED BY <1>3, <2>1
<1>9. u = <<u[1]>>
  BY <1>6, <1>7, OneIs
<1> QED BY <1>2, <1>3, <1>8, <1>9 DEF One

\* What the meeting does not mention may change.
LEMMA MeetingAgain ==
  ASSUME NEW k, NEW m, At(pc', security', k, s2p', m), serverOpen' => k = spos' /\ m = p2s',
         pc' \in VncLabels
  PROVE  MeetingInv'
  BY DEF MeetingInv, Met

\* What the proxy sends is what the server hears next.
LEMMA SendsMeet ==
  ASSUME MeetingInv, pc \in VncLabels, NEW msg, NEW label \in VncLabels,
         SendServer(<<msg>>, label),
         \A k, m : At(pc, security, k, s2p, m) =>
                     m = <<>> /\ At(label, security, k, s2p, <<msg>>)
  PROVE  MeetingInv'
<1>1. CASE SendFails(serverOpen)
  BY <1>1, MeetingElsewhere DEF SendFails, GiveUp
<1>2. CASE /\ pc' = label /\ p2s' = Put(serverOpen, p2s, <<msg>>)
           /\ UNCHANGED <<proxy, s2p, arrived, c2p, p2c, client, server>>
  <2>1. /\ spos' = spos /\ security' = security /\ serverOpen' = serverOpen /\ s2p' = s2p
    BY <1>2 DEF server
  <2>2. PICK k, m : At(pc, security, k, s2p, m) /\ (serverOpen => k = spos /\ m = p2s)
    BY DEF MeetingInv, Met
  <2>3. m = <<>> /\ At(label, security, k, s2p, <<msg>>)
    BY <2>2
  <2>4. serverOpen => p2s' = <<msg>>
    BY <1>2, <2>2, <2>3, ShortPuts DEF Put
  <2>5. At(pc', security', k, s2p', <<msg>>)
    BY <1>2, <2>1, <2>3
  <2>6. serverOpen' => k = spos' /\ <<msg>> = p2s'
    BY <2>1, <2>2, <2>4
  <2>7. pc' \in VncLabels
    BY <1>2
  <2> QED BY <2>5, <2>6, <2>7, MeetingAgain
<1> QED BY <1>1, <1>2 DEF SendServer

\* Every step of the VNC handshake.
LEMMA VncMeets ==
  ASSUME ServerInv, MeetingInv, v2r_vnc_build_conn PROVE MeetingInv'
<1>1. ASSUME UNCHANGED <<p2s, server>>, pc \in VncLabels, pc' \in VncLabels,
             \A k, m : At(pc, security, k, s2p, m) => At(pc', security, k, s2p', m)
      PROVE  MeetingInv'
  <2>1. /\ spos' = spos /\ security' = security /\ serverOpen' = serverOpen /\ p2s' = p2s
    BY <1>1 DEF server
  <2>2. PICK k, m : At(pc, security, k, s2p, m) /\ (serverOpen => k = spos /\ m = p2s)
    BY <1>1 DEF MeetingInv, Met
  <2>3. At(pc', security', k, s2p', m)
    BY <1>1, <2>1, <2>2
  <2>4. serverOpen' => k = spos' /\ m = p2s'
    BY <2>1, <2>2
  <2> QED BY <1>1, <2>3, <2>4, MeetingAgain
<1>2. CASE ReceiveProtocolVersion
  <2>1. /\ pc = "version" /\ pc' = "send_version" /\ Recv /\ UNCHANGED <<p2s, server>>
    BY <1>2 DEF ReceiveProtocolVersion
  <2>2. ASSUME NEW k, NEW m, At(pc, security, k, s2p, m) PROVE At(pc', security, k, s2p', m)
    <3>1. AtVersion(security, k, s2p, m)
      BY <2>1, <2>2 DEF At
    <3>2. m = <<>> /\ ((k = 1 /\ s2p = <<>>) \/ (k = 2 /\ s2p = One("version")))
      BY <3>1 DEF AtVersion
    <3>3. s2p = One("version") /\ s2p' = <<>>
      BY <2>1, <3>2, RecvTakesAll
    <3>4. One("version") # <<>>
      BY ShortAre DEF One
    <3>5. k = 2
      BY <3>2, <3>3, <3>4
    <3> QED BY <2>1, <3>2, <3>3, <3>5 DEF At
  <2>3. pc \in VncLabels /\ pc' \in VncLabels
    BY <2>1 DEF VncLabels
  <2> QED BY <1>1, <2>1, <2>2, <2>3
<1>3. CASE SendProtocolVersion
  <2>1. pc = "send_version" /\ SendServer(<<Message("version")>>, "security")
    BY <1>3 DEF SendProtocolVersion
  <2>2. pc \in VncLabels /\ "security" \in VncLabels
    BY <2>1 DEF VncLabels
  <2>3. \A k, m : At(pc, security, k, s2p, m) =>
                    m = <<>> /\ At("security", security, k, s2p, <<Message("version")>>)
    BY <2>1 DEF At, AtSecurity
  <2> QED BY <2>1, <2>2, <2>3, SendsMeet
<1>4. CASE ReceiveSecurityType
  <2>1. /\ pc = "security" /\ Recv1 /\ UNCHANGED <<p2s, server>>
        /\ \/ security = "none" /\ pc' = "send_client_init"
           \/ security \in {"vnc_auth", "wrong_password"} /\ pc' = "challenge"
    BY <1>4 DEF ReceiveSecurityType
  <2>2. ASSUME NEW k, NEW m, At(pc, security, k, s2p, m) PROVE At(pc', security, k, s2p', m)
    <3>1. AtSecurity(security, k, s2p, m)
      BY <2>1, <2>2 DEF At
    <3>2. s2p # <<>> /\ s2p' = Tail(s2p)
      BY <2>1, Recv1Takes
    <3>3. CASE k = 4 /\ s2p = One("security") /\ m = <<>>
      <4>1. s2p' = <<>>
        BY <3>2, <3>3, ShortTails DEF One
      <4>2. CASE security = "none" /\ pc' = "send_client_init"
        BY <3>3, <4>1, <4>2 DEF At, Letting, InitAt
      <4>3. CASE security \in {"vnc_auth", "wrong_password"} /\ pc' = "challenge"
        BY <3>3, <4>1, <4>3 DEF At, AtChallenge, Asking
      <4> QED BY <2>1, <4>2, <4>3
    <3>4. CASE /\ Asking(security) /\ k = 5 /\ m = <<>>
               /\ s2p = <<Unit("security", 1), Unit("challenge", 1)>>
      <4>1. s2p' = One("challenge")
        BY <3>2, <3>4, ShortTails DEF One
      <4>2. pc' = "challenge"
        BY <2>1, <3>4 DEF Asking
      <4> QED BY <3>4, <4>1, <4>2 DEF At, AtChallenge
    <3> QED BY <3>1, <3>2, <3>3, <3>4 DEF AtSecurity
  <2>3. pc \in VncLabels /\ pc' \in VncLabels
    BY <2>1 DEF VncLabels
  <2> QED BY <1>1, <2>1, <2>2, <2>3
<1>5. CASE pc = "challenge" /\ v2r_vnc_process_vnc_authentication
  <2>1. Recv1 /\ pc' = "send_response" /\ UNCHANGED <<p2s, server>>
    BY <1>5 DEF v2r_vnc_process_vnc_authentication
  <2>2. ASSUME NEW k, NEW m, At(pc, security, k, s2p, m) PROVE At(pc', security, k, s2p', m)
    <3>1. AtChallenge(security, k, s2p, m)
      BY <1>5, <2>2 DEF At
    <3>2. s2p # <<>> /\ s2p' = Tail(s2p)
      BY <2>1, Recv1Takes
    <3>3. Asking(security) /\ m = <<>> /\ k = 5 /\ s2p = One("challenge")
      BY <3>1, <3>2 DEF AtChallenge
    <3>4. s2p' = <<>>
      BY <3>2, <3>3, ShortTails DEF One
    <3> QED BY <2>1, <3>3, <3>4 DEF At
  <2>3. pc \in VncLabels /\ pc' \in VncLabels
    BY <1>5, <2>1 DEF VncLabels
  <2> QED BY <1>1, <2>1, <2>2, <2>3
<1>6. CASE pc = "send_response" /\ v2r_vnc_process_vnc_authentication
  <2>1. SendServer(<<Message("response")>>, "result")
    BY <1>6 DEF v2r_vnc_process_vnc_authentication
  <2>2. pc \in VncLabels /\ "result" \in VncLabels
    BY <1>6 DEF VncLabels
  <2>3. \A k, m : At(pc, security, k, s2p, m) =>
                    m = <<>> /\ At("result", security, k, s2p, <<Message("response")>>)
    BY <1>6 DEF At, AtResult
  <2> QED BY <2>1, <2>2, <2>3, SendsMeet
<1>7. CASE pc = "result" /\ v2r_vnc_process_vnc_authentication
  <2>1. /\ Recv1 /\ pc' = "send_client_init" /\ UNCHANGED <<p2s, server>>
        /\ security = "vnc_auth"
    BY <1>7 DEF v2r_vnc_process_vnc_authentication
  <2>2. ASSUME NEW k, NEW m, At(pc, security, k, s2p, m) PROVE At(pc', security, k, s2p', m)
    <3>1. AtResult(security, k, s2p, m)
      BY <1>7, <2>2 DEF At
    <3>2. s2p # <<>> /\ s2p' = Tail(s2p)
      BY <2>1, Recv1Takes
    <3>3. m = <<>> /\ k = 7 /\ s2p = One("result")
      BY <3>1, <3>2 DEF AtResult
    <3>4. s2p' = <<>>
      BY <3>2, <3>3, ShortTails DEF One
    <3>5. Letting(security) /\ k = InitAt(security)
      BY <2>1, <3>3 DEF Letting, InitAt
    <3> QED BY <2>1, <3>3, <3>4, <3>5 DEF At
  <2>3. pc \in VncLabels /\ pc' \in VncLabels
    BY <1>7, <2>1 DEF VncLabels
  <2> QED BY <1>1, <2>1, <2>2, <2>3
<1>8. CASE SendClientInit
  <2>1. pc = "send_client_init" /\ SendServer(<<Message("client_init")>>, "server_init")
    BY <1>8 DEF SendClientInit
  <2>2. pc \in VncLabels /\ "server_init" \in VncLabels
    BY <2>1 DEF VncLabels
  <2>3. \A k, m : At(pc, security, k, s2p, m) =>
                    m = <<>> /\ At("server_init", security, k, s2p, <<Message("client_init")>>)
    BY <2>1 DEF At, AtInit
  <2> QED BY <2>1, <2>2, <2>3, SendsMeet
<1>9. CASE v2r_vnc_recv_server_init
  <2>1. /\ pc = "server_init" /\ pc' = "send_setup" /\ Recv /\ UNCHANGED <<p2s, server>>
    BY <1>9 DEF v2r_vnc_recv_server_init
  <2>2. ASSUME NEW k, NEW m, At(pc, security, k, s2p, m) PROVE At(pc', security, k, s2p', m)
    <3>1. AtInit(security, k, s2p, m)
      BY <2>1, <2>2 DEF At
    <3>2. s2p = <<>> \/ s2p = One("server_init")
      BY <3>1 DEF AtInit
    <3>3. s2p = One("server_init") /\ s2p' = <<>>
      BY <2>1, <3>2, RecvTakesAll
    <3>4. One("server_init") # <<>>
      BY ShortAre DEF One
    <3>5. Letting(security) /\ k = InitAt(security) + 2 /\ m = <<>>
      BY <3>1, <3>3, <3>4 DEF AtInit
    <3> QED BY <2>1, <3>3, <3>5 DEF At
  <2>3. pc \in VncLabels /\ pc' \in VncLabels
    BY <2>1 DEF VncLabels
  <2> QED BY <1>1, <2>1, <2>2, <2>3
<1>10. CASE SendSetup
  <2>1. pc = "send_setup" /\ SendServer(Setup, "connection_request")
    BY <1>10 DEF SendSetup
  <2>2. CASE SendFails(serverOpen)
    BY <2>2, MeetingElsewhere DEF SendFails, GiveUp
  <2>3. CASE pc' = "connection_request" /\ UNCHANGED <<s2p, server>>
    <3>1. pc \in VncLabels /\ pc' \notin VncLabels
      BY <2>1, <2>3 DEF VncLabels
    <3>2. PICK k, m : At(pc, security, k, s2p, m) /\ (serverOpen => k = spos /\ m = p2s)
      BY <3>1 DEF MeetingInv, Met
    <3>3. k = InitAt(security) + 2 /\ s2p = <<>>
      BY <2>1, <3>2 DEF At
    <3>4. InitAt(security) + 2 = ServerItems(security) + 1
      BY DEF InitAt, ServerItems
    <3>5. 1..Len(<<>>) = {}
      BY ShortAre
    <3>6. spos' = spos /\ security' = security /\ serverOpen' = serverOpen /\ s2p' = s2p
      BY <2>3 DEF server
    <3>7. \A i \in 1..Len(s2p') : s2p'[i].type = "update"
      BY <3>3, <3>5, <3>6
    <3>8. serverOpen' => spos' = ServerItems(security') + 1
      BY <3>2, <3>3, <3>4, <3>6
    <3> QED BY <3>1, <3>7, <3>8 DEF MeetingInv
  <2> QED BY <2>1, <2>2, <2>3 DEF SendServer
<1>11. CASE VncFails
  BY <1>11, MeetingElsewhere DEF VncFails, GiveUp
<1> QED BY <1>2, <1>3, <1>4, <1>5, <1>6, <1>7, <1>8, <1>9, <1>10, <1>11
    DEF v2r_vnc_build_conn, v2r_vnc_process_vnc_authentication

\* What the server says next, in each place where it has something to say.
LEMMA SaysNext ==
  ASSUME NEW s, NEW k, NEW t, ServerItem(s, k) = Says(t)
  PROVE  /\ k = 1 => t = "version"
         /\ k = 3 => t = "security"
         /\ k = 4 => s # "none" /\ t = "challenge"
         /\ k = 6 /\ s # "none" => t = "result"
         /\ k = 5 /\ s = "none" => t = "server_init"
         /\ k = 8 /\ s # "none" => t = "server_init"
         /\ k # 2 /\ ~(k = 4 /\ s = "none") /\ ~(s # "none" /\ k \in {5, 7})
<1>1. \A a, b : Says(a) # Hears(b)
  <2>1. \A a, b : Says(a).does = "say" /\ Hears(b).does = "hear"
    BY DEF Says, Hears
  <2> QED BY <2>1
<1>2. \A a, b : Says(a) = Says(b) => a = b
  <2>1. \A a : Says(a).msg = a
    BY DEF Says
  <2> QED BY <2>1
<1>4. k = 1 => t = "version"
  BY <1>2 DEF ServerItem
<1>5. k = 3 => t = "security"
  BY <1>2 DEF ServerItem
<1>6. k = 4 => s # "none" /\ t = "challenge"
  BY <1>1, <1>2 DEF ServerItem
<1>7. k = 6 /\ s # "none" => t = "result"
  BY <1>2 DEF ServerItem
<1>8. k = 5 /\ s = "none" => t = "server_init"
  BY <1>2 DEF ServerItem
<1>9. k = 8 /\ s # "none" => t = "server_init"
  BY <1>2 DEF ServerItem
<1>10. k # 2 /\ ~(k = 4 /\ s = "none")
  BY <1>1 DEF ServerItem
<1>11. ~(s # "none" /\ k \in {5, 7})
  BY <1>1 DEF ServerItem
<1> QED BY <1>4, <1>5, <1>6, <1>7, <1>8, <1>9, <1>10, <1>11

\* Nothing is said in a place whose messages are all under way.
LEMMA AtSays ==
  ASSUME NEW label, NEW s, NEW k, NEW u, NEW m, NEW t, At(label, s, k, u, m),
         ServerItem(s, k) = Says(t), k <= ServerItems(s),
         ~(s = "refused" /\ k > 3), ~(s = "wrong_password" /\ k > 6),
         s \in {"none", "vnc_auth", "wrong_password", "refused"}
  PROVE  At(label, s, k + 1, u \o One(t), m)
<1>1. <<>> \o One(t) = One(t)
  BY ShortPuts DEF One
<1>2. CASE label = "version" /\ AtVersion(s, k, u, m)
  <2>1. k = 1 /\ u = <<>> /\ m = <<>> /\ t = "version"
    BY <1>2, SaysNext DEF AtVersion
  <2>2. k + 1 = 2 /\ u \o One(t) = One("version")
    BY <1>1, <2>1
  <2> QED BY <1>2, <2>1, <2>2 DEF At, AtVersion
<1>3. CASE label = "security" /\ AtSecurity(s, k, u, m)
  <2>1. k = 3 \/ k = 4
    BY <1>3, SaysNext DEF AtSecurity, Asking
  <2>2. CASE k = 3
    <3>1. t = "security" /\ u = <<>> /\ m = <<>>
      BY <1>3, <2>2, SaysNext DEF AtSecurity
    <3>2. k + 1 = 4 /\ u \o One(t) = One("security")
      BY <1>1, <2>2, <3>1
    <3> QED BY <1>3, <3>1, <3>2 DEF At, AtSecurity
  <2>3. CASE k = 4
    <3>1. t = "challenge" /\ u = One("security") /\ m = <<>> /\ s # "none"
      BY <1>3, <2>3, SaysNext DEF AtSecurity
    <3>2. u \o One(t) = <<Unit("security", 1), Unit("challenge", 1)>>
      BY <3>1, ShortPuts DEF One
    <3>3. Asking(s) /\ k + 1 = 5
      BY <2>3, <3>1 DEF Asking
    <3> QED BY <1>3, <3>1, <3>2, <3>3 DEF At, AtSecurity
  <2> QED BY <2>1, <2>2, <2>3
<1>4. CASE label = "challenge" /\ AtChallenge(s, k, u, m)
  <2>1. Asking(s) /\ m = <<>> /\ s # "none"
    BY <1>4 DEF AtChallenge, Asking
  <2>2. k = 4 /\ u = <<>>
    BY <1>4, <2>1, SaysNext DEF AtChallenge
  <2>3. t = "challenge" /\ k + 1 = 5
    BY <2>2, SaysNext
  <2>4. u \o One(t) = One("challenge")
    BY <1>1, <2>2, <2>3
  <2> QED BY <1>4, <2>1, <2>3, <2>4 DEF At, AtChallenge
<1>5. CASE label = "result" /\ AtResult(s, k, u, m)
  <2>1. Asking(s) /\ s # "none"
    BY <1>5 DEF AtResult, Asking
  <2>2. k = 6 /\ u = <<>> /\ m = <<>>
    BY <1>5, <2>1, SaysNext DEF AtResult
  <2>3. t = "result" /\ k + 1 = 7
    BY <2>1, <2>2, SaysNext
  <2>4. u \o One(t) = One("result")
    BY <1>1, <2>2, <2>3
  <2> QED BY <1>5, <2>1, <2>2, <2>3, <2>4 DEF At, AtResult
<1>6. CASE label = "server_init" /\ AtInit(s, k, u, m)
  <2>1. Letting(s) /\ (s # "none" => InitAt(s) = 7 /\ ServerItems(s) = 8)
        /\ (s = "none" => InitAt(s) = 4 /\ ServerItems(s) = 5)
    BY <1>6 DEF AtInit, InitAt, ServerItems
  <2>2. k = InitAt(s) + 1 /\ u = <<>> /\ m = <<>>
    <3>1. k # InitAt(s)
      BY <2>1, SaysNext
    <3>2. k # InitAt(s) + 2
      BY <2>1
    <3> QED BY <1>6, <3>1, <3>2 DEF AtInit
  <2>3. t = "server_init" /\ k + 1 = InitAt(s) + 2
    BY <2>1, <2>2, SaysNext
  <2>4. u \o One(t) = One("server_init")
    BY <1>1, <2>2, <2>3
  <2> QED BY <1>6, <2>1, <2>2, <2>3, <2>4 DEF At, AtInit
<1>7. label # "send_version" \/ k # 2
  BY SaysNext
<1>8. ~(label = "send_response" /\ Asking(s) /\ k = 5)
  BY SaysNext DEF Asking
<1>9. ~(label = "send_client_init" /\ Letting(s) /\ k = InitAt(s))
  BY SaysNext DEF Letting, InitAt
<1>10. ~(label = "send_setup" /\ Letting(s) /\ k = InitAt(s) + 2)
  BY DEF InitAt, ServerItems
<1> QED BY <1>2, <1>3, <1>4, <1>5, <1>6, <1>7, <1>8, <1>9, <1>10 DEF At

\* Nothing is heard in a place where the proxy has not said anything.
LEMMA AtHears ==
  ASSUME NEW label, NEW s, NEW k, NEW u, NEW m, At(label, s, k, u, m), m # <<>>
  PROVE  At(label, s, k + 1, u, Tail(m))
<1>1. \A x : Tail(<<x>>) = <<>>
  BY ShortTails
<1>2. CASE label = "security" /\ AtSecurity(s, k, u, m)
  <2>1. k = 2 /\ u = <<>> /\ m = <<Message("version")>>
    BY <1>2 DEF AtSecurity
  <2> QED BY <1>1, <1>2, <2>1 DEF At, AtSecurity
<1>3. CASE label = "result" /\ AtResult(s, k, u, m)
  <2>1. Asking(s) /\ k = 5 /\ u = <<>> /\ m = <<Message("response")>>
    BY <1>3 DEF AtResult
  <2> QED BY <1>1, <1>3, <2>1 DEF At, AtResult
<1>4. CASE label = "server_init" /\ AtInit(s, k, u, m)
  <2>1. Letting(s) /\ k = InitAt(s) /\ u = <<>> /\ m = <<Message("client_init")>>
    BY <1>4 DEF AtInit
  <2> QED BY <1>1, <1>4, <2>1 DEF At, AtInit
<1> QED BY <1>2, <1>3, <1>4 DEF At, AtVersion, AtChallenge

\* Cutting the stream leaves what an earlier place has, if the server has closed.
LEMMA AtCut ==
  ASSUME NEW label, NEW s, NEW k, NEW u, NEW m, At(label, s, k, u, m), NEW n \in 0..Len(u)
  PROVE  \E j, w : At(label, s, j, SubSeq(u, 1, n), w)
<1>1. \A x : \A i \in 0..1 : SubSeq(<<x>>, 1, i) \in {<<>>, <<x>>}
  BY ShortParts
<1>2. \A i \in 0..0 : SubSeq(<<>>, 1, i) = <<>>
  BY ShortParts
<1>3. u = <<>> => SubSeq(u, 1, n) = <<>>
  <2>1. Len(<<>>) = 0
    BY ShortAre
  <2> QED BY <1>2, <2>1
<1>4. ASSUME NEW t, u = One(t) PROVE SubSeq(u, 1, n) \in {<<>>, One(t)}
  <2>1. Len(u) = 1
    BY <1>4, ShortAre DEF One
  <2>2. n \in 0..1
    BY <2>1
  <2> QED BY <1>1, <1>4, <2>2 DEF One
<1>5. CASE u = <<>>
  BY <1>3, <1>5
<1>6. CASE label = "version" /\ AtVersion(s, k, u, m) /\ u # <<>>
  <2>1. u = One("version") /\ k = 2 /\ m = <<>>
    BY <1>6 DEF AtVersion
  <2>2. SubSeq(u, 1, n) = <<>> => At(label, s, 1, SubSeq(u, 1, n), <<>>)
    BY <1>6 DEF At, AtVersion
  <2>3. SubSeq(u, 1, n) = u => At(label, s, k, SubSeq(u, 1, n), m)
    OBVIOUS
  <2> QED BY <1>4, <2>1, <2>2, <2>3
<1>7. CASE label = "security" /\ AtSecurity(s, k, u, m) /\ u # <<>>
  <2>1. SubSeq(u, 1, n) = <<>> => At(label, s, 3, SubSeq(u, 1, n), <<>>)
    BY <1>7 DEF At, AtSecurity
  <2>2. SubSeq(u, 1, n) = One("security") => At(label, s, 4, SubSeq(u, 1, n), <<>>)
    BY <1>7 DEF At, AtSecurity
  <2>3. SubSeq(u, 1, n) = u => At(label, s, k, SubSeq(u, 1, n), m)
    OBVIOUS
  <2>4. CASE u = One("security")
    BY <1>4, <2>1, <2>2, <2>4
  <2>5. CASE u = <<Unit("security", 1), Unit("challenge", 1)>>
    <3>1. n \in 0..2
      BY <2>5, ShortAre
    <3>2. SubSeq(u, 1, n) \in {<<>>, One("security"), u}
      BY <2>5, <3>1, ShortParts DEF One
    <3> QED BY <2>1, <2>2, <2>3, <3>2
  <2> QED BY <1>7, <2>4, <2>5 DEF AtSecurity
<1>8. CASE label = "challenge" /\ AtChallenge(s, k, u, m) /\ u # <<>>
  <2>1. u = One("challenge") /\ k = 5 /\ m = <<>> /\ Asking(s)
    BY <1>8 DEF AtChallenge
  <2>2. SubSeq(u, 1, n) = <<>> => At(label, s, 4, SubSeq(u, 1, n), <<>>)
    BY <1>8, <2>1 DEF At, AtChallenge
  <2>3. SubSeq(u, 1, n) = u => At(label, s, k, SubSeq(u, 1, n), m)
    OBVIOUS
  <2> QED BY <1>4, <2>1, <2>2, <2>3
<1>9. CASE label = "result" /\ AtResult(s, k, u, m) /\ u # <<>>
  <2>1. u = One("result") /\ k = 7 /\ m = <<>> /\ Asking(s)
    BY <1>9 DEF AtResult
  <2>2. SubSeq(u, 1, n) = <<>> => At(label, s, 6, SubSeq(u, 1, n), <<>>)
    BY <1>9, <2>1 DEF At, AtResult
  <2>3. SubSeq(u, 1, n) = u => At(label, s, k, SubSeq(u, 1, n), m)
    OBVIOUS
  <2> QED BY <1>4, <2>1, <2>2, <2>3
<1>10. CASE label = "server_init" /\ AtInit(s, k, u, m) /\ u # <<>>
  <2>1. u = One("server_init") /\ Letting(s)
    BY <1>10 DEF AtInit
  <2>2. SubSeq(u, 1, n) = <<>> => At(label, s, InitAt(s) + 1, SubSeq(u, 1, n), <<>>)
    BY <1>10, <2>1 DEF At, AtInit
  <2>3. SubSeq(u, 1, n) = u => At(label, s, k, SubSeq(u, 1, n), m)
    OBVIOUS
  <2> QED BY <1>4, <2>1, <2>2, <2>3
<1> QED BY <1>5, <1>6, <1>7, <1>8, <1>9, <1>10 DEF At

\* The server goes on with its script.
LEMMA ScriptMeets ==
  ASSUME "split" \notin Environment, ServerInv, MeetingInv, ServerStep PROVE MeetingInv'
<1>1. /\ pc' = pc /\ security' = security /\ serverOpen' = serverOpen /\ spos' = spos + 1
      /\ Running /\ serverOpen /\ ~TurnedAway
  BY DEF ServerStep
<1>2. /\ spos \in 1..ServerItems(security) /\ ServerScript[spos] = ServerItem(security, spos)
      /\ ServerItems(security) \in Nat
  BY ScriptStep DEF ServerItems
<1>3. pc \in VncLabels
  <2>1. spos # ServerItems(security) + 1
    BY <1>2
  <2> QED BY <1>1, <2>1 DEF MeetingInv
<1>4. At(pc, security, spos, s2p, p2s)
  BY <1>1, <1>3 DEF MeetingInv, Met
<1>5. \/ \E t \in Said : ServerItem(security, spos) = Says(t)
      \/ \E t \in {"version", "response", "client_init"} :
           ServerItem(security, spos) = Hears(t)
  BY ScriptStep
<1>6. At(pc, security, spos + 1, s2p', p2s')
  <2>1. CASE \E t \in Said : ServerItem(security, spos) = Says(t)
    <3>1. PICK t \in Said : ServerItem(security, spos) = Says(t)
      BY <2>1
    <3>2. Says(t).does = "say" /\ Says(t).msg = t
      BY DEF Says
    <3>3. s2p' = s2p \o Units(t) /\ p2s' = p2s
      BY <1>2, <3>1, <3>2 DEF ServerStep
    <3>4. s2p' = s2p \o One(t)
      BY <3>3, UnsplitUnits
    <3>5. ~(security = "refused" /\ spos > 3) /\ ~(security = "wrong_password" /\ spos > 6)
      BY <1>1 DEF TurnedAway
    <3>6. security \in {"none", "vnc_auth", "wrong_password", "refused"}
      BY SecuritiesAssumption DEF ServerInv, ServerTypes
    <3>7. spos <= ServerItems(security)
      BY <1>2
    <3>8. At(pc, security, spos + 1, s2p \o One(t), p2s)
      BY <1>4, <3>1, <3>5, <3>6, <3>7, AtSays
    <3> QED BY <3>3, <3>4, <3>8
  <2>2. CASE \E t \in {"version", "response", "client_init"} :
               ServerItem(security, spos) = Hears(t)
    <3>1. PICK t \in {"version", "response", "client_init"} :
               ServerItem(security, spos) = Hears(t)
      BY <2>2
    <3>2. Hears(t).does = "hear"
      BY DEF Hears
    <3>3. p2s # <<>> /\ p2s' = Tail(p2s) /\ s2p' = s2p
      BY <1>2, <3>1, <3>2 DEF ServerStep
    <3> QED BY <1>4, <3>3, AtHears
  <2> QED BY <1>5, <2>1, <2>2
<1> QED BY <1>1, <1>3, <1>6, MeetingAgain

\* Once the handshake is over the server has nothing but updates to send.
LEMMA ServerMeets ==
  ASSUME "split" \notin Environment, ServerInv, MeetingInv,
         ServerReads \/ ServerUpdates \/ ServerTurnsAway \/ ServerCloses
  PROVE  MeetingInv'
<1>1. /\ pc' = pc /\ security' = security /\ spos' = spos /\ Running /\ serverOpen
      /\ Running' = Running
  BY DEF ServerReads, ServerUpdates, ServerTurnsAway, ServerCloses, Running
<1>2. s2p \in Seq(ServerUnits) /\ arrived \in 0..Len(s2p) /\ Len(s2p) \in Nat
  BY LenProperties DEF ServerInv, ServerTypes
<1>3. CASE ServerReads
  <2>1. pc \notin VncLabels
    <3>1. SUFFICES ASSUME pc \in VncLabels PROVE FALSE
      OBVIOUS
    <3>2. At(pc, security, spos, s2p, p2s)
      BY <1>1, <3>1 DEF MeetingInv, Met
    <3>3. p2s # <<>> /\ spos > ServerItems(security)
      BY <1>3, ServerScriptIs DEF ServerReads, ServerActive
    <3>4. spos = 2 \/ (Asking(security) /\ spos = 5) \/ spos = InitAt(security)
      BY <3>2, <3>3 DEF At, AtVersion, AtSecurity, AtChallenge, AtResult, AtInit
    <3> QED BY <3>3, <3>4 DEF ServerItems, InitAt, Asking
  <2>2. s2p' = s2p /\ serverOpen' = serverOpen
    BY <1>3 DEF ServerReads
  <2> QED BY <1>1, <2>1, <2>2 DEF MeetingInv
<1>4. CASE ServerUpdates
  <2>1. pend # "none" /\ s2p' = Append(s2p, Update(inEffect)) /\ serverOpen' = serverOpen
    BY <1>4 DEF ServerUpdates
  <2>2. pc \notin VncLabels
    BY <2>1 DEF ServerInv, AskingInv, Quiet
  <2>3. PICK u \in ServerUnits : u = Update(inEffect) /\ u.type = "update"
    <3>1. inEffect \in Formats
      BY DEF ServerInv, ServerTypes
    <3>2. Update(inEffect) \in ServerUnits
      BY <3>1 DEF Update, ServerUnits
    <3>3. Update(inEffect).type = "update"
      BY DEF Update
    <3> QED BY <3>2, <3>3
  <2>4. /\ Len(s2p') = Len(s2p) + 1 /\ s2p'[Len(s2p) + 1] = u
        /\ \A i \in 1..Len(s2p) : s2p'[i] = s2p[i]
    BY <1>2, <2>1, <2>3, AppendProperties
  <2>5. \A i \in 1..Len(s2p') : i \in 1..Len(s2p) \/ i = Len(s2p) + 1
    BY <1>2, <2>4
  <2>6. \A i \in 1..Len(s2p) : s2p[i].type = "update"
    BY <1>1, <2>2 DEF MeetingInv
  <2>7. \A i \in 1..Len(s2p') : s2p'[i].type = "update"
    BY <2>3, <2>4, <2>5, <2>6
  <2> QED BY <1>1, <2>1, <2>2, <2>7 DEF MeetingInv
<1>5. CASE ServerTurnsAway \/ ServerCloses
  <2>1. serverOpen' = FALSE
    BY <1>5 DEF ServerTurnsAway, ServerCloses
  <2>2. PICK n \in 0..Len(s2p) : s2p' = SubSeq(s2p, 1, n)
    <3>1. CASE ServerTurnsAway
      <4>1. s2p' = SubSeq(s2p, 1, Len(s2p))
        BY <1>2, <3>1, SubSeqFull DEF ServerTurnsAway
      <4> QED BY <1>2, <4>1
    <3>2. CASE ServerCloses
      <4>1. PICK n \in arrived..Len(s2p) : s2p' = SubSeq(s2p, 1, n)
        BY <3>2 DEF ServerCloses
      <4>2. n \in 0..Len(s2p)
        BY <1>2, <4>1
      <4> QED BY <4>1, <4>2
    <3> QED BY <1>5, <3>1, <3>2
  <2>3. CASE pc \in VncLabels
    <3>1. PICK k, m : At(pc, security, k, s2p, m)
      BY <2>3 DEF MeetingInv, Met
    <3>2. PICK j, w : At(pc, security, j, s2p', w)
      BY <2>2, <3>1, AtCut
    <3> QED BY <1>1, <2>1, <2>3, <3>2, MeetingAgain
  <2>4. CASE pc \notin VncLabels
    <3>1. \A i \in 1..Len(s2p') : i \in 1..Len(s2p) /\ s2p'[i] = s2p[i]
      <4>1. n \in Nat /\ n <= Len(s2p)
        BY <1>2, <2>2
      <4>2. \A i \in 1..n : i \in 1..Len(s2p) /\ s2p[i] \in ServerUnits
        <5>1. \A i \in 1..n : i \in 1..Len(s2p)
          BY <1>2, <4>1
        <5> QED BY <1>2, <5>1, ElementOfSeq
      <4>3. /\ Len(s2p') = IF 1 <= n THEN n - 1 + 1 ELSE 0
            /\ \A i \in 1..n - 1 + 1 : s2p'[i] = s2p[1 + i - 1]
        BY <2>2, <4>1, <4>2, SubSeqProperties
      <4>4. Len(s2p') = n
        BY <4>1, <4>3
      <4>5. ASSUME NEW i \in 1..n PROVE s2p'[i] = s2p[i]
        <5>1. i \in 1..n - 1 + 1 /\ 1 + i - 1 = i
          BY <4>1
        <5> QED BY <4>3, <5>1
      <4> QED BY <4>2, <4>4, <4>5
    <3>2. \A i \in 1..Len(s2p') : s2p'[i].type = "update"
      BY <1>1, <2>4, <3>1 DEF MeetingInv
    <3> QED BY <1>1, <2>1, <2>4, <3>2 DEF MeetingInv
  <2> QED BY <2>3, <2>4
<1> QED BY <1>3, <1>4, <1>5

\* One step for every disjunct of Next.
LEMMA MeetingInvInductive ==
  ASSUME "split" \notin Environment
  PROVE  ServerInv /\ MeetingInv /\ [Next]_vars => MeetingInv'
<1> SUFFICES ASSUME ServerInv, MeetingInv, [Next]_vars PROVE MeetingInv'
  OBVIOUS
<1>1. CASE v2r_vnc_build_conn
  BY <1>1, VncMeets
<1>2. CASE v2r_rdp_build_conn
  BY <1>2, RdpIsElsewhere, MeetingElsewhere DEF ServerAside
<1>3. CASE Interrupted
  BY <1>3, MeetingElsewhere DEF Interrupted, GiveUp
<1>4. CASE ClientStep \/ ClientCloses
  BY <1>4, MeetingElsewhere DEF ClientStep, ClientCloses
<1>5. CASE ServerStep
  BY <1>5, ScriptMeets
<1>6. CASE ServerReads \/ ServerUpdates \/ ServerTurnsAway \/ ServerCloses
  BY <1>6, ServerMeets
<1>7. CASE Arrive
  BY <1>7, MeetingElsewhere DEF Arrive
<1>8. CASE UNCHANGED vars
  BY <1>8, MeetingElsewhere DEF vars
<1> QED BY <1>1, <1>2, <1>3, <1>4, <1>5, <1>6, <1>7, <1>8
    DEF Next, v2r_session_build_conn, Environs

\* The invariant holds in every state.
LEMMA MeetingInvAlways ==
  ASSUME "split" \notin Environment PROVE Spec => []MeetingInv
<1>1. ServerInv /\ MeetingInv /\ [Next]_vars => MeetingInv'
  BY MeetingInvInductive
<1> QED BY <1>1, MeetingInvInit, ServerInvAlways, PTL DEF Spec

\* At the end of both handshakes the streams are those a session starts with.
LEMMA InvGivesStart ==
  ASSUME ScriptInv, ServerInv, MeetingInv PROVE StartsSession
<1> SUFFICES ASSUME pc = "transmit" PROVE
      /\ c2p = <<>>
      /\ \A i \in DOMAIN s2p : s2p[i].type = "update"
      /\ serverOpen => \/ \E i \in DOMAIN p2s : p2s[i] = Request(FALSE)
                       \/ pend = "full"
                       \/ updates > 0
  BY DEF StartsSession
<1>1. Running /\ pc \notin VncLabels
  BY DEF Running, VncLabels
<1>2. c2p = <<>>
  BY AtTransmit
<1>3. \A i \in DOMAIN s2p : s2p[i].type = "update"
  <2>1. DOMAIN s2p = 1..Len(s2p)
    BY LenProperties DEF ServerInv, ServerTypes
  <2> QED BY <1>1, <2>1 DEF MeetingInv
<1>4. ASSUME serverOpen
      PROVE  (\E i \in DOMAIN p2s : p2s[i] = Request(FALSE)) \/ pend = "full" \/ updates > 0
  <2>1. pend = "full" \/ updates = 1 \/ \E i \in 1..Len(p2s) : p2s[i].type = "request"
    BY <1>1, <1>4 DEF ServerInv, AskingInv
  <2>2. ASSUME NEW i \in 1..Len(p2s), p2s[i].type = "request"
        PROVE  i \in DOMAIN p2s /\ p2s[i] = Request(FALSE)
    <3>1. AsksOnce(p2s, format, inEffect, pend, updates)
      BY DEF ServerInv, AskingInv
    <3>2. p2s[i] = Request(FALSE)
      BY <2>2, <3>1 DEF AsksOnce
    <3>3. DOMAIN p2s = 1..Len(p2s)
      BY LenProperties DEF ServerInv, ServerTypes
    <3> QED BY <3>2, <3>3
  <2>3. CASE \E i \in 1..Len(p2s) : p2s[i].type = "request"
    <3>1. PICK i \in 1..Len(p2s) : p2s[i].type = "request"
      BY <2>3
    <3>2. i \in DOMAIN p2s /\ p2s[i] = Request(FALSE)
      BY <2>2, <3>1
    <3> QED BY <3>2
  <2>4. updates = 1 => updates > 0
    OBVIOUS
  <2> QED BY <2>1, <2>3, <2>4
<1> QED BY <1>2, <1>3, <1>4

\* If no message of the server is split, the session starts with streams that hold nothing
\* of the handshakes but updates, and with the whole screen asked for.
THEOREM SessionAlwaysStarts ==
  ASSUME "split" \notin Environment PROVE Spec => []StartsSession
<1>1. ScriptInv /\ ServerInv /\ MeetingInv => StartsSession
  BY InvGivesStart
<1> QED BY <1>1, ScriptInvAlways, ServerInvAlways, MeetingInvAlways, PTL

(***************************************************************************)
(* Why a connection fails: each place at which the proxy waits for the     *)
(* client is the place of the item whose message is the next to come.      *)
(***************************************************************************)
LEMMA Accepted ==
  ASSUME ConversationInv, encryption = "none", GoodClient, pc \in FromClient, c2p # <<>>
  PROVE  Accepts(Head(c2p))
<1> DEFINE p == Place(pc, joined, Terms)
           n == LastJoinAt(Terms)
           h == Head(c2p)
           u == wanted + 3
<1>1. Running
  BY DEF Running, FromClient, DataTypes
<1>2. p \in Nat /\ h = Item(Terms, p + 1).msg
  BY <1>1, HeadIs, ConversationTypes
<1>3. wanted \in Nat /\ n \in Nat
  BY ConversationTypes
<1>4. ASSUME NEW type, NEW k, p + 1 = k, Item(Terms, k) = Says(Data(type, u)), pc = type,
             type \in DataTypes, user_channel_id = UserChannel(wanted)
      PROVE  Accepts(h)
  <2>1. h = Data(type, u)
    BY <1>2, <1>4 DEF Says
  <2>2. h.type = type /\ h.user = u /\ h.channel = MCS_IO_CHANNEL_ID
    BY <2>1 DEF Data
  <2>3. MCS_BASE_CHANNEL_ID + h.user = user_channel_id
    BY <1>3, <1>4, <2>2 DEF UserChannel, MCS_BASE_CHANNEL_ID, MCS_IO_CHANNEL_ID
  <2>4. h.type # "connect_initial" /\ h.type # "channel_join_request"
    BY <1>4, <2>2 DEF DataTypes
  <2> QED BY <1>4, <2>2, <2>3, <2>4 DEF Accepts
<1>5. pc \in AfterJoins => user_channel_id = UserChannel(wanted)
  BY DEF ConversationInv, PlaceInv
<1>6. CASE pc = "connection_request"
  <2>1. p + 1 = 1
    BY <1>6 DEF Place
  <2>2. h = Message("connection_request")
    BY <1>2, <2>1, OpeningTerms DEF Says
  <2> QED BY <1>6, <2>2 DEF Message, Accepts, DataTypes
<1>7. CASE pc = "connect_initial"
  <2>1. p + 1 = 3
    BY <1>7 DEF Place
  <2>2. h = ConnectInitial(wanted)
    BY <1>2, <2>1, OpeningTerms DEF Says
  <2>3. h.type = "connect_initial" /\ h.channels = wanted
    BY <2>2 DEF ConnectInitial
  <2> QED BY <1>7, <2>3 DEF Accepts, DataTypes, GoodClient, wanted
<1>8. CASE pc = "erect_domain_request"
  <2>1. p + 1 = 5
    BY <1>8 DEF Place
  <2>2. h = Message("erect_domain_request")
    BY <1>2, <2>1, OpeningTerms DEF Says
  <2> QED BY <1>8, <2>2 DEF Message, Accepts, DataTypes
<1>9. CASE pc = "attach_user_request"
  <2>1. p + 1 = 6
    BY <1>9 DEF Place
  <2>2. h = Message("attach_user_request")
    BY <1>2, <2>1, OpeningTerms DEF Says
  <2> QED BY <1>9, <2>2 DEF Message, Accepts, DataTypes
<1>10. CASE pc = "channel_join_request"
  <2>1. /\ joined \in 0..wanted + 1 /\ ChannelToJoin = ChannelOf(Terms, joined)
        /\ user_channel_id = UserChannel(wanted)
    BY <1>10, ToJoinIs
  <2>2. p + 1 = 8 + 2 * joined
    BY <1>3, <1>10, <2>1 DEF Place
  <2>3. Item(Terms, 8 + 2 * joined) = Says(ChannelJoin(u, ChannelOf(Terms, joined)))
    BY <2>1, JoinTerms
  <2>4. h = ChannelJoin(u, ChannelToJoin)
    BY <1>2, <2>1, <2>2, <2>3 DEF Says
  <2>5. h.type = "channel_join_request" /\ h.user = u /\ h.channel = ChannelToJoin
    BY <2>4 DEF ChannelJoin
  <2>6. MCS_BASE_CHANNEL_ID + h.user = user_channel_id
    BY <1>3, <2>1, <2>5 DEF UserChannel, MCS_BASE_CHANNEL_ID, MCS_IO_CHANNEL_ID
  <2> QED BY <1>10, <2>5, <2>6 DEF Accepts, DataTypes
<1>11. CASE pc = "client_info"
  <2>1. p + 1 = n + 1
    BY <1>11 DEF Place
  <2> QED BY <1>4, <1>5, <1>11, <2>1, ClosingTerms DEF DataTypes, AfterJoins
<1>12. CASE pc = "confirm_active"
  <2>1. p + 1 = n + 4
    BY <1>3, <1>12 DEF Place
  <2> QED BY <1>4, <1>5, <1>12, <2>1, ClosingTerms DEF DataTypes, AfterJoins
<1>13. CASE pc = "synchronize"
  <2>1. p + 1 = n + 5
    BY <1>3, <1>13 DEF Place
  <2> QED BY <1>4, <1>5, <1>13, <2>1, ClosingTerms DEF DataTypes, AfterJoins
<1>14. CASE pc = "control_cooperate"
  <2>1. p + 1 = n + 6
    BY <1>3, <1>14 DEF Place
  <2> QED BY <1>4, <1>5, <1>14, <2>1, ClosingTerms DEF DataTypes, AfterJoins
<1>15. CASE pc = "control_request"
  <2>1. p + 1 = n + 7
    BY <1>3, <1>15 DEF Place
  <2> QED BY <1>4, <1>5, <1>15, <2>1, ClosingTerms DEF DataTypes, AfterJoins
<1>16. CASE pc = "font_list"
  <2>1. p + 1 = n + 8
    BY <1>3, <1>16 DEF Place
  <2> QED BY <1>4, <1>5, <1>16, <2>1, ClosingTerms DEF DataTypes, AfterJoins
<1>17. pc # "security_exchange"
  BY DEF ConversationInv, PlaceInv, VncLabels, BeforeResponse, BeforeJoins, AfterJoins
<1> QED BY <1>6, <1>7, <1>8, <1>9, <1>10, <1>11, <1>12, <1>13, <1>14, <1>15, <1>16, <1>17
    DEF FromClient, DataTypes

\* A receive that gives up found a peer gone, a refusal, or a message it cannot take.
LEMMA FailureHasReason ==
  ASSUME ConversationInv, ServerInv, MeetingInv, encryption = "none", Next,
         pc' # pc, pc' \in {"failed", "killed"}
  PROVE  ~clientOpen \/ ~serverOpen \/ ~GoodClient \/ ~GoodServer \/ Waiting
<1>1. CASE v2r_vnc_build_conn
  <2>1. CASE VncFails
    <3>1. CASE /\ pc = "security" /\ arrived > 0
               /\ Head(s2p).type = "security" => security = "refused"
      <4>1. PICK k, m : At(pc, security, k, s2p, m)
        BY <3>1 DEF MeetingInv, Met, VncLabels
      <4>2. s2p # <<>>
        <5>1. Len(s2p) # 0
          BY <3>1 DEF ServerInv, ServerTypes
        <5> QED BY <5>1, ShortAre
      <4>3. Head(s2p) = Unit("security", 1)
        <5>1. AtSecurity(security, k, s2p, m)
          BY <3>1, <4>1 DEF At
        <5> QED BY <4>2, <5>1, ShortAre DEF AtSecurity, One
      <4>4. security = "refused"
        BY <3>1, <4>3 DEF Unit
      <4> QED BY <4>4 DEF GoodServer
    <3>2. CASE pc = "result" /\ arrived > 0 /\ security = "wrong_password"
      BY <3>2 DEF GoodServer
    <3> QED BY <2>1, <3>1, <3>2 DEF VncFails
  <2>2. CASE SendFails(serverOpen)
    BY <2>2 DEF SendFails
  <2>3. CASE ~VncFails /\ ~SendFails(serverOpen)
    BY <1>1, <2>3 DEF v2r_vnc_build_conn, ReceiveProtocolVersion, SendProtocolVersion,
       ReceiveSecurityType, v2r_vnc_process_vnc_authentication, SendClientInit,
       v2r_vnc_recv_server_init, SendSetup, SendServer
  <2> QED BY <2>1, <2>2, <2>3
<1>2. CASE v2r_rdp_build_conn
  <2>1. CASE RdpFails
    BY <2>1, Accepted DEF RdpFails
  <2>2. CASE ~clientOpen
    BY <2>2
  <2>3. CASE clientOpen /\ ~RdpFails
    <3>1. ~SendFails(clientOpen)
      BY <2>3 DEF SendFails
    <3>2. CASE v2r_mcs_build_conn
      BY <2>3, <3>1, <3>2 DEF v2r_mcs_build_conn, v2r_x224_build_conn,
         v2r_mcs_recv_conn_init, v2r_mcs_send_conn_resp, v2r_mcs_recv_erect_domain_req,
         v2r_mcs_recv_attach_user_request, v2r_mcs_send_attach_user_confirm,
         v2r_mcs_join_channel, Receive, SendClient
    <3>3. CASE ~v2r_mcs_build_conn
      BY <1>2, <2>3, <3>1, <3>3 DEF v2r_rdp_build_conn, v2r_rdp_recv_client_info,
         v2r_rdp_send_license_error, v2r_rdp_send_demand_active, v2r_rdp_recv_confirm_active,
         v2r_rdp_recv_synchronize, v2r_rdp_recv_control_cooperate,
         v2r_rdp_recv_control_request, v2r_rdp_recv_font_list, v2r_rdp_send_synchronize,
         v2r_rdp_send_control_cooperate, v2r_rdp_send_control_grant_control,
         v2r_rdp_send_font_map, Receive, Send, SendClient
    <3> QED BY <3>2, <3>3
  <2> QED BY <2>1, <2>2, <2>3
<1>3. CASE Interrupted
  BY <1>3 DEF Interrupted
<1>4. CASE Environs
  BY <1>4 DEF Environs, ClientStep, ClientCloses, ServerStep, ServerReads, ServerUpdates,
     ServerTurnsAway, ServerCloses, Arrive
<1> QED BY <1>1, <1>2, <1>3, <1>4 DEF Next, v2r_session_build_conn

\* Without encryption and with a server none of whose messages is split, a connection is
\* given up only for the reasons the property names: no message of a peer that keeps to its
\* protocol is turned down.
THEOREM FailsOnlyForAReason ==
  ASSUME "split" \notin Environment, Encryptions \subseteq {"none"}
  PROVE  Spec => FailsForAReason
<1>1. ConversationInv /\ ServerInv /\ MeetingInv /\ [Next]_vars =>
        [pc' # pc /\ pc' \in {"failed", "killed"} =>
           ~clientOpen \/ ~serverOpen \/ ~GoodClient \/ ~GoodServer \/ Waiting]_vars
  <2>1. ConversationInv => encryption = "none"
    BY ConversationTypes
  <2> QED BY <2>1, FailureHasReason
<1>2. ScriptInv => ConversationInv
  BY DEF ScriptInv
<1> QED BY <1>1, <1>2, ScriptInvAlways, ServerInvAlways, MeetingInvAlways, PTL
    DEF Spec, FailsForAReason

(***************************************************************************)
(* The types.  The ids in the streams are bounded by the largest number of *)
(* channels the proxy accepts, since it gives out ids only once it has     *)
(* accepted the client's.                                                  *)
(***************************************************************************)
LEMMA IdsBounded ==
  ASSUME NEW n \in 0..MAX_CHANNELS_ALLOWED
  PROVE  /\ UserChannel(n) \in Ids /\ UserChannel(n) - MCS_BASE_CHANNEL_ID = n + 3
         /\ n + 3 \in Ids /\ MCS_IO_CHANNEL_ID \in Ids
         /\ \A d : d.channels = n =>
              UserOf(d) = n + 3 /\ \A j \in 0..n + 1 : ChannelOf(d, j) \in Ids
         /\ \A i \in 1..n : MCS_IO_CHANNEL_ID + i \in Ids
<1>1. n \in Nat /\ MAX_CHANNELS_ALLOWED \in Nat /\ n <= MAX_CHANNELS_ALLOWED
  BY ChannelsAssumption
<1>2. UserChannel(n) \in Ids /\ UserChannel(n) - MCS_BASE_CHANNEL_ID = n + 3
  BY <1>1 DEF UserChannel, Ids, MCS_IO_CHANNEL_ID, MCS_BASE_CHANNEL_ID
<1>3. n + 3 \in Ids /\ MCS_IO_CHANNEL_ID \in Ids
  BY <1>1 DEF Ids, MCS_IO_CHANNEL_ID
<1>4. ASSUME NEW d, d.channels = n, NEW j \in 0..n + 1
      PROVE  ChannelOf(d, j) \in Ids
  BY <1>1, <1>2, <1>4 DEF ChannelOf, Ids, MCS_IO_CHANNEL_ID
<1>5. \A d : d.channels = n => UserOf(d) = n + 3
  BY DEF UserOf
<1>6. \A i \in 1..n : MCS_IO_CHANNEL_ID + i \in Ids
  BY <1>1 DEF Ids, MCS_IO_CHANNEL_ID
<1> QED BY <1>2, <1>3, <1>4, <1>5, <1>6

\* What the client says in the rest of its script.
LEMMA ClosingSays ==
  ASSUME NEW d, d.channels \in Nat, NEW k \in Nat, k > LastJoinAt(d), k <= Items(d),
         Item(d, k).does = "say"
  PROVE  \E type \in DataTypes : Item(d, k).msg = Data(type, UserOf(d))
<1>1. PICK n \in Nat : n = LastJoinAt(d) /\ n > 7
  BY DEF LastJoinAt
<1>2. ASSUME NEW i \in 1..12, Item(d, k) = Closing(UserOf(d))[i]
      PROVE  \E type \in DataTypes : Item(d, k).msg = Data(type, UserOf(d))
  <2>1. PICK u : u = UserOf(d)
    OBVIOUS
  <2>2. /\ Closing(u)[1] = Says(Data("client_info", u))
        /\ Closing(u)[2] = Hears("license_error")
        /\ Closing(u)[3] = Hears("demand_active")
        /\ Closing(u)[4] = Says(Data("confirm_active", u))
        /\ Closing(u)[5] = Says(Data("synchronize", u))
        /\ Closing(u)[6] = Says(Data("control_cooperate", u))
        /\ Closing(u)[7] = Says(Data("control_request", u))
        /\ Closing(u)[8] = Says(Data("font_list", u))
        /\ Closing(u)[9] = Hears("synchronize")
        /\ Closing(u)[10] = Hears("control_cooperate")
        /\ Closing(u)[11] = Hears("control_granted")
        /\ Closing(u)[12] = Hears("font_map")
    BY DEF Closing
  <2>3. \/ i = 1 \/ i = 2 \/ i = 3 \/ i = 4 \/ i = 5 \/ i = 6
        \/ i = 7 \/ i = 8 \/ i = 9 \/ i = 10 \/ i = 11 \/ i = 12
    OBVIOUS
  <2>4. \A t : Hears(t).does # "say"
    BY DEF Hears
  <2>5. \A m : Says(m).msg = m
    BY DEF Says
  <2>6. PICK type \in DataTypes : Item(d, k) = Says(Data(type, u))
    BY <1>2, <2>1, <2>2, <2>3, <2>4 DEF DataTypes
  <2> QED BY <2>1, <2>5, <2>6
<1>3. ~(k <= 7) /\ ~(k <= n)
  BY <1>1
<1>4. CASE d.method = "none"
  <2>1. Item(d, k) = Closing(UserOf(d))[k - n]
    BY <1>1, <1>3, <1>4, Zenon DEF Item
  <2>2. k - n \in 1..12
    BY <1>1, <1>3, <1>4 DEF Items
  <2> QED BY <1>2, <2>1, <2>2
<1>5. CASE d.method # "none"
  <2>1. CASE k = n + 1
    <3>1. Item(d, k) = Says(Data("security_exchange", UserOf(d)))
      BY <1>1, <1>5, <2>1, ExchangeItem
    <3> QED BY <3>1 DEF Says, DataTypes
  <2>2. CASE k # n + 1
    <3>1. Item(d, k) = Closing(UserOf(d))[k - n - 1]
      BY <1>1, <1>3, <1>5, <2>2, Zenon DEF Item
    <3>2. k - n - 1 \in 1..12
      BY <1>1, <1>3, <1>5, <2>2 DEF Items
    <3> QED BY <1>2, <3>1, <3>2
  <2> QED BY <2>1, <2>2
<1> QED BY <1>4, <1>5

\* What scripts say has a type.
LEMMA SaysTyped ==
  ASSUME NEW d, d.channels \in Nat, d.channels \in ChannelCounts, NEW k \in Nat, k > 0,
         k <= Items(d), k > 4 => d.channels <= MAX_CHANNELS_ALLOWED,
         Item(d, k).does = "say"
  PROVE  Item(d, k).msg \in ClientMessages
<1>1. PICK n \in Nat : n = d.channels
  OBVIOUS
<1>2. \A m : Says(m).msg = m
  BY DEF Says
<1>3. \A t : Hears(t).does # "say"
  BY DEF Hears
<1>4. CASE k <= 7
  <2>1. k = 1 \/ k = 2 \/ k = 3 \/ k = 4 \/ k = 5 \/ k = 6 \/ k = 7
    BY <1>4
  <2>2. \/ Item(d, k) = Says(Message("connection_request"))
        \/ Item(d, k) = Says(ConnectInitial(n))
        \/ Item(d, k) = Says(Message("erect_domain_request"))
        \/ Item(d, k) = Says(Message("attach_user_request"))
    BY <1>1, <1>3, <2>1, OpeningItems
  <2>3. /\ Message("connection_request") \in ClientMessages
        /\ Message("erect_domain_request") \in ClientMessages
        /\ Message("attach_user_request") \in ClientMessages
        /\ ConnectInitial(n) \in ClientMessages
    <3>1. ConnectInitial(n) \in [type : {"connect_initial"}, channels : ChannelCounts]
      BY <1>1 DEF ConnectInitial
    <3>2. \A t \in {"connection_request", "erect_domain_request", "attach_user_request"} :
            Message(t) \in ClientMessages
      BY DEF Message, ClientMessages
    <3> QED BY <3>1, <3>2 DEF ClientMessages
  <2> QED BY <1>2, <2>2, <2>3
<1>5. CASE ~(k <= 7) /\ k <= LastJoinAt(d)
  <2>1. n \in 0..MAX_CHANNELS_ALLOWED
    BY <1>1, <1>5, ChannelsAssumption
  <2>2. PICK j \in 0..n + 1 : k = 8 + 2 * j \/ k = 9 + 2 * j
    <3>1. k >= 8 /\ k <= 2 * n + 11
      BY <1>1, <1>5 DEF LastJoinAt
    <3>2. PICK i \in Nat : k = 8 + i
      <4>1. k - 8 \in Nat /\ k = 8 + (k - 8)
        BY <3>1
      <4> QED BY <4>1
    <3>3. PICK j \in Nat : i = 2 * j \/ i = 2 * j + 1
      <4>1. i \div 2 \in Nat
        BY <3>2
      <4>2. i = 2 * (i \div 2) \/ i = 2 * (i \div 2) + 1
        BY <3>2
      <4> QED BY <4>1, <4>2
    <3>4. j \in 0..n + 1
      BY <3>1, <3>2, <3>3
    <3>5. k = 8 + 2 * j \/ k = 9 + 2 * j
      BY <3>2, <3>3
    <3> QED BY <3>4, <3>5
  <2>3. /\ Item(d, 8 + 2 * j) = Says(ChannelJoin(UserOf(d), ChannelOf(d, j)))
        /\ Item(d, 9 + 2 * j) = Hears("channel_join_confirm")
    BY <1>1, JoinItems
  <2>4. Item(d, k).msg = ChannelJoin(UserOf(d), ChannelOf(d, j))
    BY <1>2, <1>3, <2>2, <2>3
  <2>5. UserOf(d) \in Ids /\ ChannelOf(d, j) \in Ids
    BY <1>1, <2>1, IdsBounded
  <2>6. ChannelJoin(UserOf(d), ChannelOf(d, j))
          \in [type : {"channel_join_request"}, user : Ids, channel : Ids]
    BY <2>5 DEF ChannelJoin
  <2> QED BY <2>4, <2>6 DEF ClientMessages
<1>6. CASE k > LastJoinAt(d)
  <2>1. n \in 0..MAX_CHANNELS_ALLOWED
    <3>1. k > 4
      BY <1>1, <1>6 DEF LastJoinAt
    <3> QED BY <1>1, <3>1, ChannelsAssumption
  <2>2. PICK type \in DataTypes : Item(d, k).msg = Data(type, UserOf(d))
    BY <1>6, ClosingSays
  <2>3. UserOf(d) \in Ids
    BY <1>1, <2>1, IdsBounded
  <2>4. Data(type, UserOf(d)) \in [type : DataTypes, user : Ids, channel : {MCS_IO_CHANNEL_ID}]
    BY <2>3 DEF Data
  <2> QED BY <2>2, <2>4 DEF ClientMessages
<1>7. LastJoinAt(d) \in Nat
  BY DEF LastJoinAt
<1> QED BY <1>4, <1>5, <1>6, <1>7

\* What the proxy answers.
LEMMA ResponseTyped ==
  ASSUME NEW m \in Encryptions, NEW n \in 0..MAX_CHANNELS_ALLOWED
  PROVE  Response(m, n) \in OutputMessages
<1>1. PICK k \in 0..52 : channel_count_even(n) = 2 * k
  BY EvenIsEven
<1>2. PICK e \in Nat : e = 2 * k
  OBVIOUS
<1> DEFINE ids == [i \in 1..e |-> IF i <= n THEN MCS_IO_CHANNEL_ID + i ELSE 0]
           lengths == [blocks |-> GccLength(e), response |-> mcs_rsp_len(UserData(e, m))]
<1>3. ids \in Seq(Ids)
  <2>1. \A i \in 1..e : (IF i <= n THEN MCS_IO_CHANNEL_ID + i ELSE 0) \in Ids
    <3>1. 0 \in Ids
      BY ChannelsAssumption DEF Ids, MCS_IO_CHANNEL_ID
    <3>2. \A i \in 1..e : i <= n => i \in 1..n
      BY ChannelsAssumption
    <3> QED BY <3>1, <3>2, IdsBounded
  <2>2. ids \in [1..e -> Ids]
    BY <2>1
  <2> QED BY <2>2, SeqDef
<1>4. lengths \in [blocks : 0..255, response : Nat]
  <2>1. GccLength(e) \in 0..255
    BY <1>2 DEF GccLength
  <2>2. UserData(e, m) \in Nat
    <3>1. NetworkData(e) \in Nat /\ CoreData \in Nat
      BY <1>2 DEF NetworkData, CoreData
    <3>2. SecurityData(m) \in Nat
      BY DEF SecurityData, SERVER_RANDOM_LEN, ServerCertificate
    <3> QED BY <3>1, <3>2 DEF UserData, GccBlocks
  <2>3. mcs_rsp_len(UserData(e, m)) \in Nat
    BY <2>2 DEF mcs_rsp_len
  <2> QED BY <2>1, <2>3
<1>5. Response(m, n) = ConnectResponse(m, ids, lengths)
  BY <1>1, <1>2 DEF Response
<1>6. ConnectResponse(m, ids, lengths)
        \in [type : {"connect_response"}, method : Encryptions, ids : Seq(Ids),
             lengths : [blocks : 0..255, response : Nat]]
  <2> HIDE DEF ids, lengths
  <2> QED BY <1>3, <1>4 DEF ConnectResponse
<1> QED BY <1>5, <1>6, SMTT(20) DEF OutputMessages

\* The answers of the proxy have a type.
LEMMA AnswersTyped ==
  /\ \A t \in {"connection_confirm", "license_error", "synchronize", "control_cooperate",
               "control_granted", "font_map"} : Message(t) \in OutputMessages
  /\ \A u \in Ids : AttachUserConfirm(u) \in OutputMessages
  /\ \A c \in Ids : ChannelJoinConfirm(c) \in OutputMessages
  /\ \A b \in Nat : DemandActive(b) \in OutputMessages
<1>1. \A t \in {"connection_confirm", "license_error", "synchronize", "control_cooperate",
                "control_granted", "font_map"} : Message(t) \in OutputMessages
  BY DEF Message, OutputMessages
<1>2. ASSUME NEW u \in Ids PROVE AttachUserConfirm(u) \in OutputMessages
  <2>1. AttachUserConfirm(u) \in [type : {"attach_user_confirm"}, user : Ids]
    BY DEF AttachUserConfirm
  <2> QED BY <2>1 DEF OutputMessages
<1>3. ASSUME NEW c \in Ids PROVE ChannelJoinConfirm(c) \in OutputMessages
  <2>1. ChannelJoinConfirm(c) \in [type : {"channel_join_confirm"}, channel : Ids]
    BY DEF ChannelJoinConfirm
  <2> QED BY <2>1 DEF OutputMessages
<1>4. ASSUME NEW b \in Nat PROVE DemandActive(b) \in OutputMessages
  <2>1. DemandActive(b) \in [type : {"demand_active"}, bpp : Nat]
    BY DEF DemandActive
  <2> QED BY <2>1 DEF OutputMessages
<1> QED BY <1>1, <1>2, <1>3, <1>4

\* What gives all of them their types: the client goes on from the connect response
\* only if the proxy has accepted its number of channels, so that the numbers given
\* out, which depend on it, are in their range.
TypesInv ==
  /\ wanted \in ChannelCounts
  /\ cpos > 4 => wanted <= MAX_CHANNELS_ALLOWED
  /\ user_channel_id \in Ids /\ joined <= channel_count + 2
  /\ c2p \in Seq(ClientMessages) /\ p2c \in Seq(OutputMessages)
  /\ learned.ids \in Seq(Ids) /\ learned.user \in Ids /\ learned.confirmed \in SUBSET Ids

\* At first all have their types.
LEMMA TypesInvInit == Init => TypesInv
<1> SUFFICES ASSUME Init PROVE TypesInv
  OBVIOUS
<1>1. PICK n \in ChannelCounts :
        learned = [channels |-> n, ids |-> [c \in 1..n |-> 0], user |-> 0,
                   method |-> "none", bpp |-> 0, confirmed |-> {}]
  BY DEF Init
<1>2. /\ wanted = n /\ learned.ids = [c \in 1..n |-> 0] /\ learned.user = 0
      /\ learned.confirmed = {}
  BY <1>1 DEF wanted
<1>3. n \in Nat /\ 0 \in Ids
  BY ChannelsAssumption DEF Ids, MCS_IO_CHANNEL_ID
<1>4. learned.ids \in Seq(Ids)
  <2>1. learned.ids \in [1..n -> Ids]
    BY <1>2, <1>3
  <2> QED BY <1>3, <2>1, SeqDef
<1>5. /\ cpos = 1 /\ user_channel_id = 0 /\ joined = 0 /\ channel_count = 0
      /\ c2p = <<>> /\ p2c = <<>>
  BY DEF Init
<1>6. c2p \in Seq(ClientMessages) /\ p2c \in Seq(OutputMessages)
  BY <1>5, EmptySeq
<1> QED BY <1>2, <1>3, <1>4, <1>5, <1>6 DEF TypesInv

\* A step of the proxy receives at most one message and sends at most one.
LEMMA ProxyTyped ==
  ASSUME TypesInv, UNCHANGED <<cpos, learned>>, UNCHANGED <<user_channel_id, joined, channel_count>>,
         c2p' = c2p \/ (c2p # <<>> /\ c2p' = Tail(c2p)),
         p2c' = p2c \/ \E m \in OutputMessages : p2c' = Put(clientOpen, p2c, <<m>>)
  PROVE  TypesInv'
<1>1. c2p' \in Seq(ClientMessages)
  BY TailTyped DEF TypesInv
<1>2. p2c' \in Seq(OutputMessages)
  BY PutTyped DEF TypesInv
<1> QED BY <1>1, <1>2 DEF TypesInv, wanted

\* Giving up changes two labels.
LEMMA GiveUpTyped == ASSUME TypesInv, NEW how, GiveUp(how) PROVE TypesInv'
  BY ProxyTyped DEF GiveUp, proxy, client

\* So does a send that fails.
LEMMA SendFailsTyped == ASSUME TypesInv, NEW open, SendFails(open) PROVE TypesInv'
  BY GiveUpTyped DEF SendFails

\* A message is taken away.
LEMMA ReceiveTyped == ASSUME TypesInv, NEW type, NEW label, Receive(type, label) PROVE TypesInv'
  BY ProxyTyped DEF Receive, Receives, proxy, client

\* A message is put behind the others.
LEMMA SendTyped ==
  ASSUME TypesInv, NEW m \in OutputMessages, NEW label, SendClient(m, label)
  PROVE  TypesInv'
  BY ProxyTyped DEF SendClient, proxy, client

\* Every step of the VNC handshake.
LEMMA VncTyped == ASSUME TypesInv, v2r_vnc_build_conn PROVE TypesInv'
<1>1. \A msgs, label : SendServer(msgs, label) => TypesInv'
  BY ProxyTyped, SendFailsTyped DEF SendServer, proxy, client
<1> QED BY <1>1, ProxyTyped, GiveUpTyped
        DEF v2r_vnc_build_conn, ReceiveProtocolVersion, SendProtocolVersion,
            ReceiveSecurityType, v2r_vnc_process_vnc_authentication, SendClientInit,
            v2r_vnc_recv_server_init, SendSetup, VncFails, proxy, client

\* Every step of the MCS connection.
LEMMA McsTyped == ASSUME ConversationInv, TypesInv, v2r_mcs_build_conn PROVE TypesInv'
<1>1. CASE v2r_x224_build_conn
  <2>1. Message("connection_confirm") \in OutputMessages
    BY AnswersTyped
  <2> QED BY <1>1, <2>1, ReceiveTyped, SendTyped, GiveUpTyped DEF v2r_x224_build_conn
<1>2. CASE v2r_mcs_recv_conn_init
  <2>1. /\ UNCHANGED <<cpos, learned, user_channel_id, joined, p2c>>
        /\ c2p # <<>> /\ c2p' = Tail(c2p) /\ channel_count' = Head(c2p).channels
        /\ pc = "connect_initial"
    BY <1>2 DEF v2r_mcs_recv_conn_init, Receives, client
  <2>2. joined = 0
    BY <2>1 DEF ConversationInv, PlaceInv, BeforeResponse
  <2>3. channel_count' \in Nat
    <3>1. LengthsInv'
      BY <1>2, ConnectInitialKeeps DEF ConversationInv
    <3> QED BY <3>1, ChannelsAssumption DEF LengthsInv
  <2>4. c2p' \in Seq(ClientMessages)
    BY <2>1, TailTyped DEF TypesInv
  <2> QED BY <2>1, <2>2, <2>3, <2>4 DEF TypesInv, wanted
<1>3. CASE v2r_mcs_send_conn_resp
  <2>1. Response(encryption, channel_count) \in OutputMessages
    BY ResponseTyped DEF ConversationInv, LengthsInv
  <2>2. \/ SendClient(Response(encryption, channel_count), "erect_domain_request")
        \/ GiveUp("killed")
    BY <1>3 DEF v2r_mcs_send_conn_resp, Response
  <2> QED BY <2>1, <2>2, SendTyped, GiveUpTyped
<1>4. CASE v2r_mcs_recv_erect_domain_req \/ v2r_mcs_recv_attach_user_request
  BY <1>4, ReceiveTyped DEF v2r_mcs_recv_erect_domain_req, v2r_mcs_recv_attach_user_request
<1>5. CASE v2r_mcs_send_attach_user_confirm
  <2>1. CASE SendFails(clientOpen)
    BY <2>1, SendFailsTyped
  <2>2. CASE /\ user_channel_id' = UserChannel(channel_count)
             /\ p2c' = Put(clientOpen, p2c,
                           <<AttachUserConfirm(user_channel_id' - MCS_BASE_CHANNEL_ID)>>)
             /\ UNCHANGED <<cpos, learned, channel_count, joined, c2p>>
    <3>1. channel_count \in 0..MAX_CHANNELS_ALLOWED
      BY DEF ConversationInv, LengthsInv
    <3>2. user_channel_id' \in Ids /\ user_channel_id' - MCS_BASE_CHANNEL_ID \in Ids
      BY <2>2, <3>1, IdsBounded
    <3>3. p2c' \in Seq(OutputMessages)
      BY <2>2, <3>2, AnswersTyped, PutTyped DEF TypesInv
    <3> QED BY <2>2, <3>2, <3>3 DEF TypesInv, wanted
  <2> QED BY <1>5, <2>1, <2>2 DEF v2r_mcs_send_attach_user_confirm, client
<1>6. CASE v2r_mcs_join_channel
  <2>1. CASE SendFails(clientOpen)
    BY <2>1, SendFailsTyped
  <2>2. CASE /\ c2p' = Tail(c2p)
             /\ p2c' = Put(clientOpen, p2c, <<ChannelJoinConfirm(ChannelToJoin)>>)
             /\ joined' = joined + 1
             /\ UNCHANGED <<cpos, learned, channel_count, user_channel_id>>
    <3>1. pc = "channel_join_request" /\ c2p # <<>>
      BY <1>6 DEF v2r_mcs_join_channel, Receives
    <3>2. /\ joined \in 0..wanted + 1 /\ ChannelToJoin = ChannelOf(Terms, joined)
          /\ channel_count = wanted
      BY <3>1, ToJoinIs
    <3>3. channel_count \in 0..MAX_CHANNELS_ALLOWED /\ channel_count \in Nat
      BY ChannelsAssumption DEF ConversationInv, LengthsInv
    <3>4. Terms.channels = channel_count
      BY <3>2, ConversationTypes
    <3>5. ChannelToJoin \in Ids
      BY <3>2, <3>3, <3>4, IdsBounded
    <3>6. p2c' \in Seq(OutputMessages)
      BY <2>2, <3>5, AnswersTyped, PutTyped DEF TypesInv
    <3>7. c2p' \in Seq(ClientMessages)
      BY <2>2, <3>1, TailTyped DEF TypesInv
    <3>8. joined' <= channel_count' + 2
      BY <2>2, <3>2, <3>3
    <3> QED BY <2>2, <3>6, <3>7, <3>8 DEF TypesInv, wanted
  <2> QED BY <1>6, <2>1, <2>2 DEF v2r_mcs_join_channel, client
<1> QED BY <1>1, <1>2, <1>3, <1>4, <1>5, <1>6 DEF v2r_mcs_build_conn

\* Every step of the RDP connection.
LEMMA RdpTyped == ASSUME ConversationInv, TypesInv, v2r_rdp_build_conn PROVE TypesInv'
<1>1. CASE v2r_mcs_build_conn
  BY <1>1, McsTyped
<1>2. \A label, m, next : Send(label, m, next) /\ m \in OutputMessages => TypesInv'
  BY SendTyped, SendFailsTyped DEF Send
<1>3. CASE v2r_rdp_send_demand_active
  <2>1. bpp \in Nat
    BY ConversationTypes
  <2>2. DemandActive(bpp) \in OutputMessages
    BY <2>1, AnswersTyped
  <2> QED BY <1>2, <1>3, <2>2 DEF v2r_rdp_send_demand_active
<1>4. CASE \/ v2r_rdp_send_license_error \/ v2r_rdp_send_synchronize
           \/ v2r_rdp_send_control_cooperate \/ v2r_rdp_send_control_grant_control
           \/ v2r_rdp_send_font_map
  <2>1. /\ Message("license_error") \in OutputMessages
        /\ Message("synchronize") \in OutputMessages
        /\ Message("control_cooperate") \in OutputMessages
        /\ Message("control_granted") \in OutputMessages
        /\ Message("font_map") \in OutputMessages
    BY AnswersTyped
  <2> QED BY <1>2, <1>4, <2>1
      DEF v2r_rdp_send_license_error, v2r_rdp_send_synchronize,
          v2r_rdp_send_control_cooperate, v2r_rdp_send_control_grant_control,
          v2r_rdp_send_font_map
<1>5. CASE \/ v2r_rdp_recv_client_info \/ v2r_rdp_recv_confirm_active
           \/ v2r_rdp_recv_synchronize \/ v2r_rdp_recv_control_cooperate
           \/ v2r_rdp_recv_control_request \/ v2r_rdp_recv_font_list
  BY <1>5, ReceiveTyped
     DEF v2r_rdp_recv_client_info, v2r_rdp_recv_confirm_active, v2r_rdp_recv_synchronize,
         v2r_rdp_recv_control_cooperate, v2r_rdp_recv_control_request,
         v2r_rdp_recv_font_list
<1>6. CASE RdpFails
  BY <1>6, GiveUpTyped DEF RdpFails
<1> QED BY <1>1, <1>3, <1>4, <1>5, <1>6 DEF v2r_rdp_build_conn

\* What the client learns of a message.
LEMMA LearnBounded ==
  ASSUME learned \in Learned, TypesInv, NEW m \in OutputMessages
  PROVE  /\ Learn(m).user \in Ids /\ Learn(m).confirmed \in SUBSET Ids
         /\ m.type # "connect_response" => Learn(m).ids = learned.ids
<1>1. learned.user \in Ids /\ learned.confirmed \in SUBSET Ids
  BY DEF TypesInv
<1>2. CASE m.type = "connect_response"
  <2>1. PICK l \in Learned : l = learned
    OBVIOUS
  <2>2. Learn(m) = [l EXCEPT !.method = m.method, !.ids = SubSeq(m.ids, 1, l.channels)]
    BY <1>2, <2>1 DEF Learn
  <2>3. Learn(m).user = l.user /\ Learn(m).confirmed = l.confirmed
    BY <2>2 DEF Learned
  <2> QED BY <1>1, <1>2, <2>1, <2>3
<1>3. CASE m.type = "attach_user_confirm"
  <2>1. m.user \in Ids
    BY <1>3 DEF OutputMessages
  <2>2. Learn(m) = [learned EXCEPT !.user = m.user]
    BY <1>3 DEF Learn
  <2> QED BY <1>1, <2>1, <2>2 DEF Learned
<1>4. CASE m.type = "channel_join_confirm"
  <2>1. m.channel \in Ids
    BY <1>4 DEF OutputMessages
  <2>2. PICK c : c = learned.confirmed \cup {m.channel}
    OBVIOUS
  <2>3. Learn(m) = [learned EXCEPT !.confirmed = c]
    BY <1>4, <2>2 DEF Learn
  <2>4. c \in SUBSET Ids
    BY <1>1, <2>1, <2>2
  <2> QED BY <1>1, <2>3, <2>4 DEF Learned
<1>5. CASE m.type = "demand_active"
  <2>1. Learn(m) = [learned EXCEPT !.bpp = m.bpp]
    BY <1>5 DEF Learn
  <2> QED BY <1>1, <2>1 DEF Learned
<1>6. CASE m.type \notin {"connect_response", "attach_user_confirm", "channel_join_confirm",
                         "demand_active"}
  <2>1. Learn(m) = learned
    BY <1>6, Zenon DEF Learn
  <2> QED BY <1>1, <2>1
<1> QED BY <1>2, <1>3, <1>4, <1>5, <1>6

\* The client goes one step on.
LEMMA ClientStepTyped ==
  ASSUME ScriptInv, ConversationInv', TypesInv, ClientStep PROVE TypesInv'
<1>1. ConversationInv /\ LengthsInv /\ learned \in Learned
  BY DEF ScriptInv, ConversationInv, LengthsInv
<1>2. PICK d : d = Terms
  OBVIOUS
<1>3. d.channels = wanted /\ wanted \in Nat /\ wanted \in ChannelCounts
  BY <1>1, <1>2, ConversationTypes DEF TypesInv
<1>4. PICK q \in Nat : q = cpos - 1 /\ q + 1 = cpos
  BY <1>1, ConversationTypes
<1>5. Knows(d, q, learned)
  BY <1>1, <1>2, <1>4 DEF ConversationInv
<1>6. q + 1 <= Len(ClientScript)
  <2>1. Len(ClientScript) \in Nat /\ ~(cpos > Len(ClientScript))
    BY <1>1, <1>3, ScriptLength DEF ClientStep, ClientActive
  <2> QED BY <1>4, <2>1
<1>7. ClientScript[cpos] = Item(d, q + 1) /\ q + 1 <= Items(d)
  <2>1. /\ Len(ClientScript) = LastJoinAt(d) + (IF learned.method = "none" THEN 12 ELSE 13)
        /\ ClientScript[q + 1] = Item(d, q + 1)
    BY <1>3, <1>5, <1>6, ScriptAt
  <2>2. q + 1 <= Items(d)
    <3>1. PICK n \in Nat : n = LastJoinAt(d) /\ n > 7
      BY <1>3 DEF LastJoinAt
    <3>2. q + 1 <= n + (IF learned.method = "none" THEN 12 ELSE 13)
      BY <1>6, <2>1, <3>1
    <3>3. CASE q < 4
      BY <3>1, <3>3 DEF Items
    <3>4. CASE q >= 4
      <4>1. learned.method = d.method
        BY <1>5, <3>4 DEF Knows
      <4> QED BY <3>1, <3>2, <4>1 DEF Items
    <3> QED BY <3>3, <3>4
  <2> QED BY <1>4, <2>1, <2>2
<1>8. /\ cpos' = cpos + 1
      /\ UNCHANGED <<encryption, bpp, user_channel_id, joined, channel_count>>
  BY DEF ClientStep, proxy
<1>9. CASE /\ ClientScript[cpos].does = "say"
           /\ c2p' = Append(c2p, ClientScript[cpos].msg)
           /\ UNCHANGED <<p2c, learned>>
  <2>1. q + 1 > 4 => d.channels <= MAX_CHANNELS_ALLOWED
    BY <1>3, <1>4 DEF TypesInv
  <2>2. Item(d, q + 1).msg \in ClientMessages
    BY <1>3, <1>7, <1>9, <2>1, SaysTyped
  <2>3. c2p' \in Seq(ClientMessages)
    BY <1>7, <1>9, <2>2, AppendProperties DEF TypesInv
  <2>4. q # 3
    <3>1. ASSUME q = 3 PROVE FALSE
      <4>1. q + 1 = 4
        BY <3>1
      <4>2. ClientScript[cpos] = Hears("connect_response")
        BY <1>7, <4>1, OpeningItems
      <4> QED BY <1>9, <4>2 DEF Hears
    <3> QED BY <3>1
  <2>5. cpos' > 4 => wanted <= MAX_CHANNELS_ALLOWED
    BY <1>4, <1>8, <2>4 DEF TypesInv
  <2> QED BY <1>8, <1>9, <2>3, <2>5 DEF TypesInv, wanted
<1>10. CASE /\ p2c # <<>> /\ Head(p2c).type = ClientScript[cpos].type
            /\ ClientScript[cpos].does = "hear"
            /\ p2c' = Tail(p2c) /\ learned' = Learn(Head(p2c))
            /\ UNCHANGED c2p
  <2>1. PICK m : m = Head(p2c) /\ m \in OutputMessages /\ m \in ToClient(wanted)
    <3>1. Head(p2c) \in ToClient(wanted)
      BY <1>1, <1>10, TailTyped DEF LengthsInv
    <3>2. Head(p2c) \in OutputMessages
      BY <1>10, TailTyped DEF TypesInv
    <3> QED BY <3>1, <3>2
  <2>2. p2c' \in Seq(OutputMessages)
    BY <1>10, TailTyped DEF TypesInv
  <2>3. learned'.user \in Ids /\ learned'.confirmed \in SUBSET Ids
    BY <1>1, <1>10, <2>1, LearnBounded
  <2>4. wanted' = wanted
    BY <1>1, <1>10, <2>1, LearnTyped DEF wanted
  <2>5. cpos' > 4 => wanted <= MAX_CHANNELS_ALLOWED
    <3>1. CASE q = 3
      <4>1. ClientScript[cpos] = Hears("connect_response")
        BY <1>7, <3>1, OpeningItems
      <4>2. m.type = "connect_response"
        BY <1>10, <2>1, <4>1 DEF Hears
      <4>3. wanted \in 0..MAX_CHANNELS_ALLOWED
        BY <2>1, <4>2 DEF ToClient, Response, ConnectResponse
      <4> QED BY <4>3, ChannelsAssumption
    <3>2. CASE q # 3
      BY <1>4, <1>8, <3>2 DEF TypesInv
    <3> QED BY <3>1, <3>2
  <2>6. learned'.ids \in Seq(Ids)
    <3>1. CASE cpos' > 4
      <4>1. Knows(Terms', cpos' - 1, learned')
        BY DEF ConversationInv
      <4>2. Terms'.channels = wanted
        BY <2>4 DEF Terms
      <4>3. cpos' - 1 >= 4
        BY <1>4, <1>8, <3>1
      <4>4. learned'.ids = [i \in 1..wanted |-> MCS_IO_CHANNEL_ID + i]
        BY <4>1, <4>2, <4>3 DEF Knows
      <4>5. wanted \in 0..MAX_CHANNELS_ALLOWED
        BY <1>3, <2>5, <3>1, ChannelsAssumption
      <4>6. \A i \in 1..wanted : MCS_IO_CHANNEL_ID + i \in Ids
        BY <4>5, IdsBounded
      <4>7. learned'.ids \in [1..wanted -> Ids]
        BY <4>4, <4>6
      <4> QED BY <1>3, <4>7, SeqDef
    <3>2. CASE ~(cpos' > 4)
      <4>1. q = 0 \/ q = 1 \/ q = 2
        BY <1>4, <1>8, <3>2
      <4>2. Item(d, q + 1) \in {Says(Message("connection_request")),
                                Hears("connection_confirm"), Says(ConnectInitial(d.channels))}
        BY <4>1, OpeningItems
      <4>3. ClientScript[cpos] = Hears("connection_confirm")
        BY <1>7, <1>10, <4>2 DEF Says
      <4>4. m.type = "connection_confirm"
        BY <1>10, <2>1, <4>3 DEF Hears
      <4>5. learned'.ids = learned.ids
        BY <1>1, <1>10, <2>1, <4>4, LearnBounded
      <4> QED BY <4>5 DEF TypesInv
    <3> QED BY <3>1, <3>2
  <2> QED BY <1>8, <1>10, <2>2, <2>3, <2>4, <2>5, <2>6 DEF TypesInv
<1> QED BY <1>9, <1>10 DEF ClientStep

\* Every step.
LEMMA TypesInvInductive ==
  ScriptInv /\ ConversationInv' /\ TypesInv /\ [Next]_vars => TypesInv'
<1> SUFFICES ASSUME ScriptInv, ConversationInv', TypesInv, [Next]_vars PROVE TypesInv'
  OBVIOUS
<1>0. ConversationInv
  BY DEF ScriptInv
<1>1. CASE v2r_session_build_conn
  BY <1>0, <1>1, VncTyped, RdpTyped DEF v2r_session_build_conn
<1>2. CASE Interrupted
  BY <1>2, GiveUpTyped DEF Interrupted
<1>3. CASE ClientStep
  BY <1>3, ClientStepTyped
<1>4. CASE ClientCloses
  <2>1. PICK n \in 0..Len(c2p) : c2p' = SubSeq(c2p, 1, n)
    BY <1>4 DEF ClientCloses
  <2>2. c2p' \in Seq(ClientMessages)
    BY <2>1, PrefixTyped DEF TypesInv
  <2>3. p2c' \in Seq(OutputMessages)
    BY <1>4, EmptySeq DEF ClientCloses
  <2> QED BY <1>4, <2>2, <2>3 DEF ClientCloses, proxy, TypesInv, wanted
<1>5. CASE \/ ServerStep \/ ServerReads \/ ServerUpdates \/ ServerTurnsAway
           \/ ServerCloses \/ Arrive \/ UNCHANGED vars
  BY <1>5, ProxyTyped DEF ServerStep, ServerReads, ServerUpdates, ServerTurnsAway,
     ServerCloses, Arrive, proxy, client, vars
<1> QED BY <1>1, <1>2, <1>3, <1>4, <1>5 DEF Next, Environs

\* The three invariants give the types of all variables.
LEMMA InvGivesTypes == ScriptInv /\ ServerInv /\ TypesInv => TypeOK
<1> SUFFICES ASSUME ScriptInv, ServerInv, TypesInv PROVE TypeOK
  OBVIOUS
<1>1. ConversationInv /\ LengthsInv
  BY DEF ScriptInv, ConversationInv
<1>2. pc \in Labels
  BY <1>1 DEF ConversationInv, PlaceInv, Labels, FromServer, FromClient, DataTypes, VncLabels,
     BeforeResponse, BeforeJoins, AfterJoins
<1>3. format \in Formats \cup {NoFormat}
  BY DEF ServerInv, ServerTypes, Told, Formats
<1>4. bpp \in {0, 8, 15, 16, 32}
  BY DEF ServerInv, ServerTypes, BppOf
<1>5. joined \in 0..channel_count + 2
  BY <1>1, ChannelsAssumption DEF LengthsInv, TypesInv
<1>6. cpos \in 1..Len(ClientScript) + 1
  <2>1. Len(ClientScript) \in Nat
    BY <1>1, ConversationTypes, ScriptLength
  <2> QED BY <1>1, <2>1 DEF ScriptInv, LengthsInv
<1>7. spos \in 1..Len(ServerScript) + 1
  BY ServerScriptIs DEF ServerInv, ServerTypes
<1>8. learned \in [channels : ChannelCounts, ids : Seq(Ids), user : Ids, bpp : Nat,
                   method : Encryptions \cup {"none"}, confirmed : SUBSET Ids]
  BY <1>1 DEF LengthsInv, Learned, TypesInv, wanted
<1>9. clientOpen \in BOOLEAN
  BY <1>1 DEF ConversationInv
<1> QED BY <1>1, <1>2, <1>3, <1>4, <1>5, <1>6, <1>7, <1>8, <1>9
    DEF TypeOK, LengthsInv, TypesInv, ServerInv, ServerTypes

\* Every variable has its type in every state, for every set of constants: the ids stay
\* within the channels the proxy accepts, and nobody leaves its script.
THEOREM HandshakeTypes == Spec => []TypeOK
<1>1. TypesInv /\ ScriptInv /\ ScriptInv' /\ [Next]_vars => TypesInv'
  BY TypesInvInductive DEF ScriptInv
<1> QED BY <1>1, InvGivesTypes, TypesInvInit, ScriptInvAlways, ServerInvAlways, PTL DEF Spec
=============================================================================
