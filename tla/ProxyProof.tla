----------------------------- MODULE ProxyProof -----------------------------
(***************************************************************************)
(* Proofs about Proxy: what may follow SIGINT, which descriptors are open  *)
(* between sessions, what the options mean, and the types, for any command *)
(* line, any number of clients and any number of descriptors.              *)
(***************************************************************************)
EXTENDS Proxy, SequenceTheorems, FiniteSetTheorems, TLAPS

(***************************************************************************)
(* SIGINT.  Once a client was accepted late, the process does not come     *)
(* back to accept(): the test of g_process is on every way there.          *)
(***************************************************************************)
LateInv ==
  /\ late \in {0, 1} /\ (g_process => late = 0)
  /\ late = 1 => pc \in Stages \cup Over \cup {"test"}

\* Every step keeps it.
LEMMA LateInvInductive == LateInv /\ [Next]_vars => LateInv'
<1> SUFFICES ASSUME LateInv, [Next]_vars PROVE LateInv'
  OBVIOUS
<1> USE DEF LateInv
<1>1. CASE Command
  BY <1>1 DEF Command, ReadOptions, TakeOption, CheckOptions, Taken, Usage, process,
     Stages, Over
<1>2. CASE SetUp
  BY <1>2 DEF SetUp, Stages, Over
<1>3. CASE Test
  BY <1>3 DEF Test, Stages, Over
<1>4. CASE Accept
  BY <1>4 DEF Accept, AcceptFailed, Stages, Over
<1>5. CASE ServerSocket
  BY <1>5 DEF ServerSocket, Advance, v2r_session_destory, Stages, Over
<1>6. CASE Connect
  BY <1>6 DEF Connect, Advance, v2r_session_destory, Stages, Over
<1>7. CASE Handshakes
  BY <1>7 DEF Handshakes, Advance, v2r_session_destory, Stages, Over
<1>8. CASE SessionEnds
  BY <1>8 DEF SessionEnds, v2r_session_destory, Stages, Over
<1>9. CASE Killed
  BY <1>9 DEF Killed, Stages, Over
<1>10. CASE Sigint
  BY <1>10 DEF Sigint, AcceptFailed, Stages, Over
<1>11. CASE ClientComes \/ PeerCloses
  BY <1>11 DEF ClientComes, PeerCloses
<1>12. CASE UNCHANGED vars
  BY <1>12 DEF vars, process
<1> QED BY <1>1, <1>2, <1>3, <1>4, <1>5, <1>6, <1>7, <1>8, <1>9, <1>10, <1>11, <1>12 DEF Next

\* At most one client is accepted after SIGINT, wherever the signal came.
THEOREM AtMostOneLate == Spec => []OneLateClient
<1>1. Init => LateInv
  <2>1. Init => late = 0
    BY DEF Init
  <2> QED BY <2>1 DEF LateInv
<1>2. LateInv => OneLateClient
  BY DEF LateInv, OneLateClient
<1> QED BY <1>1, <1>2, LateInvInductive, PTL DEF Spec

(***************************************************************************)
(* Descriptors.                                                            *)
(***************************************************************************)
\* The numbers of clients: those whose session is over, the one served, those queued.
Past == arrived - Len(backlog)
ClientsInv ==
  /\ arrived \in Nat /\ backlog \in Seq(Nat) /\ Len(backlog) <= arrived
  /\ \A i \in 1..Len(backlog) : backlog[i] = Past + i
  /\ \A n \in DOMAIN gaveUp : n \in 1..Past /\ gaveUp[n] \in Stages
  /\ pc \in Stages => current = Past /\ Past # 0 /\ Past \notin DOMAIN gaveUp
  /\ pc \in {"options", "setup"} => DOMAIN gaveUp = {}

\* What the session under way has open.
Mine ==
  (IF pc \in Stages THEN {<<"client", current>>} ELSE {})
  \cup (IF pc \in Stages \ {"socket"} THEN {<<"server", current>>} ELSE {})
  \cup (IF pc = "transmit" THEN {<<"epoll", current>>} ELSE {})

Looping == pc \in Stages \cup {"test", "accept", "waiting"}
FdInv == ClientsInv /\ (Looping => open = {Listening} \cup Abandoned \cup Mine)

\* The first of the queue was never served.
LEMMA Queued ==
  ASSUME ClientsInv, backlog # <<>>
  PROVE  /\ Head(backlog) = Past + 1 /\ Tail(backlog) \in Seq(Nat)
         /\ Len(Tail(backlog)) = Len(backlog) - 1 /\ Len(backlog) \in Nat \ {0}
         /\ \A i \in 1..Len(Tail(backlog)) : Tail(backlog)[i] = backlog[i + 1]
<1>1. backlog \in Seq(Nat) /\ arrived \in Nat
  BY DEF ClientsInv
<1>2. Len(backlog) \in Nat \ {0} /\ Head(backlog) = backlog[1]
  BY <1>1, EmptySeq, LenProperties, HeadTailProperties
<1>3. /\ Tail(backlog) \in Seq(Nat) /\ Len(Tail(backlog)) = Len(backlog) - 1
      /\ \A i \in 1..Len(Tail(backlog)) : Tail(backlog)[i] = backlog[i + 1]
  BY <1>1, HeadTailProperties
<1>4. backlog[1] = Past + 1
  BY <1>2 DEF ClientsInv
<1> QED BY <1>2, <1>3, <1>4

\* The end of a session: what it leaves open is what its end adds to the abandoned.
LEMMA DestroyKeeps ==
  ASSUME FdInv, pc \in Stages, v2r_session_destory PROVE FdInv'
<1>1. /\ open' = open \ Closes(pc, current) /\ pc' = "test"
      /\ gaveUp' = [n \in DOMAIN gaveUp \cup {current} |->
                      IF n = current THEN pc ELSE gaveUp[n]]
      /\ backlog' = backlog /\ arrived' = arrived /\ Past' = Past
  BY DEF v2r_session_destory, Past
<1>2. /\ current = Past /\ current \notin DOMAIN gaveUp /\ current \in 1..Past
      /\ Past' = Past
  BY <1>1, LenProperties DEF FdInv, ClientsInv, Past
<1>3. ClientsInv'
  BY <1>1, <1>2 DEF FdInv, ClientsInv, Stages
<1>4. DOMAIN gaveUp' = DOMAIN gaveUp \cup {current} /\ gaveUp'[current] = pc
      /\ \A n \in DOMAIN gaveUp : gaveUp'[n] = gaveUp[n]
  BY <1>1, <1>2
<1>5. Abandoned' = Abandoned
        \cup (IF pc \in {"socket", "connect", "vnc"} THEN {<<"client", current>>} ELSE {})
        \cup (IF pc = "connect" THEN {<<"server", current>>} ELSE {})
  <2>1. {n \in DOMAIN gaveUp' : gaveUp'[n] \in {"socket", "connect", "vnc"}} =
          {n \in DOMAIN gaveUp : gaveUp[n] \in {"socket", "connect", "vnc"}}
          \cup (IF pc \in {"socket", "connect", "vnc"} THEN {current} ELSE {})
    BY <1>2, <1>4
  <2>2. {n \in DOMAIN gaveUp' : gaveUp'[n] = "connect"} =
          {n \in DOMAIN gaveUp : gaveUp[n] = "connect"}
          \cup (IF pc = "connect" THEN {current} ELSE {})
    BY <1>2, <1>4
  <2> QED BY <2>1, <2>2 DEF Abandoned
<1>6. /\ <<"client", current>> \notin Abandoned /\ <<"server", current>> \notin Abandoned
      /\ <<"epoll", current>> \notin Abandoned
      /\ <<"client", current>> # Listening /\ <<"server", current>> # Listening
      /\ <<"epoll", current>> # Listening
  BY <1>2 DEF Abandoned, Listening
<1>7. open = {Listening} \cup Abandoned \cup Mine
  BY DEF FdInv, Looping
<1>8. Mine' = {} /\ Listening' = Listening
  BY <1>1 DEF Mine, Stages, Listening
<1>9. open' = {Listening} \cup Abandoned'
  <2> USE <1>1, <1>5, <1>6, <1>7 DEF Closes, Mine, Stages
  <2>1. CASE pc = "socket"
    BY <2>1
  <2>2. CASE pc = "connect"
    BY <2>2
  <2>3. CASE pc = "vnc"
    BY <2>3
  <2>4. CASE pc = "rdp"
    BY <2>4
  <2>5. CASE pc = "transmit"
    BY <2>5
  <2> QED BY <2>1, <2>2, <2>3, <2>4, <2>5
<1> QED BY <1>3, <1>8, <1>9 DEF FdInv

\* A session that goes on keeps what it has, and may open one more.
LEMMA AdvanceKeeps ==
  ASSUME FdInv, NEW from, NEW to, Advance(from, to),
         from \in Stages, to \in Stages, open' = {Listening} \cup Abandoned \cup Mine'
  PROVE  FdInv'
<1>1. UNCHANGED <<backlog, arrived, current, gaveUp>> /\ pc = from /\ pc' = to
  BY DEF Advance
<1>2. Abandoned' = Abandoned /\ Past' = Past /\ Listening' = Listening
  BY <1>1 DEF Abandoned, Past, Listening
<1>3. ClientsInv'
  BY <1>1, <1>2 DEF FdInv, ClientsInv, Stages
<1> QED BY <1>2, <1>3 DEF FdInv

\* A step that changes neither the descriptors nor the clients, and stays where it is
\* or outside the sessions.
LEMMA FdStays ==
  ASSUME FdInv, UNCHANGED <<backlog, arrived, current, gaveUp>>,
         \/ pc' = pc /\ open' = open
         \/ pc \notin Stages /\ pc' \notin Stages
            /\ (Looping' => Looping /\ open' = open)
            /\ (pc' \in {"options", "setup"} => pc \in {"options", "setup"})
  PROVE  FdInv'
<1>1. Abandoned' = Abandoned /\ Past' = Past /\ Listening' = Listening
  BY DEF Abandoned, Past, Listening
<1>2. ClientsInv'
  BY <1>1 DEF FdInv, ClientsInv
<1>3. Looping' => open' = {Listening} \cup Abandoned' \cup Mine'
  <2>1. CASE pc' = pc /\ open' = open
    BY <2>1, <1>1 DEF FdInv, Looping, Mine
  <2>2. CASE pc \notin Stages /\ pc' \notin Stages
             /\ (Looping' => Looping /\ open' = open)
    <3>1. Mine = {} /\ Mine' = {}
      BY <2>2 DEF Mine, Stages
    <3> QED BY <2>2, <3>1, <1>1 DEF FdInv
  <2> QED BY <2>1, <2>2
<1> QED BY <1>2, <1>3 DEF FdInv

\* The next client gets a descriptor that was free.
LEMMA AcceptKeeps == ASSUME FdInv, Accept PROVE FdInv'
<1>1. CASE pc' \in {"test", "waiting"}
  <2>1. UNCHANGED <<backlog, arrived, current, gaveUp, open>>
        /\ pc \in {"accept", "waiting"}
    BY <1>1 DEF Accept, AcceptFailed
  <2> QED BY <1>1, <2>1, FdStays DEF Looping, Stages
<1>2. CASE backlog # <<>> /\ current' = Head(backlog) /\ backlog' = Tail(backlog)
           /\ open' = open \cup {<<"client", Head(backlog)>>} /\ pc' = "socket"
  <2>1. arrived' = arrived /\ gaveUp' = gaveUp /\ pc \in {"accept", "waiting"}
    BY DEF Accept
  <2>2. /\ Head(backlog) = Past + 1 /\ Tail(backlog) \in Seq(Nat)
        /\ Len(Tail(backlog)) = Len(backlog) - 1 /\ Len(backlog) \in Nat \ {0}
        /\ \A i \in 1..Len(Tail(backlog)) : Tail(backlog)[i] = backlog[i + 1]
    BY <1>2, Queued DEF FdInv
  <2>3. Past' = Past + 1 /\ Past \in Nat
    <3>1. arrived \in Nat /\ Len(backlog) <= arrived /\ Len(backlog) \in Nat
      BY <2>2 DEF FdInv, ClientsInv
    <3>2. Len(backlog') = Len(backlog) - 1
      BY <1>2, <2>2
    <3> QED BY <3>1, <3>2, <2>1 DEF Past
  <2>4. ClientsInv'
    <3>1. arrived' \in Nat /\ backlog' \in Seq(Nat) /\ Len(backlog') <= arrived'
      BY <1>2, <2>1, <2>2 DEF FdInv, ClientsInv
    <3>2. \A i \in 1..Len(backlog') : backlog'[i] = Past' + i
      <4> SUFFICES ASSUME NEW i \in 1..Len(backlog') PROVE backlog'[i] = Past' + i
        OBVIOUS
      <4>1. i + 1 \in 1..Len(backlog) /\ backlog'[i] = backlog[i + 1]
        BY <1>2, <2>2
      <4> QED BY <4>1, <2>3 DEF FdInv, ClientsInv
    <3>3. \A n \in DOMAIN gaveUp' : n \in 1..Past' /\ gaveUp'[n] \in Stages
      BY <2>1, <2>3 DEF FdInv, ClientsInv
    <3>4. current' = Past' /\ Past' # 0 /\ Past' \notin DOMAIN gaveUp'
      BY <1>2, <2>1, <2>2, <2>3 DEF FdInv, ClientsInv
    <3> QED BY <1>2, <3>1, <3>2, <3>3, <3>4 DEF ClientsInv
  <2>5. open = {Listening} \cup Abandoned
    BY <2>1 DEF FdInv, Looping, Mine, Stages
  <2>6. Mine' = {<<"client", Head(backlog)>>}
    BY <1>2 DEF Mine, Stages
  <2>7. Abandoned' = Abandoned /\ Listening' = Listening
    BY <2>1 DEF Abandoned, Listening
  <2> QED BY <1>2, <2>4, <2>5, <2>6, <2>7 DEF FdInv
<1> QED BY <1>1, <1>2 DEF Accept, AcceptFailed

\* Another client comes to the end of the queue.
LEMMA ComesKeeps == ASSUME FdInv, ClientComes PROVE FdInv'
<1>1. /\ arrived' = arrived + 1 /\ backlog' = Append(backlog, arrived + 1)
      /\ UNCHANGED <<pc, current, open, gaveUp>>
  BY DEF ClientComes
<1>2. arrived \in Nat /\ backlog \in Seq(Nat)
  BY DEF FdInv, ClientsInv
<1>3. /\ backlog' \in Seq(Nat) /\ Len(backlog') = Len(backlog) + 1
      /\ \A i \in 1..Len(backlog) : backlog'[i] = backlog[i]
      /\ backlog'[Len(backlog) + 1] = arrived + 1 /\ Len(backlog) \in Nat
  BY <1>1, <1>2, AppendProperties, LenProperties
<1>4. Past' = Past
  BY <1>1, <1>2, <1>3 DEF Past
<1>5. \A i \in 1..Len(backlog') : backlog'[i] = Past' + i
  <2> SUFFICES ASSUME NEW i \in 1..Len(backlog') PROVE backlog'[i] = Past' + i
    OBVIOUS
  <2>1. CASE i \in 1..Len(backlog)
    BY <2>1, <1>3, <1>4 DEF FdInv, ClientsInv
  <2>2. CASE i = Len(backlog) + 1
    BY <2>2, <1>2, <1>3, <1>4 DEF Past
  <2> QED BY <2>1, <2>2, <1>3
<1>6. ClientsInv'
  BY <1>1, <1>2, <1>3, <1>4, <1>5 DEF FdInv, ClientsInv
<1>7. Abandoned' = Abandoned /\ Mine' = Mine /\ Listening' = Listening
  BY <1>1 DEF Abandoned, Mine, Listening
<1> QED BY <1>1, <1>6, <1>7 DEF FdInv, Looping

\* Every step keeps it.
LEMMA FdInvInductive == FdInv /\ [Next]_vars => FdInv'
<1> SUFFICES ASSUME FdInv, [Next]_vars PROVE FdInv'
  OBVIOUS
<1>1. CASE Command
  <2>1. UNCHANGED <<backlog, arrived, current, gaveUp>> /\ pc \notin Stages
        /\ pc' \notin Stages /\ ~Looping' /\ pc = "options"
    BY <1>1 DEF Command, ReadOptions, TakeOption, CheckOptions, Taken, Usage, process,
       Stages, Looping
  <2> QED BY <2>1, FdStays
<1>2. CASE SetUp
  <2>1. UNCHANGED <<backlog, arrived, current, gaveUp>> /\ pc = "setup"
    BY <1>2 DEF SetUp
  <2>2. CASE pc' = "exited"
    BY <2>1, <2>2, FdStays DEF Stages, Looping
  <2>3. CASE pc' = "test" /\ open' = {Listening}
    <3>1. DOMAIN gaveUp = {} /\ Past' = Past /\ Listening' = Listening
      BY <2>1 DEF FdInv, ClientsInv, Past, Listening
    <3>2. Abandoned' = {} /\ Mine' = {}
      BY <2>1, <2>3, <3>1 DEF Abandoned, Mine, Stages
    <3> QED BY <2>1, <2>3, <3>1, <3>2 DEF FdInv, ClientsInv, Stages
  <2> QED BY <1>2, <2>2, <2>3 DEF SetUp
<1>3. CASE Test
  <2>1. UNCHANGED <<backlog, arrived, current, gaveUp>> /\ pc = "test"
        /\ ((pc' = "accept" /\ open' = open) \/ pc' = "stopped")
    BY <1>3 DEF Test
  <2> QED BY <2>1, FdStays DEF Stages, Looping
<1>4. CASE Accept
  BY <1>4, AcceptKeeps
<1>5. CASE ServerSocket
  <2>1. CASE Advance("socket", "connect") /\ open' = open \cup {<<"server", current>>}
    <3>1. pc = "socket" /\ pc' = "connect" /\ current' = current
      BY <2>1 DEF Advance
    <3>2. open' = {Listening} \cup Abandoned \cup Mine'
      BY <2>1, <3>1 DEF FdInv, Looping, Mine, Stages
    <3> QED BY <2>1, <3>2, AdvanceKeeps DEF Stages
  <2>2. CASE pc = "socket" /\ v2r_session_destory
    BY <2>2, DestroyKeeps DEF Stages
  <2> QED BY <1>5, <2>1, <2>2 DEF ServerSocket
<1>6. CASE Connect
  <2>1. CASE Advance("connect", "vnc") /\ UNCHANGED open
    <3>1. pc = "connect" /\ pc' = "vnc" /\ current' = current
      BY <2>1 DEF Advance
    <3>2. open' = {Listening} \cup Abandoned \cup Mine'
      BY <2>1, <3>1 DEF FdInv, Looping, Mine, Stages
    <3> QED BY <2>1, <3>2, AdvanceKeeps DEF Stages
  <2>2. CASE pc = "connect" /\ v2r_session_destory
    BY <2>2, DestroyKeeps DEF Stages
  <2> QED BY <1>6, <2>1, <2>2 DEF Connect
<1>7. CASE Handshakes
  <2>1. CASE Advance("vnc", "rdp") /\ UNCHANGED open
    <3>1. pc = "vnc" /\ pc' = "rdp" /\ current' = current
      BY <2>1 DEF Advance
    <3>2. open' = {Listening} \cup Abandoned \cup Mine'
      BY <2>1, <3>1 DEF FdInv, Looping, Mine, Stages
    <3> QED BY <2>1, <3>2, AdvanceKeeps DEF Stages
  <2>2. CASE Advance("rdp", "transmit") /\ open' = open \cup {<<"epoll", current>>}
    <3>1. pc = "rdp" /\ pc' = "transmit" /\ current' = current
      BY <2>2 DEF Advance
    <3>2. open' = {Listening} \cup Abandoned \cup Mine'
      BY <2>2, <3>1 DEF FdInv, Looping, Mine, Stages
    <3> QED BY <2>2, <3>2, AdvanceKeeps DEF Stages
  <2>3. CASE pc \in {"vnc", "rdp"} /\ v2r_session_destory
    BY <2>3, DestroyKeeps DEF Stages
  <2> QED BY <1>7, <2>1, <2>2, <2>3 DEF Handshakes
<1>8. CASE SessionEnds
  BY <1>8, DestroyKeeps DEF SessionEnds, Stages
<1>9. CASE Killed
  <2>1. UNCHANGED <<backlog, arrived, current, gaveUp>> /\ pc' = "killed"
    BY <1>9 DEF Killed
  <2>2. Past' = Past
    BY <2>1 DEF Past
  <2> QED BY <2>1, <2>2 DEF FdInv, ClientsInv, Stages, Looping
<1>10. CASE Sigint
  BY <1>10, FdStays DEF Sigint, AcceptFailed, Stages, Looping
<1>11. CASE ClientComes
  BY <1>11, ComesKeeps
<1>12. CASE PeerCloses
  BY <1>12, FdStays DEF PeerCloses
<1>13. CASE UNCHANGED vars
  BY <1>13, FdStays DEF vars, process
<1> QED BY <1>1, <1>2, <1>3, <1>4, <1>5, <1>6, <1>7, <1>8, <1>9, <1>10, <1>11, <1>12, <1>13
    DEF Next

\* At first nothing is open.
LEMMA FdInvInit == Init => FdInv
<1> SUFFICES ASSUME Init PROVE FdInv
  OBVIOUS
<1>1. pc = "options" /\ arrived = 0 /\ backlog = <<>> /\ DOMAIN gaveUp = {}
  <2>1. pc = "options"
    BY DEF Init, OptionsInit
  <2>2. arrived = 0 /\ backlog = <<>> /\ gaveUp = [n \in {} |-> ""]
    BY DEF Init
  <2> QED BY <2>1, <2>2
<1>2. ClientsInv
  BY <1>1 DEF ClientsInv, Past, Stages
<1> QED BY <1>1, <1>2 DEF FdInv, Looping, Stages

\* Between sessions nothing is open besides the listening socket and what sessions left
\* that failed before the client was handed over, however many there were.
THEOREM OnlyAbandonedLeft == Spec => []NothingElseLeft
<1>1. FdInv => NothingElseLeft
  BY DEF FdInv, NothingElseLeft, Looping, Mine, Stages
<1> QED BY <1>1, FdInvInit, FdInvInductive, PTL DEF Spec

(***************************************************************************)
(* The command line.  While the options are taken, each setting is that of *)
(* the last of those taken so far that says something of it.               *)
(***************************************************************************)
\* The options among the first n that give a part of an address, and those of a name.
Ips(n)   == {i \in 1..n : args[i].name = "l" /\ SetsHost(AddressOf(args[i]))}
Ports(n) == {i \in 1..n : args[i].name = "l" /\ args[i].port # <<>>}
Named(name, n) == {i \in 1..n : args[i].name = name}
\* Those with a host that overruns the buffer.
Overran(n) == {i \in 1..n : args[i].name = "l" /\ Overruns(AddressOf(args[i]))}

ValueOf == [i \in 1..Len(args) |-> args[i].value]
MethodOf == [i \in 1..Len(args) |-> args[i].value.text]
PortOf  == [i \in 1..Len(args) |-> uint16(args[i].port[1])]

\* The setting v is what f says of the last of S, or else the default.
Follows(S, f, v, default) ==
  \/ S = {} /\ v = default
  \/ \E m \in S : (\A j \in S : j <= m) /\ v = f[m]

\* The port is the one given, or that without its low byte if some -l overran its host.
PortFollows(n) ==
  \E given \in Int :
    /\ Follows(Ports(n), PortOf, given, DefaultListen.port)
    /\ listen.port = given \/ (Overran(n) # {} /\ listen.port = given - (given % 256))

CommandTyped ==
  /\ args \in Seq(Arguments) /\ operands \in Seq(Servers) /\ Len(operands) <= 1
  /\ optind \in 0..Len(args) /\ opt.encryption_method \in METHODS

TakenInv ==
  /\ \E e, w : \E s, n, v \in BOOLEAN :
       opt = [encryption_method |-> e, vnc_password |-> w,
              shared |-> s, noshared |-> n, viewonly |-> v]
  /\ listen = [ip |-> listen.ip, port |-> listen.port] /\ server = NoAddress
  /\ Follows(Ips(optind), ValueOf, listen.ip, DefaultListen.ip)
  /\ PortFollows(optind)
  /\ Follows(Named("e", optind), MethodOf, opt.encryption_method, "none")
  /\ opt.shared => Named("s", optind) # {}
  /\ opt.noshared => Named("n", optind) # {}
  /\ Overran(optind) = {} => /\ Named("s", optind) # {} => opt.shared
                             /\ Named("n", optind) # {} => opt.noshared
  /\ opt.viewonly <=> Named("v", optind) # {}
  /\ Named("h", optind) = {}

\* The settings once all options are taken: of the whole command line.
Settled ==
  /\ CommandTyped
  /\ Follows(Ips(Len(args)), ValueOf, listen.ip, DefaultListen.ip)
  /\ PortFollows(Len(args))
  /\ Follows(Named("e", Len(args)), MethodOf, opt.encryption_method, "none")
  /\ ~opt.shared => Named("n", Len(args)) # {}
  /\ Overran(Len(args)) = {} =>
       /\ opt.shared = (Named("n", Len(args)) = {})
       /\ Named("n", Len(args)) = {} \/ Named("s", Len(args)) = {}
  /\ opt.viewonly = (Named("v", Len(args)) # {}) /\ Named("h", Len(args)) = {}
  /\ server.ip = operands[1].ip /\ server.ip.len \in 1..INET_ADDRSTRLEN
  /\ server.port = uint16(operands[1].port[1]) /\ server.port # 0

OptionsInv == CommandTyped /\ (pc = "options" => TakenInv) /\ (Started => Settled)

\* The last of a set of numbers is its maximum.
LEMMA LastChosen ==
  ASSUME NEW S \in SUBSET Nat, NEW f, NEW v, NEW default, Follows(S, f, v, default)
  PROVE  /\ v = IF S = {} THEN default ELSE f[Max(S)]
         /\ S # {} => Max(S) \in S
<1>1. CASE S = {}
  BY <1>1 DEF Follows
<1>2. CASE S # {}
  <2>1. PICK m \in S : (\A j \in S : j <= m) /\ v = f[m]
    BY <1>2 DEF Follows
  <2>2. \A j \in S : m >= j
    BY <2>1
  <2>3. Max(S) \in S /\ \A j \in S : Max(S) >= j
    BY <2>1, <2>2 DEF Max
  <2>5. \A k \in Nat : m >= k /\ k >= m => k = m
    OBVIOUS
  <2>4. Max(S) = m
    BY <2>2, <2>3, <2>5
  <2> QED BY <1>2, <2>1, <2>3, <2>4
<1> QED BY <1>1, <1>2

\* One option more: it is the last if it is of the set, and else changes nothing.
LEMMA FollowsNext ==
  ASSUME NEW n \in Nat, NEW S \in SUBSET (1..n), NEW f, NEW v, NEW w, NEW default, NEW T,
         Follows(S, f, v, default),
         \/ T = S /\ w = v
         \/ T = S \cup {n + 1} /\ w = f[n + 1]
  PROVE  Follows(T, f, w, default)
<1>1. CASE T = S /\ w = v
  BY <1>1
<1>2. CASE T = S \cup {n + 1} /\ w = f[n + 1]
  <2>1. \A j \in S : j <= n + 1
    OBVIOUS
  <2>2. n + 1 \in T /\ \A j \in T : j <= n + 1
    BY <1>2, <2>1
  <2> QED BY <1>2, <2>2 DEF Follows
<1> QED BY <1>1, <1>2

\* What the options say after one more of them.
LEMMA TakeOptionKeeps ==
  ASSUME CommandTyped, TakenInv, pc = "options", optind < Len(args),
         TakeOption(args[optind + 1]), UNCHANGED command
  PROVE  CommandTyped' /\ (pc' = "options" => TakenInv')
<1> DEFINE a == args[optind + 1]
           n == optind
<1>1. /\ n \in Nat /\ Len(args) \in Nat /\ n + 1 \in 1..Len(args) /\ args' = args
      /\ operands' = operands /\ 1..n + 1 = 1..n \cup {n + 1}
  BY LenProperties DEF CommandTyped, command
<1>2. CASE Usage
  BY <1>1, <1>2 DEF Usage, CommandTyped
<1>3. CASE Taken /\ ~Usage
  <2>1. /\ optind' = n + 1 /\ pc' = "options" /\ server' = server
        /\ \/ a.name = "l" /\ TakeListen(AddressOf(a))
           \/ /\ a.name = "e" /\ a.value.text \in METHODS /\ listen' = listen
              /\ opt' = [opt EXCEPT !.encryption_method = a.value.text,
                                     !.vnc_password = strncpy(a.value)]
           \/ /\ a.name = "p" /\ listen' = listen
              /\ opt' = [opt EXCEPT !.vnc_password = strncpy(a.value)]
           \/ a.name = "s" /\ listen' = listen /\ opt' = [opt EXCEPT !.shared = TRUE]
           \/ a.name = "n" /\ listen' = listen /\ opt' = [opt EXCEPT !.noshared = TRUE]
           \/ a.name = "v" /\ listen' = listen /\ opt' = [opt EXCEPT !.viewonly = TRUE]
    BY <1>3 DEF Taken, TakeOption, KnownMethod
  <2>2. PICK e, w : \E s, m, v \in BOOLEAN :
          opt = [encryption_method |-> e, vnc_password |-> w,
                 shared |-> s, noshared |-> m, viewonly |-> v]
    BY DEF TakenInv
  <2>3. PICK s \in BOOLEAN, m \in BOOLEAN, v \in BOOLEAN :
          opt = [encryption_method |-> e, vnc_password |-> w,
                 shared |-> s, noshared |-> m, viewonly |-> v]
    BY <2>2
  <2>4. /\ Ips(optind)' = Ips(n) \cup (IF a.name = "l" /\ SetsHost(AddressOf(a))
                                          THEN {n + 1} ELSE {})
        /\ Ports(optind)' = Ports(n) \cup (IF a.name = "l" /\ a.port # <<>>
                                              THEN {n + 1} ELSE {})
        /\ Overran(optind)' = Overran(n) \cup (IF a.name = "l" /\ Overruns(AddressOf(a))
                                                  THEN {n + 1} ELSE {})
        /\ \A name : Named(name, n + 1)
                       = Named(name, n) \cup (IF a.name = name THEN {n + 1} ELSE {})
        /\ \A name : Named(name, optind)' = Named(name, n + 1)
    <3>1. Ips(optind)' = Ips(n + 1) /\ Ports(optind)' = Ports(n + 1)
          /\ Overran(optind)' = Overran(n + 1)
          /\ \A name : Named(name, optind)' = Named(name, n + 1)
      BY <1>1, <2>1 DEF Ips, Ports, Overran, Named
    <3>2. Ips(n + 1) = Ips(n) \cup (IF a.name = "l" /\ SetsHost(AddressOf(a))
                                      THEN {n + 1} ELSE {})
      BY <1>1 DEF Ips
    <3>3. Ports(n + 1) = Ports(n) \cup (IF a.name = "l" /\ a.port # <<>> THEN {n + 1} ELSE {})
      BY <1>1 DEF Ports
    <3>5. Overran(n + 1) = Overran(n) \cup (IF a.name = "l" /\ Overruns(AddressOf(a))
                                              THEN {n + 1} ELSE {})
      BY <1>1 DEF Overran
    <3>4. \A name : Named(name, n + 1)
                      = Named(name, n) \cup (IF a.name = name THEN {n + 1} ELSE {})
      BY <1>1 DEF Named
    <3> QED BY <3>1, <3>2, <3>3, <3>4, <3>5
  <2>5. /\ ValueOf' = ValueOf /\ MethodOf' = MethodOf /\ PortOf' = PortOf
        /\ ValueOf[n + 1] = a.value /\ MethodOf[n + 1] = a.value.text
        /\ PortOf[n + 1] = uint16(a.port[1])
    BY <1>1 DEF ValueOf, MethodOf, PortOf
  <2>6. /\ Ips(n) \in SUBSET (1..n) /\ Ports(n) \in SUBSET (1..n)
        /\ Named("e", n) \in SUBSET (1..n)
    BY DEF Ips, Ports, Named
  <2>18. a.port \in Seq(Int)
    <3>1. args \in Seq(Arguments)
      BY DEF CommandTyped
    <3>2. a \in Arguments
      BY <1>1, <3>1, ElementOfSeq
    <3>3. CASE \E b \in Listens : a = Opt("l", b.ip, b.colon, b.port)
      <4>1. PICK b \in Listens : a = Opt("l", b.ip, b.colon, b.port)
        BY <3>3
      <4>2. b \in Addresses
        BY <4>1, ArgumentsAssumption
      <4>3. b.port \in Seq(Int)
        BY <4>2 DEF Addresses
      <4> QED BY <4>1, <4>3 DEF Opt
    <3>4. CASE \E c, w0 : a = Plain(c, w0)
      <4>1. a.port = <<>>
        BY <3>4 DEF Plain, Opt
      <4> QED BY <4>1
    <3> QED BY <3>2, <3>3, <3>4 DEF Arguments
  <2>7. /\ listen' = [ip |-> listen'.ip, port |-> listen'.port]
        /\ listen'.ip = IF a.name = "l" /\ SetsHost(AddressOf(a)) THEN a.value ELSE listen.ip
        /\ \/ a.name = "l" /\ a.port # <<>> /\ listen'.port = uint16(a.port[1])
           \/ ~(a.name = "l" /\ a.port # <<>>) /\ listen'.port = listen.port
           \/ /\ a.name = "l" /\ a.port = <<>> /\ Overruns(AddressOf(a))
              /\ listen'.port = listen.port - (listen.port % 256)
    <3>1. CASE a.name = "l"
      <4>1. PICK behind \in BehindListenIp :
              /\ Overruns(AddressOf(a)) \/ behind = "nothing"
              /\ listen' = parse_address(AddressOf(a),
                             IF behind = "listen_port"
                             THEN [listen EXCEPT !.port = @ - (@ % 256)] ELSE listen)
        BY <2>1, <3>1 DEF TakeListen
      <4>2. listen = [ip |-> listen.ip, port |-> listen.port]
        BY DEF TakenInv
      <4>3. AddressOf(a).ip = a.value /\ AddressOf(a).port = a.port
        BY DEF AddressOf
      <4>4. CASE behind = "listen_port"
        <5>1. Overruns(AddressOf(a))
          BY <4>1, <4>4
        <5>2. [listen EXCEPT !.port = @ - (@ % 256)]
                = [ip |-> listen.ip, port |-> listen.port - (listen.port % 256)]
          BY <4>2
        <5> QED BY <3>1, <4>1, <4>3, <4>4, <5>1, <5>2 DEF parse_address
      <4>5. CASE behind # "listen_port"
        BY <3>1, <4>1, <4>2, <4>3, <4>5 DEF parse_address
      <4> QED BY <4>4, <4>5
    <3>2. CASE a.name # "l"
      <4>1. listen' = listen
        BY <2>1, <3>2
      <4> QED BY <3>2, <4>1 DEF TakenInv
    <3> QED BY <3>1, <3>2
  <2>8. /\ opt' = [encryption_method |-> opt'.encryption_method,
                   vnc_password |-> opt'.vnc_password, shared |-> opt'.shared,
                   noshared |-> opt'.noshared, viewonly |-> opt'.viewonly]
        /\ opt'.encryption_method
             = IF a.name = "e" THEN a.value.text ELSE opt.encryption_method
    BY <2>1, <2>3 DEF TakeListen
  <2>9. /\ opt'.shared \in BOOLEAN /\ (opt'.shared => (a.name = "s" \/ opt.shared))
        /\ opt'.noshared \in BOOLEAN /\ (opt'.noshared => (a.name = "n" \/ opt.noshared))
        /\ \/ a.name = "l" /\ Overruns(AddressOf(a))
           \/ /\ (a.name = "s" \/ opt.shared) => opt'.shared
              /\ (a.name = "n" \/ opt.noshared) => opt'.noshared
        /\ opt'.viewonly \in BOOLEAN /\ (opt'.viewonly <=> (a.name = "v" \/ opt.viewonly))
        /\ a.name # "h"
    <3>1. /\ opt.shared \in BOOLEAN /\ opt.noshared \in BOOLEAN /\ opt.viewonly \in BOOLEAN
      BY <2>3
    <3>7. CASE a.name = "l"
      <4>1. PICK behind \in BehindListenIp :
              /\ Overruns(AddressOf(a)) \/ behind = "nothing"
              /\ opt' = [opt EXCEPT !.shared = @ /\ behind # "shared",
                                     !.noshared = @ /\ behind # "noshared"]
        BY <2>1, <3>7 DEF TakeListen
      <4>2. /\ opt'.shared = (opt.shared /\ behind # "shared")
            /\ opt'.noshared = (opt.noshared /\ behind # "noshared")
            /\ opt'.viewonly = opt.viewonly
        BY <2>3, <4>1
      <4> QED BY <3>1, <3>7, <4>1, <4>2
    <3>2. CASE a.name \in {"e", "p"}
      <4>1. opt'.shared = opt.shared /\ opt'.noshared = opt.noshared
            /\ opt'.viewonly = opt.viewonly
        BY <2>1, <2>3, <3>2
      <4> QED BY <3>1, <3>2, <4>1
    <3>3. CASE a.name = "s"
      <4>1. opt'.shared = TRUE /\ opt'.noshared = opt.noshared
            /\ opt'.viewonly = opt.viewonly
        BY <2>1, <2>3, <3>3
      <4> QED BY <3>1, <3>3, <4>1
    <3>4. CASE a.name = "n"
      <4>1. opt'.shared = opt.shared /\ opt'.noshared = TRUE
            /\ opt'.viewonly = opt.viewonly
        BY <2>1, <2>3, <3>4
      <4> QED BY <3>1, <3>4, <4>1
    <3>5. CASE a.name = "v"
      <4>1. opt'.shared = opt.shared /\ opt'.noshared = opt.noshared
            /\ opt'.viewonly = TRUE
        BY <2>1, <2>3, <3>5
      <4> QED BY <3>1, <3>5, <4>1
    <3>6. a.name \in {"l", "e", "p", "s", "n", "v"}
      BY <2>1
    <3> QED BY <3>2, <3>3, <3>4, <3>5, <3>6, <3>7
  <2>10. opt'.encryption_method \in METHODS
    <3>1. a.name = "e" => a.value.text \in METHODS
      BY <2>1
    <3> QED BY <3>1, <2>8 DEF CommandTyped
  <2>11. Follows(Ips(optind)', ValueOf', listen'.ip, DefaultListen.ip)
    <3>1. Follows(Ips(n), ValueOf, listen.ip, DefaultListen.ip)
      BY DEF TakenInv
    <3>2. \/ Ips(optind)' = Ips(n) /\ listen'.ip = listen.ip
          \/ /\ Ips(optind)' = Ips(n) \cup {n + 1}
             /\ listen'.ip = ValueOf[n + 1]
      <4>1. Ips(optind)' = Ips(n) \cup (IF a.name = "l" /\ SetsHost(AddressOf(a))
                                         THEN {n + 1} ELSE {})
        BY <2>4
      <4>2. listen'.ip = IF a.name = "l" /\ SetsHost(AddressOf(a)) THEN a.value ELSE listen.ip
        BY <2>7
      <4> QED BY <4>1, <4>2, <2>5
    <3>3. ValueOf' = ValueOf /\ n \in Nat /\ Ips(n) \in SUBSET (1..n)
      BY <1>1, <2>5, <2>6
    <3> QED BY <3>1, <3>2, <3>3, FollowsNext
  <2>12. PortFollows(optind)'
    <3>1. PICK given \in Int :
            /\ Follows(Ports(n), PortOf, given, DefaultListen.port)
            /\ listen.port = given \/ (Overran(n) # {} /\ listen.port = given - (given % 256))
      BY DEF TakenInv, PortFollows
    <3>2. CASE a.name = "l" /\ a.port # <<>>
      <4>1. Follows(Ports(optind)', PortOf', listen'.port, DefaultListen.port)
        <5>1. Ports(optind)' = Ports(n) \cup {n + 1} /\ listen'.port = PortOf[n + 1]
          BY <2>4, <2>5, <2>7, <3>2
        <5>2. PortOf' = PortOf /\ n \in Nat /\ Ports(n) \in SUBSET (1..n)
          BY <1>1, <2>5, <2>6
        <5> QED BY <3>1, <5>1, <5>2, FollowsNext
      <4>2. listen'.port \in Int
        <5>1. a.port \in Seq(Int) /\ a.port # <<>>
          BY <3>2, <2>18
        <5>2. a.port[1] \in Int
          BY <5>1
        <5>3. uint16(a.port[1]) \in Int
          BY <5>2 DEF uint16
        <5> QED BY <5>3, <2>7, <3>2
      <4>3. DefaultListen' = DefaultListen
        BY DEF DefaultListen
      <4> QED BY <4>1, <4>2, <4>3 DEF PortFollows
    <3>3. CASE ~(a.name = "l" /\ a.port # <<>>)
      <4>1. Follows(Ports(optind)', PortOf', given, DefaultListen.port)
        <5>1. Ports(optind)' = Ports(n)
          BY <2>4, <3>3
        <5> QED BY <3>1, <5>1, <2>5
      <4>2. Overran(n) # {} => Overran(optind)' # {}
        BY <2>4
      <4>3. listen'.port = given
              \/ (Overran(optind)' # {} /\ listen'.port = given - (given % 256))
        <5>1. CASE listen'.port = listen.port
          BY <5>1, <3>1, <4>2
        <5>2. CASE Overruns(AddressOf(a)) /\ a.name = "l"
                   /\ listen'.port = listen.port - (listen.port % 256)
          <6>1. Overran(optind)' # {}
            BY <2>4, <5>2
          <6>3. \A g \in Int : (g - (g % 256)) - ((g - (g % 256)) % 256) = g - (g % 256)
            OBVIOUS
          <6>4. \/ listen.port = given
                \/ listen.port = given - (given % 256)
            BY <3>1
          <6>2. listen'.port = given - (given % 256)
            <7>1. CASE listen.port = given
              BY <5>2, <7>1
            <7>2. CASE listen.port = given - (given % 256)
              <8>1. listen.port - (listen.port % 256) = listen.port
                BY <6>3, <7>2
              <8> QED BY <5>2, <7>2, <8>1
            <7> QED BY <6>4, <7>1, <7>2
          <6> QED BY <6>1, <6>2
        <5> QED BY <5>1, <5>2, <3>3, <2>7
      <4>4. DefaultListen' = DefaultListen
        BY DEF DefaultListen
      <4> QED BY <4>1, <4>3, <4>4 DEF PortFollows
    <3> QED BY <3>2, <3>3
  <2>13. Follows(Named("e", optind)', MethodOf', opt'.encryption_method, "none")
    <3>1. Follows(Named("e", n), MethodOf, opt.encryption_method, "none")
      BY DEF TakenInv
    <3>2. \/ Named("e", optind)' = Named("e", n) /\ opt'.encryption_method = opt.encryption_method
          \/ /\ Named("e", optind)' = Named("e", n) \cup {n + 1}
             /\ opt'.encryption_method = MethodOf[n + 1]
      <4>1. Named("e", optind)' = Named("e", n) \cup (IF a.name = "e" THEN {n + 1} ELSE {})
        BY <2>4
      <4>2. opt'.encryption_method
              = IF a.name = "e" THEN MethodOf[n + 1] ELSE opt.encryption_method
        BY <2>5, <2>8
      <4> QED BY <4>1, <4>2
    <3>3. MethodOf' = MethodOf /\ n \in Nat /\ Named("e", n) \in SUBSET (1..n)
      BY <1>1, <2>5, <2>6
    <3> QED BY <3>1, <3>2, <3>3, FollowsNext
  <2>14. /\ opt'.shared => Named("s", optind)' # {}
         /\ opt'.noshared => Named("n", optind)' # {}
         /\ Overran(optind)' = {} => /\ Named("s", optind)' # {} => opt'.shared
                                     /\ Named("n", optind)' # {} => opt'.noshared
         /\ opt'.viewonly <=> Named("v", optind)' # {}
         /\ Named("h", optind)' = {}
    <3>1. /\ opt.shared => Named("s", n) # {}
          /\ opt.noshared => Named("n", n) # {}
          /\ Overran(n) = {} => /\ Named("s", n) # {} => opt.shared
                                /\ Named("n", n) # {} => opt.noshared
          /\ opt.viewonly <=> Named("v", n) # {}
          /\ Named("h", n) = {}
      BY DEF TakenInv
    <3>2. /\ Named("s", optind)' = Named("s", n) \cup (IF a.name = "s" THEN {n + 1} ELSE {})
          /\ Named("n", optind)' = Named("n", n) \cup (IF a.name = "n" THEN {n + 1} ELSE {})
          /\ Named("v", optind)' = Named("v", n) \cup (IF a.name = "v" THEN {n + 1} ELSE {})
          /\ Named("h", optind)' = Named("h", n) \cup (IF a.name = "h" THEN {n + 1} ELSE {})
      BY <2>4
    <3>3. /\ Named("s", optind)' # {} <=> a.name = "s" \/ Named("s", n) # {}
          /\ Named("n", optind)' # {} <=> a.name = "n" \/ Named("n", n) # {}
          /\ Named("v", optind)' # {} <=> a.name = "v" \/ Named("v", n) # {}
          /\ Named("h", optind)' = {} <=> a.name # "h" /\ Named("h", n) = {}
      BY <3>2
    <3>4. Overran(optind)' = {} => Overran(n) = {} /\ ~(a.name = "l" /\ Overruns(AddressOf(a)))
      BY <2>4
    <3> QED BY <3>1, <3>3, <3>4, <2>9
  <2>15. CommandTyped'
    BY <1>1, <2>1, <2>10 DEF CommandTyped
  <2>16. \E ee, ww : \E ss, nn, vv \in BOOLEAN :
           opt' = [encryption_method |-> ee, vnc_password |-> ww,
                   shared |-> ss, noshared |-> nn, viewonly |-> vv]
    BY <2>8, <2>9
  <2>17. server' = NoAddress'
    BY <2>1 DEF TakenInv, NoAddress
  <2>19. listen' = [ip |-> listen'.ip, port |-> listen'.port]
    BY <2>7
  <2>20. TakenInv'
    BY <2>11, <2>12, <2>13, <2>14, <2>16, <2>17, <2>19, ZenonT(30) DEF TakenInv
  <2> QED BY <2>15, <2>20
<1> QED BY <1>2, <1>3 DEF TakeOption

\* They mean what usage() says.
LEMMA SettledMeans == Settled => OptionsMeant
<1> SUFFICES ASSUME Settled PROVE OptionsMeant
  OBVIOUS
<1>1. PICK n \in Nat : n = Len(args)
  BY LenProperties DEF Settled, CommandTyped
<1>2. 1..n \subseteq Nat
  OBVIOUS
<1>4. PICK given \in Int :
        /\ Follows(Ports(n), PortOf, given, DefaultListen.port)
        /\ listen.port = given \/ (Overran(n) # {} /\ listen.port = given - (given % 256))
  BY <1>1 DEF Settled, PortFollows
<1>6. listen.ip = GivenHost
  <2>1. Ips(n) \in SUBSET (1..n)
    BY DEF Ips
  <2>2. Follows(Ips(n), ValueOf, listen.ip, DefaultListen.ip) /\ Ips(n) \in SUBSET Nat
    BY <1>1, <1>2, <2>1 DEF Settled
  <2>3. /\ listen.ip = IF Ips(n) = {} THEN DefaultListen.ip ELSE ValueOf[Max(Ips(n))]
        /\ Ips(n) # {} => Max(Ips(n)) \in 1..n
    BY <2>1, <2>2, LastChosen
  <2>4. \A i \in 1..n : ValueOf[i] = args[i].value
    BY <1>1 DEF ValueOf
  <2> DEFINE S == {i \in 1..Len(args) : args[i].name = "l" /\ SetsHost(AddressOf(args[i]))}
  <2>5. S = Ips(n)
    BY <1>1 DEF Ips
  <2>7. GivenHost = IF S = {} THEN DefaultListen.ip ELSE args[Max(S)].value
    BY Zenon DEF GivenHost, LastOf
  <2> HIDE DEF S
  <2>6. GivenHost = IF Ips(n) = {} THEN DefaultListen.ip ELSE args[Max(Ips(n))].value
    BY <2>5, <2>7
  <2> QED BY <2>3, <2>4, <2>6
<1>7. given = GivenPort
  <2>1. Ports(n) \in SUBSET (1..n)
    BY DEF Ports
  <2>2. Ports(n) \in SUBSET Nat
    BY <1>2, <2>1
  <2>3. /\ given = IF Ports(n) = {} THEN DefaultListen.port ELSE PortOf[Max(Ports(n))]
        /\ Ports(n) # {} => Max(Ports(n)) \in 1..n
    BY <1>4, <2>1, <2>2, LastChosen
  <2>4. \A i \in 1..n : PortOf[i] = uint16(args[i].port[1])
    BY <1>1 DEF PortOf
  <2> DEFINE S == {i \in 1..Len(args) : args[i].name = "l" /\ args[i].port # <<>>}
  <2>5. S = Ports(n)
    BY <1>1 DEF Ports
  <2>7. GivenPort = IF S = {} THEN DefaultListen.port ELSE uint16(args[Max(S)].port[1])
    BY Zenon DEF GivenPort, LastOf
  <2> HIDE DEF S
  <2>6. GivenPort = IF Ports(n) = {} THEN DefaultListen.port
                    ELSE uint16(args[Max(Ports(n))].port[1])
    BY <2>5, <2>7
  <2> QED BY <2>3, <2>4, <2>6
<1>8. opt.encryption_method = LET isE(a) == a.name = "e"  method(a) == a.value.text
                              IN  LastOf(isE, method, "none")
  <2>1. Named("e", n) \in SUBSET (1..n)
    BY DEF Named
  <2>2. /\ Follows(Named("e", n), MethodOf, opt.encryption_method, "none")
        /\ Named("e", n) \in SUBSET Nat
    BY <1>1, <1>2, <2>1 DEF Settled
  <2>3. /\ opt.encryption_method = IF Named("e", n) = {} THEN "none"
                                   ELSE MethodOf[Max(Named("e", n))]
        /\ Named("e", n) # {} => Max(Named("e", n)) \in 1..n
    BY <2>1, <2>2, LastChosen
  <2>4. \A i \in 1..n : MethodOf[i] = args[i].value.text
    BY <1>1 DEF MethodOf
  <2>5. {i \in 1..Len(args) : args[i].name = "e"} = Named("e", n)
    BY <1>1 DEF Named
  <2>6. opt.encryption_method = IF Named("e", n) = {} THEN "none"
                                ELSE args[Max(Named("e", n))].value.text
    BY <2>3, <2>4
  <2> QED BY <2>5, <2>6 DEF LastOf
<1>9. \A name : Given(name) = Named(name, Len(args))
  BY DEF Given, Named
<1>10. NoOverrun <=> Overran(n) = {}
  BY <1>1 DEF NoOverrun, Overran, Given
<1>11. \/ listen.port = given
       \/ ~NoOverrun /\ listen.port = given - (given % 256)
  BY <1>4, <1>10
<1>12. ServerMeant /\ opt.encryption_method \in METHODS
  BY DEF Settled, CommandTyped, ServerMeant
<1>13. FlagsMeant
  <2>1. NoOverrun <=> Overran(Len(args)) = {}
    BY <1>1, <1>10
  <2>2. /\ Given("n") = Named("n", Len(args)) /\ Given("s") = Named("s", Len(args))
        /\ Given("v") = Named("v", Len(args)) /\ Given("h") = Named("h", Len(args))
    BY <1>9
  <2> QED BY <2>1, <2>2 DEF Settled, FlagsMeant
<1>14. ListenMeant
  BY <1>6, <1>7, <1>11 DEF ListenMeant
<1>15. MethodMeant
  BY <1>8, <1>12, Zenon DEF MethodMeant
<1> QED BY <1>12, <1>13, <1>14, <1>15 DEF OptionsMeant

\* The settings when all options are taken are what the whole command line says.
LEMMA CheckOptionsKeeps ==
  ASSUME CommandTyped, TakenInv, pc = "options", optind = Len(args),
         CheckOptions, UNCHANGED command
  PROVE  CommandTyped' /\ pc' # "options" /\ (Started' => Settled')
<1>1. /\ args' = args /\ operands' = operands /\ Len(args) \in Nat
  BY LenProperties DEF CommandTyped, command
<1>2. CASE Usage
  BY <1>1, <1>2 DEF Usage, CommandTyped, Started
<1>3. CASE ~Usage
  <2> DEFINE good == {a \in ToSet(operands) :
                        LET s == parse_address(a, server) IN s.ip.len # 0 /\ s.port # 0}
  <2>1. /\ good # {} /\ ~(opt.shared /\ opt.noshared)
        /\ opt' = [opt EXCEPT !.shared = ~opt.noshared]
        /\ server' = parse_address(operands[1], server)
        /\ pc' = "setup" /\ optind' = optind /\ listen' = listen
    BY <1>3 DEF CheckOptions
  <2>2. PICK e, w : \E s, n, v \in BOOLEAN :
          opt = [encryption_method |-> e, vnc_password |-> w,
                 shared |-> s, noshared |-> n, viewonly |-> v]
    BY DEF TakenInv
  <2>3. PICK s \in BOOLEAN, n \in BOOLEAN, v \in BOOLEAN :
          opt = [encryption_method |-> e, vnc_password |-> w,
                 shared |-> s, noshared |-> n, viewonly |-> v]
    BY <2>2
  <2>4. /\ opt'.encryption_method = opt.encryption_method /\ opt'.viewonly = opt.viewonly
        /\ opt'.shared = ~opt.noshared /\ opt.shared \in BOOLEAN /\ opt.noshared \in BOOLEAN
        /\ opt.viewonly \in BOOLEAN
    BY <2>1, <2>3
  <2>5. PICK a \in ToSet(operands) :
          LET q == parse_address(a, server) IN q.ip.len # 0 /\ q.port # 0
    BY <2>1
  <2>6. a \in Addresses /\ a = operands[1]
    <3>1. PICK i \in DOMAIN operands : a = operands[i]
      BY <2>5 DEF ToSet
    <3>2. operands \in Seq(Servers) /\ Len(operands) <= 1 /\ Len(operands) \in Nat
      BY LenProperties DEF CommandTyped
    <3>3. i = 1 /\ operands[1] \in Servers
      BY <3>1, <3>2, ElementOfSeq, LenProperties
    <3> QED BY <3>1, <3>3, ArgumentsAssumption
  <2>7. /\ server'.ip = operands[1].ip /\ server'.ip.len \in 1..INET_ADDRSTRLEN
        /\ server'.port = uint16(operands[1].port[1]) /\ server'.port # 0
    <3>1. server.ip.len = 0 /\ server.port = 0
      BY DEF TakenInv, NoAddress, Empty
    <3>2. SetsHost(a) /\ a.ip.len # 0
      BY <2>5, <3>1 DEF parse_address
    <3>3. a.port # <<>> /\ uint16(a.port[1]) # 0
      BY <2>5, <3>1 DEF parse_address
    <3>4. server' = [ip |-> a.ip, port |-> uint16(a.port[1])]
      BY <2>1, <2>6, <3>2, <3>3 DEF parse_address
    <3>6. a.ip \in Texts
      BY <2>6 DEF Addresses
    <3>7. a.ip.len \in Nat
      BY <3>6 DEF Texts
    <3>8. a.ip.len <= INET_ADDRSTRLEN /\ a.ip.len # 0
      BY <3>2 DEF SetsHost
    <3>9. \A k \in Nat : k <= INET_ADDRSTRLEN /\ k # 0 => k \in 1..INET_ADDRSTRLEN
      BY DEF INET_ADDRSTRLEN
    <3>5. a.ip.len \in 1..INET_ADDRSTRLEN
      BY <3>7, <3>8, <3>9
    <3> QED BY <2>6, <3>3, <3>4, <3>5
  <2>8. /\ Ips(Len(args))' = Ips(optind) /\ Ports(Len(args))' = Ports(optind)
        /\ Overran(Len(args))' = Overran(optind)
        /\ \A name : Named(name, Len(args))' = Named(name, optind)
        /\ ValueOf' = ValueOf /\ MethodOf' = MethodOf /\ PortOf' = PortOf
    BY <1>1 DEF Ips, Ports, Overran, Named, ValueOf, MethodOf, PortOf
  <2>9. /\ Follows(Ips(Len(args))', ValueOf', listen'.ip, DefaultListen.ip)
        /\ Follows(Named("e", Len(args))', MethodOf', opt'.encryption_method, "none")
    BY <2>1, <2>4, <2>8 DEF TakenInv
  <2>15. PortFollows(Len(args))'
    BY <2>1, <2>8 DEF TakenInv, PortFollows, DefaultListen
  <2>10. /\ ~opt'.shared => Named("n", Len(args))' # {}
         /\ Overran(Len(args))' = {} =>
              /\ opt'.shared = (Named("n", Len(args))' = {})
              /\ Named("n", Len(args))' = {} \/ Named("s", Len(args))' = {}
    <3>1. /\ opt.noshared => Named("n", Len(args))' # {}
          /\ Overran(Len(args))' = {} => /\ Named("s", Len(args))' # {} => opt.shared
                                         /\ Named("n", Len(args))' # {} => opt.noshared
      BY <2>8 DEF TakenInv
    <3> QED BY <2>1, <2>4, <3>1
  <2>11. opt'.viewonly = (Named("v", Len(args))' # {})
    <3>1. opt.viewonly <=> Named("v", Len(args))' # {}
      BY <2>8 DEF TakenInv
    <3> QED BY <2>4, <3>1
  <2>12. Named("h", Len(args))' = {}
    BY <2>8 DEF TakenInv
  <2>13. CommandTyped'
    BY <1>1, <2>1, <2>4 DEF CommandTyped
  <2>14. Settled'
    BY <1>1, <2>7, <2>9, <2>10, <2>11, <2>12, <2>13, <2>15 DEF Settled, DefaultListen
  <2> QED BY <2>1, <2>13, <2>14
<1> QED BY <1>2, <1>3

\* Every step keeps it.
LEMMA OptionsInvInductive == OptionsInv /\ [Next]_vars => OptionsInv'
<1> SUFFICES ASSUME OptionsInv, [Next]_vars PROVE OptionsInv'
  OBVIOUS
<1>1. CASE Command
  <2>1. pc = "options" /\ UNCHANGED command /\ TakenInv /\ CommandTyped
    BY <1>1 DEF Command, ReadOptions, OptionsInv
  <2>2. CASE optind < Len(args) /\ TakeOption(args[optind + 1])
    <3>1. CommandTyped' /\ (pc' = "options" => TakenInv')
      BY <2>1, <2>2, TakeOptionKeeps
    <3>2. pc' \in {"options", "exited"}
      BY <2>1, <2>2 DEF TakeOption, Usage, Taken
    <3> QED BY <3>1, <3>2 DEF OptionsInv, Started
  <2>3. CASE optind = Len(args) /\ CheckOptions
    BY <2>1, <2>3, CheckOptionsKeeps DEF OptionsInv
  <2> QED BY <1>1, <2>2, <2>3 DEF Command, ReadOptions
<1>2. ASSUME UNCHANGED <<command, settings>>, pc' = pc \/ Started \/ ~Started', pc' = "options" => pc = "options"
      PROVE  OptionsInv'
  <2>1. /\ args' = args /\ operands' = operands /\ optind' = optind /\ opt' = opt
        /\ listen' = listen /\ server' = server
    BY <1>2 DEF command, settings
  <2>2. CommandTyped'
    BY <2>1 DEF OptionsInv, CommandTyped
  <2>3. /\ \A n : Ips(n)' = Ips(n) /\ Ports(n)' = Ports(n) /\ Overran(n)' = Overran(n)
        /\ \A name, n : Named(name, n)' = Named(name, n)
        /\ ValueOf' = ValueOf /\ MethodOf' = MethodOf /\ PortOf' = PortOf
    BY <2>1 DEF Ips, Ports, Overran, Named, ValueOf, MethodOf, PortOf
  <2>7. /\ PortFollows(optind) => PortFollows(optind)'
        /\ PortFollows(Len(args)) => PortFollows(Len(args))'
    BY <2>1, <2>3 DEF PortFollows, DefaultListen
  <2>4. TakenInv => TakenInv'
    BY <2>1, <2>3, <2>7 DEF TakenInv, DefaultListen, NoAddress
  <2>5. Settled => Settled'
    BY <2>1, <2>2, <2>3, <2>7 DEF Settled, DefaultListen
  <2>6. Started' => Started
    BY <1>2 DEF Started
  <2> QED BY <1>2, <2>2, <2>4, <2>5, <2>6 DEF OptionsInv
<1>3. CASE SetUp
  BY <1>3, <1>2 DEF SetUp, Started
<1>4. CASE Test \/ Accept
  BY <1>4, <1>2 DEF Test, Accept, AcceptFailed, Started
<1>5. CASE ServerSocket \/ Connect \/ Handshakes \/ SessionEnds
  BY <1>5, <1>2 DEF ServerSocket, Connect, Handshakes, SessionEnds, Advance,
     v2r_session_destory, Started
<1>6. CASE Killed \/ Sigint
  BY <1>6, <1>2 DEF Killed, Sigint, AcceptFailed, Started
<1>7. CASE ClientComes \/ PeerCloses
  BY <1>7, <1>2 DEF ClientComes, PeerCloses
<1>8. CASE UNCHANGED vars
  BY <1>8, <1>2 DEF vars
<1> QED BY <1>1, <1>3, <1>4, <1>5, <1>6, <1>7, <1>8 DEF Next

\* At first no option was taken.
LEMMA OptionsInvInit == Init => OptionsInv
<1> SUFFICES ASSUME Init PROVE OptionsInv
  OBVIOUS
<1>1. args \in Seq(Arguments) /\ operands \in Seq(Servers) /\ Len(operands) <= 1
  <2>1. PICK m \in 0..MaxArgs : args \in [1..m -> Arguments]
    BY DEF Init, OptionsInit, SeqOf
  <2>2. PICK n \in 0..1 : operands \in [1..n -> Servers]
    BY DEF Init, OptionsInit, SeqOf
  <2>3. m \in Nat /\ n \in Nat
    BY ArgumentsAssumption
  <2>4. args \in Seq(Arguments) /\ operands \in Seq(Servers)
    BY <2>1, <2>2, <2>3, SeqDef
  <2>5. Len(operands) = n
    BY <2>2, <2>3, <2>4, LenProperties
  <2> QED BY <2>4, <2>5
<1>2. /\ optind = 0 /\ listen = DefaultListen /\ server = NoAddress /\ pc = "options"
      /\ opt = [encryption_method |-> "none", vnc_password |-> Empty,
                shared |-> FALSE, noshared |-> FALSE, viewonly |-> FALSE]
  BY DEF Init, OptionsInit
<1>3. CommandTyped
  <2>1. 0 \in 0..Len(args)
    BY <1>1, LenProperties
  <2> QED BY <1>1, <1>2, <2>1 DEF CommandTyped, METHODS
<1>4. /\ Ips(optind) = {} /\ Ports(optind) = {} /\ Overran(optind) = {} /\ \A name : Named(name, optind) = {}
  <2>1. 1..0 = {}
    OBVIOUS
  <2>2. 1..optind = {}
    BY <1>2, <2>1
  <2> QED BY <2>2 DEF Ips, Ports, Overran, Named
<1>6. PortFollows(optind)
  BY <1>2, <1>4 DEF PortFollows, Follows, DefaultListen
<1>7. /\ ~opt.shared /\ ~opt.noshared /\ opt.viewonly = FALSE
      /\ opt.encryption_method = "none" /\ listen = [ip |-> listen.ip, port |-> listen.port]
      /\ \E e, w : \E s, n, v \in BOOLEAN :
           opt = [encryption_method |-> e, vnc_password |-> w,
                  shared |-> s, noshared |-> n, viewonly |-> v]
  <2>1. opt.shared = FALSE /\ opt.noshared = FALSE /\ opt.viewonly = FALSE
        /\ opt.encryption_method = "none"
    BY <1>2
  <2>2. listen = [ip |-> listen.ip, port |-> listen.port]
    BY <1>2 DEF DefaultListen
  <2>3. FALSE \in BOOLEAN
    OBVIOUS
  <2>4. \E s, n, v \in BOOLEAN :
          opt = [encryption_method |-> "none", vnc_password |-> Empty,
                 shared |-> s, noshared |-> n, viewonly |-> v]
    BY <1>2, <2>3, Zenon
  <2> QED BY <2>1, <2>2, <2>4, Zenon
<1>8. /\ Follows(Ips(optind), ValueOf, listen.ip, DefaultListen.ip)
      /\ Follows(Named("e", optind), MethodOf, opt.encryption_method, "none")
  BY <1>2, <1>4, <1>7 DEF Follows
<1>5. TakenInv
  BY <1>2, <1>4, <1>6, <1>7, <1>8 DEF TakenInv
<1> QED BY <1>2, <1>3, <1>5 DEF OptionsInv, Started

\* A process that starts does what usage() says of every option given, for any command
\* line, hosts of every length and every number for a port: the last of several counts,
\* for -l the last whose host fits its buffer and the last with a port, modulo 2^16; a
\* host that just fills the buffer may take back a flag or half of the port.
THEOREM OptionsAlwaysMeant == Spec => []OptionsMeant
<1>1. OptionsInv => OptionsMeant
  BY SettledMeans DEF OptionsInv, OptionsMeant
<1> QED BY <1>1, OptionsInvInit, OptionsInvInductive, PTL DEF Spec

(***************************************************************************)
(* Types, and the limit of descriptors.                                    *)
(***************************************************************************)
Descriptors == {Listening} \cup ({"client", "server", "epoll"} \X Clients)

ProcessInv ==
  /\ pc \in Stages \cup Over \cup {"options", "setup", "test", "accept", "waiting"}
  /\ g_process \in BOOLEAN /\ arrived \in 0..MaxClients
  /\ current \in 0..Past /\ late \in Nat /\ late <= Past
  /\ open \subseteq Descriptors /\ IsFiniteSet(open) /\ Cardinality(open) <= MaxFds
  /\ closedBy \subseteq {"client", "server"}

\* One descriptor more where there is room, and fewer of them.
LEMMA OpenOne ==
  ASSUME NEW S, NEW x, IsFiniteSet(S), Cardinality(S) < MaxFds
  PROVE  IsFiniteSet(S \cup {x}) /\ Cardinality(S \cup {x}) <= MaxFds
<1>1. /\ IsFiniteSet(S \cup {x}) /\ Cardinality(S) \in Nat
      /\ Cardinality(S \cup {x}) = IF x \in S THEN Cardinality(S) ELSE Cardinality(S) + 1
  BY FS_AddElement, FS_CardinalityType
<1> QED BY <1>1, FdsAssumption

\* Closing descriptors leaves descriptors.
LEMMA CloseSome ==
  ASSUME NEW S, NEW T \in SUBSET S, IsFiniteSet(S), Cardinality(S) <= MaxFds
  PROVE  IsFiniteSet(T) /\ Cardinality(T) <= MaxFds
<1>1. /\ IsFiniteSet(T) /\ Cardinality(T) <= Cardinality(S)
      /\ Cardinality(T) \in Nat /\ Cardinality(S) \in Nat
  BY FS_Subset, FS_CardinalityType
<1> QED BY <1>1, FdsAssumption

\* The clients that are over or served, in numbers.
LEMMA PastIsNumber ==
  ASSUME FdInv, arrived \in 0..MaxClients
  PROVE  Past \in Nat /\ Past <= arrived /\ arrived \in Nat /\ Len(backlog) \in Nat
<1>1. arrived \in Nat /\ backlog \in Seq(Nat) /\ Len(backlog) <= arrived
  BY DEF FdInv, ClientsInv
<1> QED BY <1>1, LenProperties DEF Past

\* A step that opens at most the descriptor x, where there is room, and changes nothing
\* of the clients.
LEMMA OpensAtMost ==
  ASSUME ProcessInv, NEW x \in Descriptors,
         UNCHANGED <<backlog, arrived, current, late>>,
         open' \subseteq open \/ (Room /\ open' = open \cup {x}),
         pc' \in Stages \cup Over \cup {"options", "setup", "test", "accept", "waiting"},
         g_process' \in BOOLEAN, closedBy' \subseteq {"client", "server"}
  PROVE  ProcessInv'
<1>1. IsFiniteSet(open') /\ Cardinality(open') <= MaxFds /\ open' \subseteq Descriptors
  BY OpenOne, CloseSome DEF ProcessInv, Room
<1>2. Past' = Past /\ Descriptors' = Descriptors
  BY DEF Past, Descriptors, Listening, Clients
<1> QED BY <1>1, <1>2 DEF ProcessInv, Stages, Over

\* v2r_session_destory closes and goes back to the loop.
LEMMA DestroyTyped ==
  ASSUME ProcessInv, FdInv, v2r_session_destory PROVE ProcessInv'
<1>1. /\ UNCHANGED <<backlog, arrived, late, g_process, closedBy>>
      /\ current' = 0 /\ pc' = "test" /\ open' \subseteq open
  BY DEF v2r_session_destory
<1>2. IsFiniteSet(open') /\ Cardinality(open') <= MaxFds /\ open' \subseteq Descriptors
  BY <1>1, CloseSome DEF ProcessInv
<1>3. Past' = Past /\ Descriptors' = Descriptors
  BY <1>1 DEF Past, Descriptors, Listening, Clients
<1>4. current' \in 0..Past'
  BY <1>1, <1>3, PastIsNumber DEF ProcessInv
<1> QED BY <1>1, <1>2, <1>3, <1>4 DEF ProcessInv, Stages, Over

\* The next client is accepted.
LEMMA AcceptTyped == ASSUME ProcessInv, FdInv, Accept PROVE ProcessInv'
<1>0. Listening \in Descriptors
  BY DEF Descriptors
<1>1. CASE UNCHANGED <<backlog, current, open, closedBy, late>>
  <2>1. pc' \in {"test", "waiting", "socket"} /\ UNCHANGED <<arrived, g_process>>
    BY DEF Accept, AcceptFailed
  <2> QED BY <1>0, <1>1, <2>1, OpensAtMost DEF ProcessInv, Stages, Over
<1>2. CASE /\ Room /\ backlog # <<>>
           /\ current' = Head(backlog) /\ backlog' = Tail(backlog)
           /\ open' = open \cup {<<"client", Head(backlog)>>}
           /\ closedBy' = {} /\ pc' = "socket" /\ late' \in {late, late + 1}
  <2>1. arrived' = arrived /\ g_process' = g_process
    BY DEF Accept
  <2>2. /\ Head(backlog) = Past + 1 /\ Len(Tail(backlog)) = Len(backlog) - 1
        /\ Len(backlog) \in Nat \ {0} /\ arrived \in Nat /\ Past \in Nat
    BY <1>2, Queued, PastIsNumber DEF FdInv, ProcessInv
  <2>3. Past' = Past + 1 /\ Past + 1 <= arrived
    BY <1>2, <2>1, <2>2 DEF Past
  <2>4. Head(backlog) \in Clients
    BY <2>2, <2>3, ClientsAssumption DEF ProcessInv, Clients
  <2>5. open' \subseteq Descriptors' /\ IsFiniteSet(open') /\ Cardinality(open') <= MaxFds
    <3>1. <<"client", Head(backlog)>> \in Descriptors /\ Descriptors' = Descriptors
      BY <2>4 DEF Descriptors, Listening, Clients
    <3> QED BY <1>2, <3>1, OpenOne DEF ProcessInv, Room
  <2>6. current' \in 0..Past' /\ late' \in Nat /\ late' <= Past'
    BY <1>2, <2>2, <2>3 DEF ProcessInv
  <2> QED BY <1>2, <2>1, <2>5, <2>6 DEF ProcessInv, Stages
<1> QED BY <1>1, <1>2 DEF Accept

\* Another client comes.
LEMMA ComesTyped == ASSUME ProcessInv, FdInv, ClientComes PROVE ProcessInv'
<1>1. /\ arrived' = arrived + 1 /\ backlog' = Append(backlog, arrived + 1)
      /\ arrived < MaxClients
      /\ UNCHANGED <<pc, current, open, g_process, closedBy, late>>
  BY DEF ClientComes
<1>2. Len(backlog') = Len(backlog) + 1 /\ arrived \in Nat /\ Len(backlog) \in Nat
  BY <1>1, AppendProperties, PastIsNumber DEF FdInv, ClientsInv, ProcessInv
<1>3. Past' = Past /\ arrived' \in 0..MaxClients
  BY <1>1, <1>2, ClientsAssumption DEF Past
<1>4. Descriptors' = Descriptors
  BY DEF Descriptors, Listening, Clients
<1> QED BY <1>1, <1>3, <1>4 DEF ProcessInv, Stages, Over

\* Every step keeps it.
LEMMA ProcessInvInductive ==
  ProcessInv /\ FdInv /\ [Next]_vars => ProcessInv'
<1> SUFFICES ASSUME ProcessInv, FdInv, [Next]_vars PROVE ProcessInv'
  OBVIOUS
<1>0. Listening \in Descriptors
  BY DEF Descriptors
<1>1. CASE Command \/ SetUp
  <2>1. pc \in {"options", "setup"}
    BY <1>1 DEF Command, ReadOptions, SetUp
  <2>2. /\ pc' \in {"options", "setup", "exited", "test"}
        /\ open' \in {open, {}, {Listening}}
        /\ UNCHANGED <<backlog, arrived, current, late, g_process, closedBy>>
    BY <1>1 DEF Command, ReadOptions, TakeOption, CheckOptions, Taken, Usage, process, SetUp
  <2>3. IsFiniteSet(open') /\ Cardinality(open') <= MaxFds /\ open' \subseteq Descriptors
    <3>1. /\ IsFiniteSet({}) /\ IsFiniteSet({Listening})
          /\ Cardinality({}) = 0 /\ Cardinality({Listening}) = 1
      BY FS_EmptySet, FS_Singleton
    <3> QED BY <1>0, <2>2, <3>1, FdsAssumption DEF ProcessInv
  <2>4. Past' = Past /\ Descriptors' = Descriptors
    BY <2>2 DEF Past, Descriptors, Listening, Clients
  <2> QED BY <2>2, <2>3, <2>4 DEF ProcessInv, Stages, Over
<1>2. CASE Test
  <2>1. /\ pc' \in {"accept", "stopped"} /\ open' \subseteq open
        /\ UNCHANGED <<backlog, arrived, current, late, g_process, closedBy>>
    BY <1>2 DEF Test
  <2> QED BY <1>0, <2>1, OpensAtMost DEF ProcessInv, Over
<1>3. CASE Accept
  BY <1>3, AcceptTyped
<1>4. ASSUME NEW from \in Stages, NEW to \in Stages, Advance(from, to), NEW what \in {"server", "epoll"},
             open' = open \/ (Room /\ open' = open \cup {<<what, current>>})
      PROVE  ProcessInv'
  <2>1. UNCHANGED <<backlog, arrived, current, late, g_process, closedBy>> /\ pc = from
        /\ pc' = to
    BY <1>4 DEF Advance
  <2>2. current \in Clients
    <3>1. current = Past /\ Past # 0 /\ Past \in Nat /\ Past <= arrived
      BY <2>1, PastIsNumber DEF FdInv, ClientsInv, ProcessInv
    <3> QED BY <3>1, ClientsAssumption DEF ProcessInv, Clients
  <2>3. <<what, current>> \in Descriptors
    BY <2>2 DEF Descriptors
  <2> QED BY <1>4, <2>1, <2>3, OpensAtMost DEF ProcessInv
<1>5. CASE ServerSocket \/ Connect \/ Handshakes \/ SessionEnds
  <2>1. \/ v2r_session_destory
        \/ Advance("socket", "connect") /\ Room /\ open' = open \cup {<<"server", current>>}
        \/ Advance("connect", "vnc") /\ open' = open
        \/ Advance("vnc", "rdp") /\ open' = open
        \/ Advance("rdp", "transmit") /\ Room /\ open' = open \cup {<<"epoll", current>>}
    BY <1>5 DEF ServerSocket, Connect, Handshakes, SessionEnds
  <2> QED BY <2>1, <1>4, DestroyTyped DEF Stages
<1>6. CASE Killed
  <2>1. pc' = "killed" /\ open' = {}
        /\ UNCHANGED <<backlog, arrived, current, late, g_process, closedBy>>
    BY <1>6 DEF Killed
  <2> QED BY <1>0, <2>1, OpensAtMost DEF ProcessInv, Over
<1>7. CASE Sigint
  <2>1. /\ pc' \in {pc, "test"} /\ g_process' = FALSE /\ open' = open
        /\ UNCHANGED <<backlog, arrived, current, late, closedBy>>
    BY <1>7 DEF Sigint, AcceptFailed
  <2> QED BY <1>0, <2>1, OpensAtMost DEF ProcessInv
<1>8. CASE ClientComes
  BY <1>8, ComesTyped
<1>9. CASE PeerCloses
  <2>1. /\ pc' = pc /\ g_process' = g_process /\ open' = open
        /\ UNCHANGED <<backlog, arrived, current, late>>
        /\ \E peer \in {"client", "server"} : closedBy' = closedBy \cup {peer}
    BY <1>9 DEF PeerCloses
  <2>2. closedBy' \subseteq {"client", "server"}
    BY <2>1 DEF ProcessInv
  <2> QED BY <1>0, <2>1, <2>2, OpensAtMost DEF ProcessInv
<1>10. CASE UNCHANGED vars
  BY <1>0, <1>10, OpensAtMost DEF vars, process, ProcessInv
<1> QED BY <1>1, <1>2, <1>3, <1>5, <1>6, <1>7, <1>8, <1>9, <1>10 DEF Next

\* It holds at first.
LEMMA ProcessInvInit == Init => ProcessInv
<1> SUFFICES ASSUME Init PROVE ProcessInv
  OBVIOUS
<1>1. pc = "options"
  BY DEF Init, OptionsInit
<1>2. /\ g_process = TRUE /\ backlog = <<>> /\ arrived = 0 /\ current = 0
      /\ open = {} /\ closedBy = {} /\ late = 0
  BY DEF Init
<1>3. IsFiniteSet(open) /\ Cardinality(open) <= MaxFds
  BY <1>2, FS_EmptySet, FdsAssumption
<1>4. Past = 0 /\ 0 \in 0..MaxClients
  <2>1. Len(backlog) = 0
    BY <1>2
  <2>2. 0 \in 0..MaxClients
    BY ClientsAssumption
  <2>3. Past = 0 - 0
    BY <1>2, <2>1 DEF Past
  <2> QED BY <2>2, <2>3
<1> QED BY <1>1, <1>2, <1>3, <1>4 DEF ProcessInv

\* Every variable has its type, and never more descriptors are open than the process may
\* have.
THEOREM ProxyTypes == Spec => []TypeOK
<1>1. ASSUME OptionsInv, FdInv, ProcessInv PROVE TypeOK
  <2>1. Past \in Nat /\ Past <= arrived /\ arrived \in Nat /\ arrived <= MaxClients
    BY <1>1, PastIsNumber, ClientsAssumption DEF ProcessInv
  <2>2. backlog \in Seq(1..arrived)
    <3>1. backlog \in Seq(Nat) /\ \A i \in 1..Len(backlog) : backlog[i] = Past + i
      BY <1>1 DEF FdInv, ClientsInv
    <3>2. PICK n \in Nat : n = Len(backlog)
      BY <3>1, LenProperties
    <3>3. n = arrived - Past
      BY <2>1, <3>2 DEF Past
    <3>4. \A i \in 1..n : backlog[i] \in 1..arrived
      BY <2>1, <3>1, <3>2, <3>3
    <3>5. backlog = [i \in 1..n |-> backlog[i]]
      BY <3>1, <3>2, LenProperties
    <3>6. backlog \in [1..n -> 1..arrived]
      BY <3>4, <3>5
    <3> QED BY <3>2, <3>6, SeqDef
  <2>3. current \in 0..arrived /\ late \in 0..MaxClients
    BY <1>1, <2>1, ClientsAssumption DEF ProcessInv
  <2>4. DOMAIN gaveUp \subseteq Clients
    <3>1. \A n \in DOMAIN gaveUp : n \in 1..Past
      BY <1>1 DEF FdInv, ClientsInv
    <3>2. 1..Past \subseteq Clients
      BY <2>1, ClientsAssumption DEF Clients
    <3> QED BY <3>1, <3>2
  <2> QED BY <1>1, <2>2, <2>3, <2>4
          DEF TypeOK, OptionsInv, CommandTyped, ProcessInv, Descriptors
<1> QED BY <1>1, OptionsInvInit, OptionsInvInductive, FdInvInit, FdInvInductive,
           ProcessInvInit, ProcessInvInductive, PTL DEF Spec
=============================================================================
