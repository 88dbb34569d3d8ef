-------------------------------- MODULE Proxy --------------------------------
(***************************************************************************)
(* The process of the proxy (vnc2rdp.c, main and process_connection): from *)
(* its command line to its end, with the clients that queue at its         *)
(* listening socket, one session after another, the descriptors they open, *)
(* and SIGINT at any moment.  What happens inside a session is in          *)
(* Handshake and Session; here it only succeeds, fails, or never ends.     *)
(***************************************************************************)
EXTENDS Options

CONSTANTS MaxClients,   \* bound: clients, numbered as they come
          MaxFds        \* descriptors the process may have open, but the standard ones

ASSUME FdsAssumption == MaxFds \in Nat \ {0}
ASSUME ClientsAssumption == MaxClients \in Nat

VARIABLES
  g_process,   \* cleared by SIGINT
  backlog,     \* clients connected and not accepted, in order
  arrived,     \* number of clients that have come
  current,     \* the client served, or 0
  open,        \* descriptors open: <<what for, client>>
  closedBy,    \* peers of the session that have closed their connection
  gaveUp,      \* where the sessions of earlier clients ended
  late         \* clients accepted after SIGINT

process == <<g_process, backlog, arrived, current, open, closedBy, gaveUp, late>>
vars == <<command, settings, pc, process>>

Clients == 1..MaxClients
Stages == {"socket", "connect", "vnc", "rdp", "transmit"}
Listening == <<"listen", 0>>
Room == Cardinality(open) < MaxFds
Over == {"exited", "stopped", "killed"}

Init ==
  /\ OptionsInit
  /\ g_process = TRUE /\ backlog = <<>> /\ arrived = 0 /\ current = 0
  /\ open = {} /\ closedBy = {} /\ gaveUp = [n \in {} |-> ""] /\ late = 0

Command == ReadOptions /\ UNCHANGED process

\* sigaction, socket, setsockopt, inet_pton, bind and listen: any may fail; inet_pton
\* does for what is no address.
SetUp ==
  /\ pc = "setup"
  /\ \/ pc' = "exited" /\ open' = {}
     \/ Convertible(listen.ip) /\ pc' = "test" /\ open' = {Listening}
  /\ UNCHANGED <<command, settings, g_process, backlog, arrived, current, closedBy,
                 gaveUp, late>>

(***************************************************************************)
(* The loop over the clients.                                              *)
(***************************************************************************)
Test ==
  /\ pc = "test"
  /\ \/ g_process /\ pc' = "accept" /\ open' = open
     \/ ~g_process /\ pc' = "stopped" /\ open' = {}
  /\ UNCHANGED <<command, settings, g_process, backlog, arrived, current, closedBy,
                 gaveUp, late>>

\* Mutant: a failed accept() is repeated without looking at g_process.
RetryAtOnce == pc' = "accept"

\* accept() that fails is logged, and the loop goes on.
AcceptFailed == pc' = "test"

\* accept() needs a descriptor before it looks for a client: without one it fails at
\* once.  Else it takes the first client, or waits ("waiting").
Accept ==
  /\ pc \in {"accept", "waiting"}
  /\ \/ ~Room /\ pc = "accept" /\ AcceptFailed
        /\ UNCHANGED <<backlog, current, open, closedBy, late>>
     \/ Room /\ pc = "accept" /\ backlog = <<>> /\ pc' = "waiting"
        /\ UNCHANGED <<backlog, current, open, closedBy, late>>
     \/ Room /\ backlog # <<>>
        /\ current' = Head(backlog) /\ backlog' = Tail(backlog)
        /\ open' = open \cup {<<"client", Head(backlog)>>}
        /\ closedBy' = {} /\ pc' = "socket"
        /\ late' = IF g_process THEN late ELSE late + 1
  /\ UNCHANGED <<command, settings, g_process, arrived, gaveUp>>

(***************************************************************************)
(* process_connection.                                                     *)
(***************************************************************************)
\* Mutant: the descriptor of epoll is not closed.
ClosesNoEpoll(stage, n) ==
  (IF stage \in {"vnc", "rdp", "transmit"} THEN {<<"server", n>>} ELSE {})
  \cup (IF stage \in {"rdp", "transmit"} THEN {<<"client", n>>} ELSE {})

\* Mutant: the client's descriptor is not closed.
ClosesNoClient(stage, n) ==
  (IF stage \in {"vnc", "rdp", "transmit"} THEN {<<"server", n>>} ELSE {})
  \cup (IF stage = "transmit" THEN {<<"epoll", n>>} ELSE {})

\* Descriptors that v2r_session_destory closes, by how far the session came: each
\* is closed by the layer it was handed to.
Closes(stage, n) ==
  (IF stage \in {"vnc", "rdp", "transmit"} THEN {<<"server", n>>} ELSE {})
  \cup (IF stage \in {"rdp", "transmit"} THEN {<<"client", n>>} ELSE {})
  \cup (IF stage = "transmit" THEN {<<"epoll", n>>} ELSE {})

\* Mutant: the process goes on to accept() without looking at g_process.
DestroyAndAccept ==
  /\ open' = open \ Closes(pc, current)
  /\ gaveUp' = [n \in DOMAIN gaveUp \cup {current} |->
                 IF n = current THEN pc ELSE gaveUp[n]]
  /\ current' = 0 /\ pc' = "accept"
  /\ UNCHANGED <<command, settings, g_process, backlog, arrived, closedBy, late>>

v2r_session_destory ==
  /\ open' = open \ Closes(pc, current)
  /\ gaveUp' = [n \in DOMAIN gaveUp \cup {current} |->
                 IF n = current THEN pc ELSE gaveUp[n]]
  /\ current' = 0 /\ pc' = "test"
  /\ UNCHANGED <<command, settings, g_process, backlog, arrived, closedBy, late>>

Advance(from, to) ==
  /\ pc = from /\ pc' = to
  /\ UNCHANGED <<command, settings, g_process, backlog, arrived, current, closedBy,
                 gaveUp, late>>

\* A socket for the server, if there is a descriptor left.
ServerSocket ==
  \/ Room /\ Advance("socket", "connect") /\ open' = open \cup {<<"server", current>>}
  \/ ~Room /\ pc = "socket" /\ v2r_session_destory

\* connect() and v2r_session_init: an address that is none, a server that cannot be
\* reached, a signal, want of memory.
Connect ==
  \/ Convertible(server.ip) /\ Advance("connect", "vnc") /\ UNCHANGED open
  \/ pc = "connect" /\ v2r_session_destory

\* The two handshakes of v2r_session_build_conn.  They may wait for ever.
Handshakes ==
  \/ Advance("vnc", "rdp") /\ UNCHANGED open
  \/ Advance("rdp", "transmit") /\ Room /\ open' = open \cup {<<"epoll", current>>}
  \/ pc \in {"vnc", "rdp"} /\ v2r_session_destory
  \* epoll_create() fails
  \/ pc = "rdp" /\ ~Room /\ v2r_session_destory

\* v2r_session_transmit returns.
SessionEnds == pc = "transmit" /\ v2r_session_destory

\* Sending to a peer that has closed its connection raises SIGPIPE, which ends the
\* process; the system closes what it has open.
Killed ==
  /\ \/ pc \in {"vnc", "transmit"} /\ "server" \in closedBy
     \/ pc \in {"rdp", "transmit"} /\ "client" \in closedBy
  /\ pc' = "killed" /\ open' = {}
  /\ UNCHANGED <<command, settings, g_process, backlog, arrived, current, closedBy,
                 gaveUp, late>>

(***************************************************************************)
(* The environment.                                                        *)
(***************************************************************************)
\* SIGINT runs the handler, and makes a waiting accept() fail.  (What it interrupts in
\* a session makes one of the steps above fail.)
Sigint ==
  /\ pc \notin Over \cup {"options", "setup"}
  /\ g_process \/ pc = "waiting"
  /\ g_process' = FALSE
  /\ IF pc = "waiting" THEN AcceptFailed ELSE pc' = pc
  /\ UNCHANGED <<command, settings, backlog, arrived, current, open, closedBy, gaveUp,
                 late>>

ClientComes ==
  /\ Listening \in open /\ arrived < MaxClients
  /\ arrived' = arrived + 1 /\ backlog' = Append(backlog, arrived + 1)
  /\ UNCHANGED <<command, settings, pc, g_process, current, open, closedBy, gaveUp, late>>

PeerCloses ==
  /\ pc \in {"vnc", "rdp", "transmit"}
  /\ \E peer \in {"client", "server"} \ closedBy : closedBy' = closedBy \cup {peer}
  /\ UNCHANGED <<command, settings, pc, g_process, backlog, arrived, current, open,
                 gaveUp, late>>

Next ==
  \/ Command \/ SetUp \/ Test \/ Accept
  \/ ServerSocket \/ Connect \/ Handshakes \/ SessionEnds
  \/ Killed \/ Sigint \/ ClientComes \/ PeerCloses

Spec == Init /\ [][Next]_vars

\* The process runs; a handshake and a session last as long as the peers like.
Running == Command \/ SetUp \/ Test \/ Accept \/ ServerSocket \/ Connect
FairSpec == Spec /\ WF_vars(Running)

(***************************************************************************)
(* Properties.                                                             *)
(***************************************************************************)
\* Every variable has its type.
TypeOK ==
  /\ args \in Seq(Arguments) /\ optind \in 0..Len(args)
  /\ operands \in Seq(Servers)
  /\ opt.encryption_method \in METHODS
  /\ pc \in Stages \cup Over \cup {"options", "setup", "test", "accept", "waiting"}
  /\ g_process \in BOOLEAN
  /\ arrived \in 0..MaxClients /\ backlog \in Seq(1..arrived)
  /\ current \in 0..arrived
  /\ open \subseteq {Listening} \cup ({"client", "server", "epoll"} \X Clients)
  /\ Cardinality(open) <= MaxFds
  /\ closedBy \subseteq {"client", "server"}
  /\ DOMAIN gaveUp \subseteq Clients
  /\ late \in 0..MaxClients

\* Descriptors that nothing will close any more: the client's of a session whose
\* handshake with the server failed or was not reached, and the server's of one whose
\* connection was not set up (vnc2rdp.c:51, 64, 70, 77).
Abandoned ==
  {<<"client", n>> : n \in {m \in DOMAIN gaveUp : gaveUp[m] \in {"socket", "connect", "vnc"}}}
  \cup {<<"server", n>> : n \in {m \in DOMAIN gaveUp : gaveUp[m] = "connect"}}

\* Between sessions, what is open besides the listening socket is exactly what sessions
\* that failed before the client was handed over have left: a session that came further
\* leaves nothing, whatever way it ended.
NothingElseLeft ==
  pc \in {"test", "accept", "waiting"} => open = {Listening} \cup Abandoned

\* After SIGINT at most one more client is accepted, although the handler may run
\* between the test of g_process and accept().
OneLateClient == late <= 1

InSession == pc \in {"vnc", "rdp", "transmit"}

\* SIGINT stops the proxy, even one that cannot accept for want of descriptors, unless
\* a session lasts for ever, or the signal came just before accept() and no client
\* comes after it.
StopsOnSigint ==
  ~g_process ~> (pc \in Over \/ [](pc = "waiting" /\ backlog = <<>>) \/ []InSession)

\* Every client that comes is served, until the proxy is stopped or killed, or
\* descriptors that were abandoned leave none for the next client: sessions that fail
\* before the client is handed over are the only thing that uses descriptors up.
Starved == Cardinality({Listening} \cup Abandoned) >= MaxFds
ClientsServed ==
  \A n \in Clients :
    n \in Range(backlog) ~>
      (current = n \/ n \in DOMAIN gaveUp \/ pc \in Over \/ []InSession \/ Starved)
=============================================================================
