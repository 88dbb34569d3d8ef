------------------------------- MODULE Options -------------------------------
(***************************************************************************)
(* The command line of the proxy (vnc2rdp.c, main and parse_address): the  *)
(* options are taken one after another, each able to change what earlier   *)
(* ones have set, and what remains is the address of the VNC server.       *)
(*                                                                         *)
(* A host or a password is a text with its length, which the buffers it is *)
(* copied to limit; the text of a shorter length stands for its beginning. *)
(***************************************************************************)
EXTENDS Integers, Sequences, FiniteSets, SequencesExt

CONSTANTS Listens,      \* arguments of -l, addresses
          Methods,      \* arguments of -e, names of methods and others
          Passwords,    \* arguments of -p
          Servers,      \* addresses of the VNC server
          MaxArgs       \* bound: options of a command line

METHODS == {"none", "40bit", "56bit", "128bit"}
INET_ADDRSTRLEN == 16   \* size of the buffer of a host,
PASSWORD_LEN == 8       \* and of the password

Texts == [text : STRING, len : Nat]
Empty == [text |-> "", len |-> 0]

\* A host, and after a colon the number that atoi() finds in what is there, if anything.
Addresses == [ip : Texts, colon : BOOLEAN, port : Seq(Int)]
DefaultListen == [ip |-> [text |-> "0.0.0.0", len |-> 7], port |-> 3389]
NoAddress == [ip |-> Empty, port |-> 0]

ASSUME ArgumentsAssumption ==
         /\ Listens \cup Servers \subseteq Addresses /\ Methods \cup Passwords \subseteq Texts
         /\ MaxArgs \in Nat

\* An option with its argument; for -l the rest of the address is kept apart.
Opt(name, value, colon, port) ==
  [name |-> name, value |-> value, colon |-> colon, port |-> port]
Plain(name, value) == Opt(name, value, FALSE, <<>>)
Arguments == {Opt("l", a.ip, a.colon, a.port) : a \in Listens}
             \cup {Plain("e", m) : m \in Methods} \cup {Plain("p", w) : w \in Passwords}
             \cup {Plain(c, Empty) : c \in {"s", "n", "v", "h"}}
AddressOf(a) == [ip |-> a.value, colon |-> a.colon, port |-> a.port]

VARIABLES
  args,      \* the options given, and
  operands,  \* what is given besides them
  optind,    \* how many of the options are taken
  opt,       \* the session options, with the flags shared and noshared
  listen,    \* listen_ip and listen_port
  server,    \* vnc_server_ip and vnc_server_port
  pc         \* where the process is

command == <<args, operands>>
settings == <<optind, opt, listen, server>>

OptionsInit ==
  /\ args \in SeqOf(Arguments, MaxArgs)
  /\ operands \in SeqOf(Servers, 1)
  /\ optind = 0
  /\ opt = [encryption_method |-> "none", vnc_password |-> Empty,
            shared |-> FALSE, noshared |-> FALSE, viewonly |-> FALSE]
  /\ listen = DefaultListen /\ server = NoAddress
  /\ pc = "options"

\* What a port keeps of the int that atoi() returns.
uint16(n) == n % 65536

\* A host that does not fit the buffer is ignored; so is none before a colon, but an
\* address that is empty as a whole clears the host.
SetsHost(a) == a.ip.len <= INET_ADDRSTRLEN /\ (a.colon => a.ip.len # 0)

\* A host as long as the buffer is terminated in the byte behind the buffer.
Overruns(a) == a.ip.len = INET_ADDRSTRLEN

\* Mutant: a part the address lacks is cleared instead of left as it was.
ParseAddressClears(a, default) ==
  [ip   |-> IF a.ip.len <= INET_ADDRSTRLEN THEN a.ip ELSE default.ip,
   port |-> IF a.port = <<>> THEN 0 ELSE uint16(a.port[1])]

\* A part that the address lacks stays as it was; the port is an uint16_t.
parse_address(a, default) ==
  [ip   |-> IF SetsHost(a) THEN a.ip ELSE default.ip,
   port |-> IF a.port = <<>> THEN default.port ELSE uint16(a.port[1])]

Usage == pc' = "exited" /\ UNCHANGED <<optind, opt, listen, server>>
Taken == optind' = optind + 1 /\ UNCHANGED <<pc, server>>

\* Mutant: a name that is no method is not refused.
AnyMethod(m) == TRUE

KnownMethod(m) == m.text \in METHODS

\* What of the process may lie in the byte behind listen_ip, as the compiler places its
\* variables: a flag, the low byte of listen_port, or nothing that counts.
BehindListenIp == {"shared", "noshared", "listen_port", "nothing"}

TakeListen(a) ==
  \E behind \in BehindListenIp :
    /\ Overruns(a) \/ behind = "nothing"
    /\ listen' = parse_address(a, IF behind = "listen_port"
                                    THEN [listen EXCEPT !.port = @ - (@ % 256)] ELSE listen)
    /\ opt' = [opt EXCEPT !.shared = @ /\ behind # "shared",
                           !.noshared = @ /\ behind # "noshared"]

\* As much of the password as there is room for.
strncpy(w) == [w EXCEPT !.len = IF @ < PASSWORD_LEN THEN @ ELSE PASSWORD_LEN]

\* The case of -e has no break: a method that is known becomes the password too.
TakeOption(a) ==
  \/ a.name = "l" /\ Taken /\ TakeListen(AddressOf(a))
  \/ a.name = "e" /\ KnownMethod(a.value) /\ Taken /\ UNCHANGED listen
     /\ opt' = [opt EXCEPT !.encryption_method = a.value.text,
                            !.vnc_password = strncpy(a.value)]
  \/ a.name = "e" /\ ~KnownMethod(a.value) /\ Usage
  \/ a.name = "p" /\ Taken /\ UNCHANGED listen
     /\ opt' = [opt EXCEPT !.vnc_password = strncpy(a.value)]
  \/ a.name = "s" /\ Taken /\ UNCHANGED listen /\ opt' = [opt EXCEPT !.shared = TRUE]
  \/ a.name = "n" /\ Taken /\ UNCHANGED listen /\ opt' = [opt EXCEPT !.noshared = TRUE]
  \/ a.name = "v" /\ Taken /\ UNCHANGED listen /\ opt' = [opt EXCEPT !.viewonly = TRUE]
  \/ a.name = "h" /\ Usage

\* inet_pton() takes no host that is empty, or that fills the buffer.
Convertible(ip) == ip.len \in 1..INET_ADDRSTRLEN - 1

\* Both flags, or no address with both its parts, end the process;
\* without --noshared the desktop is shared.
CheckOptions ==
  LET good == {a \in ToSet(operands) :
                 LET s == parse_address(a, server) IN s.ip.len # 0 /\ s.port # 0}
      refused == good = {} \/ (opt.shared /\ opt.noshared)
  IN \/ refused /\ Usage
     \/ ~refused
        /\ opt' = [opt EXCEPT !.shared = ~opt.noshared]
        /\ server' = parse_address(operands[1], server)
        /\ pc' = "setup" /\ UNCHANGED <<optind, listen>>

ReadOptions ==
  /\ pc = "options" /\ UNCHANGED command
  /\ \/ optind < Len(args) /\ TakeOption(args[optind + 1])
     \/ optind = Len(args) /\ CheckOptions

(***************************************************************************)
(* Properties.                                                             *)
(***************************************************************************)
Given(name) == {i \in 1..Len(args) : args[i].name = name}
\* The last of the options that has the property P, or else the default.
LastOf(P(_), value(_), default) ==
  LET S == {i \in 1..Len(args) : P(args[i])}
  IN IF S = {} THEN default
     ELSE value(args[Max(S)])

Started == pc \notin {"options", "exited"}

\* No -l has a host as long as the buffer.
NoOverrun == \A i \in Given("l") : ~Overruns(AddressOf(args[i]))

\* The host of the last -l whose host fits, and the port of the last with a port.
GivenHost ==
  LET isL(a) == a.name = "l" /\ SetsHost(AddressOf(a))  value(a) == a.value
  IN LastOf(isL, value, DefaultListen.ip)
GivenPort ==
  LET hasPort(a) == a.name = "l" /\ a.port # <<>>  port(a) == uint16(a.port[1])
  IN LastOf(hasPort, port, DefaultListen.port)

\* The process listens where the options say; a host that just fills the buffer may take
\* back half of the port.
ListenMeant ==
  /\ listen.ip = GivenHost
  /\ \/ listen.port = GivenPort
     \/ ~NoOverrun /\ listen.port = GivenPort - (GivenPort % 256)

\* The last -e counts, and it is a method.
MethodMeant ==
  /\ LET isE(a) == a.name = "e"  method(a) == a.value.text
     IN opt.encryption_method = LastOf(isE, method, "none")
  /\ opt.encryption_method \in METHODS

\* Not both --shared and --noshared, and shared if neither; a host that just fills the
\* buffer may take back a flag.
FlagsMeant ==
  /\ ~opt.shared => Given("n") # {}
  /\ NoOverrun => opt.shared = (Given("n") = {}) /\ (Given("n") = {} \/ Given("s") = {})
  /\ opt.viewonly = (Given("v") # {}) /\ Given("h") = {}

ServerMeant ==
  /\ server.ip = operands[1].ip /\ server.ip.len \in 1..INET_ADDRSTRLEN
  /\ server.port = uint16(operands[1].port[1]) /\ server.port # 0

\* A process that starts does what usage() says of its options, except for hosts of -l
\* that overrun the buffer, which can undo only what the parts above say; and it has a
\* server with a host and a port.
OptionsMeant == Started => ListenMeant /\ MethodMeant /\ FlagsMeant /\ ServerMeant

\* The password is the one of the last -p, as usage() says (vnc2rdp.c:134), as much of it
\* as a VNC server uses.
PasswordAsGiven ==
  Started =>
    LET isP(a) == a.name = "p"  password(a) == strncpy(a.value)
    IN opt.vnc_password = LastOf(isP, password, Empty)
=============================================================================
