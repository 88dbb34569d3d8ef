------------------------------ MODULE MCProxy ------------------------------
(* Small instances of Proxy for TLC.                                       *)
EXTENDS Proxy

Text(text, len) == [text |-> text, len |-> len]
Host(text, len) == [ip |-> Text(text, len), colon |-> FALSE, port |-> <<>>]
HostPort(text, len, port) == [ip |-> Text(text, len), colon |-> TRUE, port |-> port]

\* A host alone, a port alone, an empty address, a host that fills the buffer, and one
\* that is too long, with a port beyond 2^16.
SmallListens == {Host("10.0.0.1", 8), HostPort("", 0, <<4000>>), Host("", 0),
                 Host("a-host-16-bytes.", 16), HostPort("a-host-17-bytes..", 17, <<70000>>)}
SmallServers == {HostPort("10.0.0.9", 8, <<5900>>), HostPort("10.0.0.9", 8, <<65536>>),
                 HostPort("", 0, <<5900>>), Host("10.0.0.9", 8),
                 HostPort("a-host-16-bytes.", 16, <<5900>>),
                 HostPort("a-host-17-bytes..", 17, <<5900>>)}
SmallMethods == {Text("128bit", 6), Text("bogus", 5)}
SmallPasswords == {Text("secret-longer", 13)}
=============================================================================
