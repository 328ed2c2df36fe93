---------------------------- MODULE MCConnections ----------------------------
(***************************************************************************)
(* Small values for the constants of Connections.  Four hosts: localhost,  *)
(* the two addresses it resolves to, and a remote host; two ports.  The    *)
(* addresses are chosen so that a port-less address and a ported one       *)
(* normalize to the same listener, and localhost and 127.0.0.1 name the    *)
(* same interface.                                                         *)
(***************************************************************************)
EXTENDS Connections

CONSTANTS localhost, ip4, ip6, remote, p8332, p8334, noPort, malformed, unset,
          noCA, userCA, appCA, pktdCA

MCHosts == {localhost, ip4, ip6, remote}
MCLocalHosts == {localhost, ip4, ip6}
MCLocalhostAddrs == <<ip4, ip6>>
MCPorts == {p8332, p8334}

lhNoPort == [host |-> localhost, port |-> noPort]
lhServer == [host |-> localhost, port |-> p8332]
ip4Server == [host |-> ip4, port |-> p8332]
remoteClient == [host |-> remote, port |-> p8334]

MCConnects == {unset, malformed, lhNoPort, remoteClient}

\* Listener slices of length at most Max over the addresses A.
SlicesOf(A, Max) == UNION {[1..n -> A] : n \in 0..Max}

\* Every slice of up to two addresses, and one of three where a port-less
\* address and a ported one normalize to the same listener with another
\* in between.
MCLists ==
    SlicesOf({lhNoPort, lhServer, ip4Server, malformed}, 2)
        \cup {<<lhNoPort, ip4Server, lhServer>>}

=============================================================================
