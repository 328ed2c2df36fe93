------------------------------ MODULE Addresses ------------------------------
(***************************************************************************)
(* The network addresses of the RPC client and listener setup of          *)
(* loadConfig (src/pktwallet/config.go, lines 473-580), and the address    *)
(* helpers it calls from cfgutil (NormalizeAddress, NormalizeAddresses).   *)
(*                                                                         *)
(* An address is a host and a port, or Malformed: a string that           *)
(* net.SplitHostPort rejects even after a default port is added.  A host  *)
(* written without a port has port NoPort.  The listener lists are Go     *)
(* slices, so they are sequences: order and duplicates are kept.          *)
(***************************************************************************)
EXTENDS Naturals, Sequences, FiniteSets

CONSTANTS
    Hosts,          \* host names and IPs an address may name
    Localhost,      \* the host name "localhost"
    LocalHosts,     \* the keys of localhostListeners (line 473)
    LocalhostAddrs, \* what net.LookupHost("localhost") returns (line 536)
    Ports,          \* port numbers
    ClientPort,     \* activeNet.RPCClientPort
    ServerPort,     \* activeNet.RPCServerPort
    NoPort,         \* "no port was written"
    Malformed       \* an address NormalizeAddress rejects

Address == [host : Hosts, port : Ports \cup {NoPort}] \cup {Malformed}
HostPort == [host : Hosts, port : Ports]

ASSUME AddressAssumption ==
    /\ Localhost \in LocalHosts /\ LocalHosts \subseteq Hosts
    /\ LocalhostAddrs \in Seq(Hosts) /\ LocalhostAddrs # <<>>
    /\ ClientPort \in Ports /\ ServerPort \in Ports
    /\ NoPort \notin Ports /\ Malformed \notin HostPort

\* The elements of a slice.
AddrSet(s) == {s[i] : i \in DOMAIN s}

\* net.JoinHostPort(host, port).
JoinHostPort(h, p) == [host |-> h, port |-> p]

(***************************************************************************)
(* cfgutil.NormalizeAddress: a well-formed address keeps its port, one     *)
(* without a port gets the default port; a malformed one is the error,    *)
(* left as it is.  cfgutil is not under src/, so this and                 *)
(* NormalizeAddresses follow the spec (4.6).                               *)
(***************************************************************************)
NormalizeAddress(a, p) ==
    IF a # Malformed /\ a.port = NoPort THEN JoinHostPort(a.host, p) ELSE a

\* NormalizeAddresses fails on the first malformed address of the slice.
AddrsValid(s) == Malformed \notin AddrSet(s)

\* The slice without its repeated elements, first occurrences kept in order.
Dedup(s) ==
    LET kept[i \in 0..Len(s)] ==
          IF i = 0 THEN <<>>
          ELSE IF s[i] \in AddrSet(kept[i - 1]) THEN kept[i - 1]
          ELSE Append(kept[i - 1], s[i])
    IN  kept[Len(s)]

\* cfgutil.NormalizeAddresses of a slice without malformed addresses.
NormalizeAddresses(s, p) ==
    Dedup([i \in DOMAIN s |-> NormalizeAddress(s[i], p)])

\* The default legacy listeners of lines 540-544: localhost's addresses,
\* each at the server port, in the order LookupHost returned them.
LocalhostListeners ==
    [i \in DOMAIN LocalhostAddrs |-> JoinHostPort(LocalhostAddrs[i], ServerPort)]

\* Lines 565-579: both lists are non-empty and some address is in both.
SharedListener(legacy, experimental) ==
    /\ Len(legacy) > 0 /\ Len(experimental) > 0
    /\ \E a \in AddrSet(experimental) : a \in AddrSet(legacy)
=============================================================================
