--------------------------- MODULE ConnectionsSpec ---------------------------
(***************************************************************************)
(* What the RPC client and listener setup of loadConfig (lines 473-580)    *)
(* promises, as one step from the options it is entered with to its        *)
(* outcome (spec 4.6):                                                     *)
(*   - it succeeds only if the rpcconnect address (when the RPC client is  *)
(*     used) and every listener address are well formed, and no address   *)
(*     is left in both non-empty listener lists once normalized;          *)
(*   - it then hands on the normalized addresses, the CA file chosen for  *)
(*     a TLS client and, without the RPC client, the neutrino settings;   *)
(*   - besides rejecting those inputs it may only fail when a file probe  *)
(*     or the lookup of localhost fails.                                  *)
(* Connections.tla takes the same step in the order of the code's blocks. *)
(***************************************************************************)
EXTENDS Addresses

CONSTANTS
    Unset,        \* rpcconnect was not given (the empty string)
    NoCA,         \* the default CA file value, the empty string
    UserCA,       \* a CA file the user gave with --cafile
    AppCA,        \* filepath.Join(appdata, "pktd.cert")
    PktdCA,       \* pktdDefaultCAFile, pktd's own rpc.cert
    Connects,     \* the rpcconnect values a run may be given
    Lists,        \* the listener lists a run may be given
    IOErrors,     \* whether cfgutil.FileExists may fail
    LookupFaults  \* whether net.LookupHost("localhost") may fail

CAFiles == {[Value |-> NoCA, set |-> FALSE], [Value |-> UserCA, set |-> TRUE]}

\* The options of the config struct this part of loadConfig reads.
Inputs == [useRPC : BOOLEAN, clientTLS : BOOLEAN, connect : Connects,
           caFile : CAFiles, legacy : Lists, experimental : Lists]

VARIABLES
    input,   \* the options the block is entered with
    files,   \* which of the two default CA files exist
    out,     \* the options it hands on
    result   \* "running", then "ok" or "error"

specVars == <<input, files, out, result>>

\* The options as they are entered with, before the block changes any.
Entered(i) == [connect |-> i.connect, caFile |-> i.caFile, legacy |-> i.legacy,
               experimental |-> i.experimental, neutrino |-> FALSE]

ConnectOf(i) ==
    IF i.connect = Unset THEN JoinHostPort(Localhost, ClientPort) ELSE i.connect

\* A TLS client with no --cafile probes for a CA file.
ProbesCA(i) == i.useRPC /\ i.clientTLS /\ ~i.caFile.set

\* The CA copy in appdata, or pktd's own cert for a local pktd when the
\* copy is missing and that cert exists.
ChosenCA(i, f) ==
    IF AppCA \notin f /\ PktdCA \in f
       /\ NormalizeAddress(ConnectOf(i), ClientPort).host \in LocalHosts
    THEN PktdCA ELSE AppCA

\* With neither list given, the legacy server listens on localhost.
NoListeners(i) == i.legacy = <<>> /\ i.experimental = <<>>
LegacyOf(i) == IF NoListeners(i) THEN LocalhostListeners ELSE i.legacy

Accepted(i) ==
    /\ i.useRPC => ConnectOf(i) # Malformed
    /\ AddrsValid(LegacyOf(i)) /\ AddrsValid(i.experimental)
    /\ ~SharedListener(NormalizeAddresses(LegacyOf(i), ServerPort),
                       NormalizeAddresses(i.experimental, ServerPort))

MayFail(i) == (ProbesCA(i) /\ IOErrors) \/ (NoListeners(i) /\ LookupFaults)

Resolved(i, f) ==
    [connect |-> IF i.useRPC THEN NormalizeAddress(ConnectOf(i), ClientPort)
                 ELSE i.connect,
     caFile |-> IF ProbesCA(i) THEN [i.caFile EXCEPT !.Value = ChosenCA(i, f)]
                ELSE i.caFile,
     legacy |-> NormalizeAddresses(LegacyOf(i), ServerPort),
     experimental |-> NormalizeAddresses(i.experimental, ServerPort),
     neutrino |-> ~i.useRPC]

SpecInit ==
    /\ input \in Inputs
    /\ files \in SUBSET {AppCA, PktdCA}
    /\ out = Entered(input)
    /\ result = "running"

Resolve ==
    /\ result = "running"
    /\ \/ /\ Accepted(input)
          /\ out' = Resolved(input, files)
          /\ result' = "ok"
       \/ /\ ~Accepted(input) \/ MayFail(input)
          /\ result' = "error"
          /\ UNCHANGED out
    /\ UNCHANGED <<input, files>>

SpecSpec == SpecInit /\ [][Resolve]_specVars
=============================================================================
