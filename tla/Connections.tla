----------------------------- MODULE Connections -----------------------------
(***************************************************************************)
(* The RPC client and listener setup of loadConfig (src/pktwallet/        *)
(* config.go, lines 473-580), one action per block in the order the code   *)
(* runs them.  activeNet has been chosen; its client and server ports are *)
(* the constants ClientPort and ServerPort.  An early return ends the run *)
(* with pc = "Done" and result = "error"; falling through the last block  *)
(* ends it with result = "ok" and the options handed on to the rest of    *)
(* loadConfig (lines 582-612, modelled by Finish in LoadConfig.tla).      *)
(***************************************************************************)
EXTENDS Addresses

CONSTANTS Unset, NoCA, UserCA, AppCA, PktdCA, Connects, Lists, IOErrors,
          LookupFaults

ASSUME ConnectionsAssumption ==
    /\ Connects \subseteq Address \cup {Unset} /\ Unset \notin Address
    /\ Lists \subseteq Seq(Address)
    /\ {AppCA, PktdCA} \cap {NoCA, UserCA} = {} /\ AppCA # PktdCA
    /\ IOErrors \in BOOLEAN /\ LookupFaults \in BOOLEAN

VARIABLES
    input,         \* the options the block was entered with (never changes)
    files,         \* which of AppCA and PktdCA exist on disk
    connect,       \* cfg.RPCConnect
    caFile,        \* cfg.CAFile, an ExplicitString
    legacy,        \* cfg.LegacyRPCListeners
    experimental,  \* cfg.ExperimentalRPCListeners
    neutrino,      \* whether neutrino.MaxPeers/BanDuration/BanThreshold were set
    pc,            \* the next block
    result         \* "running", "ok" or "error"

vars == <<input, files, connect, caFile, legacy, experimental, neutrino, pc,
          result>>

CS == INSTANCE ConnectionsSpec WITH
        out <- IF pc = "Done" /\ result = "ok"
                 THEN [connect |-> connect, caFile |-> caFile, legacy |-> legacy,
                       experimental |-> experimental, neutrino |-> neutrino]
                 ELSE [connect |-> input.connect, caFile |-> input.caFile,
                       legacy |-> input.legacy,
                       experimental |-> input.experimental, neutrino |-> FALSE],
        result <- IF pc = "Done" THEN result ELSE "running"

Init ==
    /\ input \in CS!Inputs
    /\ files \in SUBSET {AppCA, PktdCA}
    /\ connect = input.connect
    /\ caFile = input.caFile
    /\ legacy = input.legacy
    /\ experimental = input.experimental
    /\ neutrino = FALSE
    /\ pc = "ClientSetup"
    /\ result = "running"

Stop(r) == pc' = "Done" /\ result' = r
Goto(l) == pc' = l /\ UNCHANGED result

(***************************************************************************)
(* Lines 479-500.  Without --userpc the neutrino limits are set.  With it, *)
(* rpcconnect defaults to localhost at the client port and is normalized;  *)
(* a malformed address returns the error.  net.SplitHostPort of a         *)
(* normalized address cannot fail, so the return at line 499 is not       *)
(* reachable.  A TLS client without --cafile goes on to probe for a CA.   *)
(***************************************************************************)
ClientSetup ==
    /\ pc = "ClientSetup"
    /\ \/ /\ ~input.useRPC
          /\ neutrino' = TRUE
          /\ Goto("DefaultListeners")
          /\ UNCHANGED connect
       \/ /\ input.useRPC
          /\ LET c == IF connect = Unset THEN JoinHostPort(Localhost, ClientPort)
                      ELSE connect
             IN  \/ /\ c = Malformed
                    /\ Stop("error")
                    /\ UNCHANGED connect
                 \/ /\ c # Malformed
                    /\ connect' = NormalizeAddress(c, ClientPort)
                    /\ Goto(IF input.clientTLS /\ ~caFile.set
                            THEN "CAFile" ELSE "DefaultListeners")
          /\ UNCHANGED neutrino
    /\ UNCHANGED <<input, files, caFile, legacy, experimental>>

(***************************************************************************)
(* Lines 503-526.  The CA file becomes the copy in appdata.  If that copy  *)
(* does not exist and rpcconnect names a local host, pktd's own cert is   *)
(* used when it exists.  Either cfgutil.FileExists may fail, and then the *)
(* error is returned.                                                      *)
(***************************************************************************)
CAFileChoice ==
    /\ pc = "CAFile"
    /\ LET probesPktd == AppCA \notin files /\ connect.host \in LocalHosts
       IN  \/ /\ IOErrors
              /\ Stop("error")
              /\ UNCHANGED caFile
           \/ /\ probesPktd /\ IOErrors
              /\ Stop("error")
              /\ UNCHANGED caFile
           \/ /\ caFile' = [caFile EXCEPT !.Value =
                              IF probesPktd /\ PktdCA \in files THEN PktdCA
                              ELSE AppCA]
              /\ Goto("DefaultListeners")
    /\ UNCHANGED <<input, files, connect, legacy, experimental, neutrino>>

(***************************************************************************)
(* Lines 535-545.  With no listener of either server, the legacy server   *)
(* listens on every address of localhost at the server port; a failed     *)
(* lookup returns the error.                                               *)
(***************************************************************************)
DefaultListeners ==
    /\ pc = "DefaultListeners"
    /\ \/ /\ Len(legacy) # 0 \/ Len(experimental) # 0
          /\ Goto("NormalizeLegacy")
          /\ UNCHANGED legacy
       \/ /\ Len(legacy) = 0 /\ Len(experimental) = 0
          /\ \/ /\ LookupFaults
                /\ Stop("error")
                /\ UNCHANGED legacy
             \/ /\ legacy' = LocalhostListeners
                /\ Goto("NormalizeLegacy")
    /\ UNCHANGED <<input, files, connect, caFile, experimental, neutrino>>

\* Lines 549-555: default ports and no duplicates in the legacy listeners.
NormalizeLegacy ==
    /\ pc = "NormalizeLegacy"
    /\ \/ /\ ~AddrsValid(legacy)
          /\ Stop("error")
          /\ UNCHANGED legacy
       \/ /\ AddrsValid(legacy)
          /\ legacy' = NormalizeAddresses(legacy, ServerPort)
          /\ Goto("NormalizeExperimental")
    /\ UNCHANGED <<input, files, connect, caFile, experimental, neutrino>>

\* Mutant: the list is validated but the normalized copy is not assigned.
NormalizeExperimentalUnassigned ==
    /\ pc = "NormalizeExperimental"
    /\ \/ /\ ~AddrsValid(experimental)
          /\ Stop("error")
       \/ /\ AddrsValid(experimental)
          /\ Goto("ConflictCheck")
    /\ UNCHANGED <<input, files, connect, caFile, legacy, experimental, neutrino>>

\* Lines 556-562: the same for the experimental listeners.
NormalizeExperimental ==
    /\ pc = "NormalizeExperimental"
    /\ \/ /\ ~AddrsValid(experimental)
          /\ Stop("error")
          /\ UNCHANGED experimental
       \/ /\ AddrsValid(experimental)
          /\ experimental' = NormalizeAddresses(experimental, ServerPort)
          /\ Goto("ConflictCheck")
    /\ UNCHANGED <<input, files, connect, caFile, legacy, neutrino>>

\* Mutant: the conflict check compares the lists as they were given.
ConflictCheckUnnormalized ==
    /\ pc = "ConflictCheck"
    /\ \/ SharedListener(input.legacy, input.experimental) /\ Stop("error")
       \/ ~SharedListener(input.legacy, input.experimental) /\ Stop("ok")
    /\ UNCHANGED <<input, files, connect, caFile, legacy, experimental, neutrino>>

\* Lines 564-580: an address both servers would listen on is an error.
ConflictCheck ==
    /\ pc = "ConflictCheck"
    /\ \/ SharedListener(legacy, experimental) /\ Stop("error")
       \/ ~SharedListener(legacy, experimental) /\ Stop("ok")
    /\ UNCHANGED <<input, files, connect, caFile, legacy, experimental, neutrino>>

\* The block has returned: nothing changes any more.
Terminated == pc = "Done" /\ UNCHANGED vars

Next ==
    \/ ClientSetup \/ CAFileChoice \/ DefaultListeners \/ NormalizeLegacy
    \/ NormalizeExperimental \/ ConflictCheck \/ Terminated

Spec == Init /\ [][Next]_vars

Pcs == {"ClientSetup", "CAFile", "DefaultListeners", "NormalizeLegacy",
        "NormalizeExperimental", "ConflictCheck", "Done"}

TypeOK ==
    /\ input \in CS!Inputs
    /\ files \subseteq {AppCA, PktdCA}
    /\ connect \in Address \cup {Unset}
    /\ caFile \in [Value : {NoCA, UserCA, AppCA, PktdCA}, set : BOOLEAN]
    /\ legacy \in Seq(Address) /\ experimental \in Seq(Address)
    /\ neutrino \in BOOLEAN
    /\ pc \in Pcs
    /\ result \in {"running", "ok", "error"}

(***************************************************************************)
(* The blocks of lines 479-580, run in order with their early returns,     *)
(* implement the one-step promise of ConnectionsSpec: the run succeeds     *)
(* exactly for inputs it accepts (up to file-probe and lookup faults) and *)
(* then hands on the normalized addresses and the chosen CA file.  This   *)
(* is where a conflict check on unnormalized lists, or a CA fallback that *)
(* ignores the host, would show.                                          *)
(***************************************************************************)
ImplementsConnectionsSpec == CS!SpecSpec

(***************************************************************************)
(* Spec section 2 lists what a resolved configuration guarantees of its   *)
(* listeners: every listener address carries a port, and the legacy and   *)
(* experimental lists never share an address.  This says that whenever   *)
(* the block of lines 473-580 returns without an error, both hold of the  *)
(* lists it hands on, whichever path filled them: the looked-up defaults  *)
(* of lines 535-545 or the given lists, normalized at lines 549-562 before *)
(* the comparison of lines 564-580.                                       *)
(***************************************************************************)
ListenersResolved ==
    pc = "Done" /\ result = "ok" =>
        /\ AddrSet(legacy) \cup AddrSet(experimental) \subseteq HostPort
        /\ AddrSet(legacy) \cap AddrSet(experimental) = {}

\* net.Listen on a host name binds one of its addresses, the first one
\* LookupHost gives; on an IP literal it binds that address.
BoundAddress(a) ==
    IF a.host = Localhost THEN JoinHostPort(Head(LocalhostAddrs), a.port) ELSE a

(***************************************************************************)
(* Spec 4.6 gives the reason for the conflict check of lines 564-580: a    *)
(* single interface and port cannot serve both RPC servers.  This says no *)
(* returned configuration has the two servers bind the same address.  The *)
(* code compares the address strings, so "localhost:p" and "127.0.0.1:p"  *)
(* pass the check and both servers then bind 127.0.0.1:p.                 *)
(***************************************************************************)
NoSharedInterface ==
    pc = "Done" /\ result = "ok" =>
        \A a \in AddrSet(legacy), b \in AddrSet(experimental) :
            BoundAddress(a) # BoundAddress(b)
=============================================================================
