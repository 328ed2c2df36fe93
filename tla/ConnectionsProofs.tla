-------------------------- MODULE ConnectionsProofs --------------------------
(***************************************************************************)
(* Proof that the blocks of lines 479-580 (Connections) implement the     *)
(* one-step promise ConnectionsSpec, for every value of the constants.     *)
(*                                                                         *)
(* The refinement mapping shows the abstract outcome only once the code   *)
(* has returned, and the abstract output only for a successful return.    *)
(* Every block before the last return is then a stutter of the abstract   *)
(* spec, and the returning block is its one Resolve step.  What makes that *)
(* so is the invariant RInv: at each pc, the options already handled hold *)
(* the value ConnectionsSpec!Resolved gives them, and the ones not yet    *)
(* handled still hold their input.                                         *)
(***************************************************************************)
EXTENDS Connections, AddressesProofs, TLAPS

R == CS!Resolved(input, files)

\* Nothing has been changed yet.
Untouched ==
    /\ connect = input.connect /\ caFile = input.caFile
    /\ legacy = input.legacy /\ experimental = input.experimental
    /\ neutrino = FALSE

\* The client options are resolved and rpcconnect was well formed.
ClientDone ==
    /\ connect = R.connect /\ caFile = R.caFile /\ neutrino = R.neutrino
    /\ input.useRPC => CS!ConnectOf(input) # Malformed

Listening == {"DefaultListeners", "NormalizeLegacy", "NormalizeExperimental",
              "ConflictCheck"}

RInv ==
    /\ input \in CS!Inputs /\ files \subseteq {AppCA, PktdCA}
    /\ pc \in Pcs /\ result \in {"running", "ok", "error"}
    /\ pc # "Done" => result = "running"
    /\ pc = "ClientSetup" => Untouched
    /\ pc = "CAFile" =>
         /\ CS!ProbesCA(input) /\ CS!ConnectOf(input) # Malformed
         /\ connect = R.connect /\ caFile = input.caFile /\ neutrino = FALSE
         /\ legacy = input.legacy /\ experimental = input.experimental
    /\ pc \in Listening => ClientDone
    /\ pc = "DefaultListeners" =>
         legacy = input.legacy /\ experimental = input.experimental
    /\ pc = "NormalizeLegacy" =>
         legacy = CS!LegacyOf(input) /\ experimental = input.experimental
    /\ pc = "NormalizeExperimental" =>
         /\ legacy = R.legacy /\ AddrsValid(CS!LegacyOf(input))
         /\ experimental = input.experimental
    /\ pc = "ConflictCheck" =>
         /\ legacy = R.legacy /\ experimental = R.experimental
         /\ AddrsValid(CS!LegacyOf(input)) /\ AddrsValid(input.experimental)
    /\ pc = "Done" /\ result = "ok" =>
         /\ CS!Accepted(input) /\ ClientDone
         /\ legacy = R.legacy /\ experimental = R.experimental



(***************************************************************************)
(* ConnectionsSpec extends Addresses too, so the instance CS has its own  *)
(* copies of the address helpers; they are the same operators.            *)
(***************************************************************************)
LEMMA SameHelpers ==
    /\ \A h, p : CS!JoinHostPort(h, p) = JoinHostPort(h, p)
    /\ \A a, p : CS!NormalizeAddress(a, p) = NormalizeAddress(a, p)
    /\ \A s : CS!AddrsValid(s) = AddrsValid(s)
    /\ \A s, p : CS!NormalizeAddresses(s, p) = NormalizeAddresses(s, p)
    /\ \A l, e : CS!SharedListener(l, e) = SharedListener(l, e)
    /\ CS!LocalhostListeners = LocalhostListeners
<1>1. \A h, p : CS!JoinHostPort(h, p) = JoinHostPort(h, p)
    BY DEF CS!JoinHostPort, JoinHostPort
<1>2. \A a, p : CS!NormalizeAddress(a, p) = NormalizeAddress(a, p)
    BY <1>1 DEF CS!NormalizeAddress, NormalizeAddress
<1>3. \A s : CS!AddrsValid(s) = AddrsValid(s)
    BY DEF CS!AddrsValid, AddrsValid, CS!AddrSet, AddrSet
<1>8. \A s : CS!Dedup(s) = Dedup(s)
    BY Zenon DEF CS!Dedup, Dedup, CS!AddrSet, AddrSet
<1>4. \A s, p : CS!NormalizeAddresses(s, p) = NormalizeAddresses(s, p)
    BY <1>2, <1>8 DEF CS!NormalizeAddresses, NormalizeAddresses
<1>5. \A l, e : CS!SharedListener(l, e) = SharedListener(l, e)
    BY DEF CS!SharedListener, SharedListener, CS!AddrSet, AddrSet
<1>6. CS!LocalhostListeners = LocalhostListeners
    BY <1>1 DEF CS!LocalhostListeners, LocalhostListeners
<1>7. QED BY <1>1, <1>2, <1>3, <1>4, <1>5, <1>6

\* The refinement step: a Resolve of the abstract spec, or a stutter of it.
AbsStep == [CS!Resolve]_CS!specVars

LEMMA InitRInv == Init => RInv
BY DEF Init, RInv, Untouched, Pcs, Listening

LEMMA InitRefines == Init => CS!SpecInit
BY DEF Init, CS!SpecInit, CS!Entered

\* A step that leaves pc short of "Done" and input, files unchanged stutters.
LEMMA RunningStutter ==
    ASSUME RInv, pc' # "Done", pc # "Done", UNCHANGED <<input, files>>
    PROVE  AbsStep
BY DEF AbsStep, CS!specVars, RInv

LEMMA ClientSetupStep == RInv /\ ClientSetup => RInv' /\ AbsStep
<1> SUFFICES ASSUME RInv, ClientSetup PROVE RInv' /\ AbsStep
    OBVIOUS
<1>1. Untouched /\ result = "running"
    BY DEF RInv, ClientSetup
<1>2. CASE ~input.useRPC
    <2>1. pc' = "DefaultListeners" /\ neutrino' = TRUE /\ UNCHANGED <<connect, caFile, legacy, experimental, input, files, result>>
        BY <1>2 DEF ClientSetup, Goto
    <2>2. RInv'
        BY <1>1, <1>2, <2>1 DEF RInv, Untouched, ClientDone, R, CS!Resolved, CS!ProbesCA, Listening, Pcs
    <2>3. AbsStep
        BY <2>1, <1>1, RunningStutter DEF ClientSetup
    <2>4. QED BY <2>2, <2>3
<1>3. CASE input.useRPC /\ CS!ConnectOf(input) = Malformed
    <2>1. pc' = "Done" /\ result' = "error" /\ UNCHANGED <<input, files>>
        BY <1>1, <1>3, SameHelpers DEF ClientSetup, Stop, Goto, Untouched, CS!ConnectOf
    <2>2. RInv'
        BY <2>1, <1>1 DEF RInv, Pcs, Listening
    <2>3. ~CS!Accepted(input)
        BY <1>3 DEF CS!Accepted
    <2>4. AbsStep
        BY <2>1, <2>3, <1>1 DEF AbsStep, CS!Resolve, CS!specVars, RInv
    <2>5. QED BY <2>2, <2>4
<1>4. CASE input.useRPC /\ CS!ConnectOf(input) # Malformed
    <2>1. /\ connect' = R.connect
          /\ pc' = IF input.clientTLS /\ ~input.caFile.set THEN "CAFile" ELSE "DefaultListeners"
          /\ UNCHANGED <<caFile, legacy, experimental, neutrino, input, files, result>>
        BY <1>1, <1>4, SameHelpers DEF ClientSetup, Stop, Goto, Untouched, CS!ConnectOf, R, CS!Resolved
    <2>2. RInv'
        BY <2>1, <1>1, <1>4 DEF RInv, Untouched, ClientDone, R, CS!Resolved, CS!ProbesCA, Listening, Pcs
    <2>3. AbsStep
        BY <2>1, RunningStutter DEF ClientSetup
    <2>4. QED BY <2>2, <2>3
<1>5. QED BY <1>2, <1>3, <1>4

\* A return with an error that the abstract spec allows is its Resolve step.
LEMMA ErrorStep ==
    ASSUME RInv, pc # "Done", pc' = "Done", result' = "error",
           UNCHANGED <<input, files>>,
           ~CS!Accepted(input) \/ CS!MayFail(input)
    PROVE  AbsStep /\ RInv'
BY DEF AbsStep, CS!Resolve, CS!specVars, RInv, Pcs, Listening

LEMMA CAFileStep == RInv /\ CAFileChoice => RInv' /\ AbsStep
<1> SUFFICES ASSUME RInv, CAFileChoice PROVE RInv' /\ AbsStep
    OBVIOUS
<1> DEFINE probesPktd == AppCA \notin files /\ connect.host \in LocalHosts
<1>1. /\ pc = "CAFile" /\ result = "running"
      /\ CS!ProbesCA(input) /\ CS!ConnectOf(input) # Malformed
      /\ connect = R.connect /\ caFile = input.caFile /\ neutrino = FALSE
      /\ legacy = input.legacy /\ experimental = input.experimental
    BY DEF RInv, CAFileChoice
<1>2. CASE IOErrors /\ pc' = "Done"
    <2>1. result' = "error" /\ UNCHANGED <<input, files>>
        BY <1>2 DEF CAFileChoice, Stop, Goto
    <2>2. CS!MayFail(input)
        BY <1>1, <1>2 DEF CS!MayFail
    <2>3. QED BY <1>1, <1>2, <2>1, <2>2, ErrorStep
<1>3. CASE ~(IOErrors /\ pc' = "Done")
    <2>1. /\ caFile' = [caFile EXCEPT !.Value =
                          IF probesPktd /\ PktdCA \in files THEN PktdCA ELSE AppCA]
          /\ pc' = "DefaultListeners"
          /\ UNCHANGED <<input, files, connect, legacy, experimental, neutrino, result>>
        BY <1>3 DEF CAFileChoice, Stop, Goto
    <2>2. connect.host = CS!NormalizeAddress(CS!ConnectOf(input), ClientPort).host
        BY <1>1 DEF R, CS!Resolved, CS!ProbesCA
    <2>3. caFile' = R.caFile
        BY <1>1, <2>1, <2>2 DEF R, CS!Resolved, CS!ChosenCA
    <2>4. RInv'
        BY <1>1, <2>1, <2>3 DEF RInv, ClientDone, R, CS!Resolved, CS!ProbesCA, Listening, Pcs
    <2>5. AbsStep
        BY <1>1, <2>1, RunningStutter
    <2>6. QED BY <2>4, <2>5
<1>4. QED BY <1>2, <1>3

\* The listener lists a run is entered with are slices of addresses.
LEMMA InputSlices ==
    ASSUME RInv
    PROVE  input.legacy \in Seq(Address) /\ input.experimental \in Seq(Address)
<1>1. input.legacy \in Lists /\ input.experimental \in Lists
    BY DEF RInv, CS!Inputs
<1>2. QED BY <1>1, ConnectionsAssumption, Zenon

LEMMA DefaultListenersStep == RInv /\ DefaultListeners => RInv' /\ AbsStep
<1> SUFFICES ASSUME RInv, DefaultListeners PROVE RInv' /\ AbsStep
    OBVIOUS
<1>1. /\ pc = "DefaultListeners" /\ result = "running" /\ ClientDone
      /\ legacy = input.legacy /\ experimental = input.experimental
    BY DEF RInv, DefaultListeners, Listening
<1>2. CASE Len(legacy) # 0 \/ Len(experimental) # 0
    <2>1. pc' = "NormalizeLegacy"
          /\ UNCHANGED <<input, files, connect, caFile, legacy, experimental, neutrino, result>>
        BY <1>2 DEF DefaultListeners, Stop, Goto
    <2>2. legacy = CS!LegacyOf(input)
        BY <1>1, <1>2 DEF CS!LegacyOf, CS!NoListeners
    <2>3. RInv'
        BY <1>1, <2>1, <2>2 DEF RInv, ClientDone, R, Listening, Pcs
    <2>4. QED BY <1>1, <2>1, <2>3, RunningStutter
<1>3. CASE Len(legacy) = 0 /\ Len(experimental) = 0
    <2>1. CS!NoListeners(input)
        BY <1>1, <1>3, InputSlices DEF CS!NoListeners
    <2>2. CASE pc' = "Done"
        <3>1. result' = "error" /\ LookupFaults /\ UNCHANGED <<input, files>>
            BY <1>3, <2>2 DEF DefaultListeners, Stop, Goto
        <3>2. CS!MayFail(input)
            BY <2>1, <3>1 DEF CS!MayFail
        <3>3. QED BY <1>1, <2>2, <3>1, <3>2, ErrorStep
    <2>3. CASE pc' # "Done"
        <3>1. pc' = "NormalizeLegacy" /\ legacy' = LocalhostListeners
              /\ UNCHANGED <<input, files, connect, caFile, experimental, neutrino, result>>
            BY <1>3, <2>3 DEF DefaultListeners, Stop, Goto
        <3>2. legacy' = CS!LegacyOf(input)
            BY <2>1, <3>1, SameHelpers DEF CS!LegacyOf
        <3>3. RInv'
            BY <1>1, <3>1, <3>2 DEF RInv, ClientDone, R, Listening, Pcs
        <3>4. QED BY <1>1, <3>1, <3>3, RunningStutter
    <2>4. QED BY <2>2, <2>3
<1>4. QED BY <1>2, <1>3

LEMMA NormalizeLegacyStep == RInv /\ NormalizeLegacy => RInv' /\ AbsStep
<1> SUFFICES ASSUME RInv, NormalizeLegacy PROVE RInv' /\ AbsStep
    OBVIOUS
<1>1. /\ pc = "NormalizeLegacy" /\ result = "running" /\ ClientDone
      /\ legacy = CS!LegacyOf(input) /\ experimental = input.experimental
    BY DEF RInv, NormalizeLegacy, Listening
<1>2. CASE ~AddrsValid(legacy)
    <2>1. pc' = "Done" /\ result' = "error" /\ UNCHANGED <<input, files>>
        BY <1>2 DEF NormalizeLegacy, Stop, Goto
    <2>2. ~CS!Accepted(input)
        BY <1>1, <1>2, SameHelpers DEF CS!Accepted
    <2>3. QED BY <1>1, <2>1, <2>2, ErrorStep
<1>3. CASE AddrsValid(legacy)
    <2>1. pc' = "NormalizeExperimental"
          /\ legacy' = NormalizeAddresses(legacy, ServerPort)
          /\ UNCHANGED <<input, files, connect, caFile, experimental, neutrino, result>>
        BY <1>3 DEF NormalizeLegacy, Stop, Goto
    <2>2. legacy' = R.legacy /\ AddrsValid(CS!LegacyOf(input))
        BY <1>1, <1>3, <2>1, SameHelpers DEF R, CS!Resolved
    <2>3. RInv'
        BY <1>1, <2>1, <2>2 DEF RInv, ClientDone, R, Listening, Pcs
    <2>4. QED BY <1>1, <2>1, <2>3, RunningStutter
<1>4. QED BY <1>2, <1>3

LEMMA NormalizeExperimentalStep ==
    RInv /\ NormalizeExperimental => RInv' /\ AbsStep
<1> SUFFICES ASSUME RInv, NormalizeExperimental PROVE RInv' /\ AbsStep
    OBVIOUS
<1>1. /\ pc = "NormalizeExperimental" /\ result = "running" /\ ClientDone
      /\ legacy = R.legacy /\ AddrsValid(CS!LegacyOf(input))
      /\ experimental = input.experimental
    BY DEF RInv, NormalizeExperimental, Listening
<1>2. CASE ~AddrsValid(experimental)
    <2>1. pc' = "Done" /\ result' = "error" /\ UNCHANGED <<input, files>>
        BY <1>2 DEF NormalizeExperimental, Stop, Goto
    <2>2. ~CS!Accepted(input)
        BY <1>1, <1>2, SameHelpers DEF CS!Accepted
    <2>3. QED BY <1>1, <2>1, <2>2, ErrorStep
<1>3. CASE AddrsValid(experimental)
    <2>1. pc' = "ConflictCheck"
          /\ experimental' = NormalizeAddresses(experimental, ServerPort)
          /\ UNCHANGED <<input, files, connect, caFile, legacy, neutrino, result>>
        BY <1>3 DEF NormalizeExperimental, Stop, Goto
    <2>2. experimental' = R.experimental
        BY <1>1, <2>1, SameHelpers DEF R, CS!Resolved
    <2>3. RInv'
        BY <1>1, <1>3, <2>1, <2>2 DEF RInv, ClientDone, R, Listening, Pcs
    <2>4. QED BY <1>1, <2>1, <2>3, RunningStutter
<1>4. QED BY <1>2, <1>3

LEMMA ConflictCheckStep == RInv /\ ConflictCheck => RInv' /\ AbsStep
<1> SUFFICES ASSUME RInv, ConflictCheck PROVE RInv' /\ AbsStep
    OBVIOUS
<1>1. /\ pc = "ConflictCheck" /\ result = "running" /\ ClientDone
      /\ legacy = R.legacy /\ experimental = R.experimental
      /\ AddrsValid(CS!LegacyOf(input)) /\ AddrsValid(input.experimental)
      /\ UNCHANGED <<input, files, connect, caFile, legacy, experimental, neutrino>>
    BY DEF RInv, ConflictCheck, Listening
<1>2. CS!Accepted(input) <=> ~SharedListener(legacy, experimental)
    BY <1>1, SameHelpers DEF CS!Accepted, ClientDone, R, CS!Resolved
<1>3. CASE SharedListener(legacy, experimental)
    <2>1. pc' = "Done" /\ result' = "error"
        BY <1>3 DEF ConflictCheck, Stop
    <2>2. QED BY <1>1, <1>2, <1>3, <2>1, ErrorStep
<1>4. CASE ~SharedListener(legacy, experimental)
    <2>1. pc' = "Done" /\ result' = "ok"
        BY <1>4 DEF ConflictCheck, Stop
    <2>2. RInv'
        BY <1>1, <1>2, <1>4, <2>1 DEF RInv, ClientDone, R, Pcs, Listening
    <2>3. [connect |-> connect, caFile |-> caFile, legacy |-> legacy,
           experimental |-> experimental, neutrino |-> neutrino] = R
        BY <1>1 DEF ClientDone, R, CS!Resolved
    <2>4. AbsStep
        BY <1>1, <1>2, <1>4, <2>1, <2>3 DEF AbsStep, CS!Resolve, CS!specVars, R
    <2>5. QED BY <2>2, <2>4
<1>5. QED BY <1>3, <1>4

\* A step that changes no variable keeps RInv and stutters.
LEMMA StutterStep == RInv /\ UNCHANGED vars => RInv' /\ AbsStep
BY DEF RInv, vars, AbsStep, CS!specVars, Untouched, ClientDone, R,
       CS!Resolved, CS!ChosenCA, CS!LegacyOf, CS!Accepted, CS!NoListeners,
       CS!ProbesCA, CS!ConnectOf, Listening, Pcs

LEMMA NextStep == RInv /\ [Next]_vars => RInv' /\ AbsStep
<1> SUFFICES ASSUME RInv, [Next]_vars PROVE RInv' /\ AbsStep
    OBVIOUS
<1>1. CASE UNCHANGED vars
    BY <1>1, StutterStep
<1>2. CASE Next
    BY <1>2, StutterStep, ClientSetupStep, CAFileStep, DefaultListenersStep,
       NormalizeLegacyStep, NormalizeExperimentalStep, ConflictCheckStep
    DEF Next, Terminated
<1>3. QED BY <1>1, <1>2

(***************************************************************************)
(* The RPC client and listener setup of lines 479-580 implements           *)
(* ConnectionsSpec for every value of the constants: a successful return  *)
(* happens only for inputs the spec accepts and hands on exactly the      *)
(* resolved options, and an error only for rejected inputs or a failed    *)
(* file probe or lookup.  The runs check the same property as             *)
(* ImplementsConnectionsSpec on a small instance.                         *)
(***************************************************************************)
THEOREM Refinement == Spec => ImplementsConnectionsSpec
<1>1. Init => RInv /\ CS!SpecInit
    BY InitRInv, InitRefines
<1>2. RInv /\ [][Next]_vars => []RInv /\ [][CS!Resolve]_CS!specVars
    BY NextStep, PTL DEF AbsStep
<1>3. QED BY <1>1, <1>2, PTL DEF Spec, ImplementsConnectionsSpec, CS!SpecSpec

(***************************************************************************)
(* Type correctness.  TypeOK is inductive as it stands; what a step needs  *)
(* beyond it is that the address helpers keep addresses addresses: the    *)
(* normalized rpcconnect (line 493), the default listeners (line 540) and *)
(* the normalized and deduplicated listener slices (lines 549-562), the   *)
(* last through DedupType of AddressesProofs.                              *)
(***************************************************************************)
LEMMA LocalhostListenersType == LocalhostListeners \in Seq(Address)
BY AddressAssumption DEF LocalhostListeners, JoinHostPort, Address

LEMMA InitTypeOK == Init => TypeOK
<1> SUFFICES ASSUME Init PROVE TypeOK
    OBVIOUS
<1>1. input.connect \in Address \cup {Unset}
      /\ input.legacy \in Seq(Address) /\ input.experimental \in Seq(Address)
    <2>1. input.connect \in Connects /\ input.legacy \in Lists
          /\ input.experimental \in Lists
        BY DEF Init, CS!Inputs
    <2>2. QED
        BY <2>1, ConnectionsAssumption, Zenon
<1>2. caFile \in [Value : {NoCA, UserCA, AppCA, PktdCA}, set : BOOLEAN]
    <2>1. caFile \in CS!CAFiles
        BY DEF Init, CS!Inputs
    <2>2. CS!CAFiles \subseteq [Value : {NoCA, UserCA, AppCA, PktdCA}, set : BOOLEAN]
        BY DEF CS!CAFiles
    <2>3. QED
        BY <2>1, <2>2
<1>3. QED
    BY <1>1, <1>2 DEF Init, TypeOK, Pcs

LEMMA ClientSetupType == TypeOK /\ ClientSetup => TypeOK'
<1> SUFFICES ASSUME TypeOK, ClientSetup PROVE TypeOK'
    OBVIOUS
<1>1. JoinHostPort(Localhost, ClientPort) \in Address
    BY AddressAssumption DEF JoinHostPort, Address
<1>2. connect' \in Address \cup {Unset}
    <2>1. CASE ~input.useRPC
        <3>1. connect' = connect
            BY <2>1, Zenon DEF ClientSetup
        <3>2. QED
            BY <3>1 DEF TypeOK
    <2>2. CASE input.useRPC
        <3> DEFINE c == IF connect = Unset THEN JoinHostPort(Localhost, ClientPort)
                        ELSE connect
        <3>1. c \in Address
            BY <1>1 DEF TypeOK
        <3>2. connect' = connect \/ connect' = NormalizeAddress(c, ClientPort)
            BY <2>2 DEF ClientSetup, Goto, Stop
        <3>3. QED
            BY <3>1, <3>2, NormalizeAddressType, AddressAssumption DEF TypeOK
    <2>3. QED
        BY <2>1, <2>2
<1>3. QED
    BY <1>2 DEF TypeOK, ClientSetup, Goto, Stop, Pcs

LEMMA CAFileChoiceType == TypeOK /\ CAFileChoice => TypeOK'
BY DEF TypeOK, CAFileChoice, Goto, Stop, Pcs

LEMMA DefaultListenersType == TypeOK /\ DefaultListeners => TypeOK'
BY LocalhostListenersType DEF TypeOK, DefaultListeners, Goto, Stop, Pcs

LEMMA NormalizeLegacyType == TypeOK /\ NormalizeLegacy => TypeOK'
<1> SUFFICES ASSUME TypeOK, NormalizeLegacy PROVE TypeOK'
    OBVIOUS
<1>1. NormalizeAddresses(legacy, ServerPort) \in Seq(Address)
    BY NormalizeAddressesType, AddressAssumption DEF TypeOK
<1>2. QED
    BY <1>1 DEF TypeOK, NormalizeLegacy, Goto, Stop, Pcs

LEMMA NormalizeExperimentalType == TypeOK /\ NormalizeExperimental => TypeOK'
<1> SUFFICES ASSUME TypeOK, NormalizeExperimental PROVE TypeOK'
    OBVIOUS
<1>1. NormalizeAddresses(experimental, ServerPort) \in Seq(Address)
    BY NormalizeAddressesType, AddressAssumption DEF TypeOK
<1>2. QED
    BY <1>1 DEF TypeOK, NormalizeExperimental, Goto, Stop, Pcs

LEMMA ConflictCheckType == TypeOK /\ ConflictCheck => TypeOK'
BY DEF TypeOK, ConflictCheck, Goto, Stop, Pcs

(***************************************************************************)
(* Every state the blocks of lines 479-580 reach is well typed: rpcconnect *)
(* stays an address or unset, the CA file one of the four, and both        *)
(* listener slices stay slices of addresses through the default, the      *)
(* normalization and the deduplication of lines 535-562.  The connections  *)
(* run checks TypeOK on a small instance.                                  *)
(***************************************************************************)
THEOREM TypeCorrect == Spec => []TypeOK
<1>1. Init => TypeOK
    BY InitTypeOK
<1>2. TypeOK /\ [Next]_vars => TypeOK'
    <2> SUFFICES ASSUME TypeOK, [Next]_vars PROVE TypeOK'
        OBVIOUS
    <2>1. CASE UNCHANGED vars
        BY <2>1 DEF TypeOK, vars
    <2>2. CASE Next
        BY <2>2, ClientSetupType, CAFileChoiceType, DefaultListenersType,
           NormalizeLegacyType, NormalizeExperimentalType, ConflictCheckType
        DEF Next, Terminated, TypeOK, vars
    <2>3. QED
        BY <2>1, <2>2
<1>3. QED
    BY <1>1, <1>2, PTL DEF Spec

\* RInv holds in every reachable state.
LEMMA RInvHolds == Spec => []RInv
<1>1. RInv /\ [Next]_vars => RInv'
    BY NextStep
<1>2. QED
    BY <1>1, InitRInv, PTL DEF Spec

\* The list the legacy server is given or defaults to is a slice of addresses.
LEMMA LegacyOfType ==
    ASSUME RInv PROVE CS!LegacyOf(input) \in Seq(Address)
<1>1. CS!LocalhostListeners \in Seq(Address)
    BY LocalhostListenersType, SameHelpers
<1>2. QED
    BY <1>1, InputSlices DEF CS!LegacyOf

\* Slices that do not share a listener have no element in common.
LEMMA NotShared ==
    ASSUME NEW l \in Seq(Address), NEW e \in Seq(Address), ~SharedListener(l, e)
    PROVE  AddrSet(l) \cap AddrSet(e) = {}
<1>1. CASE Len(l) = 0 \/ Len(e) = 0
    <2>1. l = <<>> \/ e = <<>>
        BY <1>1
    <2>2. QED
        BY <2>1 DEF AddrSet
<1>2. CASE Len(l) > 0 /\ Len(e) > 0
    BY <1>2 DEF SharedListener
<1>3. QED
    BY <1>1, <1>2

(***************************************************************************)
(* For every value of the constants, a successful return of lines 473-580  *)
(* hands on listener lists in which every address has a port and no       *)
(* address is in both lists (spec section 2).  The refinement invariant   *)
(* RInv says the lists are then the normalized inputs (or the defaults)   *)
(* and that the conflict check passed on them; NormalizedListeners gives  *)
(* the ports.                                                              *)
(***************************************************************************)
THEOREM ListenersResolvedProved == Spec => []ListenersResolved
<1>1. RInv => ListenersResolved
    <2> SUFFICES ASSUME RInv, pc = "Done", result = "ok"
                 PROVE  /\ AddrSet(legacy) \cup AddrSet(experimental) \subseteq HostPort
                        /\ AddrSet(legacy) \cap AddrSet(experimental) = {}
        BY DEF ListenersResolved
    <2> DEFINE l0 == CS!LegacyOf(input)
               e0 == input.experimental
    <2>1. CS!Accepted(input) /\ legacy = R.legacy /\ experimental = R.experimental
        BY DEF RInv
    <2>2. legacy = NormalizeAddresses(l0, ServerPort)
          /\ experimental = NormalizeAddresses(e0, ServerPort)
        BY <2>1, SameHelpers DEF R, CS!Resolved
    <2>3. AddrsValid(l0) /\ AddrsValid(e0)
          /\ ~SharedListener(legacy, experimental)
        BY <2>1, <2>2, SameHelpers DEF CS!Accepted
    <2>4. l0 \in Seq(Address) /\ e0 \in Seq(Address)
        BY LegacyOfType, InputSlices
    <2>5. /\ legacy \in Seq(Address) /\ AddrSet(legacy) \subseteq HostPort
          /\ experimental \in Seq(Address) /\ AddrSet(experimental) \subseteq HostPort
        BY <2>2, <2>3, <2>4, NormalizedListeners, AddressAssumption
    <2>6. QED
        BY <2>3, <2>5, NotShared
<1>2. QED
    BY <1>1, RInvHolds, PTL
=============================================================================
