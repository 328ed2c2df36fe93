----------------------------- MODULE LayerProofs -----------------------------
(***************************************************************************)
(* Proofs of the layering of loadConfig: the precedence of the command     *)
(* line over the config file over the defaults (LayerPrecedence), and the *)
(* credentials of a returned config (CredentialResolution), for every      *)
(* value of the constants.                                                 *)
(***************************************************************************)
EXTENDS LoadConfigProofs

(***************************************************************************)
(* What cfg holds at each block up to the final parse, as a function of    *)
(* the command line, the config-file layer and the pktd.conf result.  The  *)
(* pre-parse writes the command line's ExplicitStrings through into cfg    *)
(* and leaves everything else at its default; ReadPktdConf then seeds the  *)
(* pktd credentials from pktd.conf.                                        *)
(***************************************************************************)
PreParsed ==
    [f \in Fields |-> IF f \in ExplicitFields THEN Parse(DefaultConfig, cli)[f]
                      ELSE DefaultConfig[f]]

Seeded ==
    IF pktdConf \in PktdCreds
      THEN [PreParsed EXCEPT !.BtcdUsername = pktdConf.user,
                             !.BtcdPassword = pktdConf.pass]
      ELSE PreParsed

LayerStages ==
    /\ pc = "PreParse" =>
         cfg = DefaultConfig /\ fileLayer = EmptyLayer /\ pktdConf = Unread
    /\ pc \in {"ShowVersion", "ConfigPath", "ReadPktdConf"} =>
         cfg = PreParsed /\ fileLayer = EmptyLayer /\ pktdConf = Unread
    /\ pc = "LoadFile" => cfg = Seeded /\ fileLayer = EmptyLayer
    /\ pc = "FinalParse" => cfg = Parse(Seeded, fileLayer)
    /\ pc = "DataDirAlias" => cfg = Parse(Parse(Seeded, fileLayer), cli)

\* The blocks after DataDirAlias, none of which writes a credential.
AfterLayering ==
    {"AppDataPaths", "SelectNetwork", "LogSetup", "TempChecks", "WalletCheck",
     "Bootstrap", "Connections", "Finish"}

CredsKept == pc \in AfterLayering => \A f \in CredFields : cfg[f] = Layered(f)

LInv == BInv /\ LayerStages /\ CredsKept /\ CredentialResolution

(***************************************************************************)
(* Parsing: a layer that sets nothing changes nothing, and what the seeded *)
(* config holds before the file is parsed.                                 *)
(***************************************************************************)
\* The sample config written for a missing file sets no option.
LEMMA ParseEmpty ==
    ASSUME NEW c, ConfigOK(c), c = [f \in Fields |-> c[f]]
    PROVE  Parse(c, EmptyLayer) = c
<1>1. \A f \in FlagFields : c[f] \in BOOLEAN
  BY ConfigFields
<1>2. ASSUME NEW f \in Fields PROVE Parse(c, EmptyLayer)[f] = c[f]
  <2>1. CASE f \in ExplicitFields
    BY <2>1 DEF Parse, EmptyLayer, FlagFields, ExplicitFields
  <2>2. CASE f \in FlagFields
    BY <2>2, <1>1 DEF Parse, EmptyLayer, FlagFields, ExplicitFields
  <2>3. CASE f \notin ExplicitFields \cup FlagFields
    BY <2>3 DEF Parse, EmptyLayer
  <2>4. QED
    BY <2>1, <2>2, <2>3
<1>3. Parse(c, EmptyLayer) = [f \in Fields |-> Parse(c, EmptyLayer)[f]]
  BY DEF Parse
<1>4. QED
  BY <1>2, <1>3

\* Seeded is a config: a function on the option names.
LEMMA SeededFunction == Seeded = [f \in Fields |-> Seeded[f]]
BY DEF Seeded, PreParsed

\* Each option of Seeded: the command line's ExplicitStrings, the pktd
\* credentials of pktd.conf, and the defaults.
LEMMA SeededFields ==
    ASSUME NEW f \in Fields
    PROVE  /\ f \in ExplicitFields =>
                Seeded[f] = IF cli[f] = Unset THEN DefaultConfig[f]
                            ELSE [Value |-> cli[f], set |-> TRUE]
           /\ f \in FlagFields => Seeded[f] = FALSE
           /\ f = "Nets" => Seeded[f] = {}
           /\ f \notin ExplicitFields \cup FlagFields \cup {"Nets"} =>
                Seeded[f] = Underlay(f)
<1>1. f \notin {"BtcdUsername", "BtcdPassword"} => Seeded[f] = PreParsed[f]
  BY DEF Seeded, PreParsed
<1>2. f \in ExplicitFields =>
        PreParsed[f] = IF cli[f] = Unset THEN DefaultConfig[f]
                       ELSE [Value |-> cli[f], set |-> TRUE]
  BY DEF PreParsed, Parse, Fields
<1>3. f \in ExplicitFields => Seeded[f] = PreParsed[f]
  BY <1>1 DEF ExplicitFields
<1>4. f \in FlagFields \cup {"Nets"} => Seeded[f] = DefaultConfig[f]
  BY <1>1 DEF PreParsed, FlagFields, ExplicitFields
<1>5. ASSUME f \notin ExplicitFields \cup FlagFields \cup {"Nets"}
      PROVE  Seeded[f] = Underlay(f)
  <2>1. CASE f = "BtcdUsername"
    BY <2>1 DEF Seeded, PreParsed, Underlay, Fields, ExplicitFields,
       StringFields, CredFields
  <2>2. CASE f = "BtcdPassword"
    BY <2>2 DEF Seeded, PreParsed, Underlay, Fields, ExplicitFields,
       StringFields, CredFields
  <2>3. CASE f \notin {"BtcdUsername", "BtcdPassword"}
    BY <1>1, <1>5, <2>3 DEF PreParsed, Underlay
  <2>4. QED
    BY <2>1, <2>2, <2>3
<1>6. /\ f \in FlagFields => DefaultConfig[f] = FALSE
      /\ f = "Nets" => DefaultConfig[f] = {}
  BY DEF DefaultConfig, FlagFields
<1>7. QED
  BY <1>2, <1>3, <1>4, <1>5, <1>6


\* An ExplicitString of the default config is its default value, not set.
LEMMA DefaultExplicit ==
    ASSUME NEW f \in ExplicitFields
    PROVE  DefaultConfig[f] = [Value |-> DefaultConfig[f].Value, set |-> FALSE]
<1>1. f \in {"ConfigFile", "AppDataDir", "DataDir", "RPCKey", "RPCCert"}
  BY DEF ExplicitFields
<1>2. PICK v : DefaultConfig[f] = NewExplicitString(v)
  BY <1>1 DEF DefaultConfig
<1>3. QED
  BY <1>2 DEF NewExplicitString

\* A layer gives each boolean flag a boolean, never Unset.
LEMMA LayerFlags ==
    ASSUME NEW L, IsLayer(L), NEW f \in FlagFields
    PROVE  L[f] \in BOOLEAN
BY DEF IsLayer, OptionValues, Fields, FlagFields

(***************************************************************************)
(* The parse order of lines 233-305 gives the precedence law: the seeded   *)
(* config, then the file layer, then the command line again.               *)
(***************************************************************************)
LEMMA ParsedPrecedence ==
    ASSUME IsLayer(cli), IsLayer(fileLayer)
    PROVE  Precedence(Parse(Parse(Seeded, fileLayer), cli))
<1> DEFINE P1 == Parse(Seeded, fileLayer)
           C == Parse(P1, cli)
<1> SUFFICES ASSUME NEW f \in Fields
             PROVE  CASE f \in ExplicitFields ->
                           C[f] = [Value |-> Given(cli, f, Given(fileLayer, f, Underlay(f))),
                                   set |-> cli[f] # Unset \/ fileLayer[f] # Unset]
                      [] f \in FlagFields -> C[f] = (cli[f] \/ fileLayer[f])
                      [] f = "Nets" -> C[f] = cli[f] \cup fileLayer[f]
                      [] OTHER -> C[f] = Given(cli, f, Given(fileLayer, f, Underlay(f)))
  BY DEF Precedence
<1>1. CASE f \in ExplicitFields
  <2>1. /\ P1[f] = IF fileLayer[f] = Unset THEN Seeded[f]
                   ELSE [Value |-> fileLayer[f], set |-> TRUE]
        /\ C[f] = IF cli[f] = Unset THEN P1[f]
                  ELSE [Value |-> cli[f], set |-> TRUE]
    BY <1>1 DEF Parse
  <2>2. /\ Seeded[f] = IF cli[f] = Unset THEN DefaultConfig[f]
                       ELSE [Value |-> cli[f], set |-> TRUE]
        /\ DefaultConfig[f] = [Value |-> DefaultConfig[f].Value, set |-> FALSE]
        /\ Underlay(f) = DefaultConfig[f].Value
    <3>1. f \notin {"BtcdUsername", "BtcdPassword"}
      BY <1>1 DEF ExplicitFields
    <3>2. QED
      BY <1>1, <3>1, SeededFields, DefaultExplicit DEF Underlay
  <2>3. C[f] = [Value |-> Given(cli, f, Given(fileLayer, f, Underlay(f))),
                set |-> cli[f] # Unset \/ fileLayer[f] # Unset]
    BY <2>1, <2>2 DEF Given
  <2>4. f \notin FlagFields /\ f # "Nets"
    BY <1>1 DEF ExplicitFields, FlagFields
  <2>5. QED
    BY <1>1, <2>3, <2>4
<1>2. CASE f \in FlagFields
  <2>1. /\ ~(f \in ExplicitFields)
        /\ P1[f] = (Seeded[f] \/ fileLayer[f]) /\ C[f] = (P1[f] \/ cli[f])
    BY <1>2 DEF Parse, FlagFields, ExplicitFields
  <2>2. Seeded[f] = FALSE /\ cli[f] \in BOOLEAN /\ fileLayer[f] \in BOOLEAN
    BY <1>2, SeededFields, LayerFlags
  <2>3. C[f] = (cli[f] \/ fileLayer[f])
    BY <2>1, <2>2
  <2>4. f # "Nets"
    BY <1>2 DEF FlagFields
  <2>5. QED
    BY <2>1, <2>3, <2>4, <1>2
<1>3. CASE f = "Nets"
  <2>1. /\ ~(f \in ExplicitFields) /\ ~(f \in FlagFields)
        /\ P1[f] = Seeded[f] \cup fileLayer[f] /\ C[f] = P1[f] \cup cli[f]
    BY <1>3 DEF Parse, FlagFields, ExplicitFields
  <2>2. Seeded[f] = {}
    BY <1>3, SeededFields
  <2>3. C[f] = cli[f] \cup fileLayer[f]
    BY <2>1, <2>2
  <2>4. QED
    BY <2>1, <2>3, <1>3
<1>4. CASE f \notin ExplicitFields \cup FlagFields \cup {"Nets"}
  <2>1. /\ P1[f] = IF fileLayer[f] = Unset THEN Seeded[f] ELSE fileLayer[f]
        /\ C[f] = IF cli[f] = Unset THEN P1[f] ELSE cli[f]
    BY <1>4 DEF Parse
  <2>2. Seeded[f] = Underlay(f)
    BY <1>4, SeededFields
  <2>3. C[f] = Given(cli, f, Given(fileLayer, f, Underlay(f)))
    BY <2>1, <2>2 DEF Given
  <2>4. QED
    BY <2>3, <1>4
<1>5. QED
  BY <1>1, <1>2, <1>3, <1>4


\* The credentials of a config that satisfies the precedence law are the
\* layered ones.
LEMMA PrecedenceCreds ==
    ASSUME NEW c, Precedence(c), NEW f \in CredFields
    PROVE  c[f] = Layered(f)
<1>1. f \in Fields /\ f \notin ExplicitFields \cup FlagFields \cup {"Nets"}
  BY DEF CredFields, Fields, StringFields, ExplicitFields, FlagFields
<1>2. QED
  BY <1>1 DEF Precedence, Layered

\* The sample config is a layer.
LEMMA EmptyLayerIsLayer == IsLayer(EmptyLayer)
BY DEF IsLayer, EmptyLayer, OptionValues, Fields, FlagFields, ExplicitFields,
   StringFields, CredFields

\* Once the pre-parse has accepted it, the command line is a layer, and so
\* is the file layer read.
LEMMA LayersOK ==
    ASSUME IInv, pc \notin {"PreParse", "Done"}
    PROVE  IsLayer(cli) /\ IsLayer(fileLayer)
<1>1. cli \in CliLayers /\ fileLayer \in FileLayers \cup {EmptyLayer}
  BY DEF IInv, CliAccepted, TypeOK
<1>2. IsLayer(cli)
  BY <1>1, ConstantsAssumption, Zenon
<1>3. IsLayer(fileLayer)
  BY <1>1, EmptyLayerIsLayer, ConstantsAssumption, Zenon
<1>4. QED
  BY <1>2, <1>3

-----------------------------------------------------------------------------
(***************************************************************************)
(* The inductive invariant, one lemma per action.                          *)
(***************************************************************************)
LPart == LayerStages /\ CredsKept /\ CredentialResolution

\* A step that ends the run without a config keeps LPart.
LEMMA FailedLPart ==
    ASSUME pc' = "Done", result' # "ok" PROVE LPart'
BY DEF LPart, LayerStages, CredsKept, CredentialResolution, AfterLayering

\* Before the run returns there is nothing to say of a returned config.
LEMMA RunningCreds ==
    ASSUME BInv', pc' # "Done" PROVE CredentialResolution'
BY DEF BInv, Running, CredentialResolution

LEMMA PreParseLPart ==
    ASSUME LInv, BInv', PreParse PROVE LPart'
<1>1. CASE cli = BadArgs
  BY <1>1, FailedLPart DEF PreParse, Stop
<1>2. CASE cli # BadArgs
  <2>1. /\ pc = "PreParse" /\ pc' = "ShowVersion"
        /\ cfg' = [f \in Fields |-> IF f \in ExplicitFields
                                    THEN Parse(cfg, cli)[f] ELSE cfg[f]]
        /\ UNCHANGED <<cli, fileLayer, pktdConf>>
    BY <1>2 DEF PreParse, Goto
  <2>2. cfg = DefaultConfig /\ fileLayer = EmptyLayer /\ pktdConf = Unread
    BY <2>1 DEF LInv, LayerStages
  <2>3. cfg' = PreParsed'
    BY <2>1, <2>2 DEF PreParsed
  <2>4. CredentialResolution'
    BY <2>1, RunningCreds
  <2>5. QED
    BY <2>1, <2>2, <2>3, <2>4 DEF LPart, LayerStages, CredsKept, AfterLayering
<1>3. QED
  BY <1>1, <1>2

\* ShowVersion and ConfigPath only read the pre-parsed copy.
LEMMA ReadOnlyLPart ==
    ASSUME LInv, BInv', ShowVersion \/ ConfigPath PROVE LPart'
<1>1. /\ pc \in {"ShowVersion", "ConfigPath"}
      /\ UNCHANGED <<cli, cfg, fileLayer, pktdConf>>
      /\ \/ pc' \in {"ConfigPath", "ReadPktdConf"}
         \/ pc' = "Done" /\ result' = "exit"
  BY DEF ShowVersion, ConfigPath, Stop, Goto
<1>2. CASE pc' = "Done"
  BY <1>1, <1>2, FailedLPart
<1>3. CASE pc' # "Done"
  <2>1. CredentialResolution'
    BY <1>3, RunningCreds
  <2>2. QED
    BY <1>1, <1>3, <2>1 DEF LInv, LPart, LayerStages, CredsKept,
       AfterLayering, PreParsed
<1>4. QED
  BY <1>2, <1>3

(***************************************************************************)
(* ReadPktdConf: skipped, the config is already the seeded one (Unread is  *)
(* no credential pair); read, it seeds exactly the pktd credentials.       *)
(***************************************************************************)
LEMMA ReadPktdConfLPart ==
    ASSUME LInv, BInv', ReadPktdConf PROVE LPart'
<1>1. /\ pc = "ReadPktdConf" /\ cfg = PreParsed /\ pktdConf = Unread
      /\ fileLayer = EmptyLayer
      /\ UNCHANGED <<cli, fileLayer>>
  BY DEF ReadPktdConf, LInv, LayerStages
<1>2. CASE pc' = "Done"
  <2>1. result' = "nilError"
    BY <1>2 DEF ReadPktdConf, Goto, Stop
  <2>2. QED
    BY <1>2, <2>1, FailedLPart
<1>3. CASE pc' # "Done"
  <2>1. pc' = "LoadFile"
    BY <1>3 DEF ReadPktdConf, Goto, Stop
  <2>2. cfg' = Seeded'
    <3>1. CASE UNCHANGED <<cfg, pktdConf>>
      <4>1. Unread \notin PktdCreds
        BY DEF Unread, PktdCreds
      <4>2. QED
        BY <1>1, <3>1, <4>1 DEF Seeded, PreParsed
    <3>2. CASE ~UNCHANGED <<cfg, pktdConf>>
      <4>1. PICK r \in PktdConfOutcomes :
                 /\ pktdConf' = r
                 /\ \/ r.kind = "creds"
                       /\ cfg' = [cfg EXCEPT !.BtcdUsername = r.user,
                                             !.BtcdPassword = r.pass]
                    \/ r.kind \in {"missing", "short"} /\ cfg' = cfg
        BY <1>3, <3>2 DEF ReadPktdConf, Stop, Goto
      <4>2. r \in PktdConfResults
        BY ConstantsAssumption, Zenon
      <4>3. r \in PktdCreds <=> r.kind = "creds"
        BY <4>2 DEF PktdConfResults, PktdCreds
      <4>4. QED
        BY <1>1, <4>1, <4>3 DEF Seeded, PreParsed
    <3>3. QED
      BY <3>1, <3>2
  <2>3. CredentialResolution'
    BY <1>3, RunningCreds
  <2>4. QED
    BY <1>1, <2>1, <2>2, <2>3 DEF LPart, LayerStages, CredsKept, AfterLayering
<1>4. QED
  BY <1>2, <1>3

(***************************************************************************)
(* LoadFile: the file layer read is parsed over the seeded config; a       *)
(* missing file leaves the config as it was, which is the same as parsing  *)
(* the sample config that sets nothing.                                    *)
(***************************************************************************)
LEMMA LoadFileLPart ==
    ASSUME LInv, BInv', LoadFile PROVE LPart'
<1>1. /\ pc = "LoadFile" /\ cfg = Seeded /\ fileLayer = EmptyLayer
      /\ UNCHANGED <<cli, pktdConf>>
  BY DEF LoadFile, LInv, LayerStages
<1>2. CASE pc' = "Done"
  <2>1. result' = "error"
    BY <1>2 DEF LoadFile, Goto, Stop
  <2>2. QED
    BY <1>2, <2>1, FailedLPart
<1>3. CASE pc' # "Done"
  <2>1. pc' = "FinalParse"
    BY <1>3 DEF LoadFile, Goto, Stop
  <2>2. Seeded' = Seeded
    BY <1>1 DEF Seeded, PreParsed
  <2>3. cfg' = Parse(Seeded, fileLayer')
    <3>1. CASE UNCHANGED <<cfg, fileLayer>>
      <4>1. ConfigOK(Seeded)
        BY <1>1 DEF LInv, BInv, IInv, TypeOK
      <4>2. QED
        BY <1>1, <3>1, <4>1, SeededFunction, ParseEmpty
    <3>2. CASE ~UNCHANGED <<cfg, fileLayer>>
      BY <1>1, <1>3, <3>2 DEF LoadFile, Stop, Goto
    <3>3. QED
      BY <3>1, <3>2
  <2>4. CredentialResolution'
    BY <1>3, RunningCreds
  <2>5. QED
    BY <2>1, <2>2, <2>3, <2>4 DEF LPart, LayerStages, CredsKept, AfterLayering
<1>4. QED
  BY <1>2, <1>3

\* FinalParse: the command line parsed again over the file.
LEMMA FinalParseLPart ==
    ASSUME LInv, BInv', FinalParse PROVE LPart'
<1>1. /\ pc = "FinalParse" /\ cfg = Parse(Seeded, fileLayer)
      /\ pc' = "DataDirAlias" /\ cfg' = Parse(cfg, cli)
      /\ UNCHANGED <<cli, fileLayer, pktdConf>>
  BY DEF FinalParse, Goto, LInv, LayerStages
<1>2. Seeded' = Seeded
  BY <1>1 DEF Seeded, PreParsed
<1>3. CredentialResolution'
  BY <1>1, RunningCreds
<1>4. QED
  BY <1>1, <1>2, <1>3 DEF LPart, LayerStages, CredsKept, AfterLayering


\* Which options are credentials: none of the paths.
LEMMA CredNames ==
    ASSUME NEW f \in CredFields
    PROVE  /\ f \in Fields
           /\ f \notin {"AppDataDir", "RPCKey", "RPCCert", "LogDir"}
BY DEF CredFields, Fields, StringFields

\* DataDirAlias: the layered credentials are now in cfg.
LEMMA DataDirAliasLPart ==
    ASSUME LInv, BInv', DataDirAlias PROVE LPart'
<1>1. /\ pc = "DataDirAlias" /\ pc' = "AppDataPaths"
      /\ cfg = Parse(Parse(Seeded, fileLayer), cli)
      /\ UNCHANGED <<cli, fileLayer, pktdConf>>
      /\ \/ cfg' = [cfg EXCEPT !.AppDataDir.Value = cfg.DataDir.Value]
         \/ cfg' = cfg
  BY DEF DataDirAlias, Goto, LInv, LayerStages
<1>2. IsLayer(cli) /\ IsLayer(fileLayer)
  BY <1>1, LayersOK DEF LInv, BInv
<1>3. Precedence(cfg)
  BY <1>1, <1>2, ParsedPrecedence
<1>4. ASSUME NEW f \in CredFields PROVE cfg'[f] = Layered(f)'
  <2>1. cfg[f] = Layered(f)
    BY <1>3, PrecedenceCreds
  <2>2. f \in DOMAIN cfg /\ f # "AppDataDir"
    BY CredNames DEF LInv, BInv, IInv, TypeOK, ConfigOK
  <2>3. cfg'[f] = cfg[f]
    BY <1>1, <2>2
  <2>4. Layered(f)' = Layered(f)
    BY <1>1 DEF Layered, Underlay, Given
  <2>5. QED
    BY <2>1, <2>3, <2>4
<1>5. CredentialResolution'
  BY <1>1, RunningCreds
<1>6. QED
  BY <1>1, <1>4, <1>5 DEF LPart, LayerStages, CredsKept, AfterLayering

\* A block after DataDirAlias that does not return a config keeps LPart
\* when it leaves the credentials and the layers alone.
LEMMA LaterLPart ==
    ASSUME LInv, BInv', pc \in AfterLayering, pc' \in AfterLayering,
           \A f \in CredFields : cfg'[f] = cfg[f],
           UNCHANGED <<cli, fileLayer, pktdConf>>
    PROVE  LPart'
<1>1. \A f \in CredFields : Layered(f)' = Layered(f)
  BY DEF Layered, Underlay, Given
<1>2. CredsKept'
  BY <1>1 DEF LInv, CredsKept
<1>3. pc' # "Done"
  BY DEF AfterLayering
<1>4. CredentialResolution'
  BY <1>3, RunningCreds
<1>5. QED
  BY <1>2, <1>4 DEF LPart, LayerStages, AfterLayering

\* What the blocks from AppDataPaths to Connections do to the credentials.
LaterShape ==
    \/ pc' = "Done" /\ result' \in {"error", "exit"}
    \/ /\ pc \in AfterLayering /\ pc' \in AfterLayering
       /\ \A f \in CredFields : cfg'[f] = cfg[f]
       /\ UNCHANGED <<cli, fileLayer, pktdConf>>

LEMMA LaterBlocksLPart ==
    ASSUME LInv, BInv',
           \/ AppDataPaths \/ SelectNetwork \/ LogSetup \/ TempChecks
           \/ WalletCheck \/ Bootstrap \/ Connections
    PROVE  LPart'
<1>0. \A f \in CredFields : f \in DOMAIN cfg
  BY CredNames DEF LInv, BInv, IInv, TypeOK, ConfigOK
<1>1. LaterShape
  <2>1. CASE AppDataPaths
    <3>1. \A f \in CredFields : f \notin {"AppDataDir", "RPCKey", "RPCCert"}
      BY CredNames
    <3>2. QED
      BY <2>1, <1>0, <3>1 DEF AppDataPaths, Goto, LaterShape, AfterLayering
  <2>2. CASE SelectNetwork
    BY <2>2 DEF SelectNetwork, Stop, Goto, LaterShape, AfterLayering
  <2>3. CASE LogSetup
    <3>1. \A f \in CredFields : f # "LogDir"
      BY CredNames
    <3>2. QED
      BY <2>3, <1>0, <3>1 DEF LogSetup, Stop, Goto, LaterShape, AfterLayering
  <2>4. CASE TempChecks
    BY <2>4 DEF TempChecks, Stop, Goto, LaterShape, AfterLayering
  <2>5. CASE WalletCheck
    BY <2>5 DEF WalletCheck, Stop, Goto, LaterShape, AfterLayering
  <2>6. CASE Bootstrap
    BY <2>6 DEF Bootstrap, BootstrapTemp, BootstrapCreate, BootstrapReject,
       BootstrapDefer, Stop, Goto, LaterShape, AfterLayering
  <2>7. CASE Connections
    BY <2>7 DEF Connections, Stop, Goto, LaterShape, AfterLayering
  <2>8. QED
    BY <2>1, <2>2, <2>3, <2>4, <2>5, <2>6, <2>7
<1>2. CASE pc' = "Done"
  <2>1. result' # "ok"
    BY <1>1, <1>2 DEF LaterShape, AfterLayering
  <2>2. QED
    BY <1>2, <2>1, FailedLPart
<1>3. CASE pc' # "Done"
  BY <1>1, <1>3, LaterLPart DEF LaterShape
<1>4. QED
  BY <1>2, <1>3


(***************************************************************************)
(* Finish: the fallbacks of lines 587-603 applied to the layered           *)
(* credentials give the credentials CredentialResolution names.            *)
(***************************************************************************)
LEMMA FinishLPart ==
    ASSUME LInv, BInv', Finish PROVE LPart'
<1> DEFINE d == [cfg EXCEPT !.RPCCert.Value = CleanAndExpandPath(@),
                            !.RPCKey.Value = CleanAndExpandPath(@)]
<1>1. /\ pc = "Finish" /\ pc' = "Done" /\ result' = "ok"
      /\ cfg' = CredentialFallback(d)
      /\ UNCHANGED <<cli, fileLayer, pktdConf>>
  BY DEF Finish, Stop
<1>2. \A f \in CredFields : d[f] = Layered(f)
  <2>1. \A f \in CredFields : f \in DOMAIN cfg /\ f \notin {"RPCCert", "RPCKey"}
    BY CredNames DEF LInv, BInv, IInv, TypeOK, ConfigOK
  <2>2. \A f \in CredFields : cfg[f] = Layered(f)
    BY <1>1 DEF LInv, CredsKept, AfterLayering
  <2>3. QED
    BY <2>1, <2>2
<1>3. \A f \in CredFields : Layered(f)' = Layered(f)
  BY <1>1 DEF Layered, Underlay, Given
<1>4. {"Username", "Password", "OldUsername", "OldPassword", "BtcdUsername",
       "BtcdPassword"} \subseteq DOMAIN d
  BY CredNames DEF LInv, BInv, IInv, TypeOK, ConfigOK, CredFields
<1>5. /\ d.Username = Layered("Username") /\ d.Password = Layered("Password")
      /\ d.OldUsername = Layered("OldUsername")
      /\ d.OldPassword = Layered("OldPassword")
      /\ d.BtcdUsername = Layered("BtcdUsername")
      /\ d.BtcdPassword = Layered("BtcdPassword")
  BY <1>2 DEF CredFields
<1>6. CredentialResolution'
  <2>1. CredentialResolution' =
          LET user == IF Layered("Username") # NoCred THEN Layered("Username")
                      ELSE Layered("OldUsername")
              pass == IF Layered("Password") # NoCred THEN Layered("Password")
                      ELSE Layered("OldPassword")
          IN  /\ cfg'.Username = user /\ cfg'.Password = pass
              /\ cfg'.BtcdUsername = IF Layered("BtcdUsername") # NoCred
                                     THEN Layered("BtcdUsername") ELSE user
              /\ cfg'.BtcdPassword = IF Layered("BtcdPassword") # NoCred
                                     THEN Layered("BtcdPassword") ELSE pass
    BY <1>1, <1>3 DEF CredentialResolution, CredFields
  <2>2. QED
    BY <1>1, <1>4, <1>5, <2>1 DEF CredentialFallback
<1>7. QED
  BY <1>1, <1>6 DEF LPart, LayerStages, CredsKept, AfterLayering

LEMMA InitLInv == Init => LInv
<1> SUFFICES ASSUME Init PROVE LInv
  OBVIOUS
<1>1. BInv
  BY InitBInv
<1>2. QED
  BY <1>1 DEF Init, LInv, LayerStages, CredsKept, CredentialResolution,
     AfterLayering

LEMMA NextLInv == LInv /\ [Next]_vars => LInv'
<1> SUFFICES ASSUME LInv, [Next]_vars PROVE LInv'
  OBVIOUS
<1>1. BInv'
  BY NextBInv DEF LInv
<1>2. CASE Terminated \/ UNCHANGED vars
  <2>1. UNCHANGED vars
    BY <1>2 DEF Terminated
  <2>2. LPart'
    BY <2>1 DEF vars, LInv, LPart, LayerStages, CredsKept, CredentialResolution,
       PreParsed, Seeded, Layered, Underlay, Given
  <2>3. QED
    BY <1>1, <2>2 DEF LInv, LPart
<1>3. CASE ~(Terminated \/ UNCHANGED vars)
  <2>1. LPart'
    BY <1>1, <1>3, PreParseLPart, ReadOnlyLPart, ReadPktdConfLPart,
       LoadFileLPart, FinalParseLPart, DataDirAliasLPart, LaterBlocksLPart,
       FinishLPart DEF Next
  <2>2. QED
    BY <1>1, <2>1 DEF LInv, LPart
<1>4. QED
  BY <1>2, <1>3

(***************************************************************************)
(* LayerPrecedence, for every value of the constants: once the final parse *)
(* of line 305 has run, every option holds the command line's value, else  *)
(* the config file's, else its default (pktd.conf's for the pktd          *)
(* credentials), and an ExplicitString is explicit exactly when a layer    *)
(* set it, in spite of the pre-parse writing through the shared pointers   *)
(* (lines 231-305).                                                        *)
(***************************************************************************)
THEOREM LayerPrecedenceProved == Spec => []LayerPrecedence
<1>1. LInv => LayerPrecedence
  <2> SUFFICES ASSUME LInv, pc = "DataDirAlias" PROVE Precedence(cfg)
    BY DEF LayerPrecedence
  <2>1. cfg = Parse(Parse(Seeded, fileLayer), cli)
    BY DEF LInv, LayerStages
  <2>2. IsLayer(cli) /\ IsLayer(fileLayer)
    BY LayersOK DEF LInv, BInv
  <2>3. QED
    BY <2>1, <2>2, ParsedPrecedence
<1>2. QED
  BY <1>1, InitLInv, NextLInv, PTL DEF Spec

(***************************************************************************)
(* CredentialResolution, for every value of the constants: a returned     *)
(* config holds the layered RPC credentials or their legacy aliases, and   *)
(* the layered pktd credentials (pktd.conf's under both layers) or those   *)
(* RPC ones (lines 267-305 and 587-603).                                   *)
(***************************************************************************)
THEOREM CredentialResolutionProved == Spec => []CredentialResolution
<1>1. LInv => CredentialResolution
  BY DEF LInv
<1>2. QED
  BY <1>1, InitLInv, NextLInv, PTL DEF Spec

=============================================================================
