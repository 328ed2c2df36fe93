--------------------------- MODULE LoadConfigProofs ---------------------------
(***************************************************************************)
(* Proofs about LoadConfig for every value of its constants.               *)
(***************************************************************************)
EXTENDS LoadConfig, SequenceTheorems, FiniteSetTheorems, TLAPS

USE ConstantsAssumption

(***************************************************************************)
(* Paths: expanding a root path or a file path keeps its shape, and       *)
(* joining a name onto a root gives a file path.                           *)
(***************************************************************************)
LEMMA ExpandRootPath ==
    ASSUME NEW p \in RootPath
    PROVE  CleanAndExpandPath(p) \in RootPath
BY DEF CleanAndExpandPath, RootPath

LEMMA ExpandFilePath ==
    ASSUME NEW p \in FilePath
    PROVE  CleanAndExpandPath(p) \in FilePath
BY DEF CleanAndExpandPath, FilePath

LEMMA JoinRootPath ==
    ASSUME NEW p \in RootPath, NEW n \in Names
    PROVE  Join(p, n) \in FilePath
<1>1. PICK r \in Roots : p = <<r>>
  BY DEF RootPath
<1> DEFINE S == Roots \cup Names
<1>2. /\ <<r>> \in Seq(S) /\ <<r, n>> \in Seq(S)
      /\ Len(<<r, n>>) = 2 /\ <<r, n>>[1] = r /\ <<r, n>>[2] = n
  OBVIOUS
<1>3. /\ Append(<<r>>, n) \in Seq(S)
      /\ Len(Append(<<r>>, n)) = 2
      /\ Append(<<r>>, n)[1] = r
      /\ Append(<<r>>, n)[2] = n
  BY <1>2, AppendProperties
<1>4. Append(<<r>>, n) = <<r, n>>
  <2>1. \A i \in 1 .. 2 : Append(<<r>>, n)[i] = <<r, n>>[i]
    BY <1>2, <1>3
  <2>2. QED
    BY <1>2, <1>3, <2>1, SeqEqual
<1>5. QED
  BY <1>1, <1>4 DEF Join, FilePath

(***************************************************************************)
(* A parse of a layer keeps every option within its type, and leaves a    *)
(* log directory that is not yet namespaced by a network as it was or a    *)
(* root path.                                                              *)
(***************************************************************************)
LEMMA ParseOK ==
    ASSUME NEW c, NEW L, ConfigOK(c), IsLayer(L)
    PROVE  /\ ConfigOK(Parse(c, L))
           /\ c.LogDir \in LogDirs => Parse(c, L).LogDir \in LogDirs
<1>1. ConfigOK(Parse(c, L))
  BY DEF ConfigOK, IsLayer, Parse, FieldType, OptionValues, Fields, LogPaths,
         ExplicitFields, FlagFields, CredFields, StringFields, ExplicitString,
         LogDirs
<1>2. c.LogDir \in LogDirs => Parse(c, L).LogDir \in LogDirs
  BY DEF IsLayer, Parse, OptionValues, Fields, ExplicitFields, FlagFields,
         CredFields, StringFields, LogDirs
<1>3. QED
  BY <1>1, <1>2

LEMMA DefaultPaths ==
    /\ defaultAppDataDir \in RootPath
    /\ defaultConfigFile \in FilePath /\ defaultRPCKeyFile \in FilePath
    /\ defaultRPCCertFile \in FilePath /\ defaultLogDir \in FilePath
<1>1. defaultAppDataDir \in RootPath
  BY DEF defaultAppDataDir, RootPath
<1>2. QED
  BY <1>1, JoinRootPath DEF defaultConfigFile, defaultRPCKeyFile,
     defaultRPCCertFile, defaultLogDir, defaultConfigFilename

LEMMA DefaultConfigOK ==
    /\ ConfigOK(DefaultConfig)
    /\ DefaultConfig.LogDir \in LogDirs
BY DefaultPaths DEF ConfigOK, DefaultConfig, NewExplicitString, FieldType,
   OptionValues, LogPaths,
     Fields, ExplicitFields, FlagFields, CredFields, StringFields,
     ExplicitString, LogDirs

(***************************************************************************)
(* The type of each option of a well-typed config, by name.               *)
(***************************************************************************)
LEMMA ConfigFields ==
    ASSUME NEW c, ConfigOK(c)
    PROVE  /\ c.ConfigFile \in ExplicitString(FilePath)
           /\ c.RPCKey \in ExplicitString(FilePath)
           /\ c.RPCCert \in ExplicitString(FilePath)
           /\ c.AppDataDir \in ExplicitString(RootPath)
           /\ c.DataDir \in ExplicitString(RootPath)
           /\ c.LogDir \in LogPaths
           /\ c.DebugLevel \in LogLevels
           /\ \A f \in CredFields : c[f] \in Creds \cup {NoCred}
           /\ \A f \in FlagFields : c[f] \in BOOLEAN
           /\ c.Nets \in SUBSET Nets
BY DEF ConfigOK, FieldType, OptionValues, Fields, ExplicitFields, FlagFields,
   CredFields, StringFields

\* A dependent path rederived under a root path is a file path again.
LEMMA RederiveOK ==
    ASSUME NEW es \in ExplicitString(FilePath), NEW app \in RootPath,
           NEW n \in Names
    PROVE  Rederive(es, app, n) \in ExplicitString(FilePath)
BY JoinRootPath DEF Rederive, ExplicitString

\* Expanding and namespacing a log directory gives a log path.
LEMMA LogDirJoin ==
    ASSUME NEW d \in LogDirs, NEW n \in Nets
    PROVE  Join(CleanAndExpandPath(d), n) \in LogPaths
<1>1. CleanAndExpandPath(d) \in LogDirs
  BY ExpandRootPath, ExpandFilePath DEF LogDirs
<1>2. QED
  BY <1>1 DEF LogPaths

(***************************************************************************)
(* The updates loadConfig makes to a well-typed config keep it well typed: *)
(* the pktd credentials, the alias of --datadir, the paths under the app   *)
(* data dir, the namespaced log dir, the expanded certificate paths and    *)
(* the credential fallback.                                                *)
(***************************************************************************)
LEMMA CredsOK ==
    ASSUME NEW c, ConfigOK(c), NEW u \in Creds \cup {NoCred},
           NEW p \in Creds \cup {NoCred}
    PROVE  /\ ConfigOK([c EXCEPT !.BtcdUsername = u, !.BtcdPassword = p])
           /\ [c EXCEPT !.BtcdUsername = u, !.BtcdPassword = p].LogDir = c.LogDir
BY DEF ConfigOK, FieldType, Fields, ExplicitFields, FlagFields, CredFields,
   StringFields

LEMMA AliasOK ==
    ASSUME NEW c, ConfigOK(c)
    PROVE  LET d == [c EXCEPT !.AppDataDir.Value = c.DataDir.Value]
           IN  ConfigOK(d) /\ d.LogDir = c.LogDir
<1>1. [c.AppDataDir EXCEPT !.Value = c.DataDir.Value] \in ExplicitString(RootPath)
  BY ConfigFields DEF ExplicitString
<1>2. QED
  BY <1>1 DEF ConfigOK, FieldType, OptionValues, Fields, ExplicitFields,
     FlagFields, CredFields, StringFields
LEMMA LogJoinOK ==
    ASSUME NEW c, ConfigOK(c), c.LogDir \in LogDirs, NEW n \in Nets
    PROVE  ConfigOK([c EXCEPT !.LogDir = Join(CleanAndExpandPath(@), n)])
<1>1. Join(CleanAndExpandPath(c.LogDir), n) \in LogPaths
  BY LogDirJoin
<1>2. QED
  BY <1>1 DEF ConfigOK, FieldType, Fields, ExplicitFields,
     FlagFields, CredFields, StringFields
LEMMA CertsOK ==
    ASSUME NEW c, ConfigOK(c)
    PROVE  ConfigOK([c EXCEPT !.RPCCert.Value = CleanAndExpandPath(@),
                              !.RPCKey.Value = CleanAndExpandPath(@)])
<1>1. /\ [c.RPCCert EXCEPT !.Value = CleanAndExpandPath(@)] \in ExplicitString(FilePath)
      /\ [c.RPCKey EXCEPT !.Value = CleanAndExpandPath(@)] \in ExplicitString(FilePath)
  BY ConfigFields, ExpandFilePath DEF ExplicitString
<1>2. QED
  BY <1>1 DEF ConfigOK, FieldType, OptionValues, Fields, ExplicitFields,
     FlagFields, CredFields, StringFields
LEMMA FallbackOK ==
    ASSUME NEW c, ConfigOK(c)
    PROVE  ConfigOK(CredentialFallback(c))
<1>1. \A f \in CredFields : c[f] \in Creds \cup {NoCred}
  BY ConfigFields
<1>2. QED
  BY <1>1 DEF CredentialFallback, ConfigOK, FieldType, Fields, ExplicitFields,
     FlagFields, CredFields, StringFields
LEMMA AppOK ==
    ASSUME NEW c, ConfigOK(c), NEW app \in RootPath
    PROVE  LET d == [c EXCEPT !.AppDataDir.Value = app,
                              !.RPCKey = Rederive(@, app, "rpc.key"),
                              !.RPCCert = Rederive(@, app, "rpc.cert")]
           IN  ConfigOK(d) /\ d.LogDir = c.LogDir
<1>1. /\ c.AppDataDir \in ExplicitString(RootPath)
      /\ c.RPCKey \in ExplicitString(FilePath)
      /\ c.RPCCert \in ExplicitString(FilePath)
  BY ConfigFields
<1>2. "rpc.key" \in Names /\ "rpc.cert" \in Names
  BY ConstantsAssumption, Zenon
<1>3. [c.AppDataDir EXCEPT !.Value = app] \in ExplicitString(RootPath)
  BY <1>1 DEF ExplicitString
<1>4. /\ Rederive(c.RPCKey, app, "rpc.key") \in ExplicitString(FilePath)
      /\ Rederive(c.RPCCert, app, "rpc.cert") \in ExplicitString(FilePath)
  BY <1>1, <1>2, RederiveOK
<1>5. QED
  BY <1>3, <1>4 DEF ConfigOK, FieldType, OptionValues, Fields, ExplicitFields,
     FlagFields, CredFields, StringFields

-----------------------------------------------------------------------------
(***************************************************************************)
(* Type correctness.  TypeOK alone is not inductive: LogSetup joins the   *)
(* network onto cfg.LogDir, which is only of the right type if it was not  *)
(* joined before; so the invariant adds that until LogSetup has run, the   *)
(* log directory is a plain root or file path.                             *)
(***************************************************************************)
BeforeLogSetup ==
    {"PreParse", "ShowVersion", "ConfigPath", "ReadPktdConf", "LoadFile",
     "FinalParse", "DataDirAlias", "AppDataPaths", "SelectNetwork", "LogSetup"}

LogDirFresh == pc \in BeforeLogSetup => cfg.LogDir \in LogDirs

\* Past the pre-parse, the command line is one go-flags accepted.
CliAccepted == pc \notin {"PreParse", "Done"} => cli \in CliLayers

IInv == TypeOK /\ LogDirFresh /\ CliAccepted

LEMMA InitIInv == Init => IInv
<1> SUFFICES ASSUME Init PROVE IInv
  OBVIOUS
<1>1. Unread \in PktdConfResults \cup {Unread}
  OBVIOUS
<1>2. QED
  BY <1>1, DefaultConfigOK, DefaultPaths
  DEF Init, IInv, TypeOK, LogDirFresh, CliAccepted, Pcs, BeforeLogSetup,
      Results, Decisions

(***************************************************************************)
(* One lemma per action: each step of loadConfig keeps IInv.               *)
(***************************************************************************)
LEMMA PreParseIInv ==
    ASSUME IInv, PreParse PROVE IInv'
<1>1. CASE cli = BadArgs
  BY <1>1 DEF PreParse, IInv, TypeOK, LogDirFresh, CliAccepted, Pcs, BeforeLogSetup,
      Results, Decisions, Stop, Goto
<1>2. CASE cli # BadArgs
  <2>1. /\ pc = "PreParse" /\ ConfigOK(cfg) /\ cfg.LogDir \in LogDirs
        /\ cli \in CliLayers /\ IsLayer(cli)
    BY <1>2 DEF PreParse, IInv, TypeOK, LogDirFresh, BeforeLogSetup
  <2>2. /\ preCfg' = Parse(cfg, cli)
        /\ cfg' = [f \in Fields |-> IF f \in ExplicitFields THEN preCfg'[f] ELSE cfg[f]]
        /\ pc' = "ShowVersion"
    BY <1>2 DEF PreParse, Goto
  <2>3. ConfigOK(preCfg') /\ preCfg'.LogDir \in LogDirs
    BY <2>1, <2>2, ParseOK
  <2>4. ConfigOK(cfg') /\ cfg'.LogDir \in LogDirs
    BY <2>1, <2>2, <2>3 DEF ConfigOK, Fields, ExplicitFields, FlagFields,
       StringFields, CredFields
  <2>5. QED
    BY <1>2, <2>1, <2>2, <2>3, <2>4 DEF PreParse, IInv, TypeOK, LogDirFresh, CliAccepted, Pcs, BeforeLogSetup,
      Results, Decisions, Stop, Goto
<1>3. QED
  BY <1>1, <1>2

LEMMA ShowVersionIInv ==
    ASSUME IInv, ShowVersion PROVE IInv'
BY DEF ShowVersion, IInv, TypeOK, LogDirFresh, CliAccepted, Pcs, BeforeLogSetup,
      Results, Decisions, Stop, Goto

LEMMA ConfigPathIInv ==
    ASSUME IInv, ConfigPath PROVE IInv'
<1>1. /\ preCfg.ConfigFile.Value \in FilePath
      /\ preCfg.AppDataDir.Value \in RootPath
      /\ preCfg.DataDir.Value \in RootPath
  BY ConfigFields DEF IInv, TypeOK, ExplicitString
<1>2. configFilePath' \in FilePath
  BY <1>1, ExpandRootPath, ExpandFilePath, JoinRootPath
  DEF ConfigPath, defaultConfigFilename
<1>3. QED
  BY <1>2 DEF ConfigPath, IInv, TypeOK, LogDirFresh, CliAccepted, Pcs, BeforeLogSetup,
      Results, Decisions, Stop, Goto

LEMMA ReadPktdConfIInv ==
    ASSUME IInv, ReadPktdConf PROVE IInv'
<1>1. /\ pc = "ReadPktdConf" /\ pc' \in {"LoadFile", "Done"}
      /\ result' \in Results
      /\ UNCHANGED <<cli, preCfg, configFilePath, fileLayer, configFileError,
                     activeNet, walletDb, keystore, decision>>
  BY DEF ReadPktdConf, Stop, Goto, IInv, TypeOK, Results
<1>2. /\ ConfigOK(cfg') /\ cfg'.LogDir = cfg.LogDir
      /\ pktdConf' \in PktdConfResults \cup {Unread}
  <2>1. CASE UNCHANGED <<cfg, pktdConf>>
    BY <2>1 DEF IInv, TypeOK
  <2>2. CASE ~UNCHANGED <<cfg, pktdConf>>
    <3>1. PICK r \in PktdConfOutcomes :
                 /\ pktdConf' = r
                 /\ \/ cfg' = cfg
                    \/ cfg' = [cfg EXCEPT !.BtcdUsername = r.user,
                                          !.BtcdPassword = r.pass]
      BY <2>2 DEF ReadPktdConf, Stop, Goto
    <3>2. r \in PktdConfResults
      BY ConstantsAssumption, Zenon
    <3>3. r.user \in Creds \cup {NoCred} /\ r.pass \in Creds \cup {NoCred}
      BY <3>2 DEF PktdConfResults, PktdCreds
    <3>4. /\ ConfigOK([cfg EXCEPT !.BtcdUsername = r.user, !.BtcdPassword = r.pass])
          /\ [cfg EXCEPT !.BtcdUsername = r.user,
                         !.BtcdPassword = r.pass].LogDir = cfg.LogDir
      BY <3>3, CredsOK DEF IInv, TypeOK
    <3>5. QED
      BY <3>1, <3>2, <3>4 DEF IInv, TypeOK
  <2>3. QED
    BY <2>1, <2>2
<1>3. TypeOK'
  BY <1>1, <1>2 DEF IInv, TypeOK, Pcs
<1>4. LogDirFresh'
  BY <1>1, <1>2 DEF IInv, LogDirFresh, BeforeLogSetup
<1>5. CliAccepted'
  BY <1>1 DEF IInv, CliAccepted
<1>6. QED
  BY <1>3, <1>4, <1>5 DEF IInv

LEMMA LoadFileIInv ==
    ASSUME IInv, LoadFile PROVE IInv'
<1>1. /\ pc = "LoadFile" /\ pc' \in {"FinalParse", "Done"}
      /\ result' \in Results
      /\ configFileError' \in {"none", "createFailed"}
      /\ UNCHANGED <<cli, preCfg, configFilePath, pktdConf, activeNet, walletDb,
                     keystore, decision>>
  BY DEF LoadFile, Stop, Goto, IInv, TypeOK, Results
<1>2. ConfigOK(cfg') /\ cfg'.LogDir \in LogDirs
      /\ fileLayer' \in FileLayers \cup {EmptyLayer}
  <2>1. CASE UNCHANGED <<cfg, fileLayer>>
    BY <2>1, <1>1 DEF IInv, TypeOK, LogDirFresh, BeforeLogSetup
  <2>2. CASE ~UNCHANGED <<cfg, fileLayer>>
    <3>1. PICK st \in FileLayers : cfg' = Parse(cfg, st) /\ fileLayer' = st
      BY <2>2 DEF LoadFile
    <3>2. IsLayer(st)
      BY ConstantsAssumption, Zenon
    <3>3. ConfigOK(cfg) /\ cfg.LogDir \in LogDirs
      BY <1>1 DEF IInv, TypeOK, LogDirFresh, BeforeLogSetup
    <3>4. QED
      BY <3>1, <3>2, <3>3, ParseOK
  <2>3. QED
    BY <2>1, <2>2
<1>3. TypeOK'
  BY <1>1, <1>2 DEF IInv, TypeOK, Pcs
<1>4. LogDirFresh'
  BY <1>2 DEF LogDirFresh
<1>5. CliAccepted'
  BY <1>1 DEF IInv, CliAccepted
<1>6. QED
  BY <1>3, <1>4, <1>5 DEF IInv

LEMMA FinalParseIInv ==
    ASSUME IInv, FinalParse PROVE IInv'
<1>1. /\ pc = "FinalParse" /\ ConfigOK(cfg) /\ cfg.LogDir \in LogDirs
      /\ cli \in CliLayers
  BY DEF FinalParse, IInv, TypeOK, LogDirFresh, CliAccepted, BeforeLogSetup
<1>2. IsLayer(cli)
  BY <1>1, ConstantsAssumption, Zenon
<1>3. ConfigOK(Parse(cfg, cli)) /\ Parse(cfg, cli).LogDir \in LogDirs
  BY <1>1, <1>2, ParseOK
<1>4. QED
  BY <1>3 DEF FinalParse, IInv, TypeOK, LogDirFresh, CliAccepted, Pcs, BeforeLogSetup,
      Results, Decisions, Stop, Goto

LEMMA DataDirAliasIInv ==
    ASSUME IInv, DataDirAlias PROVE IInv'
<1> DEFINE d == [cfg EXCEPT !.AppDataDir.Value = cfg.DataDir.Value]
<1>1. ConfigOK(d) /\ d.LogDir = cfg.LogDir
  BY AliasOK DEF IInv, TypeOK
<1>2. /\ cfg' = d \/ cfg' = cfg
      /\ pc = "DataDirAlias" /\ pc' = "AppDataPaths"
      /\ UNCHANGED <<cli, preCfg, configFilePath, fileLayer, pktdConf,
                     configFileError, activeNet, walletDb, keystore, decision,
                     result>>
  BY DEF DataDirAlias, Goto
<1>3. ConfigOK(cfg') /\ cfg'.LogDir = cfg.LogDir
  BY <1>1, <1>2 DEF IInv, TypeOK
<1>4. TypeOK'
  BY <1>2, <1>3 DEF IInv, TypeOK, Pcs
<1>5. LogDirFresh'
  BY <1>2, <1>3 DEF IInv, LogDirFresh, BeforeLogSetup
<1>6. CliAccepted'
  BY <1>2 DEF IInv, CliAccepted
<1>7. QED
  BY <1>4, <1>5, <1>6 DEF IInv

LEMMA AppDataPathsIInv ==
    ASSUME IInv, AppDataPaths PROVE IInv'
<1> DEFINE app == CleanAndExpandPath(cfg.AppDataDir.Value)
           d == [cfg EXCEPT !.AppDataDir.Value = app,
                            !.RPCKey = Rederive(@, app, "rpc.key"),
                            !.RPCCert = Rederive(@, app, "rpc.cert")]
<1>1. app \in RootPath
  BY ConfigFields, ExpandRootPath DEF IInv, TypeOK, ExplicitString
<1>2. ConfigOK(d) /\ d.LogDir = cfg.LogDir
  BY <1>1, AppOK DEF IInv, TypeOK
<1>3. /\ cfg' = d \/ cfg' = cfg
      /\ pc = "AppDataPaths" /\ pc' = "SelectNetwork"
      /\ UNCHANGED <<cli, preCfg, configFilePath, fileLayer, pktdConf,
                     configFileError, activeNet, walletDb, keystore, decision,
                     result>>
  BY DEF AppDataPaths, Goto
<1>4. ConfigOK(cfg') /\ cfg'.LogDir = cfg.LogDir
  BY <1>2, <1>3 DEF IInv, TypeOK
<1>5. TypeOK'
  BY <1>3, <1>4 DEF IInv, TypeOK, Pcs
<1>6. LogDirFresh'
  BY <1>3, <1>4 DEF IInv, LogDirFresh, BeforeLogSetup
<1>7. CliAccepted'
  BY <1>3 DEF IInv, CliAccepted
<1>8. QED
  BY <1>5, <1>6, <1>7 DEF IInv

LEMMA SelectNetworkIInv ==
    ASSUME IInv, SelectNetwork PROVE IInv'
<1>1. cfg.Nets \subseteq Nets
  BY ConfigFields DEF IInv, TypeOK
<1>2. activeNet' \in Nets
  BY <1>1 DEF SelectNetwork, IInv, TypeOK
<1>3. QED
  BY <1>2 DEF SelectNetwork, IInv, TypeOK, LogDirFresh, CliAccepted, Pcs, BeforeLogSetup,
      Results, Decisions, Stop, Goto

LEMMA LogSetupIInv ==
    ASSUME IInv, LogSetup PROVE IInv'
<1>1. ConfigOK([cfg EXCEPT !.LogDir = Join(CleanAndExpandPath(@), activeNet)])
  BY LogJoinOK DEF LogSetup, IInv, TypeOK, LogDirFresh, BeforeLogSetup
<1>2. QED
  BY <1>1 DEF LogSetup, IInv, TypeOK, LogDirFresh, CliAccepted, Pcs, BeforeLogSetup,
      Results, Decisions, Stop, Goto

LEMMA TempChecksIInv ==
    ASSUME IInv, TempChecks PROVE IInv'
BY DEF TempChecks, IInv, TypeOK, LogDirFresh, CliAccepted, Pcs, BeforeLogSetup,
      Results, Decisions, Stop, Goto

LEMMA WalletCheckIInv ==
    ASSUME IInv, WalletCheck PROVE IInv'
BY DEF WalletCheck, IInv, TypeOK, LogDirFresh, CliAccepted, Pcs, BeforeLogSetup,
      Results, Decisions, Stop, Goto

LEMMA BootstrapIInv ==
    ASSUME IInv, Bootstrap PROVE IInv'
BY DEF Bootstrap, BootstrapTemp, BootstrapCreate, BootstrapReject,
   BootstrapDefer, IInv, TypeOK, LogDirFresh, CliAccepted, Pcs, BeforeLogSetup,
      Results, Decisions, Stop, Goto

LEMMA ConnectionsIInv ==
    ASSUME IInv, Connections PROVE IInv'
BY DEF Connections, IInv, TypeOK, LogDirFresh, CliAccepted, Pcs, BeforeLogSetup,
      Results, Decisions, Stop, Goto

LEMMA FinishIInv ==
    ASSUME IInv, Finish PROVE IInv'
<1>1. ConfigOK(CredentialFallback(
                [cfg EXCEPT !.RPCCert.Value = CleanAndExpandPath(@),
                            !.RPCKey.Value = CleanAndExpandPath(@)]))
  BY CertsOK, FallbackOK DEF IInv, TypeOK
<1>2. QED
  BY <1>1 DEF Finish, IInv, TypeOK, LogDirFresh, CliAccepted, Pcs, BeforeLogSetup,
      Results, Decisions, Stop, Goto

LEMMA TerminatedIInv ==
    ASSUME IInv, Terminated PROVE IInv'
BY DEF Terminated, vars, IInv, TypeOK, LogDirFresh, CliAccepted, Pcs, BeforeLogSetup,
      Results, Decisions, Stop, Goto

LEMMA NextIInv == IInv /\ [Next]_vars => IInv'
<1> SUFFICES ASSUME IInv, [Next]_vars PROVE IInv'
  OBVIOUS
<1>1. CASE UNCHANGED vars
  BY <1>1 DEF vars, IInv, TypeOK, LogDirFresh, CliAccepted, Pcs, BeforeLogSetup,
      Results, Decisions, Stop, Goto
<1>2. QED
  BY <1>1, PreParseIInv, ShowVersionIInv, ConfigPathIInv, ReadPktdConfIInv,
     LoadFileIInv, FinalParseIInv, DataDirAliasIInv, AppDataPathsIInv,
     SelectNetworkIInv, LogSetupIInv, TempChecksIInv, WalletCheckIInv,
     BootstrapIInv, ConnectionsIInv, FinishIInv, TerminatedIInv DEF Next

(***************************************************************************)
(* loadConfig keeps every variable within its type, for every value of    *)
(* the constants that ConstantsAssumption allows.                          *)
(***************************************************************************)
THEOREM TypeCorrect == Spec => []TypeOK
<1>1. IInv => TypeOK
  BY DEF IInv
<1>2. QED
  BY InitIInv, NextIInv, <1>1, PTL DEF Spec

-----------------------------------------------------------------------------
(***************************************************************************)
(* The wallet bootstrap.  What WalletCreationSafe and WalletReadyOrDeferred *)
(* rely on is established by earlier blocks and must survive the steps in  *)
(* between: SelectNetwork leaves at most one network flag with activeNet   *)
(* among them, TempChecks lets --createtemp through only with simnet and a *)
(* data directory, WalletCheck lets only one of --create and --createtemp  *)
(* through, the run has no outcome before it returns, and Finish is only   *)
(* reached with a wallet or with --noinitialload.                          *)
(***************************************************************************)
AfterSelect == {"LogSetup", "TempChecks", "WalletCheck", "Bootstrap"}

NetChosen ==
    pc \in AfterSelect =>
        /\ Cardinality(cfg.Nets) <= 1
        /\ cfg.Nets # {} => activeNet \in cfg.Nets

TempChecked ==
    pc \in {"WalletCheck", "Bootstrap"} /\ cfg.CreateTemp =>
        SimNet \in cfg.Nets /\ DataDirGiven

CreateExclusive == pc = "Bootstrap" => ~(cfg.Create /\ cfg.CreateTemp)

Running == pc # "Done" => result = "running"

ReadyAtFinish ==
    pc \in {"Connections", "Finish"} => walletDb \in {"present", "created"} \/ cfg.NoInitialLoad

BInv ==
    /\ IInv /\ NetChosen /\ TempChecked /\ CreateExclusive /\ Running
    /\ ReadyAtFinish /\ WalletReadyOrDeferred

\* Two members of a set with at most one element are the same.
LEMMA AtMostOne ==
    ASSUME NEW S, IsFiniteSet(S), Cardinality(S) <= 1, NEW x \in S, NEW y \in S
    PROVE  x = y
<1> SUFFICES ASSUME x # y PROVE FALSE
  OBVIOUS
<1>1. IsFiniteSet({x}) /\ Cardinality({x}) = 1
  BY FS_Singleton
<1>2. /\ IsFiniteSet({x} \cup {y})
      /\ Cardinality({x} \cup {y}) =
           IF y \in {x} THEN Cardinality({x}) ELSE Cardinality({x}) + 1
  BY <1>1, FS_AddElement, Zenon
<1>3. Cardinality({x} \cup {y}) = 2
  BY <1>1, <1>2
<1>4. {x} \cup {y} \in SUBSET S
  OBVIOUS
<1>5. Cardinality({x} \cup {y}) <= Cardinality(S)
  BY <1>4, FS_Subset, Zenon
<1>6. Cardinality(S) \in Nat
  BY FS_CardinalityType
<1>7. QED
  BY <1>3, <1>5, <1>6

\* The steps before the network is selected leave the bootstrap facts alone.
LEMMA EarlyStep ==
    ASSUME BInv, pc # "Done",
           \/ /\ pc' \in BeforeLogSetup \ {"LogSetup"}
              /\ result' = result
           \/ pc' = "Done" /\ result' \in {"error", "exit", "nilError"}
    PROVE  /\ NetChosen' /\ TempChecked' /\ CreateExclusive' /\ Running'
           /\ ReadyAtFinish' /\ WalletReadyOrDeferred'
<1>1. pc' \notin AfterSelect \cup {"WalletCheck", "Bootstrap", "Connections",
                                   "Finish"}
  BY DEF AfterSelect, BeforeLogSetup
<1>2. Running'
  BY DEF BInv, Running
<1>3. WalletReadyOrDeferred'
  BY <1>2 DEF WalletReadyOrDeferred, BInv, Running
<1>4. QED
  BY <1>1, <1>2, <1>3 DEF NetChosen, TempChecked, CreateExclusive,
     ReadyAtFinish, AfterSelect

BPart ==
    /\ NetChosen /\ TempChecked /\ CreateExclusive /\ Running
    /\ ReadyAtFinish /\ WalletReadyOrDeferred

LEMMA EarlyBPart ==
    ASSUME BInv,
           \/ PreParse \/ ShowVersion \/ ConfigPath \/ ReadPktdConf
           \/ LoadFile \/ FinalParse \/ DataDirAlias \/ AppDataPaths
    PROVE  BPart'
<1>1. /\ pc # "Done"
      /\ \/ pc' \in BeforeLogSetup \ {"LogSetup"} /\ result' = result
         \/ pc' = "Done" /\ result' \in {"error", "exit", "nilError"}
  BY DEF PreParse, ShowVersion, ConfigPath, ReadPktdConf, LoadFile,
     FinalParse, DataDirAlias, AppDataPaths, Stop, Goto, BeforeLogSetup
<1>2. QED
  BY <1>1, EarlyStep DEF BPart

\* The network flags set are finitely many, and counted by a number.
LEMMA NetsFinite ==
    ASSUME NEW c, ConfigOK(c)
    PROVE  IsFiniteSet(c.Nets) /\ Cardinality(c.Nets) \in Nat
<1>1. c.Nets \in SUBSET Nets
  BY ConfigFields
<1>2. IsFiniteSet(c.Nets)
  BY <1>1, FS_Subset, ConstantsAssumption, Zenon
<1>3. QED
  BY <1>2, FS_CardinalityType

LEMMA SelectNetworkBPart ==
    ASSUME BInv, SelectNetwork PROVE BPart'
<1>0. Cardinality(cfg.Nets) \in Nat
  BY NetsFinite DEF BInv, IInv, TypeOK
<1>1. CASE Cardinality(cfg.Nets) > 1
  <2>1. pc # "Done" /\ pc' = "Done" /\ result' = "error"
    BY <1>0, <1>1 DEF SelectNetwork, Stop
  <2>2. QED
    BY <2>1, EarlyStep DEF BPart
<1>2. CASE Cardinality(cfg.Nets) <= 1
  <2>1. /\ pc = "SelectNetwork" /\ pc' = "LogSetup"
        /\ cfg' = cfg /\ result' = result
        /\ cfg.Nets # {} => activeNet' \in cfg.Nets
    BY <1>0, <1>2 DEF SelectNetwork, Goto
  <2>2. result' = "running"
    BY <2>1 DEF BInv, Running
  <2>3. NetChosen'
    BY <1>2, <2>1 DEF NetChosen
  <2>4. QED
    BY <2>1, <2>2, <2>3 DEF BPart, TempChecked, CreateExclusive, Running,
       ReadyAtFinish, WalletReadyOrDeferred
<1>3. QED
  BY <1>0, <1>1, <1>2

LEMMA LogSetupBPart ==
    ASSUME BInv, LogSetup PROVE BPart'
<1>1. CASE pc' = "Done"
  <2>1. pc # "Done" /\ result' = "error"
    BY <1>1 DEF LogSetup, Stop, Goto
  <2>2. QED
    BY <1>1, <2>1, EarlyStep DEF BPart
<1>2. CASE pc' # "Done"
  <2>1. /\ pc = "LogSetup" /\ pc' = "TempChecks" /\ result' = result
        /\ UNCHANGED activeNet
        /\ cfg'.Nets = cfg.Nets
    BY <1>2 DEF LogSetup, Stop, Goto
  <2>2. result' = "running"
    BY <2>1 DEF BInv, Running
  <2>3. NetChosen'
    BY <2>1 DEF BInv, NetChosen, AfterSelect
  <2>4. QED
    BY <2>1, <2>2, <2>3 DEF BPart, TempChecked, CreateExclusive, Running,
       ReadyAtFinish, WalletReadyOrDeferred
<1>3. QED
  BY <1>1, <1>2

LEMMA TempChecksBPart ==
    ASSUME BInv, TempChecks PROVE BPart'
<1>1. CASE pc' = "Done"
  <2>1. pc # "Done" /\ result' = "exit"
    BY <1>1 DEF TempChecks, Stop, Goto
  <2>2. QED
    BY <1>1, <2>1, EarlyStep DEF BPart
<1>2. CASE pc' # "Done"
  <2>1. /\ pc = "TempChecks" /\ pc' = "WalletCheck" /\ result' = result
        /\ UNCHANGED <<cfg, activeNet>>
        /\ cfg.CreateTemp => SimNet \in cfg.Nets /\ DataDirGiven
    BY <1>2 DEF TempChecks, Stop, Goto
  <2>2. result' = "running"
    BY <2>1 DEF BInv, Running
  <2>3. NetChosen' /\ TempChecked'
    BY <2>1 DEF BInv, NetChosen, TempChecked, AfterSelect, DataDirGiven
  <2>4. QED
    BY <2>1, <2>2, <2>3 DEF BPart, CreateExclusive, Running,
       ReadyAtFinish, WalletReadyOrDeferred
<1>3. QED
  BY <1>1, <1>2

LEMMA WalletCheckBPart ==
    ASSUME BInv, WalletCheck PROVE BPart'
<1>1. CASE pc' = "Done"
  <2>1. pc # "Done" /\ result' = "error"
    BY <1>1 DEF WalletCheck, Stop, Goto
  <2>2. QED
    BY <1>1, <2>1, EarlyStep DEF BPart
<1>2. CASE pc' # "Done"
  <2>1. /\ pc = "WalletCheck" /\ pc' = "Bootstrap" /\ result' = result
        /\ UNCHANGED <<cfg, activeNet>>
        /\ ~(cfg.Create /\ cfg.CreateTemp)
    BY <1>2 DEF WalletCheck, Stop, Goto
  <2>2. result' = "running"
    BY <2>1 DEF BInv, Running
  <2>3. NetChosen' /\ TempChecked' /\ CreateExclusive'
    BY <2>1 DEF BInv, NetChosen, TempChecked, CreateExclusive, AfterSelect,
       DataDirGiven
  <2>4. QED
    BY <2>1, <2>2, <2>3 DEF BPart, Running, ReadyAtFinish,
       WalletReadyOrDeferred
<1>3. QED
  BY <1>1, <1>2

LEMMA BootstrapBPart ==
    ASSUME BInv, Bootstrap PROVE BPart'
<1>1. CASE pc' = "Done"
  <2>1. pc # "Done" /\ result' \in {"error", "exit"}
    BY <1>1 DEF Bootstrap, BootstrapTemp, BootstrapCreate, BootstrapReject,
       BootstrapDefer, Stop, Goto
  <2>2. QED
    BY <1>1, <2>1, EarlyStep DEF BPart
<1>2. CASE pc' # "Done"
  <2>1. /\ pc = "Bootstrap" /\ pc' = "Connections" /\ result' = result
        /\ UNCHANGED cfg
        /\ walletDb' \in {"present", "created"} \/ walletDb' = walletDb
    BY <1>2 DEF Bootstrap, BootstrapTemp, BootstrapCreate, BootstrapReject,
       BootstrapDefer, Stop, Goto
  <2>2. result' = "running"
    BY <2>1 DEF BInv, Running
  <2>3. walletDb \in {"absent", "present", "created"}
    BY DEF BInv, IInv, TypeOK
  <2>4. ReadyAtFinish'
    BY <1>2, <2>1, <2>3 DEF Bootstrap, BootstrapTemp, BootstrapCreate,
       BootstrapReject, BootstrapDefer, Stop, Goto, ReadyAtFinish
  <2>5. QED
    BY <2>1, <2>2, <2>4 DEF BPart, NetChosen, TempChecked, CreateExclusive,
       Running, WalletReadyOrDeferred, AfterSelect
<1>3. QED
  BY <1>1, <1>2

LEMMA ConnectionsBPart ==
    ASSUME BInv, Connections PROVE BPart'
<1>1. CASE pc' = "Done"
  <2>1. pc # "Done" /\ result' = "error"
    BY <1>1 DEF Connections, Stop, Goto
  <2>2. QED
    BY <1>1, <2>1, EarlyStep DEF BPart
<1>2. CASE pc' # "Done"
  <2>1. /\ pc = "Connections" /\ pc' = "Finish" /\ result' = result
        /\ UNCHANGED <<cfg, walletDb>>
    BY <1>2 DEF Connections, Stop, Goto
  <2>2. result' = "running"
    BY <2>1 DEF BInv, Running
  <2>3. ReadyAtFinish'
    BY <2>1 DEF BInv, ReadyAtFinish
  <2>4. QED
    BY <2>1, <2>2, <2>3 DEF BPart, NetChosen, TempChecked, CreateExclusive,
       Running, WalletReadyOrDeferred, AfterSelect
<1>3. QED
  BY <1>1, <1>2

LEMMA FinishBPart ==
    ASSUME BInv, Finish PROVE BPart'
<1>1. "NoInitialLoad" \in DOMAIN cfg
  BY DEF BInv, IInv, TypeOK, ConfigOK, Fields, FlagFields
<1>2. /\ pc = "Finish" /\ pc' = "Done" /\ result' = "ok"
      /\ UNCHANGED walletDb
      /\ cfg'.NoInitialLoad = cfg.NoInitialLoad
  BY <1>1 DEF Finish, CredentialFallback, Stop
<1>3. WalletReadyOrDeferred'
  BY <1>2 DEF BInv, ReadyAtFinish, WalletReadyOrDeferred
<1>4. QED
  BY <1>2, <1>3 DEF BPart, NetChosen, TempChecked, CreateExclusive, Running,
     ReadyAtFinish, AfterSelect

LEMMA NextBInv == BInv /\ [Next]_vars => BInv'
<1> SUFFICES ASSUME BInv, [Next]_vars PROVE BInv'
  OBVIOUS
<1>1. IInv'
  BY NextIInv DEF BInv
<1>2. CASE Terminated \/ UNCHANGED vars
  <2>1. UNCHANGED vars
    BY <1>2 DEF Terminated
  <2>2. BPart'
    BY <2>1 DEF vars, BInv, BPart, NetChosen, TempChecked, CreateExclusive,
       Running, ReadyAtFinish, WalletReadyOrDeferred, DataDirGiven
  <2>3. QED
    BY <1>1, <2>2 DEF BInv, BPart
<1>3. CASE ~(Terminated \/ UNCHANGED vars)
  <2>1. BPart'
    BY <1>3, EarlyBPart, SelectNetworkBPart, LogSetupBPart, TempChecksBPart,
       WalletCheckBPart, BootstrapBPart, ConnectionsBPart, FinishBPart
    DEF Next
  <2>2. QED
    BY <1>1, <2>1 DEF BInv, BPart
<1>4. QED
  BY <1>2, <1>3

LEMMA InitBInv == Init => BInv
<1> SUFFICES ASSUME Init PROVE BInv
  OBVIOUS
<1>1. IInv
  BY InitIInv
<1>2. QED
  BY <1>1 DEF Init, BInv, NetChosen, TempChecked, CreateExclusive, Running,
     ReadyAtFinish, WalletReadyOrDeferred, AfterSelect

\* Every step of loadConfig that writes the wallet file is a WalletCreation.
LEMMA StepWalletCreation == BInv /\ [Next]_vars => [WalletCreation]_vars
<1> SUFFICES ASSUME BInv, [Next]_vars, walletDb' # walletDb
             PROVE  WalletCreation
  BY DEF WalletCreation
<1>1. Bootstrap
  BY DEF Next, vars, PreParse, ShowVersion, ConfigPath, ReadPktdConf, LoadFile,
     FinalParse, DataDirAlias, AppDataPaths, SelectNetwork, LogSetup,
     TempChecks, WalletCheck, Connections, Terminated, Finish
<1>2. /\ pc = "Bootstrap" /\ walletDb = "absent" /\ walletDb' = "created"
      /\ cfg.CreateTemp \/ cfg.Create
  BY <1>1 DEF Bootstrap, BootstrapTemp, BootstrapCreate, BootstrapReject,
     BootstrapDefer
<1>3. cfg.Create \in BOOLEAN /\ cfg.CreateTemp \in BOOLEAN
  BY ConfigFields DEF BInv, IInv, TypeOK, FlagFields
<1>4. cfg.Create # cfg.CreateTemp
  BY <1>2, <1>3 DEF BInv, CreateExclusive
<1>5. ASSUME cfg.CreateTemp PROVE activeNet = SimNet /\ DataDirGiven
  <2>1. SimNet \in cfg.Nets /\ DataDirGiven
    BY <1>2, <1>5 DEF BInv, TempChecked
  <2>2. Cardinality(cfg.Nets) <= 1 /\ activeNet \in cfg.Nets
    BY <1>2, <2>1 DEF BInv, NetChosen, AfterSelect
  <2>3. IsFiniteSet(cfg.Nets)
    BY NetsFinite DEF BInv, IInv, TypeOK
  <2>4. QED
    BY <2>1, <2>2, <2>3, AtMostOne
<1>6. QED
  BY <1>2, <1>4, <1>5 DEF WalletCreation

(***************************************************************************)
(* The bootstrap facts hold in every state of every run.                   *)
(***************************************************************************)
THEOREM BootstrapInvariant == Spec => []BInv
BY InitBInv, NextBInv, PTL DEF Spec

(***************************************************************************)
(* WalletReadyOrDeferred, for every value of the constants: when           *)
(* loadConfig returns a config (line 612), the wallet exists or its load   *)
(* is deferred by --noinitialload (lines 420-471).                         *)
(***************************************************************************)
THEOREM WalletReadyProved == Spec => []WalletReadyOrDeferred
<1>1. BInv => WalletReadyOrDeferred
  BY DEF BInv
<1>2. QED
  BY <1>1, BootstrapInvariant, PTL

(***************************************************************************)
(* WalletCreationSafe, for every value of the constants: the wallet file  *)
(* is only written where none existed, under exactly one of --create and  *)
(* --createtemp, and a temporary wallet only on simnet with a data        *)
(* directory given (lines 381-454).                                        *)
(***************************************************************************)
THEOREM WalletCreationProved == Spec => WalletCreationSafe
<1>1. []BInv /\ [][Next]_vars => [][WalletCreation]_vars
  BY StepWalletCreation, PTL
<1>2. QED
  BY <1>1, BootstrapInvariant, PTL DEF Spec, WalletCreationSafe


-----------------------------------------------------------------------------
(***************************************************************************)
(* The network choice.  NetworkChoice speaks of the returned config only,  *)
(* so the invariant follows the choice through the blocks: activeNet keeps *)
(* its default until SelectNetwork runs; from then on at most one network *)
(* flag is set and activeNet is the flag set (or the default); once       *)
(* LogSetup has run the log directory ends in activeNet; and no later     *)
(* block touches the flags, the log directory or activeNet.                *)
(***************************************************************************)
Early == BeforeLogSetup \ {"LogSetup"}
Chosen == {"LogSetup", "TempChecks", "WalletCheck", "Bootstrap", "Connections",
           "Finish"}
Logged == Chosen \ {"LogSetup"}
Returned == pc = "Done" /\ result = "ok"

NetDefault == pc \in Early => activeNet = DefaultNet

NetFixed ==
    pc \in Chosen \/ Returned =>
        /\ Cardinality(cfg.Nets) <= 1
        /\ IF cfg.Nets = {} THEN activeNet = DefaultNet ELSE activeNet \in cfg.Nets

LogNamed == pc \in Logged \/ Returned => cfg.LogDir[Len(cfg.LogDir)] = activeNet

NPart == NetDefault /\ NetFixed /\ LogNamed
NInv == BInv /\ NPart

\* A log directory joined with a network name ends in that name.
LEMMA JoinLast ==
    ASSUME NEW d \in LogDirs, NEW n
    PROVE  Join(d, n)[Len(Join(d, n))] = n
<1>1. CASE d \in RootPath
  BY <1>1 DEF RootPath, Join
<1>2. CASE d \in FilePath
  <2>1. PICK r \in Roots, m \in Names : d = <<r, m>>
    BY <1>2 DEF FilePath
  <2>2. QED
    BY <2>1 DEF Join
<1>3. QED
  BY <1>1, <1>2 DEF LogDirs

\* The credential fallback and the certificate expansion leave the network
\* flags and the log directory alone.
LEMMA FinishKeeps ==
    ASSUME NEW c, ConfigOK(c)
    PROVE  LET d == CredentialFallback(
                      [c EXCEPT !.RPCCert.Value = CleanAndExpandPath(@),
                                !.RPCKey.Value = CleanAndExpandPath(@)])
           IN  d.Nets = c.Nets /\ d.LogDir = c.LogDir
<1>1. {"Nets", "LogDir", "RPCCert", "RPCKey"} \subseteq DOMAIN c
  BY DEF ConfigOK, Fields, ExplicitFields, FlagFields, CredFields, StringFields
<1>2. QED
  BY <1>1 DEF CredentialFallback

\* A step that ends the run without a config keeps NPart.
LEMMA FailedNPart ==
    ASSUME pc' = "Done", result' # "ok" PROVE NPart'
BY DEF NPart, NetDefault, NetFixed, LogNamed, Returned, Early, Chosen, Logged,
   BeforeLogSetup

\* A step within the blocks after LogSetup that leaves the flags, the log
\* directory and activeNet alone keeps NPart.
LEMMA LaterNPart ==
    ASSUME NPart, pc \in Logged, pc' \in Logged, cfg'.Nets = cfg.Nets,
           cfg'.LogDir = cfg.LogDir, UNCHANGED activeNet
    PROVE  NPart'
BY DEF NPart, NetDefault, NetFixed, LogNamed, Returned, Early, Chosen, Logged,
   BeforeLogSetup


\* What each block before SelectNetwork does to the network choice.
EarlyShape ==
    /\ pc \in Early /\ UNCHANGED activeNet
    /\ \/ pc' \in Early
       \/ pc' = "Done" /\ result' \in {"error", "exit", "nilError"}

LEMMA EarlyNPart ==
    ASSUME NInv,
           \/ PreParse \/ ShowVersion \/ ConfigPath \/ ReadPktdConf
           \/ LoadFile \/ FinalParse \/ DataDirAlias \/ AppDataPaths
    PROVE  NPart'
<1>1. EarlyShape
  <2>1. CASE PreParse
    BY <2>1 DEF PreParse, Stop, Goto, EarlyShape, Early, BeforeLogSetup
  <2>2. CASE ShowVersion
    BY <2>2 DEF ShowVersion, Stop, Goto, EarlyShape, Early, BeforeLogSetup
  <2>3. CASE ConfigPath
    BY <2>3 DEF ConfigPath, Stop, Goto, EarlyShape, Early, BeforeLogSetup
  <2>4. CASE ReadPktdConf
    <3>1. pc = "ReadPktdConf" /\ UNCHANGED activeNet
      BY <2>4 DEF ReadPktdConf
    <3>2. \/ pc' = "LoadFile" /\ result' = result
          \/ pc' = "Done" /\ result' \in {"error", "exit", "nilError"}
      BY <2>4, Zenon DEF ReadPktdConf, Stop, Goto
    <3>3. QED
      BY <3>1, <3>2 DEF EarlyShape, Early, BeforeLogSetup
  <2>5. CASE LoadFile
    BY <2>5 DEF LoadFile, Stop, Goto, EarlyShape, Early, BeforeLogSetup
  <2>6. CASE FinalParse
    BY <2>6 DEF FinalParse, Stop, Goto, EarlyShape, Early, BeforeLogSetup
  <2>7. CASE DataDirAlias
    BY <2>7 DEF DataDirAlias, Stop, Goto, EarlyShape, Early, BeforeLogSetup
  <2>8. CASE AppDataPaths
    BY <2>8 DEF AppDataPaths, Stop, Goto, EarlyShape, Early, BeforeLogSetup
  <2>9. QED
    BY <2>1, <2>2, <2>3, <2>4, <2>5, <2>6, <2>7, <2>8
<1>2. CASE pc' = "Done"
  <2>1. result' # "ok"
    BY <1>1, <1>2 DEF EarlyShape, Early, BeforeLogSetup
  <2>2. QED
    BY <1>2, <2>1, FailedNPart
<1>3. CASE pc' # "Done"
  <2>1. pc' \in Early /\ pc \in Early /\ activeNet' = activeNet
    BY <1>1, <1>3 DEF EarlyShape
  <2>2. pc' \notin Chosen /\ ~Returned'
    BY <2>1, <1>3 DEF Early, Chosen, BeforeLogSetup, Returned
  <2>3. NetDefault'
    BY <2>1 DEF NInv, NPart, NetDefault
  <2>4. QED
    BY <2>2, <2>3 DEF NPart, NetFixed, LogNamed, Logged
<1>4. QED
  BY <1>2, <1>3

LEMMA SelectNetworkNPart ==
    ASSUME NInv, SelectNetwork PROVE NPart'
<1>0. Cardinality(cfg.Nets) \in Nat
  BY NetsFinite DEF NInv, BInv, IInv, TypeOK
<1>1. CASE Cardinality(cfg.Nets) > 1
  <2>1. pc' = "Done" /\ result' = "error"
    BY <1>0, <1>1 DEF SelectNetwork, Stop
  <2>2. QED
    BY <2>1, FailedNPart
<1>2. CASE Cardinality(cfg.Nets) <= 1
  <2>1. /\ pc = "SelectNetwork" /\ pc' = "LogSetup" /\ cfg' = cfg
        /\ activeNet' = IF cfg.Nets = {} THEN activeNet
                        ELSE CHOOSE n \in cfg.Nets : TRUE
    BY <1>0, <1>2 DEF SelectNetwork, Goto
  <2>2. activeNet = DefaultNet
    BY <2>1 DEF NInv, NPart, NetDefault, Early, BeforeLogSetup
  <2>3. NetFixed'
    BY <1>2, <2>1, <2>2 DEF NetFixed, Chosen
  <2>4. QED
    BY <2>1, <2>3 DEF NPart, NetDefault, LogNamed, Returned, Early, Logged,
       Chosen, BeforeLogSetup
<1>3. QED
  BY <1>0, <1>1, <1>2

LEMMA LogSetupNPart ==
    ASSUME NInv, LogSetup PROVE NPart'
<1>1. CASE pc' = "Done"
  <2>1. result' = "error"
    BY <1>1 DEF LogSetup, Stop, Goto
  <2>2. QED
    BY <1>1, <2>1, FailedNPart
<1>2. CASE pc' # "Done"
  <2>1. /\ pc = "LogSetup" /\ pc' = "TempChecks" /\ UNCHANGED activeNet
        /\ cfg'.Nets = cfg.Nets
        /\ cfg'.LogDir = Join(CleanAndExpandPath(cfg.LogDir), activeNet)
    BY <1>2 DEF LogSetup, Stop, Goto
  <2>2. CleanAndExpandPath(cfg.LogDir) \in LogDirs
    BY <2>1, ExpandRootPath, ExpandFilePath
    DEF NInv, BInv, IInv, LogDirFresh, BeforeLogSetup, LogDirs
  <2>3. LogNamed'
    BY <2>1, <2>2, JoinLast DEF LogNamed
  <2>4. NetFixed'
    BY <2>1 DEF NInv, NPart, NetFixed, Chosen
  <2>5. QED
    BY <2>1, <2>3, <2>4 DEF NPart, NetDefault, Early, BeforeLogSetup
<1>3. QED
  BY <1>1, <1>2

\* What each block between LogSetup and Finish does to the network choice.
MiddleShape ==
    \/ pc' = "Done" /\ result' \in {"error", "exit"}
    \/ /\ pc \in Logged /\ pc' \in Logged
       /\ UNCHANGED <<cfg, activeNet>>

LEMMA MiddleNPart ==
    ASSUME NInv, TempChecks \/ WalletCheck \/ Bootstrap \/ Connections
    PROVE  NPart'
<1>1. MiddleShape
  <2>1. CASE TempChecks
    BY <2>1 DEF TempChecks, Stop, Goto, MiddleShape, Logged, Chosen
  <2>2. CASE WalletCheck
    BY <2>2 DEF WalletCheck, Stop, Goto, MiddleShape, Logged, Chosen
  <2>3. CASE Bootstrap
    BY <2>3 DEF Bootstrap, BootstrapTemp, BootstrapCreate, BootstrapReject,
       BootstrapDefer, Stop, Goto, MiddleShape, Logged, Chosen
  <2>4. CASE Connections
    BY <2>4 DEF Connections, Stop, Goto, MiddleShape, Logged, Chosen
  <2>5. QED
    BY <2>1, <2>2, <2>3, <2>4
<1>2. QED
  BY <1>1, FailedNPart, LaterNPart DEF NInv, MiddleShape

LEMMA FinishNPart ==
    ASSUME NInv, Finish PROVE NPart'
<1>0. ConfigOK(cfg)
  BY DEF NInv, BInv, IInv, TypeOK
<1>1. /\ pc = "Finish" /\ pc' = "Done" /\ result' = "ok"
      /\ UNCHANGED activeNet
      /\ cfg'.Nets = cfg.Nets /\ cfg'.LogDir = cfg.LogDir
  BY <1>0, FinishKeeps DEF Finish, Stop
<1>2. QED
  BY <1>1 DEF NInv, NPart, NetDefault, NetFixed, LogNamed, Returned, Early,
     Chosen, Logged, BeforeLogSetup


LEMMA InitNInv == Init => NInv
<1> SUFFICES ASSUME Init PROVE NInv
  OBVIOUS
<1>1. BInv
  BY InitBInv
<1>2. QED
  BY <1>1 DEF Init, NInv, NPart, NetDefault, NetFixed, LogNamed, Returned,
     Early, Chosen, Logged, BeforeLogSetup

LEMMA NextNInv == NInv /\ [Next]_vars => NInv'
<1> SUFFICES ASSUME NInv, [Next]_vars PROVE NInv'
  OBVIOUS
<1>1. BInv'
  BY NextBInv DEF NInv
<1>2. CASE Terminated \/ UNCHANGED vars
  <2>1. UNCHANGED vars
    BY <1>2 DEF Terminated
  <2>2. NPart'
    BY <2>1 DEF vars, NInv, NPart, NetDefault, NetFixed, LogNamed, Returned
  <2>3. QED
    BY <1>1, <2>2 DEF NInv
<1>3. CASE ~(Terminated \/ UNCHANGED vars)
  <2>1. NPart'
    BY <1>3, EarlyNPart, SelectNetworkNPart, LogSetupNPart, MiddleNPart,
       FinishNPart DEF Next
  <2>2. QED
    BY <1>1, <2>1 DEF NInv
<1>4. QED
  BY <1>2, <1>3

(***************************************************************************)
(* NetworkChoice, for every value of the constants: a returned config has *)
(* at most one network flag, activeNet is that flag's profile or the       *)
(* default, and the log directory is namespaced by activeNet (lines        *)
(* 330-372).  A run only returns "ok" from Finish, so it suffices that the *)
(* choice made by SelectNetwork and the join made by LogSetup survive the  *)
(* blocks in between.                                                      *)
(***************************************************************************)
THEOREM NetworkChoiceProved == Spec => []NetworkChoice
<1>1. NInv => NetworkChoice
  <2> SUFFICES ASSUME NInv, result = "ok" PROVE NetworkChoice
    BY DEF NetworkChoice
  <2>1. pc = "Done"
    BY DEF NInv, BInv, Running
  <2>2. QED
    BY <2>1 DEF NInv, NPart, NetFixed, LogNamed, Returned, NetworkChoice
<1>2. QED
  BY <1>1, InitNInv, NextNInv, PTL DEF Spec

=============================================================================
