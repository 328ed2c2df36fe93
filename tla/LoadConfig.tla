------------------------------ MODULE LoadConfig ------------------------------
(***************************************************************************)
(* loadConfig of pktwallet (src/pktwallet/config.go, lines 207-612).       *)
(*                                                                         *)
(* The function runs once, single-threaded, from the compiled-in defaults  *)
(* through a silent pre-parse of the command line, the config file, the    *)
(* authoritative parse, and the derivations and checks that follow.  Each  *)
(* action below is one block of that function, guarded by pc, in the order *)
(* the code runs them; an early return or os.Exit ends the run with pc =   *)
(* "Done" and the outcome in result.                                       *)
(*                                                                         *)
(* Data is abstracted to what the properties tell apart: a path is a       *)
(* sequence whose head is a root directory as the user wrote it (it may    *)
(* begin with ~ or $VAR) and whose tail is file names; a credential is a   *)
(* model value.  The command line and the config file are "layers": a      *)
(* record giving, per option, the value the layer sets or Unset.           *)
(***************************************************************************)
EXTENDS Naturals, Sequences, FiniteSets

CONSTANTS
    Roots,            \* root directories as written (default, absolute, ~-prefixed)
    ExpandRoot,       \* what cleanAndExpandPath makes of a root
    DefaultRoot,      \* btcutil.AppDataDir("pktwallet", false)
    Names,            \* file and directory names below a root
    Nets,             \* the network profiles (netparams.*Params)
    DefaultNet,       \* activeNet before loadConfig runs
    SimNet,           \* netparams.SimNetParams
    Creds,            \* user names and passwords
    LogLevels,        \* values of --debuglevel
    ValidLogLevels,   \* the ones log.SetLogLevels accepts
    CliLayers,        \* the command lines a run may be given
    FileLayers,       \* the contents a config file may have
    FileFaults,       \* other outcomes of reading it: "absent", "malformed"
    PktdConfOutcomes, \* what pktconfig.ReadUserPass(pktdDefaultConf) may return
    IOErrors,         \* whether stat, mkdir and wallet creation may fail
    ConnectionFaults, \* whether the RPC client and listener setup may fail
    Unset,            \* "this layer does not set the option"
    BadArgs           \* a command line go-flags rejects (or a help request)

NoCred == ""    \* the empty string: a credential that was not given

(***************************************************************************)
(* Paths.  filepath.Join appends a name; cleanAndExpandPath rewrites the   *)
(* root (lines 129-174: ~, ~user and $VAR are all in the root).            *)
(***************************************************************************)
RootPath == {<<r>> : r \in Roots}
FilePath == Roots \X Names
Join(p, n) == Append(p, n)
CleanAndExpandPath(p) == [p EXCEPT ![1] = ExpandRoot[p[1]]]

defaultConfigFilename == "pktwallet.conf"
defaultAppDataDir == <<DefaultRoot>>
defaultConfigFile == Join(defaultAppDataDir, defaultConfigFilename)
defaultRPCKeyFile == Join(defaultAppDataDir, "rpc.key")
defaultRPCCertFile == Join(defaultAppDataDir, "rpc.cert")
defaultLogDir == Join(defaultAppDataDir, "logs")

(***************************************************************************)
(* The options of the config struct that loadConfig reads.  The five      *)
(* network booleans (TestNet3, SimNet, PktTestNet, PktMainNet, BtcMainNet) *)
(* are the set Nets of the profiles whose flag is true.                    *)
(***************************************************************************)
ExplicitFields == {"ConfigFile", "AppDataDir", "DataDir", "RPCKey", "RPCCert"}
FlagFields == {"ShowVersion", "Create", "CreateTemp", "NoInitialLoad"}
CredFields == {"Username", "Password", "OldUsername", "OldPassword",
               "BtcdUsername", "BtcdPassword"}
StringFields == {"LogDir", "DebugLevel"} \cup CredFields
Fields == ExplicitFields \cup FlagFields \cup StringFields \cup {"Nets"}

\* What a layer may set each option to.
OptionValues ==
    [ConfigFile |-> FilePath, RPCKey |-> FilePath, RPCCert |-> FilePath,
     AppDataDir |-> RootPath, DataDir |-> RootPath, LogDir |-> RootPath,
     DebugLevel |-> LogLevels,
     Username |-> Creds, Password |-> Creds, OldUsername |-> Creds,
     OldPassword |-> Creds, BtcdUsername |-> Creds, BtcdPassword |-> Creds,
     ShowVersion |-> BOOLEAN, Create |-> BOOLEAN, CreateTemp |-> BOOLEAN,
     NoInitialLoad |-> BOOLEAN, Nets |-> SUBSET Nets]

IsLayer(L) ==
    /\ DOMAIN L = Fields
    /\ \A f \in Fields :
         \/ L[f] \in OptionValues[f]
         \/ L[f] = Unset /\ f \notin FlagFields \cup {"Nets"}

\* ReadUserPass: no file (nothing read), another read error, fewer than two
\* fields, or a user/pass pair.
PktdCreds == [kind : {"creds"}, user : Creds, pass : Creds]
PktdConfResults ==
    [kind : {"missing", "unreadable", "short"}, user : {NoCred}, pass : {NoCred}]
        \cup PktdCreds
Unread == [kind |-> "unread", user |-> NoCred, pass |-> NoCred]

ASSUME ConstantsAssumption ==
    /\ DefaultRoot \in Roots
    /\ ExpandRoot \in [Roots -> Roots]
    /\ {defaultConfigFilename, "rpc.key", "rpc.cert", "logs"} \subseteq Names
    /\ DefaultNet \in Nets /\ SimNet \in Nets /\ IsFiniteSet(Nets)
    /\ ValidLogLevels \subseteq LogLevels /\ "info" \in LogLevels
    /\ NoCred \notin Creds
    /\ \A L \in CliLayers \cup FileLayers : IsLayer(L)
    /\ PktdConfOutcomes \subseteq PktdConfResults
    /\ IOErrors \in BOOLEAN /\ ConnectionFaults \in BOOLEAN
    /\ FileFaults \subseteq {"absent", "malformed"}
    /\ BadArgs \notin CliLayers

(***************************************************************************)
(* cfgutil.ExplicitString: a value and whether a parser assigned it.      *)
(***************************************************************************)
NewExplicitString(v) == [Value |-> v, set |-> FALSE]

\* The default config of lines 209-229.
DefaultConfig ==
    [ConfigFile |-> NewExplicitString(defaultConfigFile),
     AppDataDir |-> NewExplicitString(defaultAppDataDir),
     DataDir    |-> NewExplicitString(defaultAppDataDir),
     RPCKey     |-> NewExplicitString(defaultRPCKeyFile),
     RPCCert    |-> NewExplicitString(defaultRPCCertFile),
     LogDir     |-> defaultLogDir,
     DebugLevel |-> "info",
     Username |-> NoCred, Password |-> NoCred, OldUsername |-> NoCred,
     OldPassword |-> NoCred, BtcdUsername |-> NoCred, BtcdPassword |-> NoCred,
     ShowVersion |-> FALSE, Create |-> FALSE, CreateTemp |-> FALSE,
     NoInitialLoad |-> FALSE, Nets |-> {}]

(***************************************************************************)
(* A go-flags parse of one layer (the command line or the ini file) into  *)
(* the config: an option the layer sets is overwritten (UnmarshalFlag     *)
(* marks an ExplicitString explicit), a boolean flag that is present is   *)
(* set true, and the rest is left alone.                                   *)
(***************************************************************************)
Parse(c, L) ==
    [f \in Fields |->
        IF f \in ExplicitFields
          THEN IF L[f] = Unset THEN c[f] ELSE [Value |-> L[f], set |-> TRUE]
        ELSE IF f \in FlagFields THEN c[f] \/ L[f]
        ELSE IF f = "Nets" THEN c[f] \cup L[f]
        ELSE IF L[f] = Unset THEN c[f] ELSE L[f]]

\* The layer of a config file that sets nothing (the sample config).
EmptyLayer ==
    [f \in Fields |-> IF f \in FlagFields THEN FALSE
                      ELSE IF f = "Nets" THEN {} ELSE Unset]

VARIABLES
    pc,              \* the next block of loadConfig to run
    cli,             \* the command line (os.Args), fixed for the run
    cfg,             \* the config being resolved
    preCfg,          \* the scratch copy of the pre-parse
    configFilePath,  \* the config file loadConfig reads
    fileLayer,       \* what was read from it
    pktdConf,        \* what pktconfig.ReadUserPass returned
    configFileError, \* the warning kept for the end of the run
    activeNet,       \* the process-wide network profile
    walletDb,        \* the wallet file at dbPath: "absent", "present", "created"
    keystore,        \* whether the legacy keystore file exists in netDir
    decision,        \* the bootstrap branch taken
    result           \* the outcome of loadConfig

vars == <<pc, cli, cfg, preCfg, configFilePath, fileLayer, pktdConf,
          configFileError, activeNet, walletDb, keystore, decision, result>>

Results == {"running", "ok", "error", "exit", "nilError"}
Decisions == {"None", "CreatePermanent", "CreateTemporary", "LoadExisting",
              "RejectExists", "RejectMissing", "RejectLegacyFormat", "DeferLoad"}

Init ==
    /\ pc = "PreParse"
    /\ cli \in CliLayers \cup {BadArgs}
    /\ cfg = DefaultConfig
    /\ preCfg = DefaultConfig
    /\ configFilePath = defaultConfigFile
    /\ fileLayer = EmptyLayer
    /\ pktdConf = Unread
    /\ configFileError = "none"
    /\ activeNet = DefaultNet
    /\ walletDb \in {"absent", "present"}
    /\ keystore \in BOOLEAN
    /\ decision = "None"
    /\ result = "running"

\* An early return or os.Exit: the run ends with outcome r.
Stop(r) ==
    /\ pc' = "Done"
    /\ result' = r

Goto(l) ==
    /\ pc' = l
    /\ UNCHANGED result

(***************************************************************************)
(* Lines 231-241: the silent pre-parse into preCfg := cfg.  The copy is    *)
(* shallow, so the *ExplicitString fields are shared: the pre-parse writes *)
(* through them into cfg as well.  Any parse error, help included, returns *)
(* the error.                                                              *)
(***************************************************************************)
PreParse ==
    /\ pc = "PreParse"
    /\ \/ /\ cli = BadArgs
          /\ Stop("error")
          /\ UNCHANGED <<cfg, preCfg>>
       \/ /\ cli # BadArgs
          /\ preCfg' = Parse(cfg, cli)
          /\ cfg' = [f \in Fields |->
                       IF f \in ExplicitFields THEN preCfg'[f] ELSE cfg[f]]
          /\ Goto("ShowVersion")
    /\ UNCHANGED <<cli, configFilePath, fileLayer, pktdConf, configFileError,
                   activeNet, walletDb, keystore, decision>>

\* Lines 243-249: --version seen by the pre-parse prints and exits 0.
ShowVersion ==
    /\ pc = "ShowVersion"
    /\ \/ preCfg.ShowVersion /\ Stop("exit")
       \/ ~preCfg.ShowVersion /\ Goto("ConfigPath")
    /\ UNCHANGED <<cli, cfg, preCfg, configFilePath, fileLayer, pktdConf,
                   configFileError, activeNet, walletDb, keystore, decision>>

(***************************************************************************)
(* Lines 251-265: the config file is the pre-parsed --configfile           *)
(* (expanded), else <appDataDir>/pktwallet.conf when the pre-parsed        *)
(* appdata (or, without it, the expanded datadir) differs from the         *)
(* default, else the default file.  The pre-parsed appdata is compared and *)
(* joined as written, without cleanAndExpandPath.                          *)
(***************************************************************************)
ConfigPath ==
    /\ pc = "ConfigPath"
    /\ LET appDataDir ==
             IF ~preCfg.AppDataDir.set /\ preCfg.DataDir.set
               THEN CleanAndExpandPath(preCfg.DataDir.Value)
               ELSE preCfg.AppDataDir.Value
       IN configFilePath' =
             CASE preCfg.ConfigFile.set ->
                    CleanAndExpandPath(preCfg.ConfigFile.Value)
               [] appDataDir # defaultAppDataDir ->
                    Join(appDataDir, defaultConfigFilename)
               [] OTHER -> preCfg.ConfigFile.Value
    /\ Goto("ReadPktdConf")
    /\ UNCHANGED <<cli, cfg, preCfg, fileLayer, pktdConf, configFileError,
                   activeNet, walletDb, keystore, decision>>

(***************************************************************************)
(* Lines 267-281: unless the command line gave both rpcuser and rpcpass,  *)
(* the pktd user/pass are seeded from pktd.conf.  On a read error the code *)
(* tests errr, the pre-parse error, which is nil here: it returns          *)
(* er.E(nil), that is a nil config with a nil error.                       *)
(***************************************************************************)
ReadPktdConf ==
    /\ pc = "ReadPktdConf"
    /\ \/ /\ preCfg.Username # NoCred /\ preCfg.Password # NoCred
          /\ Goto("LoadFile")
          /\ UNCHANGED <<cfg, pktdConf>>
       \/ /\ preCfg.Username = NoCred \/ preCfg.Password = NoCred
          /\ \E r \in PktdConfOutcomes :
                /\ pktdConf' = r
                /\ \/ r.kind = "unreadable" /\ Stop("nilError") /\ UNCHANGED cfg
                   \/ /\ r.kind = "creds"
                      /\ cfg' = [cfg EXCEPT !.BtcdUsername = r.user,
                                            !.BtcdPassword = r.pass]
                      /\ Goto("LoadFile")
                   \/ /\ r.kind \in {"missing", "short"}
                      /\ Goto("LoadFile")
                      /\ UNCHANGED cfg
    /\ UNCHANGED <<cli, preCfg, configFilePath, fileLayer, configFileError,
                   activeNet, walletDb, keystore, decision>>

(***************************************************************************)
(* Lines 283-296: the ini parse of the config file into cfg.  A missing   *)
(* file is created from the sample config (which sets nothing) and parsed; *)
(* a failure to create it is only kept as a warning.  Any other error      *)
(* returns it.                                                             *)
(***************************************************************************)
LoadFile ==
    /\ pc = "LoadFile"
    /\ \/ \E st \in FileLayers :
             /\ cfg' = Parse(cfg, st)
             /\ fileLayer' = st
             /\ Goto("FinalParse")
             /\ UNCHANGED configFileError
       \/ /\ "malformed" \in FileFaults
          /\ Stop("error")
          /\ UNCHANGED <<cfg, fileLayer, configFileError>>
       \/ /\ "absent" \in FileFaults
          /\ \/ configFileError' = "none"
             \/ IOErrors /\ configFileError' = "createFailed"
          /\ Goto("FinalParse")
          /\ UNCHANGED <<cfg, fileLayer>>
    /\ UNCHANGED <<cli, preCfg, configFilePath, pktdConf, activeNet, walletDb,
                   keystore, decision>>

\* Mutant: the final parse goes into the pre-parse copy, losing the file.
FinalParseIntoPreCfg ==
    /\ pc = "FinalParse"
    /\ cfg' = Parse(preCfg, cli)
    /\ Goto("DataDirAlias")
    /\ UNCHANGED <<cli, preCfg, configFilePath, fileLayer, pktdConf,
                   configFileError, activeNet, walletDb, keystore, decision>>

(***************************************************************************)
(* Lines 298-305: the command line parsed again, over the file.  It is    *)
(* the same command line the pre-parse accepted, so it cannot fail here.   *)
(***************************************************************************)
FinalParse ==
    /\ pc = "FinalParse"
    /\ cfg' = Parse(cfg, cli)
    /\ Goto("DataDirAlias")
    /\ UNCHANGED <<cli, preCfg, configFilePath, fileLayer, pktdConf,
                   configFileError, activeNet, walletDb, keystore, decision>>

(***************************************************************************)
(* Lines 307-315: an explicit datadir is copied into the appdata value    *)
(* when appdata was not given; only the Value is assigned, so appdata      *)
(* stays not explicitly set.                                               *)
(***************************************************************************)
DataDirAlias ==
    /\ pc = "DataDirAlias"
    /\ \/ /\ cfg.DataDir.set /\ ~cfg.AppDataDir.set
          /\ cfg' = [cfg EXCEPT !.AppDataDir.Value = cfg.DataDir.Value]
       \/ /\ ~cfg.DataDir.set \/ cfg.AppDataDir.set
          /\ UNCHANGED cfg
    /\ Goto("AppDataPaths")
    /\ UNCHANGED <<cli, preCfg, configFilePath, fileLayer, pktdConf,
                   configFileError, activeNet, walletDb, keystore, decision>>

\* Mutant: the name is joined onto the path itself, not onto the app data dir.
RederiveOnOwnPath(es, appDataDir, name) ==
    IF es.set THEN es ELSE [es EXCEPT !.Value = Join(es.Value, name)]

\* A dependent path: rederived under the app data dir unless set itself.
Rederive(es, appDataDir, name) ==
    IF es.set THEN es ELSE [es EXCEPT !.Value = Join(appDataDir, name)]

(***************************************************************************)
(* Lines 317-328: an explicit appdata is expanded, and rpc.key and        *)
(* rpc.cert not set themselves are moved under it.                         *)
(***************************************************************************)
AppDataPaths ==
    /\ pc = "AppDataPaths"
    /\ \/ /\ cfg.AppDataDir.set
          /\ LET app == CleanAndExpandPath(cfg.AppDataDir.Value)
             IN cfg' = [cfg EXCEPT !.AppDataDir.Value = app,
                                   !.RPCKey = Rederive(@, app, "rpc.key"),
                                   !.RPCCert = Rederive(@, app, "rpc.cert")]
       \/ /\ ~cfg.AppDataDir.set
          /\ UNCHANGED cfg
    /\ Goto("SelectNetwork")
    /\ UNCHANGED <<cli, preCfg, configFilePath, fileLayer, pktdConf,
                   configFileError, activeNet, walletDb, keystore, decision>>

\* Mutant: the count of network flags is not checked.
SelectNetworkUncounted ==
    /\ pc = "SelectNetwork"
    /\ activeNet' = IF cfg.Nets = {} THEN activeNet ELSE CHOOSE n \in cfg.Nets : TRUE
    /\ Goto("LogSetup")
    /\ UNCHANGED <<cli, cfg, preCfg, configFilePath, fileLayer, pktdConf,
                   configFileError, walletDb, keystore, decision>>

(***************************************************************************)
(* Lines 330-367: each network flag that is set assigns activeNet (the    *)
(* process-wide profile) and is counted; more than one is an error, after  *)
(* activeNet has already been assigned.                                    *)
(***************************************************************************)
SelectNetwork ==
    /\ pc = "SelectNetwork"
    /\ \/ /\ Cardinality(cfg.Nets) > 1
          /\ \E n \in cfg.Nets : activeNet' = n
          /\ Stop("error")
       \/ /\ Cardinality(cfg.Nets) <= 1
          /\ activeNet' = IF cfg.Nets = {} THEN activeNet
                          ELSE CHOOSE n \in cfg.Nets : TRUE
          /\ Goto("LogSetup")
    /\ UNCHANGED <<cli, cfg, preCfg, configFilePath, fileLayer, pktdConf,
                   configFileError, walletDb, keystore, decision>>

(***************************************************************************)
(* Lines 369-379: the log directory is expanded and namespaced by the     *)
(* network name; then an invalid debug level returns an error.             *)
(***************************************************************************)
LogSetup ==
    /\ pc = "LogSetup"
    /\ cfg' = [cfg EXCEPT !.LogDir = Join(CleanAndExpandPath(@), activeNet)]
    /\ \/ cfg.DebugLevel \in ValidLogLevels /\ Goto("TempChecks")
       \/ cfg.DebugLevel \notin ValidLogLevels /\ Stop("error")
    /\ UNCHANGED <<cli, preCfg, configFilePath, fileLayer, pktdConf,
                   configFileError, activeNet, walletDb, keystore, decision>>

\* The data directory was given, as appdata or as datadir (line 383).
DataDirGiven == cfg.AppDataDir.set \/ cfg.DataDir.set

(***************************************************************************)
(* Lines 381-395: --createtemp without a data directory, or on a network  *)
(* other than simnet, prints a message and exits 0.                        *)
(***************************************************************************)
TempChecks ==
    /\ pc = "TempChecks"
    /\ \/ ~DataDirGiven /\ cfg.CreateTemp /\ Stop("exit")
       \/ /\ DataDirGiven \/ ~cfg.CreateTemp
          /\ SimNet \notin cfg.Nets /\ cfg.CreateTemp
          /\ Stop("exit")
       \/ /\ DataDirGiven \/ ~cfg.CreateTemp
          /\ SimNet \in cfg.Nets \/ ~cfg.CreateTemp
          /\ Goto("WalletCheck")
    /\ UNCHANGED <<cli, cfg, preCfg, configFilePath, fileLayer, pktdConf,
                   configFileError, activeNet, walletDb, keystore, decision>>

(***************************************************************************)
(* Lines 397-418: --create with --createtemp is an error; then a failure  *)
(* to stat dbPath or to create netDir returns it.                          *)
(***************************************************************************)
WalletCheck ==
    /\ pc = "WalletCheck"
    /\ \/ cfg.CreateTemp /\ cfg.Create /\ Stop("error")
       \/ ~(cfg.CreateTemp /\ cfg.Create) /\ IOErrors /\ Stop("error")
       \/ ~(cfg.CreateTemp /\ cfg.Create) /\ Goto("Bootstrap")
    /\ UNCHANGED <<cli, cfg, preCfg, configFilePath, fileLayer, pktdConf,
                   configFileError, activeNet, walletDb, keystore, decision>>

\* Mutant: a failed createSimulationWallet is printed but not returned.
BootstrapTempIgnoresFailure ==
    /\ cfg.CreateTemp
    /\ \/ /\ walletDb = "present"
          /\ decision' = "LoadExisting"
          /\ Goto("Connections")
          /\ UNCHANGED walletDb
       \/ /\ walletDb = "absent"
          /\ decision' = "CreateTemporary"
          /\ \/ walletDb' = "created" /\ Goto("Connections")
             \/ IOErrors /\ Goto("Connections") /\ UNCHANGED walletDb

(***************************************************************************)
(* Lines 420-436: --createtemp loads an existing wallet, or creates the   *)
(* simulation wallet (createSimulationWallet) and goes on.                 *)
(***************************************************************************)
BootstrapTemp ==
    /\ cfg.CreateTemp
    /\ \/ /\ walletDb = "present"
          /\ decision' = "LoadExisting"
          /\ Goto("Connections")
          /\ UNCHANGED walletDb
       \/ /\ walletDb = "absent"
          /\ decision' = "CreateTemporary"
          /\ \/ walletDb' = "created" /\ Goto("Connections")
             \/ IOErrors /\ Stop("error") /\ UNCHANGED walletDb

\* Mutant: --create does not check for an existing wallet file.
BootstrapCreateNoExistsCheck ==
    /\ ~cfg.CreateTemp /\ cfg.Create
    /\ walletDb \in {"absent", "present"}
    /\ decision' = "CreatePermanent"
    /\ \/ walletDb' = "created" /\ Stop("exit")
       \/ IOErrors /\ Stop("error") /\ UNCHANGED walletDb

(***************************************************************************)
(* Lines 437-454: --create refuses an existing wallet file, else runs the *)
(* creation wizard (createWallet) and exits 0.                             *)
(***************************************************************************)
BootstrapCreate ==
    /\ ~cfg.CreateTemp /\ cfg.Create
    /\ \/ /\ walletDb = "present"
          /\ decision' = "RejectExists"
          /\ Stop("error")
          /\ UNCHANGED walletDb
       \/ /\ walletDb = "absent"
          /\ decision' = "CreatePermanent"
          /\ \/ walletDb' = "created" /\ Stop("exit")
             \/ IOErrors /\ Stop("error") /\ UNCHANGED walletDb

(***************************************************************************)
(* Lines 455-471: no wallet and no --noinitialload: an error that points  *)
(* to --create, worded after whether the legacy keystore exists; a failed  *)
(* stat of the keystore returns that error instead.                        *)
(***************************************************************************)
BootstrapReject ==
    /\ ~cfg.CreateTemp /\ ~cfg.Create
    /\ walletDb = "absent" /\ ~cfg.NoInitialLoad
    /\ \/ decision' = IF keystore THEN "RejectLegacyFormat" ELSE "RejectMissing"
       \/ IOErrors /\ UNCHANGED decision
    /\ Stop("error")
    /\ UNCHANGED walletDb

\* Otherwise the wallet is opened later, by the caller or over RPC.
BootstrapDefer ==
    /\ ~cfg.CreateTemp /\ ~cfg.Create
    /\ walletDb # "absent" \/ cfg.NoInitialLoad
    /\ decision' = "DeferLoad"
    /\ Goto("Connections")
    /\ UNCHANGED walletDb

Bootstrap ==
    /\ pc = "Bootstrap"
    /\ \/ BootstrapTemp \/ BootstrapCreate \/ BootstrapReject \/ BootstrapDefer
    /\ UNCHANGED <<cli, cfg, preCfg, configFilePath, fileLayer, pktdConf,
                   configFileError, activeNet, keystore>>

(***************************************************************************)
(* Lines 473-580: the RPC client address and CA file (when --userpc) and  *)
(* the RPC listeners are defaulted and normalised.  What they become is    *)
(* not modelled here; a malformed address, a failed host lookup or file    *)
(* stat, or a listener shared by both RPC servers returns an error, after  *)
(* the wallet bootstrap has already run.                                   *)
(***************************************************************************)
Connections ==
    /\ pc = "Connections"
    /\ \/ Goto("Finish")
       \/ ConnectionFaults /\ Stop("error")
    /\ UNCHANGED <<cli, cfg, preCfg, configFilePath, fileLayer, pktdConf,
                   configFileError, activeNet, walletDb, keystore, decision>>

\* Mutant: the pktd credentials fall back before the legacy aliases do.
CredentialFallbackSwapped(c) ==
    LET user == IF c.Username = NoCred THEN c.OldUsername ELSE c.Username
        pass == IF c.Password = NoCred THEN c.OldPassword ELSE c.Password
    IN [c EXCEPT !.Username = user,
                 !.Password = pass,
                 !.BtcdUsername = IF @ = NoCred THEN c.Username ELSE @,
                 !.BtcdPassword = IF @ = NoCred THEN c.Password ELSE @]

\* Lines 587-603: a credential not given falls back to the legacy alias,
\* then a pktd credential not given falls back to the (new) RPC one.
CredentialFallback(c) ==
    LET user == IF c.Username = NoCred THEN c.OldUsername ELSE c.Username
        pass == IF c.Password = NoCred THEN c.OldPassword ELSE c.Password
    IN [c EXCEPT !.Username = user,
                 !.Password = pass,
                 !.BtcdUsername = IF @ = NoCred THEN user ELSE @,
                 !.BtcdPassword = IF @ = NoCred THEN pass ELSE @]

(***************************************************************************)
(* Lines 582-612: the certificate paths are expanded, the credentials     *)
(* fall back, the kept config-file warning is logged and the config is     *)
(* returned.                                                               *)
(***************************************************************************)
Finish ==
    /\ pc = "Finish"
    /\ cfg' = CredentialFallback(
                [cfg EXCEPT !.RPCCert.Value = CleanAndExpandPath(@),
                            !.RPCKey.Value = CleanAndExpandPath(@)])
    /\ Stop("ok")
    /\ UNCHANGED <<cli, preCfg, configFilePath, fileLayer, pktdConf,
                   configFileError, activeNet, walletDb, keystore, decision>>

\* The run has returned: nothing changes any more.
Terminated ==
    /\ pc = "Done"
    /\ UNCHANGED vars

Next ==
    \/ PreParse \/ ShowVersion \/ ConfigPath \/ ReadPktdConf \/ LoadFile
    \/ FinalParse \/ DataDirAlias \/ AppDataPaths \/ SelectNetwork
    \/ LogSetup \/ TempChecks \/ WalletCheck \/ Bootstrap \/ Connections
    \/ Finish \/ Terminated

Spec == Init /\ [][Next]_vars

-----------------------------------------------------------------------------
(***************************************************************************)
(*                               Properties                                *)
(***************************************************************************)
Pcs == {"PreParse", "ShowVersion", "ConfigPath", "ReadPktdConf", "LoadFile",
        "FinalParse", "DataDirAlias", "AppDataPaths", "SelectNetwork",
        "LogSetup", "TempChecks", "WalletCheck", "Bootstrap",
        "Connections", "Finish", "Done"}

ExplicitString(S) == [Value : S, set : BOOLEAN]
LogDirs == RootPath \cup FilePath
LogPaths == LogDirs \cup {Join(d, n) : d \in LogDirs, n \in Nets}
FieldType(f) ==
    IF f \in ExplicitFields THEN ExplicitString(OptionValues[f])
    ELSE IF f \in CredFields THEN Creds \cup {NoCred}
    ELSE IF f = "LogDir" THEN LogPaths
    ELSE OptionValues[f]

ConfigOK(c) == DOMAIN c = Fields /\ \A f \in Fields : c[f] \in FieldType(f)

\* Every variable holds a value of its type.
TypeOK ==
    /\ pc \in Pcs
    /\ cli \in CliLayers \cup {BadArgs}
    /\ ConfigOK(cfg) /\ ConfigOK(preCfg)
    /\ configFilePath \in FilePath
    /\ fileLayer \in FileLayers \cup {EmptyLayer}
    /\ pktdConf \in PktdConfResults \cup {Unread}
    /\ configFileError \in {"none", "createFailed"}
    /\ activeNet \in Nets
    /\ walletDb \in {"absent", "present", "created"}
    /\ keystore \in BOOLEAN
    /\ decision \in Decisions
    /\ result \in Results

\* The value a layer gives an option, or d when the layer does not set it.
Given(L, f, d) == IF L[f] = Unset THEN d ELSE L[f]

\* The value of an option below both layers: its default, or for the pktd
\* credentials what pktd.conf held.
Underlay(f) ==
    CASE f \in ExplicitFields -> DefaultConfig[f].Value
      [] f = "BtcdUsername" /\ pktdConf \in PktdCreds -> pktdConf.user
      [] f = "BtcdPassword" /\ pktdConf \in PktdCreds -> pktdConf.pass
      [] OTHER -> DefaultConfig[f]

(***************************************************************************)
(* The three-way precedence law (spec section 8): once the final parse    *)
(* has run, every option holds the command line's value if it gave one,   *)
(* else the config file's, else its default (for the pktd credentials,     *)
(* pktd.conf's); an ExplicitString is explicit exactly when a layer set    *)
(* it.  It is about the pre-parse writing through the shared pointers, the *)
(* pktd.conf seeding before the file, and the parse order of lines         *)
(* 233-305.                                                                *)
(***************************************************************************)
Precedence(c) ==
    \A f \in Fields :
        CASE f \in ExplicitFields ->
               c[f] = [Value |-> Given(cli, f, Given(fileLayer, f, Underlay(f))),
                       set |-> cli[f] # Unset \/ fileLayer[f] # Unset]
          [] f \in FlagFields -> c[f] = (cli[f] \/ fileLayer[f])
          [] f = "Nets" -> c[f] = cli[f] \cup fileLayer[f]
          [] OTHER -> c[f] = Given(cli, f, Given(fileLayer, f, Underlay(f)))

\* The precedence law holds of cfg once the final parse has run (line 305).
LayerPrecedence == pc = "DataDirAlias" => Precedence(cfg)

\* The value of an option after both layers.
Layered(f) == Given(cli, f, Given(fileLayer, f, Underlay(f)))

(***************************************************************************)
(* The credentials of a returned config (spec 4.7): the RPC user name is   *)
(* the layered --rpcuser, or if none the hidden legacy alias --username;    *)
(* the pktd user name is the layered --pktdusername (the command line, the *)
(* file, then pktd.conf), or if none that RPC user name; the same for      *)
(* --rpcpass, --password and --pktdpassword.  It is about the pktd.conf    *)
(* seeding of lines 267-281, both parses, and the order of the two         *)
(* fallbacks at lines 587-603.                                             *)
(***************************************************************************)
CredentialResolution ==
    result = "ok" =>
        LET user == IF Layered("Username") # NoCred THEN Layered("Username")
                    ELSE Layered("OldUsername")
            pass == IF Layered("Password") # NoCred THEN Layered("Password")
                    ELSE Layered("OldPassword")
        IN  /\ cfg.Username = user /\ cfg.Password = pass
            /\ cfg.BtcdUsername = IF Layered("BtcdUsername") # NoCred
                                  THEN Layered("BtcdUsername") ELSE user
            /\ cfg.BtcdPassword = IF Layered("BtcdPassword") # NoCred
                                  THEN Layered("BtcdPassword") ELSE pass

(***************************************************************************)
(* A config is returned only with at most one network flag set, with the  *)
(* process-wide activeNet being the chosen profile (or the default when    *)
(* none is), and with the log directory namespaced by that same profile    *)
(* (lines 330-372).                                                        *)
(***************************************************************************)
NetworkChoice ==
    result = "ok" =>
        /\ Cardinality(cfg.Nets) <= 1
        /\ IF cfg.Nets = {} THEN activeNet = DefaultNet ELSE activeNet \in cfg.Nets
        /\ cfg.LogDir[Len(cfg.LogDir)] = activeNet

(***************************************************************************)
(* A wallet file is only ever written where none existed, and only under  *)
(* exactly one of --create and --createtemp, a temporary one only on       *)
(* simnet with a data directory given (lines 381-454).                     *)
(***************************************************************************)
WalletCreation ==
    walletDb' # walletDb =>
        /\ walletDb = "absent" /\ walletDb' = "created"
        /\ cfg.Create # cfg.CreateTemp
        /\ cfg.CreateTemp => activeNet = SimNet /\ DataDirGiven

WalletCreationSafe == [][WalletCreation]_vars

(***************************************************************************)
(* When loadConfig returns a config, the wallet it names exists or its    *)
(* loading is deferred (--noinitialload): every path of lines 420-471 that *)
(* leaves no wallet returns an error.                                      *)
(***************************************************************************)
WalletReadyOrDeferred ==
    result = "ok" => walletDb \in {"present", "created"} \/ cfg.NoInitialLoad

-----------------------------------------------------------------------------
(***************************************************************************)
(* What the spec says and the code does not do (checked for violation).   *)
(***************************************************************************)

(***************************************************************************)
(* loadConfig hands back either a config or an error (spec section 7: all *)
(* fatal paths return an error); the pktd.conf read error of line 271 must *)
(* not end the run with neither.                                           *)
(***************************************************************************)
NoSilentFailure == result # "nilError"

(***************************************************************************)
(* --create together with --createtemp is always rejected with an error,  *)
(* independent of the other flags (spec sections 3 and 8; lines 383-406). *)
(* Runs that were asked for --version, or whose command line did not      *)
(* parse, are not about this.                                              *)
(***************************************************************************)
CreateFlagsRejected ==
    (/\ pc = "Done" /\ cli # BadArgs /\ ~cli.ShowVersion
     /\ cli.Create /\ cli.CreateTemp) => result = "error"

\* The app data directory the user chose: appdata, else the legacy datadir,
\* on either layer, else the default; expanded (spec 4.3 and 4.5).
ChosenAppDataDir ==
    CleanAndExpandPath(
        Given(cli, "AppDataDir", Given(fileLayer, "AppDataDir",
            Given(cli, "DataDir", Given(fileLayer, "DataDir", defaultAppDataDir)))))

\* Whether either layer set option f.
LayerSets(f) == cli[f] # Unset \/ fileLayer[f] # Unset

(***************************************************************************)
(* The dependent paths follow the app data directory (spec section 3):    *)
(* in a returned config, rpc.key, rpc.cert and the log directory that were *)
(* not set themselves are <appdata>/rpc.key, <appdata>/rpc.cert and        *)
(* <appdata>/logs/<network> (lines 307-328 and 369-372).                   *)
(***************************************************************************)
DependentPathsFollowAppData ==
    result = "ok" =>
        /\ ~LayerSets("RPCKey") =>
              cfg.RPCKey.Value = Join(ChosenAppDataDir, "rpc.key")
        /\ ~LayerSets("RPCCert") =>
              cfg.RPCCert.Value = Join(ChosenAppDataDir, "rpc.cert")
        /\ ~LayerSets("LogDir") =>
              cfg.LogDir = Join(Join(ChosenAppDataDir, "logs"), activeNet)

(***************************************************************************)
(* When the command line moves the app data directory and names no config *)
(* file, the config file read is <appdata>/pktwallet.conf of the app data  *)
(* directory the run goes on to use (spec 4.3; lines 251-265 against       *)
(* 307-328).                                                               *)
(***************************************************************************)
ConfigFileInAppData ==
    (/\ result = "ok" /\ cli.ConfigFile = Unset
     /\ cli.AppDataDir # Unset \/ cli.DataDir # Unset
     /\ fileLayer.AppDataDir = Unset /\ fileLayer.DataDir = Unset)
        => configFilePath = Join(cfg.AppDataDir.Value, defaultConfigFilename)

=============================================================================
