---------------------------- MODULE MCLoadConfig ----------------------------
(***************************************************************************)
(* Instances of LoadConfig for TLC.  Roots: the default app data dir, an  *)
(* absolute directory, and "~/w" that cleanAndExpandPath turns into the    *)
(* home directory "/home/u/w".  Each run gives CliLayers and FileLayers    *)
(* the options its question is about; the others are never set.           *)
(***************************************************************************)
EXTENDS LoadConfig, TLC

CONSTANTS rDefault, rAbs, rTilde, rHome, simnet, pkt, testnet, c1, c2, unset, badArgs

MCRoots == {rDefault, rAbs, rTilde, rHome}
MCExpandRoot == [r \in MCRoots |-> IF r = rTilde THEN rHome ELSE r]
MCNames == {"pktwallet.conf", "rpc.key", "rpc.cert", "logs", "alt.conf", "my.key"}
MCNets == {simnet, pkt, testnet}
MCCreds == {c1, c2}
MCLogLevels == {"info", "bogus"}
MCValidLogLevels == {"info"}
MCPktdAll ==
    {[kind |-> k, user |-> NoCred, pass |-> NoCred] : k \in {"missing", "unreadable", "short"}}
        \cup {[kind |-> "creds", user |-> c2, pass |-> c1]}
MCPktdMissing == {[kind |-> "missing", user |-> NoCred, pass |-> NoCred]}

\* A layer that sets nothing, as a set of choices per option.
NoOptions ==
    [f \in Fields |-> IF f \in FlagFields THEN {FALSE}
                      ELSE IF f = "Nets" THEN {{}} ELSE {unset}]

\* All layers whose options range over the sets D gives.
LayersOf(D) ==
    [ConfigFile : D.ConfigFile, AppDataDir : D.AppDataDir, DataDir : D.DataDir,
     RPCKey : D.RPCKey, RPCCert : D.RPCCert, ShowVersion : D.ShowVersion,
     Create : D.Create, CreateTemp : D.CreateTemp,
     NoInitialLoad : D.NoInitialLoad, LogDir : D.LogDir,
     DebugLevel : D.DebugLevel, Username : D.Username, Password : D.Password,
     OldUsername : D.OldUsername, OldPassword : D.OldPassword,
     BtcdUsername : D.BtcdUsername, BtcdPassword : D.BtcdPassword,
     Nets : D.Nets]

(***************************************************************************)
(* Run "resolution": paths, credentials and the layering of the two       *)
(* parses, with an absolute or ~ app data dir on either layer.            *)
(***************************************************************************)
ResolutionCli ==
    LayersOf([NoOptions EXCEPT
        !.ConfigFile = {unset, <<rTilde, "alt.conf">>},
        !.AppDataDir = {unset, <<rTilde>>},
        !.DataDir = {unset, <<rAbs>>},
        !.RPCKey = {unset, <<rAbs, "my.key">>},
        !.Username = {unset, c1},
        !.Password = {unset, c1},
        !.OldPassword = {unset, c2},
        !.ShowVersion = BOOLEAN])
ResolutionFile ==
    LayersOf([NoOptions EXCEPT
        !.AppDataDir = {unset, <<rAbs>>},
        !.RPCCert = {unset, <<rAbs, "my.key">>},
        !.LogDir = {unset, <<rTilde>>},
        !.BtcdUsername = {unset, c2},
        !.Password = {unset, c2},
        !.DebugLevel = {unset, "bogus"}])

(***************************************************************************)
(* Run "bootstrap": the network flags, --create, --createtemp,            *)
(* --noinitialload and a data directory, with the wallet and the legacy   *)
(* keystore present or not.                                                *)
(***************************************************************************)
BootstrapCli ==
    LayersOf([NoOptions EXCEPT
        !.Create = BOOLEAN, !.CreateTemp = BOOLEAN, !.NoInitialLoad = BOOLEAN,
        !.DataDir = {unset, <<rAbs>>},
        !.Nets = {{}, {simnet}, {pkt}, {simnet, pkt}}])
BootstrapFile ==
    LayersOf([NoOptions EXCEPT
        !.Nets = {{}, {testnet}},
        !.AppDataDir = {unset, <<rAbs>>}])

(***************************************************************************)
(* Runs "datadir" and "tilde": the legacy --datadir alone, and an         *)
(* --appdata written with a leading ~, on the command line.                *)
(***************************************************************************)
DataDirCli ==
    LayersOf([NoOptions EXCEPT !.DataDir = {unset, <<rAbs>>}])
TildeCli ==
    LayersOf([NoOptions EXCEPT !.AppDataDir = {unset, <<rTilde>>}])
EmptyFile == LayersOf(NoOptions)

=============================================================================
