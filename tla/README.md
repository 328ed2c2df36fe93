# Verification of pktwallet's loadConfig

This directory holds TLA+ models of `loadConfig` in
`src/pktwallet/config.go` (lines 207-612). It has TLC configurations that
check the models on small instances, and TLAPS proofs that hold for every
value of the constants.

## 1. The system

`loadConfig` is one synchronous function. It runs once, on one thread, before
anything else in the wallet starts. There is no concurrency, so the hard
behaviours are these:

- the order of its blocks;
- the state that one block leaves for a later block, sometimes stale;
- the many early returns and `os.Exit` calls;
- what the environment answers: which files exist, and which reads, stats,
  creations and lookups fail.

Its parts, in the order the code runs them:

| Part | Lines | State it touches | Operations |
|---|---|---|---|
| Default Config Builder | 43-49, 208-229 | `cfg` | compiled-in defaults; the paths are `ExplicitString`s that are not set |
| Two-Pass Parser | 231-249, 298-305 | `preCfg`, `cfg` | silent pre-parse into `preCfg`, `--version` exit, final parse into `cfg` |
| Config File Loader | 251-296 | `configFilePath`, `cfg.Btcd*`, `configFileError` | config-file path, pktd.conf probe, ini parse, create-on-missing |
| Path Resolver | 307-328, 369-372, 582-585 | `cfg.AppDataDir`, `cfg.RPCKey`, `cfg.RPCCert`, `cfg.LogDir` | `--datadir` alias, re-derivation under appdata, log namespacing, expansion |
| Network Selector | 330-367 | `activeNet` (a process-wide global) | at most one network flag |
| Log level | 374-379 | | `SetLogLevels` error |
| Bootstrap Decision Engine | 381-471 | wallet file, legacy keystore | `--createtemp` exits, `--create`/`--createtemp` conflict, create, load, reject or defer |
| RPC client, listeners | 473-580 | `RPCConnect`, `CAFile`, listener lists | defaults, normalisation, cross-server conflict |
| Credential Fallback | 587-603 | the credential options | legacy aliases, then pktd credentials from the RPC credentials |

How the parts interact:

- `preCfg := cfg` (line 233) copies the pointers of the five `ExplicitString`
  options. The pre-parse therefore writes the command line's paths into `cfg`
  too.
- The config-file path is computed from the pre-parse, before the Path
  Resolver expands the app data dir.
- The bootstrap reads the flags of the final parse, the network the Network
  Selector chose, and whether a data dir was given.

## 2. Modules

- **`LoadConfig.tla`** models the function, one action per block:
  - the blocks in order: `PreParse`, `ShowVersion`, `ConfigPath`,
    `ReadPktdConf`, `LoadFile`, `FinalParse`, `DataDirAlias`, `AppDataPaths`,
    `SelectNetwork`, `LogSetup`, `TempChecks`, `WalletCheck`, `Bootstrap`
    (with `BootstrapTemp`, `BootstrapCreate`, `BootstrapReject` and
    `BootstrapDefer`), `Connections` and `Finish`;
  - the variable `pc` names the next block. An early return or exit sets `pc`
    to `"Done"` and records the outcome in `result`: `ok`, `error`, `exit`, or
    `nilError` for a return with neither a config nor an error;
  - each action's guard and disjuncts are the block's `if`s. Its `UNCHANGED`
    lists what the block does not assign. A trailing effect of the block (for
    example the expansion and fallback in `Finish`) is part of the same
    action.
- **`MCLoadConfig.tla`** gives the constants small values for TLC:
  - four roots: the default, an absolute one, `~/w`, and the home directory
    `~/w` expands to;
  - six file names, three networks, two credentials, and a valid and an
    invalid debug level;
  - per run, the command lines and config files to enumerate.
- **`LoadConfigProofs.tla`** and **`LayerProofs.tla`** hold the TLAPS
  proofs of `LoadConfig` (section 5). `LayerProofs` extends
  `LoadConfigProofs`.
- **`Addresses.tla`** models network addresses and the address helpers that
  lines 473-580 use:
  - an address is a record `[host, port]`, with `NoPort` when no port was
    written, or `Malformed`;
  - a listener list is a sequence, because Go slices keep order and
    duplicates;
  - `NormalizeAddress`, `NormalizeAddresses` and `Dedup` model
    `cfgutil.NormalizeAddress` and `cfgutil.NormalizeAddresses`, which are
    not under `src/`, from spec 4.6;
  - it also holds the helpers taken from the code: `LocalhostListeners`
    (lines 540-544) and `SharedListener` (lines 565-579).
- **`ConnectionsSpec.tla`** is the abstract specification of lines
  479-580. One step, `Resolve`, goes from the options the block is entered
  with to its outcome:
  - `ok`, with the resolved options (`Resolved`), exactly for the inputs it
    accepts (`Accepted`): a well-formed rpcconnect when the RPC client is
    used, well-formed listeners, and no address in both normalized lists;
  - `error` for any input it does not accept, or when a `FileExists` probe
    or the localhost lookup may fail (`MayFail`).
- **`Connections.tla`** models the same lines one block per action, in
  code order: `ClientSetup`, `CAFileChoice`, `DefaultListeners`,
  `NormalizeLegacy`, `NormalizeExperimental` and `ConflictCheck`.
  - The variable `input` records the options the block was entered with. It
    never changes, and exists only for the refinement mapping.
  - `files` is the environment's answer to the CA file probes.
  - `CS == INSTANCE ConnectionsSpec WITH ...` is the refinement mapping.
    The abstract result stays `running` until `pc = "Done"`. The abstract
    output is the concrete options only after a successful return, and the
    input before that.
- **`MCConnections.tla`** gives the constants small values for TLC:
  - four hosts (localhost, the two addresses it resolves to, and a remote
    host) and two ports;
  - listener slices of up to two addresses out of four: `localhost` without
    a port, `localhost:8332`, `127.0.0.1:8332`, and a malformed address;
  - one slice of three, in which a repeat is not adjacent.
- **`AddressesProofs.tla`** and **`ConnectionsProofs.tla`** hold the TLAPS
  proofs about the address helpers and about `Connections` (section 5).

How `Connections` composes with `LoadConfig`:

- In `LoadConfig`, lines 473-580 are the single step `Connections`: either
  go on to `Finish` or return an error (when `ConnectionFaults`).
- The options `Connections.tla` changes (rpcconnect, the CA file, the
  listener lists, the neutrino limits) are not among the options
  `LoadConfig` tracks.
- So the projection of every `Connections.tla` run onto `LoadConfig`'s state
  is that step. Its refinement of `ConnectionsSpec` is what the step
  abstracts.

How the code's state is abstracted:

- **Paths.** A path is a sequence `<<root, name, ...>>`. `cleanAndExpandPath`
  maps the root through `ExpandRoot`, so `~` is expanded and an absolute root
  is unchanged. `filepath.Join` is `Append`.
- **Options.** An option the properties tell apart is a field of a record.
  The network flags are the set `Nets`, and an `ExplicitString` is
  `[Value, set]`.
- **Inputs.** A command line and a config file are layers: one value per
  option, or `Unset`. A go-flags parse of a layer (`Parse`) sets each option
  that the layer gives and marks an `ExplicitString` explicit. A flag is ORed
  in and a network flag is added to `Nets`. go-flags and cfgutil are not part
  of `src/`, so `Parse` and `NewExplicitString` are modelled from the spec.
- **The environment.** The constants decide what the environment may do:
  - `FileLayers` and `FileFaults`: the config file's contents, or that it is
    absent or malformed;
  - `PktdConfOutcomes`: what `pktconfig.ReadUserPass` returns;
  - `IOErrors`: whether a stat, mkdir or wallet creation may fail;
  - `ConnectionFaults`: whether the RPC client and listener setup may fail.
  - `Init` chooses whether the wallet file and the legacy keystore exist.

Two assumptions are made about code outside `src/`:

- `er.E(nil)` is nil.
- `ReadUserPass` returns no error for a missing pktd.conf. If it did return
  one, every run without pktd.conf would end at line 275.

`FinalParse` has no error branch. It parses the same arguments that the
pre-parse accepted, so its error path at line 300 cannot be reached.

## 3. Runs

Each run is `tlc -workers 2 -config <cfg> MCLoadConfig`, or
`MCConnections` for the two `Connections` runs.

| Run | Expect | Properties | What it shows |
|---|---|---|---|
| resolution | pass | `TypeOK`, `LayerPrecedence`, `CredentialResolution` | The CLI beats the file, which beats the defaults (or pktd.conf for the pktd credentials), for every option (spec §8). It holds in spite of the pre-parse writing through the shared pointers and the pktd.conf seeding. In a returned config, the RPC credentials fall back to the legacy aliases, and the pktd credentials then fall back to the resolved RPC ones (spec 4.7). |
| bootstrap | pass | `NetworkChoice`, `WalletReadyOrDeferred`, `WalletCreationSafe` | A returned config has at most one network, `activeNet` equal to it, and the log dir namespaced by it. A returned config has a wallet or `--noinitialload`. A wallet is only written where none was, under exactly one of `--create`/`--createtemp`, and a temp wallet only on simnet with a data dir. |
| connections (`MCConnections`) | pass | `ListenersResolved`, `ImplementsConnectionsSpec` | The RPC client and listener blocks, with every early return, implement `ConnectionsSpec`. Every successful return hands on listener lists whose addresses all carry a port and which share no address (spec section 2), whether the lists were given or defaulted. |
| interfaces (`MCConnections`) | violation | `NoSharedInterface` | `localhost:8332` for one server and `127.0.0.1:8332` for the other pass the string comparison of line 571, and both servers then bind 127.0.0.1:8332. The binding is `BoundAddress`: a server listening on a host name binds the first address it resolves to. The RPC servers are not under `src/` and the spec does not describe binding, so this is an assumption about `net.Listen`, not a translation. |
| silent | violation | `NoSilentFailure` | Line 272 tests the stale `errr` and not `err`. When pktd.conf is unreadable, the function returns `nil, nil, er.E(nil)`: no config and no error. |
| createflags | violation | `CreateFlagsRejected` | `--create --createtemp` without a data dir, or off simnet, exits 0 at lines 383-395 before the check of line 401 rejects it. |
| datadir | violation | `DependentPathsFollowAppData` | With the legacy `--datadir` alone, the alias at line 313 does not mark appdata explicit. rpc.key, rpc.cert and logs stay under the default dir. |
| tilde | violation | `ConfigFileInAppData` | `--appdata ~/w` reads the config file from the unexpanded `~/w` (line 258), while the data goes to the expanded directory. |

Bounds:

- **resolution.** Each option in a layer is unset or takes one or two
  values. Those values are chosen so that every branch of the
  config-file-path logic is taken: explicit file, appdata, datadir, `~`, and
  the default. So is every pktd.conf and file outcome. About 660,000 states.
- **bootstrap.** Enumerates every combination of the three bootstrap flags,
  zero, one or two networks on each layer, a data dir on each layer, the
  wallet and keystore present or absent, and every I/O and connection
  failure. About 11,600 states.

- **connections.** Enumerates:
  - `--userpc` and `--clienttls` on and off;
  - an rpcconnect that is unset, malformed, `localhost` with no port, or
    remote with a port;
  - `--cafile` given or not;
  - every pair of listener slices of length 0 to 2;
  - each CA file present or absent;
  - every probe and lookup failure.

  That covers both lists being empty (the defaults), a port-less address
  that equals a ported one once normalized, duplicates, malformed
  addresses, and the local and remote CA fallback. About 300,000 states.

The function is straight-line, so a run has at most 17 steps. Each run
enumerates every combination of its inputs, and nothing is cut short by a
depth bound.

Fairness: none is assumed. There is no liveness property, because the
function ends after a bounded number of steps. `Terminated` lets a finished
run stutter, so there are no deadlocks to report.

Every property of a passing run has a mutant, listed in `PROJECT.json`. The
mutant is a plausible bug in the code, and TLC finds the property violated
under it:

| Mutant | Property that catches it |
|---|---|
| re-derive relative to the path itself | `TypeOK` |
| final parse into `preCfg` | `LayerPrecedence` |
| no network count | `NetworkChoice` |
| ignore a failed temp-wallet creation | `WalletReadyOrDeferred` |
| `--create` without the exists check | `WalletCreationSafe` |
| pktd credentials fall back before the aliases | `CredentialResolution` |
| conflict check on the lists as given | `ImplementsConnectionsSpec` |
| experimental listeners validated but the normalized copy not assigned | `ListenersResolved` |

## 4. Findings

See `findings` in `PROJECT.json`:

- line 272 is a code bug;
- lines 383/401, 313 and 258 diverge from the spec;
- line 571 leaves a gap in the spec's rule: the rule compares addresses,
  while its stated reason is about interfaces (run interfaces).

## 5. Proofs

### `LoadConfigProofs.tla`

`ConstantsAssumption` in `LoadConfig.tla` is the only assumption:

- the constants are well formed;
- every layer is a layer;
- `Nets` is finite.

| Theorem | States | Argument |
|---|---|---|
| `TypeCorrect` | `Spec => []TypeOK` | `TypeOK` is not inductive. `LogSetup` appends the network to `cfg.LogDir`, and that is well typed only if nothing was appended before. `FinalParse` parses `cli`, which is only a layer if the pre-parse accepted it. The inductive invariant `IInv` adds `LogDirFresh` (before `LogSetup`, the log dir is a plain root or file path) and `CliAccepted`. Lemmas show that each update of the config keeps it well typed: `ParseOK`, `CredsOK`, `AliasOK`, `AppOK`, `LogJoinOK`, `CertsOK` and `FallbackOK`. There is one lemma per action (`<Action>IInv`). |
| `WalletReadyProved` | `Spec => []WalletReadyOrDeferred` | The inductive invariant `BInv` is given below. Each action has a lemma `<Action>BPart`. |
| `WalletCreationProved` | `Spec => WalletCreationSafe` | Every step that writes the wallet is a `Bootstrap` step that satisfies `WalletCreation`, given `BInv`. `AtMostOne` turns "at most one network flag, and both `activeNet` and simnet are among them" into `activeNet = SimNet`. |
| `NetworkChoiceProved` | `Spec => []NetworkChoice` | The inductive invariant `NInv` is `BInv` with `NPart`, given below. Each action has a lemma `<Action>NPart`; the blocks before `SelectNetwork` share `EarlyNPart` and those between `LogSetup` and `Finish` share `MiddleNPart`. `JoinLast` shows that a joined log dir ends in the network, and `FinishKeeps` that `Finish` leaves the flags and the log dir alone. |

`BInv` is `IInv` together with five conjuncts:

- `NetChosen`: after `SelectNetwork`, at most one network flag is set, and
  `activeNet` is one of them.
- `TempChecked`: past `TempChecks`, `--createtemp` implies simnet and a data
  dir.
- `CreateExclusive`: past `WalletCheck`, not both create flags.
- `Running`: no outcome before `Done`.
- `ReadyAtFinish`: after the bootstrap, a wallet or `--noinitialload`.

`NPart` has three conjuncts. `NetworkChoice` speaks only of a returned
config, so they carry the choice from `SelectNetwork` to `Finish`:

- `NetDefault`: before `SelectNetwork` runs, `activeNet` is the default.
  This is what makes `activeNet = DefaultNet` right when no flag is set.
- `NetFixed`: from `LogSetup` to the return, at most one flag is set and
  `activeNet` is that flag or, with none, the default.
- `LogNamed`: after `LogSetup`, the last element of the log dir is
  `activeNet`.

TLC checked each inductive invariant as an invariant of the bootstrap run
before it was proved.

### `LayerProofs.tla`

It extends `LoadConfigProofs` and reuses `BInv`.

| Theorem | States | Argument |
|---|---|---|
| `LayerPrecedenceProved` | `Spec => []LayerPrecedence` | `LayerStages` gives the value of `cfg` at each `pc` up to `DataDirAlias`. At `DataDirAlias`, `cfg` is `Parse(Parse(Seeded, fileLayer), cli)`. `ParsedPrecedence` shows that this value satisfies `Precedence`. |
| `CredentialResolutionProved` | `Spec => []CredentialResolution` | `CredsKept` says that, from `AppDataPaths` to the return, every credential option still holds its layered value. `FinishLPart` shows that the fallback of `Finish` then gives what `CredentialResolution` states. |

`LayerPrecedence` is stated as `Precedence(cfg)` at `pc = "DataDirAlias"`.
`Precedence(c)` is the three-way law, field by field: the CLI, then the
file, then the default. For the pktd credentials, the default is
pktd.conf.

The inductive invariant is `LInv == BInv /\ LayerStages /\ CredsKept /\
CredentialResolution`. `LayerPrecedence` alone is not inductive: it says
nothing before `DataDirAlias`, so `LayerStages` follows `cfg` through the
stages:

- `DefaultConfig` before the pre-parse;
- `PreParsed`, the default with the command line's paths written through the
  shared pointers of line 233;
- `Seeded`, that value with the pktd.conf credentials;
- the file parse;
- the CLI parse.

The lemmas it rests on:

- `ParseEmpty` and `SeededFunction`: parsing an empty layer changes nothing.
- `DefaultExplicit`: the paths of the default are `ExplicitString`s that are
  not set.
- `PrecedenceCreds`: `Precedence` fixes each credential to `Layered`.
- Each action has a lemma `<Action>LPart`. The blocks after `DataDirAlias`
  share `LaterLPart`. A step that returns an error is handled by
  `FailedLPart`.

TLC checked `LInv` as an invariant of the resolution run before it was
proved.

### `ConnectionsProofs.tla`

The assumptions are:

- `AddressAssumption`: the constants of addresses are well formed, and
  localhost resolves to at least one address;
- `ConnectionsAssumption`: the inputs are addresses and slices of
  addresses.

| Theorem | States | Argument |
|---|---|---|
| `Refinement` | `Spec => ImplementsConnectionsSpec` | Every block before the one that returns is a stutter of the abstract spec. The returning block is `Resolve`. |
| `TypeCorrect` | `Spec => []TypeOK` | `TypeOK` is inductive as it stands. There is one lemma per block (`<Action>Type`). The listener slices stay slices of addresses by `NormalizeAddressesType` and `LocalhostListenersType`. No run checks this `TypeOK`: no plausible bug in these blocks leaves the types. |
| `ListenersResolvedProved` | `Spec => []ListenersResolved` | `RInvHolds` gives `RInv` in every state. At a successful return, `RInv` says that the lists are the normalized given or default lists, and that `Accepted` held: both were free of malformed addresses and `SharedListener` was false of the normalized lists. `NormalizedListeners` gives the ports, and `NotShared` turns the passed conflict check into disjoint lists. |

The argument for `Refinement`:

- The invariant `RInv` says, for each value of `pc`:
  - the options already handled hold the value `Resolved` gives them;
  - the ones not yet handled still hold their input;
  - the checks passed so far (a well-formed rpcconnect, valid lists) hold.
- `ErrorStep` shows that an error return is allowed whenever the input is
  rejected or a fault may occur.
- `ConflictCheckStep` shows that the last block succeeds exactly when
  `Accepted` holds, and hands on `Resolved`.
- `SameHelpers` identifies the instance's copies of the address helpers
  with `Addresses`' own.

The refinement proof never unfolds `NormalizeAddresses`. The two facts
about it that the other theorems need are lemmas of `AddressesProofs.tla`.

### `AddressesProofs.tla`

It holds lemmas only, about the spec-modelled `cfgutil` helpers:

- `NormalizeAddressesType`: normalizing a slice of addresses gives a slice
  of addresses.
- `NormalizedListeners`: normalizing a slice without a malformed address
  gives only addresses with a port.

`Dedup` is a recursive function, `kept[i \in 0..Len(s)]`. What it returns
for every slice is proved by induction on the index, without the library's
induction theorems, which the provers cannot instantiate:

- `LeastNat` gets the least-number principle from `WFMin` and
  `NatLessThanWellFounded`.
- Each inductive argument takes the least index at which the claim fails
  and derives a contradiction from the index before it.
- `DedupPrefixExists` and `DedupPrefixType` use this to show that a function
  following the recursion exists and is into `Seq(S)`. So the `CHOOSE` of
  `Dedup` satisfies the recursion (`DedupFnPrefix`).
- `DedupKeptAll` shows that after `k` elements, `Dedup` has kept exactly
  the elements `{s[i] : i \in 1..k}` (`DedupKept`), so `DedupElements`:
  `Dedup` drops only repeats.

What stays with TLC:

- Every property of a passing run is also a theorem. The violation
  properties (`NoSilentFailure`, `CreateFlagsRejected`,
  `DependentPathsFollowAppData`, `ConfigFileInAppData`, `NoSharedInterface`)
  are only model-checked, because TLC finds them false.
- The prover cannot handle liveness or `ENABLED`. No liveness property is
  stated (section 6).
- The library's induction theorems take an operator parameter, which the
  installed provers cannot instantiate. Induction over data is therefore
  done by least counterexample, as in `AddressesProofs`.
- RECURSIVE operators cost the prover its SMT backend. None of the modules
  uses RECURSIVE.

## 6. Not modelled, and what is left

Not modelled:

- `PowLimit` and `globalcfg` (lines 365-367). They only write process-wide
  chain parameters.
- The internals of `cleanAndExpandPath`: environment variables, `~user` and
  the fallback to `.`. The expansion of the CA file at line 583 is not
  modelled either.
- `validLogLevel`, which `loadConfig` does not call.
- The wallet creation wizard. It is external, and only its outcome is
  modelled.
- What happens to the files after `loadConfig` returns, for example a CA
  file that disappears before the client opens it.

No liveness property is stated, and none is needed:

- every run of both models reaches `pc = "Done"` within a bounded number of
  steps (17 and 7);
- the only blocking calls are the file-system calls and the DNS lookup,
  which the spec (section 5) leaves to the OS without a timeout;
- a fairness assumption would add nothing that the step bound does not
  already give.

Left for later:

- an abstract specification of `loadConfig` as a whole (options in, config
  or error out), with `LoadConfig` shown to refine it as `Connections`
  refines `ConnectionsSpec`.
