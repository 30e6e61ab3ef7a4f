# BypssEng in TLA+

Specifications of BypssEng: what its engine does with processes, ports, the
system proxy, the system's DNS servers, its configuration file and its
telemetry, checked with TLC on small instances and, for seven of the modules, proved
with TLAPS. `PROJECT.json` says for every definition which lines of the source it
stands for.

## The system

BypssEng watches the network of one machine, decides what is being blocked,
and starts a tunnel (Xray, Tor, Hysteria, ...) behind the system proxy. It is
one Python process with one asyncio event loop. A step of a model is what a
coroutine does between two awaits.

| Component | State | Operations | Talks to |
|---|---|---|---|
| Connector: `execute_bypass_and_connect` in `BypssEng.py`, with `runtime/process.py` and `infrastructure/runtime_session.py` | `active_procs`, `strategy_lock`, the session's ports and reserved sockets | one attempt: reserve ports, prepare, spawn, test, set the proxy, end the old children; or restore | OS processes, system network; called by the selection and by manual connects |
| Orchestrator: `engine/orchestrator.py`, `engine/state_machine.py` | engine state, observations, the cached port | `run`, `diagnose`, `select_and_connect`, `verify` | diagnosis probes, selection, process manager |
| Selection: `bypass_executor_wrapper`, `decision/*`, `engine/rule_engine.py` | the candidates of a cycle | rules, scores, tiers, attempts, outcomes | connector, telemetry |
| Telemetry: `telemetry/*` | SQLite tables | record and rate outcomes, logs, events | everyone |
| System network: `infrastructure/system_network.py` | the OS settings, the state file | set and restore DNS, set proxy, recovery | netsh, registry, networksetup, gsettings |
| Admin IPC: `runtime/admin_service.py` | token, rate limit | set and restore DNS and proxy on request | system network |
| Configuration fetch: `fetch_fresh_configs`, `core/cnfg.py`, `strategies/adapters/tor.py` | `cnfg.json`, `_fetch_lock`, `_direct_fetch_failed`, the bootstrap Tor | fetch, test and save configs | subscriptions, the dashboard |
| Dashboard: `run_dashboard.py`, `api_server.py` | WebSocket clients, broadcast and log tasks | manual connect, save subscriptions, status, logs, shutdown | connector, fetch, telemetry |
| Diagnosis: `diagnosis/*` | the results so far | measure and classify, probe after probe | the network; its observation goes to the rules |
| Adapters: `strategies/*` | configuration files of other programs | `prepare`, `processes` | connector |
| Knowledge updater, supply chain | bundle and backup | update, roll back, verify | nobody creates them |

What is hard here:

* **Interleaving.** A manual connect runs next to the orchestrator's attempt; a
  fetch runs next to the dashboard; a DNS request next to `safe_cleanup`; many
  broadcasts iterate over one set of clients that comes and goes.
* **Partial failure.** An attempt has eight places at which it can fail, and
  each has to leave ports, children and proxy in agreement.
* **Crash.** The process may end anywhere; children, proxy, DNS servers and
  files stay.
* **Stale state.** A port that is cached, a state file that is loaded, awaited
  over and saved, a configuration that is read at the start of a fetch and
  written at its end.
* **Liveness.** The engine must come out of `DEGRADED`, every waiter must get
  the lock, a lost tunnel must be noticed.
* **Naming.** Adapters build configurations of other programs out of parts that
  name each other: outbounds, dialers, routing rules, listeners.
* **Classification.** Six probes with three or more outcomes each meet in one
  observation; a mixture nobody thought of falls through to the last return.
* **Numbers.** Scores, confidence and cutoff meet in ways the documentation does
  not say.

What makes each component correct: the connector never sends the machine's
traffic to a tunnel it stopped and answers every call truthfully; the orchestrator
follows its table and keeps going; the selection follows tiers and scores and
always reaches its last resort; the diagnosis calls nothing healthy that is not;
the state file can always undo a DNS change; a
fetch is alone and loses no account; an attempt that starts programs has a way for
the traffic, as encrypted as the link asks; an event reaches the clients that stay,
a record that was reported saved is in the file, and the shutdown ends.

## The modules

| Module | Models | Extends or instantiates |
|---|---|---|
| `TunnelService` | what a caller of an attempt may rely on (abstract) | |
| `Connector` | attempts, children, ports, proxy, exits and restarts | `TunnelService` (refinement) |
| `EngineStateMachine` | the table of transitions and the forced `DEGRADED` | |
| `Engine` | `Orchestrator.run` with manual connects | `EngineStateMachine`, `Connector` (extends both) |
| `SystemNetwork` | DNS, proxy, state file, recovery, `safe_cleanup`, IPC handlers | |
| `Diagnosis` | the probes of `Orchestrator.diagnose`, one after the other | `Decision` |
| `Decision` | rules, capabilities, success rate, score, cutoff (pure) | |
| `Links` | what the parser makes of a link (pure) | |
| `Adapters` | what a strategy starts for a candidate (pure) | `Links` |
| `Selection` | cycles of ranked attempts, what they start and what they teach | `Decision`, `Adapters` |
| `ConfigFetch` | fetch jobs, the configuration file, the bootstrap Tor | |
| `Dashboard` | WebSocket clients, broadcasts, log records, shutdown | |
| `*MC` | symmetry sets and inputs for TLC | the module they are named after |
| `ConnectorProofs`, `SystemNetworkProofs`, `DiagnosisProofs`, `ConfigFetchProofs`, `DashboardProofs`, `SelectionProofs` | theorems | the module they are named after |
| `EngineProofs` | theorems | `Engine`, `TunnelProofs` |
| `TunnelProofs` | theorems about children, ports, proxy and refinement | `ConnectorProofs` |

### Connector

A task is one call of `execute_bypass_and_connect`; `pc` names the await at which
it is suspended, or what it returned. `queue` is `pm.strategy_lock`: an asyncio
lock serves its waiters in order, so its head is the holder. The SOCKS and the
HTTP port are always handled together and are one port. Of the two commands of DNSTT
the second serves that port; the first, `dnstt-client`, is a helper (`helpers`,
`IsHelper`) that listens on the SOCKS port plus 1000, which nobody reserves: any port
but the session's, that of another live child included (`CommandPorts`). A program that
finds its port taken exits (`Binds`), and a test request comes back where somebody
serves every port on its way (`Serving`), whoever that is. `oldProcs`, `oldPort` and
`todo` are locals of the call. `Begin` to `Switch` follow the good path,
`PrepareFails`, `SpawnFails`, `ProbeFails` and a failed `EnableProxy` lead to
`restore_state_on_failure` (`CleanChild`, `CleanDone`, `DisableProxy`), and
`PrepareRaises` leaves the block by an exception. `ForceKill`, `InterruptCLI` and
`ShutdownDashboard` are the three ways the process ends. `env`, chosen at the
beginning from the constant `Environments`, says what the environment may do; a
property that needs an environment names it, so that one run shows them all. `run` says
which program runs: it is chosen at each start of the process, normal or with
`--diagnose-only`, and constant until its end, so that a diagnosis may follow a
run that was killed with the proxy on.

`TunnelService` is what the callers see: tunnels are built one at a time, a call that
answers `True` put the port of the very tunnel it built behind the proxy and nobody
moved it before the answer; one that answers `False` left the proxy off; one that
raises did not touch it. The mapping shows a call (`CallSeen`) as asked, building,
routed or refusing, and the session's port as the tunnel of the call that is at work
(`TunnelSeen`).

### Engine

`loop` is the await at which `run()` is suspended, `state` the state machine.
`FindHealthy`, `CannotDiagnose` and `DiagnosisReady` are the outcomes of the
probes; `TryNext`, `TrySucceeds`, `TryFails` and `TryRaises` the loop of
`bypass_executor_wrapper` around calls of the connector. `Engine` extends `Connector`
and has its variables besides its own (`connector` and `engine`), so that what is
proved of the connector can be cited in `EngineProofs`; names both have begin with
`Engine` here. `cachedPort` is `orchestrator.local_http_port`. At least
two candidates exist in every selection, because the two Tor strategies are
appended unconditionally.

### SystemNetwork

The coroutines that can be suspended in the manager are requests of the admin IPC
server, `set_system_proxy` calls of the engine, and main (recovery, and
`safe_cleanup`). Each has its local copy of the state file (`snap`), because the code
loads it, awaits a tool and saves the copy. Every interface has its servers (`osDns`):
its user's, for which its own name stands, a list somebody asked for, or none
(`"bare"`). `default` is the interface of the default route, which may move (`Roam`);
a request remembers the one it was told (`iface`) and the backup the one it is for. A
read that fails prints nothing, which `get_current_dns` takes for a static
configuration without servers, so `ReadDns` gives `"bare"`, and `PutBack` does nothing
for such a backup, as the code. Under the flag a request changes the servers of its
interface without a backup (`LoadState`). IPv6 servers are read and never changed, and
are left out. The platform is Windows: `set_system_dns` changes nothing elsewhere; the
answer `EMPTY` is of the other platforms. `env` is chosen at the beginning from the
constant `Environments` and says what may go wrong in a behaviour; a property that
holds only in some environments names them, and one run shows all of them.

### Diagnosis

`phase` is the probe that `diagnose()` awaits. A probe is one action: it chooses what
the network answers and stores what the code makes of that (`DnsLayer`, `DpiLayer`,
`SpeedLayer`, `UdpLayer`). Only the behaviour of the UDP servers is state, because two
probes ask the same ones: `test_dns_layer` one at random, `test_udp_status` all. `Shift`
changes them at any moment, and `steady` remembers whether it did since the
diagnosis began. The finished observation is one of `Decision`'s.

### Decision and Selection

`Decision` holds the rules, the table of capabilities and the score as integer
arithmetic (tenths, thousandths, billionths; the units are in the module).
`Selection` runs cycles: observations are chosen, the links of the three tiers
parsed and ranked, the candidates tried in that order, outcomes recorded.
`queue` is the set of the scored candidates that are left, and `Before` is the order in
which the loop comes to them: tier, score, place in the file, as a stable sort gives it.
`history` keeps the newest `MaxHistory` rows; time passes between cycles by age
classes, as the weights have five. A `condition` is the set of the strings that are
joined to make it, and the rules that match are a set as well: every layer has at most
one of them, and they are joined in the order of the layers. `binaries` are the programs that were found when the engine started; they
decide which fallbacks are offered and which candidates start anything (`Starts`).

### Links and Adapters

A link is what its text says: scheme, completeness, transport, security. `Parse` is
`parse_config_link`, as far as the adapters branch on its answer. `Prepared` is
`prepare()` of the sixteen strategies: of the file it writes, the model keeps the
local listeners, the outbounds with their tags and what each dials through, and the
tags the routing rules name. `Commands` is `processes()`. `Carries` follows the
traffic no rule is for: it takes the first outbound, which has to be the tunnel and
has to reach its server by itself, through another outbound of the file or through
another program of the strategy.

### ConfigFetch

A job is one call of `fetch_fresh_configs`: the look at the lock (`CheckLock`), the
task that waits for it (`Enqueue`), the import of `cnfg.py`, which may abort
(`ImportAborts`) or fail and be replaced by a subprocess that fails as well
(`ImportFails`, `SubprocessEnds`), `cnfg.main` from its read of the file
(`StartMain`) over the public lists and the search for a worker (`PublicTested`) to
its two writes (`LinksTested`, `Registered`), and the `finally` clause (`Stop`).
`LaunchTor`, `TorReady` and `TorRaises` are the temporary Tor after a direct fetch
that failed. `SaveSubscription` is the dashboard's handler on the same file. Both readers of the
file go on with their defaults when a read fails (`Loaded`), and a write that fails is
only logged (`Write`); `env` says which of the two may happen.
`Restart` kills the program anywhere and starts it again: the file stays, and so
does, for all the program knows, a Tor.

### Dashboard

`cast` has one record per task of `broadcast()`. Python's iterator over a set raises
when the set's size differs from the one at its start, and otherwise goes on over a
table that may have been rebuilt; `ChangeClients` therefore leaves every running
iterator with any of the present members still to come, and `touched` remembers
that it happened. `Send` is one `send_json`: it comes back on an open connection,
finds a dead one, or stays suspended on a peer that does not read.
`HandlerEnds` is the end of `websocket_handler`. `HookedLog` and `HookedReport` are
the tasks `run_dashboard.py` starts for each log line and each event. An `insert_log`
has three actions, because `close()` may come between its awaits; the thread of the
connection serves requests in the order they are made, so a record is `written` when
its statement was handed over and `durable` when a commit was, whoever asked for
it: all tasks share one transaction. `Interrupt`, `CancelAll`, `CloseDb`, `DbClosed` and
`LoopCloses` are the shutdown in the order of `run_dashboard.py`.

## The runs

All runs together take about ten minutes with two workers; the longest is
`connector_service` with a little over two. Deadlock checking is on everywhere: in every model somebody
can always act.

| Run | Question | Result |
|---|---|---|
| `connector` | With every fault: do attempts exclude each other, does a test that passes go through the tunnel it was made for, do the session's port and the children agree between calls, is a running child lost in one way only, does `--diagnose-only` leave the proxy alone? With children that die: does the proxy never point at a tunnel the engine stopped? | holds |
| `connector_service` | Does the connector implement `TunnelService`, and does every call return? | holds |
| `engine` | Is the table followed, the loop never stuck, "connected" true? Does the engine recover, end its selections, notice a loss? | holds |
| `engine_probe` | Do the checks look at the tunnel (orchestrator.py:209)? | violated |
| `dns` | While the default route stays, the interfaces have servers or DHCP and what is read is right: can the user's DNS servers be put back after every step, and are they? With every fault: does the flag always come with a backup that can be parsed? | holds |
| `diagnosis` | Does `dns_ok` always stand for a resolver that found the name and a direct query without error, is no outage left unnamed, and do two probes of the same servers agree? | holds |
| `selection_order` | Are tiers and scores followed, the last resorts reached, UDP strategies left out? Has every attempt that starts programs a way for the traffic, and is no link but VMess with REALITY carried with less encryption than it asks for? | holds |
| `selection_fallback` | Do fallbacks wait for the configs (README.md:62)? | violated |
| `selection_learning` | Is an outcome of the same network found by the next scores (README.md:54)? | violated |
| `fetch` | Is one fetch at work at a time, Tor gone with it, does no account get lost while the file can be read, and does every call end? | holds |
| `fetch_subscriptions` | Is the saved list of subscriptions kept (README.md:167)? | violated |
| `dashboard` | Does an event reach the clients that stay, are dead ones forgotten, is a saved record in the file, does the shutdown end? | holds |

The violated ones are the findings of `PROJECT.json`, each with the line of the
documentation it contradicts.

The type invariants of `Engine` and `Dashboard` are theorems and stand in no run.
Every property of a passing run has a mutation of the code's model that breaks it
(`mutants`); the mutated operators stand next to the ones they replace and their
comments begin with "Mutation".

### What the properties assume

Not every property survives every fault, and each names what it needs:

* `NoBlackHole` holds while children die and `prepare()` raises. It needs the tools
  of `set_system_proxy` to work (no `proxy_cmd_*`) and the process not to end: after
  a kill the proxy stays on a dead port (see "Also met while modelling").
* `SessionMatchesChildren` needs `prepare()` not to raise: it is called outside
  the `try`, so an exception leaves new ports next to old children. It holds with
  failing proxy tools and exits too.
* `TestReachesOwnTunnel` is about the session's port. A DNSTT whose second port belongs
  to somebody else hands its traffic to whoever answers there, and its test passes: the
  code does not look.
* `TunnelService` is implemented while children die and `prepare()` raises.
* `ConnectedMeansRouted` is about an engine nobody connects past by hand, in the
  environments `TunnelService` is implemented in.
* `OneAttemptAtATime`, `LostOnlyByFailedReplacement`, `TestReachesOwnTunnel` and
  `DiagnoseOnlyKeepsProxy` hold under all faults.
* `DnsRestorable` and `RecoveryRestoresDns` are about one DNS request at a time on a
  machine whose default route stays where it is and whose interfaces have servers or
  DHCP, with a netsh that tells them and a state file that can be read and written.
  Without any one of these the code can lose the servers, and only `FlagHasBackup`
  is claimed; it does not say whose servers the backup holds. Tools that cannot be
  started cost `RecoveryRestoresDns` but not `DnsRestorable`.
* `DnsOkIsEarned` is about the system resolver and the direct query: DoH may have been
  dropped and the random name may have a private address where `dns_ok` is said.
* `NoDowngrade` leaves out VMess links whose tls field says "reality", which the code
  builds without any security; the run has such a link.
* `UdpProbesAgree` is about a network that stays as it is during one diagnosis.
* `AccountsSurvive` is about the WARP account and the worker, while the file can be
  read: after one failed read the defaults are written over both. The collected configs
  do not survive a stop after the first write of a fetch, nor a saved list a fetch
  that began before it (`LastSaveWins`).
* `EventReachesStayers` is about a set of clients that was not touched during the
  broadcast: another client that comes or goes makes the iterator raise.
* `RecordedIsKept` is about a record whose `insert_log` ended well; one that was
  cancelled may be in the file or not.
* `AttemptsCarryTraffic` is about the tunnel. That the routing rules name outbounds
  the file has is claimed for links only: WARP and the worker lack some.

### Bounds

* Two tasks are the orchestrator and one manual connect. Three ports let an old
  tunnel, a leaked one and a new one live together; in the liveness runs there are
  more ports than child slots, as an OS never runs out of ephemeral ports. Three
  child slots hold an old child and a new tunnel of two, the most commands a
  strategy has (DNSTT). In `connector` a view (`SlotsSeen`) takes states that differ only
  in what is left of children that ended and that no list names for one: no guard and
  no property looks at it.
* `MaxTries` is 3: a first, a middle and a last candidate. `engine` has one child slot and
  two ports, so that liveness can be checked with a manual connect at work; its safety
  properties are theorems for all bounds, and old children next to new ones are
  the question of `connector`.
* Two DNS requests and one proxy request overlap in `SystemNetwork`; a third does
  the same as the second. One list of servers is enough, since no definition
  compares two lists: the user's own and another one are what the properties
  tell apart. Two interfaces are the one of the backup and the one the route moved to.
* The three servers of `Diagnosis` are the three of the configuration; the speeds
  have a value between any two thresholds (0, 20 kbps, 500 kbps) and pairs on both
  sides of the factor of three.
* `SelectionMC` has one observation for every branch of the score and of the
  rules, a link for every kind of capabilities and every branch of the adapters, one
  that no adapter carries and one that cannot be parsed. The lists are such as a
  fetch or an editor leaves them; `hysteria2` and `tuic` links get there by hand only.
  Two installations: one with every program, one that lacks the optional ones.
* `MaxHistory` is 1: one row that were found would already change a score, and that none
  is ever found is proved for every bound.
* Three jobs of `ConfigFetch` are one at work, one that passed the look and one
  that asks; the run has no symmetry because it checks liveness. One list of
  subscriptions is enough for what `fetch` asks; `fetch_subscriptions` has two, the
  one a fetch read and the one saved since.
* Two clients and two broadcasts of `Dashboard` are one iterator under which the set
  changes by another's clean-up or by a connection. One record meets `close()` at
  each of its awaits; the commit of a second could only make the first durable
  earlier.
* Symmetry is used in safety runs only, over tasks, ports, slots, requests or
  servers that no definition tells apart.

### Fairness

Weak fairness of every task step and of the end of a child that was told to stop:
the event loop runs each coroutine that can go on, `asyncio.Lock` serves its
waiters in order, and every await of an attempt is a sleep, a request with a
timeout, a bounded wait or an OS tool that answers. One read has no timeout at all,
in the scan for clean CDN addresses (health.py:225): the code does not bound it, and
`EveryCallReturns`, `SelectionEnds` and the fair half of the refinement rest on the
assumption that its peer answers or closes. The engine's loop is weakly fair as a whole. Calls, manual
connects, the outcomes of probes, deaths of children and exits are not fair. The
awaits of a fetch have timeouts, but for the closing of a connection and
`proc.communicate` (BypssEng.py:240), which waits for a program that fails at its first
import; both are assumed to end.

In `Dashboard` what can run is fair: a send to a peer that reads or is gone, a
cancelled task, the end of a handler, the steps of the shutdown. Connections,
events, Ctrl-C and a peer that does not read are not, so that `ShutdownEnds` has to
hold with broadcasts that hang.

## The proofs

Eight modules hold theorems, each for every value of the constants (any number of
tasks, ports, requests, servers, clients, and every set of faults).

| Theorem | States | Invariant it comes from |
|---|---|---|
| `ConnectorProofs!TypeCorrect` | `[]TypeOK` | `Inv` |
| `ConnectorProofs!MutualExclusion` | `[]OneAttemptAtATime` | `Inv` |
| `ConnectorProofs!DiagnosisIsReadOnly` | `DiagnoseOnlyKeepsProxy` | `NeverAtProxy` |
| `TunnelProofs!TestsAreOwn` | `TestReachesOwnTunnel` | `TunnelInv` |
| `TunnelProofs!SessionIsTruthful` | `[]SessionMatchesChildren` | `TunnelInv` |
| `TunnelProofs!LossHasOneCause` | `LostOnlyByFailedReplacement` | `TunnelInv`, `IdleInv` |
| `TunnelProofs!ProxyIsBacked` | `[]NoBlackHole` | `BackInv` |
| `TunnelProofs!TunnelIsTheService` | `ImplementsService` | `BackInv`, `NeverAtProxy` |
| `EngineProofs!LoopAlwaysDispatches` | `[]LoopCanDispatch` | `LoopInv` |
| `EngineProofs!TransitionsAreLegal` | `NeverForced` | `LoopInv` |
| `EngineProofs!EngineTypeCorrect` | `[]EngineTypeOK` | `LoopInv`, `CountInv`, the connector's `Inv` |
| `EngineProofs!EngineDrivesConnector` | `EngineSpec => Spec` | none |
| `EngineProofs!ConnectedIsRouted` | `[]ConnectedMeansRouted` | `SoloInv`, `AnsweredInv` |
| `SystemNetworkProofs!TypeCorrect` | `[]TypeOK` | `Inv` |
| `SystemNetworkProofs!FlagComesWithBackup` | `[]FlagHasBackup` | `Inv` |
| `SystemNetworkProofs!ServersAreRestorable` | `[]DnsRestorable` | `BackupInv` |
| `SystemNetworkProofs!RecoveryIsEffective` | `RecoveryRestoresDns` | `RecoveryInv` |
| `DiagnosisProofs!ObservationsAreComplete` | `[]TypeOK` | `Inv` |
| `DiagnosisProofs!HealthyDnsIsEarned` | `[]DnsOkIsEarned` | `Inv` |
| `DiagnosisProofs!ProbesAgree` | `[]UdpProbesAgree` | `Inv` |
| `DiagnosisProofs!OutageIsNamed` | `[]DnsOutageIsNamed` | `Inv` |
| `SelectionProofs!TypeCorrect` | `[]TypeOK` | `Inv` |
| `SelectionProofs!AttemptsAreOrdered` | `[]TriedInOrder` | `Inv` |
| `SelectionProofs!TorBeforeFailure` | `[]LastResortTried` | `Inv` |
| `SelectionProofs!UdpStrategiesStayOut` | `[]UdpOnlyLeftOut` | `Inv` |
| `SelectionProofs!LearningIsLost` | `[]OutcomesAreNeverFound` | `Inv` |
| `SelectionProofs!CalmMeansFallbacks` | `[]ConfigsNeedPressure` | `Inv` |
| `SelectionProofs!AttemptsCarry` | `[]AttemptsCarryTraffic` | `Inv` |
| `SelectionProofs!SecurityIsKept` | `[]NoDowngrade` | `Inv` |
| `ConfigFetchProofs!TypeCorrect` | `[]TypeOK` | `Inv` |
| `ConfigFetchProofs!FetchesExclude` | `[]OneFetchAtATime` | `Inv` |
| `ConfigFetchProofs!TorEndsWithItsJob` | `[]TorServesItsJob` | `Inv` |
| `ConfigFetchProofs!AccountsAreKept` | `AccountsSurvive` | `Inv` |
| `DashboardProofs!TypeCorrect` | `[]TypeOK` | `Inv` |
| `DashboardProofs!RecordsAreKept` | `[]RecordedIsKept` | `Inv` |
| `DashboardProofs!EventsReachStayers` | `EventReachesStayers` | `Inv` |

### Connector

The only assumption is `ConnectorAssumption`, which `Connector` declares and TLC
evaluates in every run: the bound on commands is a natural number, the flag is a
Boolean, the faults are among those the module names, and the values for "no
port", "the user's proxy" and "off" are no ports.

`OneAttemptAtATime` is not inductive: it says nothing of the queue, so a state with
one task in the block and another at the head of the queue satisfies it and has a
step that breaks it. `Inv` adds `LockInv` (a task in the block is the head of the
queue) and `TypeOK`. `TypeOK` in turn needs `PortInv`: a failing call writes the
port it remembered back into the session, and `set_system_proxy(True, port)` takes
the session's port, so whenever a program runs (`run # "none"`) it and every call
in the block must have one. The step lemma has one case per action; `JoinKeepsHead`
and `ReturnKeepsInv` say once what a joining and a leaving task do to the queue.
`NeverAtProxy` (no call is at an await inside `set_system_proxy` unless the run is
a normal one) is the invariant of the third theorem, and `StepKeepsRun` says that
no step of a call changes the kind of run.

### Children, ports and proxy

`TunnelProofs` builds on mutual exclusion: `StepIsHolders` says that a step of a call
is a step of the holder and that nobody else is in the block, so that each case of
a step looks at one call; `StepLands` says where it leaves it.

`TestReachesOwnTunnel` says of a step what no single state shows. `FreshInv` is what it
takes: a reserved port is no live child's, and while the children are started and
tested it is only that of the one that is to serve it, so whoever answers there is the
call's own. `OldInv` says that the list of children is the old one until the new one
begins. `MatchInv` (the children of a call in the block are all on the
session's port, helpers excepted, or there are none) and `DownInv` (nothing is left of an engine that
does not run) carry `SessionMatchesChildren` through every way a call can end; the
step that puts the old port back is why a failing call must have an empty list.
`LostOnlyByFailedReplacement` needs besides that a call remembers no children outside
the block (`IdleInv`), or `Begin` could forget some.

`BackInv` is what makes the order of a switch right: until the proxy moves, the old
children stand behind it, from then on the new ones, which were tested alive and are
others (`active \cap oldProcs[t] = {}`), so that the old ones may end. It speaks of
environments in which the proxy's tools work and nobody ends the process (`Benign`).

`TunnelIsTheService` is the safety half of the refinement, under the assumption
`Orderly` on the constant `Environments`. `Ask` is `Call`, `Build` the `Begin` that builds a
strategy, `Divert` the step into "switching", `Confirm` is `Switch`, `GiveUp` the step into
"cleaning", `Refuse` the one into "failed", `Raise` is `PrepareRaises`; every other step is a
stutter. `Alone` follows from mutual exclusion.

### Engine

`LoopInv` names for every await of `run()` the states the machine can be in.
`LegalRequests` evaluates the table of transitions for each request the loop makes in
these states. Steps of the connector and of children leave the loop alone, so
`LoopAlwaysDispatches` and `TransitionsAreLegal` hold whatever those do; they need no
assumption. `EngineDrivesConnector` says that an engine with its manual connects does
with the connector what `Connector` allows (from `EngineAssumption`: the orchestrator's
task is one of the tasks), so that every theorem about `Connector` is one about the
engine's connector; `EngineTypeCorrect` uses it for half of the variables and `CountInv`
for the rest.

`ConnectedMeansRouted` relates the state of the loop to the proxy and the children, which
only the connector changes. Two invariants meet in it. `AnsweredInv`: while the engine
says that it is connected, its own last call is the one that answered `True`, and
nobody but a new call of its own takes the answer back. `SoloInv`: a call nobody
competes with, when it answers `True`, leaves the proxy on the session's port and all
children there. It is not inductive by itself: until the proxy moves it rests on
`MatchInv`, and after that on `BackInv`, which says that there are children at all. Both
are of the connector alone and are proved over its theorems. The theorem assumes
`Orderly`, as the refinement does: where the proxy's tools may fail the proxy need not
be where the code believes it is.

### SystemNetwork

`SystemNetworkAssumption` separates the constants: lists of servers, interfaces, "bare"
and "none" are different things, and a coroutine is main, a DNS request or a proxy request.

The invariant comes in four parts, each checked with TLC before it was proved. `Inv`
holds under all faults: besides the types it says at which awaits each kind of
coroutine can be and what it then holds (`PlaceInv`), so that a restore has a backup
that is a setting, with its interface, and a save has one at all. `SerialInv` turns the assumption "no
overlap", a guard on when requests begin, into what the proofs use: one coroutine at
work. `BackupInv` strengthens `DnsRestorable` by the interface, which is the default one
everywhere, and by what each await implies: at "reading"
nothing is announced yet, so that the servers read are the user's; at "saving" they
are in hand; at "applying" and "restoring" the file holds them; at "clearing" they are
back. `RecoveryInv` follows from it, because main clears the backup only after
`PutBack`.

### Diagnosis

`ResultsInv` says that the result of a layer is there exactly when its probe is
over; without it a stale `dns_ok` could meet a new `udp_status`. `WitnessInv` keeps, as
long as the servers stay as they are, the server whose answer made `udp_status`
good: `test_udp_status` asks it again, so not all are silent. `OutageInv` says that
`test_dns_layer`, where no way worked, came out as one of three failures; the rules are
a set, so `FailuresAreInterference` finds the one that names each of them.

### Selection

`SelectionAssumption` says what the inputs are: links, observations, a bound. `Inv` has
one part for each property and three that carry them. `PhaseInv`: nothing is left of an
earlier cycle when one begins, a call has a candidate, and a cycle fails with an empty
queue. `OrderInv` strengthens `TriedInOrder` by the candidates that are still to come: what
was tried goes before each of them, or the next attempt could break the order. `TorInv`
strengthens `LastResortTried` in the same way: each of the two Tor candidates is in the queue or was
tried, because `Skip` passes over none of the last resorts and `Attempt` moves the
candidate from one to the other.

`ScoreInv` says that every score is that of a strategy nothing is known about. It rests
on `NothingFound`: a row's condition is a set of diagnoses, no state of the DPI layer is
the name of a diagnosis (`DpiIsNoDiagnosis`), so no query finds a row and the fold of
`SuccessRate` is never reached. This is how the properties over scores hold for every
history without induction over one: `ImpossibleScoresNothing` gives `UdpOnlyLeftOut`, and
`CalmScore` gives `ConfigsNeedPressure`. `NothingFound` and `ConfigsNeedPressure` are about
what the code does against the documentation: as `LearningIsLost` and
`CalmMeansFallbacks` they say that the violated runs `selection_learning` and
`selection_fallback` are no accident of their instances. They are defined in
`SelectionProofs` and no run checks them.

The two properties about what an attempt starts need no further invariant:
`CandidateCreds` says what credentials a candidate can have, by cases over the parser
(`ParsedCreds`), `LinkFileIs` and `OtherFileIs` follow each of them through its adapter.

### ConfigFetch

`LockInv` says that only the head of the queue is inside, as in `Connector`.
`AccountsSurvive` needs `KeptInv`: from its read of the file to its last write a job
knows every account that is in the file, if files can be read (`Readable`). It is kept
because the only other writer
inside that span, the dashboard, does not touch accounts, and because the job itself
writes what it knows.

### Dashboard

`Covers` describes a broadcast in the middle: over a set that was not touched its
iterator has the right size, and each client is served, dead, the one at hand, or
still to come. `RowInv` follows a record through the awaits of `insert_log`, with the connection as it is then;
`GoneInv` is what makes the next run start without half-done records.

### Left to TLC

Out of the prover's reach and left to TLC: liveness under fairness and `ENABLED`
(`EveryCallReturns`, `EveryFetchEnds`, `DeadClientsForgotten`, `ShutdownEnds`, the three
liveness properties of `engine`, the fair half of the refinement); and induction over
data, hence what the fold of `SuccessRate` computes for rows that are found. Every
invariant and action property that a passing run checks is a theorem.
No module uses `RECURSIVE`.

## Also met while modelling

Behaviours the models made visible, beside the four violated runs. Each is
read off the code at the line named; no run is kept for it. `README.md` is the
repository's own here and in the table above.

* Where no job object holds them (everywhere but on Windows with `pywin32`,
  process.py:18), children outlive an engine that is killed; README.md:49 and 175
  promise that no process is left behind.
* A cycle that finds the network healthy (orchestrator.py:100) leaves the system
  proxy of an earlier tunnel on; README.md:77 says that it is switched off.
* `set_system_proxy` records what it sets, not what was there (system_network.py:558),
  and nothing sets `proxy_backed_up`; README.md:176 says that the settings are put back.
* WARP is exempt from the cutoff (BypssEng.py:415) and so is tried where UDP is
  dropped; README.md:82 says that it is left out there.
* Observations that match no rule become the diagnosis `speed_failed`
  (rule_engine.py:28) and are acted on; README.md:83 says that unknown anomalies are not.
* One consequence of `OutcomesAreUsed` being violated is that no config is tried where
  nothing is reset or throttled (`ConfigsNeedPressure`), however often it worked there
  before.
* A failure may raise a score, because the confidence (statistics.py:43) grows with
  the distance from one half on both sides; README.md:55 says that failures lower it.
* A fetch that cannot download a subscription writes an empty list over the personal
  configs that worked (cnfg.py:356, 405); README.md:167 says that the best ones are kept.
* A packet driver that sees no reset for two seconds answers `dpi_none`
  (dpi_kernel.py:88), and the test of the two sites is skipped (orchestrator.py:128).
* `telemetry.storage.db` (storage.py:219) is never connected, as run_dashboard.py
  connects another object: the API's history, its logs and the diagnostics export are
  always empty, and events are never stored; README.md:70 promises both.
* When the database fails, each refused insert logs an error, and every logged line is
  inserted again (run_dashboard.py:54).
* The page takes the next `config_fetch_result` for the outcome of its own save
  (core/index.html:133); a save whose fetch is skipped (BypssEng.py:174) gets that of the
  fetch that was already running.
* `filter_alive` looks for the host under the name of the protocol (cnfg.py:228); the
  parser names the fields of hysteria2 otherwise, so these links are always dropped. The
  extraction does not know the schemes of TUIC, ShadowTLS and Naive (cnfg.py:166);
  README.md:42 and 110 list these protocols.
* Chaining and balancing are never built, because `all_configs` is `None` in every call
  (BypssEng.py:291); README.md:43 and 61 promise them. Nothing creates
  `warp_over_reality` (README.md:44, 60).
* The configuration of the Cloudflare worker has no outbound `dns-out`, `direct` or `block`
  (xray.py:505), which its rules name, and WARP's has no `block`; README.md:51 says that
  domestic sites are kept apart.
* A REALITY link over WebSocket or gRPC is built as REALITY over TCP; VLESS over
  XHTTP or HTTPUpgrade passes the tests of a fetch and is carried by no adapter.
* `atomic_write_json` logs an error and returns (utils.py:43), so an adapter may start
  its program on the file of an earlier attempt.
* The second port of DNSTT is the first plus 1000 (dnstt.py:29). Nobody reserves it: it
  may be past 65535, the HTTP port of the same session, or that of a child an earlier
  attempt left behind, whose tunnel then passes the test of the new one.
* A VMess link whose tls field says "reality" is accepted (utils.py:111) and built without
  any security (xray.py:282).
* A netsh that fails or is refused is taken for a static configuration without servers
  (system_network.py:144, 163); the restore puts nothing back for it and drops the backup
  (system_network.py:227, 309), so the servers that were asked for stay. The same holds
  of an interface that had none.
* While `dns_changed` is set, `set_system_dns` changes whatever is the default interface
  by then without a backup of it (system_network.py:324); the restore goes to the
  interface of the backup only.
* A read of the configuration file that fails gives the defaults (cnfg.py:368,
  BypssEng.py:76), which are then written over the accounts and the subscriptions.
* `test_dns_ok` (src/bypsseng/tests/test_dns.py:57) makes every call of the system resolver fail and
  expects `dns_ok`; dns.py:281 answers `dns_system_broken` there, as `DnsOkIsEarned` has it.
* All Tor strategies share one data directory (tor.py:113), which Tor locks: one that
  outlived its engine keeps every later one from starting.
* The subprocess that stands in for a failed import of cnfg.py cannot import the
  package `core` from where it lies, and fails as well.
* A fetch that is stopped after its first write leaves no collected configs
  (cnfg.py:388); keys `dnstt` and `psiphon` written by hand are gone after the first
  fetch (cnfg.py:356).

## Not modelled

* `test_ip_layer`, whose result no rule reads, and the scans for DNS servers, CDN
  addresses, VPN ports and WARP endpoints.
* Of the adapters: everything in their files but listeners, outbounds, dialers and
  rules; `warp_over_reality`, and the chains and the balancer of `all_configs`.
* The watchdog of `main()` and the code after it: `run()` catches every exception
  and never returns, so neither is ever used.
* `restore_system_proxy` and `get_current_proxy`: nothing sets `proxy_backed_up`.
* Token, rate limit and framing of the admin IPC server.
* In a fetch the links themselves: mirrors, extraction, deduplication, the latency
  test. Links that were found are one value, alive or not.
* The dashboard's page, token and read-only handlers; the log file.
* `cleanup_old_logs`, `suspend_process`, `resume_process`, the knowledge updater and the
  supply chain: nothing calls or creates them.
* Ports taken by other programs between `release_binding_sockets` and the child's
  bind: that the child then exits is `ChildDies`; that the other program answers the test is
  not modelled. Nor is a second port of DNSTT that is the session's own HTTP port.

## Plan

Done: connector, its abstract specification and its refinement, engine, system network,
diagnosis, decision, selection with parser and adapters, fetch with its failures and
restarts, dashboard, and the theorems above.

Next, in this order:

1. `Program`: a run from recovery to exit that composes `Connector` and
   `SystemNetwork` over one state file and one proxy, with Ctrl-C of both
   programs and a crash in every component.
2. The links of a fetch: extraction, deduplication, the latency test and the size of the
   lists, on `Links`.
3. `KnowledgeUpdater`: backup, replacement and rollback with a crash in between, once
   something creates it.

Each with its invariants as theorems. Of what is there, the part of the proofs that is
open is the assumption `Orderly`: what the proxy's tools leave behind when they fail
could be a weaker service of its own, with the callers' view of it.
