# ndpresponder in TLA+

`ndpresponder` makes the IPv6 addresses of containers reachable from an uplink
that expects every address on its own link. On Linux it answers neighbor
solicitations from a packet socket; on macOS and the BSDs it keeps proxy
entries in the kernel's NDP table. This directory holds a model of it: TLA+
modules translated from the Go source, TLC configurations that model-check
them, and theorems about them proved with TLAPS. Paths below are relative to
the repository (`src/`).

## 1. The system

| Part | State it keeps | Operations | Interacts with |
|---|---|---|---|
| Runtime address registry (`active_ips*.go`) | `activeIPSources` under a mutex, the published `activeIPs` (atomic pointer), the one-token channel `activeIPsChanged`, the announcement queue `newActiveIP` (64 addresses, Linux only) | `replaceActiveIPSource`, `publishNewActiveIP`, `activeAddressSnapshot` | written by every collector goroutine, read by the responder loop, partly without the lock |
| Docker collector (`docker.go`) | one list of networks, an event channel of 64 | first pass in the main goroutine, then `dockerEventLoop`: pass, subscribe, select over events, a 30 s tick and the context; 5 s before a reconnect | daemon API, registry |
| CNI collector (`cni.go`) | list of lease directories | first pass, then a pass every 2 s | file system, registry |
| Static targets (`main.go`) | `staticTargets` and `targetSubnets`, two globals | parse at startup, `reloadStaticTargetFile` on a ticker | target file other programs rewrite; both runtime loops |
| Linux runtime (`runtime_linux.go`) | `announcedStatic`, the ready file | startup announcements, select over context, reload tick, solicitations and new addresses | everything above, capture goroutine, packet socket |
| NDP capture (`ndp.go`) | channel of 64 solicitations | read, decode, send unless full; ends at a read error | packet socket, Linux loop |
| Interface selection (`ifname.go`, `responder.go`, `hostinfo.go`, `ifroute_*.go`, `prepareBSDProxyResponder`) | candidate list, open sockets, gateway found | list candidates; on Linux open and probe them in turn, choose one, close the others; on macOS and the BSDs ask for the route of every target | kernel links, routes and neighbors |
| BSD runtime (`runtime_bsd.go`) | last targets, the ready file | startup `Sync`, select over context, reload tick and change token, `Close` | registry, static targets, NDP proxy responder |
| BSD NDP proxy responder (`bsd_ndp_proxy.go`, `ndp_proxy.go`, `bsd_command.go`) | `owned`: addresses whose entries this process made | `Sync`, `ensure`, `remove`, `Close`: each a sequence of `ndp` and `route` commands | the kernel's NDP table, which neighbor discovery and other services write too |
| Readiness file (`readiness.go`) | marked or empty | clear, mark, clear again on the way out | service managers, both runtimes |
| Command line, signals (`main.go`, `signals_*.go`) | flags, context | Before, Action | all |
| Announcement policy (`ipv6_policy.go`) | none | which runtime addresses may appear on the uplink | both runtimes |
| MCP adapter (`agent/`), installer (`scripts/install_agent.py`), CI scripts | files | separate programs | none of the above at run time |

### What is hard in it, and what makes each part correct

* **Registry.** Collectors race with each other and with readers that take no
  lock. The published set must be the union of the latest report of each source;
  a change must wake the BSD loop although its channel holds one token for any
  number of changes; a new address may be lost by the queue only when it is full.
* **Collectors.** A pass asks and applies in separate steps while the world
  changes; events are lost, streams close, the daemon restarts. Startup must fail
  if a network cannot be read; afterwards every source must converge to the
  truth, and no old answer may overwrite a newer one.
* **Runtime loops.** Several goroutines, three or four select cases, a signal at
  any moment, a startup that can fail at each step, deferred cleanup in an order
  that matters. Readiness must never be announced early or survive the run; the
  command-line targets must survive any content of the target file; on BSD the
  proxies must follow the wanted targets, on Linux static hosts and public
  runtime addresses must be announced and internal ones never.
* **BSD proxies.** Nothing makes a list followed by an add or a delete atomic,
  commands fail or exit 0 without doing anything, and a kill loses `owned` but
  not the entries. Entries of others must be left alone, and what a successful
  `Sync` or `Close` promises must be true of the table.
* **Interface selection.** Four looks at an interface table that changes at
  boot. The order must be the documented one; on Linux one socket must remain, a
  requested interface must win and no unused neighbor stay pinned; elsewhere the
  uplink must carry every target; and the search must end.

`PROJECT.json` lists each hazard at its line with the properties that cover it.

## 2. The modules

```
AddressView <-refines- ActiveIPs     StaticTargets   Collectors (uses AddressView)
                            \          /
                             Runtime                 ProxySync <-refines- BSDProxy
                            /       \                    |                   |
                   BSDRuntime     LinuxResponder    ProxyEffects         NDPOutput
                        |               |
                  ProxyEffects      NDPFrames

InterfaceSelection = LinuxSelection + BSDSelection, both on Candidates,
                     which uses NDPOutput and GatewayRoutes
```

The `MC*` modules give TLC its constants and add nothing else. Eight modules
hold the proofs: `ActiveIPsProofs`, `StaticTargetsProofs`, `BSDRuntimeProofs`,
`LinuxProofs`, `CollectorsProofs`, `ProxySyncProofs`, `BSDProxyProofs` and
`SelectionProofs`, each about the module it is named after (`LinuxProofs` about
LinuxResponder, `SelectionProofs` about InterfaceSelection).

**AddressView** is the abstract promise of the registry: a refresh replaces one
source and publishes the union, in one step.

**ActiveIPs** (`active_ips*.go`) opens one call of `replaceActiveIPSource` into
the steps other goroutines can tell apart: `ReplaceBuild` (lock, filter, replace
the source, build the union), `ReplaceStore` (atomic store and unlock),
`ReplaceSignal` (the non-blocking token) and one `ReplacePublish` for each new
address. `call[g]` is the stack frame of goroutine `g`. `QueueCap = 0` is the
build without a queue (`active_ips_nonlinux.go`). A source whose key is absent is
the empty set, as a reader cannot tell them apart.

**StaticTargets** (`main.go`) is the list, the lookup set and the file. A prefix
is the set of addresses it covers, so that a /128 is a singleton; a file that is
being rewritten in place is one of `TargetFiles`: absent, shorter, or with a
line that does not parse. The initial states are those `Before` lets the program
start in.

**Runtime** is what both `runResponder` functions share: clearing and marking the
ready file (`readiness.go`; either may fail), reading every source once in the
main goroutine, the collector goroutines, the signal, the return value and the
deferred calls as program locations (`closing`, then `clearing`). A collector is
any sequence of calls with any addresses, more than the real ones can do.

**BSDRuntime** adds the select loop of `runtime_bsd.go`. One call of `Sync` is one
step with a set `failed` of addresses whose commands failed, and has one of the
`SyncEffects` of module **ProxyEffects**. That module says what one call may do to
the owned addresses and to the entries; in BSDRuntime no other service proxies
anything (`external = {}`).

**ProxySync** is the abstract proxy responder: each call is atomic and has one of
the same effects, `Kill` loses the ownership and keeps entries, and `Disturb`
ends what is promised. `Promise` says what a caller may rely on. **BSDProxy**
(`bsd_ndp_proxy.go`, `bsd_command.go`) implements it: one action for each `ndp`
or `route` command of `ensure` and `remove`, with `owned` as in the code, against
a `table` in which every entry says who wrote it. A command may fail, or exit 0
having done nothing; `Crash` is a kill and the next start. `added` and `settled`
are history variables; `settled` is the state the last call left, which is what
the refinement mapping shows ProxySync. So BSDRuntime and BSDProxy are tied by
the same definition of a call's effects, used by one and implemented by the
other.

**NDPOutput** (`ndp_proxy.go`, `ifroute_bsd.go`) is the text of `ndp -an` and
`route -n get` as far as the parsers tell it apart: columns by their letters and
what follows them, lines by their key. `ReadBack` is what the program may make
of an entry the kernel prints; BSDProxy, Candidates and BSDSelection see the
system only through it. Parsing an address is the identity of the address, and
one entry for an address is assumed to be listed.

**LinuxResponder** adds the loop of `runtime_linux.go` and the capture goroutine
of `ndp.go`. **NDPFrames** is the four kinds of frame of `ndp.go`: who is asked,
who is answered, and which address a receiver files under this host's MAC
(`Claimed`). `wire` is the set of frames the main goroutine's last step sent.
`told` and `dropped` are history variables. `announceStaticTargets` picks the set
of writes that fail; multicast and unspecified static targets (`Unadvertisable`)
always do. One action is one case of the select from the receive to the end of
the body; the body reads shared state in few places, and the one place where an
interleaving inside it can be seen (`solicitationTargetReason` reading
`activeIPs` while a collector holds the mutex) is an interleaving of the actions.

**Collectors** is `dockerListen`, `dockerEventLoop`, `cniListen` and
`cniRefreshLoop` on top of AddressView. A source of the world has a state,
addresses and a version that every change increments, so that a stale answer can
be recognised. `PassAsk` and `PassApply` are separate. Events are delivered,
dropped by a full channel, or never sent.

**Candidates** is `resolveInterfaceCandidates` (`ifname.go`), each question to
the kernel a step of its own, while `NetworkChanges` moves links, addresses,
routes and neighbors. The list grows by one `addInterfaceCandidate` at a time;
the last pass asks the kernel nothing, so it is one step whose result is the
recursive function `Scanned`. **LinuxSelection** is `prepareResponderWith`,
`tryResponderCandidate` (`responder.go`) and `gatherHostInfo` (`hostinfo.go`),
with the gateway picked by `defaultGateway` of **GatewayRoutes** from the routes
in any order netlink may list them. **BSDSelection** is
`prepareBSDProxyResponder`. **InterfaceSelection** puts them together and states
the properties.

Operators whose comment starts with "A bug:" are not part of any
specification. Each is a plausible mistake in the operator that follows it, and
serves to show that a property is able to fail: with the mistake in place, TLC
finds the property named beside it in `PROJECT.json` violated.

## 3. The runs

All bounds are constants: `MaxChanges` (refreshes that change a source, or
changes of the world), `MaxEdits` (rewrites of the target file), `MaxFailures`
and `MaxFaults` (calls that fail), `MaxForeign` (table or route changes by
others), `MaxCrashes`. None of them limits steps of the program itself; ticks,
passes and unchanged refreshes repeat without limit.

| Run | Distinct states | Shows |
|---|---|---|
| `registry` | 911,316 | Two goroutines, two sources, two addresses and one that is not IPv6, queue of 2: `PublishedAgrees`, the inductive invariant `RegistryInv` (types included), and the refinement of AddressView. Two racing holders and two sources are what an outdated union needs. |
| `bsd_runtime` | 1,049,448 | Both collector loops (interchangeable: symmetry), a public and an internal address, a /128 and a wider prefix, one rewrite of the file, one failure, a signal anywhere: `CLITargetsKept`, `NoLostWakeup`, `ReadyMeansServing`, `MarkedOnlyWhenSynced`, `StoppedIsClean`, `ExitMeansStopped`. Two changes let a second one find the token in place or arrive between receive and snapshot. |
| `bsd_live` | 81,010 | `EventuallySynced` with one collector, one runtime and one static address, a file that is missing, truncated or rewritten, two failures. |
| `bsd_proxy` | 969,884 | Two addresses, two interfaces, any initial table of foreign entries and any routes; two faults, one kill, two disturbances by others. `RefinesProxySync`, `ForeignUntouched` and `OffUplinkOnlyIfMoved` speak of executions up to the first disturbance, `OwnsOnlyWhatItAdded` of all. Two faults are an add that did nothing followed by a failed look; entries of different addresses do not interact, so two addresses show one failing beside one that succeeds. |
| `collectors` | 517,498 | Networks `net1, net2, net1` (a name given twice is visited once) and one directory, two changes of the world: `StartsOnlyVerified`, `StartedMeansRead`, `NoStaleOverwrite`, `Converges`, `LoopsStop`. Two changes are a lost stream and a change nobody is told of, or an answer that is outdated twice. |
| `linux_announce` | 5,509,031 | Two collectors, a queue of 2, two changes after arbitrary first reads, a public and an internal address, solicitations from the gateway and from a node that checks its own address: an address joins, leaves and joins again, or moves between sources, while older announcements are queued. `NewAddressesAnnounced`, `NoInternalAdvertised`, `AnswersWhatItServes`. |
| `linux_live` | 144,224 | A target file that lists, among others, a multicast host, one rewrite, one failure (a write, the capture or the ready file), queues of 1: `StaticHostsAnnounced`, `ExitMeansStopped`, and the liveness properties `StaticEventuallyAnnounced`, `RuntimeEventuallyAnnounced`, `StopsAfterSignal`, `CaptureStops`. |
| `interface_selection` | 1,569,632 | Three links, a bridge and two uplinks of which the first is requested with `-i` (and ignored where it is not usable, which leaves the automatic choice), two routers with default routes of different metric, two targets, two rounds of probing, one change and one failing call, on Linux and on the BSDs: `CandidatesInOrder`, `OneSocketLeft`, `RequestedIsAuthoritative`, `PinnedOnlyWhereSelected`, `PreferredGateway`, `UplinkCarriesTargets`, `SelectionEnds`. A link starts up or unusable, and with both default routes or none; the change then reaches the other states. |

The type invariants are checked beside them: `BSDTypeOK`, `ProxyTypeOK`,
`CollectorsTypeOK`, `LinuxTypeOK` and `SelectionTypeOK`.

Four runs show that the code does something else than a document says, each
with the shortest execution as TLC's counterexample:

| Run | Statement | What happens |
|---|---|---|
| `bsd_overwrites` | README.md:26, "never overwrites ordinary NDP neighbors or proxy entries created by another service" | An entry that appears between the list and `ndp -s` is replaced. Without such a disturbance no command touches a foreign entry (`ForeignUntouched`). |
| `bsd_removes` | README.md:75, "The process removes only entries it created when it stops." | `owned` is a set of addresses: an owned entry that another service deleted and created again is deleted as ours. |
| `bsd_route_moves` | bsd_ndp_proxy.go:153-155, a target routed elsewhere "cannot leave a proxy entry on an unintended interface" | The route moves between the check and `ndp -s`; the entry is made on the other interface, `ensure` returns an error and nothing removes it. |
| `linux_removed` | docker.go:145, "A removed network must stop being advertised." | An address that left the registry while it waited in `newActiveIP` is still announced. |

### Fairness

* Every goroutine that can run is scheduled, and system calls and commands
  return: weak fairness of each goroutine's steps.
* `sync.Mutex` hands itself to a waiter that starves, so a step that needs the
  mutex and finds it free again and again is taken: strong fairness of the main
  goroutine's step.
* A Go `select` chooses at random among its ready cases, so a case that is ready
  again and again is taken: strong fairness of `Stop`, `LoopTick`,
  `LoopChanged`, `LoopNewAddress`, `DockerStop`, `CNIStop`.
* A ticker keeps ticking; with `--target-file` only, otherwise there is none.

Nothing is assumed of the environment: containers, files, routes, the daemon and
the signal may stop changing or not, may come or not. `Converges`,
`EventuallySynced` and their like are of the form "eventually always", which the
bounds make meaningful: changes run out, and then the program has to catch up.

### Hazards without a property

* `NetworkInfo` has neither a context nor a timeout (`docker.go:142`): a daemon
  that accepts and never answers blocks startup. The fairness above assumes that
  calls return.
* Without `--target-file` nothing repeats a failed static announcement
  (`runtime_linux.go:59`), and a failed `Sync` waits for the next change.
* The ready file is still marked while `Close` removes the proxies
  (`runtime_bsd.go:49`); no document says what readiness means during shutdown.
* A truncated target file is an empty list (`main.go:218`), by design.
* The BSD uplink is chosen for the targets known at startup
  (`bsd_ndp_proxy.go:30`); a later target that is routed elsewhere is refused on
  every `Sync`, by design.

## 4. The proofs

The theorems hold for any values of the constants that satisfy the named
assumptions of the modules. Those say that constants have their types, that
`None`, `""` and `Garbage` are none of the values they stand beside, that
the main goroutine collects nothing in the background, that the kernel's order
names each interface once, and that targets and default routes are finitely many,
the latter usable, with natural numbers for priorities. TLC evaluates them in
every run.

**Registry** (`ActiveIPsProofs`).

* `RegistryInvariant`: `RegistrySpec => []RegistryInv`. `PublishedAgrees` (mutex
  free implies that the published set is the union) is not inductive: between
  lock and store the two differ, and the step that frees the mutex publishes
  what the holder computed earlier. The strengthening `HolderStoresUnion` says
  that exactly the holder is between lock and store, that the union in its frame
  is the union of the sources now, and that the published set is still the one
  from before its call. `RegistryTypes` and `PublishedAgreement` follow.
* `RegistryRefinesView`: the registry implements AddressView. The mapping hides
  the source the holder has written and not yet published; `Build` is then a
  stutter, `Store` is a `Refresh`, everything else a stutter.

**BSD runtime** (`BSDRuntimeProofs`, with `StaticTargetsProofs` for the target
file).

* `BSDImplementsRegistry`: `Spec => RegistrySpec`. The runtime touches the
  registry only through its operations, so the theorems above hold of it.
* `BSDNoLostWakeup`. A call that makes the snapshot stale owes a signal from
  `Build` on (`BuildOwesSignal`); it pays with a token (`ContinueKeepsCause`);
  the token is taken only on the way to a new snapshot, which is taken with the
  mutex free and so equals the sources (`SnapshotIsFreshOrKept`).
* `BSDKeepsCLITargets`, `BSDReadyMeansServing`, `BSDExitMeansStopped`,
  `BSDTypes`.
* `BSDStoppedIsClean` and `BSDMarkedOnlyWhenSynced`: while no command has failed,
  the entries are exactly the owned addresses (`Entries`), which one call of
  `Sync` makes the targets and `Close` makes empty.

**Proxy responder** (`ProxySyncProofs`, `BSDProxyProofs`).

* `ProxyKeepsPromise`: the abstract responder keeps `Promise`.
* `ImplementsProxySync`: `Spec => RefinesProxySync`, for any number of addresses,
  interfaces, faults, kills and disturbances. Its invariant `ProxyInv` has three
  parts: what the loops have done with the addresses they have visited
  (`LoopInv`), how table, ownership and `settled` differ in the middle of a call
  (`UndisturbedInv`), and that nothing is claimed once somebody interfered
  (`DisturbedInv`). `CommandsKeepPromise` puts the two together.
* `OwnershipIsEarned`, `ForeignIsUntouched`, `EntriesStayOnUplink`, `ProxyTypes`.

**Linux responder** (`LinuxProofs`).

* `LinuxImplementsRegistry`, `LinuxKeepsCLITargets`, `LinuxTypes`.
* `LinuxNewAddressesAnnounced`: inductive together with `IdleOwesNothing` and the
  registry's types; what a full queue drops is in `dropped` by the same step.
* `LinuxAnswersWhatItServes`: the loop reads `activeIPs` without the mutex, and
  `PublishedAgreement` with `LinuxKeepsCLITargets` makes what it reads right.
* `LinuxNoInternalAdvertised`, `LinuxStaticHostsAnnounced`,
  `LinuxExitMeansStopped`.

**Collectors** (`CollectorsProofs`). `CollectorsInv` says which goroutine may
be passing over which list (`Owners`), that an answer held is at least as new as
what was applied to its source (`Versions`), and that what a pass has behind it
was read (`Progress`). `Owners` is what makes `Versions` inductive: two
goroutines never hold answers for one source (`SubjectsApart`). From it follow
`CollectorsTypes`, `StartupReadsEverything`, `AnswersInOrder`
(`NoStaleOverwrite`) and `LoopStartsVerified`.

* `CollectorsRefreshTheView`: `Spec => ViewSpec`. To a reader of the registry
  both collectors together are one sequence of refreshes of single sources.
* `WhatIsUpToDateIsTrue`: a source that shows the latest version of its network
  or directory shows exactly what is true of it, which is nothing when it cannot
  be read. Inductive together with `AnswersAreTrue`, the same of the answer a
  goroutine holds; `Versions` gives that a change makes every answer held
  outdated. This is the safety half of `Converges`: a pass that ends with the
  latest versions has nothing left to correct.

**Interface selection** (`SelectionProofs`), from two invariants.

* `SelectionInv` says that the open sockets are those of the initialized
  candidates and of the one being looked at (`Sockets`), that candidates are
  looked at in order and only while none has a gateway (`InTurn`), and that a
  pinned neighbor belongs to the candidate about to be chosen (`Pins`). From it
  follow `OneSocketIsLeft` and `PinsOnlyWhereSelected`.
* `SearchInv` (with the first, `SearchInvariant`) says what the search knows:
  what the host can look like (`Host`), which interfaces each of the four passes
  has added (`Passes`), that the list is sorted by reason and kernel order with
  each interface once (`Listings`), that all it holds on to are positions in the
  list (`Positions`), that an initialized candidate that was asked for ends the
  search (`AskedSettles`), and what has been passed over on the BSDs (`Uplinks`).
  `CandidatesInOrder` alone is not inductive: it speaks of complete lists, and
  between two passes the network has changed. What keeps `Sorted` inductive is
  that no pass adds an interface that ranks before one already there, and that the
  rank of an interface depends only on answers the search has kept. From it
  follow `SelectionTyped`, `CandidatesAreInOrder`, `RequestIsAuthoritative` and
  `UplinkIsFirst`.
* `GatewayPreferred`: the walk of `defaultGateway` over the routes returns one
  that no other is preferred to, for any default routes in any order.
* `SearchIsBounded`: `Left` is what is left of the search, compared component
  by component: the phase, the interfaces or candidates to go, the stage of the
  look at one candidate, and the rounds of a probe or targets to check. It is
  within bounds that the constants give, every call of the program makes it less,
  and no change of the network touches it. This is the safety half of
  `SelectionEnds`; what is left to TLC is that the program takes its steps.

Two of these rest on a recursive function over a list (`Scanned`, and the walk of
`defaultGateway`). The library's induction theorems take an operator as a
parameter, which the installed provers cannot instantiate, so the induction is
stated over a set instead of a predicate: `UpTo` (a set that holds 0, and k
whenever it holds k - 1, holds all of 0..n), from the existence of a least
element. `Recursion` shows with it that a function defined along a list exists,
which a recursive definition takes for granted and a proof may not.

Only model-checked are the eight liveness properties (`EventuallySynced`,
`Converges`, `LoopsStop`, `StaticEventuallyAnnounced`,
`RuntimeEventuallyAnnounced`, `StopsAfterSignal`, `CaptureStops`,
`SelectionEnds`): liveness under fairness and ENABLED are outside what the
installed provers do. Every other property of a passing run is the statement of
a theorem or follows from one.

## 5. What is not modelled

* Bytes: NDP packet layout, the BPF filter, the address arithmetic of
  `ipv6_policy.go`, parsing of addresses, prefixes and lease file names, the
  interface name patterns of `isBSDNDPProxyUplink`. The models take their results
  as sets.
* Flags and their validation in `main.go`, beyond the states they let the
  program start in.
* Restarts of the whole process other than BSDProxy's `Crash` and the ready
  file left behind by a killed process (`ready = "stale"`). Two processes at a
  time are two uses of one NDP table or one target file, of which BSDProxy sees
  the other as a foreign service.
* `runtime_unsupported.go` and `docker_dragonfly.go` only return errors.
* The MCP adapter (`agent/`) answers one request after another from fixed data
  and keeps no state; the installer (`scripts/install_agent.py`) is a sequential
  one-time program; the update and publish scripts run in CI. None of them runs
  with the responder or shares state with it.
