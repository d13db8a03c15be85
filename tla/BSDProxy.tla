---- MODULE BSDProxy ----
(***************************************************************************)
(* bsdProxyResponder (bsd_ndp_proxy.go) one ndp or route command at a      *)
(* time.  The kernel's NDP table belongs to everyone: neighbor discovery,  *)
(* other services and this process write it, and nothing makes a list      *)
(* followed by an add or a delete atomic.  A command may fail, and the     *)
(* process may be killed, which loses the owned set but not the entries.   *)
(* A listing is read back from the text ndp prints (module NDPOutput).     *)
(***************************************************************************)
EXTENDS NDPOutput

CONSTANTS Addr,       \* IPv6 addresses that may be targets
          Uplink,     \* the selected interface
          Iface,      \* all interfaces
          MaxForeign, \* bound: table or route changes made by others
          MaxFaults,  \* bound: commands that fail or do nothing
          MaxCrashes  \* bound: times the process is killed and restarted

ASSUME ProxyAssumption ==
    /\ Uplink \in Iface /\ "" \notin Iface
    /\ MaxForeign \in Nat /\ MaxFaults \in Nat /\ MaxCrashes \in Nat

VARIABLES table,    \* the kernel's NDP table; "by" says who wrote the entry
          route,    \* the interface each address is routed through
          owned,    \* r.owned
          pc,       \* the next command, or where the responder rests
          wanted,   \* the targets of the Sync in progress
          todo,     \* its targets, or the owned ones, still to be visited
          target,   \* the address being ensured or removed
          outcome,  \* "ok" or "failed": the failures of this Sync or Close
          startup,  \* "yes" until the first Sync has succeeded
          added,    \* where this process's "ndp -s" exited 0 (not in code)
          settled,  \* what ProxySync sees: the state after the last call,
                    \* until somebody else interferes (not in code)
          foreign, faults, crashes  \* counters for the bounds above

kernel == <<table, route>>
sync == <<wanted, todo, outcome, startup>>
bounds == <<foreign, faults, crashes>>
ghosts == <<added, settled>>
vars == <<kernel, owned, pc, sync, target, ghosts, bounds>>

NoEntry == [kind |-> "none", ifname |-> Uplink, by |-> "nobody"]
Entry(kind, ifname, by) == [kind |-> kind, ifname |-> ifname, by |-> by]
Entries == {NoEntry} \cup [kind : {"neighbor", "proxy"}, ifname : Iface,
                           by : {"us", "other"}]

OursInTable == {a \in Addr : table[a].by = "us"}
OnUplink(entry) == entry.kind = "proxy" /\ entry.ifname = Uplink

\* No entry of the parsed listing.
Absent == [proxy |-> FALSE, ifname |-> ""]

\* list: what the map of ndpEntries may hold for the target.
Listed == IF table[target] = NoEntry THEN {Absent}
          ELSE [proxy : ReadBack(table[target].kind = "proxy"),
                ifname : {table[target].ifname}]

Serves(entry) == entry # Absent /\ entry.proxy /\ entry.ifname = Uplink

\* Nobody else has written the table or moved a route since the start.
Undisturbed == foreign = 0

\* The state as a caller of Sync or Close finds it afterwards.
Settle(targets, result) ==
    settled' = IF ~Undisturbed THEN settled
               ELSE [owned |-> owned', proxied |-> OursInTable,
                     external |-> {a \in Addr : OnUplink(table[a])} \ OursInTable,
                     wanted |-> targets, outcome |-> result]

Unsettled == settled' = [owned |-> {}, proxied |-> {}, external |-> {},
                         wanted |-> {}, outcome |-> "disturbed"]

Init ==
    /\ table \in [Addr -> {NoEntry} \cup [kind : {"neighbor", "proxy"},
                                          ifname : Iface, by : {"other"}]]
    /\ route \in [Addr -> Iface]
    /\ owned = {}
    /\ pc = "rest"
    /\ wanted = {} /\ todo = {}
    /\ target \in Addr
    /\ outcome = "ok"
    /\ startup = "yes"
    /\ added = {}
    /\ settled = [owned |-> {}, proxied |-> {},
                  external |-> {a \in Addr : OnUplink(table[a])},
                  wanted |-> {}, outcome |-> "none"]
    /\ foreign = 0 /\ faults = 0 /\ crashes = 0

\* A command fails; the error counts as a failure of the whole Sync or Close.
Fault == faults < MaxFaults /\ faults' = faults + 1 /\ UNCHANGED <<foreign, crashes>>
NoFault == UNCHANGED bounds

Fails(loop) == /\ outcome' = "failed"
               /\ pc' = loop
               /\ UNCHANGED <<wanted, todo, startup, target>>
Goes(next) == pc' = next /\ UNCHANGED <<sync, target>>

-----------------------------------------------------------------------------
(* Sync: ensure every wanted target, then remove owned ones not wanted *)

SyncBegins ==
    /\ pc = "rest"
    /\ \E targets \in SUBSET Addr : wanted' = targets /\ todo' = targets
    /\ outcome' = "ok"
    /\ pc' = "ensureNext"
    /\ UNCHANGED <<kernel, owned, startup, target, ghosts, bounds>>

EnsureNext ==
    /\ pc = "ensureNext"
    /\ \E t \in todo : target' = t /\ todo' = todo \ {t}
    /\ pc' = "ensureList"
    /\ UNCHANGED <<kernel, owned, wanted, outcome, startup, ghosts, bounds>>

\* A bug: the difference is taken the wrong way round.
LeftoversSwapped == wanted \ owned

Leftovers == owned \ wanted

EnsureDone ==
    /\ pc = "ensureNext"
    /\ todo = {}
    /\ todo' = Leftovers
    /\ pc' = "removeNext"
    /\ UNCHANGED <<kernel, owned, wanted, outcome, startup, target, ghosts, bounds>>

\* A bug: an entry that is not a proxy is taken for an absent one.
EnsureListIgnoresNeighbors ==
    /\ pc = "ensureList"
    /\ \/ Fault /\ Fails("ensureNext")
       \/ /\ NoFault
          /\ \E entry \in Listed :
               IF Serves(entry) THEN Goes("ensureNext") ELSE Goes("ensureRoute")
    /\ UNCHANGED <<kernel, owned, ghosts>>

\* A bug: a foreign proxy that already serves the target is adopted.
EnsureListAdopts ==
    /\ pc = "ensureList"
    /\ \/ Fault /\ Fails("ensureNext") /\ UNCHANGED owned
       \/ /\ NoFault
          /\ \E entry \in Listed :
               \/ Serves(entry) /\ Goes("ensureNext") /\ owned' = owned \cup {target}
               \/ entry = Absent /\ Goes("ensureRoute") /\ UNCHANGED owned
    /\ UNCHANGED <<kernel, ghosts>>

\* ensure's first list, and what follows from the target's entry.
EnsureList ==
    /\ pc = "ensureList"
    /\ \/ Fault /\ Fails("ensureNext") /\ UNCHANGED owned
       \/ /\ NoFault
          /\ \E entry \in Listed :
               \/ Serves(entry) /\ Goes("ensureNext") /\ UNCHANGED owned
               \/ /\ entry # Absent /\ ~Serves(entry)
                  /\ owned' = owned \ {target}
                  /\ Fails("ensureNext")
               \/ entry = Absent /\ Goes("ensureRoute") /\ UNCHANGED owned
    /\ UNCHANGED <<kernel, ghosts>>

\* A bug: only startup checks the routes, later targets are added unchecked.
EnsureRouteUnchecked ==
    /\ pc = "ensureRoute"
    /\ \/ Fault /\ Fails("ensureNext")
       \/ NoFault /\ Goes("ensureAdd")
    /\ UNCHANGED <<kernel, owned, ghosts>>

\* checkTargetRoute: a failed lookup and another interface are both errors.
EnsureRoute ==
    /\ pc = "ensureRoute"
    /\ \/ Fault /\ Fails("ensureNext")
       \/ /\ NoFault
          /\ \E ifname \in RouteInterfaces(route[target]) :
               IF ifname = Uplink THEN Goes("ensureAdd") ELSE Fails("ensureNext")
    /\ UNCHANGED <<kernel, owned, ghosts>>

\* "ndp -s": the kernel takes the interface from the route of the moment and
\* may replace an entry that appeared meanwhile, or do nothing and succeed.
EnsureAdd ==
    /\ pc = "ensureAdd"
    /\ \/ /\ Fault
          /\ Fails("ensureNext")
          /\ UNCHANGED <<kernel, ghosts>>
       \/ /\ Fault
          /\ Goes("ensureVerify")
          /\ added' = added \cup {target}
          /\ UNCHANGED <<kernel, settled>>
       \/ /\ NoFault
          /\ table' = [table EXCEPT ![target] = Entry("proxy", route[target], "us")]
          /\ added' = added \cup {target}
          /\ Goes("ensureVerify")
          /\ UNCHANGED <<route, settled>>
    /\ UNCHANGED owned

\* The second list.  Only an entry seen here becomes owned; when the list
\* itself fails, the entry just added stays and nobody owns it.
EnsureVerify ==
    /\ pc = "ensureVerify"
    /\ \/ Fault /\ Fails("ensureNext") /\ UNCHANGED owned
       \/ /\ NoFault
          /\ \E entry \in Listed :
               IF Serves(entry)
               THEN Goes("ensureNext") /\ owned' = owned \cup {target}
               ELSE Fails("ensureNext") /\ UNCHANGED owned
    /\ UNCHANGED <<kernel, ghosts>>

-----------------------------------------------------------------------------
(* remove, shared by Sync and Close *)

RemoveNext ==
    /\ pc = "removeNext"
    /\ \E t \in todo : target' = t /\ todo' = todo \ {t}
    /\ pc' = "removeList"
    /\ UNCHANGED <<kernel, owned, wanted, outcome, startup, ghosts, bounds>>

RemoveList ==
    /\ pc = "removeList"
    /\ \/ Fault /\ Fails("removeNext") /\ UNCHANGED owned
       \/ /\ NoFault
          /\ \E entry \in Listed :
               IF Serves(entry)
               THEN Goes("removeDelete") /\ UNCHANGED owned
               ELSE Goes("removeNext") /\ owned' = owned \ {target}
    /\ UNCHANGED <<kernel, ghosts>>

\* "ndp -d" deletes whatever entry the address has by now.
RemoveDelete ==
    /\ pc = "removeDelete"
    /\ \/ Fault /\ Fails("removeNext") /\ UNCHANGED kernel
       \/ Fault /\ Goes("removeVerify") /\ UNCHANGED kernel
       \/ /\ NoFault
          /\ table' = [table EXCEPT ![target] = NoEntry]
          /\ Goes("removeVerify")
          /\ UNCHANGED route
    /\ UNCHANGED <<owned, ghosts>>

RemoveVerify ==
    /\ pc = "removeVerify"
    /\ \/ Fault /\ Fails("removeNext") /\ UNCHANGED owned
       \/ /\ NoFault
          /\ \E entry \in Listed :
               IF Serves(entry)
               THEN Fails("removeNext") /\ UNCHANGED owned
               ELSE Goes("removeNext") /\ owned' = owned \ {target}
    /\ UNCHANGED <<kernel, ghosts>>

\* Sync returns.  runtime_bsd.go:51 gives up when the first one failed.
SyncEnds ==
    /\ pc = "removeNext"
    /\ todo = {}
    /\ startup # "closing"
    /\ IF outcome = "failed" /\ startup = "yes"
       THEN pc' = "close" /\ UNCHANGED startup
       ELSE pc' = "rest" /\ startup' = "no"
    /\ UNCHANGED <<kernel, owned, wanted, todo, outcome, target, added, bounds>>
    /\ Settle(wanted, outcome)

\* A termination signal between two Syncs also leads to Close.
CloseBegins ==
    /\ pc = "close" \/ (pc = "rest" /\ startup = "no")
    /\ startup' = "closing"
    /\ wanted' = {}
    /\ todo' = owned
    /\ outcome' = "ok"
    /\ pc' = "removeNext"
    /\ UNCHANGED <<kernel, owned, target, ghosts, bounds>>

CloseEnds ==
    /\ pc = "removeNext"
    /\ todo = {}
    /\ startup = "closing"
    /\ pc' = "stopped"
    /\ UNCHANGED <<kernel, owned, sync, target, added, bounds>>
    /\ Settle({}, outcome)

-----------------------------------------------------------------------------
(* Others, and crashes *)

\* Neighbor discovery or another service adds, replaces or deletes an entry.
ForeignEntry ==
    /\ foreign < MaxForeign
    /\ foreign' = foreign + 1
    /\ \E a \in Addr, e \in {NoEntry} \cup [kind : {"neighbor", "proxy"},
                                           ifname : Iface, by : {"other"}] :
         /\ e # table[a]
         /\ table' = [table EXCEPT ![a] = e]
    /\ Unsettled
    /\ UNCHANGED <<route, owned, pc, sync, target, added, faults, crashes>>

RouteMoves ==
    /\ foreign < MaxForeign
    /\ foreign' = foreign + 1
    /\ \E a \in Addr, i \in Iface :
         i # route[a] /\ route' = [route EXCEPT ![a] = i]
    /\ Unsettled
    /\ UNCHANGED <<table, owned, pc, sync, target, added, faults, crashes>>

\* The process is killed and started again: the entries stay, r.owned starts
\* empty (newBSDProxyResponder), no deferred Close runs.
Crash ==
    /\ pc # "stopped"
    /\ crashes < MaxCrashes
    /\ crashes' = crashes + 1
    /\ owned' = {}
    /\ added' = {}
    /\ pc' = "rest"
    /\ startup' = "yes"
    /\ wanted' = {} /\ todo' = {} /\ outcome' = "ok"
    /\ Settle({}, "none")
    /\ UNCHANGED <<kernel, target, foreign, faults>>

Stopped == pc = "stopped" /\ UNCHANGED vars

Own == SyncBegins \/ EnsureNext \/ EnsureDone \/ EnsureList \/ EnsureRoute
         \/ EnsureAdd \/ EnsureVerify \/ RemoveNext \/ RemoveList \/ RemoveDelete
         \/ RemoveVerify \/ SyncEnds \/ CloseBegins \/ CloseEnds

Next == Own \/ ForeignEntry \/ RouteMoves \/ Crash \/ Stopped

Spec == Init /\ [][Next]_vars

-----------------------------------------------------------------------------
(* Types, and what remove works on: an address it owns and does not want.   *)
ProxyTypeOK ==
    /\ table \in [Addr -> Entries]
    /\ route \in [Addr -> Iface]
    /\ owned \subseteq Addr /\ wanted \subseteq Addr /\ todo \subseteq Addr
    /\ added \subseteq Addr
    /\ target \in Addr
    /\ outcome \in {"ok", "failed"}
    /\ startup \in {"yes", "no", "closing"}
    /\ pc \in {"rest", "ensureNext", "ensureList", "ensureRoute", "ensureAdd",
               "ensureVerify", "removeNext", "removeList", "removeDelete",
               "removeVerify", "close", "stopped"}
    /\ pc \in {"removeList", "removeDelete", "removeVerify"} =>
         target \in owned \ wanted

\* While nobody else writes the table, no command of this process ever changes
\* an entry another service or the kernel created, whatever commands fail and
\* wherever the process is killed (README.md:26).
ForeignUntouched ==
    [][Own /\ Undisturbed =>
         \A a \in Addr : table[a].by = "other" => table'[a] = table[a]]_vars

\* Command by command, Sync, Close and a kill do what ProxySync says one call
\* does, until somebody else writes the table or moves a route: after a Sync
\* without an error every target is proxied and nothing else is owned, an
\* address that failed is the only one left in between, and an entry whose
\* ownership a failed second look or a kill lost is never removed.
Proxy == INSTANCE ProxySync WITH owned <- settled.owned, proxied <- settled.proxied,
                                 external <- settled.external,
                                 wanted <- settled.wanted, outcome <- settled.outcome
RefinesProxySync == Proxy!ProxySpec

\* Whatever others write in between, the process owns, and so deletes, only at
\* addresses where its own "ndp -s" exited 0 since it started: an entry found at
\* startup or before the add is never adopted.
OwnsOnlyWhatItAdded ==
    /\ owned \subseteq added
    /\ pc = "removeDelete" => target \in added

\* README.md:26: "ndpresponder never overwrites ordinary NDP neighbors or proxy
\* entries created by another service."
NeverOverwritesForeign ==
    [][EnsureAdd => \A a \in Addr : table[a].by = "other" => table'[a] = table[a]]_vars

\* README.md:75: "The process removes only entries it created when it stops."
RemovesOnlyItsEntries ==
    [][RemoveDelete => \A a \in Addr : table[a].by = "other" => table'[a] = table[a]]_vars

\* bsd_ndp_proxy.go:152-155: the route is checked first "so a target routed
\* through a bridge or VPN cannot leave a proxy entry on an unintended
\* interface".
NeverOffUplink == \A a \in OursInTable : OnUplink(table[a])

\* That check is what keeps the entries on the uplink: unless somebody moves a
\* route or rewrites the table meanwhile, none is anywhere else, whichever
\* commands fail and whenever the process is killed.
OffUplinkOnlyIfMoved == Undisturbed => NeverOffUplink
====
