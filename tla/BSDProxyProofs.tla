---- MODULE BSDProxyProofs ----
(***************************************************************************)
(* Proofs about bsdProxyResponder for any number of addresses, interfaces, *)
(* disturbances, failing commands and kills.                               *)
(***************************************************************************)
EXTENDS BSDProxy, TLAPS

-----------------------------------------------------------------------------
(* A listing is read back as it is, in every form the systems print it.     *)

LEMMA FlagColumns ==
    /\ isNDPProxyFlag(Column({"p"}, "none"))
    /\ isNDPProxyFlag(Column({"R", "p"}, "digits"))
    /\ ~isNDPProxyFlag(Column({"R"}, "none"))
    /\ ~isNDPProxyFlag(Column({"P"}, "none"))
    /\ ~isNDPProxyFlag(Column({"x"}, "none"))
    /\ ~isNDPProxyFlag(Column({"p", "x"}, "none"))
    /\ ~isNDPProxyFlag(Column({}, "other"))
BY DEF isNDPProxyFlag, Column, FlagLetters

LEMMA RowsHaveTheFlag ==
    ASSUME NEW proxy \in BOOLEAN, NEW row \in PrintedRows(proxy)
    PROVE  HasProxyFlag(row) = proxy
<1>1. PICK columns \in Expiries \X States \X Flags(proxy) :
        row = {columns[1]} \cup columns[2] \cup columns[3]
  BY DEF PrintedRows
<1>2. ~isNDPProxyFlag(columns[1])
  BY FlagColumns DEF Expiries
<1>3. \A column \in columns[2] : ~isNDPProxyFlag(column)
  BY FlagColumns DEF States
<1>4. CASE proxy = TRUE
  <2>1. \E column \in columns[3] : isNDPProxyFlag(column)
    BY <1>4, FlagColumns DEF Flags
  <2> QED
    BY <1>1, <1>4, <2>1 DEF HasProxyFlag
<1>5. CASE proxy = FALSE
  <2>1. \A column \in columns[3] : ~isNDPProxyFlag(column)
    BY <1>5, FlagColumns DEF Flags
  <2> QED
    BY <1>1, <1>2, <1>3, <1>5, <2>1 DEF HasProxyFlag
<1> QED
  BY <1>4, <1>5

\* ndpEntries tells a proxy entry from any other.
LEMMA ListingIsExact == ASSUME NEW proxy \in BOOLEAN PROVE ReadBack(proxy) \subseteq {proxy}
BY RowsHaveTheFlag DEF ReadBack

\* Both outputs of "route -n get" name the interface, and only that is read.
LEMMA RouteIsExact ==
    ASSUME NEW ifname, ifname # ""
    PROVE  RouteInterfaces(ifname) = {ifname}
<1>1. ASSUME NEW lines \in RouteOutputs(ifname)
      PROVE bsdRouteInterfaceFromOutput(lines) = {ifname}
  <2>1. Line("interface", ifname) \in lines
    BY <1>1 DEF RouteOutputs
  <2>2. ASSUME NEW line \in lines
        PROVE line = Line("interface", ifname) \/ line.key # "interface"
    <3>1. \/ line = Line("interface", ifname)
          \/ \E key, value : key # "interface" /\ line = Line(key, value)
      BY <1>1, <2>2 DEF RouteOutputs
    <3>2. ASSUME NEW key, NEW value, key # "interface", line = Line(key, value)
          PROVE  line.key # "interface"
      BY <3>2 DEF Line
    <3> QED
      BY <3>1, <3>2
  <2>3. /\ Line("interface", ifname).key = "interface"
        /\ Line("interface", ifname).value = ifname
    BY DEF Line
  <2>4. {l \in lines : l.key = "interface" /\ l.value # ""} = {Line("interface", ifname)}
    BY <2>1, <2>2, <2>3
  <2> QED
    BY <2>3, <2>4 DEF bsdRouteInterfaceFromOutput
<1>2. RouteOutputs(ifname) # {}
  BY DEF RouteOutputs
<1> QED
  BY <1>1, <1>2 DEF RouteInterfaces

-----------------------------------------------------------------------------
(* The inductive invariant.  Part one holds whatever others do.             *)

Visiting == pc \in {"ensureList", "ensureRoute", "ensureAdd", "ensureVerify",
                    "removeList", "removeDelete", "removeVerify"}
Ensuring == pc \in {"ensureNext", "ensureList", "ensureRoute", "ensureAdd", "ensureVerify"}
Removing == pc \in {"removeNext", "removeList", "removeDelete", "removeVerify"}
Resting == pc \in {"rest", "close", "stopped"}

\* Which addresses a Sync or Close has still to visit, and which it visits.
Visits ==
    /\ Ensuring => todo \subseteq wanted
    /\ Removing => todo \subseteq owned \ wanted
    /\ Visiting => target \notin todo
    /\ Visiting /\ Ensuring => target \in wanted
    /\ pc = "rest" \/ Ensuring => startup # "closing"
    /\ startup = "closing" => wanted = {}

\* What is owned was added, and an add that exited 0 comes before the look.
AddedFirst == /\ owned \subseteq added
              /\ pc = "ensureVerify" => target \in added

LoopInv == /\ ProxyTypeOK
           /\ foreign \in Nat /\ faults \in Nat /\ crashes \in Nat
           /\ Visits
           /\ AddedFirst

(* Part two is about the time before anybody else writes.                   *)

\* Entries of this process are on the uplink, and it owns none of the others.
OwnTable == /\ \A a \in Addr : table[a].by = "us" => OnUplink(table[a])
            /\ \A a \in owned : table[a].by # "other"

\* What the commands so far have established about the address in hand.
Seen == /\ pc \in {"ensureRoute", "ensureAdd"} => table[target] = NoEntry
        /\ pc = "ensureAdd" => route[target] = Uplink
        /\ pc = "ensureVerify" => table[target].by # "other"
        /\ pc = "removeDelete" => table[target].by = "us"

Missing == wanted \ (settled.proxied \cup settled.external)
Dropped == settled.owned \ wanted

\* An address the call in progress has left as it found it,
Kept(a) == /\ a \in owned <=> a \in settled.owned
           /\ a \in OursInTable <=> a \in settled.proxied

\* one it has brought to where it belongs,
Done(a) == /\ a \in owned <=> a \in (settled.owned \cup Missing) \ Dropped
           /\ a \in OursInTable <=> a \in (settled.proxied \cup Missing) \ Dropped

\* and one a command has failed for.
Failed(a) == /\ outcome = "failed"
             /\ a \in wanted \cup settled.owned
             /\ a \in owned <=> a \in settled.owned
             /\ a \in OursInTable => a \in settled.proxied \cup Missing
             /\ a \in settled.proxied \ Dropped => a \in OursInTable

Current(a) == Visiting /\ a = target
Pending(a) == a \in todo \/ (Ensuring /\ a \in Dropped)

\* The address in hand: what it needs, and how far that has come.
InHand ==
    /\ target \in owned <=> target \in settled.owned
    /\ pc \in {"ensureList", "ensureRoute", "ensureAdd", "removeList", "removeDelete"}
         => Kept(target)
    /\ pc \in {"ensureRoute", "ensureAdd", "ensureVerify"} => target \in Missing
    /\ Removing => target \in Dropped
    /\ pc = "removeVerify" /\ target \in OursInTable => target \in settled.proxied

Progress ==
    /\ settled = [owned |-> settled.owned, proxied |-> settled.proxied,
                  external |-> settled.external, wanted |-> settled.wanted,
                  outcome |-> settled.outcome]
    /\ settled.outcome # "disturbed"
    /\ settled.external = {a \in Addr : OnUplink(table[a])} \ OursInTable
    /\ settled.owned \subseteq Addr /\ settled.proxied \subseteq Addr
    /\ Resting => \A a \in Addr : Kept(a)
    /\ Visiting => InHand
    /\ ~Resting => \A a \in Addr : IF Pending(a) THEN Kept(a)
                                    ELSE Current(a) \/ Done(a) \/ Failed(a)
    /\ ~Resting /\ outcome = "failed" =>
         \E a \in Addr : ~Pending(a) /\ ~Current(a) /\ Failed(a)

UndisturbedInv == Undisturbed => OwnTable /\ Seen /\ Progress
DisturbedInv == ~Undisturbed => settled.outcome = "disturbed"

ProxyInv == LoopInv /\ UndisturbedInv /\ DisturbedInv

-----------------------------------------------------------------------------
(* Part one *)

LEMMA LoopInvInit == Init => LoopInv
BY DEF Init, LoopInv, ProxyTypeOK, Visits, AddedFirst, Entries, NoEntry, Visiting,
       Ensuring, Removing

\* The listing shows the entry of the address in hand as it is, and the route
\* command the interface it is routed through.
LEMMA LooksAreExact ==
    ASSUME LoopInv
    PROVE  /\ \A entry \in Listed : /\ entry = Absent <=> table[target] = NoEntry
                                    /\ Serves(entry) <=> OnUplink(table[target])
           /\ \A ifname \in RouteInterfaces(route[target]) : ifname = route[target]
<1>1. table[target] \in Entries /\ route[target] \in Iface
  BY DEF LoopInv, ProxyTypeOK
<1>2. ReadBack(table[target].kind = "proxy") \subseteq {table[target].kind = "proxy"}
  BY ListingIsExact
<1>3. ASSUME NEW entry \in Listed
      PROVE /\ entry = Absent <=> table[target] = NoEntry
            /\ Serves(entry) <=> OnUplink(table[target])
  <2>1. CASE table[target] = NoEntry
    BY <1>3, <2>1 DEF Listed, Serves, OnUplink, NoEntry
  <2>2. CASE table[target] # NoEntry
    <3>1. entry = [proxy |-> table[target].kind = "proxy", ifname |-> table[target].ifname]
      BY <1>2, <1>3, <2>2 DEF Listed
    <3>2. table[target].ifname \in Iface
      BY <1>1, <2>2 DEF Entries
    <3>3. entry # Absent
      BY <3>1, <3>2, ProxyAssumption DEF Absent
    <3> QED
      BY <2>2, <3>1, <3>3 DEF Serves, OnUplink
  <2> QED
    BY <2>1, <2>2
<1> QED
  BY <1>1, <1>3, RouteIsExact, ProxyAssumption

-----------------------------------------------------------------------------
(* What each command does, once the listing is known to be exact.           *)

\* What no command of the visit of one address changes.
VisitFrame == /\ UNCHANGED <<wanted, todo, startup, target, settled, route, foreign, crashes>>
              /\ faults' \in Nat

FailsTo(loop) == pc' = loop /\ outcome' = "failed"
GoesTo(next) == pc' = next /\ outcome' = outcome

LEMMA EnsureListStep ==
    ASSUME LoopInv, EnsureList
    PROVE  /\ VisitFrame /\ UNCHANGED <<table, added>>
           /\ \/ FailsTo("ensureNext") /\ owned' = owned
              \/ /\ OnUplink(table[target])
                 /\ GoesTo("ensureNext") /\ owned' = owned
              \/ /\ table[target] # NoEntry /\ ~OnUplink(table[target])
                 /\ FailsTo("ensureNext") /\ owned' = owned \ {target}
              \/ /\ table[target] = NoEntry
                 /\ GoesTo("ensureRoute") /\ owned' = owned
<1> USE DEF VisitFrame, FailsTo, GoesTo, kernel, ghosts, bounds
<1>1. VisitFrame /\ UNCHANGED <<table, added>>
  BY DEF EnsureList, Fault, NoFault, Fails, Goes, sync, LoopInv
<1>2. CASE Fault /\ Fails("ensureNext") /\ UNCHANGED owned
  BY <1>1, <1>2 DEF Fails
<1>3. ASSUME NEW entry \in Listed,
             \/ Serves(entry) /\ Goes("ensureNext") /\ UNCHANGED owned
             \/ /\ entry # Absent /\ ~Serves(entry)
                /\ owned' = owned \ {target}
                /\ Fails("ensureNext")
             \/ entry = Absent /\ Goes("ensureRoute") /\ UNCHANGED owned
      PROVE  \/ /\ OnUplink(table[target])
                /\ GoesTo("ensureNext") /\ owned' = owned
             \/ /\ table[target] # NoEntry /\ ~OnUplink(table[target])
                /\ FailsTo("ensureNext") /\ owned' = owned \ {target}
             \/ /\ table[target] = NoEntry
                /\ GoesTo("ensureRoute") /\ owned' = owned
  BY <1>3, LooksAreExact DEF Goes, Fails, sync
<1> QED
  BY <1>1, <1>2, <1>3 DEF EnsureList

LEMMA EnsureRouteStep ==
    ASSUME LoopInv, EnsureRoute
    PROVE  /\ VisitFrame /\ UNCHANGED <<table, owned, added>>
           /\ \/ FailsTo("ensureNext")
              \/ route[target] = Uplink /\ GoesTo("ensureAdd")
<1> USE DEF VisitFrame, FailsTo, GoesTo, kernel, ghosts, bounds
<1>1. VisitFrame /\ UNCHANGED <<table, owned, added>>
  BY DEF EnsureRoute, Fault, NoFault, Fails, Goes, sync, LoopInv
<1>2. CASE Fault /\ Fails("ensureNext")
  BY <1>1, <1>2 DEF Fails
<1>3. ASSUME NEW ifname \in RouteInterfaces(route[target]),
             IF ifname = Uplink THEN Goes("ensureAdd") ELSE Fails("ensureNext")
      PROVE  FailsTo("ensureNext") \/ (route[target] = Uplink /\ GoesTo("ensureAdd"))
  BY <1>3, LooksAreExact DEF Goes, Fails, sync
<1> QED
  BY <1>1, <1>2, <1>3 DEF EnsureRoute

LEMMA EnsureAddStep ==
    ASSUME LoopInv, EnsureAdd
    PROVE  /\ VisitFrame /\ UNCHANGED owned
           /\ \/ FailsTo("ensureNext") /\ UNCHANGED <<table, added>>
              \/ /\ GoesTo("ensureVerify") /\ added' = added \cup {target}
                 /\ UNCHANGED table
              \/ /\ GoesTo("ensureVerify") /\ added' = added \cup {target}
                 /\ table' = [table EXCEPT ![target] = Entry("proxy", route[target], "us")]
<1> USE DEF VisitFrame, FailsTo, GoesTo, kernel, ghosts, bounds
<1>1. VisitFrame /\ UNCHANGED owned
  BY DEF EnsureAdd, Fault, NoFault, Fails, Goes, sync, LoopInv
<1> QED
  BY <1>1 DEF EnsureAdd, Fails, Goes, sync

LEMMA EnsureVerifyStep ==
    ASSUME LoopInv, EnsureVerify
    PROVE  /\ VisitFrame /\ UNCHANGED <<table, added>>
           /\ \/ FailsTo("ensureNext") /\ owned' = owned
              \/ /\ OnUplink(table[target])
                 /\ GoesTo("ensureNext") /\ owned' = owned \cup {target}
<1> USE DEF VisitFrame, FailsTo, GoesTo, kernel, ghosts, bounds
<1>1. VisitFrame /\ UNCHANGED <<table, added>>
  BY DEF EnsureVerify, Fault, NoFault, Fails, Goes, sync, LoopInv
<1>2. CASE Fault /\ Fails("ensureNext") /\ UNCHANGED owned
  BY <1>1, <1>2 DEF Fails
<1>3. ASSUME NEW entry \in Listed,
             IF Serves(entry)
             THEN Goes("ensureNext") /\ owned' = owned \cup {target}
             ELSE Fails("ensureNext") /\ UNCHANGED owned
      PROVE  \/ FailsTo("ensureNext") /\ owned' = owned
             \/ /\ OnUplink(table[target])
                /\ GoesTo("ensureNext") /\ owned' = owned \cup {target}
  BY <1>3, LooksAreExact DEF Goes, Fails, sync
<1> QED
  BY <1>1, <1>2, <1>3 DEF EnsureVerify

LEMMA RemoveListStep ==
    ASSUME LoopInv, RemoveList
    PROVE  /\ VisitFrame /\ UNCHANGED <<table, added>>
           /\ \/ FailsTo("removeNext") /\ owned' = owned
              \/ /\ OnUplink(table[target])
                 /\ GoesTo("removeDelete") /\ owned' = owned
              \/ /\ ~OnUplink(table[target])
                 /\ GoesTo("removeNext") /\ owned' = owned \ {target}
<1> USE DEF VisitFrame, FailsTo, GoesTo, kernel, ghosts, bounds
<1>1. VisitFrame /\ UNCHANGED <<table, added>>
  BY DEF RemoveList, Fault, NoFault, Fails, Goes, sync, LoopInv
<1>2. CASE Fault /\ Fails("removeNext") /\ UNCHANGED owned
  BY <1>1, <1>2 DEF Fails
<1>3. ASSUME NEW entry \in Listed,
             IF Serves(entry)
             THEN Goes("removeDelete") /\ UNCHANGED owned
             ELSE Goes("removeNext") /\ owned' = owned \ {target}
      PROVE  \/ /\ OnUplink(table[target])
                /\ GoesTo("removeDelete") /\ owned' = owned
             \/ /\ ~OnUplink(table[target])
                /\ GoesTo("removeNext") /\ owned' = owned \ {target}
  BY <1>3, LooksAreExact DEF Goes, sync
<1> QED
  BY <1>1, <1>2, <1>3 DEF RemoveList

LEMMA RemoveDeleteStep ==
    ASSUME LoopInv, RemoveDelete
    PROVE  /\ VisitFrame /\ UNCHANGED <<owned, added>>
           /\ \/ FailsTo("removeNext") /\ UNCHANGED table
              \/ GoesTo("removeVerify") /\ UNCHANGED table
              \/ /\ GoesTo("removeVerify")
                 /\ table' = [table EXCEPT ![target] = NoEntry]
<1> USE DEF VisitFrame, FailsTo, GoesTo, kernel, ghosts, bounds
<1>1. VisitFrame /\ UNCHANGED <<owned, added>>
  BY DEF RemoveDelete, Fault, NoFault, Fails, Goes, sync, LoopInv
<1> QED
  BY <1>1 DEF RemoveDelete, Fails, Goes, sync

LEMMA RemoveVerifyStep ==
    ASSUME LoopInv, RemoveVerify
    PROVE  /\ VisitFrame /\ UNCHANGED <<table, added>>
           /\ \/ FailsTo("removeNext") /\ owned' = owned
              \/ /\ ~OnUplink(table[target])
                 /\ GoesTo("removeNext") /\ owned' = owned \ {target}
<1> USE DEF VisitFrame, FailsTo, GoesTo, kernel, ghosts, bounds
<1>1. VisitFrame /\ UNCHANGED <<table, added>>
  BY DEF RemoveVerify, Fault, NoFault, Fails, Goes, sync, LoopInv
<1>2. CASE Fault /\ Fails("removeNext") /\ UNCHANGED owned
  BY <1>1, <1>2 DEF Fails
<1>3. ASSUME NEW entry \in Listed,
             IF Serves(entry)
             THEN Fails("removeNext") /\ UNCHANGED owned
             ELSE Goes("removeNext") /\ owned' = owned \ {target}
      PROVE  \/ FailsTo("removeNext") /\ owned' = owned
             \/ /\ ~OnUplink(table[target])
                /\ GoesTo("removeNext") /\ owned' = owned \ {target}
  BY <1>3, LooksAreExact DEF Goes, Fails, sync
<1> QED
  BY <1>1, <1>2, <1>3 DEF RemoveVerify

-----------------------------------------------------------------------------
(* The first part is inductive.                                             *)

\* The counters of the bounds count.
LEMMA CountersCount ==
    ASSUME LoopInv
    PROVE  /\ ForeignEntry \/ RouteMoves => foreign' \in Nat
           /\ Crash => crashes' \in Nat
<1>1. foreign \in Nat /\ crashes \in Nat
  BY DEF LoopInv
<1>2. foreign + 1 \in Nat /\ crashes + 1 \in Nat
  BY <1>1
<1> QED
  BY <1>2 DEF ForeignEntry, RouteMoves, Crash

LEMMA LoopInvNext == LoopInv /\ [Next]_vars => LoopInv'
<1> SUFFICES ASSUME LoopInv, [Next]_vars PROVE LoopInv'
  OBVIOUS
<1> USE ProxyAssumption
    DEF LoopInv, ProxyTypeOK, Visits, AddedFirst, Visiting, Ensuring, Removing,
        kernel, sync, ghosts, bounds, VisitFrame, FailsTo, GoesTo
<1>1. CASE SyncBegins \/ EnsureNext \/ RemoveNext
  BY <1>1 DEF SyncBegins, EnsureNext, RemoveNext
<1>2. CASE EnsureDone
  BY <1>2 DEF EnsureDone, Leftovers
<1>3. CASE EnsureList
  BY <1>3, EnsureListStep DEF EnsureList
<1>4. CASE EnsureRoute
  BY <1>4, EnsureRouteStep DEF EnsureRoute
<1>5. CASE EnsureAdd
  <2>1. Entry("proxy", route[target], "us") \in Entries
    BY DEF Entry, Entries
  <2>2. table' \in [Addr -> Entries]
    BY <1>5, <2>1, EnsureAddStep
  <2> QED
    BY <1>5, <2>2, EnsureAddStep DEF EnsureAdd
<1>6. CASE EnsureVerify
  BY <1>6, EnsureVerifyStep DEF EnsureVerify
<1>7. CASE RemoveList
  BY <1>7, RemoveListStep DEF RemoveList
<1>8. CASE RemoveDelete
  <2>1. table' \in [Addr -> Entries]
    BY <1>8, RemoveDeleteStep DEF Entries
  <2> QED
    BY <1>8, <2>1, RemoveDeleteStep DEF RemoveDelete
<1>9. CASE RemoveVerify
  BY <1>9, RemoveVerifyStep DEF RemoveVerify
<1>10. CASE SyncEnds \/ CloseEnds
  BY <1>10 DEF SyncEnds, CloseEnds
<1>11. CASE CloseBegins
  BY <1>11 DEF CloseBegins
<1>12. CASE ForeignEntry
  <2>1. table' \in [Addr -> Entries]
    BY <1>12 DEF ForeignEntry, Entries
  <2>2. /\ UNCHANGED <<route, owned, pc, sync, target, added, faults, crashes>>
        /\ foreign' \in Nat
    BY CountersCount, <1>12 DEF ForeignEntry
  <2> QED
    BY <2>1, <2>2
<1>13. CASE RouteMoves
  <2>1. route' \in [Addr -> Iface]
    BY <1>13 DEF RouteMoves
  <2>2. /\ UNCHANGED <<table, owned, pc, sync, target, added, faults, crashes>>
        /\ foreign' \in Nat
    BY CountersCount, <1>13 DEF RouteMoves
  <2> QED
    BY <2>1, <2>2
<1>14. CASE Crash
  <2>1. /\ owned' = {} /\ added' = {} /\ wanted' = {} /\ todo' = {}
        /\ pc' = "rest" /\ startup' = "yes" /\ outcome' = "ok"
        /\ crashes' \in Nat
        /\ UNCHANGED <<kernel, target, foreign, faults>>
    BY CountersCount, <1>14 DEF Crash
  <2> QED
    BY <2>1
<1>15. CASE Stopped \/ UNCHANGED vars
  BY <1>15 DEF Stopped, vars
<1> QED
  BY <1>1, <1>2, <1>3, <1>4, <1>5, <1>6, <1>7, <1>8, <1>9, <1>10, <1>11, <1>12,
     <1>13, <1>14, <1>15 DEF Next, Own

\* The types of the responder, and what remove works on, for every constant.
THEOREM ProxyTypes == Spec => []ProxyTypeOK
<1>1. LoopInv => ProxyTypeOK
  BY DEF LoopInv
<1> QED
  BY <1>1, LoopInvInit, LoopInvNext, PTL DEF Spec

\* The process owns, and so deletes, only at addresses where its own "ndp -s"
\* exited 0 since it started, whatever others write meanwhile.
THEOREM OwnershipIsEarned == Spec => []OwnsOnlyWhatItAdded
<1>1. LoopInv => OwnsOnlyWhatItAdded
  BY DEF LoopInv, ProxyTypeOK, AddedFirst, OwnsOnlyWhatItAdded
<1> QED
  BY <1>1, LoopInvInit, LoopInvNext, PTL DEF Spec

-----------------------------------------------------------------------------
(* Part two.  Visiting one address leaves the account of all others alone.  *)

TouchesOnlyTarget ==
    \A a \in Addr : a # target => /\ a \in owned' <=> a \in owned
                                  /\ table'[a] = table[a]

LEMMA OthersKeepTheirAccount ==
    ASSUME LoopInv, VisitFrame, TouchesOnlyTarget, outcome' \in {outcome, "failed"},
           NEW a \in Addr, a # target
    PROVE  /\ Kept(a)' <=> Kept(a)
           /\ Done(a)' <=> Done(a)
           /\ Failed(a) => Failed(a)'
<1>1. /\ a \in owned' <=> a \in owned
      /\ a \in OursInTable' <=> a \in OursInTable
      /\ settled' = settled /\ wanted' = wanted
  BY DEF TouchesOnlyTarget, OursInTable, VisitFrame
<1>2. Missing' = Missing /\ Dropped' = Dropped
  BY <1>1 DEF Missing, Dropped
<1>3. Kept(a)' <=> Kept(a)
  BY <1>1 DEF Kept
<1>4. Done(a)' <=> Done(a)
  BY <1>1, <1>2 DEF Done
<1>5. Failed(a) => Failed(a)'
  BY <1>1, <1>2 DEF Failed
<1> QED
  BY <1>3, <1>4, <1>5

\* So the account is right again once the address in hand is accounted for.
LEMMA VisitKeepsProgress ==
    ASSUME LoopInv, Progress, Visiting, VisitFrame, TouchesOnlyTarget,
           Ensuring' <=> Ensuring, ~Resting',
           settled.external = {a \in Addr : OnUplink(table'[a])} \ OursInTable',
           \/ Visiting' /\ outcome' = outcome /\ InHand'
           \/ ~Visiting' /\ outcome' = outcome /\ Done(target)'
           \/ ~Visiting' /\ outcome' = "failed" /\ Failed(target)'
    PROVE  Progress'
<1>1. /\ settled' = settled /\ wanted' = wanted /\ todo' = todo /\ target' = target
      /\ Dropped' = Dropped
      /\ target \in Addr
  BY DEF VisitFrame, Dropped, LoopInv, ProxyTypeOK
<1>2. ~Resting
  BY DEF Visiting, Resting
<1>3. \A a \in Addr : Pending(a)' <=> Pending(a)
  BY <1>1 DEF Pending
<1>4. \A a \in Addr : Current(a)' => Current(a)
  BY <1>1 DEF Current
<1>5. outcome' \in {outcome, "failed"}
  OBVIOUS
<1>6. ~Pending(target)
  BY DEF Pending, Dropped, LoopInv, Visits, Visiting, Ensuring
<1>7. ASSUME NEW a \in Addr
      PROVE (IF Pending(a) THEN Kept(a) ELSE Current(a) \/ Done(a) \/ Failed(a))'
  <2>1. IF Pending(a) THEN Kept(a) ELSE Current(a) \/ Done(a) \/ Failed(a)
    BY <1>2 DEF Progress
  <2>2. CASE a = target
    BY <1>1, <1>3, <1>6, <2>2 DEF Current
  <2>3. CASE a # target
    <3>1. ~Current(a)
      BY <2>3 DEF Current
    <3> QED
      BY <1>3, <1>5, <2>1, <2>3, <3>1, OthersKeepTheirAccount
  <2> QED
    BY <2>2, <2>3
<1>8. outcome' = "failed" =>
        \E a \in Addr : (~Pending(a) /\ ~Current(a) /\ Failed(a))'
  <2>1. ASSUME outcome = "failed", outcome' = "failed"
        PROVE \E a \in Addr : (~Pending(a) /\ ~Current(a) /\ Failed(a))'
    <3>1. PICK a \in Addr : ~Pending(a) /\ ~Current(a) /\ Failed(a)
      BY <1>2, <2>1 DEF Progress
    <3>2. a # target
      BY <3>1 DEF Current
    <3> QED
      BY <1>3, <1>4, <1>5, <3>1, <3>2, OthersKeepTheirAccount
  <2>2. ASSUME ~Visiting', Failed(target)'
        PROVE \E a \in Addr : (~Pending(a) /\ ~Current(a) /\ Failed(a))'
    BY <1>1, <1>3, <1>6, <2>2 DEF Current
  <2> QED
    BY <2>1, <2>2
<1>9. Visiting' => InHand'
  OBVIOUS
<1> QED
  <2>1. (settled = [owned |-> settled.owned, proxied |-> settled.proxied,
                  external |-> settled.external, wanted |-> settled.wanted,
                  outcome |-> settled.outcome])'
    BY <1>1 DEF Progress
  <2>2. /\ (settled.outcome # "disturbed")'
        /\ (settled.owned \subseteq Addr)' /\ (settled.proxied \subseteq Addr)'
    BY <1>1 DEF Progress
  <2>3. (settled.external = {a \in Addr : OnUplink(table[a])} \ OursInTable)'
    BY <1>1
  <2> QED
    BY <1>7, <1>8, <1>9, <2>1, <2>2, <2>3 DEF Progress

\* What the table says of the address in hand, in the terms of the account.
LEMMA TargetEntry ==
    ASSUME LoopInv, OwnTable, Progress
    PROVE  /\ target \in Addr
           /\ target \in OursInTable <=> table[target].by = "us"
           /\ target \in OursInTable => OnUplink(table[target])
           /\ target \in settled.external <=>
                OnUplink(table[target]) /\ target \notin OursInTable
           /\ target \in owned => target \in OursInTable \/ table[target] = NoEntry
           /\ table[target] = NoEntry => /\ target \notin OursInTable
                                         /\ ~OnUplink(table[target])
<1>1. target \in Addr /\ table[target] \in Entries
  BY DEF LoopInv, ProxyTypeOK
<1>2. target \in owned => target \in OursInTable \/ table[target] = NoEntry
  BY <1>1 DEF OwnTable, OursInTable, Entries, LoopInv, ProxyTypeOK
<1>3. target \in settled.external <=>
        OnUplink(table[target]) /\ target \notin OursInTable
  BY <1>1 DEF Progress
<1> QED
  BY <1>1, <1>2, <1>3 DEF OwnTable, OursInTable, NoEntry, OnUplink

\* A step that does not write the table leaves it in order.
LEMMA OwnTableKept ==
    ASSUME OwnTable, UNCHANGED table,
           owned' \subseteq owned \cup {target}, table[target].by # "other"
             \/ owned' \subseteq owned
    PROVE  OwnTable'
BY DEF OwnTable, OnUplink

LEMMA EnsureListKeeps ==
    ASSUME LoopInv, OwnTable, Seen, Progress, EnsureList
    PROVE  OwnTable' /\ Seen' /\ Progress'
<1> USE DEF VisitFrame, FailsTo, GoesTo
<1>1. /\ VisitFrame /\ UNCHANGED <<table, settled, wanted, target, route>>
      /\ pc = "ensureList" /\ owned' \subseteq owned
  BY EnsureListStep DEF EnsureList
<1>2. OwnTable'
  BY <1>1, OwnTableKept
<1>3. Seen'
  BY <1>1, EnsureListStep DEF Seen
<1>4. /\ InHand /\ Kept(target) /\ target \in wanted
      /\ OursInTable' = OursInTable /\ Missing' = Missing /\ Dropped' = Dropped
  BY <1>1 DEF Progress, InHand, Visiting, OursInTable, Missing, Dropped, LoopInv, Visits, Ensuring
<1>5. CASE FailsTo("ensureNext") /\ (owned' = owned \/ (/\ table[target] # NoEntry
                                                        /\ ~OnUplink(table[target])
                                                        /\ owned' = owned \ {target}))
  <2>1. owned' = owned
    BY <1>5, TargetEntry
  <2>2. Failed(target)'
    BY <1>1, <1>4, <1>5, <2>1 DEF Failed, Kept, Dropped
  <2> QED
    BY <1>1, <1>2, <1>3, <1>4, <1>5, <2>1, <2>2, VisitKeepsProgress
       DEF Visiting, Ensuring, Resting, TouchesOnlyTarget, Progress
<1>6. CASE OnUplink(table[target]) /\ GoesTo("ensureNext") /\ owned' = owned
  <2>1. Done(target)'
    BY <1>1, <1>4, <1>6, TargetEntry DEF Done, Kept, Missing, Dropped
  <2> QED
    BY <1>1, <1>2, <1>3, <1>4, <1>6, <2>1, VisitKeepsProgress
       DEF Visiting, Ensuring, Resting, TouchesOnlyTarget, Progress
<1>7. CASE table[target] = NoEntry /\ GoesTo("ensureRoute") /\ owned' = owned
  <2>1. InHand'
    BY <1>1, <1>4, <1>7, TargetEntry DEF InHand, Kept, Missing, Removing
  <2> QED
    BY <1>1, <1>2, <1>3, <1>4, <1>7, <2>1, VisitKeepsProgress
       DEF Visiting, Ensuring, Resting, TouchesOnlyTarget, Progress
<1> QED
  BY <1>5, <1>6, <1>7, EnsureListStep

LEMMA EnsureRouteKeeps ==
    ASSUME LoopInv, OwnTable, Seen, Progress, EnsureRoute
    PROVE  OwnTable' /\ Seen' /\ Progress'
<1> USE DEF VisitFrame, FailsTo, GoesTo
<1>1. /\ VisitFrame /\ UNCHANGED <<table, owned, settled, wanted, target, route>>
      /\ pc = "ensureRoute"
  BY EnsureRouteStep DEF EnsureRoute
<1>2. OwnTable'
  BY <1>1, OwnTableKept
<1>3. Seen'
  BY <1>1, EnsureRouteStep DEF Seen
<1>4. /\ InHand /\ Kept(target) /\ target \in wanted /\ target \in Missing
      /\ OursInTable' = OursInTable /\ Missing' = Missing /\ Dropped' = Dropped
  BY <1>1 DEF Progress, InHand, Visiting, OursInTable, Missing, Dropped, LoopInv, Visits, Ensuring
<1>5. CASE FailsTo("ensureNext")
  <2>1. Failed(target)'
    BY <1>1, <1>4, <1>5 DEF Failed, Kept, Dropped
  <2> QED
    BY <1>1, <1>2, <1>3, <1>4, <1>5, <2>1, VisitKeepsProgress
       DEF Visiting, Ensuring, Resting, TouchesOnlyTarget, Progress
<1>6. CASE GoesTo("ensureAdd")
  <2>1. InHand'
    BY <1>1, <1>4, <1>6 DEF InHand, Kept, Removing
  <2> QED
    BY <1>1, <1>2, <1>3, <1>4, <1>6, <2>1, VisitKeepsProgress
       DEF Visiting, Ensuring, Resting, TouchesOnlyTarget, Progress
<1> QED
  BY <1>5, <1>6, EnsureRouteStep

LEMMA EnsureAddKeeps ==
    ASSUME LoopInv, OwnTable, Seen, Progress, EnsureAdd
    PROVE  OwnTable' /\ Seen' /\ Progress'
<1> USE DEF VisitFrame, FailsTo, GoesTo
<1>1. /\ VisitFrame /\ UNCHANGED <<owned, settled, wanted, target, route>>
      /\ pc = "ensureAdd"
  BY EnsureAddStep DEF EnsureAdd
<1>2. /\ InHand /\ Kept(target) /\ target \in wanted /\ target \in Missing
      /\ Missing' = Missing /\ Dropped' = Dropped
      /\ table[target] = NoEntry /\ route[target] = Uplink
      /\ target \notin OursInTable
  BY <1>1, TargetEntry
     DEF Seen, Progress, InHand, Visiting, Missing, Dropped, LoopInv, Visits, Ensuring
<1>3. CASE FailsTo("ensureNext") /\ UNCHANGED table
  <2>1. OwnTable' /\ Seen' /\ OursInTable' = OursInTable
    BY <1>1, <1>3, OwnTableKept DEF Seen, OursInTable
  <2>2. Failed(target)'
    BY <1>1, <1>2, <1>3, <2>1 DEF Failed, Kept
  <2> QED
    BY <1>1, <1>2, <1>3, <2>1, <2>2, VisitKeepsProgress
       DEF Visiting, Ensuring, Resting, TouchesOnlyTarget, Progress
<1>4. CASE GoesTo("ensureVerify") /\ UNCHANGED table
  <2>1. OwnTable' /\ Seen' /\ OursInTable' = OursInTable
    BY <1>1, <1>2, <1>4, OwnTableKept DEF Seen, OursInTable, NoEntry
  <2>2. InHand'
    BY <1>1, <1>2, <1>4, <2>1 DEF InHand, Kept, Removing
  <2> QED
    BY <1>1, <1>2, <1>4, <2>1, <2>2, VisitKeepsProgress
       DEF Visiting, Ensuring, Resting, TouchesOnlyTarget, Progress
<1>5. CASE /\ GoesTo("ensureVerify")
           /\ table' = [table EXCEPT ![target] = Entry("proxy", route[target], "us")]
  <2>1. /\ \A a \in Addr : a # target => table'[a] = table[a]
        /\ table'[target] = Entry("proxy", Uplink, "us")
    BY <1>2, <1>5, TargetEntry DEF LoopInv, ProxyTypeOK
  <2>2. table'[target].by = "us" /\ OnUplink(table'[target])
    BY <2>1 DEF Entry, OnUplink
  <2>3. OwnTable' /\ Seen'
    <3>1. \A a \in Addr : table'[a].by = "us" => OnUplink(table'[a])
      BY <2>1, <2>2 DEF OwnTable
    <3>2. \A a \in owned : table'[a].by # "other"
      BY <2>1, <2>2 DEF OwnTable, LoopInv, ProxyTypeOK
    <3> QED
      BY <1>1, <1>5, <2>2, <3>1, <3>2 DEF OwnTable, Seen, OnUplink
  <2>4. settled.external = {a \in Addr : OnUplink(table'[a])} \ OursInTable'
    BY <1>2, <2>1, <2>2, TargetEntry DEF Progress, OursInTable
  <2>5. InHand'
    BY <1>1, <1>2, <1>5 DEF InHand, Kept, Removing
  <2> QED
    BY <1>1, <1>2, <1>5, <2>1, <2>3, <2>4, <2>5, VisitKeepsProgress
       DEF Visiting, Ensuring, Resting, TouchesOnlyTarget
<1> QED
  BY <1>3, <1>4, <1>5, EnsureAddStep

LEMMA EnsureVerifyKeeps ==
    ASSUME LoopInv, OwnTable, Seen, Progress, EnsureVerify
    PROVE  OwnTable' /\ Seen' /\ Progress'
<1> USE DEF VisitFrame, FailsTo, GoesTo
<1>1. /\ VisitFrame /\ UNCHANGED <<table, settled, wanted, target, route>>
      /\ pc = "ensureVerify" /\ table[target].by # "other"
      /\ owned' \subseteq owned \cup {target}
  BY EnsureVerifyStep DEF EnsureVerify, Seen
<1>2. OwnTable'
  BY <1>1, OwnTableKept
<1>3. Seen'
  BY <1>1, EnsureVerifyStep DEF Seen
<1>4. /\ InHand /\ target \in wanted /\ target \in Missing
      /\ OursInTable' = OursInTable /\ Missing' = Missing /\ Dropped' = Dropped
  BY <1>1 DEF Progress, InHand, Visiting, OursInTable, Missing, Dropped, LoopInv, Visits, Ensuring
<1>5. CASE FailsTo("ensureNext") /\ owned' = owned
  <2>1. Failed(target)'
    BY <1>1, <1>4, <1>5 DEF Failed, InHand, Missing
  <2> QED
    BY <1>1, <1>2, <1>3, <1>4, <1>5, <2>1, VisitKeepsProgress
       DEF Visiting, Ensuring, Resting, TouchesOnlyTarget, Progress
<1>6. CASE OnUplink(table[target]) /\ GoesTo("ensureNext") /\ owned' = owned \cup {target}
  <2>1. target \in OursInTable
    BY <1>1, <1>6, TargetEntry DEF OursInTable, OnUplink, Entries, LoopInv, ProxyTypeOK, NoEntry
  <2>2. Done(target)'
    BY <1>1, <1>4, <1>6, <2>1 DEF Done, Missing, Dropped
  <2> QED
    BY <1>1, <1>2, <1>3, <1>4, <1>6, <2>2, VisitKeepsProgress
       DEF Visiting, Ensuring, Resting, TouchesOnlyTarget, Progress
<1> QED
  BY <1>5, <1>6, EnsureVerifyStep

LEMMA RemoveListKeeps ==
    ASSUME LoopInv, OwnTable, Seen, Progress, RemoveList
    PROVE  OwnTable' /\ Seen' /\ Progress'
<1> USE DEF VisitFrame, FailsTo, GoesTo
<1>1. /\ VisitFrame /\ UNCHANGED <<table, settled, wanted, target, route>>
      /\ pc = "removeList" /\ owned' \subseteq owned
  BY RemoveListStep DEF RemoveList
<1>2. OwnTable'
  BY <1>1, OwnTableKept
<1>3. /\ InHand /\ Kept(target) /\ target \in Dropped
      /\ target \in owned /\ target \notin wanted
      /\ OursInTable' = OursInTable /\ Missing' = Missing /\ Dropped' = Dropped
  BY <1>1 DEF Progress, InHand, Visiting, OursInTable, Missing, Dropped, LoopInv,
              ProxyTypeOK, Removing
<1>4. target \in OursInTable \/ table[target] = NoEntry
  BY <1>3, TargetEntry
<1>5. Seen'
  BY <1>1, <1>4, RemoveListStep, TargetEntry DEF Seen
<1>6. CASE FailsTo("removeNext") /\ owned' = owned
  <2>1. Failed(target)'
    BY <1>1, <1>3, <1>6 DEF Failed, Kept, Dropped
  <2> QED
    BY <1>1, <1>2, <1>3, <1>5, <1>6, <2>1, VisitKeepsProgress
       DEF Visiting, Ensuring, Resting, TouchesOnlyTarget, Progress
<1>7. CASE GoesTo("removeDelete") /\ owned' = owned
  <2>1. InHand'
    BY <1>1, <1>3, <1>7 DEF InHand, Kept, Removing
  <2> QED
    BY <1>1, <1>2, <1>3, <1>5, <1>7, <2>1, VisitKeepsProgress
       DEF Visiting, Ensuring, Resting, TouchesOnlyTarget, Progress
<1>8. CASE ~OnUplink(table[target]) /\ GoesTo("removeNext") /\ owned' = owned \ {target}
  <2>1. Done(target)'
    BY <1>1, <1>3, <1>8, TargetEntry DEF Done
  <2> QED
    BY <1>1, <1>2, <1>3, <1>5, <1>8, <2>1, VisitKeepsProgress
       DEF Visiting, Ensuring, Resting, TouchesOnlyTarget, Progress
<1> QED
  BY <1>6, <1>7, <1>8, RemoveListStep

LEMMA RemoveDeleteKeeps ==
    ASSUME LoopInv, OwnTable, Seen, Progress, RemoveDelete
    PROVE  OwnTable' /\ Seen' /\ Progress'
<1> USE DEF VisitFrame, FailsTo, GoesTo
<1>1. /\ VisitFrame /\ UNCHANGED <<owned, settled, wanted, target, route>>
      /\ pc = "removeDelete" /\ table[target].by = "us"
  BY RemoveDeleteStep DEF RemoveDelete, Seen
<1>2. /\ InHand /\ Kept(target) /\ target \in Dropped
      /\ target \in owned /\ target \notin wanted
      /\ Missing' = Missing /\ Dropped' = Dropped
      /\ target \in OursInTable
  BY <1>1, TargetEntry
     DEF Progress, InHand, Visiting, Missing, Dropped, LoopInv, ProxyTypeOK
<1>3. CASE UNCHANGED table
  <2>1. OwnTable' /\ Seen' /\ OursInTable' = OursInTable
    BY <1>1, <1>3, OwnTableKept, RemoveDeleteStep DEF Seen, OursInTable
  <2>2. CASE FailsTo("removeNext")
    <3>1. Failed(target)'
      BY <1>1, <1>2, <2>1, <2>2 DEF Failed, Kept, Dropped
    <3> QED
      BY <1>1, <1>2, <1>3, <2>1, <2>2, <3>1, VisitKeepsProgress
         DEF Visiting, Ensuring, Resting, TouchesOnlyTarget, Progress
  <2>3. CASE GoesTo("removeVerify")
    <3>1. InHand'
      BY <1>1, <1>2, <2>1, <2>3 DEF InHand, Kept, Removing
    <3> QED
      BY <1>1, <1>2, <1>3, <2>1, <2>3, <3>1, VisitKeepsProgress
         DEF Visiting, Ensuring, Resting, TouchesOnlyTarget, Progress
  <2> QED
    BY <1>3, <2>2, <2>3, RemoveDeleteStep
<1>4. CASE GoesTo("removeVerify") /\ table' = [table EXCEPT ![target] = NoEntry]
  <2>1. /\ \A a \in Addr : a # target => table'[a] = table[a]
        /\ table'[target] = NoEntry
    BY <1>2, <1>4, TargetEntry DEF LoopInv, ProxyTypeOK
  <2>2. table'[target].by = "nobody" /\ ~OnUplink(table'[target])
    BY <2>1 DEF NoEntry, OnUplink
  <2>3. OwnTable' /\ Seen'
    <3>1. \A a \in Addr : table'[a].by = "us" => OnUplink(table'[a])
      BY <2>1, <2>2 DEF OwnTable
    <3>2. \A a \in owned : table'[a].by # "other"
      BY <2>1, <2>2 DEF OwnTable, LoopInv, ProxyTypeOK
    <3> QED
      BY <1>1, <1>4, <3>1, <3>2 DEF OwnTable, Seen, OnUplink
  <2>4. settled.external = {a \in Addr : OnUplink(table'[a])} \ OursInTable'
    BY <1>2, <2>1, <2>2, TargetEntry DEF Progress, OursInTable
  <2>5. target \notin OursInTable'
    BY <2>2 DEF OursInTable
  <2>6. InHand'
    BY <1>1, <1>2, <1>4, <2>5 DEF InHand, Kept, Removing
  <2> QED
    BY <1>1, <1>2, <1>4, <2>1, <2>3, <2>4, <2>6, VisitKeepsProgress
       DEF Visiting, Ensuring, Resting, TouchesOnlyTarget
<1> QED
  BY <1>3, <1>4, RemoveDeleteStep

LEMMA RemoveVerifyKeeps ==
    ASSUME LoopInv, OwnTable, Seen, Progress, RemoveVerify
    PROVE  OwnTable' /\ Seen' /\ Progress'
<1> USE DEF VisitFrame, FailsTo, GoesTo
<1>1. /\ VisitFrame /\ UNCHANGED <<table, settled, wanted, target, route>>
      /\ pc = "removeVerify" /\ owned' \subseteq owned
  BY RemoveVerifyStep DEF RemoveVerify
<1>2. OwnTable'
  BY <1>1, OwnTableKept
<1>3. Seen'
  BY <1>1, RemoveVerifyStep DEF Seen
<1>4. /\ InHand /\ target \in Dropped
      /\ target \in owned /\ target \notin wanted
      /\ OursInTable' = OursInTable /\ Missing' = Missing /\ Dropped' = Dropped
  BY <1>1 DEF Progress, InHand, Visiting, OursInTable, Missing, Dropped, LoopInv,
              ProxyTypeOK, Removing
<1>5. CASE FailsTo("removeNext") /\ owned' = owned
  <2>1. Failed(target)'
    BY <1>1, <1>4, <1>5 DEF Failed, InHand, Dropped
  <2> QED
    BY <1>1, <1>2, <1>3, <1>4, <1>5, <2>1, VisitKeepsProgress
       DEF Visiting, Ensuring, Resting, TouchesOnlyTarget, Progress
<1>6. CASE ~OnUplink(table[target]) /\ GoesTo("removeNext") /\ owned' = owned \ {target}
  <2>1. Done(target)'
    BY <1>1, <1>4, <1>6, TargetEntry DEF Done
  <2> QED
    BY <1>1, <1>2, <1>3, <1>4, <1>6, <2>1, VisitKeepsProgress
       DEF Visiting, Ensuring, Resting, TouchesOnlyTarget, Progress
<1> QED
  BY <1>5, <1>6, RemoveVerifyStep

\* The step from the last address to the leftovers, and those between addresses.
LEMMA LoopStepsKeep ==
    ASSUME LoopInv, OwnTable, Seen, Progress,
           SyncBegins \/ CloseBegins \/ EnsureNext \/ RemoveNext \/ EnsureDone
    PROVE  OwnTable' /\ Seen' /\ Progress'
<1>1. UNCHANGED <<table, route, owned, settled>>
  BY DEF SyncBegins, CloseBegins, EnsureNext, RemoveNext, EnsureDone, kernel, ghosts
<1>2. OwnTable'
  BY <1>1 DEF OwnTable, OnUplink
<1>3. Seen'
  BY DEF Seen, SyncBegins, CloseBegins, EnsureNext, RemoveNext, EnsureDone
<1>4. OursInTable' = OursInTable /\ \A a \in Addr : Kept(a)' <=> Kept(a)
  BY <1>1 DEF OursInTable, Kept
<1>5. /\ (settled = [owned |-> settled.owned, proxied |-> settled.proxied,
                    external |-> settled.external, wanted |-> settled.wanted,
                    outcome |-> settled.outcome])'
      /\ (settled.outcome # "disturbed")'
      /\ (settled.external = {a \in Addr : OnUplink(table[a])} \ OursInTable)'
      /\ (settled.owned \subseteq Addr)' /\ (settled.proxied \subseteq Addr)'
  BY <1>1, <1>4 DEF Progress
<1>6. CASE SyncBegins \/ CloseBegins
  <2>1. /\ Resting /\ outcome' = "ok" /\ ~Resting' /\ ~Visiting'
        /\ SyncBegins => todo' = wanted' /\ Ensuring'
        /\ CloseBegins => todo' = owned /\ wanted' = {} /\ ~Ensuring'
    BY <1>6 DEF SyncBegins, CloseBegins, Resting, Visiting, Ensuring
  <2>2. \A a \in Addr : Kept(a)
    BY <2>1 DEF Progress
  <2>3. ASSUME NEW a \in Addr, ~Pending(a)' PROVE Done(a)'
    <3>1. CASE SyncBegins
      <4>1. a \notin wanted' /\ a \notin Dropped' /\ a \notin Missing'
        BY <2>1, <2>3, <3>1 DEF Pending, Missing
      <4> QED
        BY <1>4, <2>2, <4>1 DEF Done, Kept
    <3>2. CASE CloseBegins
      <4>1. a \notin owned /\ a \notin Missing'
        BY <2>1, <2>3, <3>2 DEF Pending, Missing
      <4>2. a \notin Dropped'
        BY <1>1, <2>2, <4>1 DEF Dropped, Kept
      <4> QED
        BY <1>4, <2>2, <4>1, <4>2 DEF Done, Kept
    <3> QED
      BY <1>6, <3>1, <3>2
  <2> QED
    BY <1>2, <1>3, <1>4, <1>5, <2>1, <2>2, <2>3 DEF Progress
<1>7. CASE EnsureNext \/ RemoveNext
  <2>1. /\ ~Resting /\ ~Resting' /\ ~Visiting /\ Visiting'
        /\ wanted' = wanted /\ outcome' = outcome
        /\ target' \in todo /\ todo' = todo \ {target'}
        /\ Ensuring' <=> Ensuring
        /\ EnsureNext => Ensuring /\ pc' = "ensureList"
        /\ RemoveNext => ~Ensuring /\ Removing /\ pc' = "removeList"
    BY <1>7 DEF EnsureNext, RemoveNext, Resting, Visiting, Ensuring, Removing
  <2>2. target' \in Addr /\ Pending(target')
    BY <2>1 DEF Pending, LoopInv, ProxyTypeOK
  <2>3. Kept(target')
    BY <2>1, <2>2 DEF Progress
  <2>4. Missing' = Missing /\ Dropped' = Dropped
    BY <1>1, <2>1 DEF Missing, Dropped
  <2>5. InHand'
    <3>1. (Kept(target))'
      BY <1>1, <1>4, <2>2, <2>3 DEF Kept
    <3>2. RemoveNext => target' \in Dropped'
      BY <2>1, <2>3, <2>4 DEF LoopInv, Visits, Kept, Dropped
    <3>3. EnsureNext => ~Removing'
      BY DEF EnsureNext, Removing
    <3> QED
      BY <1>7, <2>1, <3>1, <3>2, <3>3 DEF InHand, Kept
  <2>6. \A a \in Addr : /\ Done(a)' <=> Done(a)
                        /\ Failed(a)' <=> Failed(a)
    BY <1>1, <1>4, <2>1, <2>4 DEF Done, Failed
  <2>7. \A a \in Addr : a # target' => (Pending(a)' <=> Pending(a)) /\ ~Current(a)'
    BY <2>1, <2>4 DEF Pending, Current
  <2>8. Current(target)'
    BY <2>1 DEF Current
  <2>9. ASSUME NEW a \in Addr
        PROVE (IF Pending(a) THEN Kept(a) ELSE Current(a) \/ Done(a) \/ Failed(a))'
    <3>1. IF Pending(a) THEN Kept(a) ELSE Done(a) \/ Failed(a)
      BY <2>1 DEF Progress, Current
    <3>2. CASE a = target'
      BY <1>4, <2>1, <2>2, <2>3, <2>8, <3>2 DEF Current
    <3> QED
      BY <1>4, <2>6, <2>7, <3>1, <3>2
  <2>10. outcome' = "failed" =>
           \E a \in Addr : (~Pending(a) /\ ~Current(a) /\ Failed(a))'
    <3>1. SUFFICES ASSUME outcome = "failed"
          PROVE \E a \in Addr : (~Pending(a) /\ ~Current(a) /\ Failed(a))'
      BY <2>1
    <3>2. PICK a \in Addr : ~Pending(a) /\ ~Current(a) /\ Failed(a)
      BY <2>1, <3>1 DEF Progress
    <3>3. a # target'
      BY <2>2, <3>2
    <3> QED
      BY <2>6, <2>7, <3>2, <3>3
  <2> QED
    BY <1>2, <1>3, <1>5, <2>1, <2>5, <2>9, <2>10 DEF Progress
<1>8. CASE EnsureDone
  <2>1. /\ ~Resting /\ ~Resting' /\ ~Visiting /\ ~Visiting'
        /\ wanted' = wanted /\ outcome' = outcome
        /\ todo = {} /\ todo' = owned \ wanted
        /\ Ensuring /\ ~Ensuring'
    BY <1>8 DEF EnsureDone, Leftovers, Resting, Visiting, Ensuring
  <2>2. Missing' = Missing /\ Dropped' = Dropped
    BY <1>1, <2>1 DEF Missing, Dropped
  <2>3. \A a \in Addr : IF a \in Dropped THEN Kept(a) ELSE Done(a) \/ Failed(a)
    BY <2>1 DEF Progress, Current, Pending
  <2>4. \A a \in Addr : a \in todo' <=> a \in Dropped
    BY <2>1, <2>3 DEF Kept, Done, Failed, Dropped, Missing
  <2>5. \A a \in Addr : /\ Done(a)' <=> Done(a)
                        /\ Failed(a)' <=> Failed(a)
    BY <1>1, <1>4, <2>1, <2>2 DEF Done, Failed
  <2>6. \A a \in Addr : /\ Pending(a)' <=> a \in Dropped
                        /\ Pending(a) <=> a \in Dropped
    BY <2>1, <2>4 DEF Pending
  <2>7. outcome' = "failed" =>
          \E a \in Addr : (~Pending(a) /\ ~Current(a) /\ Failed(a))'
    BY <2>1, <2>5, <2>6 DEF Progress, Current
  <2> QED
    BY <1>2, <1>3, <1>4, <1>5, <2>1, <2>3, <2>5, <2>6, <2>7 DEF Progress
<1> QED
  BY <1>6, <1>7, <1>8

\* A call that returns, or a process that is killed, starts a new account.
LEMMA SettleKeeps ==
    ASSUME LoopInv, OwnTable, Undisturbed, UNCHANGED table,
           NEW targets, NEW result \in {"none", "ok", "failed"}, Settle(targets, result),
           Resting', owned' \subseteq owned
    PROVE  OwnTable' /\ Seen' /\ Progress'
<1>1. OwnTable'
  BY DEF OwnTable, OnUplink
<1>2. Seen' /\ ~Visiting'
  BY DEF Seen, Resting, Visiting
<1>3. OursInTable' = OursInTable
  BY DEF OursInTable
<1>4. settled' = [owned |-> owned', proxied |-> OursInTable,
                  external |-> {a \in Addr : OnUplink(table[a])} \ OursInTable,
                  wanted |-> targets, outcome |-> result]
  BY DEF Settle
<1>5. /\ settled'.owned = owned' /\ settled'.proxied = OursInTable
      /\ settled'.external = {a \in Addr : OnUplink(table[a])} \ OursInTable
      /\ settled'.wanted = targets /\ settled'.outcome = result
  BY <1>4
<1>6. \A a \in Addr : Kept(a)'
  BY <1>3, <1>5 DEF Kept
<1>7. /\ (settled = [owned |-> settled.owned, proxied |-> settled.proxied,
                    external |-> settled.external, wanted |-> settled.wanted,
                    outcome |-> settled.outcome])'
      /\ (settled.outcome # "disturbed")'
      /\ (settled.external = {a \in Addr : OnUplink(table[a])} \ OursInTable)'
      /\ (settled.owned \subseteq Addr)' /\ (settled.proxied \subseteq Addr)'
  BY <1>3, <1>4, <1>5 DEF LoopInv, ProxyTypeOK, OursInTable
<1> QED
  BY <1>1, <1>2, <1>6, <1>7 DEF Progress

LEMMA ProxyInvInit == Init => ProxyInv
<1> SUFFICES ASSUME Init PROVE ProxyInv
  OBVIOUS
<1>1. LoopInv /\ Undisturbed /\ pc = "rest" /\ Resting /\ ~Visiting /\ owned = {}
  BY LoopInvInit DEF Init, Undisturbed, Resting, Visiting
<1>2. \A a \in Addr : table[a].by # "us"
  BY DEF Init, NoEntry
<1>3. OwnTable /\ Seen /\ OursInTable = {}
  BY <1>1, <1>2 DEF OwnTable, Seen, OursInTable
<1>4. settled = [owned |-> {}, proxied |-> {},
                 external |-> {a \in Addr : OnUplink(table[a])},
                 wanted |-> {}, outcome |-> "none"]
  BY DEF Init
<1>5. /\ settled.owned = {} /\ settled.proxied = {} /\ settled.outcome = "none"
      /\ settled.wanted = {}
      /\ settled.external = {a \in Addr : OnUplink(table[a])}
  BY <1>4
<1>6. \A a \in Addr : Kept(a)
  BY <1>1, <1>3, <1>5 DEF Kept
<1>7. Progress
  BY <1>1, <1>3, <1>4, <1>5, <1>6 DEF Progress
<1> QED
  BY <1>1, <1>3, <1>7 DEF ProxyInv, UndisturbedInv, DisturbedInv

LEMMA ProxyInvNext == ProxyInv /\ [Next]_vars => ProxyInv'
<1> SUFFICES ASSUME ProxyInv, [Next]_vars PROVE ProxyInv'
  OBVIOUS
<1>1. LoopInv /\ LoopInv'
  BY LoopInvNext DEF ProxyInv
<1>2. CASE ForeignEntry \/ RouteMoves
  <2>1. foreign' = foreign + 1 /\ settled'.outcome = "disturbed"
    BY <1>2 DEF ForeignEntry, RouteMoves, Unsettled
  <2>2. foreign' # 0
    BY <1>1, <2>1 DEF LoopInv
  <2> QED
    BY <1>1, <2>1, <2>2 DEF ProxyInv, UndisturbedInv, DisturbedInv, Undisturbed
<1>3. CASE ~(ForeignEntry \/ RouteMoves)
  <2>1. foreign' = foreign
    BY <1>3 DEF Next, Own, SyncBegins, EnsureNext, EnsureDone, EnsureList, EnsureRoute,
       EnsureAdd, EnsureVerify, RemoveNext, RemoveList, RemoveDelete, RemoveVerify,
       SyncEnds, CloseBegins, CloseEnds, Crash, Stopped, vars, bounds, Fault, NoFault
  <2>2. ASSUME ~Undisturbed PROVE settled' = settled
    BY <1>3, <2>2 DEF Next, Own, SyncBegins, EnsureNext, EnsureDone, EnsureList,
       EnsureRoute, EnsureAdd, EnsureVerify, RemoveNext, RemoveList, RemoveDelete,
       RemoveVerify, SyncEnds, CloseBegins, CloseEnds, Crash, Stopped, vars, ghosts, Settle
  <2>3. ASSUME Undisturbed PROVE (OwnTable /\ Seen /\ Progress)'
    <3>1. OwnTable /\ Seen /\ Progress
      BY <2>3 DEF ProxyInv, UndisturbedInv
    <3>2. CASE SyncEnds
      <4>1. /\ UNCHANGED <<table, owned>> /\ Settle(wanted, outcome) /\ Resting'
            /\ outcome \in {"ok", "failed"}
        BY <1>1, <3>2 DEF SyncEnds, Resting, kernel, LoopInv, ProxyTypeOK
      <4> QED
        BY <1>1, <2>3, <3>1, <4>1, SettleKeeps
    <3>3. CASE CloseEnds
      <4>1. /\ UNCHANGED <<table, owned>> /\ Settle({}, outcome) /\ Resting'
            /\ outcome \in {"ok", "failed"}
        BY <1>1, <3>3 DEF CloseEnds, Resting, kernel, LoopInv, ProxyTypeOK
      <4> QED
        BY <1>1, <2>3, <3>1, <4>1, SettleKeeps
    <3>4. CASE Crash
      <4>1. UNCHANGED table /\ owned' = {} /\ Settle({}, "none") /\ Resting'
        BY <3>4 DEF Crash, Resting, kernel
      <4> QED
        BY <1>1, <2>3, <3>1, <4>1, SettleKeeps
    <3>5. CASE UNCHANGED vars
      <4>1. /\ UNCHANGED <<table, route, owned, pc, wanted, todo, target, outcome, settled>>
            /\ OursInTable' = OursInTable
        BY <3>5 DEF vars, kernel, sync, ghosts, OursInTable
      <4>2. OwnTable' /\ Seen'
        BY <3>1, <4>1 DEF OwnTable, Seen, OnUplink
      <4>3. Missing' = Missing /\ Dropped' = Dropped
        BY <4>1 DEF Missing, Dropped
      <4>4. \A a \in Addr : /\ Kept(a)' <=> Kept(a)
                            /\ Done(a)' <=> Done(a)
                            /\ Failed(a)' <=> Failed(a)
        BY <4>1, <4>3 DEF Kept, Done, Failed
      <4>5. \A a \in Addr : /\ Pending(a)' <=> Pending(a)
                            /\ Current(a)' <=> Current(a)
        BY <4>1, <4>3 DEF Pending, Current, Ensuring, Visiting
      <4>6. InHand' <=> InHand
        BY <4>1, <4>3 DEF InHand, Kept, Removing
      <4>7. (Resting' <=> Resting) /\ (Visiting' <=> Visiting)
        BY <4>1 DEF Resting, Visiting
      <4>8. /\ (settled = [owned |-> settled.owned, proxied |-> settled.proxied,
                          external |-> settled.external, wanted |-> settled.wanted,
                          outcome |-> settled.outcome])'
            /\ (settled.outcome # "disturbed")'
            /\ (settled.external = {a \in Addr : OnUplink(table[a])} \ OursInTable)'
            /\ (settled.owned \subseteq Addr)' /\ (settled.proxied \subseteq Addr)'
        BY <3>1, <4>1 DEF Progress
      <4> QED
        BY <3>1, <4>1, <4>2, <4>4, <4>5, <4>6, <4>7, <4>8 DEF Progress
    <3> QED
      BY <1>1, <1>3, <3>1, <3>2, <3>3, <3>4, <3>5, EnsureListKeeps, EnsureRouteKeeps,
         EnsureAddKeeps, EnsureVerifyKeeps, RemoveListKeeps, RemoveDeleteKeeps,
         RemoveVerifyKeeps, LoopStepsKeep DEF Next, Own, Stopped
  <2> QED
    BY <1>1, <2>1, <2>2, <2>3
       DEF ProxyInv, UndisturbedInv, DisturbedInv, Undisturbed
<1> QED
  BY <1>2, <1>3

LEMMA ProxyInvHolds == Spec => []ProxyInv
BY ProxyInvInit, ProxyInvNext, PTL DEF Spec

\* As long as nobody else writes the table or moves a route, no entry of this
\* process is anywhere but on the uplink.
THEOREM EntriesStayOnUplink == Spec => []OffUplinkOnlyIfMoved
<1>1. ProxyInv => OffUplinkOnlyIfMoved
  BY DEF ProxyInv, UndisturbedInv, OffUplinkOnlyIfMoved, OwnTable, NeverOffUplink,
         OursInTable
<1> QED
  BY <1>1, ProxyInvHolds, PTL

\* And no command of this process changes an entry that somebody else made.
THEOREM ForeignIsUntouched == Spec => ForeignUntouched
<1>1. ProxyInv /\ [Next]_vars =>
        [Own /\ Undisturbed =>
           \A a \in Addr : table[a].by = "other" => table'[a] = table[a]]_vars
  <2> SUFFICES ASSUME ProxyInv, Own, Undisturbed, NEW a \in Addr, table[a].by = "other"
               PROVE  table'[a] = table[a]
    OBVIOUS
  <2>1. LoopInv /\ OwnTable /\ Seen /\ Progress
    BY DEF ProxyInv, UndisturbedInv
  <2>2. CASE EnsureAdd
    <3>1. table[target].by # "other"
      BY <2>1, <2>2 DEF EnsureAdd, Seen, NoEntry
    <3> QED
      BY <2>1, <2>2, <3>1, EnsureAddStep DEF LoopInv, ProxyTypeOK
  <2>3. CASE RemoveDelete
    <3>1. table[target].by # "other"
      BY <2>1, <2>3 DEF RemoveDelete, Seen
    <3> QED
      BY <2>1, <2>3, <3>1, RemoveDeleteStep DEF LoopInv, ProxyTypeOK
  <2>4. CASE ~EnsureAdd /\ ~RemoveDelete
    BY <2>4 DEF Own, SyncBegins, EnsureNext, EnsureDone, EnsureList, EnsureRoute,
       EnsureVerify, RemoveNext, RemoveList, RemoveVerify, SyncEnds, CloseBegins,
       CloseEnds, kernel
  <2> QED
    BY <2>2, <2>3, <2>4
<1> QED
  BY <1>1, ProxyInvHolds, PTL DEF Spec, ForeignUntouched

-----------------------------------------------------------------------------
(* The refinement.  The addresses that failed in ProxySync's sense are those *)
(* the account says a command failed for.                                    *)

FailedOnes == {a \in wanted \cup settled.owned : Failed(a)}

\* The account of a call that returns is one of the effects ProxySync allows.
LEMMA AccountIsEffect ==
    ASSUME LoopInv, Progress, ~Resting, ~Visiting, ~Ensuring, todo = {}
    PROVE  /\ \E effect \in Proxy!SyncEffects(settled.owned, settled.proxied,
                                              settled.external, wanted, FailedOnes) :
                effect.owned = owned /\ effect.proxied = OursInTable
           /\ outcome = IF FailedOnes = {} THEN "ok" ELSE "failed"
<1>1. \A a \in Addr : Done(a) \/ Failed(a)
  BY DEF Progress, Pending, Current
<1>2. /\ owned \subseteq Addr /\ OursInTable \subseteq Addr /\ wanted \subseteq Addr
      /\ settled.owned \subseteq Addr /\ settled.proxied \subseteq Addr
      /\ Missing \subseteq Addr /\ FailedOnes \subseteq Addr
      /\ outcome \in {"ok", "failed"}
  BY DEF LoopInv, ProxyTypeOK, OursInTable, Progress, Missing, FailedOnes
<1>3. \A a \in Addr : a \in FailedOnes <=> Failed(a)
  BY DEF FailedOnes, Failed
<1> DEFINE undone == {a \in FailedOnes : \/ a \in Missing /\ a \notin OursInTable
                                         \/ a \in Dropped /\ a \in OursInTable}
           effect == [owned |-> (settled.owned \cup (Missing \ FailedOnes))
                                  \ (Dropped \ FailedOnes),
                      proxied |-> (settled.proxied \cup (Missing \ undone))
                                    \ (Dropped \ undone)]
<1>4. effect \in Proxy!SyncEffects(settled.owned, settled.proxied, settled.external,
                                   wanted, FailedOnes)
  <2>1. undone \in SUBSET (FailedOnes \cap (Missing \cup Dropped))
    OBVIOUS
  <2> QED
    BY <2>1 DEF Proxy!SyncEffects, Missing, Dropped
<1>5. effect.owned = owned
  <2>1. \A a \in Addr : a \in owned <=>
          a \in (settled.owned \cup (Missing \ FailedOnes)) \ (Dropped \ FailedOnes)
    <3>1. ASSUME NEW a \in Addr, Failed(a)
          PROVE a \in owned <=>
            a \in (settled.owned \cup (Missing \ FailedOnes)) \ (Dropped \ FailedOnes)
      BY <1>3, <3>1 DEF Failed
    <3>2. ASSUME NEW a \in Addr, ~Failed(a)
          PROVE a \in owned <=>
            a \in (settled.owned \cup (Missing \ FailedOnes)) \ (Dropped \ FailedOnes)
      BY <1>1, <1>3, <3>2 DEF Done
    <3> QED
      BY <3>1, <3>2
  <2> QED
    BY <1>2, <2>1
<1>6. effect.proxied = OursInTable
  <2>1. \A a \in Addr : a \in OursInTable <=> a \in effect.proxied
    <3>1. ASSUME NEW a \in Addr, Failed(a)
          PROVE a \in OursInTable <=> a \in effect.proxied
      <4>1. a \in undone <=> \/ a \in Missing /\ a \notin OursInTable
                             \/ a \in Dropped /\ a \in OursInTable
        BY <1>3, <3>1
      <4>2. a \in Missing => a \notin Dropped /\ a \notin settled.proxied
        BY DEF Missing, Dropped
      <4>3. a \in effect.proxied <=> /\ a \in settled.proxied \/ (a \in Missing /\ a \notin undone)
                                     /\ ~(a \in Dropped /\ a \notin undone)
        OBVIOUS
      <4> HIDE DEF undone, effect
      <4>4. /\ a \in OursInTable => a \in settled.proxied \/ a \in Missing
            /\ a \in settled.proxied /\ a \notin Dropped => a \in OursInTable
        BY <3>1 DEF Failed
      <4> QED
        BY <4>1, <4>2, <4>3, <4>4
    <3>2. ASSUME NEW a \in Addr, ~Failed(a)
          PROVE a \in OursInTable <=> a \in effect.proxied
      BY <1>1, <1>3, <3>2 DEF Done
    <3> QED
      BY <3>1, <3>2
  <2> QED
    BY <1>2, <2>1
<1>7. outcome = IF FailedOnes = {} THEN "ok" ELSE "failed"
  <2>1. outcome = "failed" => FailedOnes # {}
    BY <1>3 DEF Progress
  <2>2. outcome = "ok" => FailedOnes = {}
    BY DEF FailedOnes, Failed
  <2> QED
    BY <1>2, <2>1, <2>2
<1> HIDE DEF effect
<1> QED
  BY <1>4, <1>5, <1>6, <1>7

\* What a kill in the middle of anything can have changed since.
LEMMA KillIsAccounted ==
    ASSUME LoopInv, OwnTable, Progress
    PROVE  /\ OursInTable \subseteq Addr /\ OursInTable \cap settled.external = {}
           /\ settled.proxied \ OursInTable \subseteq settled.owned
<1>1. OursInTable \cap settled.external = {}
  BY DEF Progress
<1>2. ASSUME NEW a \in Addr, a \in settled.proxied, a \notin OursInTable
      PROVE a \in settled.owned
  <2>1. CASE Kept(a)
    BY <1>2, <2>1 DEF Kept
  <2>2. CASE Done(a) \/ Failed(a)
    BY <1>2, <2>2 DEF Done, Failed, Dropped
  <2>3. CASE Current(a)
    <3>1. Visiting /\ a = target /\ InHand
      BY <2>3 DEF Current, Progress
    <3>2. CASE pc \in {"ensureList", "ensureRoute", "ensureAdd", "removeList", "removeDelete"}
      BY <1>2, <3>1, <3>2 DEF InHand, Kept
    <3>3. CASE pc \in {"ensureVerify", "removeVerify"}
      BY <1>2, <3>1, <3>3 DEF InHand, Removing, Missing, Dropped
    <3> QED
      BY <3>1, <3>2, <3>3 DEF Visiting
  <2> QED
    BY <2>1, <2>2, <2>3 DEF Progress
<1> QED
  BY <1>1, <1>2 DEF Progress, OursInTable

LEMMA ProxyStepRefines ==
    ASSUME ProxyInv, [Next]_vars
    PROVE  [Proxy!ProxyNext]_Proxy!proxyVars
<1> USE DEF Proxy!proxyVars
<1>1. LoopInv
  BY DEF ProxyInv
<1>2. CASE settled' = settled
  BY <1>2
<1>3. CASE ForeignEntry \/ RouteMoves
  <2>1. settled' = [owned |-> {}, proxied |-> {}, external |-> {}, wanted |-> {},
                    outcome |-> "disturbed"]
    BY <1>3 DEF ForeignEntry, RouteMoves, Unsettled
  <2> QED
    BY <2>1 DEF Proxy!ProxyNext, Proxy!Disturb
<1>4. ASSUME Undisturbed, NEW targets, NEW result, Settle(targets, result)
      PROVE /\ settled'.owned = owned' /\ settled'.proxied = OursInTable
            /\ settled'.external = {a \in Addr : OnUplink(table[a])} \ OursInTable
            /\ settled'.wanted = targets /\ settled'.outcome = result
  BY <1>4 DEF Settle
<1>5. ASSUME Undisturbed, SyncEnds \/ CloseEnds PROVE Proxy!ProxyNext
  <2>1. OwnTable /\ Seen /\ Progress
    BY <1>5 DEF ProxyInv, UndisturbedInv
  <2>2. /\ ~Resting /\ ~Visiting /\ ~Ensuring /\ todo = {}
        /\ owned' = owned /\ Settle(wanted, outcome)
    BY <1>1, <1>5 DEF SyncEnds, CloseEnds, Resting, Visiting, Ensuring, LoopInv, Visits
  <2>3. wanted \in SUBSET Addr /\ FailedOnes \in SUBSET (wanted \cup settled.owned)
    BY <1>1 DEF LoopInv, ProxyTypeOK, FailedOnes
  <2>4. Proxy!Sync(wanted)
    <3>1. settled.outcome # "disturbed" /\ settled'.external = settled.external
      BY <1>4, <1>5, <2>1, <2>2 DEF Progress
    <3> QED
      BY <1>1, <1>4, <1>5, <2>1, <2>2, <2>3, <3>1, AccountIsEffect DEF Proxy!Sync
  <2> QED
    BY <2>3, <2>4 DEF Proxy!ProxyNext
<1>6. ASSUME Undisturbed, Crash PROVE Proxy!ProxyNext
  <2>1. OwnTable /\ Seen /\ Progress
    BY <1>6 DEF ProxyInv, UndisturbedInv
  <2>2. owned' = {} /\ Settle({}, "none")
    BY <1>6 DEF Crash
  <2> DEFINE made == OursInTable \ settled.proxied
             deleted == settled.proxied \ OursInTable
  <2>3. made \in SUBSET (Addr \ settled.external) /\ deleted \in SUBSET settled.owned
    BY <1>1, <2>1, KillIsAccounted
  <2>4. settled'.proxied = (settled.proxied \cup made) \ deleted
    BY <1>4, <1>6, <2>2
  <2>5. /\ settled'.owned = {} /\ settled'.wanted = {} /\ settled'.outcome = "none"
        /\ settled'.external = settled.external /\ settled.outcome # "disturbed"
    BY <1>4, <1>6, <2>1, <2>2 DEF Progress
  <2> HIDE DEF made, deleted
  <2> QED
    BY <2>3, <2>4, <2>5 DEF Proxy!ProxyNext, Proxy!Kill
<1>7. ASSUME ~Undisturbed, SyncEnds \/ CloseEnds \/ Crash PROVE settled' = settled
  BY <1>7 DEF SyncEnds, CloseEnds, Crash, Settle
<1>8. CASE ~(ForeignEntry \/ RouteMoves \/ SyncEnds \/ CloseEnds \/ Crash)
  <2>1. settled' = settled
    BY <1>1, <1>8, EnsureListStep, EnsureRouteStep, EnsureAddStep, EnsureVerifyStep,
       RemoveListStep, RemoveDeleteStep, RemoveVerifyStep
       DEF Next, Own, VisitFrame, SyncBegins, EnsureNext, EnsureDone, RemoveNext,
           CloseBegins, Stopped, vars, ghosts
  <2> QED
    BY <1>2, <2>1
<1> QED
  BY <1>2, <1>3, <1>5, <1>6, <1>7, <1>8

\* Command by command, the responder implements ProxySync: whichever commands
\* fail and wherever it is killed, one call of Sync or Close has one of the
\* effects ProxySync names, until somebody else writes the table.
THEOREM ImplementsProxySync == Spec => RefinesProxySync
<1>1. Init => Proxy!ProxyInit
  <2> SUFFICES ASSUME Init PROVE Proxy!ProxyInit
    OBVIOUS
  <2>1. settled = [owned |-> {}, proxied |-> {},
                   external |-> {a \in Addr : OnUplink(table[a])},
                   wanted |-> {}, outcome |-> "none"]
    BY DEF Init
  <2> QED
    BY <2>1 DEF Proxy!ProxyInit
<1>2. ProxyInv /\ [Next]_vars => [Proxy!ProxyNext]_Proxy!proxyVars
  BY ProxyStepRefines
<1> QED
  BY <1>1, <1>2, ProxyInvHolds, PTL DEF Spec, RefinesProxySync, Proxy!ProxySpec

\* So what ProxySync promises of its calls holds of the real table: a Sync that
\* returned nil has left every target proxied and owns nothing else.
Promises == INSTANCE ProxySyncProofs
              WITH owned <- settled.owned, proxied <- settled.proxied,
                   external <- settled.external,
                   wanted <- settled.wanted, outcome <- settled.outcome

THEOREM CommandsKeepPromise == Spec => []Promises!Promise
<1>1. RefinesProxySync => Promises!ProxySpec
  BY DEF RefinesProxySync, Proxy!ProxySpec, Promises!ProxySpec, Proxy!ProxyInit,
         Promises!ProxyInit, Proxy!ProxyNext, Promises!ProxyNext, Proxy!Sync,
         Promises!Sync, Proxy!Kill, Promises!Kill, Proxy!Disturb, Promises!Disturb,
         Proxy!SyncEffects, Promises!SyncEffects, Proxy!proxyVars, Promises!proxyVars
<1> QED
  BY <1>1, ImplementsProxySync, Promises!ProxyKeepsPromise, PTL
====
