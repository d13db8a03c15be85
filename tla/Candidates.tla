---- MODULE Candidates ----
(***************************************************************************)
(* The list of interfaces worth trying (resolveInterfaceCandidates,        *)
(* ifname.go): main.go builds it before anything else runs, from the       *)
(* interface named with -i, the default route and a scan.                  *)
(*                                                                         *)
(* Links, addresses, routes and neighbors change while this runs, at boot  *)
(* above all: each question to the kernel is a step of its own.            *)
(***************************************************************************)
EXTENDS NDPOutput, GatewayRoutes, FiniteSets

CONSTANTS Order,        \* the interfaces in the order the kernel lists them
          Requested,    \* the interface named with -i, or None for auto
          Target,       \* macOS and BSD: the targets known at startup
          MaxChanges,   \* bound: changes of the host's network
          MaxFaults     \* bound: system calls and commands that fail

Iface == {Order[k] : k \in 1..Len(Order)}

ASSUME CandidatesAssumption ==
    /\ Order \in Seq(Iface)
    /\ \A k, l \in 1..Len(Order) : Order[k] = Order[l] => k = l
    /\ None \notin Iface
    /\ Requested \in Iface \cup {None}
    /\ IsFiniteSet(Target)
    /\ MaxChanges \in Nat /\ MaxFaults \in Nat

VARIABLES platform,    \* "linux", or "bsd" for macOS and the BSDs
          link,        \* interface |-> "absent", "up", or "down": any unusable one
          addressed,   \* interfaces with a usable IPv6 address
          via,         \* where a packet to 2000:: would leave, or None
          targetVia,   \* target |-> where a packet to it would leave, or None
          routes,      \* interface |-> its default routes over a gateway
          neighbor,    \* <<interface, router>> |-> the neighbor entry
          pc,          \* the next question, "selected" or "failed"
          listing,     \* link as it was when the interfaces were listed
          candidates,  \* sequence of interfaces, each with its reasons
          at,          \* position in Order, then in candidates
          selected,    \* the chosen position, 0 until then
          routed, withAddress,  \* the kernel's answers so far (not in code)
          changes, faults       \* counters for the bounds above

world == <<platform, link, addressed, via, targetVia, routes, neighbor>>
found == <<listing, candidates, routed, withAddress>>
resolveVars == <<world, pc, found, at, selected, changes, faults>>

\* What a host can look like: only links that are up carry routes.
Consistent ==
    /\ \A i \in addressed : link[i] # "absent"
    /\ \A i \in {via} \cup {targetVia[t] : t \in Target} \cup {j \in Iface : routes[j] # {}} :
         i # None => link[i] = "up"

\* The routes over gateways matter on Linux, those of targets on macOS and BSD.
\* An interface that is absent at first is listed no more than one that is down.
CandidatesInit ==
    /\ platform \in {"linux", "bsd"}
    /\ link \in [Iface -> {"down", "up"}]
    /\ addressed \in SUBSET Iface
    /\ via \in Iface \cup {None}
    /\ targetVia \in [Target -> {None} \cup IF platform = "bsd" THEN Iface ELSE {}]
    /\ routes \in [Iface -> {{}} \cup IF platform = "linux" THEN {DefaultRoute} ELSE {}]
    /\ Consistent
    /\ neighbor = [n \in Iface \X Router |-> "none"]
    /\ pc = "list"
    /\ listing = [i \in Iface |-> "absent"]
    /\ candidates = <<>>
    /\ at = 1 /\ selected = 0
    /\ routed = None /\ withAddress = {}
    /\ changes = 0 /\ faults = 0

Goes(next) == pc' = next
Fault == faults < MaxFaults /\ faults' = faults + 1

Listed(list, i) == \E k \in 1..Len(list) : list[k].index = i

\* A bug: a known interface is added again instead of gaining a reason.
addAgain(list, i, reason) == Append(list, [index |-> i, reason |-> {reason}])

addInterfaceCandidate(list, i, reason) ==
    IF Listed(list, i)
    THEN [k \in 1..Len(list) |->
            IF list[k].index = i THEN [index |-> i, reason |-> list[k].reason \cup {reason}]
                                 ELSE list[k]]
    ELSE Append(list, [index |-> i, reason |-> {reason}])

ListedUsable == {i \in Iface : listing[i] = "up"}

ListInterfaces ==
    /\ pc = "list"
    /\ \/ Fault /\ Goes("failed") /\ UNCHANGED <<listing, candidates>>
       \/ /\ listing' = link
          /\ candidates' = IF Requested # None /\ link[Requested] = "up"
                           THEN addInterfaceCandidate(<<>>, Requested, "requested")
                           ELSE <<>>
          /\ Goes("route")
          /\ UNCHANGED faults
    /\ UNCHANGED <<world, at, selected, routed, withAddress, changes>>

\* What the kernel, or the route command, says of the way to 2000::.
DefaultRouteAnswers == IF platform = "linux" \/ via = None THEN {via}
                                                         ELSE RouteInterfaces(via)

\* defaultIPv6RouteIndexes; without an answer the scan goes on.
LookUpRoute ==
    /\ pc = "route"
    /\ \/ Fault /\ routed' = None /\ Goes("address")
       \/ /\ routed' \in DefaultRouteAnswers
          /\ Goes(IF routed' = None THEN "address"
                  ELSE IF platform = "linux" THEN "byIndex" ELSE "byName")
          /\ UNCHANGED faults
    /\ UNCHANGED <<world, listing, candidates, withAddress, at, selected, changes>>

\* The route command names an interface, which has to exist still.
LookUpName ==
    /\ pc = "byName"
    /\ IF link[routed] # "absent" THEN Goes("byIndex") /\ UNCHANGED routed
                                  ELSE Goes("address") /\ routed' = None
    /\ UNCHANGED <<world, listing, candidates, withAddress, at, selected, changes, faults>>

\* InterfaceByIndex asks again: the link may have gone or come since the list.
LookUpIndex ==
    /\ pc = "byIndex"
    /\ IF link[routed] = "up"
       THEN /\ candidates' = addInterfaceCandidate(candidates, routed, "default-ipv6-route")
            /\ UNCHANGED routed
       ELSE routed' = None /\ UNCHANGED candidates
    /\ Goes("address")
    /\ UNCHANGED <<world, listing, withAddress, at, selected, changes, faults>>

\* interfaceHasIPv6Address, one usable interface of the list at a time; an
\* interface whose addresses cannot be read counts as having none.
LookUpAddress ==
    LET i == Order[at]
    IN /\ pc = "address"
       /\ at <= Len(Order)
       /\ \/ /\ i \in ListedUsable /\ i \in addressed
             /\ candidates' = addInterfaceCandidate(candidates, i, "interface-ipv6-address")
             /\ withAddress' = withAddress \cup {i}
             /\ UNCHANGED faults
          \/ /\ (i \notin ListedUsable \cap addressed /\ UNCHANGED faults) \/ Fault
             /\ UNCHANGED <<candidates, withAddress>>
       /\ at' = at + 1
       /\ UNCHANGED <<world, pc, listing, routed, selected, changes>>

\* The last pass asks nothing more: the usable interfaces as they were listed.
Scanned[k \in 0..Len(Order)] ==
    IF k = 0 THEN candidates
    ELSE IF Order[k] \in ListedUsable
         THEN addInterfaceCandidate(Scanned[k - 1], Order[k], "interface-scan")
         ELSE Scanned[k - 1]

ScanInterfaces ==
    /\ pc = "address"
    /\ at > Len(Order)
    /\ candidates' = Scanned[Len(Order)]
    /\ at' = 1
    /\ Goes(IF candidates' = <<>> THEN "failed"
            ELSE IF platform = "linux" THEN "open" ELSE "uplink")
    /\ UNCHANGED <<world, listing, routed, withAddress, selected, changes, faults>>

Resolve == ListInterfaces \/ LookUpRoute \/ LookUpName \/ LookUpIndex
             \/ LookUpAddress \/ ScanInterfaces

Candidate == candidates[at].index

-----------------------------------------------------------------------------
(* The host's network changes: links come and go, router advertisements add *)
(* and withdraw routes, neighbors answer.                                   *)

LinkChanges ==
    /\ \E i \in Iface : \E s \in {"absent", "down", "up"} \ {link[i]} :
         link' = [link EXCEPT ![i] = s]
    /\ addressed' = {i \in addressed : link'[i] # "absent"}
    /\ routes' = [i \in Iface |-> IF link'[i] = "up" THEN routes[i] ELSE {}]
    /\ via' = IF via # None /\ link'[via] # "up" THEN None ELSE via
    /\ targetVia' = [t \in Target |-> IF targetVia[t] # None /\ link'[targetVia[t]] # "up"
                                      THEN None ELSE targetVia[t]]
    /\ UNCHANGED neighbor

UpOrNone == {None} \cup {i \in Iface : link[i] = "up"}

RoutesChange ==
    /\ via' \in UpOrNone
    /\ \/ /\ platform = "linux"
          /\ \E i \in UpOrNone \ {None} : \E some \in SUBSET DefaultRoute :
               routes' = [routes EXCEPT ![i] = some]
          /\ UNCHANGED targetVia
       \/ /\ platform = "bsd"
          /\ \E t \in Target : \E i \in UpOrNone : targetVia' = [targetVia EXCEPT ![t] = i]
          /\ UNCHANGED routes
    /\ UNCHANGED <<link, addressed, neighbor>>

AddressesChange ==
    /\ \E i \in Iface : /\ link[i] # "absent"
                        /\ addressed' \in {addressed \cup {i}, addressed \ {i}}
    /\ UNCHANGED <<link, via, targetVia, routes, neighbor>>

NeighborAnswers ==
    /\ platform = "linux"
    /\ \E n \in Iface \X Router, s \in {"none", "reachable", "permanent"} :
         neighbor' = [neighbor EXCEPT ![n] = s]
    /\ UNCHANGED <<link, addressed, via, targetVia, routes>>

NetworkChanges ==
    /\ changes < MaxChanges
    /\ changes' = changes + 1
    /\ LinkChanges \/ RoutesChange \/ AddressesChange \/ NeighborAnswers
    /\ UNCHANGED <<platform, pc, found, at, selected, faults>>
====
