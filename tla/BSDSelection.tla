---- MODULE BSDSelection ----
(***************************************************************************)
(* The choice among the candidates on macOS and the BSDs                   *)
(* (prepareBSDProxyResponder, bsd_ndp_proxy.go): the first one that is no  *)
(* virtual interface and carries every target, asked for one target after  *)
(* another with the route command.                                         *)
(***************************************************************************)
EXTENDS Candidates

CONSTANT Virtual  \* the interfaces whose names isBSDNDPProxyUplink excludes

ASSUME VirtualAssumption == Virtual \subseteq Iface

VARIABLE unrouted  \* the targets the current candidate has yet to be checked for

BSDInit == unrouted = {}

isBSDNDPProxyUplink(i) == i \notin Virtual

NextUplink == Goes("uplink") /\ at' = at + 1 /\ unrouted' = {}

\* A bug: only one target's route is checked.
OneTarget == {CHOOSE t \in Target : TRUE}

ToCheck == Target

\* newBSDProxyResponder fails without root, a MAC address or the ndp command.
TryUplink ==
    /\ pc = "uplink"
    /\ at <= Len(candidates)
    /\ \/ /\ isBSDNDPProxyUplink(Candidate)
          /\ Goes("targets")
          /\ unrouted' = ToCheck
          /\ UNCHANGED <<at, faults>>
       \/ /\ (~isBSDNDPProxyUplink(Candidate) /\ UNCHANGED faults) \/ Fault
          /\ NextUplink
    /\ UNCHANGED <<world, found, selected, changes>>

\* checkTargetRoutes stops at the first target that fails.
CheckTarget ==
    /\ pc = "targets"
    /\ \E t \in unrouted :
         \/ /\ \E ifname \in RouteInterfaces(targetVia[t]) :
                 IF ifname = Candidate
                 THEN unrouted' = unrouted \ {t} /\ UNCHANGED <<pc, at>>
                 ELSE NextUplink
            /\ UNCHANGED faults
         \/ Fault /\ NextUplink
    /\ UNCHANGED <<world, found, selected, changes>>

TakeUplink ==
    /\ pc = "targets"
    /\ unrouted = {}
    /\ selected' = at
    /\ Goes("selected")
    /\ UNCHANGED <<world, found, at, unrouted, changes, faults>>

NoUplink ==
    /\ pc = "uplink"
    /\ at > Len(candidates)
    /\ Goes("failed")
    /\ UNCHANGED <<world, found, at, selected, unrouted, changes, faults>>

BSDSelect == TryUplink \/ CheckTarget \/ TakeUplink \/ NoUplink
====
