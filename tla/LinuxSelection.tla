---- MODULE LinuxSelection ----
(***************************************************************************)
(* The choice among the candidates on Linux: the packet socket and gateway *)
(* of one candidate after another (tryResponderCandidate, gatherHostInfo), *)
(* until one settles it (prepareResponderWith, responder.go).              *)
(***************************************************************************)
EXTENDS Candidates

CONSTANT MaxRetries  \* maxGatewayRouteRetries and maxGatewayRetries: both 8

ASSUME RetriesAssumption == MaxRetries \in Nat \ {0}

VARIABLES attempt,    \* retry counter of gatherHostInfo
          gatewayIP,  \* hi.GatewayIP of the candidate being looked at
          open,       \* positions in candidates whose packet socket is open
          ready,      \* initialized candidates: position and gateway, in order
          pinned      \* the neighbors this process has set to NOARP

linuxVars == <<attempt, gatewayIP, open, ready, pinned>>

LinuxInit == /\ attempt = 0 /\ gatewayIP = None
             /\ open = {} /\ ready = <<>> /\ pinned = {}

More == IF at < Len(candidates) THEN "open" ELSE "choose"

OpenSocket ==
    /\ pc = "open"
    /\ \/ /\ link[Candidate] # "absent"
          /\ open' = open \cup {at}
          /\ Goes("filter")
          /\ UNCHANGED <<at, faults>>
       \/ /\ (link[Candidate] = "absent" /\ UNCHANGED faults) \/ Fault
          /\ Goes(More) /\ at' = at + 1
          /\ UNCHANGED open
    /\ UNCHANGED <<world, found, attempt, gatewayIP, ready, selected, pinned, changes>>

\* A bug: the socket stays open when its filter is refused.
CloseNothing == open

CloseSocket == open \ {at}

SetFilter ==
    /\ pc = "filter"
    /\ attempt' = 0 /\ gatewayIP' = None
    /\ \/ Goes("gateway") /\ UNCHANGED <<open, at, faults>>
       \/ Fault /\ open' = CloseSocket /\ Goes(More) /\ at' = at + 1
    /\ UNCHANGED <<world, found, ready, selected, pinned, changes>>

(* gatherHostInfo never fails: what it cannot find out it leaves out. *)

Initialized(gw) == /\ ready' = Append(ready, [at |-> at, gateway |-> gw])
                   /\ Goes("decide")

\* A bug: a round is not counted.
AttemptUncounted == attempt

NextAttempt == attempt + 1

OutOfRetries == NextAttempt >= MaxRetries

\* LinkByIndex and RouteList, repeated until a default gateway shows up.
AskGateway ==
    /\ pc = "gateway"
    /\ \/ /\ \E answer \in GatewayAnswers :
               answer[1] = routes[Candidate] /\ gatewayIP' \in answer[2]
          /\ \/ /\ gatewayIP' # None
                /\ Goes("neighbor") /\ attempt' = 0
                /\ UNCHANGED ready
             \/ /\ gatewayIP' = None /\ ~OutOfRetries
                /\ attempt' = NextAttempt
                /\ UNCHANGED <<pc, ready>>
             \/ /\ gatewayIP' = None /\ OutOfRetries
                /\ Initialized(None)
                /\ UNCHANGED attempt
          /\ UNCHANGED faults
       \/ Fault /\ Initialized(None) /\ UNCHANGED <<attempt, gatewayIP>>
    /\ UNCHANGED <<world, found, at, open, selected, pinned, changes>>

Neighbor == <<Candidate, gatewayIP>>

\* NeighList: an answering neighbor ends the wait and is pinned next, a
\* permanent one ends it; without either, a probe and another round.
AskNeighbor ==
    /\ pc = "neighbor"
    /\ \/ /\ neighbor[Neighbor] \in {"reachable", "noarp"}
          /\ Goes("pin")
          /\ UNCHANGED <<attempt, ready, faults>>
       \/ /\ neighbor[Neighbor] = "none" /\ ~OutOfRetries
          /\ attempt' = NextAttempt
          /\ UNCHANGED <<pc, ready, faults>>
       \/ /\ \/ /\ neighbor[Neighbor] = "permanent" \/ (neighbor[Neighbor] = "none" /\ OutOfRetries)
                /\ UNCHANGED faults
             \/ Fault
          /\ Initialized(gatewayIP)
          /\ UNCHANGED attempt
    /\ UNCHANGED <<world, found, at, gatewayIP, open, selected, pinned, changes>>

\* NeighSet; its failure is only logged.
PinNeighbor ==
    /\ pc = "pin"
    /\ \/ /\ neighbor' = [neighbor EXCEPT ![Neighbor] = "noarp"]
          /\ pinned' = pinned \cup {Neighbor}
          /\ UNCHANGED faults
       \/ Fault /\ UNCHANGED <<neighbor, pinned>>
    /\ Initialized(gatewayIP)
    /\ UNCHANGED <<platform, link, addressed, via, targetVia, routes, found, at,
                   attempt, gatewayIP, open, selected, changes>>

-----------------------------------------------------------------------------
(* prepareResponderWith *)

IsRequested == "requested" \in candidates[at].reason
HasGateway == ready[Len(ready)].gateway # None

\* A bug: an interface asked for by name has to have a gateway too.
SettledByGateway == HasGateway

\* A bug: every candidate is opened before one is chosen.
SettledByRequest == IsRequested

Settled == IsRequested \/ HasGateway

\* finalizeResponderRuntime closes the sockets of the other ready candidates.
Finalize(position) ==
    /\ selected' = position
    /\ open' = open \ ({ready[k].at : k \in 1..Len(ready)} \ {position})
    /\ Goes("selected")

Decide ==
    /\ pc = "decide"
    /\ IF Settled
       THEN Finalize(at) /\ UNCHANGED at
       ELSE Goes(More) /\ at' = at + 1 /\ UNCHANGED <<open, selected>>
    /\ UNCHANGED <<world, found, attempt, gatewayIP, ready, pinned, changes, faults>>

\* The first with a gateway, else the first.
chooseResponderRuntime ==
    LET withGateway == {k \in 1..Len(ready) : ready[k].gateway # None}
    IN IF withGateway = {} THEN Head(ready).at
       ELSE ready[CHOOSE k \in withGateway : \A l \in withGateway : k <= l].at

Choose ==
    /\ pc = "choose"
    /\ IF ready = <<>> THEN Goes("failed") /\ UNCHANGED <<open, selected>>
                       ELSE Finalize(chooseResponderRuntime)
    /\ UNCHANGED <<world, found, at, attempt, gatewayIP, ready, pinned, changes, faults>>

LinuxSelect == OpenSocket \/ SetFilter \/ AskGateway \/ AskNeighbor \/ PinNeighbor
                 \/ Decide \/ Choose
====
