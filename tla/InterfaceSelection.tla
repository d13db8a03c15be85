---- MODULE InterfaceSelection ----
(***************************************************************************)
(* How a host gets its one interface: the candidate list (Candidates) and  *)
(* what each platform makes of it (LinuxSelection, BSDSelection).          *)
(***************************************************************************)
EXTENDS LinuxSelection, BSDSelection

vars == <<resolveVars, linuxVars, unrouted>>

Init == CandidatesInit /\ LinuxInit /\ BSDInit

Select == \/ Resolve /\ UNCHANGED <<linuxVars, unrouted>>
          \/ LinuxSelect /\ UNCHANGED unrouted
          \/ BSDSelect /\ UNCHANGED linuxVars

Ended == pc \in {"selected", "failed"} /\ UNCHANGED vars

Next == Select \/ (NetworkChanges /\ UNCHANGED <<linuxVars, unrouted>>) \/ Ended

Spec == Init /\ [][Next]_vars

\* Every system call and command returns.
FairSpec == Spec /\ WF_vars(Select)

-----------------------------------------------------------------------------
Reasons == {"requested", "default-ipv6-route", "interface-ipv6-address", "interface-scan"}

(* Types, and a list in which no interface appears twice. *)
SelectionTypeOK ==
    /\ Consistent
    /\ \A k \in 1..Len(candidates) : /\ candidates[k].index \in Iface
                                     /\ candidates[k].reason \in (SUBSET Reasons) \ {{}}
    /\ Len(candidates) <= Len(Order)
    /\ at \in 1..(Len(Order) + 1)
    /\ attempt \in 0..(MaxRetries - 1)
    /\ gatewayIP \in Router \cup {None}
    /\ open \subseteq 1..Len(candidates)
    /\ selected \in 0..Len(candidates)
    /\ pinned \subseteq Iface \X Router
    /\ unrouted \subseteq Target

Resolved == pc \notin {"list", "route", "byName", "byIndex", "address"}

Position(i) == CHOOSE k \in 1..Len(Order) : Order[k] = i

\* Why an interface is a candidate, most important reason first.
Rank(i) == IF i = Requested /\ i \in ListedUsable THEN 0
           ELSE IF i = routed THEN 1
           ELSE IF i \in withAddress THEN 2 ELSE 3

Before(i, j) == \/ Rank(i) < Rank(j)
                \/ Rank(i) = Rank(j) /\ Position(i) < Position(j)

\* The candidates are exactly the usable listed interfaces and the one of the
\* default route, ordered by their best reason and then as the kernel lists
\* them, although they are put together from four passes over a changing host
\* (ifname.go:42-43, "keeps the candidate ordering deterministic").
CandidatesInOrder ==
    Resolved /\ pc # "failed" =>
      /\ {candidates[k].index : k \in 1..Len(candidates)}
           = ListedUsable \cup ({routed} \ {None})
      /\ \A k, l \in 1..Len(candidates) :
           k < l => Before(candidates[k].index, candidates[l].index)

\* However the selection ends on Linux, exactly the chosen socket is left open.
OneSocketLeft == /\ pc = "selected" /\ platform = "linux" => open = {selected}
                 /\ pc = "failed" => open = {}

\* responder.go:45-47: on Linux an interface asked for by name and usable when
\* the interfaces were listed is the one chosen as soon as it can be
\* initialized, with or without a gateway and wherever the default route leads.
RequestedIsAuthoritative ==
    pc = "selected" /\ platform = "linux" /\ Requested \in ListedUsable
      => \/ candidates[selected].index = Requested
         \/ \A k \in 1..Len(ready) : candidates[ready[k].at].index # Requested

\* Looking at a candidate changes the host only where it is then used: the
\* gateway's neighbor entry is pinned on no interface but the selected one.
PinnedOnlyWhereSelected ==
    pc \in {"selected", "failed"} =>
      \A n \in pinned : selected # 0 /\ n[1] = candidates[selected].index

\* hostinfo.go:114-117: the gateway taken is one no other default route of the
\* interface is preferred to, in whatever order the kernel lists the routes and
\* whatever else it lists.
PreferredGateway ==
    [][pc = "gateway" /\ gatewayIP' # None =>
         \E route \in routes[Candidate] :
            /\ route.gw = gatewayIP'
            /\ \A other \in routes[Candidate] : route.priority <= other.priority]_vars

Carries(i) == isBSDNDPProxyUplink(i) /\ \A t \in Target : targetVia[t] = i

\* The earliest candidate that carries every target, 0 if there is none.
FirstUplink ==
    LET fit == {k \in 1..Len(candidates) : Carries(candidates[k].index)}
    IN IF fit = {} THEN 0 ELSE CHOOSE k \in fit : \A l \in fit : k <= l

\* README.md:75: on macOS and the BSDs a bridge, tunnel or VM interface is never
\* chosen; and on a host where nothing changes or fails the choice is the
\* first candidate that carries every target, with no choice when none does.
UplinkCarriesTargets ==
    platform = "bsd" =>
      /\ pc = "selected" => isBSDNDPProxyUplink(candidates[selected].index)
      /\ pc \in {"selected", "failed"} /\ changes = 0 /\ faults = 0 => selected = FirstUplink

\* hostinfo.go:15-17: the probe is bounded, so the selection ends.
SelectionEnds == <>(pc \in {"selected", "failed"})
====
