---- MODULE NDPFrames ----
(***************************************************************************)
(* The frames of ndp.go: the solicitations that are captured and what is   *)
(* sent for a target.  All carry the MAC address of the host; what another *)
(* node learns from one is the address it has to claim that MAC for.       *)
(***************************************************************************)
CONSTANTS Unspecified,    \* the address ::
          Unadvertisable  \* static targets that are multicast or unspecified

\* NeighSolicitation: who asks (:: while it checks its own address for
\* duplicates), for what, and whether every node was asked or only this one.
NeighSolicitation(router, target, multicast) ==
    [router |-> router, target |-> target, multicast |-> multicast]

Advertisement(target, to, override) ==
    [type |-> "advertisement", target |-> target, source |-> target, to |-> to,
     override |-> override]

Solicitation(target, source) ==
    [type |-> "solicitation", target |-> target, source |-> source,
     to |-> "solicited nodes", override |-> FALSE]

\* UnsolicitedAdvertisement cannot be built for these.
Advertisable(ip) == ip \notin Unadvertisable

UnsolicitedAdvertisement(ip) == Advertisement(ip, "all nodes", TRUE)

Gratuitous(ip) == Solicitation(ip, Unspecified)

Solicit(gateway, ip) == Solicitation(gateway, ip)

Respond(ns) == Advertisement(ns.target, ns.router, ns.multicast)

\* What the receivers of these frames file under the MAC of this host: the
\* target of an advertisement, and the source of a solicitation that carries
\* the source's MAC, which one from :: does not.
Claimed(frames) ==
    {f.target : f \in {g \in frames : g.type = "advertisement"}}
      \cup {f.source : f \in {g \in frames : g.type = "solicitation"
                                               /\ g.source # Unspecified}}
====
