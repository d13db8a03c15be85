---- MODULE GatewayRoutes ----
(***************************************************************************)
(* Which gateway the program reads out of a listing of IPv6 routes         *)
(* (defaultGateway, hostinfo.go), in whatever order netlink returns them.  *)
(***************************************************************************)
EXTENDS Naturals, Sequences, SequencesExt

CONSTANTS Router,        \* the gateways router advertisements announce
          DefaultRoute,  \* the IPv6 default routes an interface may have
          None           \* no gateway, no interface

Route(dst, gw, priority) == [dst |-> dst, gw |-> gw, priority |-> priority]

\* What else a listing holds: a default route on the link, one whose gateway
\* is IPv4 in IPv6 form or no address, and a prefix behind a router.
OtherRoutes == {Route("default", "nil", 0), Route("default", "not IPv6", 0),
                Route("prefix", "router", 0)}

UsableRoute(route) == route.dst = "default" /\ route.gw \in Router

ASSUME RoutesAssumption ==
    /\ IsFiniteSet(DefaultRoute)
    /\ \A route \in DefaultRoute : UsableRoute(route) /\ route.priority \in Nat
    /\ Router \cap {"nil", "not IPv6"} = {}

NoRoute == Route("none", None, 0)

\* A bug: the route listed last wins.
PreferLater(best, route) == UsableRoute(route)

Prefer(best, route) ==
    /\ UsableRoute(route)
    /\ best = NoRoute \/ route.priority < best.priority

defaultGateway(list) ==
    LET best[k \in 0..Len(list)] ==
          IF k = 0 THEN NoRoute
          ELSE IF Prefer(best[k - 1], list[k]) THEN list[k] ELSE best[k - 1]
    IN best[Len(list)].gw

\* The default routes of an interface, and what the program may take for its
\* gateway.
GatewayAnswers ==
    {<<some, {defaultGateway(list) : list \in SetToSeqs(some \cup OtherRoutes)}>> :
       some \in SUBSET DefaultRoute}
====
