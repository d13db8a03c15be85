---- MODULE AddressView ----
(***************************************************************************)
(* What the runtime address registry promises its readers, apart from how  *)
(* active_ips.go does it: a refresh of one source replaces that source's   *)
(* addresses and publishes the union of all sources in one indivisible     *)
(* step, so a reader never sees a union that no sequence of whole          *)
(* refreshes could have produced.                                          *)
(***************************************************************************)
CONSTANTS Addr,    \* the IPv6 addresses a source may report
          Source   \* the names a view is kept under ("docker:net", "cni:dir")

VARIABLES view,      \* view[s]: the addresses source s last reported
          published  \* the set the responder answers for

viewVars == <<view, published>>

ViewInit == /\ view = [s \in Source |-> {}]
            /\ published = {}

Refresh(s, next) ==
    /\ view' = [view EXCEPT ![s] = next]
    /\ published' = UNION {view'[t] : t \in Source}

ViewNext == \E s \in Source, next \in SUBSET Addr : Refresh(s, next)

ViewSpec == ViewInit /\ [][ViewNext]_viewVars
====
