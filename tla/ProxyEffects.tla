---- MODULE ProxyEffects ----
(***************************************************************************)
(* What one call of Sync or Close of bsd_ndp_proxy.go can do to the        *)
(* addresses it owns and to those that have a proxy entry of this process, *)
(* when nobody else touches the NDP table and the commands for the         *)
(* addresses in failed fail somewhere on the way.                          *)
(*                                                                         *)
(* An address ends as wanted unless it failed.  One that failed keeps its  *)
(* ownership, and its entry may be as it was (undone) or have been made or *)
(* deleted all the same: an entry made without a second look stays and is  *)
(* never owned.                                                            *)
(***************************************************************************)

\* external: the addresses another service already has a proxy for.
SyncEffects(owned, proxied, external, targets, failed) ==
    LET missing == targets \ (proxied \cup external)
        dropped == owned \ targets
    IN {[owned |-> (owned \cup (missing \ failed)) \ (dropped \ failed),
         proxied |-> (proxied \cup (missing \ undone)) \ (dropped \ undone)] :
          undone \in SUBSET (failed \cap (missing \cup dropped))}
====
