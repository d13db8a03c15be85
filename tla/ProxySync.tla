---- MODULE ProxySync ----
(***************************************************************************)
(* What bsdProxyResponder promises, one call at a time: after a Sync that  *)
(* returns nil every target is proxied and nothing else is owned.  The     *)
(* promise is about a table that nobody else writes; module BSDProxy, one  *)
(* command at a time, implements it up to the first disturbance.           *)
(***************************************************************************)
EXTENDS ProxyEffects

CONSTANT Addr

VARIABLES owned,     \* r.owned between two calls
          proxied,   \* addresses with a proxy entry of this process or of
                     \* one that was killed
          external,  \* addresses proxied on the uplink by another service
          wanted,    \* the targets of the last Sync; none for Close
          outcome    \* "none", "ok" or "failed", then "disturbed" for good

proxyVars == <<owned, proxied, external, wanted, outcome>>

ProxyInit == /\ owned = {} /\ proxied = {} /\ wanted = {}
             /\ external \in SUBSET Addr
             /\ outcome = "none"

Sync(targets) ==
    /\ outcome # "disturbed"
    /\ \E failed \in SUBSET (targets \cup owned) :
         /\ \E effect \in SyncEffects(owned, proxied, external, targets, failed) :
              owned' = effect.owned /\ proxied' = effect.proxied
         /\ outcome' = IF failed = {} THEN "ok" ELSE "failed"
    /\ wanted' = targets
    /\ UNCHANGED external

\* Killed in the middle of anything and started again: ownership is lost,
\* every entry made so far stays.
Kill == /\ outcome # "disturbed"
        /\ owned' = {} /\ wanted' = {} /\ outcome' = "none"
        /\ \E made \in SUBSET (Addr \ external), deleted \in SUBSET owned :
             proxied' = (proxied \cup made) \ deleted
        /\ UNCHANGED external

\* Somebody else writes the table or moves a route: no promise from here on.
Disturb == /\ owned' = {} /\ proxied' = {} /\ external' = {} /\ wanted' = {}
           /\ outcome' = "disturbed"

ProxyNext == (\E targets \in SUBSET Addr : Sync(targets)) \/ Kill \/ Disturb

ProxySpec == ProxyInit /\ [][ProxyNext]_proxyVars

-----------------------------------------------------------------------------
(* A Sync that returned nil left every target proxied, by this process or   *)
(* by the service that already did, and owns exactly the targets it proxies *)
(* itself; what it does not own it never takes from another.                *)
Promise ==
    /\ owned \cap external = {} /\ proxied \cap external = {}
    /\ outcome = "ok" => /\ wanted \subseteq proxied \cup external
                         /\ owned \subseteq wanted \cap proxied
====
