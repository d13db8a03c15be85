---- MODULE ProxySyncProofs ----
(***************************************************************************)
(* The promise of Sync and Close follows from the effects of single calls, *)
(* for any set of addresses, any failures and any number of kills.         *)
(***************************************************************************)
EXTENDS ProxySync, TLAPS

LEMMA PromiseKeptBySync ==
    ASSUME Promise, NEW targets \in SUBSET Addr, Sync(targets)
    PROVE  Promise'
<1>1. PICK failed \in SUBSET (targets \cup owned) :
        /\ \E effect \in SyncEffects(owned, proxied, external, targets, failed) :
             owned' = effect.owned /\ proxied' = effect.proxied
        /\ outcome' = IF failed = {} THEN "ok" ELSE "failed"
  BY DEF Sync
<1>2. PICK effect \in SyncEffects(owned, proxied, external, targets, failed) :
        owned' = effect.owned /\ proxied' = effect.proxied
  BY <1>1
<1> DEFINE missing == targets \ (proxied \cup external)
           dropped == owned \ targets
<1>3. PICK undone \in SUBSET (failed \cap (missing \cup dropped)) :
        effect = [owned |-> (owned \cup (missing \ failed)) \ (dropped \ failed),
                  proxied |-> (proxied \cup (missing \ undone)) \ (dropped \ undone)]
  BY DEF SyncEffects
<1>4. /\ owned' = (owned \cup (missing \ failed)) \ (dropped \ failed)
      /\ proxied' = (proxied \cup (missing \ undone)) \ (dropped \ undone)
      /\ external' = external /\ wanted' = targets
  BY <1>2, <1>3 DEF Sync
<1>5. owned' \cap external' = {} /\ proxied' \cap external' = {}
  BY <1>4 DEF Promise
<1>6. ASSUME outcome' = "ok"
      PROVE  /\ wanted' \subseteq proxied' \cup external'
             /\ owned' \subseteq wanted' \cap proxied'
  <2>1. failed = {} /\ undone = {}
    BY <1>1, <1>3, <1>6
  <2> QED
    BY <1>4, <2>1 DEF Promise
<1> QED
  BY <1>5, <1>6 DEF Promise

\* A Sync that returned nil left every target proxied, by this process or by
\* the service that already did, and owns exactly the targets it proxies.
THEOREM ProxyKeepsPromise == ProxySpec => []Promise
<1>1. ProxyInit => Promise
  BY DEF ProxyInit, Promise
<1>2. Promise /\ [ProxyNext]_proxyVars => Promise'
  <2> SUFFICES ASSUME Promise, [ProxyNext]_proxyVars PROVE Promise'
    OBVIOUS
  <2>1. ASSUME NEW targets \in SUBSET Addr, Sync(targets) PROVE Promise'
    BY <2>1, PromiseKeptBySync
  <2>2. CASE Kill
    BY <2>2 DEF Kill, Promise
  <2>3. CASE Disturb
    BY <2>3 DEF Disturb, Promise
  <2>4. CASE UNCHANGED proxyVars
    BY <2>4 DEF proxyVars, Promise
  <2> QED
    BY <2>1, <2>2, <2>3, <2>4 DEF ProxyNext
<1> QED
  BY <1>1, <1>2, PTL DEF ProxySpec
====
