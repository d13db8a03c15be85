---- MODULE ActiveIPsProofs ----
(***************************************************************************)
(* Proofs about the registry, for every set of collectors, sources and     *)
(* addresses and every queue capacity: types, agreement of the published   *)
(* set with the sources, and the refinement of AddressView.                *)
(***************************************************************************)
EXTENDS ActiveIPs, TLAPS

\* A source's addresses are among the addresses of the union.
LEMMA UnionTyped ==
    ASSUME NEW sources \in [Source -> SUBSET Addr]
    PROVE  UnionOf(sources) \in SUBSET Addr
  BY DEF UnionOf

\* The registry starts in its inductive invariant: everything is empty.
LEMMA RegistryInvInit == RegistryInit => RegistryInv
<1> SUFFICES ASSUME RegistryInit PROVE RegistryInv
  OBVIOUS
<1>1. RegistryTypeOK
  BY RegistryAssumption
  DEF RegistryInit, RegistryTypeOK, CallType, Idle
<1>2. PublishedAgrees
  BY DEF RegistryInit, PublishedAgrees, UnionOf
<1>3. HolderStoresUnion
  BY RegistryAssumption DEF RegistryInit, HolderStoresUnion, Idle
<1> QED
  BY <1>1, <1>2, <1>3 DEF RegistryInv

\* Taking the mutex and writing a source keeps the invariant: the caller
\* becomes the only goroutine between lock and Store.
LEMMA ReplaceBuildKeepsInv ==
    ASSUME RegistryInv, NEW g \in Goroutine, NEW s \in Source,
           NEW addresses \in SUBSET (Addr \cup NotIPv6),
           ReplaceBuild(g, s, addresses)
    PROVE  RegistryInv'
<1> DEFINE next == KeepIPv6(addresses)
           sources == [activeIPSources EXCEPT ![s] = next]
           started == [pc |-> "store", source |-> s,
                       previous |-> activeIPSources[s], next |-> next,
                       set |-> UnionOf(sources),
                       new |-> next \ activeIPSources[s]]
<1> USE DEF RegistryInv, RegistryTypeOK
<1>1. next \in SUBSET Addr /\ sources \in [Source -> SUBSET Addr]
  BY DEF KeepIPv6
<1>2. UnionOf(sources) \in SUBSET Addr
  BY <1>1, UnionTyped
<1>3. started \in CallType
  BY <1>1, <1>2 DEF CallType
<1>4. /\ activeIPSources' = sources
      /\ call' = [call EXCEPT ![g] = started]
      /\ activeIPSourceMu = None /\ activeIPSourceMu' = g
      /\ UNCHANGED <<activeIPs, activeIPsChanged, newActiveIP>>
  BY DEF ReplaceBuild, Acquire
<1>5. RegistryTypeOK'
  BY <1>1, <1>3, <1>4
<1>6. PublishedAgrees'
  BY <1>4, RegistryAssumption DEF PublishedAgrees
<1>7. call'[g] = started /\ \A h \in Goroutine \ {g} : call'[h] = call[h]
  BY <1>4
<1>8. activeIPSources = [activeIPSources' EXCEPT ![s] = activeIPSources[s]]
  BY <1>1, <1>4
<1>9. \A h \in Goroutine : call[h].pc # "store"
  BY <1>4, RegistryAssumption DEF HolderStoresUnion
<1>10. activeIPs = UnionOf(activeIPSources)
  BY <1>4 DEF PublishedAgrees
<1>11. HolderStoresUnion'
  <2> SUFFICES ASSUME NEW h \in Goroutine
               PROVE /\ activeIPSourceMu' = h => call'[h].pc = "store"
                     /\ call'[h].pc = "store" =>
                          /\ activeIPSourceMu' = h
                          /\ call'[h].source \in Source
                          /\ call'[h].set = UnionOf(activeIPSources')
                          /\ activeIPs' = UnionOf([activeIPSources' EXCEPT
                                ![call'[h].source] = call'[h].previous])
    BY DEF HolderStoresUnion, UnionOf
  <2>1. CASE h = g
    BY <2>1, <1>4, <1>7, <1>8, <1>10
  <2>2. CASE h # g
    BY <2>2, <1>4, <1>7, <1>9
  <2> QED
    BY <2>1, <2>2
<1> QED
  BY <1>5, <1>6, <1>11

\* The Store publishes the union under the mutex and releases it, which
\* restores agreement.
LEMMA ReplaceStoreKeepsInv ==
    ASSUME RegistryInv, NEW g \in Goroutine, ReplaceStore(g)
    PROVE  RegistryInv'
<1> USE DEF RegistryInv, RegistryTypeOK
<1>1. /\ activeIPs' = UnionOf(activeIPSources)
      /\ activeIPSourceMu = g /\ activeIPSourceMu' = None
      /\ activeIPSources' = activeIPSources
      /\ call' = [call EXCEPT ![g].pc = "signal"]
  BY DEF ReplaceStore, HolderStoresUnion
<1>2. call' \in [Goroutine -> CallType] /\ call'[g].pc = "signal"
  BY <1>1 DEF CallType
<1>3. RegistryTypeOK'
  BY <1>1, <1>2, UnionTyped DEF ReplaceStore
<1>4. PublishedAgrees'
  BY <1>1 DEF PublishedAgrees, UnionOf
<1>5. \A h \in Goroutine : call'[h].pc # "store"
  BY <1>1, <1>2 DEF HolderStoresUnion
<1>6. HolderStoresUnion'
  BY <1>1, <1>5, RegistryAssumption DEF HolderStoresUnion
<1> QED
  BY <1>3, <1>4, <1>6

\* A step that leaves the sources, the published set and the mutex alone, and
\* neither enters nor leaves the critical section, keeps the invariant if it
\* keeps the types.
LEMMA OutsideKeepsInv ==
    ASSUME RegistryInv, RegistryTypeOK',
           UNCHANGED <<activeIPSources, activeIPs, activeIPSourceMu>>,
           \A h \in Goroutine : \/ call'[h] = call[h]
                                \/ call[h].pc # "store" /\ call'[h].pc # "store"
    PROVE  RegistryInv'
<1>1. PublishedAgrees'
  BY DEF RegistryInv, PublishedAgrees, UnionOf
<1>2. HolderStoresUnion'
  <2> SUFFICES ASSUME NEW h \in Goroutine
               PROVE /\ activeIPSourceMu' = h => call'[h].pc = "store"
                     /\ call'[h].pc = "store" =>
                          /\ activeIPSourceMu' = h
                          /\ call'[h].source \in Source
                          /\ call'[h].set = UnionOf(activeIPSources')
                          /\ activeIPs' = UnionOf([activeIPSources' EXCEPT
                                ![call'[h].source] = call'[h].previous])
    BY DEF HolderStoresUnion, UnionOf
  <2>1. CASE call'[h] = call[h]
    BY <2>1 DEF RegistryInv, HolderStoresUnion
  <2>2. CASE call[h].pc # "store" /\ call'[h].pc # "store"
    BY <2>2 DEF RegistryInv, HolderStoresUnion
  <2> QED
    BY <2>1, <2>2
<1> QED
  BY <1>1, <1>2 DEF RegistryInv

\* The signal is sent after the unlock and touches only the channel and the
\* caller's own progress.
LEMMA ReplaceSignalKeepsInv ==
    ASSUME RegistryInv, NEW g \in Goroutine, ReplaceSignal(g)
    PROVE  RegistryInv'
<1> USE DEF RegistryInv, RegistryTypeOK
<1>1. /\ AfterSignal(call[g]) \in CallType
      /\ AfterSignal(call[g]).pc # "store"
  BY DEF AfterSignal, CallType, Idle
<1>2. call' = [call EXCEPT ![g] = AfterSignal(call[g])]
  BY DEF ReplaceSignal
<1>3. RegistryTypeOK'
  BY <1>1, <1>2 DEF ReplaceSignal
<1>4. \A h \in Goroutine : \/ call'[h] = call[h]
                           \/ call[h].pc # "store" /\ call'[h].pc # "store"
  BY <1>1, <1>2 DEF ReplaceSignal
<1> QED
  BY <1>3, <1>4, OutsideKeepsInv DEF ReplaceSignal

\* Publishing one new address appends it unless the queue is full.
LEMMA ReplacePublishKeepsInv ==
    ASSUME RegistryInv, NEW g \in Goroutine, ReplacePublish(g)
    PROVE  RegistryInv'
<1> USE DEF RegistryInv, RegistryTypeOK
<1>1. PICK address \in call[g].new :
        /\ publishNewActiveIP(address)
        /\ call' = [call EXCEPT ![g] = AfterPublish(call[g], address)]
  BY DEF ReplacePublish
<1> DEFINE after == AfterPublish(call[g], address)
<1>2. after \in CallType /\ after.pc # "store"
  <2>1. Idle \in CallType /\ Idle.pc # "store"
    BY DEF Idle, CallType
  <2>2. call[g] \in CallType /\ call[g].pc = "publish"
    BY DEF ReplacePublish
  <2>3. call[g].new \ {address} \in SUBSET Addr
    BY <2>2 DEF CallType
  <2>4. /\ [call[g] EXCEPT !.new = call[g].new \ {address}] \in CallType
        /\ [call[g] EXCEPT !.new = call[g].new \ {address}].pc = "publish"
    BY <2>2, <2>3 DEF CallType
  <2> QED
    BY <2>1, <2>4 DEF AfterPublish
<1>3. call' = [call EXCEPT ![g] = after]
  BY <1>1
<1>4. address \in Addr
  BY <1>1 DEF CallType
<1>5. newActiveIP' \in Seq(Addr) /\ Len(newActiveIP') <= QueueCap
  BY <1>1, <1>4, RegistryAssumption DEF publishNewActiveIP
<1>6. RegistryTypeOK'
  BY <1>2, <1>3, <1>5 DEF ReplacePublish
<1>7. \A h \in Goroutine : \/ call'[h] = call[h]
                           \/ call[h].pc # "store" /\ call'[h].pc # "store"
  BY <1>2, <1>3 DEF ReplacePublish
<1> QED
  BY <1>6, <1>7, OutsideKeepsInv DEF ReplacePublish

\* The responder's receives touch only the two channels.
LEMMA ReceivesKeepInv ==
    ASSUME RegistryInv, TakeChanged \/ TakeNew
    PROVE  RegistryInv'
<1>1. CASE TakeChanged
  BY <1>1, OutsideKeepsInv DEF TakeChanged, RegistryInv, RegistryTypeOK
<1>2. CASE TakeNew
  <2>1. newActiveIP' \in Seq(Addr) /\ Len(newActiveIP') <= QueueCap
    BY <1>2, RegistryAssumption DEF TakeNew, RegistryInv, RegistryTypeOK
  <2> QED
    BY <1>2, <2>1, OutsideKeepsInv DEF TakeNew, RegistryInv, RegistryTypeOK
<1> QED
  BY <1>1, <1>2

\* Every step of every collector, and every receive, keeps the invariant.
LEMMA RegistryInvNext == RegistryInv /\ [RegistryNext]_registryVars => RegistryInv'
<1> SUFFICES ASSUME RegistryInv, [RegistryNext]_registryVars PROVE RegistryInv'
  OBVIOUS
<1>1. ASSUME NEW g \in Goroutine, ReplaceStart(g) PROVE RegistryInv'
  BY <1>1, ReplaceBuildKeepsInv DEF ReplaceStart
<1>2. ASSUME NEW g \in Goroutine, ReplaceContinue(g) PROVE RegistryInv'
  BY <1>2, ReplaceStoreKeepsInv, ReplaceSignalKeepsInv, ReplacePublishKeepsInv
  DEF ReplaceContinue
<1>3. CASE TakeChanged \/ TakeNew
  BY <1>3, ReceivesKeepInv
<1>4. CASE UNCHANGED registryVars
  BY <1>4, OutsideKeepsInv DEF registryVars, RegistryInv, RegistryTypeOK
<1> QED
  BY <1>1, <1>2, <1>3, <1>4 DEF RegistryNext

\* The inductive invariant holds of every reachable state of the registry.
THEOREM RegistryInvariant == RegistrySpec => []RegistryInv
<1> QED
  BY RegistryInvInit, RegistryInvNext, PTL DEF RegistrySpec

\* Only IPv6 addresses are registered, published and queued; the queue stays
\* within its capacity and the signal within one token.
THEOREM RegistryTypes == RegistrySpec => []RegistryTypeOK
<1>1. RegistryInv => RegistryTypeOK
  BY DEF RegistryInv
<1> QED
  BY <1>1, RegistryInvariant, PTL

\* Outside the critical section the published set is the union of the sources.
THEOREM PublishedAgreement == RegistrySpec => []PublishedAgrees
<1>1. RegistryInv => PublishedAgrees
  BY DEF RegistryInv
<1> QED
  BY <1>1, RegistryInvariant, PTL

-----------------------------------------------------------------------------
(* The refinement: a Store is the abstract refresh, every other step a      *)
(* stutter.                                                                 *)

\* While the mutex is free a step that keeps sources and published set is
\* invisible.
LEMMA InvisibleStep ==
    ASSUME UNCHANGED <<activeIPSources, activeIPs, activeIPSourceMu>>,
           activeIPSourceMu = None
             \/ call'[activeIPSourceMu] = call[activeIPSourceMu]
    PROVE  UNCHANGED <<VisibleSources, activeIPs>>
  BY DEF VisibleSources

\* Writing a source under the mutex does not change what is visible.
LEMMA BuildInvisible ==
    ASSUME RegistryInv, NEW g \in Goroutine, ReplaceStart(g)
    PROVE  UNCHANGED <<VisibleSources, activeIPs>>
<1>1. PICK s \in Source, addresses \in SUBSET (Addr \cup NotIPv6) :
        ReplaceBuild(g, s, addresses)
  BY DEF ReplaceStart
<1>2. /\ activeIPSourceMu = None /\ activeIPSourceMu' = g /\ g # None
      /\ activeIPSources' = [activeIPSources EXCEPT ![s] = KeepIPv6(addresses)]
      /\ call'[g].source = s /\ call'[g].previous = activeIPSources[s]
      /\ activeIPs' = activeIPs
  BY <1>1, RegistryAssumption
  DEF ReplaceBuild, Acquire, RegistryInv, RegistryTypeOK
<1>3. activeIPSources = [activeIPSources' EXCEPT ![s] = activeIPSources[s]]
  BY <1>2 DEF RegistryInv, RegistryTypeOK
<1> QED
  BY <1>2, <1>3 DEF VisibleSources

\* The Store makes one source's new addresses and the new union visible in
\* the same step.
LEMMA StoreRefreshes ==
    ASSUME RegistryInv, NEW g \in Goroutine, ReplaceStore(g)
    PROVE  \E s \in Source, next \in SUBSET Addr : View!Refresh(s, next)
<1> DEFINE s == call[g].source
           next == activeIPSources[s]
<1>1. /\ activeIPSourceMu = g /\ g # None /\ activeIPSourceMu' = None
      /\ s \in Source /\ activeIPs' = UnionOf(activeIPSources)
      /\ activeIPSources' = activeIPSources
  BY RegistryAssumption DEF ReplaceStore, RegistryInv, HolderStoresUnion
<1>2. activeIPSources \in [Source -> SUBSET Addr] /\ next \in SUBSET Addr
  BY <1>1 DEF RegistryInv, RegistryTypeOK
<1>3. VisibleSources' = activeIPSources
  BY <1>1 DEF VisibleSources
<1>4. VisibleSources = [activeIPSources EXCEPT ![s] = call[g].previous]
  BY <1>1 DEF VisibleSources
<1>5. VisibleSources' = [VisibleSources EXCEPT ![s] = next]
  BY <1>1, <1>2, <1>3, <1>4
<1>6. activeIPs' = UNION {VisibleSources'[t] : t \in Source}
  BY <1>1, <1>3 DEF UnionOf
<1> QED
  BY <1>1, <1>2, <1>5, <1>6 DEF View!Refresh

\* Every step of the registry is an abstract refresh or invisible.
LEMMA RegistryStepRefines ==
    ASSUME RegistryInv, [RegistryNext]_registryVars
    PROVE  [View!ViewNext]_View!viewVars
<1>1. ASSUME NEW g \in Goroutine, ReplaceStart(g)
      PROVE UNCHANGED <<VisibleSources, activeIPs>>
  BY <1>1, BuildInvisible
<1>2. ASSUME NEW g \in Goroutine, ReplaceStore(g) PROVE View!ViewNext
  BY <1>2, StoreRefreshes DEF View!ViewNext
<1>3. ASSUME NEW g \in Goroutine, ReplaceSignal(g) \/ ReplacePublish(g)
      PROVE UNCHANGED <<VisibleSources, activeIPs>>
  <2>1. /\ UNCHANGED <<activeIPSources, activeIPs, activeIPSourceMu>>
        /\ \A h \in Goroutine \ {g} : call'[h] = call[h]
        /\ call[g].pc # "store"
    BY <1>3 DEF ReplaceSignal, ReplacePublish, RegistryInv, RegistryTypeOK
  <2>2. activeIPSourceMu = None \/ activeIPSourceMu \in Goroutine \ {g}
    BY <2>1 DEF RegistryInv, RegistryTypeOK, HolderStoresUnion
  <2> QED
    BY <2>1, <2>2, InvisibleStep
<1>4. ASSUME TakeChanged \/ TakeNew \/ UNCHANGED registryVars
      PROVE UNCHANGED <<VisibleSources, activeIPs>>
  BY <1>4, InvisibleStep DEF TakeChanged, TakeNew, registryVars
<1> QED
  BY <1>1, <1>2, <1>3, <1>4
  DEF RegistryNext, ReplaceContinue, View!viewVars

\* The registry implements AddressView: refreshes of different sources by any
\* number of collectors are atomic for the lock-free reader.
THEOREM RegistryRefinesView == RegistrySpec => RefinesAddressView
<1>1. RegistryInit => View!ViewInit
  BY DEF RegistryInit, View!ViewInit, VisibleSources
<1>2. RegistryInv /\ [RegistryNext]_registryVars => [View!ViewNext]_View!viewVars
  BY RegistryStepRefines
<1> QED
  BY <1>1, <1>2, RegistryInvariant, PTL
  DEF RegistrySpec, RefinesAddressView, View!ViewSpec
====
