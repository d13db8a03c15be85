---- MODULE BSDRuntimeProofs ----
(***************************************************************************)
(* Proofs about the runtime on macOS and the BSDs, for any number of       *)
(* collectors, sources and addresses and any target file: it uses the      *)
(* registry as module ActiveIPs specifies it, so the registry's theorems   *)
(* hold inside it, and it never loses a wakeup.                            *)
(***************************************************************************)
EXTENDS BSDRuntime, ActiveIPsProofs, StaticTargetsProofs

\* The steps of runResponder that do not touch the registry.
LEMMA LocalStep ==
    ASSUME \/ ClearReady \/ StartupTargets \/ Prepare \/ StartSync \/ MarkReady
           \/ Stop \/ LoopTick \/ LoopTargets \/ LoopSync \/ Close
           \/ ClearReadyAtExit \/ Exited
    PROVE  UNCHANGED registryVars
<1> USE DEF inputs, registryVars, Advance, ReturnError
<1>1. CASE ClearReady \/ ClearReadyAtExit
  BY <1>1 DEF ClearReady, ClearReadyAtExit, clearResponderReadyFile,
                  ClearReadyFails
<1>2. CASE StartupTargets \/ LoopTargets
  BY <1>2 DEF StartupTargets, LoopTargets, bsdProxyTargets
<1>3. CASE Prepare \/ MarkReady
  BY <1>3 DEF Prepare, MarkReady, markResponderReady
<1>4. CASE StartSync \/ LoopSync \/ Close
  BY <1>4 DEF StartSync, LoopSync, Close, Sync
<1>5. CASE Stop \/ LoopTick
  BY <1>5 DEF Stop, LoopStop, LoopTick
<1>6. CASE Exited
  BY <1>6 DEF Exited, vars, runtimeVars
<1> QED
  BY <1>1, <1>2, <1>3, <1>4, <1>5, <1>6

\* A step of the runtime that changes the registry is one call's step by one
\* goroutine, or the loop's receive from activeIPsChanged.
LEMMA RegistryStepsOnly ==
    ASSUME [Next]_vars
    PROVE  \/ UNCHANGED registryVars
           \/ LoopChanged
           \/ ListenRead
           \/ \E g \in Goroutine : CollectorRefreshes(g) /\ UNCHANGED bsdVars
           \/ \E g \in Goroutine : ReplaceContinue(g) /\ UNCHANGED <<pc, bsdVars>>
<1>1. CASE Listen
  <2>1. CASE ListenRead
    BY <2>1
  <2>2. CASE ListenFails("clearing")
    BY <2>2 DEF ListenFails, ReturnError, inputs
  <2>3. CASE MainContinues
    BY <1>1, <2>3, RuntimeAssumption DEF MainContinues, Listen
  <2> QED
    BY <1>1, <2>1, <2>2, <2>3 DEF Listen
<1>2. CASE LoopChanged
  BY <1>2
<1>3. CASE Environment /\ UNCHANGED bsdVars
  <2>1. CASE FileRewritten
    BY <2>1 DEF FileRewritten
  <2>2. CASE Signalled
    BY <2>2 DEF Signalled, inputs
  <2>3. ASSUME NEW g \in Goroutine, CollectorRefreshes(g) \/ CollectorContinues(g)
        PROVE \/ CollectorRefreshes(g) /\ UNCHANGED bsdVars
              \/ ReplaceContinue(g) /\ UNCHANGED <<pc, bsdVars>>
    BY <1>3, <2>3 DEF CollectorContinues
  <2> QED
    BY <1>3, <2>1, <2>2, <2>3 DEF Environment
<1>4. CASE UNCHANGED vars
  BY <1>4 DEF vars, runtimeVars, inputs
<1> QED
  BY <1>1, <1>2, <1>3, <1>4, LocalStep DEF Next, MainStep

\* The sources still to be read at startup are sources: the set only shrinks.
UnlistenedKnown == unlistened \subseteq Source

LEMMA UnlistenedShrinks == [Next]_vars => unlistened' \subseteq unlistened
<1> SUFFICES ASSUME [Next]_vars PROVE unlistened' \subseteq unlistened
  OBVIOUS
<1> USE DEF ReturnError
<1>1. CASE ClearReady \/ ClearReadyAtExit
  BY <1>1 DEF ClearReady, ClearReadyAtExit, clearResponderReadyFile,
                  ClearReadyFails
<1>2. CASE Listen
  BY <1>2 DEF Listen, ListenRead, ListenFails, MainContinues
<1>3. CASE StartupTargets \/ LoopTargets
  BY <1>3 DEF StartupTargets, LoopTargets, bsdProxyTargets
<1>4. CASE Prepare \/ MarkReady
  BY <1>4 DEF Prepare, MarkReady, markResponderReady
<1>5. CASE StartSync \/ LoopSync \/ Close
  BY <1>5 DEF StartSync, LoopSync, Close, Sync
<1>6. CASE Stop \/ LoopTick \/ LoopChanged
  BY <1>6 DEF Stop, LoopStop, LoopTick, LoopChanged
<1>7. CASE Environment
  BY <1>7 DEF Environment, CollectorRefreshes, CollectorContinues, FileRewritten, Signalled
<1>8. CASE UNCHANGED vars \/ Exited
  BY <1>8 DEF vars, runtimeVars, Exited
<1> QED
  BY <1>1, <1>2, <1>3, <1>4, <1>5, <1>6, <1>7, <1>8 DEF Next, MainStep

LEMMA UnlistenedAreSources == Spec => []UnlistenedKnown
<1>1. Init => UnlistenedKnown
  BY DEF Init, RuntimeInit, UnlistenedKnown
<1>2. UnlistenedKnown /\ [Next]_vars => UnlistenedKnown'
  BY UnlistenedShrinks DEF UnlistenedKnown
<1> QED
  BY <1>1, <1>2, PTL DEF Spec

\* Every step of the runtime is a step of the registry or leaves it alone.
LEMMA RuntimeStepIsRegistryStep ==
    UnlistenedKnown /\ [Next]_vars => [RegistryNext]_registryVars
<1> SUFFICES ASSUME UnlistenedKnown, [Next]_vars PROVE [RegistryNext]_registryVars
  OBVIOUS
<1>1. CASE LoopChanged
  BY <1>1 DEF LoopChanged, RegistryNext
<1>2. CASE ListenRead
  BY <1>2, RuntimeAssumption DEF UnlistenedKnown, ListenRead, ReplaceStart, RegistryNext
<1>3. ASSUME NEW g \in Goroutine, CollectorRefreshes(g) PROVE RegistryNext
  BY <1>3, RuntimeAssumption DEF CollectorRefreshes, ReplaceStart, RegistryNext
<1>4. ASSUME NEW g \in Goroutine, ReplaceContinue(g) PROVE RegistryNext
  BY <1>4 DEF RegistryNext
<1> QED
  BY <1>1, <1>2, <1>3, <1>4, RegistryStepsOnly

\* The runtime implements the registry, whatever the responder does.
THEOREM BSDImplementsRegistry == Spec => RegistrySpec
<1>1. Init => RegistryInit
  BY DEF Init, RuntimeInit
<1> QED
  BY <1>1, RuntimeStepIsRegistryStep, UnlistenedAreSources, PTL DEF Spec, RegistrySpec

-----------------------------------------------------------------------------
(* No lost wakeup.  The invariant is inductive together with the types of   *)
(* the registry: what makes a snapshot stale is a call that changed a       *)
(* source, and that call still owes its signal or has left its token.       *)

StaleHasCause ==
    snapshot = RuntimeTargets \/ activeIPsChanged = 1 \/ \E g \in Goroutine : SignalOwed(g)

\* A refresh that changes nothing changes no target; one that does owes a signal.
LEMMA BuildOwesSignal ==
    ASSUME RegistryTypeOK, StaleHasCause, UNCHANGED snapshot,
           NEW g \in Goroutine, NEW s \in Source, NEW addresses,
           ReplaceBuild(g, s, addresses)
    PROVE  StaleHasCause'
<1>1. /\ call[g].pc = "idle"
      /\ \A h \in Goroutine \ {g} : call'[h] = call[h]
      /\ call'[g].pc = "store"
      /\ call'[g].previous = activeIPSources[s]
      /\ call'[g].next = KeepIPv6(addresses)
      /\ activeIPSources' = [activeIPSources EXCEPT ![s] = KeepIPv6(addresses)]
      /\ activeIPsChanged' = activeIPsChanged
  BY DEF ReplaceBuild, RegistryTypeOK
<1>2. \A h \in Goroutine : SignalOwed(h) => SignalOwed(h)'
  BY <1>1 DEF SignalOwed
<1>3. CASE activeIPSources[s] = KeepIPv6(addresses)
  <2>1. activeIPSources' = activeIPSources
    BY <1>1, <1>3 DEF RegistryTypeOK
  <2>2. RuntimeTargets' = RuntimeTargets
    BY <2>1 DEF RuntimeTargets, UnionOf
  <2> QED
    BY <1>1, <1>2, <2>2 DEF StaleHasCause
<1>4. CASE activeIPSources[s] # KeepIPv6(addresses)
  BY <1>1, <1>4 DEF StaleHasCause, SignalOwed
<1> QED
  BY <1>3, <1>4

\* A call that goes on keeps its debt until its signal, which leaves a token.
LEMMA ContinueKeepsCause ==
    ASSUME RegistryTypeOK, StaleHasCause, UNCHANGED snapshot,
           NEW g \in Goroutine, ReplaceContinue(g)
    PROVE  StaleHasCause'
<1>1. activeIPSources' = activeIPSources
  BY DEF ReplaceContinue, ReplaceStore, ReplaceSignal, ReplacePublish
<1>2. RuntimeTargets' = RuntimeTargets
  BY <1>1 DEF RuntimeTargets, UnionOf
<1>3. \A h \in Goroutine \ {g} : call'[h] = call[h]
  BY DEF ReplaceContinue, ReplaceStore, ReplaceSignal, ReplacePublish, RegistryTypeOK
<1>4. activeIPsChanged = 1 => activeIPsChanged' = 1
  BY DEF ReplaceContinue, ReplaceStore, ReplaceSignal, ReplacePublish
<1>5. SignalOwed(g) => SignalOwed(g)' \/ activeIPsChanged' = 1
  <2>1. CASE ReplaceStore(g)
    BY <2>1 DEF ReplaceStore, SignalOwed, RegistryTypeOK, CallType
  <2>2. CASE ReplaceSignal(g)
    BY <2>2 DEF ReplaceSignal, SignalOwed, Changed
  <2>3. CASE ReplacePublish(g)
    BY <2>3 DEF ReplacePublish, SignalOwed
  <2> QED
    BY <2>1, <2>2, <2>3 DEF ReplaceContinue
<1> QED
  BY <1>2, <1>3, <1>4, <1>5 DEF StaleHasCause, SignalOwed

\* runResponder reaches a state with a snapshot only by taking it, or from
\* another such state with the same snapshot.
LEMMA SnapshotIsFreshOrKept ==
    ASSUME [Next]_vars, SnapshotTaken',
           UNCHANGED registryVars
    PROVE  \/ snapshot' = RuntimeTargets
           \/ SnapshotTaken /\ snapshot' = snapshot
<1> USE DEF SnapshotTaken, Advance, ReturnError, bsdVars
<1>1. CASE ClearReady \/ ClearReadyAtExit
  BY <1>1 DEF ClearReady, ClearReadyAtExit, clearResponderReadyFile,
                  ClearReadyFails
<1>2. CASE Listen
  BY <1>2 DEF Listen, ListenRead, ListenFails, MainContinues
<1>3. CASE StartupTargets \/ LoopTargets
  BY <1>3 DEF StartupTargets, LoopTargets, bsdProxyTargets
<1>4. CASE Prepare \/ MarkReady
  BY <1>4 DEF Prepare, MarkReady, markResponderReady
<1>5. CASE StartSync \/ LoopSync \/ Close
  BY <1>5 DEF StartSync, LoopSync, Close, Sync
<1>6. CASE Stop \/ LoopTick \/ LoopChanged
  BY <1>6 DEF Stop, LoopStop, LoopTick, LoopChanged
<1>7. CASE Environment /\ UNCHANGED bsdVars
  BY <1>7 DEF Environment, CollectorRefreshes, CollectorContinues, FileRewritten, Signalled
<1>8. CASE UNCHANGED vars \/ Exited
  BY <1>8 DEF vars, runtimeVars, Exited
<1> QED
  BY <1>1, <1>2, <1>3, <1>4, <1>5, <1>6, <1>7, <1>8 DEF Next, MainStep

\* The step that every behaviour is made of keeps the wakeup.
LEMMA NoLostWakeupNext ==
    RegistryTypeOK /\ NoLostWakeup /\ [Next]_vars => NoLostWakeup'
<1> SUFFICES ASSUME RegistryTypeOK, NoLostWakeup, [Next]_vars, SnapshotTaken'
             PROVE StaleHasCause'
  BY DEF NoLostWakeup, StaleHasCause, SignalOwed, RuntimeTargets, UnionOf
<1>1. SnapshotTaken => StaleHasCause
  BY DEF NoLostWakeup, StaleHasCause
<1>2. CASE UNCHANGED registryVars
  <2>1. /\ RuntimeTargets' = RuntimeTargets
        /\ activeIPsChanged' = activeIPsChanged
        /\ \A g \in Goroutine : SignalOwed(g)' = SignalOwed(g)
    BY <1>2 DEF registryVars, RuntimeTargets, UnionOf, SignalOwed
  <2> QED
    BY <1>1, <1>2, <2>1, SnapshotIsFreshOrKept DEF StaleHasCause
<1>3. CASE LoopChanged
  BY <1>3 DEF LoopChanged, Advance, SnapshotTaken
<1>4. CASE ListenRead
  BY <1>4 DEF ListenRead, SnapshotTaken
<1>5. ASSUME NEW g \in Goroutine, CollectorRefreshes(g), UNCHANGED bsdVars
      PROVE StaleHasCause'
  <2>1. PICK s \in Collects[g], addresses \in SUBSET Addr :
          ReplaceBuild(g, s, addresses)
    BY <1>5 DEF CollectorRefreshes
  <2>2. s \in Source
    BY <2>1, RuntimeAssumption
  <2>3. StaleHasCause
    BY <1>1, <1>5 DEF CollectorRefreshes, SnapshotTaken
  <2>4. UNCHANGED snapshot
    BY <1>5 DEF bsdVars
  <2> QED
    BY <2>1, <2>2, <2>3, <2>4, BuildOwesSignal
<1>6. ASSUME NEW g \in Goroutine, ReplaceContinue(g), UNCHANGED <<pc, bsdVars>>
      PROVE StaleHasCause'
  <2>1. StaleHasCause
    BY <1>1, <1>6 DEF SnapshotTaken
  <2> QED
    BY <1>6, <2>1, ContinueKeepsCause DEF bsdVars
<1> QED
  BY <1>2, <1>3, <1>4, <1>5, <1>6, RegistryStepsOnly

\* No change of the runtime addresses is ever missed by the loop on a BSD
\* host: a stale snapshot always has a token or a signal on its way.
THEOREM BSDNoLostWakeup == Spec => []NoLostWakeup
<1>1. Init => NoLostWakeup
  BY DEF Init, RuntimeInit, NoLostWakeup, SnapshotTaken
<1>2. Spec => []RegistryTypeOK
  BY BSDImplementsRegistry, RegistryTypes, PTL
<1> QED
  BY <1>1, <1>2, NoLostWakeupNext, PTL DEF Spec

-----------------------------------------------------------------------------
(* The target file.  Only a reload and other programs touch its variables.  *)

LEMMA StaticStepsOnly ==
    ASSUME [Next]_vars
    PROVE  UNCHANGED staticVars \/ reloadStaticTargetFile \/ FileRewritten
<1> USE DEF ReturnError, inputs
<1>1. CASE ClearReady \/ ClearReadyAtExit
  BY <1>1 DEF ClearReady, ClearReadyAtExit, clearResponderReadyFile, ClearReadyFails
<1>2. CASE Listen
  BY <1>2 DEF Listen, ListenRead, ListenFails, MainContinues
<1>3. CASE StartupTargets \/ LoopTargets
  BY <1>3 DEF StartupTargets, LoopTargets, bsdProxyTargets
<1>4. CASE Prepare \/ MarkReady
  BY <1>4 DEF Prepare, MarkReady, markResponderReady
<1>5. CASE StartSync \/ LoopSync \/ Close
  BY <1>5 DEF StartSync, LoopSync, Close, Sync
<1>6. CASE Stop \/ LoopTick \/ LoopChanged
  BY <1>6 DEF Stop, LoopStop, LoopTick, LoopChanged
<1>7. CASE Environment
  BY <1>7 DEF Environment, CollectorRefreshes, CollectorContinues, Signalled
<1>8. CASE UNCHANGED vars \/ Exited
  BY <1>8 DEF vars, runtimeVars, Exited
<1> QED
  BY <1>1, <1>2, <1>3, <1>4, <1>5, <1>6, <1>7, <1>8 DEF Next, MainStep

\* The prefixes given with -n survive whatever happens to the target file, and
\* the lookup set never departs from the list it is built from.
THEOREM BSDKeepsCLITargets == Spec => [](StaticTypeOK /\ CLITargetsKept)
<1>1. Init => StaticTypeOK /\ CLITargetsKept
  BY StaticInvInit DEF Init, RuntimeInit
<1>2. StaticTypeOK /\ CLITargetsKept /\ [Next]_vars => (StaticTypeOK /\ CLITargetsKept)'
  BY StaticInvNext, StaticStepsOnly DEF FileRewritten
<1> QED
  BY <1>1, <1>2, PTL DEF Spec

-----------------------------------------------------------------------------
(* One run from its start to its end.  The invariant says where in          *)
(* runResponder each of the facts holds that the way out relies on.         *)

Leaving == pc \in {"closing", "clearing", "exited"}
Serving == pc \in {"prepare", "startSync", "mark", "loop", "resync", "sync"}

\* The result is set on the way out and not before; the ready file is marked
\* only while serving and never survives the last step.
Outcome ==
    /\ Leaving <=> result # "none"
    /\ result = "nil" => ctx = "done"
    /\ Serving => unlistened = {}
    /\ ready = "marked" => unlistened = {}
    /\ ready = "stale" => pc = "clear" \/ (pc = "exited" /\ result = "error")
    /\ pc = "exited" => ready = "empty" \/ failures > 0
    /\ failures \in Nat

\* As long as no command has failed, the entries are exactly the owned ones.
Entries ==
    /\ failures = 0 => owned = proxied
    /\ pc \in {"clear", "listen", "prepare", "startSync"} => owned = {} /\ proxied = {}
    /\ pc = "mark" => owned = targets /\ proxied = targets
    /\ pc \in {"clearing", "exited"} /\ failures = 0 => proxied = {}

\* A Sync during which nothing failed leaves the wanted entries and no others
\* where the entries were the owned ones.
LEMMA CleanSync ==
    ASSUME NEW wanted, Sync(wanted, {}), owned = proxied
    PROVE  owned' = wanted /\ proxied' = wanted
<1>1. PICK effect \in SyncEffects(owned, proxied, {}, wanted, {}) :
        owned' = effect.owned /\ proxied' = effect.proxied
  BY DEF Sync
<1>2. effect = [owned |-> (owned \cup (wanted \ proxied)) \ (owned \ wanted),
                proxied |-> (proxied \cup (wanted \ proxied)) \ (owned \ wanted)]
  BY DEF SyncEffects
<1>3. /\ owned' = (owned \cup (wanted \ proxied)) \ (owned \ wanted)
      /\ proxied' = (proxied \cup (wanted \ proxied)) \ (owned \ wanted)
  BY <1>1, <1>2
<1> QED
  BY <1>3

LEMMA SyncCountsFailures ==
    ASSUME failures \in Nat, NEW wanted, NEW failed, Sync(wanted, failed)
    PROVE  /\ failures' \in Nat
           /\ failed = {} => failures' = failures
           /\ failed # {} => failures' # 0 /\ failures' > 0
BY DEF Sync

LEMMA OutcomeNext == Outcome /\ [Next]_vars => Outcome'
<1> SUFFICES ASSUME Outcome, [Next]_vars PROVE Outcome'
  OBVIOUS
<1>0. unlistened' \subseteq unlistened
  BY UnlistenedShrinks
<1> USE DEF Outcome, Leaving, Serving, Advance
<1>1. CASE ClearReady \/ ClearReadyAtExit
  <2>1. \/ /\ UNCHANGED <<unlistened, ctx, failures, result>> /\ ready' = "empty"
           /\ (pc = "clear" /\ pc' = "listen") \/ (pc = "clearing" /\ pc' = "exited")
        \/ /\ pc' = "exited" /\ (pc = "clear" \/ pc = "clearing")
           /\ result' = IF result = "none" THEN "error" ELSE result
           /\ failures' = failures + 1
           /\ UNCHANGED <<unlistened, ready, ctx>>
    BY <1>1 DEF ClearReady, ClearReadyAtExit, clearResponderReadyFile, ClearReadyFails, bounds
  <2>2. failures + 1 \in Nat /\ failures + 1 > 0
    OBVIOUS
  <2> QED
    BY <2>1, <2>2
<1>2. CASE Listen
  BY <1>0, <1>2 DEF Listen, ListenRead, ListenFails, MainContinues, ReturnError, bounds
<1>3. CASE StartupTargets \/ LoopTargets
  BY <1>3 DEF StartupTargets, LoopTargets, bsdProxyTargets, ListenDone, bounds
<1>4. CASE Prepare \/ MarkReady
  BY <1>4 DEF Prepare, MarkReady, markResponderReady, ReturnError, bounds
<1>5. CASE StartSync
  <2>1. PICK failed : /\ Sync(targets, failed) /\ Advance("startSync", AfterStartSync(failed))
                      /\ result' = IF pc' = "closing" THEN "error" ELSE result
    BY <1>5 DEF StartSync
  <2> QED
    BY <2>1, SyncCountsFailures DEF AfterStartSync, Sync
<1>6. CASE LoopSync \/ Close
  <2>1. PICK wanted, failed : Sync(wanted, failed)
    BY <1>6 DEF LoopSync, Close
  <2> QED
    BY <1>6, <2>1, SyncCountsFailures DEF LoopSync, Close, Sync
<1>7. CASE Stop \/ LoopTick \/ LoopChanged
  BY <1>7 DEF Stop, LoopStop, LoopTick, LoopChanged, bounds
<1>8. CASE Environment
  BY <1>0, <1>8 DEF Environment, CollectorRefreshes, CollectorContinues, FileRewritten,
                    Signalled, Running, bounds
<1>9. CASE UNCHANGED vars \/ Exited
  BY <1>9 DEF vars, runtimeVars, Exited, bounds
<1> QED
  BY <1>1, <1>2, <1>3, <1>4, <1>5, <1>6, <1>7, <1>8, <1>9 DEF Next, MainStep

LEMMA OutcomeHolds == Spec => []Outcome
<1>1. Init => Outcome
  BY DEF Init, RuntimeInit, Outcome, Leaving, Serving
<1> QED
  BY <1>1, OutcomeNext, PTL DEF Spec

\* A marked ready file stands for a responder that has read every source.
THEOREM BSDReadyMeansServing == Spec => []ReadyMeansServing
<1>1. Outcome => ReadyMeansServing
  BY DEF Outcome, ReadyMeansServing
<1> QED
  BY <1>1, OutcomeHolds, PTL

\* A run ends with nil only when it was told to stop, and leaves no mark.
THEOREM BSDExitMeansStopped == Spec => []ExitMeansStopped
<1>1. Outcome => ExitMeansStopped
  BY DEF Outcome, Leaving, ExitMeansStopped
<1> QED
  BY <1>1, OutcomeHolds, PTL

LEMMA EntriesNext == Outcome /\ Entries /\ [Next]_vars => Entries'
<1> SUFFICES ASSUME Outcome, Entries, [Next]_vars PROVE Entries'
  OBVIOUS
<1>0. failures \in Nat
  BY DEF Outcome
<1> USE DEF Entries, Advance, bsdVars
<1>1. CASE ClearReady \/ ClearReadyAtExit
  <2>1. UNCHANGED bsdVars /\ pc' \in {"listen", "exited"} /\ (pc' = "listen" => pc = "clear")
    BY <1>1 DEF ClearReady, ClearReadyAtExit, clearResponderReadyFile, ClearReadyFails
  <2>2. pc \in {"clear", "clearing"} /\ (failures' = failures \/ failures' = failures + 1)
    BY <1>1 DEF ClearReady, ClearReadyAtExit, clearResponderReadyFile, ClearReadyFails, bounds
  <2>3. failures + 1 # 0
    BY <1>0
  <2> QED
    BY <2>1, <2>2, <2>3
<1>2. CASE Listen
  BY <1>2 DEF Listen, ListenRead, ListenFails, MainContinues, ReturnError, bounds
<1>3. CASE StartupTargets \/ LoopTargets
  BY <1>3 DEF StartupTargets, LoopTargets, bsdProxyTargets, bounds
<1>4. CASE Prepare \/ MarkReady
  BY <1>4 DEF Prepare, MarkReady, markResponderReady, ReturnError, bounds
<1>5. CASE StartSync
  <2>1. PICK failed \in SUBSET (targets \cup owned) :
          Sync(targets, failed) /\ Advance("startSync", AfterStartSync(failed))
    BY <1>5 DEF StartSync
  <2>2. targets' = targets
    BY <2>1 DEF Sync
  <2>3. CASE failed = {}
    BY <1>0, <2>1, <2>2, <2>3, CleanSync, SyncCountsFailures DEF AfterStartSync
  <2>4. CASE failed # {}
    BY <1>0, <2>1, <2>4, SyncCountsFailures DEF AfterStartSync
  <2> QED
    BY <2>3, <2>4
<1>6. CASE LoopSync \/ Close
  <2>1. PICK wanted, failed : /\ Sync(wanted, failed)
                              /\ pc' \in {"loop", "clearing"}
                              /\ pc' = "clearing" => wanted = {}
    BY <1>6 DEF LoopSync, Close
  <2>2. CASE failed = {}
    <3>1. failures' = 0 => owned' = wanted /\ proxied' = wanted
      BY <1>0, <2>1, <2>2, CleanSync, SyncCountsFailures
    <3> QED
      BY <2>1, <3>1
  <2>3. CASE failed # {}
    BY <1>0, <2>1, <2>3, SyncCountsFailures
  <2> QED
    BY <2>2, <2>3
<1>7. CASE Stop \/ LoopTick \/ LoopChanged
  BY <1>7 DEF Stop, LoopStop, LoopTick, LoopChanged, bounds
<1>8. CASE Environment /\ UNCHANGED bsdVars
  BY <1>8 DEF Environment, CollectorRefreshes, CollectorContinues, FileRewritten,
              Signalled, bounds
<1>9. CASE UNCHANGED vars \/ Exited
  BY <1>9 DEF vars, runtimeVars, Exited, bounds
<1> QED
  BY <1>1, <1>2, <1>3, <1>4, <1>5, <1>6, <1>7, <1>8, <1>9 DEF Next, MainStep

LEMMA EntriesHold == Spec => []Entries
<1>1. Init => Entries
  BY DEF Init, RuntimeInit, Entries
<1> QED
  BY <1>1, EntriesNext, OutcomeHolds, PTL DEF Spec

\* A run that has returned, and of which no command failed, leaves no entry.
THEOREM BSDStoppedIsClean == Spec => []StoppedIsClean
<1>1. Entries => StoppedIsClean
  BY DEF Entries, StoppedIsClean
<1> QED
  BY <1>1, EntriesHold, PTL

\* The file is marked only when every target known at startup has its entry
\* and nothing else has one.
THEOREM BSDMarkedOnlyWhenSynced == Spec => MarkedOnlyWhenSynced
<1>1. Entries /\ [Next]_vars =>
        [ready = "empty" /\ ready' = "marked" => proxied = targets /\ owned = targets]_vars
  <2> SUFFICES ASSUME Entries, Next, ready = "empty", ready' = "marked"
               PROVE  proxied = targets /\ owned = targets
    OBVIOUS
  <2>1. MarkReady
    <3> USE DEF ReturnError
    <3>1. CASE ClearReady \/ ClearReadyAtExit
      BY <3>1 DEF ClearReady, ClearReadyAtExit, clearResponderReadyFile, ClearReadyFails
    <3>2. CASE Listen
      BY <3>2 DEF Listen, ListenRead, ListenFails, MainContinues
    <3>3. CASE StartupTargets \/ LoopTargets
      BY <3>3 DEF StartupTargets, LoopTargets, bsdProxyTargets
    <3>4. CASE Prepare
      BY <3>4 DEF Prepare
    <3>5. CASE StartSync \/ LoopSync \/ Close
      BY <3>5 DEF StartSync, LoopSync, Close, Sync
    <3>6. CASE Stop \/ LoopTick \/ LoopChanged
      BY <3>6 DEF Stop, LoopStop, LoopTick, LoopChanged
    <3>7. CASE Environment
      BY <3>7 DEF Environment, CollectorRefreshes, CollectorContinues, FileRewritten, Signalled
    <3>8. CASE Exited
      BY <3>8 DEF vars, runtimeVars, Exited
    <3> QED
      BY <3>1, <3>2, <3>3, <3>4, <3>5, <3>6, <3>7, <3>8 DEF Next, MainStep
  <2>2. pc = "mark"
    BY <2>1 DEF MarkReady, markResponderReady, ReturnError, Advance
  <2> QED
    BY <2>2 DEF Entries
<1> QED
  BY <1>1, EntriesHold, PTL DEF Spec, MarkedOnlyWhenSynced

-----------------------------------------------------------------------------
(* Types *)

\* What BSDTypeOK says beside the registry, the target file and unlistened.
OwnTypes ==
    /\ pc \in {"clear", "listen", "prepare", "startSync", "mark", "loop",
               "resync", "sync", "closing", "clearing", "exited"}
    /\ ready \in {"empty", "stale", "marked"}
    /\ ctx \in {"live", "done"}
    /\ result \in {"none", "nil", "error"}
    /\ changes \in Nat /\ edits \in Nat
    /\ snapshot \subseteq Public
    /\ targets \subseteq Public \cup StaticAddr
    /\ proxied \subseteq Public \cup StaticAddr
    /\ owned \subseteq Public \cup StaticAddr

LEMMA SyncTyped ==
    ASSUME OwnTypes, NEW wanted \in SUBSET (Public \cup StaticAddr), NEW failed,
           Sync(wanted, failed)
    PROVE  /\ owned' \subseteq Public \cup StaticAddr
           /\ proxied' \subseteq Public \cup StaticAddr
<1>1. PICK effect \in SyncEffects(owned, proxied, {}, wanted, failed) :
        owned' = effect.owned /\ proxied' = effect.proxied
  BY DEF Sync
<1> DEFINE missing == wanted \ (proxied \cup {})
           dropped == owned \ wanted
<1>2. PICK undone \in SUBSET (failed \cap (missing \cup dropped)) :
        effect = [owned |-> (owned \cup (missing \ failed)) \ (dropped \ failed),
                  proxied |-> (proxied \cup (missing \ undone)) \ (dropped \ undone)]
  BY DEF SyncEffects
<1>3. /\ owned' = (owned \cup (missing \ failed)) \ (dropped \ failed)
      /\ proxied' = (proxied \cup (missing \ undone)) \ (dropped \ undone)
  BY <1>1, <1>2
<1> QED
  BY <1>3 DEF OwnTypes

LEMMA OwnTypesNext == OwnTypes /\ [Next]_vars => OwnTypes'
<1> SUFFICES ASSUME OwnTypes, [Next]_vars PROVE OwnTypes'
  OBVIOUS
<1>0. changes + 1 \in Nat /\ edits + 1 \in Nat
  BY DEF OwnTypes
<1> USE DEF OwnTypes, Advance, bsdVars
<1>1. CASE ClearReady \/ ClearReadyAtExit
  BY <1>1 DEF ClearReady, ClearReadyAtExit, clearResponderReadyFile, ClearReadyFails, bounds
<1>2. CASE Listen
  BY <1>2 DEF Listen, ListenRead, ListenFails, MainContinues, ReturnError, bounds
<1>3. CASE StartupTargets \/ LoopTargets
  <2>1. RuntimeTargets \subseteq Public /\ currentStaticHosts \subseteq StaticAddr
    BY DEF RuntimeTargets, runtimeAddressNeedsAnnouncement, currentStaticHosts
  <2>2. snapshot' = RuntimeTargets /\ targets' = currentStaticHosts \cup RuntimeTargets
    BY <1>3 DEF StartupTargets, LoopTargets, bsdProxyTargets
  <2>3. snapshot' \subseteq Public /\ targets' \subseteq Public \cup StaticAddr
    BY <2>1, <2>2
  <2>4. /\ UNCHANGED <<ready, ctx, result, changes, edits, owned, proxied>>
        /\ pc' \in {"prepare", "sync"}
    BY <1>3 DEF StartupTargets, LoopTargets, bsdProxyTargets, bounds
  <2> QED
    BY <2>3, <2>4
<1>4. CASE Prepare \/ MarkReady
  BY <1>4 DEF Prepare, MarkReady, markResponderReady, ReturnError, bounds
<1>5. CASE StartSync \/ LoopSync \/ Close
  <2>1. PICK wanted \in SUBSET (Public \cup StaticAddr),
              failed \in SUBSET (targets \cup owned) : Sync(wanted, failed)
    BY <1>5 DEF StartSync, LoopSync, Close
  <2>2. owned' \subseteq Public \cup StaticAddr /\ proxied' \subseteq Public \cup StaticAddr
    BY <2>1, SyncTyped
  <2>3. UNCHANGED <<ctx, changes, edits, snapshot, targets>>
    BY <2>1 DEF Sync
  <2>4. /\ pc' \in {"mark", "closing", "loop", "clearing"}
        /\ result' \in {"none", "nil", "error"} /\ ready' = ready
    BY <1>5 DEF StartSync, AfterStartSync, LoopSync, Close, Sync
  <2> QED
    BY <2>2, <2>3, <2>4
<1>6. CASE Stop \/ LoopTick \/ LoopChanged
  BY <1>6 DEF Stop, LoopStop, LoopTick, LoopChanged, bounds
<1>7. CASE Environment /\ UNCHANGED bsdVars
  BY <1>0, <1>7 DEF Environment, CollectorRefreshes, CollectorContinues, FileRewritten,
                    Signalled, bounds
<1>8. CASE UNCHANGED vars \/ Exited
  BY <1>8 DEF vars, runtimeVars, Exited, bounds
<1> QED
  BY <1>1, <1>2, <1>3, <1>4, <1>5, <1>6, <1>7, <1>8 DEF Next, MainStep

\* The types of the whole runtime.
THEOREM BSDTypes == Spec => []BSDTypeOK
<1>1. Init => OwnTypes
  BY DEF Init, RuntimeInit, OwnTypes
<1>2. Spec => []OwnTypes
  BY <1>1, OwnTypesNext, PTL DEF Spec
<1>3. Spec => []RegistryTypeOK
  BY BSDImplementsRegistry, RegistryTypes, PTL
<1>4. /\ OwnTypes /\ RegistryTypeOK /\ StaticTypeOK /\ UnlistenedKnown /\ Outcome
      => BSDTypeOK
  BY DEF OwnTypes, UnlistenedKnown, Outcome, BSDTypeOK, RuntimeTypeOK
<1> QED
  BY <1>2, <1>3, <1>4, BSDKeepsCLITargets, UnlistenedAreSources, OutcomeHolds, PTL
====
