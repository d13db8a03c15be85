---- MODULE BSDRuntime ----
(***************************************************************************)
(* runResponder on macOS and the BSDs (runtime_bsd.go): the startup        *)
(* sequence, the select loop that re-synchronises the kernel's proxy       *)
(* entries with the wanted targets, and the deferred cleanup.              *)
(*                                                                         *)
(* One call of responder.Sync is one step here, with the effects that      *)
(* module ProxySync allows it; module BSDProxy, one command at a time, is  *)
(* shown to have no others.                                                *)
(***************************************************************************)
EXTENDS Runtime, ProxyEffects

VARIABLES snapshot,  \* the runtime addresses of the last bsdProxyTargets
          targets,   \* all addresses of the last bsdProxyTargets
          owned,     \* r.owned: the entries Close will remove
          proxied    \* addresses with a proxy entry of this process

bsdVars == <<snapshot, targets, owned, proxied>>
vars == <<runtimeVars, bsdVars>>

Init == RuntimeInit /\ snapshot = {} /\ targets = {} /\ owned = {} /\ proxied = {}

-----------------------------------------------------------------------------
(* Startup *)

ClearReady == /\ clearResponderReadyFile("clear", "listen") \/ ClearReadyFails("clear")
              /\ UNCHANGED bsdVars

Listen == (ListenRead \/ ListenFails("clearing") \/ MainContinues) /\ UNCHANGED bsdVars

\* bsdProxyTargets: the static list, then the registry under its mutex.
bsdProxyTargets(from, to) ==
    /\ activeIPSourceMu = None
    /\ Advance(from, to)
    /\ snapshot' = RuntimeTargets
    /\ targets' = currentStaticHosts \cup snapshot'
    /\ UNCHANGED <<inputs, unlistened, ready, ctx, result, bounds, owned, proxied>>

StartupTargets == ListenDone /\ bsdProxyTargets("listen", "prepare")

\* prepareBSDProxyResponder: no candidate interface may route every target;
\* there is nothing to Close yet.
Prepare ==
    /\ \/ ReturnError("prepare", "clearing")
       \/ /\ Advance("prepare", "startSync")
          /\ UNCHANGED <<inputs, unlistened, ready, ctx, result, bounds>>
    /\ UNCHANGED bsdVars

\* Sync and Close, with a command failing for every address in failed.
Sync(wanted, failed) ==
    /\ \E effect \in SyncEffects(owned, proxied, {}, wanted, failed) :
         owned' = effect.owned /\ proxied' = effect.proxied
    /\ failed # {} => failures < MaxFailures
    /\ failures' = IF failed = {} THEN failures ELSE failures + 1
    /\ UNCHANGED <<inputs, unlistened, ready, ctx, changes, edits, snapshot, targets>>

\* A bug: the error of the first Sync is only logged.
AfterStartSyncAnyway(failed) == "mark"

AfterStartSync(failed) == IF failed = {} THEN "mark" ELSE "closing"

StartSync ==
    \E failed \in SUBSET (targets \cup owned) :
      /\ Sync(targets, failed)
      /\ Advance("startSync", AfterStartSync(failed))
      /\ result' = IF pc' = "closing" THEN "error" ELSE result

MarkReady == /\ markResponderReady("mark", "loop") \/ ReturnError("mark", "closing")
             /\ UNCHANGED bsdVars

-----------------------------------------------------------------------------
(* The select loop *)

Stop == LoopStop("closing") /\ UNCHANGED bsdVars

\* A bug: a tick that finds the list unchanged skips the Sync, and with it
\* the only retry of a failed one.
LoopTickIfEdited ==
    /\ HasTargetFile
    /\ reloadStaticTargetFile
    /\ Advance("loop", IF staticTargets' = staticTargets THEN "loop" ELSE "resync")
    /\ UNCHANGED <<registryVars, unlistened, ready, ctx, result, bounds, bsdVars>>

\* The ticker exists only with --target-file.
LoopTick ==
    /\ HasTargetFile
    /\ reloadStaticTargetFile
    /\ Advance("loop", "resync")
    /\ UNCHANGED <<registryVars, unlistened, ready, ctx, result, bounds, bsdVars>>

LoopChanged ==
    /\ TakeChanged
    /\ Advance("loop", "resync")
    /\ UNCHANGED <<staticVars, unlistened, ready, ctx, result, bounds, bsdVars>>

LoopTargets == bsdProxyTargets("resync", "sync")

\* An error of this Sync is logged and forgotten.
LoopSync ==
    /\ \E failed \in SUBSET (targets \cup owned) : Sync(targets, failed)
    /\ Advance("sync", "loop")
    /\ UNCHANGED result

-----------------------------------------------------------------------------
(* The deferred calls, last one first: Close, then the ready file *)

\* A bug: Close is not deferred.
CloseNothing ==
    /\ Advance("closing", "clearing")
    /\ UNCHANGED <<inputs, unlistened, ready, ctx, result, bounds, bsdVars>>

Close ==
    /\ \E failed \in SUBSET owned : Sync({}, failed)
    /\ Advance("closing", "clearing")
    /\ UNCHANGED result

\* A bug: the mark is not removed on the way out.
KeepReadyAtExit ==
    /\ Advance("clearing", "exited")
    /\ UNCHANGED <<inputs, unlistened, ready, ctx, result, bounds, bsdVars>>

ClearReadyAtExit ==
    /\ clearResponderReadyFile("clearing", "exited") \/ ClearReadyFails("clearing")
    /\ UNCHANGED bsdVars

Exited == pc = "exited" /\ UNCHANGED vars

MainStep == \/ ClearReady \/ Listen \/ StartupTargets \/ Prepare \/ StartSync
            \/ MarkReady \/ Stop \/ LoopTick \/ LoopChanged \/ LoopTargets
            \/ LoopSync \/ Close \/ ClearReadyAtExit

Next == MainStep \/ (Environment /\ UNCHANGED bsdVars) \/ Exited

Spec == Init /\ [][Next]_vars

\* The scheduler runs every goroutine that can run; sync.Mutex hands itself to
\* a starving waiter, so a step that finds it free again and again is taken
\* (strong fairness); a Go select chooses at random among its ready cases, so
\* a case that is ready again and again is taken; the ticker keeps ticking.
Fairness ==
    /\ SF_vars(MainStep)
    /\ \A g \in Goroutine : WF_vars(CollectorContinues(g) /\ UNCHANGED bsdVars)
    /\ SF_vars(Stop) /\ SF_vars(LoopTick) /\ SF_vars(LoopChanged)

FairSpec == Spec /\ Fairness

-----------------------------------------------------------------------------
(* Types. *)
BSDTypeOK ==
    /\ RuntimeTypeOK
    /\ pc \in {"clear", "listen", "prepare", "startSync", "mark", "loop",
               "resync", "sync", "closing", "clearing", "exited"}
    /\ snapshot \subseteq Public
    /\ targets \subseteq Public \cup StaticAddr
    /\ proxied \subseteq Public \cup StaticAddr
    /\ owned \subseteq Public \cup StaticAddr

\* A collector that has changed a source and not yet reached its signal.
SignalOwed(g) == /\ call[g].pc \in {"store", "signal"}
                 /\ call[g].previous # call[g].next

SnapshotTaken == pc \in {"prepare", "startSync", "mark", "loop", "sync"}

\* No lost wakeup (runtime_bsd.go:74 with active_ips.go:58-63): whenever the
\* snapshot the proxies were computed from is out of date, a token is waiting
\* in activeIPsChanged or the collector that made it stale has yet to send
\* one.  The channel holds one token for any number of changes, the send may
\* find it full, and the snapshot is taken some time after the receive.
NoLostWakeup ==
    SnapshotTaken /\ snapshot # RuntimeTargets
      => activeIPsChanged = 1 \/ \E g \in Goroutine : SignalOwed(g)

\* runtime_bsd.go:51-54: the file is marked only when every target known at
\* startup has its proxy entry and nothing else has one.
MarkedOnlyWhenSynced ==
    [][ready = "empty" /\ ready' = "marked" => proxied = targets /\ owned = targets]_vars

\* A run that has returned leaves a proxy entry behind only if a command of
\* it failed.
StoppedIsClean == pc = "exited" /\ failures = 0 => proxied = {}

\* What the proxies should be now: the registry, the -n targets, and the
\* target file whenever it can be accepted.
Wanted == RuntimeTargets \cup
            {a \in StaticAddr : Host(a) \in
               IF HasTargetFile THEN Merged(readStaticTargetFile(targetFile))
                                ELSE CLITargets}

\* Once the containers and the file stop changing, every wanted address has its
\* proxy entry and nothing else is owned, for good, unless the run ends: every
\* change is picked up through the token or a tick, and with a target file the
\* next tick also repairs a Sync that failed.
EventuallySynced ==
    <>[](\/ pc \in {"closing", "clearing", "exited"}
         \/ Wanted \subseteq proxied /\ owned \subseteq Wanted)
====
