---- MODULE Runtime ----
(***************************************************************************)
(* What runResponder has in common on Linux (runtime_linux.go) and on      *)
(* macOS and the BSDs (runtime_bsd.go): the ready file, the synchronous    *)
(* first read of every source, the collector loops that then refresh the   *)
(* registry beside it, the target file, the termination signal and the     *)
(* deferred cleanup.  LinuxResponder and BSDRuntime add the responder.     *)
(*                                                                         *)
(* A collector is reduced to its calls of replaceActiveIPSource with       *)
(* arbitrary addresses; module Collectors says where they come from.       *)
(***************************************************************************)
EXTENDS ActiveIPs, StaticTargets

CONSTANTS Main,        \* the goroutine that runs runResponder
          Collects,    \* goroutine |-> the sources its loop refreshes
          Public,      \* where runtimeAddressNeedsAnnouncement holds
          MaxChanges,  \* bound: refreshes that change a source
          MaxEdits,    \* bound: rewrites of the target file
          MaxFailures  \* bound: system calls of the responder that fail

ASSUME RuntimeAssumption ==
    /\ Main \in Goroutine
    /\ Collects \in [Goroutine -> SUBSET Source]
    /\ Collects[Main] = {}
    /\ Public \subseteq Addr
    /\ MaxChanges \in Nat /\ MaxEdits \in Nat /\ MaxFailures \in Nat

VARIABLES pc,         \* where runResponder is
          unlistened, \* sources dockerListen and cniListen have yet to read
          ready,      \* the ready file: "empty", "marked", or "stale": marked
                      \* by an earlier process that was killed
          ctx,        \* "live" or "done": the termination signal arrived
          result,     \* what runResponder returned: "none", "nil", "error"
          changes, edits, failures  \* counters for the bounds above

inputs == <<registryVars, staticVars>>
bounds == <<changes, edits, failures>>
runtimeVars == <<inputs, pc, unlistened, ready, ctx, result, bounds>>

RuntimeInit ==
    /\ RegistryInit
    /\ StaticInit
    /\ pc = "clear"
    /\ unlistened = Source
    /\ ready \in {"empty", "stale"}
    /\ ctx = "live"
    /\ result = "none"
    /\ changes = 0 /\ edits = 0 /\ failures = 0

\* A bug: internal addresses are announced like public ones.
AnnounceEvery(a) == TRUE

runtimeAddressNeedsAnnouncement(a) == a \in Public

RuntimeTargets ==
    {a \in UnionOf(activeIPSources) : runtimeAddressNeedsAnnouncement(a)}

-----------------------------------------------------------------------------
(* The main goroutine *)

\* Everything but pc stays; an action of the responder says what else changes.
Advance(from, to) == pc = from /\ pc' = to

\* runResponder returns err: the deferred calls run from next on.
ReturnError(from, next) ==
    /\ Advance(from, next)
    /\ result' = "error"
    /\ UNCHANGED <<inputs, unlistened, ready, ctx, bounds>>

clearResponderReadyFile(from, to) ==
    /\ Advance(from, to)
    /\ ready' = "empty"
    /\ UNCHANGED <<inputs, unlistened, ctx, result, bounds>>

\* The file cannot be written: on the way in main.go and runResponder give up
\* before any deferred call, on the way out it is only logged.
ClearReadyFails(from) ==
    /\ Advance(from, "exited")
    /\ failures < MaxFailures /\ failures' = failures + 1
    /\ result' = IF result = "none" THEN "error" ELSE result
    /\ UNCHANGED <<inputs, unlistened, ready, ctx, changes, edits>>

markResponderReady(from, to) ==
    /\ Advance(from, to)
    /\ ready' = "marked"
    /\ UNCHANGED <<inputs, unlistened, ctx, result, bounds>>

\* dockerListen and cniListen read every configured source once, in the main
\* goroutine, before the collector loops start.
ListenRead ==
    /\ pc = "listen"
    /\ \E s \in unlistened, addresses \in SUBSET Addr :
         /\ ReplaceBuild(Main, s, addresses)
         /\ unlistened' = unlistened \ {s}
    /\ UNCHANGED <<staticVars, pc, ready, ctx, result, bounds>>

\* A bug: an unavailable API only costs a warning at startup.
ListenWarns(next) ==
    /\ Advance("listen", "mark")
    /\ unlistened # {}
    /\ call[Main].pc = "idle"
    /\ UNCHANGED <<inputs, unlistened, ready, ctx, result, bounds>>

\* The API is down, a network is missing or a lease directory is invalid.
ListenFails(next) ==
    /\ unlistened # {}
    /\ call[Main].pc = "idle"
    /\ ReturnError("listen", next)

\* activeAddressSnapshot and the return from the last refresh need the mutex.
ListenDone == /\ unlistened = {}
              /\ call[Main].pc = "idle"

\* Main finishes a replaceActiveIPSource call it started in listen.
MainContinues ==
    /\ ReplaceContinue(Main)
    /\ UNCHANGED <<staticVars, pc, unlistened, ready, ctx, result, bounds>>

\* A bug: the loop ends on a signal only while nothing is being announced.
LoopStopIfIdle(next) ==
    /\ Advance("loop", next)
    /\ ctx = "done"
    /\ activeIPsChanged = 0 /\ newActiveIP = <<>>
    /\ result' = "nil"
    /\ UNCHANGED <<inputs, unlistened, ready, ctx, bounds>>

\* The case of ctx.Done in the select.
LoopStop(next) ==
    /\ Advance("loop", next)
    /\ ctx = "done"
    /\ result' = "nil"
    /\ UNCHANGED <<inputs, unlistened, ready, ctx, bounds>>

-----------------------------------------------------------------------------
(* The other goroutines and the environment, until the process exits *)

Running == pc # "exited"

\* "go dockerEventLoop" and "go cniRefreshLoop" come after the first reads.
LoopStarted(g) == /\ Collects[g] # {}
                  /\ Collects[g] \cap unlistened = {}
                  /\ call[Main].source \notin Collects[g]

CollectorRefreshes(g) ==
    /\ Running /\ LoopStarted(g)
    /\ \E s \in Collects[g], addresses \in SUBSET Addr :
         /\ ReplaceBuild(g, s, addresses)
         /\ addresses # activeIPSources[s] => changes < MaxChanges
         /\ changes' = IF addresses = activeIPSources[s] THEN changes
                                                         ELSE changes + 1
    /\ UNCHANGED <<staticVars, pc, unlistened, ready, ctx, result, edits, failures>>

CollectorContinues(g) ==
    /\ Running
    /\ g # Main
    /\ ReplaceContinue(g)
    /\ UNCHANGED <<staticVars, pc, unlistened, ready, ctx, result, bounds>>

FileRewritten ==
    /\ Running
    /\ edits < MaxEdits
    /\ edits' = edits + 1
    /\ \E file \in TargetFiles : RewriteTargetFile(file)
    /\ UNCHANGED <<registryVars, pc, unlistened, ready, ctx, result, changes, failures>>

Signalled ==
    /\ Running
    /\ ctx = "live"
    /\ ctx' = "done"
    /\ UNCHANGED <<inputs, pc, unlistened, ready, result, bounds>>

Environment == \/ \E g \in Goroutine : CollectorRefreshes(g) \/ CollectorContinues(g)
               \/ FileRewritten
               \/ Signalled

-----------------------------------------------------------------------------
(* Types of the shared variables. *)
RuntimeTypeOK ==
    /\ RegistryTypeOK
    /\ StaticTypeOK
    /\ unlistened \subseteq Source
    /\ ready \in {"empty", "stale", "marked"}
    /\ ctx \in {"live", "done"}
    /\ result \in {"none", "nil", "error"}
    /\ changes \in Nat /\ edits \in Nat /\ failures \in Nat

\* A marked ready file means that every configured source was read (README.md:106,
\* "a startup failure rather than a false-ready responder"); the mark of an
\* earlier process outlives the first step only when it cannot be removed.
ReadyMeansServing ==
    /\ ready = "marked" => unlistened = {}
    /\ ready = "stale" => pc = "clear" \/ (pc = "exited" /\ result = "error")

\* runResponder returns nil only for a termination signal, and leaves no
\* readiness behind whichever way it returns, unless the file resists.
ExitMeansStopped ==
    /\ result = "nil" => ctx = "done"
    /\ pc = "exited" => /\ result # "none"
                        /\ ready = "empty" \/ failures > 0

\* A termination signal ends the run even under a stream of changes and ticks.
StopsAfterSignal == ctx = "done" ~> pc = "exited"
====
