---- MODULE LinuxResponder ----
(***************************************************************************)
(* runResponder on Linux (runtime_linux.go) with the capture goroutine     *)
(* (CaptureNeighSolicitation, ndp.go): startup announcements, answers to   *)
(* neighbor solicitations, announcements of new runtime addresses and of   *)
(* static hosts, the ready file and the deferred cleanup.                  *)
(***************************************************************************)
EXTENDS Runtime, NDPFrames

CONSTANTS Solicited,   \* the solicitations on the link
          GatewayIP,   \* the gateway of the selected interface, or None
          CaptureCap   \* capacity of the solicitation channel: 64

ASSUME LinuxAssumption == CaptureCap \in Nat

VARIABLES solicitations,    \* the channel of captured solicitations
          capture,          \* the capture goroutine: "off", "read", "send", "ended"
          pending,          \* the solicitation it is about to send, or None
          channel,          \* "open" or "closed"
          announcedStatic,  \* static hosts already announced
          wire,    \* the frames the main goroutine's last step sent
          told,    \* their announcement was sent, or failed to be, since they
                   \* last joined the registry (not in code)
          dropped  \* dropped by a full newActiveIP since then (not in code)

captureVars == <<solicitations, capture, pending, channel>>
ghosts == <<told, dropped>>
linuxVars == <<captureVars, announcedStatic, wire, ghosts>>
vars == <<runtimeVars, linuxVars>>

Init ==
    /\ RuntimeInit
    /\ solicitations = <<>> /\ capture = "off" /\ pending = None /\ channel = "open"
    /\ announcedStatic = {}
    /\ wire = {} /\ told = {} /\ dropped = {}

Registered == UnionOf(activeIPSources)

\* An address that leaves the registry has to be announced again when it
\* comes back.
Forget == /\ told' = told \cap UnionOf(activeIPSources')
          /\ dropped' = dropped \cap UnionOf(activeIPSources')

Silent == wire' = {}

\* The address of the call's step that found newActiveIP full.
LeftOut(g) == IF call[g].pc = "publish" /\ Len(newActiveIP) = QueueCap
              THEN call[g].new \ call'[g].new ELSE {}

Publishes(g) == /\ dropped' = dropped \cup (LeftOut(g) \cap Registered)
                /\ UNCHANGED told

-----------------------------------------------------------------------------
(* Startup *)

ClearReady ==
    /\ clearResponderReadyFile("clear", "prepare") \/ ClearReadyFails("clear")
    /\ Silent /\ UNCHANGED <<captureVars, announcedStatic, ghosts>>

\* prepareResponder selects an interface and opens its packet socket.
Prepare ==
    /\ \/ ReturnError("prepare", "clearing")
       \/ /\ Advance("prepare", "listen")
          /\ UNCHANGED <<inputs, unlistened, ready, ctx, result, bounds>>
    /\ Silent /\ UNCHANGED <<captureVars, announcedStatic, ghosts>>

Listen ==
    /\ \/ ListenRead /\ Forget
       \/ ListenFails("closing") /\ UNCHANGED ghosts
       \/ MainContinues /\ Publishes(Main)
    /\ Silent /\ UNCHANGED <<captureVars, announcedStatic>>

StartCapture ==
    /\ ListenDone
    /\ Advance("listen", "announceStatic")
    /\ capture' = "read"
    /\ Silent
    /\ UNCHANGED <<inputs, unlistened, ready, ctx, result, bounds, solicitations,
                   pending, channel, announcedStatic, ghosts>>

\* A bug: hosts no longer listed are kept.
KeepAnnounced(failed) == announcedStatic \cup (currentStaticHosts' \ failed)

NowAnnounced(failed) ==
    (announcedStatic \cup (currentStaticHosts' \ failed)) \cap currentStaticHosts'

\* Some writes of a step fail, which counts as one failure.
Writes(failed) == /\ failed # {} => failures < MaxFailures
                  /\ failures' = IF failed = {} THEN failures ELSE failures + 1

\* announceStaticTargets, with the writes for the addresses in failed failing:
\* what failed, or cannot be advertised, is tried again on the next tick, what
\* is gone is forgotten.
announceStaticTargets ==
    LET fresh == {ip \in currentStaticHosts' \ announcedStatic : Advertisable(ip)}
    IN \E failed \in SUBSET fresh :
      /\ Writes(failed)
      /\ announcedStatic' = NowAnnounced(failed \cup Unadvertisable)
      /\ wire' = {UnsolicitedAdvertisement(ip) : ip \in fresh \ failed}
      /\ UNCHANGED <<unlistened, ready, ctx, result, changes, edits, captureVars, ghosts>>

AnnounceStaticAtStart ==
    /\ Advance("announceStatic", "announceRuntime")
    /\ UNCHANGED inputs
    /\ announceStaticTargets

\* The startup snapshot, announced whatever the queue holds; what fails is
\* only logged.
AnnounceRuntimeAtStart ==
    /\ activeIPSourceMu = None
    /\ Advance("announceRuntime", "mark")
    /\ \E failed \in SUBSET RuntimeTargets :
         /\ Writes(failed)
         /\ wire' = {UnsolicitedAdvertisement(ip) : ip \in RuntimeTargets \ failed}
    /\ told' = told \cup RuntimeTargets
    /\ UNCHANGED <<inputs, unlistened, ready, ctx, result, changes, edits,
                   captureVars, announcedStatic, dropped>>

MarkReady ==
    /\ markResponderReady("mark", "loop") \/ ReturnError("mark", "closing")
    /\ Silent /\ UNCHANGED <<captureVars, announcedStatic, ghosts>>

-----------------------------------------------------------------------------
(* The select loop *)

Stop == /\ LoopStop("closing")
        /\ Silent /\ UNCHANGED <<captureVars, announcedStatic, ghosts>>

\* A bug: hosts are announced only when the reload changed the list.
LoopTickIfEdited ==
    /\ HasTargetFile
    /\ Advance("loop", "loop")
    /\ reloadStaticTargetFile
    /\ IF staticTargets' = staticTargets
       THEN Silent /\ UNCHANGED <<unlistened, ready, ctx, result, bounds,
                                  captureVars, announcedStatic, ghosts>>
       ELSE announceStaticTargets
    /\ UNCHANGED registryVars

LoopTick ==
    /\ HasTargetFile
    /\ Advance("loop", "loop")
    /\ reloadStaticTargetFile
    /\ announceStaticTargets
    /\ UNCHANGED registryVars

\* A bug: the static targets are looked up only when the runtime has none.
TargetReasonRuntimeFirst(target) ==
    IF activeIPs # {} THEN target \in activeIPs \cap Public
                      ELSE target \in targetSubnets

solicitationTargetReason(target) ==
    \/ target \in activeIPs /\ runtimeAddressNeedsAnnouncement(target)
    \/ target \in targetSubnets

\* One solicitation: ignored, or answered unless the write fails.
LoopSolicitation ==
    /\ Advance("loop", "loop")
    /\ solicitations # <<>>
    /\ solicitations' = Tail(solicitations)
    /\ LET ns == Head(solicitations)
       IN IF solicitationTargetReason(ns.target)
          THEN \E failed \in SUBSET {Respond(ns)} :
                 Writes(failed) /\ wire' = {Respond(ns)} \ failed
          ELSE Silent /\ UNCHANGED failures
    /\ UNCHANGED <<inputs, unlistened, ready, ctx, result, changes, edits,
                   capture, pending, channel, announcedStatic, ghosts>>

\* A bug: a capture that stopped counts as a clean stop.
StopErrorNever == "nil"

solicitationCaptureStopError == IF ctx = "done" THEN "nil" ELSE "error"

LoopCaptureStopped ==
    /\ Advance("loop", "closing")
    /\ channel = "closed" /\ solicitations = <<>>
    /\ result' = solicitationCaptureStopError
    /\ Silent
    /\ UNCHANGED <<inputs, unlistened, ready, ctx, bounds, captureVars,
                   announcedStatic, ghosts>>

NewAddressFrames(ip) ==
    {UnsolicitedAdvertisement(ip), Gratuitous(ip)}
      \cup {Solicit(gateway, ip) : gateway \in {GatewayIP} \ {None}}

\* One new address: a failed write is only logged and does not keep the others
\* from being tried.  Whether the address is still registered is not asked.
LoopNewAddress ==
    /\ Advance("loop", "loop")
    /\ TakeNew
    /\ LET ip == Head(newActiveIP)
       IN IF runtimeAddressNeedsAnnouncement(ip)
          THEN /\ told' = told \cup ({ip} \cap Registered)
               /\ \E failed \in SUBSET NewAddressFrames(ip) :
                    Writes(failed) /\ wire' = NewAddressFrames(ip) \ failed
          ELSE Silent /\ UNCHANGED <<told, failures>>
    /\ UNCHANGED <<staticVars, unlistened, ready, ctx, result, changes, edits,
                   captureVars, announcedStatic, dropped>>

-----------------------------------------------------------------------------
(* The deferred calls, last one first: the socket, then the ready file.  The *)
(* closed socket is a read error for the capture goroutine.                  *)

CloseHandle ==
    /\ Advance("closing", "clearing")
    /\ Silent
    /\ UNCHANGED <<inputs, unlistened, ready, ctx, result, bounds, captureVars,
                   announcedStatic, ghosts>>

ClearReadyAtExit ==
    /\ clearResponderReadyFile("clearing", "exited") \/ ClearReadyFails("clearing")
    /\ Silent /\ UNCHANGED <<captureVars, announcedStatic, ghosts>>

-----------------------------------------------------------------------------
(* The capture goroutine.  A packet that does not decode to the four layers *)
(* of a solicitation changes nothing.                                       *)

HandleClosed == pc \in {"clearing", "exited"}

CaptureReads ==
    /\ capture = "read" /\ ~HandleClosed
    /\ capture' = "send"
    /\ pending' \in Solicited
    /\ UNCHANGED <<runtimeVars, solicitations, channel, announcedStatic, wire, ghosts>>

\* A bug: the send waits for room in the channel.
SendBlocking(ns) == /\ Len(solicitations) < CaptureCap
                    /\ solicitations' = Append(solicitations, ns)

\* A bug: the solicitations are kept in a buffer without a bound.
SendUnbounded(ns) == solicitations' = Append(solicitations, ns)

\* The send gives up when the channel is full.
Send(ns) == solicitations' = IF Len(solicitations) < CaptureCap
                             THEN Append(solicitations, ns)
                             ELSE solicitations

CaptureSends ==
    /\ capture = "send"
    /\ Send(pending)
    /\ capture' = "read" /\ pending' = None
    /\ UNCHANGED <<runtimeVars, channel, announcedStatic, wire, ghosts>>

\* Any read error is terminal: the handle is closed, or the socket failed.
CaptureEnds ==
    /\ capture = "read"
    /\ \/ HandleClosed /\ UNCHANGED failures
       \/ failures < MaxFailures /\ failures' = failures + 1
    /\ capture' = "ended" /\ channel' = "closed"
    /\ UNCHANGED <<inputs, pc, unlistened, ready, ctx, result, changes, edits,
                   solicitations, pending, announcedStatic, wire, ghosts>>

Capture == CaptureReads \/ CaptureSends \/ CaptureEnds

-----------------------------------------------------------------------------
Collector(g) == \/ CollectorRefreshes(g) /\ Forget
                \/ CollectorContinues(g) /\ Publishes(g)

Outside == \/ \E g \in Goroutine : Collector(g)
           \/ (FileRewritten \/ Signalled) /\ UNCHANGED ghosts

Exited == pc = "exited" /\ capture \in {"off", "ended"} /\ UNCHANGED vars

MainStep == \/ ClearReady \/ Prepare \/ Listen \/ StartCapture
            \/ AnnounceStaticAtStart \/ AnnounceRuntimeAtStart \/ MarkReady
            \/ Stop \/ LoopTick \/ LoopSolicitation \/ LoopCaptureStopped
            \/ LoopNewAddress \/ CloseHandle \/ ClearReadyAtExit

Next == \/ MainStep
        \/ Capture
        \/ Outside /\ UNCHANGED <<captureVars, announcedStatic, wire>>
        \/ Exited

Spec == Init /\ [][Next]_vars

\* As in BSDRuntime: goroutines run, the mutex is handed over, and the select
\* takes a case that is ready again and again.
Fairness ==
    /\ SF_vars(MainStep)
    /\ \A g \in Goroutine :
         WF_vars(CollectorContinues(g) /\ Publishes(g)
                   /\ UNCHANGED <<captureVars, announcedStatic, wire>>)
    /\ SF_vars(Stop) /\ SF_vars(LoopTick) /\ SF_vars(LoopNewAddress)
    /\ WF_vars(CaptureSends) /\ WF_vars(CaptureEnds)

FairSpec == Spec /\ Fairness

-----------------------------------------------------------------------------
(* Types. *)
LinuxTypeOK ==
    /\ RuntimeTypeOK
    /\ pc \in {"clear", "prepare", "listen", "announceStatic", "announceRuntime",
               "mark", "loop", "closing", "clearing", "exited"}
    /\ solicitations \in Seq(Solicited) /\ Len(solicitations) <= CaptureCap
    /\ capture \in {"off", "read", "send", "ended"}
    /\ pending \in Solicited \cup {None}
    /\ channel \in {"open", "closed"}
    /\ announcedStatic \subseteq StaticAddr
    /\ Claimed(wire) \subseteq Addr \cup StaticAddr
    /\ told \subseteq Registered /\ dropped \subseteq Registered

Queued == {newActiveIP[i] : i \in 1..Len(newActiveIP)}

\* Addresses a call in progress has found new and not yet published.
Owed == UNION {call[g].new : g \in Goroutine}

\* No public address joins the registry without an announcement: since it
\* joined one was sent or failed to be, or it waits in the queue, or the call that
\* added it has yet to publish it, or the queue was full when it did
\* (active_ips_linux.go:16-17).  It may join, leave and join again while older
\* announcements are queued, and move between sources.
NewAddressesAnnounced ==
    RuntimeTargets \subseteq told \cup Queued \cup Owed \cup dropped

\* No internal runtime address is ever claimed on the uplink, by an answer or
\* an announcement, unless it is covered by a static target
\* (runtime_linux.go:139-142, ipv6_policy.go:5-9).
NoInternalAdvertised == Claimed(wire) \subseteq Public \cup StaticAddr

\* While no refresh is inside its critical section, a solicitation is answered
\* if and only if its target is a public address of some source or covered by
\* the static list, although the loop reads the published set without a lock;
\* only a failed write goes unanswered.  The answer goes to the node that asked
\* and claims the target and nothing else.
AnswersWhatItServes ==
    [][solicitations # <<>> /\ LoopSolicitation /\ activeIPSourceMu = None =>
         LET ns == Head(solicitations)
         IN /\ ns.target \in RuntimeTargets \cup Covered(staticTargets)
                 <=> wire' # {} \/ failures' > failures
            /\ wire' # {} => Claimed(wire') = {ns.target}
            /\ \A frame \in wire' : frame.to = ns.router]_vars

\* In the loop the announced hosts are hosts of the current list, and all of
\* them that can be advertised unless a write failed: a host that is removed
\* and listed again is announced again.
StaticHostsAnnounced ==
    pc = "loop" => /\ announcedStatic \subseteq currentStaticHosts
                   /\ failures = 0 => announcedStatic = currentStaticHosts \ Unadvertisable

Ending == pc \in {"closing", "clearing", "exited"}

\* With a target file, a static host whose announcement failed is announced on
\* a later tick, however often others that cannot be advertised fail before it.
StaticEventuallyAnnounced ==
    <>[](Ending \/ currentStaticHosts \subseteq announcedStatic \cup Unadvertisable)

\* The announcement of a public address that stays registered is at least
\* tried, unless the queue was full or the run ends.
RuntimeEventuallyAnnounced ==
    <>[](Ending \/ RuntimeTargets \subseteq told \cup dropped)

\* The capture goroutine ends once its socket is closed, even when nobody
\* receives its solicitations any more (ndp.go:206-210).
CaptureStops == HandleClosed ~> capture \in {"off", "ended"}

\* docker.go:145: "A removed network must stop being advertised."
RemovedNotAdvertised ==
    [][LoopNewAddress => Claimed(wire') \subseteq activeIPs \cup targetSubnets]_vars
====
