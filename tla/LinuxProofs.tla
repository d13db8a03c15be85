---- MODULE LinuxProofs ----
(***************************************************************************)
(* Proofs about the responder on Linux, for any number of collectors,      *)
(* sources and addresses, any target file, any solicitations on the link   *)
(* and any capacities of the two queues.                                   *)
(***************************************************************************)
EXTENDS LinuxResponder, ActiveIPsProofs, StaticTargetsProofs

\* A step beside the registry: nothing in it changes, and at most more of its
\* addresses have been announced.
Aside == /\ UNCHANGED <<registryVars, dropped>>
         /\ told \subseteq told'

\* What a step of runResponder or of the capture goroutine does to the
\* registry: nothing, but for a receive from newActiveIP and startup's reads.
LEMMA MainKeepsRegistry ==
    ASSUME MainStep \/ Capture \/ Exited
    PROVE  \/ Aside
           \/ LoopNewAddress
           \/ ListenRead /\ Forget
           \/ MainContinues /\ Publishes(Main)
<1> USE DEF inputs, registryVars, Advance, ReturnError, ghosts, Aside
<1>1. CASE ClearReady \/ ClearReadyAtExit
  BY <1>1 DEF ClearReady, ClearReadyAtExit, clearResponderReadyFile, ClearReadyFails
<1>2. CASE Prepare \/ StartCapture \/ MarkReady
  BY <1>2 DEF Prepare, StartCapture, MarkReady, markResponderReady
<1>3. CASE Listen
  BY <1>3 DEF Listen, ListenFails
<1>4. CASE AnnounceStaticAtStart \/ AnnounceRuntimeAtStart
  BY <1>4 DEF AnnounceStaticAtStart, announceStaticTargets, AnnounceRuntimeAtStart
<1>5. CASE Stop \/ LoopTick \/ LoopSolicitation \/ LoopCaptureStopped \/ CloseHandle
  BY <1>5 DEF Stop, LoopStop, LoopTick, announceStaticTargets, LoopSolicitation,
              LoopCaptureStopped, CloseHandle
<1>6. CASE LoopNewAddress
  BY <1>6
<1>7. CASE Capture
  BY <1>7 DEF Capture, CaptureReads, CaptureSends, CaptureEnds, runtimeVars
<1>8. CASE Exited
  BY <1>8 DEF Exited, vars, runtimeVars, linuxVars
<1> QED
  BY <1>1, <1>2, <1>3, <1>4, <1>5, <1>6, <1>7, <1>8 DEF MainStep

\* A step that changes the registry is one call's step by one goroutine, with
\* its bookkeeping, or the loop's receive from newActiveIP.
LEMMA RegistryStepsOnly ==
    ASSUME [Next]_vars
    PROVE  \/ Aside
           \/ LoopNewAddress
           \/ ListenRead /\ Forget
           \/ \E g \in Goroutine : CollectorRefreshes(g) /\ Forget
           \/ \E g \in Goroutine : ReplaceContinue(g) /\ Publishes(g)
<1>1. CASE MainStep \/ Capture \/ Exited
  BY <1>1, MainKeepsRegistry, RuntimeAssumption DEF MainContinues
<1>2. CASE Outside
  <2>1. CASE FileRewritten /\ UNCHANGED ghosts
    BY <2>1 DEF FileRewritten, Aside, ghosts
  <2>2. CASE Signalled /\ UNCHANGED ghosts
    BY <2>2 DEF Signalled, inputs, Aside, ghosts
  <2>3. ASSUME NEW g \in Goroutine, Collector(g)
        PROVE \/ CollectorRefreshes(g) /\ Forget
              \/ ReplaceContinue(g) /\ Publishes(g)
    BY <2>3 DEF Collector, CollectorContinues
  <2> QED
    BY <1>2, <2>1, <2>2, <2>3 DEF Outside
<1>3. CASE UNCHANGED vars
  BY <1>3 DEF vars, runtimeVars, inputs, linuxVars, ghosts, Aside
<1> QED
  BY <1>1, <1>2, <1>3 DEF Next

\* The sources still to be read at startup are sources: the set only shrinks.
UnlistenedKnown == unlistened \subseteq Source

LEMMA UnlistenedShrinks == [Next]_vars => unlistened' \subseteq unlistened
<1> SUFFICES ASSUME [Next]_vars PROVE unlistened' \subseteq unlistened
  OBVIOUS
<1> USE DEF ReturnError
<1>1. CASE ClearReady \/ ClearReadyAtExit
  BY <1>1 DEF ClearReady, ClearReadyAtExit, clearResponderReadyFile, ClearReadyFails
<1>2. CASE Prepare \/ StartCapture \/ MarkReady
  BY <1>2 DEF Prepare, StartCapture, MarkReady, markResponderReady
<1>3. CASE Listen
  BY <1>3 DEF Listen, ListenRead, ListenFails, MainContinues
<1>4. CASE AnnounceStaticAtStart \/ AnnounceRuntimeAtStart
  BY <1>4 DEF AnnounceStaticAtStart, announceStaticTargets, AnnounceRuntimeAtStart
<1>5. CASE Stop \/ LoopTick \/ LoopSolicitation \/ LoopCaptureStopped \/ CloseHandle
  BY <1>5 DEF Stop, LoopStop, LoopTick, announceStaticTargets, LoopSolicitation,
              LoopCaptureStopped, CloseHandle
<1>6. CASE LoopNewAddress
  BY <1>6 DEF LoopNewAddress
<1>7. CASE Capture
  BY <1>7 DEF Capture, CaptureReads, CaptureSends, CaptureEnds, runtimeVars
<1>8. CASE Outside
  BY <1>8 DEF Outside, Collector, CollectorRefreshes, CollectorContinues, FileRewritten,
              Signalled
<1>9. CASE UNCHANGED vars \/ Exited
  BY <1>9 DEF vars, runtimeVars, Exited
<1> QED
  BY <1>1, <1>2, <1>3, <1>4, <1>5, <1>6, <1>7, <1>8, <1>9 DEF Next, MainStep

LEMMA UnlistenedAreSources == Spec => []UnlistenedKnown
<1>1. Init => UnlistenedKnown
  BY DEF Init, RuntimeInit, UnlistenedKnown
<1>2. UnlistenedKnown /\ [Next]_vars => UnlistenedKnown'
  BY UnlistenedShrinks DEF UnlistenedKnown
<1> QED
  BY <1>1, <1>2, PTL DEF Spec

\* Every step of the responder is a step of the registry or leaves it alone.
LEMMA StepIsRegistryStep ==
    UnlistenedKnown /\ [Next]_vars => [RegistryNext]_registryVars
<1> SUFFICES ASSUME UnlistenedKnown, [Next]_vars PROVE [RegistryNext]_registryVars
  OBVIOUS
<1>1. CASE LoopNewAddress
  BY <1>1 DEF LoopNewAddress, RegistryNext
<1>2. CASE ListenRead
  BY <1>2, RuntimeAssumption DEF UnlistenedKnown, ListenRead, ReplaceStart, RegistryNext
<1>3. ASSUME NEW g \in Goroutine, CollectorRefreshes(g) PROVE RegistryNext
  BY <1>3, RuntimeAssumption DEF CollectorRefreshes, ReplaceStart, RegistryNext
<1>4. ASSUME NEW g \in Goroutine, ReplaceContinue(g) PROVE RegistryNext
  BY <1>4 DEF RegistryNext
<1> QED
  BY <1>1, <1>2, <1>3, <1>4, RegistryStepsOnly DEF Aside

\* The responder uses the registry as ActiveIPs specifies it.
THEOREM LinuxImplementsRegistry == Spec => RegistrySpec
<1>1. Init => RegistryInit
  BY DEF Init, RuntimeInit
<1> QED
  BY <1>1, StepIsRegistryStep, UnlistenedAreSources, PTL DEF Spec, RegistrySpec

-----------------------------------------------------------------------------
(* The target file: only a tick reloads it. *)

LEMMA StaticStepsOnly ==
    ASSUME [Next]_vars
    PROVE  UNCHANGED staticVars \/ LoopTick \/ FileRewritten
<1> USE DEF ReturnError, inputs
<1>1. CASE ClearReady \/ ClearReadyAtExit
  BY <1>1 DEF ClearReady, ClearReadyAtExit, clearResponderReadyFile, ClearReadyFails
<1>2. CASE Prepare \/ StartCapture \/ MarkReady
  BY <1>2 DEF Prepare, StartCapture, MarkReady, markResponderReady
<1>3. CASE Listen
  BY <1>3 DEF Listen, ListenRead, ListenFails, MainContinues
<1>4. CASE AnnounceStaticAtStart \/ AnnounceRuntimeAtStart
  BY <1>4 DEF AnnounceStaticAtStart, AnnounceRuntimeAtStart
<1>5. CASE Stop \/ LoopSolicitation \/ LoopCaptureStopped \/ CloseHandle
  BY <1>5 DEF Stop, LoopStop, LoopSolicitation, LoopCaptureStopped, CloseHandle
<1>6. CASE LoopNewAddress
  BY <1>6 DEF LoopNewAddress
<1>7. CASE Capture
  BY <1>7 DEF Capture, CaptureReads, CaptureSends, CaptureEnds, runtimeVars
<1>8. CASE Outside
  BY <1>8 DEF Outside, Collector, CollectorRefreshes, CollectorContinues, Signalled
<1>9. CASE UNCHANGED vars \/ Exited
  BY <1>9 DEF vars, runtimeVars, Exited
<1> QED
  BY <1>1, <1>2, <1>3, <1>4, <1>5, <1>6, <1>7, <1>8, <1>9 DEF Next, MainStep

\* The prefixes given with -n survive whatever happens to the target file, and
\* the lookup set never departs from the list it is built from.
THEOREM LinuxKeepsCLITargets == Spec => [](StaticTypeOK /\ CLITargetsKept)
<1>1. Init => StaticTypeOK /\ CLITargetsKept
  BY StaticInvInit DEF Init, RuntimeInit
<1>2. StaticTypeOK /\ CLITargetsKept /\ [Next]_vars => (StaticTypeOK /\ CLITargetsKept)'
  BY StaticInvNext, StaticStepsOnly DEF FileRewritten, LoopTick
<1> QED
  BY <1>1, <1>2, PTL DEF Spec

-----------------------------------------------------------------------------
(* What is claimed on the link *)

\* Frames claim addresses of a set when their targets, or the sources of
\* those that are solicitations, are in it.
LEMMA ClaimedWithin ==
    ASSUME NEW frames, NEW S,
           \A f \in frames : f.type = "advertisement" => f.target \in S,
           \A f \in frames : f.type = "solicitation" => f.source \in S \cup {Unspecified}
    PROVE  Claimed(frames) \subseteq S
BY DEF Claimed

LEMMA AnnouncementsClaim ==
    ASSUME NEW ips, NEW frames, frames = {UnsolicitedAdvertisement(ip) : ip \in ips}
    PROVE  Claimed(frames) \subseteq ips
<1>1. ASSUME NEW f \in frames PROVE f.type = "advertisement" /\ f.target \in ips
  <2>1. PICK ip \in ips : f = UnsolicitedAdvertisement(ip)
    OBVIOUS
  <2> QED
    BY <2>1 DEF UnsolicitedAdvertisement, Advertisement
<1> QED
  BY <1>1 DEF Claimed

LEMMA NewAddressClaims ==
    ASSUME NEW ip, NEW frames \in SUBSET NewAddressFrames(ip)
    PROVE  Claimed(frames) \subseteq {ip}
<1>1. ASSUME NEW f \in frames
      PROVE  /\ f.type = "advertisement" => f.target = ip
             /\ f.type = "solicitation" => f.source \in {ip, Unspecified}
  <2>1. \/ f = UnsolicitedAdvertisement(ip)
        \/ f = Gratuitous(ip)
        \/ \E gateway \in {GatewayIP} \ {None} : f = Solicit(gateway, ip)
    BY DEF NewAddressFrames
  <2>2. CASE f = UnsolicitedAdvertisement(ip)
    BY <2>2 DEF UnsolicitedAdvertisement, Advertisement
  <2>3. CASE f = Gratuitous(ip)
    BY <2>3 DEF Gratuitous, Solicitation
  <2>4. ASSUME NEW gateway, f = Solicit(gateway, ip)
        PROVE  f.type = "solicitation" /\ f.source = ip
    BY <2>4 DEF Solicit, Solicitation
  <2> QED
    BY <2>1, <2>2, <2>3, <2>4
<1> QED
  BY <1>1, ClaimedWithin

LEMMA AnswerClaims ==
    ASSUME NEW ns
    PROVE  Claimed({Respond(ns)}) = {ns.target} /\ Claimed({}) = {}
<1>1. /\ Respond(ns).type = "advertisement"
      /\ Respond(ns).target = ns.target
  BY DEF Respond, Advertisement
<1>2. Claimed({Respond(ns)}) \subseteq {ns.target}
  BY <1>1, ClaimedWithin
<1>3. Respond(ns) \in {g \in {Respond(ns)} : g.type = "advertisement"}
  BY <1>1
<1>4. ns.target \in Claimed({Respond(ns)})
  BY <1>1, <1>3 DEF Claimed
<1>5. Claimed({}) = {}
  BY DEF Claimed
<1> QED
  BY <1>2, <1>4, <1>5

\* Which steps send something.
LEMMA SendingSteps ==
    ASSUME [Next]_vars
    PROVE  \/ wire' = wire \/ wire' = {}
           \/ AnnounceStaticAtStart \/ LoopTick
           \/ AnnounceRuntimeAtStart \/ LoopSolicitation \/ LoopNewAddress
<1> USE DEF Silent
<1>1. CASE MainStep
  BY <1>1 DEF MainStep, ClearReady, Prepare, Listen, StartCapture, MarkReady, Stop,
              LoopCaptureStopped, CloseHandle, ClearReadyAtExit
<1>2. CASE Capture
  BY <1>2 DEF Capture, CaptureReads, CaptureSends, CaptureEnds
<1> QED
  BY <1>1, <1>2 DEF Next, Exited, vars, linuxVars

LEMMA NoInternalNext ==
    ASSUME StaticTypeOK, StaticTypeOK', RegistryTypeOK, NoInternalAdvertised, [Next]_vars
    PROVE  NoInternalAdvertised'
<1> SUFFICES Claimed(wire') \subseteq Public \cup StaticAddr
  BY DEF NoInternalAdvertised, Claimed
<1>1. CASE wire' = wire \/ wire' = {}
  BY <1>1 DEF NoInternalAdvertised, Claimed
<1>2. CASE AnnounceStaticAtStart \/ LoopTick
  <2>1. announceStaticTargets
    BY <1>2 DEF AnnounceStaticAtStart, LoopTick
  <2> DEFINE fresh == {ip \in currentStaticHosts' \ announcedStatic : Advertisable(ip)}
  <2>2. PICK failed \in SUBSET fresh :
          wire' = {UnsolicitedAdvertisement(ip) : ip \in fresh \ failed}
    BY <2>1 DEF announceStaticTargets
  <2>3. Claimed(wire') \subseteq fresh \ failed
    <3> HIDE DEF fresh
    <3> QED
      BY <2>2, AnnouncementsClaim
  <2>4. fresh \subseteq StaticAddr
    BY DEF currentStaticHosts
  <2> QED
    BY <2>3, <2>4
<1>3. CASE AnnounceRuntimeAtStart
  <2>1. PICK failed \in SUBSET RuntimeTargets :
          wire' = {UnsolicitedAdvertisement(ip) : ip \in RuntimeTargets \ failed}
    BY <1>3 DEF AnnounceRuntimeAtStart
  <2>2. Claimed(wire') \subseteq RuntimeTargets \ failed
    BY <2>1, AnnouncementsClaim
  <2> QED
    BY <2>2 DEF RuntimeTargets, runtimeAddressNeedsAnnouncement
<1>4. CASE LoopSolicitation
  <2> DEFINE ns == Head(solicitations)
  <2>1. \/ solicitationTargetReason(ns.target) /\ (wire' = {Respond(ns)} \/ wire' = {})
        \/ wire' = {}
    BY <1>4 DEF LoopSolicitation, Silent
  <2>2. solicitationTargetReason(ns.target) => ns.target \in Public \cup StaticAddr
    BY DEF solicitationTargetReason, runtimeAddressNeedsAnnouncement, StaticTypeOK
  <2> QED
    BY <2>1, <2>2, AnswerClaims
<1>5. CASE LoopNewAddress
  <2> DEFINE ip == Head(newActiveIP)
  <2>1. \/ wire' = {}
        \/ ip \in Public /\ wire' \in SUBSET NewAddressFrames(ip)
    BY <1>5 DEF LoopNewAddress, Silent, runtimeAddressNeedsAnnouncement
  <2> QED
    BY <2>1, NewAddressClaims, AnswerClaims
<1> QED
  BY <1>1, <1>2, <1>3, <1>4, <1>5, SendingSteps

\* Whatever the containers hold, no frame claims an internal address on the
\* uplink that the user has not listed.
THEOREM LinuxNoInternalAdvertised == Spec => []NoInternalAdvertised
<1>1. Init => NoInternalAdvertised
  BY DEF Init, NoInternalAdvertised, Claimed
<1>2. Spec => []RegistryTypeOK
  BY LinuxImplementsRegistry, RegistryTypes, PTL
<1>3. StaticTypeOK /\ StaticTypeOK' /\ RegistryTypeOK /\ NoInternalAdvertised /\ [Next]_vars
      => NoInternalAdvertised'
  BY NoInternalNext
<1> QED
  BY <1>1, <1>2, <1>3, LinuxKeepsCLITargets, PTL DEF Spec

-----------------------------------------------------------------------------
(* Answers.  The loop looks the target up in the published set, without the  *)
(* mutex; agreement of that set with the sources makes the answer right.     *)

LEMMA AnswerIsRight ==
    ASSUME PublishedAgrees, CLITargetsKept, failures \in Nat,
           solicitations # <<>>, LoopSolicitation, activeIPSourceMu = None
    PROVE  LET ns == Head(solicitations)
           IN /\ ns.target \in RuntimeTargets \cup Covered(staticTargets)
                   <=> wire' # {} \/ failures' > failures
              /\ wire' # {} => Claimed(wire') = {ns.target}
              /\ \A frame \in wire' : frame.to = ns.router
<1> DEFINE ns == Head(solicitations)
<1>1. solicitationTargetReason(ns.target)
        <=> ns.target \in RuntimeTargets \cup Covered(staticTargets)
  BY DEF solicitationTargetReason, PublishedAgrees, CLITargetsKept, RuntimeTargets,
         runtimeAddressNeedsAnnouncement
<1>2. failures + 1 > failures /\ ~(failures > failures)
  OBVIOUS
<1>3. Respond(ns).to = ns.router
  BY DEF Respond, Advertisement
<1>4. CASE solicitationTargetReason(ns.target)
  <2>1. PICK failed \in SUBSET {Respond(ns)} :
          Writes(failed) /\ wire' = {Respond(ns)} \ failed
    BY <1>4 DEF LoopSolicitation
  <2>2. \/ failed = {} /\ wire' = {Respond(ns)}
        \/ wire' = {} /\ failures' = failures + 1
    BY <2>1 DEF Writes
  <2> QED
    BY <1>1, <1>2, <1>3, <1>4, <2>2, AnswerClaims
<1>5. CASE ~solicitationTargetReason(ns.target)
  <2>1. wire' = {} /\ failures' = failures
    BY <1>5 DEF LoopSolicitation, Silent
  <2> QED
    BY <1>1, <1>2, <1>5, <2>1
<1> QED
  BY <1>4, <1>5

\* Failures only ever grow from zero.
FailuresNat == failures \in Nat

LEMMA FailuresCount == FailuresNat /\ [Next]_vars => FailuresNat'
<1> SUFFICES ASSUME FailuresNat, [Next]_vars PROVE FailuresNat'
  OBVIOUS
<1> DEFINE counts == failures' = failures \/ failures' = failures + 1
<1> USE DEF ReturnError, bounds
<1>1. ASSUME ClearReady \/ ClearReadyAtExit PROVE counts
  BY <1>1 DEF ClearReady, ClearReadyAtExit, clearResponderReadyFile, ClearReadyFails
<1>2. ASSUME Prepare \/ StartCapture \/ MarkReady PROVE counts
  BY <1>2 DEF Prepare, StartCapture, MarkReady, markResponderReady
<1>3. ASSUME Listen PROVE counts
  BY <1>3 DEF Listen, ListenRead, ListenFails, MainContinues
<1>4. ASSUME AnnounceStaticAtStart \/ AnnounceRuntimeAtStart \/ LoopTick PROVE counts
  BY <1>4 DEF AnnounceStaticAtStart, announceStaticTargets, AnnounceRuntimeAtStart,
              LoopTick, Writes
<1>5. ASSUME Stop \/ LoopCaptureStopped \/ CloseHandle PROVE counts
  BY <1>5 DEF Stop, LoopStop, LoopCaptureStopped, CloseHandle
<1>6. ASSUME LoopSolicitation \/ LoopNewAddress PROVE counts
  BY <1>6 DEF LoopSolicitation, LoopNewAddress, Writes
<1>7. ASSUME Capture PROVE counts
  BY <1>7 DEF Capture, CaptureReads, CaptureSends, CaptureEnds, runtimeVars
<1>8. ASSUME Outside PROVE counts
  BY <1>8 DEF Outside, Collector, CollectorRefreshes, CollectorContinues, FileRewritten,
              Signalled
<1>9. ASSUME UNCHANGED vars \/ Exited PROVE counts
  BY <1>9 DEF vars, runtimeVars, Exited
<1>10. counts
  BY <1>1, <1>2, <1>3, <1>4, <1>5, <1>6, <1>7, <1>8, <1>9 DEF Next, MainStep
<1>11. failures \in Nat /\ failures + 1 \in Nat
  BY DEF FailuresNat
<1> QED
  BY <1>10, <1>11 DEF FailuresNat

LEMMA FailuresCounted == Spec => []FailuresNat
<1>1. Init => FailuresNat
  BY DEF Init, RuntimeInit, FailuresNat
<1> QED
  BY <1>1, FailuresCount, PTL DEF Spec

\* A solicitation is answered exactly when its target is served.
THEOREM LinuxAnswersWhatItServes == Spec => AnswersWhatItServes
<1>1. Spec => []PublishedAgrees
  BY LinuxImplementsRegistry, PublishedAgreement, PTL
<1>2. PublishedAgrees /\ CLITargetsKept /\ FailuresNat =>
        [solicitations # <<>> /\ LoopSolicitation /\ activeIPSourceMu = None =>
           LET ns == Head(solicitations)
           IN /\ ns.target \in RuntimeTargets \cup Covered(staticTargets)
                   <=> wire' # {} \/ failures' > failures
              /\ wire' # {} => Claimed(wire') = {ns.target}
              /\ \A frame \in wire' : frame.to = ns.router]_vars
  BY AnswerIsRight DEF FailuresNat
<1> QED
  BY <1>1, <1>2, LinuxKeepsCLITargets, FailuresCounted, PTL DEF AnswersWhatItServes

-----------------------------------------------------------------------------
(* Announcements of new addresses.  The invariant is inductive together with *)
(* the types of the registry: an idle call owes nothing.                     *)

IdleOwesNothing == \A g \in Goroutine : call[g].pc = "idle" => call[g].new = {}

AnnouncementDue == told \cup Queued \cup Owed \cup dropped

LEMMA QueueTail ==
    ASSUME NEW S, NEW q \in Seq(S), q # <<>>
    PROVE  \A i \in 1..Len(q) : \/ q[i] = Head(q)
                                \/ \E j \in 1..Len(Tail(q)) : Tail(q)[j] = q[i]
<1> SUFFICES ASSUME NEW i \in 1..Len(q)
             PROVE  \/ q[i] = Head(q)
                    \/ \E j \in 1..Len(Tail(q)) : Tail(q)[j] = q[i]
  OBVIOUS
<1>1. CASE i = 1
  BY <1>1
<1>2. CASE i # 1
  <2>1. i - 1 \in 1..Len(Tail(q)) /\ Tail(q)[i - 1] = q[i]
    BY <1>2
  <2> QED
    BY <2>1
<1> QED
  BY <1>1, <1>2

\* A refresh owes what it adds; what leaves the registry is forgotten.
LEMMA BuildOwesAnnouncement ==
    ASSUME RegistryTypeOK, IdleOwesNothing, NewAddressesAnnounced,
           NEW g \in Goroutine, NEW s \in Source, NEW addresses,
           ReplaceBuild(g, s, addresses), Forget
    PROVE  IdleOwesNothing' /\ NewAddressesAnnounced'
<1>1. /\ call[g].pc = "idle" /\ call[g].new = {}
      /\ \A h \in Goroutine \ {g} : call'[h] = call[h]
      /\ call'[g].pc = "store"
      /\ call'[g].new = KeepIPv6(addresses) \ activeIPSources[s]
      /\ activeIPSources' = [activeIPSources EXCEPT ![s] = KeepIPv6(addresses)]
      /\ newActiveIP' = newActiveIP
  BY DEF ReplaceBuild, RegistryTypeOK, IdleOwesNothing
<1>2. IdleOwesNothing'
  BY <1>1 DEF IdleOwesNothing
<1>3. Owed \subseteq Owed' /\ call'[g].new \subseteq Owed' /\ Queued' = Queued
  BY <1>1 DEF Owed, Queued
<1>4. ASSUME NEW a \in RuntimeTargets' PROVE a \in AnnouncementDue'
  <2>1. a \in UnionOf(activeIPSources') /\ a \in Public
    BY <1>4 DEF RuntimeTargets, runtimeAddressNeedsAnnouncement, UnionOf
  <2>2. CASE a \in call'[g].new
    BY <1>3, <2>2 DEF AnnouncementDue
  <2>3. CASE a \notin call'[g].new
    <3>1. a \in UnionOf(activeIPSources)
      BY <1>1, <2>1, <2>3 DEF UnionOf, RegistryTypeOK
    <3>2. a \in RuntimeTargets
      BY <2>1, <3>1 DEF RuntimeTargets, runtimeAddressNeedsAnnouncement
    <3>3. a \in told \cup Queued \cup Owed \cup dropped
      BY <3>2 DEF NewAddressesAnnounced
    <3> QED
      BY <1>3, <2>1, <3>3 DEF AnnouncementDue, Forget
  <2> QED
    BY <2>2, <2>3
<1> QED
  BY <1>2, <1>4 DEF NewAddressesAnnounced, AnnouncementDue

\* A call that goes on owes until it publishes; what it publishes is queued,
\* or the queue is full.
LEMMA ContinueOwesAnnouncement ==
    ASSUME RegistryTypeOK, IdleOwesNothing, NewAddressesAnnounced,
           NEW g \in Goroutine, ReplaceContinue(g), Publishes(g)
    PROVE  IdleOwesNothing' /\ NewAddressesAnnounced'
<1>1. /\ activeIPSources' = activeIPSources
      /\ \A h \in Goroutine \ {g} : call'[h] = call[h]
  BY DEF ReplaceContinue, ReplaceStore, ReplaceSignal, ReplacePublish, RegistryTypeOK
<1>2. RuntimeTargets' = RuntimeTargets /\ told' = told /\ dropped \subseteq dropped'
  BY <1>1 DEF RuntimeTargets, UnionOf, Publishes
<1>3. CASE ReplaceStore(g) \/ ReplaceSignal(g)
  <2>1. /\ call'[g].new = call[g].new
        /\ call'[g].pc = "idle" => call'[g].new = {}
        /\ newActiveIP' = newActiveIP
    <3>1. CASE ReplaceStore(g)
      BY <3>1 DEF ReplaceStore, RegistryTypeOK, CallType
    <3>2. CASE ReplaceSignal(g)
      <4>1. call'[g] = AfterSignal(call[g]) /\ newActiveIP' = newActiveIP
        BY <3>2 DEF ReplaceSignal, RegistryTypeOK
      <4>2. CASE call[g].new = {}
        BY <4>1, <4>2 DEF AfterSignal, Idle
      <4>3. CASE call[g].new # {}
        BY <4>1, <4>3 DEF AfterSignal, RegistryTypeOK, CallType
      <4> QED
        BY <4>2, <4>3
    <3> QED
      BY <1>3, <3>1, <3>2
  <2>2. Owed' = Owed /\ Queued' = Queued
    BY <1>1, <2>1 DEF Owed, Queued
  <2>3. IdleOwesNothing'
    BY <1>1, <2>1 DEF IdleOwesNothing
  <2> QED
    BY <1>2, <2>2, <2>3 DEF NewAddressesAnnounced
<1>4. CASE ReplacePublish(g)
  <2>1. PICK address \in call[g].new :
          /\ publishNewActiveIP(address)
          /\ call' = [call EXCEPT ![g] = AfterPublish(call[g], address)]
    BY <1>4 DEF ReplacePublish
  <2>2. /\ call'[g].new = call[g].new \ {address}
        /\ call'[g].pc = "idle" => call'[g].new = {}
    <3>1. call'[g] = AfterPublish(call[g], address)
      BY <2>1 DEF RegistryTypeOK
    <3>2. CASE call[g].new = {address}
      BY <3>1, <3>2 DEF AfterPublish, Idle
    <3>3. CASE call[g].new # {address}
      <4>1. call'[g] = [call[g] EXCEPT !.new = call[g].new \ {address}]
        BY <3>1, <3>3 DEF AfterPublish
      <4> QED
        BY <1>4, <4>1 DEF ReplacePublish, RegistryTypeOK, CallType
    <3> QED
      BY <3>2, <3>3
  <2>3. Owed \subseteq Owed' \cup {address}
    BY <1>1, <2>2 DEF Owed
  <2>4. IdleOwesNothing'
    BY <1>1, <2>2 DEF IdleOwesNothing
  <2>5. CASE Len(newActiveIP) < QueueCap
    <3>1. newActiveIP' = Append(newActiveIP, address)
      BY <2>1, <2>5 DEF publishNewActiveIP
    <3>2. /\ Len(newActiveIP') = Len(newActiveIP) + 1
          /\ newActiveIP'[Len(newActiveIP) + 1] = address
          /\ \A i \in 1..Len(newActiveIP) : newActiveIP'[i] = newActiveIP[i]
          /\ Len(newActiveIP) \in Nat
      <4>1. address \in Addr
        BY <2>1 DEF RegistryTypeOK, CallType
      <4> QED
        BY <3>1, <4>1 DEF RegistryTypeOK
    <3>3. Queued \cup {address} \subseteq Queued'
      BY <3>2 DEF Queued
    <3> QED
      BY <1>2, <2>3, <2>4, <3>3 DEF NewAddressesAnnounced
  <2>6. CASE ~(Len(newActiveIP) < QueueCap)
    <3>1. newActiveIP' = newActiveIP /\ Len(newActiveIP) = QueueCap
      BY <2>1, <2>6, RegistryAssumption DEF publishNewActiveIP, RegistryTypeOK
    <3>2. Queued' = Queued /\ address \in LeftOut(g)
      BY <1>4, <2>1, <2>2, <3>1 DEF Queued, LeftOut, ReplacePublish
    <3>3. \A a \in RuntimeTargets : a \in Registered
      BY DEF RuntimeTargets, Registered
    <3>4. address \in RuntimeTargets => address \in dropped'
      BY <3>2, <3>3 DEF Publishes
    <3> QED
      BY <1>2, <2>3, <2>4, <3>2, <3>4 DEF NewAddressesAnnounced
  <2> QED
    BY <2>5, <2>6
<1> QED
  BY <1>3, <1>4 DEF ReplaceContinue

LEMMA AnnouncedNext ==
    RegistryTypeOK /\ UnlistenedKnown /\ IdleOwesNothing /\ NewAddressesAnnounced
      /\ [Next]_vars => IdleOwesNothing' /\ NewAddressesAnnounced'
<1> SUFFICES ASSUME RegistryTypeOK, UnlistenedKnown, IdleOwesNothing,
                    NewAddressesAnnounced, [Next]_vars
             PROVE  IdleOwesNothing' /\ NewAddressesAnnounced'
  OBVIOUS
<1>1. CASE Aside
  BY <1>1 DEF Aside, registryVars, IdleOwesNothing, NewAddressesAnnounced, RuntimeTargets,
              UnionOf, Queued, Owed
<1>2. CASE LoopNewAddress
  <2>1. /\ UNCHANGED <<activeIPSources, call, dropped>>
        /\ newActiveIP # <<>> /\ newActiveIP' = Tail(newActiveIP)
        /\ told \subseteq told'
        /\ LET ip == Head(newActiveIP)
           IN ip \in Public => {ip} \cap Registered \subseteq told'
    BY <1>2 DEF LoopNewAddress, TakeNew, runtimeAddressNeedsAnnouncement
  <2>2. Queued \subseteq Queued' \cup {Head(newActiveIP)}
    BY <2>1, QueueTail DEF Queued, RegistryTypeOK
  <2>3. \A a \in RuntimeTargets : a \in Registered /\ a \in Public
    BY DEF RuntimeTargets, Registered, runtimeAddressNeedsAnnouncement
  <2>4. RuntimeTargets' = RuntimeTargets /\ Owed' = Owed
    BY <2>1 DEF RuntimeTargets, UnionOf, Owed
  <2>5. IdleOwesNothing'
    BY <2>1 DEF IdleOwesNothing
  <2> QED
    BY <2>1, <2>2, <2>3, <2>4, <2>5 DEF NewAddressesAnnounced
<1>3. CASE ListenRead /\ Forget
  <2>1. PICK s \in unlistened, addresses \in SUBSET Addr : ReplaceBuild(Main, s, addresses)
    BY <1>3 DEF ListenRead
  <2>2. s \in Source
    BY DEF UnlistenedKnown
  <2> QED
    BY <1>3, <2>1, <2>2, BuildOwesAnnouncement, RuntimeAssumption
<1>4. ASSUME NEW g \in Goroutine, CollectorRefreshes(g), Forget
      PROVE  IdleOwesNothing' /\ NewAddressesAnnounced'
  <2>1. PICK s \in Collects[g], addresses \in SUBSET Addr : ReplaceBuild(g, s, addresses)
    BY <1>4 DEF CollectorRefreshes
  <2> QED
    BY <1>4, <2>1, BuildOwesAnnouncement, RuntimeAssumption
<1>5. ASSUME NEW g \in Goroutine, ReplaceContinue(g), Publishes(g)
      PROVE  IdleOwesNothing' /\ NewAddressesAnnounced'
  BY <1>5, ContinueOwesAnnouncement
<1> QED
  BY <1>1, <1>2, <1>3, <1>4, <1>5, RegistryStepsOnly

\* No public address joins the registry without an announcement: one was sent
\* or failed, or one is on its way, or the queue was full.
THEOREM LinuxNewAddressesAnnounced == Spec => []NewAddressesAnnounced
<1>1. Init => IdleOwesNothing /\ NewAddressesAnnounced
  BY DEF Init, RuntimeInit, RegistryInit, Idle, IdleOwesNothing, NewAddressesAnnounced,
         RuntimeTargets, UnionOf
<1>2. Spec => []RegistryTypeOK
  BY LinuxImplementsRegistry, RegistryTypes, PTL
<1> QED
  BY <1>1, <1>2, AnnouncedNext, UnlistenedAreSources, PTL DEF Spec

-----------------------------------------------------------------------------
(* Static hosts.  Between the first announcement and the loop, and in the    *)
(* loop, the announced hosts follow the list.                                *)

HostsFollowList ==
    /\ announcedStatic \subseteq currentStaticHosts
    /\ failures = 0 => announcedStatic = currentStaticHosts \ Unadvertisable

StaticAnnouncing ==
    /\ pc \in {"clear", "prepare", "listen", "announceStatic"} => announcedStatic = {}
    /\ pc \in {"announceRuntime", "mark", "loop"} => HostsFollowList

\* One pass over the list catches up, whatever happened to the list before it.
LEMMA PassFollowsList ==
    ASSUME failures \in Nat, announceStaticTargets,
           announcedStatic = {} \/ HostsFollowList
    PROVE  HostsFollowList'
<1> DEFINE fresh == {ip \in currentStaticHosts' \ announcedStatic : Advertisable(ip)}
<1>1. PICK failed \in SUBSET fresh :
        /\ failures' = IF failed = {} THEN failures ELSE failures + 1
        /\ announcedStatic' = NowAnnounced(failed \cup Unadvertisable)
  BY DEF announceStaticTargets, Writes
<1>2. announcedStatic' = (announcedStatic \cup (currentStaticHosts' \ (failed \cup Unadvertisable)))
                           \cap currentStaticHosts'
  BY <1>1 DEF NowAnnounced
<1>3. failures + 1 # 0
  OBVIOUS
<1>4. announcedStatic \cap Unadvertisable = {} \/ failures # 0
  BY DEF HostsFollowList
<1>5. failures' = 0 => failures = 0 /\ failed = {}
  BY <1>1, <1>3
<1>6. announcedStatic' \subseteq currentStaticHosts'
  BY <1>2
<1>7. failures' = 0 => announcedStatic' = currentStaticHosts' \ Unadvertisable
  BY <1>2, <1>4, <1>5
<1> QED
  BY <1>6, <1>7 DEF HostsFollowList, currentStaticHosts

LEMMA StaticAnnouncingNext ==
    FailuresNat /\ StaticAnnouncing /\ [Next]_vars => StaticAnnouncing'
<1> SUFFICES ASSUME FailuresNat, StaticAnnouncing, [Next]_vars PROVE StaticAnnouncing'
  OBVIOUS
<1> USE DEF StaticAnnouncing, Advance
<1>0. failures \in Nat /\ failures + 1 # 0
  BY DEF FailuresNat
<1>1. CASE AnnounceStaticAtStart \/ LoopTick
  <2>1. /\ announceStaticTargets
        /\ pc' \in {"announceRuntime", "loop"}
        /\ announcedStatic = {} \/ HostsFollowList
    BY <1>1 DEF AnnounceStaticAtStart, LoopTick
  <2> QED
    BY <1>0, <2>1, PassFollowsList
<1>2. ASSUME UNCHANGED <<staticVars, announcedStatic>>,
             failures' = failures \/ failures' = failures + 1,
             \/ pc' = pc
             \/ pc \in {"clear", "prepare", "listen", "announceStatic"}
                /\ pc' \in {"clear", "prepare", "listen", "announceStatic"}
             \/ pc \in {"announceRuntime", "mark", "loop"}
                /\ pc' \in {"announceRuntime", "mark", "loop"}
             \/ pc' \in {"closing", "clearing", "exited"}
      PROVE  StaticAnnouncing'
  BY <1>0, <1>2 DEF HostsFollowList, currentStaticHosts, staticVars
<1> USE DEF ReturnError, bounds, inputs
<1>3. CASE ClearReady \/ ClearReadyAtExit
  BY <1>2, <1>3 DEF ClearReady, ClearReadyAtExit, clearResponderReadyFile, ClearReadyFails
<1>4. CASE Prepare \/ StartCapture \/ MarkReady
  BY <1>2, <1>4 DEF Prepare, StartCapture, MarkReady, markResponderReady
<1>5. CASE Listen
  BY <1>2, <1>5 DEF Listen, ListenRead, ListenFails, MainContinues
<1>6. CASE AnnounceRuntimeAtStart
  BY <1>2, <1>6 DEF AnnounceRuntimeAtStart, Writes
<1>7. CASE Stop \/ LoopCaptureStopped \/ CloseHandle
  BY <1>2, <1>7 DEF Stop, LoopStop, LoopCaptureStopped, CloseHandle
<1>8. CASE LoopSolicitation \/ LoopNewAddress
  BY <1>2, <1>8 DEF LoopSolicitation, LoopNewAddress, Writes
<1>9. CASE Capture
  BY <1>2, <1>9 DEF Capture, CaptureReads, CaptureSends, CaptureEnds, runtimeVars
<1>10. CASE FileRewritten /\ UNCHANGED announcedStatic
  BY <1>10 DEF FileRewritten, RewriteTargetFile, HostsFollowList, currentStaticHosts
<1>11. CASE /\ Signalled \/ \E g \in Goroutine : Collector(g)
            /\ UNCHANGED announcedStatic
  BY <1>2, <1>11 DEF Collector, CollectorRefreshes, CollectorContinues, Signalled
<1>12. CASE UNCHANGED vars \/ Exited
  BY <1>2, <1>12 DEF vars, runtimeVars, linuxVars, Exited
<1> QED
  BY <1>1, <1>3, <1>4, <1>5, <1>6, <1>7, <1>8, <1>9, <1>10, <1>11, <1>12
  DEF Next, MainStep, Outside

\* In the loop the announced hosts are hosts of the list, and all that can be
\* advertised while no write has failed.
THEOREM LinuxStaticHostsAnnounced == Spec => []StaticHostsAnnounced
<1>1. Init => StaticAnnouncing
  BY DEF Init, RuntimeInit, StaticAnnouncing
<1>2. Spec => []StaticAnnouncing
  BY <1>1, StaticAnnouncingNext, FailuresCounted, PTL DEF Spec
<1>3. StaticAnnouncing => StaticHostsAnnounced
  BY DEF StaticAnnouncing, HostsFollowList, StaticHostsAnnounced
<1> QED
  BY <1>2, <1>3, PTL

-----------------------------------------------------------------------------
(* One run from its start to its end *)

\* Where in runResponder the facts hold that the way out relies on.
Outcome ==
    /\ Ending <=> result # "none"
    /\ result = "nil" => ctx = "done"
    /\ pc = "exited" => ready = "empty" \/ failures > 0

LEMMA OutcomeNext == FailuresNat /\ Outcome /\ [Next]_vars => Outcome'
<1> SUFFICES ASSUME FailuresNat, Outcome, [Next]_vars PROVE Outcome'
  OBVIOUS
<1>0. /\ failures \in Nat /\ failures + 1 \in Nat /\ failures + 1 > 0
      /\ failures > 0 => failures + 1 > 0
  BY DEF FailuresNat
<1> USE DEF Outcome, Ending, Advance, ReturnError, bounds
<1>1. CASE ClearReady \/ ClearReadyAtExit
  <2>1. \/ /\ UNCHANGED <<ctx, failures, result>> /\ ready' = "empty"
           /\ (pc = "clear" /\ pc' = "prepare") \/ (pc = "clearing" /\ pc' = "exited")
        \/ /\ pc' = "exited" /\ (pc = "clear" \/ pc = "clearing")
           /\ result' = IF result = "none" THEN "error" ELSE result
           /\ failures' = failures + 1
           /\ UNCHANGED <<ready, ctx>>
    BY <1>1 DEF ClearReady, ClearReadyAtExit, clearResponderReadyFile, ClearReadyFails
  <2> QED
    BY <1>0, <2>1
<1>2. CASE Prepare \/ StartCapture \/ MarkReady
  BY <1>2 DEF Prepare, StartCapture, MarkReady, markResponderReady
<1>3. CASE Listen
  BY <1>3 DEF Listen, ListenRead, ListenFails, MainContinues
<1>4. CASE AnnounceStaticAtStart \/ AnnounceRuntimeAtStart \/ LoopTick
  BY <1>4 DEF AnnounceStaticAtStart, announceStaticTargets, AnnounceRuntimeAtStart, LoopTick
<1>5. CASE Stop \/ LoopCaptureStopped \/ CloseHandle
  BY <1>5 DEF Stop, LoopStop, LoopCaptureStopped, CloseHandle, solicitationCaptureStopError
<1>6. CASE LoopSolicitation \/ LoopNewAddress
  BY <1>6 DEF LoopSolicitation, LoopNewAddress
<1>7. CASE Capture
  <2>1. /\ UNCHANGED <<pc, ready, ctx, result>>
        /\ failures' = failures \/ failures' = failures + 1
    BY <1>7 DEF Capture, CaptureReads, CaptureSends, CaptureEnds, runtimeVars
  <2> QED
    BY <1>0, <2>1
<1>8. CASE Outside
  BY <1>8 DEF Outside, Collector, CollectorRefreshes, CollectorContinues, FileRewritten,
              Signalled, Running
<1>9. CASE UNCHANGED vars \/ Exited
  BY <1>9 DEF vars, runtimeVars, Exited
<1> QED
  BY <1>1, <1>2, <1>3, <1>4, <1>5, <1>6, <1>7, <1>8, <1>9 DEF Next, MainStep

\* The responder returns nil only for a signal and leaves no mark behind.
THEOREM LinuxExitMeansStopped == Spec => []ExitMeansStopped
<1>1. Init => Outcome
  BY DEF Init, RuntimeInit, Outcome, Ending
<1>2. Outcome => ExitMeansStopped
  BY DEF Outcome, Ending, ExitMeansStopped
<1> QED
  BY <1>1, <1>2, OutcomeNext, FailuresCounted, PTL DEF Spec

-----------------------------------------------------------------------------
(* Types *)

\* The types of the run itself, of the capture and of the bookkeeping.
RunTypes ==
    /\ pc \in {"clear", "prepare", "listen", "announceStatic", "announceRuntime",
               "mark", "loop", "closing", "clearing", "exited"}
    /\ ready \in {"empty", "stale", "marked"}
    /\ ctx \in {"live", "done"}
    /\ result \in {"none", "nil", "error"}
    /\ changes \in Nat /\ edits \in Nat
    /\ announcedStatic \subseteq StaticAddr

CaptureTypes ==
    /\ solicitations \in Seq(Solicited) /\ Len(solicitations) <= CaptureCap
    /\ capture \in {"off", "read", "send", "ended"}
    /\ capture = "send" => pending \in Solicited
    /\ pending \in Solicited \cup {None}
    /\ channel \in {"open", "closed"}

GhostTypes == told \subseteq Registered /\ dropped \subseteq Registered

LEMMA RunTypesNext == RunTypes /\ [Next]_vars => RunTypes'
<1> SUFFICES ASSUME RunTypes, [Next]_vars PROVE RunTypes'
  OBVIOUS
<1>0. changes + 1 \in Nat /\ edits + 1 \in Nat
  BY DEF RunTypes
<1> USE DEF RunTypes, Advance, ReturnError, bounds
<1>1. CASE ClearReady \/ ClearReadyAtExit
  BY <1>1 DEF ClearReady, ClearReadyAtExit, clearResponderReadyFile, ClearReadyFails
<1>2. CASE Prepare \/ StartCapture \/ MarkReady
  BY <1>2 DEF Prepare, StartCapture, MarkReady, markResponderReady
<1>3. CASE Listen
  BY <1>3 DEF Listen, ListenRead, ListenFails, MainContinues
<1>4. CASE AnnounceStaticAtStart \/ LoopTick
  <2>1. announcedStatic' \subseteq StaticAddr
    <3>1. currentStaticHosts' \subseteq StaticAddr
      BY DEF currentStaticHosts
    <3>2. \E S : announcedStatic' = S \cap currentStaticHosts'
      BY <1>4 DEF AnnounceStaticAtStart, LoopTick, announceStaticTargets, NowAnnounced
    <3> QED
      BY <3>1, <3>2
  <2> QED
    BY <1>4, <2>1 DEF AnnounceStaticAtStart, LoopTick, announceStaticTargets
<1>5. CASE AnnounceRuntimeAtStart
  BY <1>5 DEF AnnounceRuntimeAtStart
<1>6. CASE Stop \/ LoopCaptureStopped \/ CloseHandle
  BY <1>6 DEF Stop, LoopStop, LoopCaptureStopped, CloseHandle, solicitationCaptureStopError
<1>7. CASE LoopSolicitation \/ LoopNewAddress
  BY <1>7 DEF LoopSolicitation, LoopNewAddress
<1>8. CASE Capture
  BY <1>8 DEF Capture, CaptureReads, CaptureSends, CaptureEnds, runtimeVars
<1>9. CASE Outside /\ UNCHANGED announcedStatic
  BY <1>0, <1>9 DEF Outside, Collector, CollectorRefreshes, CollectorContinues,
                    FileRewritten, Signalled
<1>10. CASE UNCHANGED vars \/ Exited
  BY <1>10 DEF vars, runtimeVars, linuxVars, Exited
<1> QED
  BY <1>1, <1>2, <1>3, <1>4, <1>5, <1>6, <1>7, <1>8, <1>9, <1>10 DEF Next, MainStep

\* Whoever sends to the channel respects its capacity.
LEMMA CaptureTypesNext == CaptureTypes /\ [Next]_vars => CaptureTypes'
<1> SUFFICES ASSUME CaptureTypes, [Next]_vars PROVE CaptureTypes'
  OBVIOUS
<1> USE DEF CaptureTypes
<1>1. CASE LoopSolicitation
  <2>1. /\ solicitations # <<>> /\ solicitations' = Tail(solicitations)
        /\ UNCHANGED <<capture, pending, channel>>
    BY <1>1 DEF LoopSolicitation
  <2>2. /\ solicitations' \in Seq(Solicited)
        /\ Len(solicitations') <= CaptureCap
    BY <2>1, LinuxAssumption
  <2> QED
    BY <2>1, <2>2
<1>2. CASE StartCapture
  BY <1>2 DEF StartCapture
<1>3. CASE CaptureReads
  BY <1>3 DEF CaptureReads
<1>4. CASE CaptureSends
  <2>1. /\ capture = "send" /\ pending \in Solicited /\ Send(pending)
        /\ capture' = "read" /\ pending' = None /\ channel' = channel
    BY <1>4 DEF CaptureSends
  <2>2. /\ solicitations' \in Seq(Solicited)
        /\ Len(solicitations') <= CaptureCap
    BY <2>1, LinuxAssumption DEF Send
  <2> QED
    BY <2>1, <2>2
<1>5. CASE CaptureEnds
  BY <1>5 DEF CaptureEnds
<1>6. CASE UNCHANGED captureVars
  BY <1>6 DEF captureVars
<1>7. CASE MainStep
  BY <1>1, <1>2, <1>6, <1>7
  DEF MainStep, ClearReady, Prepare, Listen, AnnounceStaticAtStart, announceStaticTargets,
      AnnounceRuntimeAtStart, MarkReady, Stop, LoopTick, LoopCaptureStopped,
      LoopNewAddress, CloseHandle, ClearReadyAtExit
<1> QED
  BY <1>3, <1>4, <1>5, <1>6, <1>7 DEF Next, Capture, Exited, vars, linuxVars

LEMMA GhostTypesNext == GhostTypes /\ [Next]_vars => GhostTypes'
<1> SUFFICES ASSUME GhostTypes, [Next]_vars PROVE GhostTypes'
  OBVIOUS
<1> USE DEF GhostTypes, Registered
<1>1. CASE Forget
  BY <1>1 DEF Forget, UnionOf
<1>2. ASSUME NEW g \in Goroutine, ReplaceContinue(g), Publishes(g) PROVE GhostTypes'
  BY <1>2 DEF ReplaceContinue, ReplaceStore, ReplaceSignal, ReplacePublish, Publishes,
              UnionOf
<1>3. CASE LoopNewAddress
  BY <1>3 DEF LoopNewAddress, TakeNew, UnionOf, Silent
<1>4. CASE AnnounceRuntimeAtStart
  BY <1>4 DEF AnnounceRuntimeAtStart, RuntimeTargets, inputs, registryVars, UnionOf
<1>5. CASE Aside /\ UNCHANGED told
  BY <1>5 DEF Aside, registryVars, UnionOf
<1>6. CASE Aside
  <2>1. UNCHANGED told \/ AnnounceRuntimeAtStart \/ LoopNewAddress \/ Forget
    BY DEF Next, MainStep, Outside, Exited, Collector, Publishes, vars, linuxVars, ghosts,
           Capture, CaptureReads, CaptureSends, CaptureEnds, ClearReady, Prepare, Listen,
           StartCapture, AnnounceStaticAtStart, announceStaticTargets, MarkReady, Stop,
           LoopTick, LoopSolicitation, LoopCaptureStopped, CloseHandle, ClearReadyAtExit
  <2> QED
    BY <1>1, <1>3, <1>4, <1>5, <1>6, <2>1
<1> QED
  BY <1>1, <1>2, <1>3, <1>6, RegistryStepsOnly

\* The types of the whole responder.
THEOREM LinuxTypes == Spec => []LinuxTypeOK
<1>1. Init => RunTypes /\ CaptureTypes /\ GhostTypes
  BY LinuxAssumption
  DEF Init, RuntimeInit, RunTypes, CaptureTypes, GhostTypes
<1>2. Spec => [](RunTypes /\ CaptureTypes /\ GhostTypes)
  BY <1>1, RunTypesNext, CaptureTypesNext, GhostTypesNext, PTL DEF Spec
<1>3. Spec => []RegistryTypeOK
  BY LinuxImplementsRegistry, RegistryTypes, PTL
<1>4. NoInternalAdvertised => Claimed(wire) \subseteq Addr \cup StaticAddr
  BY RuntimeAssumption DEF NoInternalAdvertised
<1>5. /\ RunTypes /\ CaptureTypes /\ GhostTypes /\ RegistryTypeOK /\ StaticTypeOK
      /\ UnlistenedKnown /\ FailuresNat /\ NoInternalAdvertised
      => LinuxTypeOK
  BY <1>4 DEF RunTypes, CaptureTypes, GhostTypes, UnlistenedKnown, FailuresNat,
              LinuxTypeOK, RuntimeTypeOK
<1> QED
  BY <1>2, <1>3, <1>5, LinuxKeepsCLITargets, UnlistenedAreSources, FailuresCounted,
     LinuxNoInternalAdvertised, PTL
====
