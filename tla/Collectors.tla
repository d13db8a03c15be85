---- MODULE Collectors ----
(***************************************************************************)
(* The collectors of runtime addresses: dockerListen with                  *)
(* dockerEventLoop (docker.go) and cniListen with cniRefreshLoop (cni.go), *)
(* against a Docker-compatible API and CNI lease directories that change,  *)
(* disappear and fail under them.                                          *)
(*                                                                         *)
(* A pass asks for one source after another and hands every answer to      *)
(* replaceActiveIPSource, an error as an empty set.  Asking and applying   *)
(* are separate steps: the world may change in between.  The registry is   *)
(* AddressView, which module ActiveIPs implements.                         *)
(***************************************************************************)
EXTENDS AddressView, Naturals, Sequences

CONSTANTS Networks,    \* -N in order, duplicates included: a sequence
          Dirs,        \* the deduplicated CNI lease directories: a sequence
          EventCap,    \* capacity of the events channel: 64
          MaxChanges   \* bound: changes of the world

DockerSources == {Networks[i] : i \in 1..Len(Networks)}
CNISources == {Dirs[i] : i \in 1..Len(Dirs)}

ASSUME CollectorsAssumption ==
    /\ Networks \in Seq(DockerSources) /\ Dirs \in Seq(CNISources)
    /\ Source = DockerSources \cup CNISources
    /\ DockerSources \cap CNISources = {}
    /\ EventCap \in Nat /\ MaxChanges \in Nat

VARIABLES world,    \* source |-> its state, addresses and version
          api,      \* the API socket answers: "up" or "down"
          events,   \* events waiting in the channel
          stream,   \* "none", "open" or "closed"
          pc,       \* goroutine |-> where it is
          pass,     \* goroutine |-> its pass over a list of sources
          applied,  \* source |-> version of the last answer applied
          ctx,      \* "live" or "done"
          changes   \* counter for MaxChanges

outside == <<world, api, changes>>
channel == <<events, stream>>
vars == <<viewVars, outside, channel, pc, pass, applied, ctx>>

Goroutine == {"main", "docker", "cni"}

\* A missing lease directory reads as an empty one.
States(s) == IF s \in DockerSources THEN {"up", "absent"} ELSE {"up", "unreadable"}

NoReply == [addrs |-> {}, version |-> 0, err |-> "none"]
NoPass == [list |-> <<>>, at |-> 1, reply |-> NoReply, err |-> "no"]
PassOver(list) == [NoPass EXCEPT !.list = list]

Init ==
    /\ ViewInit
    /\ world \in [Source -> [state : {"up", "absent", "unreadable"},
                             addrs : SUBSET Addr, version : {1}]]
    /\ \A s \in Source : /\ world[s].state \in States(s)
                         /\ world[s].state # "up" => world[s].addrs = {}
    /\ api \in {"up", "down"}
    /\ events = 0 /\ stream = "none"
    /\ pc = [g \in Goroutine |-> IF g = "main" THEN "ping" ELSE "off"]
    /\ pass = [g \in Goroutine |-> NoPass]
    /\ applied = [s \in Source |-> 0]
    /\ ctx = "live"
    /\ changes = 0

-----------------------------------------------------------------------------
(* A pass: dockerRefreshConfiguredNetworks, or the loop over the CNI dirs *)

Answer(s) == world[s].addrs
NoAnswer(s) == IF s \in DockerSources THEN api = "down" \/ world[s].state # "up"
                                      ELSE world[s].state = "unreadable"

\* refreshDockerNetworks visits a name given twice only once.
Repeated(p) == \E i \in 1..(p.at - 1) : p.list[i] = p.list[p.at]

Passing(g) == pc[g] = "pass" /\ pass[g].at <= Len(pass[g].list)

PassSkip(g) ==
    /\ Passing(g)
    /\ Repeated(pass[g])
    /\ pass' = [pass EXCEPT ![g].at = @ + 1]
    /\ UNCHANGED <<viewVars, outside, channel, pc, applied, ctx>>

\* NetworkInfo, or readCNILeaseAddresses.
PassAsk(g) ==
    LET s == pass[g].list[pass[g].at]
    IN /\ Passing(g)
       /\ ~Repeated(pass[g])
       /\ pass[g].reply = NoReply
       /\ pass' = [pass EXCEPT ![g].reply =
                     [addrs |-> IF NoAnswer(s) THEN {} ELSE Answer(s),
                      version |-> world[s].version,
                      err |-> IF NoAnswer(s) THEN "yes" ELSE "no"]]
       /\ UNCHANGED <<viewVars, outside, channel, pc, applied, ctx>>

Apply(s, reply) == Refresh(s, reply.addrs)

PassApply(g) ==
    LET s == pass[g].list[pass[g].at]
        reply == pass[g].reply
    IN /\ Passing(g)
       /\ reply # NoReply
       /\ Apply(s, reply)
       /\ applied' = [applied EXCEPT ![s] = reply.version]
       /\ pass' = [pass EXCEPT ![g] =
                     [list |-> pass[g].list, at |-> pass[g].at + 1,
                      reply |-> NoReply,
                      err |-> IF reply.err = "yes" THEN "yes" ELSE pass[g].err]]
       /\ UNCHANGED <<outside, channel, pc, ctx>>

PassDone(g) == pc[g] = "pass" /\ pass[g].at > Len(pass[g].list)

Moves(g, next) == pc' = [pc EXCEPT ![g] = next]
Starts(g, list) == /\ pc' = [pc EXCEPT ![g] = "pass"]
                   /\ pass' = [pass EXCEPT ![g] = PassOver(list)]

-----------------------------------------------------------------------------
(* Startup, in the main goroutine: dockerListen, then cniListen *)

\* A bug: the event loop starts before the initial pass has finished.
LoopStartsEarly == pc' = [pc EXCEPT !["main"] = "pass", !["docker"] = "top"]

InitialPass == pc' = [pc EXCEPT !["main"] = "pass"]

MainPings ==
    /\ pc["main"] = "ping"
    /\ UNCHANGED <<viewVars, outside, channel, applied, ctx>>
    /\ IF Networks = <<>> THEN Starts("main", Dirs)
       ELSE IF api = "down" THEN Moves("main", "failed") /\ UNCHANGED pass
       ELSE InitialPass /\ pass' = [pass EXCEPT !["main"] = PassOver(Networks)]

\* A bug: an initial inspection failure is only logged.
FatalNever(p) == FALSE

Fatal(p) == p.err = "yes"

\* Any failed network is fatal; otherwise "go dockerEventLoop" and the CNI pass.
MainDockerDone ==
    /\ PassDone("main")
    /\ pass["main"].list = Networks
    /\ Networks # <<>>
    /\ IF Fatal(pass["main"])
       THEN Moves("main", "failed") /\ UNCHANGED pass
       ELSE /\ pc' = [pc EXCEPT !["main"] = "pass",
                                !["docker"] = IF @ = "off" THEN "top" ELSE @]
            /\ pass' = [pass EXCEPT !["main"] = PassOver(Dirs)]
    /\ UNCHANGED <<viewVars, outside, channel, applied, ctx>>

MainCNIDone ==
    /\ PassDone("main")
    /\ pass["main"].list = Dirs
    /\ pc' = [pc EXCEPT !["main"] = "running",
                        !["cni"] = IF Dirs = <<>> THEN "off" ELSE "select"]
    /\ pass' = [pass EXCEPT !["main"] = NoPass]
    /\ UNCHANGED <<viewVars, outside, channel, applied, ctx>>

-----------------------------------------------------------------------------
(* dockerEventLoop.  stream tells whether a finished pass goes on to         *)
(* AddEventListener or back to the select; the loop only logs its errors.    *)

DockerTop ==
    /\ pc["docker"] = "top"
    /\ IF ctx = "done" THEN Moves("docker", "stopped") /\ UNCHANGED pass
                       ELSE Starts("docker", Networks)
    /\ UNCHANGED <<viewVars, outside, channel, applied, ctx>>

DockerPassDone ==
    /\ PassDone("docker")
    /\ Moves("docker", IF stream = "none" THEN "subscribe" ELSE "select")
    /\ pass' = [pass EXCEPT !["docker"] = NoPass]
    /\ UNCHANGED <<viewVars, outside, channel, applied, ctx>>

\* AddEventListenerWithOptions: on failure wait and start over.
DockerSubscribe ==
    /\ pc["docker"] = "subscribe"
    /\ IF api = "up"
       THEN stream' = "open" /\ events' = 0 /\ Moves("docker", "select")
       ELSE UNCHANGED channel /\ Moves("docker", "wait")
    /\ UNCHANGED <<viewVars, outside, pass, applied, ctx>>

\* One event, one pass; a closed channel still yields what is buffered.
DockerEvent ==
    /\ pc["docker"] = "select"
    /\ events > 0
    /\ events' = events - 1
    /\ Starts("docker", Networks)
    /\ UNCHANGED <<viewVars, outside, stream, applied, ctx>>

\* A bug: there is no ticker, only events refresh.
DockerNoTick == FALSE

DockerTick ==
    /\ pc["docker"] = "select"
    /\ Starts("docker", Networks)
    /\ UNCHANGED <<viewVars, outside, channel, applied, ctx>>

DockerStreamLost ==
    /\ pc["docker"] = "select"
    /\ stream = "closed" /\ events = 0
    /\ stream' = "none"
    /\ Moves("docker", "wait")
    /\ UNCHANGED <<viewVars, outside, events, pass, applied, ctx>>

\* A bug: the select has no case for ctx.Done.
DockerStopWaiting ==
    /\ pc["docker"] = "wait"
    /\ ctx = "done"
    /\ Moves("docker", "stopped")
    /\ UNCHANGED <<viewVars, outside, channel, pass, applied, ctx>>

\* ctx.Done in the select removes the listener; in waitForContext it returns.
DockerStop ==
    /\ pc["docker"] \in {"select", "wait"}
    /\ ctx = "done"
    /\ Moves("docker", "stopped")
    /\ stream' = "none" /\ events' = 0
    /\ UNCHANGED <<viewVars, outside, pass, applied, ctx>>

DockerRetries ==
    /\ pc["docker"] = "wait"
    /\ Moves("docker", "top")
    /\ UNCHANGED <<viewVars, outside, channel, pass, applied, ctx>>

-----------------------------------------------------------------------------
(* cniRefreshLoop *)

CNITick ==
    /\ pc["cni"] = "select"
    /\ Starts("cni", Dirs)
    /\ UNCHANGED <<viewVars, outside, channel, applied, ctx>>

CNIPassDone ==
    /\ PassDone("cni")
    /\ Moves("cni", "select")
    /\ pass' = [pass EXCEPT !["cni"] = NoPass]
    /\ UNCHANGED <<viewVars, outside, channel, applied, ctx>>

CNIStop ==
    /\ pc["cni"] = "select"
    /\ ctx = "done"
    /\ Moves("cni", "stopped")
    /\ UNCHANGED <<viewVars, outside, channel, pass, applied, ctx>>

-----------------------------------------------------------------------------
(* The world: containers come and go, the daemon restarts, leases change.   *)

Change == changes < MaxChanges /\ changes' = changes + 1

\* Only connect and disconnect of a configured network are announced, and an
\* event may be lost: the stream is still connecting, or the channel is full.
Announced(s, state) == s \in DockerSources /\ stream = "open" /\ api = "up"
                         /\ state = "up" /\ world[s].state = "up"

\* A bug: the events are buffered without a bound.
DeliverUnbounded == events' = events + 1

\* The listener's channel drops what it has no room for.
Deliver == events' = IF events < EventCap THEN events + 1 ELSE events

WorldChanges ==
    /\ Change
    /\ \E s \in Source, addrs \in SUBSET Addr : \E state \in States(s) :
         /\ state # "up" => addrs = {}
         /\ <<state, addrs>> # <<world[s].state, world[s].addrs>>
         /\ world' = [world EXCEPT ![s] = [state |-> state, addrs |-> addrs,
                                           version |-> world[s].version + 1]]
         /\ UNCHANGED events \/ (Announced(s, state) /\ Deliver)
    /\ UNCHANGED <<viewVars, api, stream, pc, pass, applied, ctx>>

APIChanges ==
    /\ Change
    /\ api' = IF api = "up" THEN "down" ELSE "up"
    /\ world' = [s \in Source |-> IF s \in DockerSources
                                  THEN [world[s] EXCEPT !.version = @ + 1]
                                  ELSE world[s]]
    /\ UNCHANGED <<viewVars, channel, pc, pass, applied, ctx>>

StreamCloses ==
    /\ Change
    /\ stream = "open"
    /\ stream' = "closed"
    /\ UNCHANGED <<viewVars, world, api, events, pc, pass, applied, ctx>>

Signalled ==
    /\ ctx = "live"
    /\ ctx' = "done"
    /\ UNCHANGED <<viewVars, outside, channel, pc, pass, applied>>

PassStep(g) == PassSkip(g) \/ PassAsk(g) \/ PassApply(g)
MainStep == PassStep("main") \/ MainPings \/ MainDockerDone \/ MainCNIDone
DockerStep == PassStep("docker") \/ DockerTop \/ DockerPassDone \/ DockerSubscribe
                \/ DockerEvent \/ DockerTick \/ DockerStreamLost \/ DockerStop
                \/ DockerRetries
CNIStep == PassStep("cni") \/ CNITick \/ CNIPassDone \/ CNIStop

\* A failed startup ends the process; otherwise the loops run until stopped.
Alive == pc["main"] # "failed"
AtRest == /\ \/ pc["main"] = "failed"
             \/ /\ pc["main"] = "running"
                /\ pc["docker"] \in {"off", "stopped"}
                /\ pc["cni"] \in {"off", "stopped"}
          /\ UNCHANGED vars

Next == \/ Alive /\ (MainStep \/ DockerStep \/ CNIStep)
        \/ WorldChanges \/ APIChanges \/ StreamCloses \/ Signalled
        \/ AtRest

Spec == Init /\ [][Next]_vars

\* Goroutines are scheduled, calls return, timers fire, and the select picks
\* at random among its ready cases.
Fairness == /\ WF_vars(Alive /\ MainStep)
            /\ WF_vars(Alive /\ DockerStep)
            /\ SF_vars(Alive /\ DockerStop)
            /\ WF_vars(Alive /\ CNIStep)
            /\ SF_vars(Alive /\ CNIStop)

FairSpec == Spec /\ Fairness

-----------------------------------------------------------------------------
(* Types. *)
CollectorsTypeOK ==
    /\ view \in [Source -> SUBSET Addr] /\ published \subseteq Addr
    /\ \A s \in Source : /\ world[s].state \in States(s)
                         /\ world[s].addrs \subseteq Addr
                         /\ world[s].version \in Nat
    /\ api \in {"up", "down"}
    /\ events \in 0..EventCap
    /\ stream \in {"none", "open", "closed"}
    /\ pc["main"] \in {"ping", "pass", "running", "failed"}
    /\ pc["docker"] \in {"off", "top", "pass", "subscribe", "select", "wait", "stopped"}
    /\ pc["cni"] \in {"off", "select", "pass", "stopped"}
    /\ ctx \in {"live", "done"}

\* No answer overwrites a newer one: for each source the versions applied never
\* go back, although every pass holds its answer across a step and the source
\* passes from the main goroutine to a loop (docker.go:40-43, cni.go:27-30).
NoStaleOverwrite ==
    [][\A s \in Source : applied'[s] >= applied[s]]_vars

\* The event loop runs only after each configured Docker network was read, and
\* startup is over only when each lease directory was read too.
StartedMeansRead ==
    /\ pc["docker"] # "off" => \A s \in DockerSources : applied[s] > 0
    /\ pc["main"] = "running" => \A s \in Source : applied[s] > 0

\* Startup goes on past dockerListen only after a pass in which every network
\* answered: "an unavailable socket or network is a startup failure rather than
\* a false-ready responder" (README.md:106).
StartsOnlyVerified ==
    [][pc["docker"] = "off" /\ pc'["docker"] # "off"
         => /\ PassDone("main")
            /\ pass["main"].list = Networks
            /\ pass["main"].err = "no"]_vars

Truth(s) == IF NoAnswer(s) THEN {} ELSE world[s].addrs

\* Once containers, leases and the API stop changing, every source shows its
\* true addresses and keeps showing them: lost or coalesced events, a closed
\* stream, failed subscriptions and failed answers are all made up for, and a
\* network that is gone is no longer advertised (docker.go:145).
Converges ==
    <>[](~Alive \/ ctx = "done" \/ \A s \in Source : view[s] = Truth(s))

\* Both loops end after a termination signal, wherever it finds them.
LoopsStop ==
    ctx = "done" ~> ~Alive \/ /\ pc["docker"] \in {"off", "stopped"}
                              /\ pc["cni"] \in {"off", "stopped"}
====
