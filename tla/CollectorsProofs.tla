---- MODULE CollectorsProofs ----
(***************************************************************************)
(* Proofs about the collectors, for any networks, lease directories,       *)
(* addresses and event capacity, however the world changes and fails.      *)
(***************************************************************************)
EXTENDS Collectors, TLAPS

LEMMA SourcesListed ==
    /\ Len(Networks) \in Nat /\ Len(Dirs) \in Nat
    /\ \A i \in 1..Len(Networks) : Networks[i] \in DockerSources
    /\ \A i \in 1..Len(Dirs) : Dirs[i] \in CNISources
    /\ \A s \in DockerSources : \E i \in 1..Len(Networks) : Networks[i] = s
    /\ \A s \in CNISources : \E i \in 1..Len(Dirs) : Dirs[i] = s
    /\ DockerSources \cap CNISources = {} /\ Source = DockerSources \cup CNISources
<1>1. Networks \in Seq(DockerSources) /\ Dirs \in Seq(CNISources)
  BY CollectorsAssumption
<1>2. /\ \A s \in DockerSources : \E i \in 1..Len(Networks) : Networks[i] = s
      /\ \A s \in CNISources : \E i \in 1..Len(Dirs) : Dirs[i] = s
  BY DEF DockerSources, CNISources
<1> QED
  BY <1>1, <1>2, CollectorsAssumption

-----------------------------------------------------------------------------
(* The inductive invariant *)

Item == [state : {"up", "absent", "unreadable"}, addrs : SUBSET Addr, version : Nat \ {0}]
Reply == [addrs : SUBSET Addr, version : Nat, err : {"none", "yes", "no"}]
Pass == [list : {Networks, Dirs, <<>>}, at : Nat \ {0}, reply : Reply, err : {"yes", "no"}]

MainPC == {"ping", "pass", "running", "failed"}
DockerPC == {"off", "top", "pass", "subscribe", "select", "wait", "stopped"}
CNIPC == {"off", "select", "pass", "stopped"}

Types ==
    /\ view \in [Source -> SUBSET Addr] /\ published \subseteq Addr
    /\ world \in [Source -> Item]
    /\ \A s \in Source : world[s].state \in States(s)
    /\ api \in {"up", "down"}
    /\ events \in 0..EventCap
    /\ stream \in {"none", "open", "closed"}
    /\ pc \in [Goroutine -> MainPC \cup DockerPC \cup CNIPC]
    /\ pc["main"] \in MainPC /\ pc["docker"] \in DockerPC /\ pc["cni"] \in CNIPC
    /\ pass \in [Goroutine -> Pass]
    /\ applied \in [Source -> Nat]
    /\ ctx \in {"live", "done"}

\* Who may be passing over what: the networks belong to the main goroutine
\* until the event loop starts, the directories until startup is over.
Owners ==
    /\ pc["main"] = "pass" => pass["main"].list \in {Networks, Dirs}
    /\ pc["main"] = "pass" /\ pass["main"].list # Dirs => pc["docker"] = "off"
    /\ pc["main"] = "ping" => pc["docker"] = "off"
    /\ pc["main"] \in {"ping", "pass"} => pc["cni"] = "off"
    /\ pc["docker"] = "pass" => pass["docker"].list = Networks
    /\ pc["cni"] = "pass" => pass["cni"].list = Dirs
    /\ \A g \in Goroutine : pass[g].reply # NoReply => Passing(g) /\ ~Repeated(pass[g])

\* The source goroutine g asks or has asked for.
Subject(g) == pass[g].list[pass[g].at]

\* An answer is at least as new as what was last applied to its source.
Versions ==
    /\ \A s \in Source : applied[s] <= world[s].version
    /\ \A g \in Goroutine : pass[g].reply # NoReply =>
         /\ pass[g].reply.version > 0
         /\ applied[Subject(g)] <= pass[g].reply.version
         /\ pass[g].reply.version <= world[Subject(g)].version

\* What a pass has behind it was read.
Progress ==
    /\ \A g \in Goroutine : pc[g] = "pass" =>
         \A i \in 1..Len(pass[g].list) : i < pass[g].at => applied[pass[g].list[i]] > 0
    /\ pc["docker"] # "off" => \A s \in DockerSources : applied[s] > 0
    /\ pc["main"] = "pass" /\ pass["main"].list # Networks
         => \A s \in DockerSources : applied[s] > 0
    /\ pc["main"] = "running" => \A s \in Source : applied[s] > 0

CollectorsInv == Types /\ Owners /\ Versions /\ Progress

LEMMA InvInit == Init => CollectorsInv
<1> SUFFICES ASSUME Init PROVE CollectorsInv
  OBVIOUS
<1> USE SourcesListed DEF Init, ViewInit
<1>1. NoPass \in Pass /\ NoReply \in Reply /\ NoPass.reply = NoReply
  BY DEF NoPass, NoReply, Pass, Reply
<1>2. Types
  <2>1. \A s \in Source : world[s].state \in States(s) /\ world[s].version = 1
    OBVIOUS
  <2>2. world \in [Source -> Item]
    BY DEF Item
  <2> QED
    BY <1>1, <2>1, <2>2, CollectorsAssumption
    DEF Types, Goroutine, MainPC, DockerPC, CNIPC
<1>3. Owners /\ Progress
  BY <1>1 DEF Owners, Progress, Goroutine
<1>4. Versions
  BY <1>1 DEF Versions, Goroutine
<1> QED
  BY <1>2, <1>3, <1>4 DEF CollectorsInv

\* Two goroutines never ask for the same source at a time.
LEMMA SubjectsApart ==
    ASSUME Types, Owners, NEW g \in Goroutine, Passing(g)
    PROVE  /\ pass[g].at \in 1..Len(pass[g].list)
           /\ Subject(g) \in Source
           /\ \A h \in Goroutine \ {g} : Passing(h) => Subject(h) # Subject(g)
<1> USE SourcesListed DEF Passing, Subject, Goroutine
<1> DEFINE lists(h) == \/ pass[h].list = Networks /\ Subject(h) \in DockerSources
                       \/ pass[h].list = Dirs /\ Subject(h) \in CNISources
<1>1. \A h \in Goroutine : Passing(h) => pass[h].at \in 1..Len(pass[h].list)
  <2> SUFFICES ASSUME NEW h \in Goroutine, Passing(h)
               PROVE  pass[h].at \in 1..Len(pass[h].list)
    OBVIOUS
  <2>1. pass[h].at \in Nat \ {0} /\ pass[h].list \in {Networks, Dirs, <<>>}
    BY DEF Types, Pass
  <2> QED
    BY <2>1
<1>2. Passing("main") => lists("main")
  BY <1>1 DEF Owners
<1>3. Passing("docker") => pass["docker"].list = Networks /\ Subject("docker") \in DockerSources
  BY <1>1 DEF Owners
<1>4. Passing("cni") => pass["cni"].list = Dirs /\ Subject("cni") \in CNISources
  BY <1>1 DEF Owners
<1>5. Passing("main") /\ Passing("docker") => Subject("main") \in CNISources
  BY <1>2 DEF Owners
<1>6. ~(Passing("main") /\ Passing("cni"))
  BY DEF Owners
<1>7. \A h, k \in Goroutine : Passing(h) /\ Passing(k) /\ h # k => Subject(h) # Subject(k)
  <2> SUFFICES ASSUME NEW h \in Goroutine, NEW k \in Goroutine, Passing(h), Passing(k), h # k
               PROVE  Subject(h) # Subject(k)
    OBVIOUS
  <2> HIDE DEF Subject, Passing
  <2>1. CASE h = "main"
    BY <2>1, <1>4, <1>3, <1>5, <1>6
  <2>2. CASE h = "docker"
    BY <2>2, <1>4, <1>3, <1>5, <1>6
  <2>3. CASE h = "cni"
    BY <2>3, <1>4, <1>3, <1>5, <1>6
  <2> QED
    BY <2>1, <2>2, <2>3
<1> QED
  BY <1>1, <1>2, <1>3, <1>4, <1>7

-----------------------------------------------------------------------------
(* The steps of a pass *)

\* What was read stays read when goroutine g goes on to its next source.
LEMMA ProgressAdvances ==
    ASSUME Types, Progress, NEW g \in Goroutine, Passing(g),
           pass'[g].list = pass[g].list, pass'[g].at = pass[g].at + 1,
           \A h \in Goroutine \ {g} : pass'[h] = pass[h],
           pc' = pc,
           \A s \in Source : applied[s] > 0 => applied'[s] > 0,
           applied'[Subject(g)] > 0
    PROVE  Progress'
<1>1. \A h \in Goroutine : pass[h].list \in {Networks, Dirs, <<>>} /\ pass[h].at \in Nat
  BY DEF Types, Pass
<1>2. \A h \in Goroutine : pc[h] = "pass" => \A i \in 1..Len(pass[h].list) :
        i < pass[h].at => applied'[pass[h].list[i]] > 0
  <2> SUFFICES ASSUME NEW h \in Goroutine, pc[h] = "pass",
                      NEW i \in 1..Len(pass[h].list), i < pass[h].at
               PROVE  applied'[pass[h].list[i]] > 0
    OBVIOUS
  <2>1. pass[h].list[i] \in Source
    <3>1. CASE pass[h].list = Networks
      BY <3>1, SourcesListed
    <3>2. CASE pass[h].list = Dirs
      BY <3>2, SourcesListed
    <3>3. CASE pass[h].list = <<>>
      BY <3>3
    <3> QED
      BY <1>1, <3>1, <3>2, <3>3
  <2>2. applied[pass[h].list[i]] > 0
    BY DEF Progress
  <2> QED
    BY <2>1, <2>2
<1>3. \A h \in Goroutine : pc'[h] = "pass" => \A i \in 1..Len(pass'[h].list) :
        i < pass'[h].at => applied'[pass'[h].list[i]] > 0
  <2> SUFFICES ASSUME NEW h \in Goroutine, pc'[h] = "pass",
                      NEW i \in 1..Len(pass'[h].list), i < pass'[h].at
               PROVE  applied'[pass'[h].list[i]] > 0
    OBVIOUS
  <2>1. CASE h = g
    <3>1. i \in 1..Len(pass[g].list) /\ (i < pass[g].at \/ i = pass[g].at)
      BY <1>1, <2>1
    <3>2. pass'[h].list[i] = pass[g].list[i]
      BY <2>1
    <3>3. CASE i < pass[g].at
      BY <1>2, <2>1, <3>1, <3>2, <3>3
    <3>4. CASE i = pass[g].at
      BY <3>2, <3>4 DEF Subject
    <3> QED
      BY <3>1, <3>3, <3>4
  <2>2. CASE h # g
    BY <1>2, <2>2
  <2> QED
    BY <2>1, <2>2
<1>4. pass'["main"].list = pass["main"].list
  BY DEF Goroutine
<1> QED
  BY <1>3, <1>4, SourcesListed DEF Progress

LEMMA SkipNext ==
    ASSUME CollectorsInv, NEW g \in Goroutine, PassSkip(g)
    PROVE  CollectorsInv'
<1> USE SourcesListed DEF CollectorsInv
<1>1. Passing(g) /\ pass[g].at \in 1..Len(pass[g].list)
  BY SubjectsApart DEF PassSkip
<1>2. /\ pass' = [pass EXCEPT ![g].at = @ + 1]
      /\ UNCHANGED <<view, published, world, api, changes, events, stream, pc, applied, ctx>>
  BY DEF PassSkip, viewVars, outside, channel
<1>3. pass[g] \in Pass /\ pass \in [Goroutine -> Pass]
  BY DEF Types
<1>4. /\ pass'[g] = [pass[g] EXCEPT !.at = @ + 1]
      /\ \A h \in Goroutine \ {g} : pass'[h] = pass[h]
  BY <1>2, <1>3
<1>5. /\ pass'[g].list = pass[g].list /\ pass'[g].reply = pass[g].reply
      /\ pass'[g].at = pass[g].at + 1 /\ pass'[g] \in Pass
  BY <1>3, <1>4 DEF Pass
<1>6. pass[g].reply = NoReply
  BY DEF Owners, PassSkip
<1>7. applied[Subject(g)] > 0
  <2>1. PICK i \in 1..(pass[g].at - 1) : pass[g].list[i] = pass[g].list[pass[g].at]
    BY DEF PassSkip, Repeated
  <2>2. i \in 1..Len(pass[g].list) /\ i < pass[g].at
    BY <1>1, <2>1
  <2> QED
    BY <1>1, <2>1, <2>2 DEF Progress, Passing, Subject
<1>8. Types'
  BY <1>2, <1>3, <1>5 DEF Types
<1>9. Owners'
  BY <1>2, <1>4, <1>5, <1>6 DEF Owners, Passing, Goroutine
<1>10. Versions'
  <2>1. ASSUME NEW h \in Goroutine, pass'[h].reply # NoReply
        PROVE  h # g /\ pass'[h] = pass[h] /\ Subject(h)' = Subject(h)
    BY <1>2, <1>4, <1>5, <1>6, <2>1 DEF Subject
  <2> QED
    BY <1>2, <2>1 DEF Versions
<1>11. Progress'
  BY <1>1, <1>2, <1>4, <1>5, <1>7, ProgressAdvances
<1> QED
  BY <1>8, <1>9, <1>10, <1>11

LEMMA AskNext ==
    ASSUME CollectorsInv, NEW g \in Goroutine, PassAsk(g)
    PROVE  CollectorsInv'
<1> USE SourcesListed DEF CollectorsInv
<1> DEFINE answer == [addrs |-> IF NoAnswer(Subject(g)) THEN {} ELSE Answer(Subject(g)),
                      version |-> world[Subject(g)].version,
                      err |-> IF NoAnswer(Subject(g)) THEN "yes" ELSE "no"]
<1>1. Passing(g) /\ Subject(g) \in Source /\ ~Repeated(pass[g])
  BY SubjectsApart DEF PassAsk
<1>2. /\ pass' = [pass EXCEPT ![g].reply = answer]
      /\ UNCHANGED <<view, published, world, api, changes, events, stream, pc, applied, ctx>>
  BY DEF PassAsk, viewVars, outside, channel, Subject
<1>3. pass[g] \in Pass /\ pass \in [Goroutine -> Pass]
  BY DEF Types
<1>4. /\ pass'[g] = [pass[g] EXCEPT !.reply = answer]
      /\ \A h \in Goroutine \ {g} : pass'[h] = pass[h]
  BY <1>2, <1>3
<1>5. answer \in Reply
  <2>1. world[Subject(g)].addrs \in SUBSET Addr /\ world[Subject(g)].version \in Nat
    BY <1>1 DEF Types, Item
  <2> QED
    BY <2>1 DEF Reply, Answer
<1>6. /\ pass'[g].list = pass[g].list /\ pass'[g].at = pass[g].at
      /\ pass'[g].reply = answer /\ pass'[g] \in Pass
  BY <1>3, <1>4, <1>5 DEF Pass
<1>7. Types'
  BY <1>2, <1>3, <1>6 DEF Types
<1>8. Owners'
  <2>1. pc' = pc /\ \A h \in Goroutine : pass'[h].list = pass[h].list
                                      /\ pass'[h].at = pass[h].at
    BY <1>2, <1>4, <1>6
  <2>2. \A h \in Goroutine : /\ Passing(h) => Passing(h)'
                             /\ ~Repeated(pass[h]) => ~Repeated(pass'[h])
    BY <2>1 DEF Passing, Repeated
  <2>3. \A h \in Goroutine : pass'[h].reply # NoReply => (Passing(h) /\ ~Repeated(pass[h]))'
    BY <1>1, <1>4, <2>2 DEF Owners
  <2> QED
    BY <2>1, <2>3 DEF Owners, Goroutine
<1>9. Versions'
  <2>1. Subject(g)' = Subject(g)
    BY <1>6 DEF Subject
  <2>2. /\ world[Subject(g)].version > 0
        /\ applied[Subject(g)] <= world[Subject(g)].version
        /\ world[Subject(g)].version <= world[Subject(g)].version
    BY <1>1 DEF Types, Versions, Item
  <2>3. \A h \in Goroutine \ {g} : Subject(h)' = Subject(h)
    BY <1>4 DEF Subject
  <2> QED
    BY <1>2, <1>4, <1>6, <2>1, <2>2, <2>3 DEF Versions
<1>10. Progress'
  BY <1>2, <1>4, <1>6 DEF Progress, Goroutine
<1> QED
  BY <1>7, <1>8, <1>9, <1>10

\* The version applied is that of the answer, and the answer is no older.
LEMMA ApplyVersion ==
    ASSUME CollectorsInv, NEW g \in Goroutine, PassApply(g)
    PROVE  /\ Passing(g) /\ Subject(g) \in Source
           /\ applied' = [applied EXCEPT ![Subject(g)] = pass[g].reply.version]
           /\ pass[g].reply.version \in Nat
           /\ pass[g].reply.version > 0
           /\ applied[Subject(g)] <= pass[g].reply.version
           /\ pass[g].reply.version <= world[Subject(g)].version
BY SubjectsApart DEF CollectorsInv, PassApply, Versions, Types, Pass, Reply, Subject

LEMMA ApplyNext ==
    ASSUME CollectorsInv, NEW g \in Goroutine, PassApply(g)
    PROVE  CollectorsInv'
<1> USE SourcesListed, ApplyVersion DEF CollectorsInv
<1> DEFINE s == Subject(g)
           next == [list |-> pass[g].list, at |-> pass[g].at + 1, reply |-> NoReply,
                    err |-> IF pass[g].reply.err = "yes" THEN "yes" ELSE pass[g].err]
<1>1. /\ pass' = [pass EXCEPT ![g] = next]
      /\ view' = [view EXCEPT ![s] = pass[g].reply.addrs]
      /\ published' = UNION {view'[t] : t \in Source}
      /\ UNCHANGED <<world, api, changes, events, stream, pc, ctx>>
  BY DEF PassApply, Apply, Refresh, outside, channel, Subject
<1>2. pass[g] \in Pass /\ pass \in [Goroutine -> Pass] /\ pass[g].reply \in Reply
  BY DEF Types, Pass
<1>3. NoReply \in Reply
  BY DEF NoReply, Reply
<1>4. /\ pass'[g] = next /\ next \in Pass
      /\ \A h \in Goroutine \ {g} : pass'[h] = pass[h]
  BY <1>1, <1>2, <1>3 DEF Pass
<1>5. \A t \in Source : applied'[t] = IF t = s THEN pass[g].reply.version ELSE applied[t]
  BY DEF Types
<1>6. Types'
  <2>1. view' \in [Source -> SUBSET Addr]
    BY <1>1, <1>2 DEF Types, Reply
  <2>2. published' \subseteq Addr
    BY <1>1, <2>1
  <2>3. pass' \in [Goroutine -> Pass] /\ applied' \in [Source -> Nat]
    BY <1>1, <1>2, <1>4 DEF Types
  <2> QED
    BY <1>1, <2>1, <2>2, <2>3 DEF Types
<1>7. Owners'
  BY <1>1, <1>4 DEF Owners, Passing, Goroutine
<1>8. Versions'
  <2>1. \A t \in Source : applied'[t] <= world[t].version
    BY <1>5 DEF Versions
  <2>2. ASSUME NEW h \in Goroutine, pass'[h].reply # NoReply
        PROVE  /\ pass'[h].reply.version > 0
               /\ applied'[Subject(h)'] <= pass'[h].reply.version
               /\ pass'[h].reply.version <= world[Subject(h)'].version
    <3>1. h # g /\ pass'[h] = pass[h]
      BY <1>4, <2>2
    <3>2. Passing(h) /\ Subject(h)' = Subject(h)
      BY <2>2, <3>1 DEF Owners, Subject
    <3>3. Subject(h) # s /\ Subject(h) \in Source
      BY <3>1, <3>2, SubjectsApart
    <3> QED
      BY <1>5, <2>2, <3>1, <3>2, <3>3 DEF Versions
  <2> QED
    BY <1>1, <2>1, <2>2 DEF Versions
<1>9. Progress'
  <2>1. applied'[s] > 0 /\ \A t \in Source : applied[t] > 0 => applied'[t] > 0
    BY <1>5
  <2>2. pass'[g].list = pass[g].list /\ pass'[g].at = pass[g].at + 1
    BY <1>4
  <2> QED
    BY <1>1, <1>4, <2>1, <2>2, ProgressAdvances
<1> QED
  BY <1>6, <1>7, <1>8, <1>9

-----------------------------------------------------------------------------
(* The steps between the passes, and the world *)

\* Goroutine h stays in its pass, is at the start of one, or is in none.
Resumes(h) == /\ pass'[h] = pass[h] \/ pass'[h].reply = NoReply
              /\ pc'[h] = "pass" => \/ pass'[h].at = 1
                                    \/ pass'[h] = pass[h] /\ pc[h] = "pass"

LEMMA ControlKeeps ==
    ASSUME Versions, Progress, Types, applied' = applied, world' = world,
           \A h \in Goroutine : Resumes(h)
    PROVE  /\ Versions'
           /\ \A h \in Goroutine : pc'[h] = "pass" =>
                \A i \in 1..Len(pass'[h].list) :
                  i < pass'[h].at => applied'[pass'[h].list[i]] > 0
<1>1. ASSUME NEW h \in Goroutine, pass'[h].reply # NoReply
      PROVE  pass'[h] = pass[h] /\ Subject(h)' = Subject(h)
  BY <1>1 DEF Resumes, Subject
<1>2. Versions'
  BY <1>1 DEF Versions
<1>3. ASSUME NEW h \in Goroutine, pc'[h] = "pass", NEW i \in 1..Len(pass'[h].list),
             i < pass'[h].at
      PROVE  applied'[pass'[h].list[i]] > 0
  BY <1>3 DEF Resumes, Progress
<1> QED
  BY <1>2, <1>3

\* A pass that has ended holds no answer.
LEMMA DoneHoldsNothing ==
    ASSUME Types, Owners, NEW g \in Goroutine, PassDone(g)
    PROVE  pass[g].reply = NoReply
<1>1. pass[g].at \in Nat /\ Len(pass[g].list) \in Nat
  BY SourcesListed DEF Types, Pass
<1>2. ~Passing(g)
  BY <1>1 DEF PassDone, Passing
<1> QED
  BY <1>2 DEF Owners

LEMMA FreshPasses ==
    /\ PassOver(Networks) \in Pass /\ PassOver(Networks).list = Networks
    /\ PassOver(Dirs) \in Pass /\ PassOver(Dirs).list = Dirs
    /\ NoPass \in Pass
    /\ NoPass.at = 1 /\ PassOver(Networks).at = 1 /\ PassOver(Dirs).at = 1
    /\ NoPass.reply = NoReply /\ PassOver(Networks).reply = NoReply
    /\ PassOver(Dirs).reply = NoReply
BY DEF PassOver, NoPass, NoReply, Pass, Reply

\* A pass that has ended has read all of its list.
LEMMA ReadBehind ==
    ASSUME Types, Progress, NEW g \in Goroutine, PassDone(g)
    PROVE  /\ pass[g].list = Networks => \A s \in DockerSources : applied[s] > 0
           /\ pass[g].list = Dirs => \A s \in CNISources : applied[s] > 0
<1>1. pass[g].at \in Nat /\ Len(pass[g].list) \in Nat
  BY SourcesListed DEF Types, Pass
<1>2. \A i \in 1..Len(pass[g].list) : applied[pass[g].list[i]] > 0
  BY <1>1, SourcesListed DEF PassDone, Progress
<1> QED
  BY <1>2, SourcesListed

LEMMA MainNext ==
    ASSUME CollectorsInv, MainPings \/ MainDockerDone \/ MainCNIDone
    PROVE  CollectorsInv'
<1> USE SourcesListed, FreshPasses DEF CollectorsInv, viewVars, outside, channel
<1>1. CASE MainPings
  <2>1. /\ UNCHANGED <<view, published, world, api, changes, events, stream, applied, ctx>>
        /\ pc["main"] = "ping"
        /\ \/ /\ Networks = <<>>
              /\ pc' = [pc EXCEPT !["main"] = "pass"]
              /\ pass' = [pass EXCEPT !["main"] = PassOver(Dirs)]
           \/ pc' = [pc EXCEPT !["main"] = "failed"] /\ pass' = pass
           \/ /\ pc' = [pc EXCEPT !["main"] = "pass"]
              /\ pass' = [pass EXCEPT !["main"] = PassOver(Networks)]
    BY <1>1 DEF MainPings, Starts, Moves, InitialPass
  <2>2. Types'
    BY <2>1 DEF Types, Goroutine, MainPC
  <2>3. \A h \in Goroutine : Resumes(h)
    BY <2>1 DEF Types, Goroutine, Resumes
  <2>4. Owners'
    BY <2>1 DEF Types, Owners, Goroutine, Passing
  <2>5. Progress' /\ Versions'
    BY <2>1, <2>3, ControlKeeps DEF Types, Progress, Owners, Goroutine
  <2> QED
    BY <2>2, <2>4, <2>5
<1>2. CASE MainDockerDone
  <2>1. /\ UNCHANGED <<view, published, world, api, changes, events, stream, applied, ctx>>
        /\ PassDone("main") /\ pass["main"].list = Networks /\ Networks # <<>>
        /\ \/ pc' = [pc EXCEPT !["main"] = "failed"] /\ pass' = pass
           \/ /\ pc' = [pc EXCEPT !["main"] = "pass",
                                  !["docker"] = IF @ = "off" THEN "top" ELSE @]
              /\ pass' = [pass EXCEPT !["main"] = PassOver(Dirs)]
    BY <1>2 DEF MainDockerDone, Moves
  <2>2. pass["main"].reply = NoReply /\ pc["main"] = "pass"
    BY <2>1, DoneHoldsNothing DEF PassDone, Goroutine
  <2>3. \A s \in DockerSources : applied[s] > 0
    BY <2>1, ReadBehind DEF Goroutine
  <2>4. Types'
    <3>1. pass' \in [Goroutine -> Pass]
      <4>1. pass \in [Goroutine -> Pass] /\ PassOver(Dirs) \in Pass
        BY DEF Types
      <4> QED
        BY <2>1, <4>1
    <3>2. /\ pc' \in [Goroutine -> MainPC \cup DockerPC \cup CNIPC]
          /\ pc'["main"] \in MainPC /\ pc'["docker"] \in DockerPC /\ pc'["cni"] \in CNIPC
      BY <2>1 DEF Types, Goroutine, MainPC, DockerPC
    <3> QED
      BY <2>1, <3>1, <3>2 DEF Types
  <2>5. \A h \in Goroutine : Resumes(h)
    BY <2>1, <2>2 DEF Types, Goroutine, Resumes, DockerPC
  <2>6. Owners'
    BY <2>1, <2>2 DEF Types, Owners, Goroutine, Passing
  <2>7. Progress' /\ Versions'
    BY <2>1, <2>3, <2>5, ControlKeeps DEF Types, Progress, Owners, Goroutine
  <2> QED
    BY <2>4, <2>6, <2>7
<1>3. CASE MainCNIDone
  <2>1. /\ UNCHANGED <<view, published, world, api, changes, events, stream, applied, ctx>>
        /\ PassDone("main") /\ pass["main"].list = Dirs
        /\ pc' = [pc EXCEPT !["main"] = "running",
                            !["cni"] = IF Dirs = <<>> THEN "off" ELSE "select"]
        /\ pass' = [pass EXCEPT !["main"] = NoPass]
    BY <1>3 DEF MainCNIDone
  <2>2. \A s \in CNISources : applied[s] > 0
    BY <2>1, ReadBehind DEF Goroutine
  <2>3. \A s \in DockerSources : applied[s] > 0
    BY <2>1 DEF Progress, PassDone
  <2>4. Types'
    BY <2>1 DEF Types, Goroutine, MainPC, CNIPC
  <2>5. \A h \in Goroutine : Resumes(h)
    BY <2>1 DEF Types, Goroutine, Resumes
  <2>6. Owners'
    <3>1. /\ pc'["main"] = "running" /\ pc'["cni"] \in {"off", "select"}
          /\ pc'["docker"] = pc["docker"] /\ pc["cni"] = "off"
          /\ pass'["main"] = NoPass /\ pass'["docker"] = pass["docker"]
          /\ pass'["cni"] = pass["cni"]
      BY <2>1 DEF Types, Goroutine, Owners, PassDone
    <3>2. pass'["cni"].reply = NoReply
      BY <3>1 DEF Owners, Passing, Goroutine
    <3> QED
      BY <3>1, <3>2 DEF Owners, Goroutine, Passing
  <2>7. Progress' /\ Versions'
    BY <2>1, <2>2, <2>3, <2>5, ControlKeeps DEF Types, Progress, Owners, Goroutine
  <2> QED
    BY <2>4, <2>6, <2>7
<1> QED
  BY <1>1, <1>2, <1>3

\* What a step of a loop does to its place and its pass.
LoopStep(g, list, places) ==
    \E next \in places \ {"off"} :
      /\ pc' = [pc EXCEPT ![g] = next]
      /\ \/ next = "pass" /\ pass' = [pass EXCEPT ![g] = PassOver(list)]
         \/ next # "pass" /\ PassDone(g) /\ pass' = [pass EXCEPT ![g] = NoPass]
         \/ next # "pass" /\ pc[g] # "pass" /\ pass' = pass

\* The event loop and the CNI loop: none of their steps applies anything.
LEMMA LoopNext ==
    ASSUME CollectorsInv,
           \/ DockerTop \/ DockerPassDone \/ DockerSubscribe \/ DockerEvent \/ DockerTick
           \/ DockerStreamLost \/ DockerStop \/ DockerRetries
           \/ CNITick \/ CNIPassDone \/ CNIStop
    PROVE  CollectorsInv'
<1> USE SourcesListed, FreshPasses, CollectorsAssumption
    DEF CollectorsInv, viewVars, outside, channel
<1>1. UNCHANGED <<view, published, world, api, changes, applied, ctx>>
  BY DEF DockerTop, DockerPassDone, DockerSubscribe, DockerEvent, DockerTick,
         DockerStreamLost, DockerStop, DockerRetries, CNITick, CNIPassDone, CNIStop
<1>2. \/ UNCHANGED channel
      \/ events' = events - 1 /\ events > 0 /\ stream' = stream
      \/ stream' = "open" /\ events' = 0
      \/ stream' = "none" /\ events' \in {0, events}
  BY DEF DockerTop, DockerPassDone, DockerSubscribe, DockerEvent, DockerTick,
         DockerStreamLost, DockerStop, DockerRetries, CNITick, CNIPassDone, CNIStop
<1>3. \/ LoopStep("docker", Networks, DockerPC) /\ pc["docker"] # "off"
      \/ LoopStep("cni", Dirs, CNIPC) /\ pc["cni"] # "off"
  BY DEF DockerTop, DockerPassDone, DockerSubscribe, DockerEvent, DockerTick,
         DockerStreamLost, DockerStop, DockerRetries, CNITick, CNIPassDone, CNIStop,
         Moves, Starts, PassDone, LoopStep, DockerPC, CNIPC
<1>4. events' \in 0..EventCap /\ stream' \in {"none", "open", "closed"}
  BY <1>2 DEF Types
<1>5. ASSUME NEW g \in {"docker", "cni"}, NEW list \in {Networks, Dirs},
             NEW places \in SUBSET (DockerPC \cup CNIPC), LoopStep(g, list, places)
      PROVE  /\ pass' \in [Goroutine -> Pass]
             /\ pc' \in [Goroutine -> MainPC \cup DockerPC \cup CNIPC]
             /\ pc'["main"] = pc["main"] /\ pass'["main"] = pass["main"]
             /\ \A h \in Goroutine : Resumes(h)
             /\ pass'[g].reply = NoReply
             /\ pc'[g] \in places \ {"off"}
             /\ \A h \in Goroutine \ {g} : pc'[h] = pc[h] /\ pass'[h] = pass[h]
             /\ pc'[g] = "pass" => pass'[g].list = list
  <2>1. pass \in [Goroutine -> Pass] /\ g \in Goroutine /\ g # "main"
        /\ pc \in [Goroutine -> MainPC \cup DockerPC \cup CNIPC]
    BY DEF Types, Goroutine
  <2>2. PICK next \in places \ {"off"} :
          /\ pc' = [pc EXCEPT ![g] = next]
          /\ \/ next = "pass" /\ pass' = [pass EXCEPT ![g] = PassOver(list)]
             \/ next # "pass" /\ PassDone(g) /\ pass' = [pass EXCEPT ![g] = NoPass]
             \/ next # "pass" /\ pc[g] # "pass" /\ pass' = pass
    BY <1>5 DEF LoopStep
  <2>3. pc[g] # "pass" => pass[g].reply = NoReply
    BY <2>1 DEF Owners, Passing
  <2>4. PassOver(list) \in Pass /\ PassOver(list).reply = NoReply
        /\ PassOver(list).at = 1 /\ PassOver(list).list = list
    OBVIOUS
  <2>5. pass' \in [Goroutine -> Pass]
    BY <2>1, <2>2, <2>4
  <2>6. pc'[g] = next /\ \A h \in Goroutine \ {g} : pc'[h] = pc[h] /\ pass'[h] = pass[h]
    BY <2>1, <2>2
  <2>7. /\ pass'[g].reply = NoReply
        /\ next = "pass" => pass'[g].list = list /\ pass'[g].at = 1
    BY <2>1, <2>2, <2>3, <2>4
  <2>8. \A h \in Goroutine : Resumes(h)
    BY <2>6, <2>7 DEF Resumes
  <2>9. pc' \in [Goroutine -> MainPC \cup DockerPC \cup CNIPC]
    <3>1. next \in MainPC \cup DockerPC \cup CNIPC
      BY <2>2
    <3> QED
      BY <2>1, <2>2, <3>1
  <2> QED
    BY <2>1, <2>5, <2>6, <2>7, <2>8, <2>9 DEF Goroutine
<1>6. CASE LoopStep("docker", Networks, DockerPC) /\ pc["docker"] # "off"
  <2>1. /\ pass' \in [Goroutine -> Pass] /\ \A h \in Goroutine : Resumes(h)
        /\ pass'["docker"].reply = NoReply /\ pc'["docker"] \in DockerPC
        /\ pc'["main"] = pc["main"] /\ pass'["main"] = pass["main"]
        /\ pc'["cni"] = pc["cni"] /\ pass'["cni"] = pass["cni"]
        /\ pc'["docker"] = "pass" => pass'["docker"].list = Networks
    BY <1>5, <1>6 DEF Goroutine
  <2>2. pc' \in [Goroutine -> MainPC \cup DockerPC \cup CNIPC]
    BY <1>5, <1>6 DEF Goroutine
  <2>3. Types'
    BY <1>1, <1>4, <2>1, <2>2 DEF Types
  <2>4. Owners'
    BY <1>6, <2>1 DEF Owners, Passing, Goroutine
  <2>5. Progress' /\ Versions'
    BY <1>1, <1>6, <2>1, ControlKeeps DEF Progress
  <2> QED
    BY <2>3, <2>4, <2>5
<1>7. CASE LoopStep("cni", Dirs, CNIPC) /\ pc["cni"] # "off"
  <2>1. /\ pass' \in [Goroutine -> Pass] /\ \A h \in Goroutine : Resumes(h)
        /\ pass'["cni"].reply = NoReply /\ pc'["cni"] \in CNIPC
        /\ pc'["main"] = pc["main"] /\ pass'["main"] = pass["main"]
        /\ pc'["docker"] = pc["docker"] /\ pass'["docker"] = pass["docker"]
        /\ pc'["cni"] = "pass" => pass'["cni"].list = Dirs
    BY <1>5, <1>7 DEF Goroutine
  <2>2. pc' \in [Goroutine -> MainPC \cup DockerPC \cup CNIPC]
    BY <1>5, <1>7 DEF Goroutine
  <2>3. Types'
    BY <1>1, <1>4, <2>1, <2>2 DEF Types
  <2>4. Owners'
    BY <1>7, <2>1 DEF Owners, Passing, Goroutine
  <2>5. Progress' /\ Versions'
    BY <1>1, <1>7, <2>1, ControlKeeps DEF Progress
  <2> QED
    BY <2>3, <2>4, <2>5
<1> QED
  BY <1>3, <1>6, <1>7

LEMMA NewVersion ==
    ASSUME NEW w \in Item
    PROVE  /\ w.version <= w.version
           /\ [w EXCEPT !.version = w.version + 1] \in Item
           /\ [w EXCEPT !.version = w.version + 1].state = w.state
           /\ w.version <= [w EXCEPT !.version = w.version + 1].version
<1>1. w.version \in Nat /\ w.version + 1 \in Nat \ {0} /\ w.version <= w.version + 1
  BY DEF Item
<1> QED
  BY <1>1 DEF Item

LEMMA OutsideNext ==
    ASSUME CollectorsInv, WorldChanges \/ APIChanges \/ StreamCloses \/ Signalled
    PROVE  CollectorsInv'
<1> USE SourcesListed, CollectorsAssumption DEF CollectorsInv
<1>1. /\ UNCHANGED <<view, published, pc, pass, applied>>
      /\ api' \in {"up", "down"} /\ ctx' \in {"live", "done"}
      /\ stream' \in {"none", "open", "closed"}
  BY DEF WorldChanges, APIChanges, StreamCloses, Signalled, outside, channel, viewVars, Types
<1>2. events' \in 0..EventCap
  <2>1. events' = events \/ Deliver
    BY DEF WorldChanges, APIChanges, StreamCloses, Signalled, outside, channel
  <2> QED
    BY <2>1 DEF Types, Deliver
<1>3. /\ world' \in [Source -> Item]
      /\ \A s \in Source : world'[s].state \in States(s) /\ world[s].version <= world'[s].version
  <2>1. CASE WorldChanges
    <3>1. PICK s \in Source, addrs \in SUBSET Addr, state \in {"up", "absent", "unreadable"} :
            /\ state \in States(s)
            /\ world' = [world EXCEPT ![s] = [state |-> state, addrs |-> addrs,
                                              version |-> world[s].version + 1]]
      BY <2>1 DEF WorldChanges, States
    <3> DEFINE new == [state |-> state, addrs |-> addrs, version |-> world[s].version + 1]
    <3>2. \A t \in Source : world[t] \in Item /\ world[t].version \in Nat
      BY DEF Types, Item
    <3>3. world \in [Source -> Item] /\ new \in Item
      <4>1. ASSUME NEW v \in Nat PROVE v + 1 \in Nat \ {0}
        OBVIOUS
      <4>2. world[s].version + 1 \in Nat \ {0}
        BY <3>2, <4>1
      <4> QED
        BY <4>2 DEF Types, Item
    <3>4. \A t \in Source : world'[t] = IF t = s THEN new ELSE world[t]
      BY <3>1, <3>3
    <3>5. new.state = state /\ new.version = world[s].version + 1
      OBVIOUS
    <3>6. world' \in [Source -> Item]
      BY <3>1, <3>3
    <3>7. \A t \in Source : world'[t].state \in States(t)
      BY <3>1, <3>4, <3>5 DEF Types
    <3>8. \A t \in Source : world[t].version <= world'[t].version
      <4>1. \A t \in Source \ {s} : world'[t] = world[t]
        BY <3>4
      <4>2. world'[s].version = world[s].version + 1
        BY <3>4, <3>5
      <4>3. ASSUME NEW t \in Source PROVE world[t].version <= world'[t].version
        <5>1. CASE t = s
          BY <3>2, <4>2, <5>1
        <5>2. CASE t # s
          BY <3>2, <4>1, <5>2
        <5> QED
          BY <5>1, <5>2
      <4> QED
        BY <4>3
    <3> QED
      BY <3>6, <3>7, <3>8
  <2>2. CASE APIChanges
    <3>1. \A s \in Source : \/ world'[s] = world[s]
                            \/ world'[s] = [world[s] EXCEPT !.version = world[s].version + 1]
      BY <2>2 DEF APIChanges
    <3>2. world' \in [Source -> Item]
      BY <2>2, NewVersion DEF APIChanges, Types
    <3> QED
      BY <3>1, <3>2, NewVersion DEF Types
  <2>3. CASE StreamCloses \/ Signalled
    <3>1. \A s \in Source : world[s].version <= world[s].version
      BY DEF Types, Item
    <3>2. world' = world
      BY <2>3 DEF StreamCloses, Signalled, outside
    <3> QED
      BY <3>1, <3>2 DEF Types
  <2> QED
    BY <2>1, <2>2, <2>3
<1>4. Types'
  BY <1>1, <1>2, <1>3 DEF Types
<1>5. Owners' /\ Progress'
  BY <1>1 DEF Owners, Passing, Progress
<1>6. Versions'
  <2>1. \A s \in Source : applied[s] <= world'[s].version
    <3>1. \A s \in Source : world[s].version \in Nat /\ world'[s].version \in Nat
                               /\ applied[s] \in Nat
      BY <1>3 DEF Types, Item
    <3>2. \A l, m, n \in Nat : l <= m /\ m <= n => l <= n
      OBVIOUS
    <3>3. ASSUME NEW s \in Source PROVE applied[s] <= world'[s].version
      <4>1. applied[s] <= world[s].version /\ world[s].version <= world'[s].version
        BY <1>3 DEF Versions
      <4> QED
        BY <3>1, <3>2, <4>1
    <3> QED
      BY <3>3
  <2>2. ASSUME NEW g \in Goroutine, pass[g].reply # NoReply
        PROVE  pass[g].reply.version <= world'[Subject(g)].version
    <3>1. Subject(g) \in Source
      BY <2>2, SubjectsApart DEF Owners
    <3>2. pass[g].reply.version \in Nat
      BY DEF Types, Pass, Reply
    <3>3. world[Subject(g)].version \in Nat /\ world'[Subject(g)].version \in Nat
      BY <1>3, <3>1 DEF Types, Item
    <3>4. pass[g].reply.version <= world[Subject(g)].version
      BY <2>2 DEF Versions
    <3>5. world[Subject(g)].version <= world'[Subject(g)].version
      BY <1>3, <3>1
    <3> HIDE DEF Subject
    <3> QED
      BY <3>2, <3>3, <3>4, <3>5
  <2> QED
    BY <1>1, <2>1, <2>2 DEF Versions, Subject
<1> QED
  BY <1>4, <1>5, <1>6

LEMMA InvNext == CollectorsInv /\ [Next]_vars => CollectorsInv'
<1> SUFFICES ASSUME CollectorsInv, [Next]_vars PROVE CollectorsInv'
  OBVIOUS
<1>1. ASSUME NEW g \in Goroutine, PassStep(g) PROVE CollectorsInv'
  BY <1>1, SkipNext, AskNext, ApplyNext DEF PassStep
<1>2. CASE UNCHANGED vars
  <2>1. UNCHANGED <<view, published, world, api, events, stream, pc, pass, applied, ctx>>
    BY <1>2 DEF vars, viewVars, outside, channel
  <2>2. Types'
    BY <2>1 DEF CollectorsInv, Types
  <2>3. Owners'
    BY <2>1 DEF CollectorsInv, Owners, Passing, Repeated
  <2>4. Versions' /\ Progress'
    BY <2>1 DEF CollectorsInv, Versions, Progress, Subject
  <2> QED
    BY <2>2, <2>3, <2>4 DEF CollectorsInv
<1> QED
  BY <1>1, <1>2, MainNext, LoopNext, OutsideNext
  DEF Next, MainStep, DockerStep, CNIStep, AtRest, Goroutine

-----------------------------------------------------------------------------

\* The inductive invariant holds of every execution.
THEOREM CollectorsInvariant == Spec => []CollectorsInv
BY InvInit, InvNext, PTL DEF Spec

\* The types of both collectors and of everything they talk to.
THEOREM CollectorsTypes == Spec => []CollectorsTypeOK
<1>1. CollectorsInv => CollectorsTypeOK
  BY DEF CollectorsInv, Types, Item, CollectorsTypeOK, MainPC, DockerPC, CNIPC
<1> QED
  BY <1>1, CollectorsInvariant, PTL

\* Nothing runs on a source that was never read: neither the event loop without
\* the networks, nor the responder without the lease directories.
THEOREM StartupReadsEverything == Spec => []StartedMeansRead
<1>1. CollectorsInv => StartedMeansRead
  BY DEF CollectorsInv, Progress, StartedMeansRead
<1> QED
  BY <1>1, CollectorsInvariant, PTL

\* An answer never overwrites a newer one, for any number of sources, although
\* it is held across a step in which the world may change and the other
\* goroutines may apply theirs.
THEOREM AnswersInOrder == Spec => NoStaleOverwrite
<1>1. ASSUME CollectorsInv, [Next]_vars
      PROVE  \A s \in Source : applied'[s] >= applied[s]
  <2>1. ASSUME NEW g \in Goroutine, PassApply(g)
        PROVE  \A s \in Source : applied'[s] >= applied[s]
    BY <2>1, <1>1, ApplyVersion DEF CollectorsInv, Types
  <2>2. ASSUME applied' = applied PROVE \A s \in Source : applied'[s] >= applied[s]
    BY <1>1, <2>2 DEF CollectorsInv, Types
  <2>3. (\E g \in Goroutine : PassApply(g)) \/ applied' = applied
    <3>1. CASE PassStep("main") \/ PassStep("docker") \/ PassStep("cni")
      BY <3>1 DEF PassStep, PassSkip, PassAsk, Goroutine
    <3>2. CASE MainPings \/ MainDockerDone \/ MainCNIDone
      BY <3>2 DEF MainPings, MainDockerDone, MainCNIDone
    <3>3. CASE \/ DockerTop \/ DockerPassDone \/ DockerSubscribe \/ DockerEvent \/ DockerTick
               \/ DockerStreamLost \/ DockerStop \/ DockerRetries
               \/ CNITick \/ CNIPassDone \/ CNIStop
      BY <3>3 DEF DockerTop, DockerPassDone, DockerSubscribe, DockerEvent, DockerTick,
         DockerStreamLost, DockerStop, DockerRetries, CNITick, CNIPassDone, CNIStop
    <3>4. CASE WorldChanges \/ APIChanges \/ StreamCloses \/ Signalled
      BY <3>4 DEF WorldChanges, APIChanges, StreamCloses, Signalled
    <3>5. CASE UNCHANGED vars
      BY <3>5 DEF vars
    <3> QED
      BY <1>1, <3>1, <3>2, <3>3, <3>4, <3>5 DEF Next, MainStep, DockerStep, CNIStep, AtRest
  <2> QED
    BY <2>1, <2>2, <2>3
<1>2. CollectorsInv /\ [Next]_vars => [\A s \in Source : applied'[s] >= applied[s]]_vars
  BY <1>1
<1> QED
  BY <1>2, CollectorsInvariant, PTL DEF NoStaleOverwrite, Spec

\* The event loop starts in one step only: after a pass of the main goroutine
\* in which every network answered.
THEOREM LoopStartsVerified == Spec => StartsOnlyVerified
<1>1. ASSUME CollectorsInv, [Next]_vars, pc["docker"] = "off", pc'["docker"] # "off"
      PROVE  PassDone("main") /\ pass["main"].list = Networks /\ pass["main"].err = "no"
  <2> USE <1>1
  <2>1. pc \in [Goroutine -> MainPC \cup DockerPC \cup CNIPC] /\ pass["main"].err \in {"yes", "no"}
    BY DEF CollectorsInv, Types, Pass, Goroutine
  <2>2. CASE MainDockerDone
    BY <2>1, <2>2 DEF MainDockerDone, Moves, Fatal, Goroutine
  <2>3. CASE MainPings \/ MainCNIDone
    BY <2>1, <2>3 DEF MainPings, MainCNIDone, Starts, Moves, InitialPass, Goroutine
  <2>4. CASE \/ DockerTop \/ DockerPassDone \/ DockerSubscribe \/ DockerEvent \/ DockerTick
             \/ DockerStreamLost \/ DockerStop \/ DockerRetries
    BY <2>4 DEF DockerTop, DockerPassDone, DockerSubscribe, DockerEvent, DockerTick,
                DockerStreamLost, DockerStop, DockerRetries, PassDone
  <2>5. CASE CNITick \/ CNIPassDone \/ CNIStop
    BY <2>1, <2>5 DEF CNITick, CNIPassDone, CNIStop, Starts, Moves, Goroutine
  <2>6. ASSUME pc' = pc PROVE FALSE
    BY <2>6
  <2>7. CASE PassStep("main") \/ PassStep("docker") \/ PassStep("cni")
    BY <2>6, <2>7 DEF PassStep, PassSkip, PassAsk, PassApply
  <2>8. CASE WorldChanges \/ APIChanges \/ StreamCloses \/ Signalled \/ UNCHANGED vars
    BY <2>6, <2>8 DEF WorldChanges, APIChanges, StreamCloses, Signalled, vars
  <2> QED
    BY <2>2, <2>3, <2>4, <2>5, <2>7, <2>8
    DEF Next, MainStep, DockerStep, CNIStep, AtRest
<1>2. CollectorsInv /\ [Next]_vars =>
        [pc["docker"] = "off" /\ pc'["docker"] # "off"
           => /\ PassDone("main")
              /\ pass["main"].list = Networks
              /\ pass["main"].err = "no"]_vars
  BY <1>1
<1> QED
  BY <1>2, CollectorsInvariant, PTL DEF StartsOnlyVerified, Spec

-----------------------------------------------------------------------------

\* A reader of the registry sees whole refreshes only: to it, both collectors
\* together are one sequence of refreshes of single sources.
THEOREM CollectorsRefreshTheView == Spec => ViewSpec
<1>1. Init => ViewInit
  BY DEF Init
<1>2. CollectorsInv /\ [Next]_vars => [ViewNext]_viewVars
  <2> SUFFICES ASSUME CollectorsInv, [Next]_vars, ~UNCHANGED viewVars PROVE ViewNext
    OBVIOUS
  <2>1. PICK g \in Goroutine : PassApply(g)
    BY DEF Next, MainStep, DockerStep, CNIStep, AtRest, PassStep, PassSkip, PassAsk, Goroutine,
           MainPings, MainDockerDone, MainCNIDone, DockerTop, DockerPassDone, DockerSubscribe,
           DockerEvent, DockerTick, DockerStreamLost, DockerStop, DockerRetries, CNITick,
           CNIPassDone, CNIStop, WorldChanges, APIChanges, StreamCloses, Signalled, vars
  <2>2. Subject(g) \in Source /\ pass[g].reply.addrs \in SUBSET Addr
    BY <2>1, ApplyVersion DEF CollectorsInv, Types, Pass, Reply
  <2>3. Refresh(Subject(g), pass[g].reply.addrs)
    BY <2>1 DEF PassApply, Apply, Subject
  <2> QED
    BY <2>2, <2>3 DEF ViewNext
<1> QED
  BY <1>1, <1>2, CollectorsInvariant, PTL DEF Spec, ViewSpec

-----------------------------------------------------------------------------
(* What is up to date is true *)

\* An answer is what the world said at its version.
AnswersAreTrue ==
    \A g \in Goroutine :
      pass[g].reply # NoReply /\ pass[g].reply.version = world[Subject(g)].version
        => pass[g].reply.addrs = Truth(Subject(g))

\* A source that shows its latest version shows the truth.
UpToDateIsTrue == \A s \in Source : applied[s] = world[s].version => view[s] = Truth(s)

\* Steps that ask and apply nothing leave both as they are.
LEMMA ControlKeepsTruth ==
    ASSUME AnswersAreTrue, UpToDateIsTrue, UNCHANGED <<view, applied, world, api>>,
           \A g \in Goroutine : pass'[g] = pass[g] \/ pass'[g].reply = NoReply
    PROVE  AnswersAreTrue' /\ UpToDateIsTrue'
<1>1. \A s : Truth(s)' = Truth(s)
  BY DEF Truth, NoAnswer
<1>2. UpToDateIsTrue'
  BY <1>1 DEF UpToDateIsTrue
<1>3. ASSUME NEW g \in Goroutine, pass'[g] = pass[g]
      PROVE  Subject(g)' = Subject(g)
  BY <1>3 DEF Subject
<1>4. AnswersAreTrue'
  BY <1>1, <1>3 DEF AnswersAreTrue
<1> QED
  BY <1>2, <1>4

LEMMA ControlResets ==
    ASSUME CollectorsInv,
           \/ MainPings \/ MainDockerDone \/ MainCNIDone
           \/ DockerTop \/ DockerPassDone \/ DockerSubscribe \/ DockerEvent \/ DockerTick
           \/ DockerStreamLost \/ DockerStop \/ DockerRetries
           \/ CNITick \/ CNIPassDone \/ CNIStop
           \/ StreamCloses \/ Signalled \/ UNCHANGED vars
    PROVE  /\ UNCHANGED <<view, applied, world, api>>
           /\ \A g \in Goroutine : pass'[g] = pass[g] \/ pass'[g].reply = NoReply
<1>1. UNCHANGED <<view, applied, world, api>>
  BY DEF MainPings, MainDockerDone, MainCNIDone, DockerTop, DockerPassDone, DockerSubscribe,
         DockerEvent, DockerTick, DockerStreamLost, DockerStop, DockerRetries, CNITick,
         CNIPassDone, CNIStop, StreamCloses, Signalled, vars, viewVars, outside
<1>2. \/ pass' = pass
      \/ \E h \in Goroutine : pass' = [pass EXCEPT ![h] = NoPass]
      \/ \E h \in Goroutine, list \in {Networks, Dirs} : pass' = [pass EXCEPT ![h] = PassOver(list)]
  BY DEF MainPings, MainDockerDone, MainCNIDone, DockerTop, DockerPassDone, DockerSubscribe,
         DockerEvent, DockerTick, DockerStreamLost, DockerStop, DockerRetries, CNITick,
         CNIPassDone, CNIStop, StreamCloses, Signalled, vars, Starts, Goroutine
<1>3. NoPass.reply = NoReply /\ \A list : PassOver(list).reply = NoReply
  BY DEF NoPass, PassOver
<1>4. pass \in [Goroutine -> Pass]
  BY DEF CollectorsInv, Types
<1>5. ASSUME NEW h \in Goroutine, NEW p, p.reply = NoReply, pass' = [pass EXCEPT ![h] = p]
      PROVE  \A g \in Goroutine : pass'[g] = pass[g] \/ pass'[g].reply = NoReply
  BY <1>4, <1>5
<1> QED
  BY <1>1, <1>2, <1>3, <1>5

LEMMA AskIsTrue ==
    ASSUME CollectorsInv, AnswersAreTrue, UpToDateIsTrue, NEW g \in Goroutine,
           PassSkip(g) \/ PassAsk(g)
    PROVE  AnswersAreTrue' /\ UpToDateIsTrue'
<1>1. /\ UNCHANGED <<view, applied, world, api>> /\ pass \in [Goroutine -> Pass]
      /\ \A s : Truth(s)' = Truth(s)
  BY DEF PassSkip, PassAsk, viewVars, outside, CollectorsInv, Types, Truth, NoAnswer
<1>2. CASE PassSkip(g)
  <2>1. pass[g].reply = NoReply
    BY <1>2 DEF CollectorsInv, Owners, PassSkip
  <2>2. \A h \in Goroutine : pass'[h] = pass[h] \/ pass'[h].reply = NoReply
    BY <1>1, <1>2, <2>1 DEF PassSkip, Pass
  <2> QED
    BY <1>1, <2>2, ControlKeepsTruth
<1>3. CASE PassAsk(g)
  <2>1. /\ \A h \in Goroutine \ {g} : pass'[h] = pass[h]
        /\ Subject(g)' = Subject(g)
        /\ pass'[g].reply.addrs = Truth(Subject(g))
    BY <1>1, <1>3 DEF PassAsk, Subject, Truth, Answer, Pass
  <2>2. ASSUME NEW h \in Goroutine, h # g PROVE Subject(h)' = Subject(h)
    BY <2>1, <2>2 DEF Subject
  <2>3. AnswersAreTrue'
    BY <1>1, <2>1, <2>2 DEF AnswersAreTrue
  <2>4. UpToDateIsTrue'
    BY <1>1 DEF UpToDateIsTrue
  <2> QED
    BY <2>3, <2>4
<1> QED
  BY <1>2, <1>3

LEMMA ApplyIsTrue ==
    ASSUME CollectorsInv, AnswersAreTrue, UpToDateIsTrue, NEW g \in Goroutine, PassApply(g)
    PROVE  AnswersAreTrue' /\ UpToDateIsTrue'
<1> DEFINE s == Subject(g)
<1>1. /\ UNCHANGED <<world, api>> /\ pass \in [Goroutine -> Pass]
      /\ \A t : Truth(t)' = Truth(t)
      /\ view \in [Source -> SUBSET Addr] /\ applied \in [Source -> Nat]
  BY DEF PassApply, outside, CollectorsInv, Types, Truth, NoAnswer
<1>2. /\ pass[g].reply # NoReply /\ s \in Source
      /\ view' = [view EXCEPT ![s] = pass[g].reply.addrs]
      /\ applied' = [applied EXCEPT ![s] = pass[g].reply.version]
  BY ApplyVersion DEF PassApply, Apply, Refresh, Subject
<1>3. pass'[g].reply = NoReply /\ \A h \in Goroutine \ {g} : pass'[h] = pass[h]
  BY <1>1 DEF PassApply
<1>4. ASSUME NEW t \in Source, applied'[t] = world[t].version PROVE view'[t] = Truth(t)
  <2>1. CASE t = s
    <3>1. applied'[s] = pass[g].reply.version /\ view'[s] = pass[g].reply.addrs
      BY <1>1, <1>2
    <3> QED
      BY <1>2, <1>4, <2>1, <3>1 DEF AnswersAreTrue
  <2>2. CASE t # s
    BY <1>1, <1>2, <1>4, <2>2 DEF UpToDateIsTrue
  <2> QED
    BY <2>1, <2>2
<1>5. ASSUME NEW h \in Goroutine, h # g PROVE Subject(h)' = Subject(h)
  BY <1>3, <1>5 DEF Subject
<1>6. AnswersAreTrue'
  BY <1>1, <1>3, <1>5 DEF AnswersAreTrue
<1>7. UpToDateIsTrue'
  BY <1>1, <1>4 DEF UpToDateIsTrue
<1> QED
  BY <1>6, <1>7

\* A change of the truth is a new version, which no answer has yet.
LEMMA ChangeOutdates ==
    ASSUME CollectorsInv, AnswersAreTrue, UpToDateIsTrue, WorldChanges \/ APIChanges
    PROVE  AnswersAreTrue' /\ UpToDateIsTrue'
<1>1. UNCHANGED <<view, applied, pass>> /\ \A g : Subject(g)' = Subject(g)
  BY DEF WorldChanges, APIChanges, viewVars, Subject
<1>2. /\ world \in [Source -> Item] /\ DockerSources \subseteq Source
      /\ \A s \in Source : world[s].version \in Nat /\ applied[s] \in Nat
  BY SourcesListed DEF CollectorsInv, Types, Item
<1>3. ASSUME NEW s \in Source
      PROVE  \/ world'[s].version = world[s].version + 1
             \/ world'[s] = world[s] /\ Truth(s)' = Truth(s)
  <2>1. CASE WorldChanges
    BY <1>2, <2>1 DEF WorldChanges, Truth, NoAnswer
  <2>2. CASE APIChanges
    BY <1>2, <2>2 DEF APIChanges, Truth, NoAnswer, Item
  <2> QED
    BY <2>1, <2>2
<1>4. ASSUME NEW s \in Source, applied[s] = world'[s].version PROVE view[s] = Truth(s)'
  <2>1. applied[s] <= world[s].version
    BY DEF CollectorsInv, Versions
  <2> QED
    BY <1>2, <1>3, <1>4, <2>1 DEF UpToDateIsTrue
<1>5. ASSUME NEW g \in Goroutine, pass[g].reply # NoReply,
             pass[g].reply.version = world'[Subject(g)].version
      PROVE  pass[g].reply.addrs = Truth(Subject(g))'
  <2>1. /\ Subject(g) \in Source /\ pass[g].reply.version <= world[Subject(g)].version
        /\ pass[g].reply.version \in Nat
    BY <1>5, SubjectsApart DEF CollectorsInv, Versions, Owners, Types, Pass, Reply
  <2>2. PICK s \in Source : s = Subject(g)
    BY <2>1
  <2>3. s = Subject(g)' /\ world'[s].version = pass[g].reply.version
    BY <1>1, <1>5, <2>2
  <2>4. world'[s] = world[s] /\ Truth(s)' = Truth(s)
    BY <1>2, <1>3, <2>1, <2>2, <2>3
  <2>5. pass[g].reply.addrs = Truth(s)
    BY <1>5, <2>2, <2>3, <2>4 DEF AnswersAreTrue
  <2>6. Truth(Subject(g))' = Truth(s)'
    BY <2>3 DEF Truth, NoAnswer
  <2> QED
    BY <2>4, <2>5, <2>6
<1> QED
  BY <1>1, <1>4, <1>5 DEF AnswersAreTrue, UpToDateIsTrue

\* An answer that is applied late may be outdated, but what is up to date is the
\* truth: the steps between asking and applying, the other goroutines and the
\* order of the answers never show a source something it was not asked last.
THEOREM WhatIsUpToDateIsTrue == Spec => []UpToDateIsTrue
<1>1. Init => AnswersAreTrue /\ UpToDateIsTrue
  BY DEF Init, AnswersAreTrue, UpToDateIsTrue, NoPass
<1>2. CollectorsInv /\ AnswersAreTrue /\ UpToDateIsTrue /\ [Next]_vars
        => AnswersAreTrue' /\ UpToDateIsTrue'
  BY ControlKeepsTruth, ControlResets, AskIsTrue, ApplyIsTrue, ChangeOutdates
  DEF Next, MainStep, DockerStep, CNIStep, AtRest, PassStep, Goroutine
<1> QED
  BY <1>1, <1>2, CollectorsInvariant, PTL DEF Spec
====
