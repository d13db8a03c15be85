---- MODULE SelectionProofs ----
(***************************************************************************)
(* Proofs about the choice of an interface, for any interfaces, routers,   *)
(* routes and targets, however the host's network changes and whatever     *)
(* calls fail.                                                             *)
(***************************************************************************)
EXTENDS InterfaceSelection, FiniteSetTheorems, TLAPS

-----------------------------------------------------------------------------
(* The gateway read out of a listing of routes *)

\* Induction over a list: what holds of no element, and of one more whenever it
\* holds of some, holds of all.  The set stands for the statement.
LEMMA UpTo ==
    ASSUME NEW n \in Nat, NEW S, 0 \in S, \A k \in 1..n : k - 1 \in S => k \in S
    PROVE  \A k \in 0..n : k \in S
<1> DEFINE missing == {k \in 0..n : k \notin S}
           less == OpToRel(<, Nat)
<1> SUFFICES ASSUME missing # {} PROVE FALSE
  OBVIOUS
<1>1. \A x, y \in Nat : y < x => <<y, x>> \in less
  BY DEF OpToRel
<1>2. PICK least \in missing : \A y \in missing : ~ (<<y, least>> \in less)
  <2>1. missing \subseteq Nat
    OBVIOUS
  <2>2. IsWellFoundedOn(less, Nat)
    BY NatLessThanWellFounded, Zenon
  <2> HIDE DEF missing, less
  <2> QED
    BY <2>1, <2>2, WFMin
<1>3. least \in 0..n /\ least # 0
  OBVIOUS
<1>4. least \in 1..n /\ least - 1 \in 0..n /\ least - 1 < least
  BY <1>3
<1>5. least - 1 \in S
  <2>1. <<least - 1, least>> \in less
    <3> HIDE DEF less
    <3>1. least \in Nat /\ least - 1 \in Nat
      BY <1>3, <1>4
    <3> QED
      BY <1>1, <1>4, <3>1
  <2>2. least - 1 \notin missing
    BY <1>2, <2>1
  <2> QED
    BY <1>4, <2>2
<1> QED
  BY <1>4, <1>5

\* A function defined by recursion over a list exists.
IsBuilt(n, V, base, step) ==
    \E f \in [0..n -> V] : f[0] = base /\ \A k \in 1..n : f[k] = step[k][f[k - 1]]

LEMMA Recursion ==
    ASSUME NEW n \in Nat, NEW V, NEW base \in V, NEW step \in [1..n -> [V -> V]]
    PROVE  IsBuilt(n, V, base, step)
<1> DEFINE Builds(m, f) == f[0] = base /\ \A k \in 1..m : f[k] = step[k][f[k - 1]]
           S == {m \in 0..n : \E f \in [0..m -> V] : Builds(m, f)}
<1>1. 0 \in S
  <2> DEFINE f == [k \in 0..0 |-> base]
  <2>1. f \in [0..0 -> V] /\ f[0] = base /\ 1..0 = {}
    OBVIOUS
  <2>2. \E h \in [0..0 -> V] : Builds(0, h)
    BY <2>1
  <2> QED
    BY <2>2
<1>2. ASSUME NEW k \in 1..n, k - 1 \in S PROVE k \in S
  <2>1. PICK f \in [0..(k - 1) -> V] : Builds(k - 1, f)
    BY <1>2
  <2> DEFINE g == [j \in 0..k |-> IF j = k THEN step[k][f[k - 1]] ELSE f[j]]
  <2>2. k - 1 \in 0..(k - 1) /\ \A j \in 0..k : j # k => j \in 0..(k - 1)
    OBVIOUS
  <2>3. step[k][f[k - 1]] \in V
    BY <2>2
  <2>4. g \in [0..k -> V]
    BY <2>2, <2>3
  <2>5. g[0] = base
    BY <2>1
  <2>6. ASSUME NEW j \in 1..k PROVE g[j] = step[j][g[j - 1]]
    <3>1. j \in 0..k /\ j - 1 \in 0..k /\ j - 1 # k
      OBVIOUS
    <3>2. CASE j = k
      BY <3>1, <3>2
    <3>3. CASE j # k
      <4>1. j \in 1..(k - 1)
        BY <3>3
      <4>2. f[j] = step[j][f[j - 1]]
        BY <2>1, <4>1
      <4> QED
        BY <3>1, <3>3, <4>2
    <3> QED
      BY <3>2, <3>3
  <2>7. \E h \in [0..k -> V] : Builds(k, h)
    <3> HIDE DEF g
    <3> QED
      BY <2>4, <2>5, <2>6
  <2>8. k \in 0..n
    OBVIOUS
  <2> HIDE DEF Builds
  <2> QED
    BY <2>7, <2>8
<1>3. n \in S
  <2> HIDE DEF S
  <2>1. \A k \in 0..n : k \in S
    BY <1>1, <1>2, UpTo
  <2> QED
    BY <2>1
<1> QED
  BY <1>3 DEF IsBuilt

\* The best route after each element of the list (defaultGateway).

Best(list) ==
    LET best[k \in 0..Len(list)] ==
          IF k = 0 THEN NoRoute
          ELSE IF Prefer(best[k - 1], list[k]) THEN list[k] ELSE best[k - 1]
    IN best

LEMMA BestUnfolds ==
    ASSUME NEW S, NEW list \in Seq(S)
    PROVE  /\ Best(list) \in [0..Len(list) -> S \cup {NoRoute}]
           /\ Best(list)[0] = NoRoute
           /\ \A k \in 1..Len(list) :
                Best(list)[k] = IF Prefer(Best(list)[k - 1], list[k]) THEN list[k]
                                                               ELSE Best(list)[k - 1]
           /\ defaultGateway(list) = Best(list)[Len(list)].gw
<1> DEFINE V == S \cup {NoRoute}
           n == Len(list)
           step == [k \in 1..n |-> [v \in V |-> IF Prefer(v, list[k]) THEN list[k] ELSE v]]
<1>1. n \in Nat /\ \A k \in 1..n : list[k] \in V
  OBVIOUS
<1>2. step \in [1..n -> [V -> V]]
  BY <1>1
<1>3. PICK f \in [0..n -> V] : f[0] = NoRoute /\ \A k \in 1..n : f[k] = step[k][f[k - 1]]
  <2>1. NoRoute \in V
    OBVIOUS
  <2> HIDE DEF V, n, step
  <2>2. IsBuilt(n, V, NoRoute, step)
    BY <1>1, <1>2, <2>1, Recursion
  <2> QED
    BY <2>2 DEF IsBuilt
<1>4. ASSUME NEW k \in 1..n
      PROVE f[k] = IF Prefer(f[k - 1], list[k]) THEN list[k] ELSE f[k - 1]
  <2>1. f[k - 1] \in V
    BY <1>1
  <2> QED
    BY <1>3, <2>1
<1>5. f = [k \in 0..n |-> IF k = 0 THEN NoRoute
                          ELSE IF Prefer(f[k - 1], list[k]) THEN list[k] ELSE f[k - 1]]
  BY <1>1, <1>3, <1>4
<1>6. Best(list) = [k \in 0..n |->
                      IF k = 0 THEN NoRoute
                      ELSE IF Prefer(Best(list)[k - 1], list[k]) THEN list[k]
                                                                ELSE Best(list)[k - 1]]
  BY <1>5, Zenon DEF Best
<1>7. defaultGateway(list) = Best(list)[Len(list)].gw
  BY DEF defaultGateway, Best
<1>8. Best(list) = f
  <2> DEFINE g == Best(list)
             same == {k \in 0..n : g[k] = f[k]}
  <2> HIDE DEF g
  <2>1. 0 \in same
    BY <1>1, <1>5, <1>6 DEF g
  <2>2. ASSUME NEW k \in 1..n, k - 1 \in same PROVE k \in same
    <3>1. k \in 0..n /\ k # 0
      BY <1>1
    <3>2. /\ g[k] = IF Prefer(g[k - 1], list[k]) THEN list[k] ELSE g[k - 1]
          /\ f[k] = IF Prefer(f[k - 1], list[k]) THEN list[k] ELSE f[k - 1]
      BY <1>5, <1>6, <3>1 DEF g
    <3> QED
      BY <2>2, <3>1, <3>2
  <2>3. \A k \in 0..n : k \in same
    <3> HIDE DEF same
    <3> QED
      BY <1>1, <2>1, <2>2, UpTo
  <2>4. \A k \in 0..n : g[k] = f[k]
    BY <2>3
  <2> QED
    BY <1>5, <1>6, <2>4 DEF g
<1> QED
  BY <1>3, <1>4, <1>7, <1>8

\* No usable route among the first k, or the first of the most preferred ones.
BestOf(list, k, best) ==
    \/ best = NoRoute /\ \A j \in 1..k : ~UsableRoute(list[j])
    \/ \E i \in 1..k : /\ best = list[i] /\ UsableRoute(list[i])
                      /\ \A j \in 1..k : UsableRoute(list[j])
                                          => list[i].priority <= list[j].priority

LEMMA DefaultGatewayIsBest ==
    ASSUME NEW S, NEW list \in Seq(S),
           \A route \in S : UsableRoute(route) => route.priority \in Nat
    PROVE  \E best : BestOf(list, Len(list), best) /\ defaultGateway(list) = best.gw
<1> DEFINE n == Len(list)
           best == Best(list)
           good == {k \in 0..n : BestOf(list, k, best[k])}
<1>1. n \in Nat /\ \A k \in 1..n : list[k] \in S
  OBVIOUS
<1>2. /\ best[0] = NoRoute
      /\ \A k \in 1..n : best[k] = IF Prefer(best[k - 1], list[k]) THEN list[k] ELSE best[k - 1]
      /\ defaultGateway(list) = best[n].gw
  BY BestUnfolds
<1> HIDE DEF best, n
<1>3. 0 \in good
  BY <1>1, <1>2 DEF BestOf
<1>4. ASSUME NEW k \in 1..n, k - 1 \in good PROVE k \in good
  <2>1. /\ k \in 0..n /\ k \in Nat /\ list[k] \in S /\ BestOf(list, k - 1, best[k - 1])
        /\ best[k] = IF Prefer(best[k - 1], list[k]) THEN list[k] ELSE best[k - 1]
    BY <1>1, <1>2, <1>4
  <2>2. /\ \A j \in 1..k : j = k \/ j \in 1..(k - 1)
        /\ \A j \in 1..(k - 1) : j \in 1..k /\ list[j] \in S
        /\ k \in 1..k
    BY <1>1, <2>1
  <2>3. \A j \in 1..k : UsableRoute(list[j]) => list[j].priority \in Nat
    BY <2>1, <2>2
  <2>4. CASE best[k - 1] = NoRoute /\ \A j \in 1..(k - 1) : ~UsableRoute(list[j])
    <3>1. CASE UsableRoute(list[k])
      <4>1. best[k] = list[k]
        BY <2>1, <2>4, <3>1 DEF Prefer
      <4>2. \A j \in 1..k : UsableRoute(list[j]) => list[k].priority <= list[j].priority
        BY <2>2, <2>3, <2>4
      <4> QED
        BY <2>1, <2>2, <3>1, <4>1, <4>2 DEF BestOf
    <3>2. CASE ~UsableRoute(list[k])
      BY <2>1, <2>2, <2>4, <3>2 DEF BestOf, Prefer
    <3> QED
      BY <3>1, <3>2
  <2>5. ASSUME NEW i \in 1..(k - 1), best[k - 1] = list[i], UsableRoute(list[i]),
               \A j \in 1..(k - 1) : UsableRoute(list[j]) => list[i].priority <= list[j].priority
        PROVE  BestOf(list, k, best[k])
    <3>1. best[k - 1] # NoRoute
      BY <2>5 DEF UsableRoute, NoRoute, Route
    <3>2. CASE UsableRoute(list[k]) /\ list[k].priority < list[i].priority
      <4>1. best[k] = list[k]
        BY <2>1, <2>5, <3>2 DEF Prefer
      <4>2. ASSUME NEW j \in 1..k, UsableRoute(list[j])
            PROVE  list[k].priority <= list[j].priority
        <5>1. list[i].priority \in Nat /\ list[j].priority \in Nat /\ list[k].priority \in Nat
          BY <2>2, <2>3, <2>5, <3>2, <4>2
        <5> QED
          BY <2>2, <2>5, <3>2, <4>2, <5>1
      <4> QED
        BY <2>2, <3>2, <4>1, <4>2 DEF BestOf
    <3>3. CASE ~(UsableRoute(list[k]) /\ list[k].priority < list[i].priority)
      <4>1. best[k] = list[i] /\ i \in 1..k
        BY <2>1, <2>2, <2>5, <3>1, <3>3 DEF Prefer
      <4>2. ASSUME NEW j \in 1..k, UsableRoute(list[j])
            PROVE  list[i].priority <= list[j].priority
        <5>1. list[i].priority \in Nat /\ list[j].priority \in Nat
          BY <2>2, <2>3, <2>5, <4>2
        <5>2. CASE j = k
          BY <3>3, <4>2, <5>1, <5>2
        <5>3. CASE j \in 1..(k - 1)
          BY <2>5, <4>2, <5>3
        <5> QED
          BY <2>2, <5>2, <5>3
      <4> QED
        BY <2>5, <4>1, <4>2 DEF BestOf
    <3> QED
      BY <3>2, <3>3
  <2> QED
    BY <2>1, <2>4, <2>5 DEF BestOf
<1>5. n \in good
  <2> HIDE DEF good
  <2>1. \A k \in 0..n : k \in good
    BY <1>1, <1>3, <1>4, UpTo
  <2> QED
    BY <1>1, <2>1
<1> QED
  BY <1>2, <1>5 DEF n

\* A listing of a set of routes in any order has them all.
LEMMA ListsAll ==
    ASSUME NEW S, IsFiniteSet(S), NEW list \in SetToSeqs(S)
    PROVE  /\ list \in Seq(S) /\ Len(list) = Cardinality(S)
           /\ \A s \in S : \E k \in 1..Len(list) : list[k] = s
<1> DEFINE n == Cardinality(S)
<1>1. n \in Nat
  BY FS_CardinalityType
<1>2. list \in [1..n -> S] /\ \A i, j \in 1..n : i # j => list[i] # list[j]
  BY DEF SetToSeqs
<1>3. list \in Injection(1..n, S)
  BY <1>2 DEF Injection, IsInjective
<1>4. Cardinality(1..n) = n
  BY <1>1, FS_Interval
<1>5. list \in Surjection(1..n, S)
  BY <1>3, <1>4, FS_Injection
<1>6. list \in Seq(S) /\ Len(list) = n
  BY <1>1, <1>2
<1> QED
  BY <1>5, <1>6 DEF Surjection

LEMMA RoutesListedFinite ==
    ASSUME NEW some \in SUBSET DefaultRoute
    PROVE  IsFiniteSet(some \cup OtherRoutes)
<1>1. IsFiniteSet(some)
  BY RoutesAssumption, FS_Subset
<1> DEFINE a == Route("default", "nil", 0)
           b == Route("default", "not IPv6", 0)
           c == Route("prefix", "router", 0)
<1>2. some \cup OtherRoutes = ((some \cup {a}) \cup {b}) \cup {c}
  BY DEF OtherRoutes
<1>3. ASSUME NEW T, IsFiniteSet(T), NEW x PROVE IsFiniteSet(T \cup {x})
  BY <1>3, FS_AddElement
<1> HIDE DEF a, b, c
<1>4. IsFiniteSet((some \cup {a}) \cup {b})
  BY <1>1, <1>3
<1> QED
  BY <1>2, <1>3, <1>4

\* Whatever the program takes for the gateway of an interface is the gateway of
\* a default route of it that no other is preferred to, and it takes one if
\* there is any.
LEMMA GatewayIsPreferred ==
    ASSUME NEW answer \in GatewayAnswers, NEW gw \in answer[2]
    PROVE  /\ answer[1] \in SUBSET DefaultRoute
           /\ \/ gw = None /\ answer[1] = {}
              \/ \E route \in answer[1] :
                   /\ route.gw = gw
                   /\ \A other \in answer[1] : route.priority <= other.priority
<1>1. PICK some \in SUBSET DefaultRoute :
        answer = <<some, {defaultGateway(list) : list \in SetToSeqs(some \cup OtherRoutes)}>>
  BY DEF GatewayAnswers
<1>2. PICK list \in SetToSeqs(some \cup OtherRoutes) : gw = defaultGateway(list)
  BY <1>1
<1> DEFINE S == some \cup OtherRoutes
<1>3. /\ list \in Seq(S) /\ Len(list) \in Nat
      /\ \A s \in S : \E k \in 1..Len(list) : list[k] = s
  <2>1. IsFiniteSet(S)
    BY RoutesListedFinite
  <2> HIDE DEF S
  <2>2. list \in Seq(S) /\ \A s \in S : \E k \in 1..Len(list) : list[k] = s
    BY <1>2, <2>1, ListsAll DEF S
  <2> QED
    BY <2>2
<1>4. /\ \A route \in some : UsableRoute(route) /\ route.priority \in Nat
      /\ \A route \in OtherRoutes : ~UsableRoute(route)
  <2>1. "nil" \notin Router /\ "not IPv6" \notin Router
    BY RoutesAssumption
  <2>2. ASSUME NEW route \in OtherRoutes PROVE ~UsableRoute(route)
    <3>1. route.dst = "prefix" \/ route.gw \in {"nil", "not IPv6"}
      <4>1. /\ Route("default", "nil", 0).gw = "nil"
            /\ Route("default", "not IPv6", 0).gw = "not IPv6"
            /\ Route("prefix", "router", 0).dst = "prefix"
        BY DEF Route
      <4> QED
        BY <4>1, Zenon DEF OtherRoutes
    <3> QED
      BY <2>1, <3>1 DEF UsableRoute
  <2> QED
    BY <2>2, RoutesAssumption
<1>5. PICK best : BestOf(list, Len(list), best) /\ defaultGateway(list) = best.gw
  BY <1>3, <1>4, DefaultGatewayIsBest
<1>6. \A k \in 1..Len(list) : UsableRoute(list[k]) => list[k] \in some
  BY <1>3, <1>4
<1>7. CASE best = NoRoute /\ \A j \in 1..Len(list) : ~UsableRoute(list[j])
  <2>1. some = {}
    BY <1>3, <1>4, <1>7
  <2>2. gw = None
    BY <1>2, <1>5, <1>7 DEF NoRoute, Route
  <2> QED
    BY <1>1, <2>1, <2>2
<1>8. ASSUME NEW i \in 1..Len(list), best = list[i], UsableRoute(list[i]),
             \A j \in 1..Len(list) : UsableRoute(list[j]) => list[i].priority <= list[j].priority
      PROVE  \E route \in some : /\ route.gw = gw
                                 /\ \A other \in some : route.priority <= other.priority
  <2>1. list[i] \in some /\ list[i].gw = gw
    BY <1>2, <1>5, <1>6, <1>8
  <2>2. ASSUME NEW other \in some PROVE list[i].priority <= other.priority
    <3>1. PICK k \in 1..Len(list) : list[k] = other
      BY <1>3
    <3> QED
      BY <1>4, <1>8, <3>1
  <2> QED
    BY <2>1, <2>2
<1>9. answer[1] = some
  BY <1>1
<1> QED
  BY <1>5, <1>7, <1>8, <1>9 DEF BestOf

-----------------------------------------------------------------------------
(* Where the search is, and what it holds open *)

\* Where the search is: putting the list together, looking at a candidate on
\* Linux, looking at one on macOS or BSD.
Listing == {"list", "route", "byName", "byIndex", "address"}
Probing == {"filter", "gateway", "neighbor", "pin"}
LinuxOnly == Probing \cup {"open", "decide", "choose"}
BSDOnly == {"uplink", "targets"}

\* What gatherHostInfo may take for a gateway.
Gateways == {None} \cup UNION {answer[2] : answer \in GatewayAnswers}

Found == [at : Nat \ {0}, gateway : Gateways]

\* The candidates that are initialized.
Ready == {ready[k].at : k \in 1..Len(ready)}

Stages ==
    /\ platform \in {"linux", "bsd"}
    /\ at \in Nat \ {0}
    /\ ready \in Seq(Found)
    /\ gatewayIP \in Gateways
    /\ pc \in Listing \cup LinuxOnly \cup BSDOnly \cup {"selected", "failed"}
    /\ pc \in LinuxOnly => platform = "linux"
    /\ pc \in BSDOnly => platform = "bsd"
    /\ pc \in {"neighbor", "pin"} => gatewayIP # None
    /\ pc \in Listing \cup BSDOnly \cup {"failed"} => ready = <<>>

\* Candidates are looked at in order, each at most once, and only while none
\* has a gateway.
InTurn ==
    /\ pc \in Probing \cup {"open", "choose"} =>
         \A k \in 1..Len(ready) : ready[k].gateway = None
    /\ pc = "decide" => \A k \in 1..Len(ready) : k < Len(ready) => ready[k].gateway = None
    /\ pc \in Probing \cup {"open"} => \A k \in 1..Len(ready) : ready[k].at < at
    /\ pc = "decide" => /\ \A k \in 1..Len(ready) : ready[k].at <= at
                        /\ ready # <<>> /\ ready[Len(ready)].at = at

\* The packet sockets that are open.
Sockets ==
    /\ pc \in Listing \cup BSDOnly \cup {"failed"} => open = {}
    /\ pc \in {"open", "decide", "choose"} => open = Ready
    /\ pc \in Probing => open = Ready \cup {at}
    /\ pc = "selected" => open = IF platform = "linux" THEN {selected} ELSE {}

\* A neighbor is pinned in the step that leads to the decision for its interface.
Pins ==
    /\ pc \notin {"decide", "selected"} => pinned = {}
    /\ pc = "decide" /\ pinned # {} => HasGateway /\ \A n \in pinned : n[1] = Candidate
    /\ pc = "selected" => \A n \in pinned : selected # 0 /\ n[1] = candidates[selected].index

SelectionInv == Stages /\ InTurn /\ Sockets /\ Pins

LEMMA InvInit == Init => SelectionInv
<1> SUFFICES ASSUME Init PROVE SelectionInv
  OBVIOUS
<1> USE DEF Init, CandidatesInit, LinuxInit, Listing, LinuxOnly, Probing, BSDOnly
<1>1. Stages
  BY DEF Stages, Gateways
<1>2. InTurn /\ Sockets /\ Pins
  BY DEF InTurn, Sockets, Pins
<1> QED
  BY <1>1, <1>2 DEF SelectionInv

\* Listing the candidates opens nothing and pins nothing.
LEMMA ResolveNext ==
    ASSUME SelectionInv, Resolve, UNCHANGED linuxVars
    PROVE  SelectionInv'
<1> USE DEF SelectionInv, Listing, LinuxOnly, Probing, BSDOnly
<1>1. pc \in Listing /\ pc' \in Listing \cup {"failed", "open", "uplink"}
  BY DEF Resolve, ListInterfaces, LookUpRoute, LookUpName, LookUpIndex, LookUpAddress,
         ScanInterfaces, Goes
<1>2. /\ pc' = "open" => platform = "linux"
      /\ pc' = "uplink" => platform # "linux"
  BY DEF Resolve, ListInterfaces, LookUpRoute, LookUpName, LookUpIndex, LookUpAddress,
         ScanInterfaces, Goes
<1>3. at' \in {at, at + 1, 1} /\ platform' = platform
  BY DEF Resolve, ListInterfaces, LookUpRoute, LookUpName, LookUpIndex, LookUpAddress,
         ScanInterfaces, world
<1>4. ready = <<>> /\ open = {} /\ pinned = {} /\ UNCHANGED linuxVars
  BY <1>1 DEF Stages, Sockets, Pins
<1>5. Stages'
  BY <1>1, <1>2, <1>3, <1>4 DEF Stages, linuxVars
<1>6. InTurn' /\ Sockets' /\ Pins'
  BY <1>1, <1>4 DEF InTurn, Sockets, Pins, Ready, linuxVars
<1> QED
  BY <1>5, <1>6

\* So does the choice on macOS and BSD.
LEMMA BSDNext ==
    ASSUME SelectionInv, BSDSelect, UNCHANGED linuxVars
    PROVE  SelectionInv'
<1> USE DEF SelectionInv, Listing, LinuxOnly, Probing, BSDOnly
<1>1. pc \in BSDOnly /\ pc' \in BSDOnly \cup {"selected", "failed"}
  BY DEF BSDSelect, TryUplink, CheckTarget, TakeUplink, NoUplink, NextUplink, Goes
<1>2. at' \in {at, at + 1} /\ platform' = platform
  BY DEF BSDSelect, TryUplink, CheckTarget, TakeUplink, NoUplink, NextUplink, world
<1>3. /\ ready = <<>> /\ open = {} /\ pinned = {} /\ UNCHANGED linuxVars
      /\ platform = "bsd"
  BY <1>1 DEF Stages, Sockets, Pins
<1>4. Stages'
  BY <1>1, <1>2, <1>3 DEF Stages, linuxVars
<1>5. InTurn' /\ Sockets' /\ Pins'
  BY <1>1, <1>2, <1>3 DEF InTurn, Sockets, Pins, Ready, linuxVars
<1> QED
  BY <1>4, <1>5

\* What the network does is not what the search holds.
LEMMA NetworkNext ==
    ASSUME SelectionInv, \/ NetworkChanges /\ UNCHANGED linuxVars
                         \/ UNCHANGED vars
    PROVE  SelectionInv'
<1>1. UNCHANGED <<platform, pc, candidates, at, selected>> /\ UNCHANGED linuxVars
  BY DEF NetworkChanges, vars, resolveVars, found, world
<1> QED
  BY <1>1 DEF SelectionInv, Stages, InTurn, Sockets, Pins, Ready, linuxVars, HasGateway,
              Candidate

-----------------------------------------------------------------------------
(* The choice on Linux *)

LEMMA MoreMoves == More \in {"open", "choose"}
BY DEF More

LEMMA ReadyTyped ==
    ASSUME Stages
    PROVE  Len(ready) \in Nat /\ \A k \in 1..Len(ready) : ready[k].at \in Nat \ {0}
<1>1. ready \in Seq(Found)
  BY DEF Stages
<1>2. Len(ready) \in Nat /\ \A k \in 1..Len(ready) : ready[k] \in Found
  BY <1>1
<1> QED
  BY <1>2 DEF Found

LEMMA OpenNext ==
    ASSUME SelectionInv, OpenSocket
    PROVE  SelectionInv'
<1> USE DEF SelectionInv, Listing, LinuxOnly, Probing, BSDOnly
<1>1. /\ pc = "open" /\ platform' = platform
      /\ UNCHANGED <<gatewayIP, ready, selected, pinned>>
      /\ \/ open' = open \cup {at} /\ pc' = "filter" /\ at' = at
         \/ pc' \in {"open", "choose"} /\ at' = at + 1 /\ open' = open
  BY MoreMoves DEF OpenSocket, Goes, world
<1>2. Stages'
  BY <1>1 DEF Stages
<1>3. \A k \in 1..Len(ready) : ready[k].at \in Nat \ {0}
  BY ReadyTyped
<1>4. InTurn'
  <2>1. \A k \in 1..Len(ready) : ready[k].at < at /\ ready[k].at < at + 1
    BY <1>1, <1>3 DEF InTurn, Stages
  <2> QED
    BY <1>1, <2>1 DEF InTurn
<1>5. Sockets' /\ Pins'
  BY <1>1 DEF Sockets, Pins, Ready
<1> QED
  BY <1>2, <1>4, <1>5

LEMMA FilterNext ==
    ASSUME SelectionInv, SetFilter
    PROVE  SelectionInv'
<1> USE DEF SelectionInv, Listing, LinuxOnly, Probing, BSDOnly
<1>1. /\ pc = "filter" /\ platform' = platform /\ gatewayIP' = None
      /\ UNCHANGED <<ready, selected, pinned>>
      /\ \/ open' = open /\ pc' = "gateway" /\ at' = at
         \/ pc' \in {"open", "choose"} /\ at' = at + 1 /\ open' = open \ {at}
  BY MoreMoves DEF SetFilter, CloseSocket, Goes, world
<1>2. Stages'
  BY <1>1 DEF Stages, Gateways
<1>3. \A k \in 1..Len(ready) : ready[k].at \in Nat \ {0}
  BY ReadyTyped
<1>4. \A k \in 1..Len(ready) : ready[k].at < at /\ ready[k].at < at + 1 /\ ready[k].at # at
  BY <1>1, <1>3 DEF InTurn, Stages
<1>5. InTurn'
  BY <1>1, <1>4 DEF InTurn
<1>6. Sockets'
  <2>1. at \notin Ready /\ Ready' = Ready
    BY <1>1, <1>4 DEF Ready
  <2> QED
    BY <1>1, <2>1 DEF Sockets
<1>7. Pins'
  BY <1>1 DEF Pins
<1> QED
  BY <1>2, <1>5, <1>6, <1>7

\* The step that ends the look at a candidate adds it to the ready ones.
LEMMA InitializedNext ==
    ASSUME SelectionInv, pc \in Probing, NEW gw \in Gateways, Initialized(gw),
           gatewayIP' \in Gateways, UNCHANGED <<platform, at, open>>
    PROVE  /\ Stages' /\ InTurn' /\ Sockets' /\ pc' = "decide"
           /\ ready'[Len(ready')] = [at |-> at, gateway |-> gw] /\ ready' # <<>>
<1> USE DEF SelectionInv, Listing, LinuxOnly, Probing, BSDOnly
<1> DEFINE last == [at |-> at, gateway |-> gw]
<1>1. pc' = "decide" /\ ready' = Append(ready, last)
  BY DEF Initialized, Goes
<1>2. last \in Found /\ ready \in Seq(Found)
  BY DEF Stages, Found
<1>3. /\ ready' \in Seq(Found) /\ Len(ready') = Len(ready) + 1 /\ ready' # <<>>
      /\ ready'[Len(ready')] = last
      /\ \A k \in 1..Len(ready) : ready'[k] = ready[k]
  BY <1>1, <1>2
<1>4. Len(ready) \in Nat
  BY <1>2
<1>5. Stages'
  BY <1>1, <1>3 DEF Stages
<1>6. InTurn'
  <2>1. \A k \in 1..Len(ready) : ready[k].at <= at
    BY ReadyTyped DEF InTurn, Stages
  <2>2. \A k \in 1..Len(ready') : ready'[k].at <= at
    BY <1>3, <1>4, <2>1 DEF Stages
  <2> QED
    BY <1>1, <1>3, <2>2 DEF InTurn
<1>7. Sockets'
  <2>1. Ready' = Ready \cup {at}
    BY <1>3, <1>4 DEF Ready
  <2> QED
    BY <1>1, <2>1 DEF Sockets
<1> QED
  BY <1>1, <1>3, <1>5, <1>6, <1>7

LEMMA GatewayNext ==
    ASSUME SelectionInv, AskGateway
    PROVE  SelectionInv'
<1> USE DEF SelectionInv, Listing, LinuxOnly, Probing, BSDOnly
<1>1. /\ pc = "gateway" /\ UNCHANGED <<platform, at, open, pinned, candidates, selected>>
      /\ None \in Gateways /\ pinned = {}
  BY DEF AskGateway, world, found, Pins, Gateways
<1>2. gatewayIP' \in Gateways
  BY DEF AskGateway, Stages, Gateways
<1>3. \/ pc' = "neighbor" /\ gatewayIP' # None /\ ready' = ready
      \/ pc' = "gateway" /\ ready' = ready
      \/ Initialized(None)
  BY <1>1 DEF AskGateway, Goes
<1>4. CASE Initialized(None)
  <2>1. Stages' /\ InTurn' /\ Sockets' /\ pc' = "decide"
    BY <1>1, <1>2, <1>4, InitializedNext
  <2> QED
    BY <1>1, <2>1 DEF Pins
<1>5. CASE pc' \in {"neighbor", "gateway"} /\ ready' = ready
            /\ (pc' = "neighbor" => gatewayIP' # None)
  <2>1. Stages'
    BY <1>1, <1>2, <1>5 DEF Stages
  <2>2. InTurn' /\ Sockets' /\ Pins'
    BY <1>1, <1>5 DEF InTurn, Sockets, Pins, Ready
  <2> QED
    BY <2>1, <2>2
<1> QED
  BY <1>3, <1>4, <1>5

\* The candidate that was looked at decides by the gateway it was given.
LEMMA LastGateway ==
    ASSUME ready # <<>>, NEW gw, ready[Len(ready)] = [at |-> at, gateway |-> gw]
    PROVE  HasGateway <=> gw # None
BY DEF HasGateway

LEMMA NeighborNext ==
    ASSUME SelectionInv, AskNeighbor \/ PinNeighbor
    PROVE  SelectionInv'
<1> USE DEF SelectionInv, Listing, LinuxOnly, Probing, BSDOnly
<1>1. /\ pc \in {"neighbor", "pin"} /\ gatewayIP # None /\ gatewayIP \in Gateways
      /\ UNCHANGED <<platform, at, open, candidates, selected, gatewayIP>> /\ pinned = {}
  BY DEF AskNeighbor, PinNeighbor, world, found, Pins, Stages
<1>2. \/ pc' \in {"neighbor", "pin"} /\ ready' = ready /\ pinned' = {}
      \/ Initialized(gatewayIP) /\ pinned' \subseteq {Neighbor}
  BY <1>1 DEF AskNeighbor, PinNeighbor, Goes
<1>3. CASE Initialized(gatewayIP) /\ pinned' \subseteq {Neighbor}
  <2>1. /\ Stages' /\ InTurn' /\ Sockets' /\ pc' = "decide" /\ ready' # <<>>
        /\ ready'[Len(ready')] = [at |-> at, gateway |-> gatewayIP]
    BY <1>1, <1>3, InitializedNext
  <2>2. HasGateway'
    BY <1>1, <2>1 DEF HasGateway
  <2>3. \A n \in pinned' : n[1] = Candidate'
    BY <1>1, <1>3 DEF Neighbor, Candidate
  <2> QED
    BY <2>1, <2>2, <2>3 DEF Pins
<1>4. CASE pc' \in {"neighbor", "pin"} /\ ready' = ready /\ pinned' = {}
  <2>1. Stages'
    BY <1>1, <1>4 DEF Stages
  <2>2. InTurn' /\ Sockets' /\ Pins'
    BY <1>1, <1>4 DEF InTurn, Sockets, Pins, Ready
  <2> QED
    BY <2>1, <2>2
<1> QED
  BY <1>2, <1>3, <1>4

\* One socket is left when a ready candidate is chosen.
LEMMA FinalizeNext ==
    ASSUME SelectionInv, pc \in {"decide", "choose"}, NEW position \in Ready,
           Finalize(position), UNCHANGED <<platform, at, ready, gatewayIP, pinned, candidates>>,
           \A n \in pinned : n[1] = candidates[position].index
    PROVE  SelectionInv'
<1> USE DEF SelectionInv, Listing, LinuxOnly, Probing, BSDOnly
<1>1. pc' = "selected" /\ selected' = position /\ open' = open \ (Ready \ {position})
  BY DEF Finalize, Goes, Ready
<1>2. platform = "linux" /\ open = Ready
  BY DEF Stages, Sockets
<1>3. open' = {position}
  BY <1>1, <1>2
<1>4. position # 0
  BY ReadyTyped DEF Ready
<1>5. Stages'
  BY <1>1 DEF Stages
<1>6. InTurn' /\ Sockets' /\ Pins'
  BY <1>1, <1>2, <1>3, <1>4 DEF InTurn, Sockets, Pins
<1> QED
  BY <1>5, <1>6

LEMMA DecideNext ==
    ASSUME SelectionInv, Decide
    PROVE  SelectionInv'
<1> USE DEF SelectionInv, Listing, LinuxOnly, Probing, BSDOnly
<1>1. /\ pc = "decide" /\ UNCHANGED <<platform, ready, gatewayIP, pinned, candidates>>
      /\ ready # <<>> /\ ready[Len(ready)].at = at
  BY DEF Decide, world, found, InTurn
<1>2. Len(ready) \in Nat /\ Len(ready) # 0 /\ Len(ready) \in 1..Len(ready)
  BY <1>1 DEF Stages
<1>3. CASE Settled
  <2>1. at \in Ready /\ Finalize(at) /\ at' = at
    BY <1>1, <1>2, <1>3 DEF Ready, Decide
  <2>2. \A n \in pinned : n[1] = candidates[at].index
    BY <1>1 DEF Pins, Candidate
  <2> QED
    BY <1>1, <2>1, <2>2, FinalizeNext
<1>4. CASE ~Settled
  <2>1. pc' \in {"open", "choose"} /\ at' = at + 1 /\ open' = open /\ selected' = selected
    BY <1>4, MoreMoves DEF Decide, Goes
  <2>2. pinned = {} /\ ready[Len(ready)].gateway = None
    BY <1>1, <1>4 DEF Settled, HasGateway, Pins
  <2>3. \A k \in 1..Len(ready) : ready[k].gateway = None
    <3>1. \A k \in 1..Len(ready) : k < Len(ready) \/ k = Len(ready)
      BY <1>2
    <3> QED
      BY <1>1, <2>2, <3>1 DEF InTurn
  <2>4. \A k \in 1..Len(ready) : ready[k].at < at + 1
    BY <1>1, ReadyTyped DEF InTurn, Stages
  <2>5. Stages'
    BY <1>1, <2>1 DEF Stages
  <2>6. InTurn' /\ Sockets' /\ Pins'
    BY <1>1, <2>1, <2>2, <2>3, <2>4 DEF InTurn, Sockets, Pins, Ready
  <2> QED
    BY <2>5, <2>6
<1> QED
  BY <1>3, <1>4

LEMMA ChooseNext ==
    ASSUME SelectionInv, Choose
    PROVE  SelectionInv'
<1> USE DEF SelectionInv, Listing, LinuxOnly, Probing, BSDOnly
<1>1. /\ pc = "choose" /\ UNCHANGED <<platform, at, ready, gatewayIP, pinned, candidates>>
      /\ pinned = {}
  BY DEF Choose, world, found, Pins
<1>2. CASE ready = <<>>
  <2>1. pc' = "failed" /\ open' = open
    BY <1>2 DEF Choose, Goes
  <2>2. open = {}
    BY <1>1, <1>2 DEF Sockets, Ready
  <2>3. Stages'
    BY <1>1, <1>2, <2>1 DEF Stages
  <2>4. InTurn' /\ Sockets' /\ Pins'
    BY <1>1, <2>1, <2>2 DEF InTurn, Sockets, Pins
  <2> QED
    BY <2>3, <2>4
<1>3. CASE ready # <<>>
  <2>1. chooseResponderRuntime = Head(ready).at
    <3>1. \A k \in 1..Len(ready) : ready[k].gateway = None
      BY <1>1 DEF InTurn
    <3> QED
      BY <3>1 DEF chooseResponderRuntime
  <2>2. 1 \in 1..Len(ready) /\ Head(ready) = ready[1]
    BY <1>3 DEF Stages
  <2>3. chooseResponderRuntime \in Ready
    BY <2>1, <2>2 DEF Ready
  <2>4. Finalize(chooseResponderRuntime)
    BY <1>3 DEF Choose
  <2> QED
    BY <1>1, <2>3, <2>4, FinalizeNext
<1> QED
  BY <1>2, <1>3

LEMMA InvNext == SelectionInv /\ [Next]_vars => SelectionInv'
BY ResolveNext, BSDNext, NetworkNext, OpenNext, FilterNext, GatewayNext, NeighborNext,
   DecideNext, ChooseNext DEF Next, Select, LinuxSelect, Ended

-----------------------------------------------------------------------------

\* The inductive invariant holds of every execution.
THEOREM SelectionInvariant == Spec => []SelectionInv
BY InvInit, InvNext, PTL DEF Spec

\* However the search for an interface ends, no socket leaks.
THEOREM OneSocketIsLeft == Spec => []OneSocketLeft
<1>1. SelectionInv => OneSocketLeft
  BY DEF SelectionInv, Sockets, OneSocketLeft
<1> QED
  BY <1>1, SelectionInvariant, PTL

\* No neighbor of an interface that is not used is pinned.
THEOREM PinsOnlyWhereSelected == Spec => []PinnedOnlyWhereSelected
<1>1. SelectionInv => PinnedOnlyWhereSelected
  BY DEF SelectionInv, Pins, PinnedOnlyWhereSelected
<1> QED
  BY <1>1, SelectionInvariant, PTL

-----------------------------------------------------------------------------
(* What the search knows: the host, the list, and where it is in the list   *)

\* An entry of the candidate list.
Entry == [index : Iface, reason : (SUBSET Reasons) \ {{}}]

\* The requested interface, as far as it can be had.
Asked == {Requested} \cap ListedUsable

Indexes(list) == {list[k].index : k \in 1..Len(list)}

Ranks == [i \in Iface |-> Rank(i)]

\* Interface i comes before j when interfaces are ranked by r.
Precedes(r, i, j) == \/ r[i] < r[j]
                     \/ r[i] = r[j] /\ Position(i) < Position(j)

Sorted(list, r) == \A k, l \in 1..Len(list) :
                     k < l => Precedes(r, list[k].index, list[l].index)

\* In a list with each interface once, only what was asked for says so.
AsksFor(list, asked) == \A k \in 1..Len(list) :
    "requested" \in list[k].reason <=> list[k].index \in asked

Host ==
    /\ link \in [Iface -> {"absent", "down", "up"}]
    /\ addressed \subseteq Iface
    /\ via \in Iface \cup {None}
    /\ targetVia \in [Target -> Iface \cup {None}]
    /\ routes \in [Iface -> SUBSET DefaultRoute]
    /\ Consistent
    /\ changes \in Nat /\ faults \in Nat

\* The passes over the host, one after the other.
Passes ==
    /\ routed \in Iface \cup {None}
    /\ withAddress \subseteq ListedUsable
    /\ pc = "list" => candidates = <<>>
    /\ pc \in {"list", "route"} => routed = None
    /\ pc \in {"byName", "byIndex"} => routed # None
    /\ pc \in {"list", "route", "byName", "byIndex"} => withAddress = {} /\ at = 1
    /\ pc \in {"route", "byName", "byIndex"} => Indexes(candidates) = Asked
    /\ pc = "address" =>
         /\ Indexes(candidates) = Asked \cup ({routed} \ {None}) \cup withAddress
         /\ \A i \in withAddress : Position(i) < at
         /\ at <= Len(Order) + 1
    /\ Resolved /\ pc # "failed" =>
         Indexes(candidates) = ListedUsable \cup ({routed} \ {None})

\* The list: each interface once, by its best reason, and asked for by name
\* only if it was.
Listings ==
    /\ candidates \in Seq(Entry)
    /\ Sorted(candidates, Ranks)
    /\ AsksFor(candidates, Asked)

\* Everything the search holds on to is a position in the list.
Positions ==
    /\ pc \in Probing \cup {"open", "decide", "targets"} => at <= Len(candidates)
    /\ Resolved => at <= Len(candidates) + 1
    /\ \A k \in 1..Len(ready) : ready[k].at <= Len(candidates)
    /\ selected \in 0..Len(candidates)
    /\ pc = "selected" <=> selected # 0
    /\ attempt \in 0..(MaxRetries - 1)
    /\ pc = "gateway" => gatewayIP = None
    /\ pinned \subseteq Iface \X Router
    /\ unrouted \subseteq Target

\* An initialized candidate that was asked for ends the search on Linux.
AskedSettles ==
    /\ pc \in Probing \cup {"open", "choose"} =>
         \A k \in 1..Len(ready) : candidates[ready[k].at].index \notin Asked
    /\ pc = "decide" => \A k \in 1..Len(ready) :
         k < Len(ready) => candidates[ready[k].at].index \notin Asked
    /\ pc = "selected" /\ platform = "linux" =>
         \/ candidates[selected].index \in Asked
         \/ \A k \in 1..Len(ready) : candidates[ready[k].at].index \notin Asked

Undisturbed == changes = 0 /\ faults = 0

\* On macOS and BSD what was passed over carries less than every target.
Uplinks ==
    platform = "bsd" =>
      /\ pc = "targets" => isBSDNDPProxyUplink(Candidate)
      /\ pc = "targets" /\ Undisturbed => \A t \in Target \ unrouted : targetVia[t] = Candidate
      /\ pc \in BSDOnly /\ Undisturbed =>
           \A k \in 1..Len(candidates) : k < at => ~Carries(candidates[k].index)
      /\ pc = "selected" => isBSDNDPProxyUplink(candidates[selected].index)
      /\ pc \in {"selected", "failed"} /\ Undisturbed => selected = FirstUplink

SearchInv == Host /\ Passes /\ Listings /\ Positions /\ AskedSettles /\ Uplinks

-----------------------------------------------------------------------------
(* The candidate list *)

LEMMA Positioned ==
    /\ Len(Order) \in Nat
    /\ \A k \in 1..Len(Order) : Order[k] \in Iface /\ Position(Order[k]) = k
    /\ \A i \in Iface : Position(i) \in 1..Len(Order) /\ Order[Position(i)] = i
<1>1. Order \in Seq(Iface) /\ \A k, l \in 1..Len(Order) : Order[k] = Order[l] => k = l
  BY CandidatesAssumption
<1>2. ASSUME NEW i \in Iface
      PROVE  Position(i) \in 1..Len(Order) /\ Order[Position(i)] = i
  <2>1. \E k \in 1..Len(Order) : Order[k] = i
    BY DEF Iface
  <2> QED
    BY <2>1 DEF Position
<1>3. \A k \in 1..Len(Order) : Order[k] \in Iface
  BY DEF Iface
<1>4. \A k \in 1..Len(Order) : Position(Order[k]) = k
  BY <1>1, <1>2, <1>3
<1>5. Len(Order) \in Nat
  BY <1>1
<1> QED
  BY <1>2, <1>3, <1>4, <1>5

LEMMA EntriesTyped ==
    ASSUME NEW list \in Seq(Entry)
    PROVE  /\ Len(list) \in Nat
           /\ \A k \in 1..Len(list) : /\ list[k] \in Entry /\ list[k].index \in Iface
                                      /\ list[k].reason \in (SUBSET Reasons) \ {{}}
<1>1. \A k \in 1..Len(list) : list[k] \in Entry
  OBVIOUS
<1> QED
  BY <1>1 DEF Entry

\* No interface is in a sorted list twice, so the list is no longer than Order.
LEMMA SortedIsShort ==
    ASSUME NEW list \in Seq(Entry), NEW r \in [Iface -> 0..3], Sorted(list, r)
    PROVE  Len(list) <= Len(Order)
<1> DEFINE n == Len(list)
           f == [k \in 1..n |-> Position(list[k].index)]
<1>1. n \in Nat /\ \A k \in 1..n : list[k].index \in Iface
  BY EntriesTyped
<1>2. f \in [1..n -> 1..Len(Order)]
  BY <1>1, Positioned
<1>3. \A k, l \in 1..n : k < l => f[k] # f[l]
  <2> SUFFICES ASSUME NEW k \in 1..n, NEW l \in 1..n, k < l, f[k] = f[l] PROVE FALSE
    OBVIOUS
  <2>1. list[k].index = list[l].index
    BY <1>1, Positioned
  <2>2. Precedes(r, list[k].index, list[k].index)
    BY <2>1 DEF Sorted
  <2>3. r[list[k].index] \in 0..3 /\ Position(list[k].index) \in 1..Len(Order)
    BY <1>1, Positioned
  <2> QED
    BY <2>2, <2>3 DEF Precedes
<1> HIDE DEF f
<1>4. \A k, l \in 1..n : k # l => f[k] # f[l]
  <2>1. \A k, l \in 1..n : k < l \/ l < k \/ k = l
    BY <1>1
  <2> QED
    BY <1>3, <2>1
<1>5. /\ IsFiniteSet(1..n) /\ Cardinality(1..n) = n
      /\ IsFiniteSet(1..Len(Order)) /\ Cardinality(1..Len(Order)) = Len(Order)
  <2>1. Len(Order) \in Nat
    BY Positioned
  <2>2. ASSUME NEW m \in Nat PROVE IsFiniteSet(1..m) /\ Cardinality(1..m) = m
    BY FS_Interval
  <2> QED
    BY <1>1, <2>1, <2>2
<1>6. ~(Len(Order) < n)
  BY <1>2, <1>4, <1>5, FS_PigeonHole
<1> QED
  BY <1>1, <1>6, Positioned

\* What addInterfaceCandidate does to the list, entry by entry.
LEMMA Added ==
    ASSUME NEW list \in Seq(Entry), NEW i \in Iface, NEW reason \in Reasons
    PROVE  LET added == addInterfaceCandidate(list, i, reason)
           IN /\ added \in Seq(Entry)
              /\ \A k \in 1..Len(list) :
                   /\ k \in 1..Len(added)
                   /\ added[k].index = list[k].index
                   /\ added[k].reason = list[k].reason
                        \/ added[k].reason = list[k].reason \cup {reason}
              /\ i \in Indexes(list) => Len(added) = Len(list)
              /\ i \notin Indexes(list) =>
                   /\ Len(added) = Len(list) + 1
                   /\ added[Len(list) + 1] = [index |-> i, reason |-> {reason}]
<1> DEFINE added == addInterfaceCandidate(list, i, reason)
           n == Len(list)
<1>1. /\ n \in Nat
      /\ \A k \in 1..n : /\ list[k] \in Entry /\ list[k].index \in Iface
                         /\ list[k].reason \in (SUBSET Reasons) \ {{}}
  BY EntriesTyped
<1>2. CASE Listed(list, i)
  <2> DEFINE new(k) == [index |-> i, reason |-> list[k].reason \cup {reason}]
  <2>1. added = [k \in 1..n |-> IF list[k].index = i THEN new(k) ELSE list[k]]
    BY <1>2 DEF addInterfaceCandidate
  <2>2. \A k \in 1..n : new(k) \in Entry
    <3>1. \A k \in 1..n : list[k].reason \cup {reason} \in (SUBSET Reasons) \ {{}}
      BY <1>1
    <3> QED
      BY <3>1 DEF Entry
  <2>3. added \in [1..n -> Entry]
    BY <1>1, <2>1, <2>2
  <2>4. added \in Seq(Entry) /\ Len(added) = n
    BY <1>1, <2>3
  <2>5. ASSUME NEW k \in 1..n
        PROVE  /\ added[k].index = list[k].index
               /\ added[k].reason = list[k].reason
                    \/ added[k].reason = list[k].reason \cup {reason}
    BY <2>1
  <2>6. i \in Indexes(list)
    BY <1>2 DEF Listed, Indexes
  <2> QED
    BY <2>4, <2>5, <2>6
<1>3. CASE ~Listed(list, i)
  <2> DEFINE new == [index |-> i, reason |-> {reason}]
  <2>1. added = Append(list, new) /\ new \in Entry
    <3>1. {reason} \in (SUBSET Reasons) \ {{}}
      OBVIOUS
    <3> QED
      BY <1>3, <3>1 DEF addInterfaceCandidate, Entry
  <2>2. /\ added \in Seq(Entry) /\ Len(added) = n + 1 /\ added[n + 1] = new
        /\ \A k \in 1..n : added[k] = list[k]
    BY <2>1
  <2>3. \A k \in 1..n : k \in 1..(n + 1)
    BY <1>1
  <2>4. i \notin Indexes(list)
    BY <1>3 DEF Listed, Indexes
  <2> QED
    BY <2>2, <2>3, <2>4
<1> QED
  BY <1>2, <1>3

\* An interface that comes after the others leaves the list sorted.
LEMMA AddedIsSorted ==
    ASSUME NEW list \in Seq(Entry), NEW i \in Iface, NEW reason \in Reasons,
           NEW r \in [Iface -> 0..3], Sorted(list, r),
           i \notin Indexes(list) => \A j \in Indexes(list) : Precedes(r, j, i)
    PROVE  LET added == addInterfaceCandidate(list, i, reason)
           IN /\ added \in Seq(Entry) /\ Sorted(added, r)
              /\ Indexes(added) = Indexes(list) \cup {i}
<1> DEFINE added == addInterfaceCandidate(list, i, reason)
           n == Len(list)
<1> HIDE DEF added
<1>1. /\ added \in Seq(Entry) /\ n \in Nat
      /\ \A k \in 1..n : k \in 1..Len(added) /\ added[k].index = list[k].index
      /\ i \in Indexes(list) => Len(added) = n
      /\ i \notin Indexes(list) => Len(added) = n + 1 /\ added[n + 1].index = i
  <2>1. n \in Nat
    BY EntriesTyped
  <2>2. [index |-> i, reason |-> {reason}].index = i
    OBVIOUS
  <2>3. /\ added \in Seq(Entry)
        /\ \A k \in 1..n : k \in 1..Len(added) /\ added[k].index = list[k].index
        /\ i \in Indexes(list) => Len(added) = n
        /\ i \notin Indexes(list) => /\ Len(added) = n + 1
                                    /\ added[n + 1] = [index |-> i, reason |-> {reason}]
    BY Added DEF added
  <2> QED
    BY <2>1, <2>2, <2>3
<1>2. CASE i \in Indexes(list)
  BY <1>1, <1>2 DEF Sorted, Indexes, added
<1>3. CASE i \notin Indexes(list)
  <2>1. /\ \A k \in 1..Len(added) : k \in 1..n \/ k = n + 1
        /\ \A k, l \in 1..Len(added) : k < l => k \in 1..n
    BY <1>1, <1>3
  <2>2. ASSUME NEW k \in 1..Len(added), NEW l \in 1..Len(added), k < l
        PROVE  Precedes(r, added[k].index, added[l].index)
    <3>1. k \in 1..n /\ added[k].index = list[k].index /\ list[k].index \in Indexes(list)
      BY <1>1, <2>1, <2>2 DEF Indexes
    <3>2. CASE l \in 1..n
      BY <1>1, <2>2, <3>1, <3>2 DEF Sorted
    <3>3. CASE l = n + 1
      BY <1>1, <1>3, <3>1, <3>3
    <3> QED
      BY <2>1, <3>2, <3>3
  <2>3. Sorted(added, r)
    BY <2>2 DEF Sorted
  <2>4. Indexes(added) = Indexes(list) \cup {i}
    <3>1. n + 1 \in 1..Len(added)
      BY <1>1, <1>3
    <3> QED
      BY <1>1, <1>3, <2>1, <3>1 DEF Indexes
  <2> QED
    BY <1>1, <2>3, <2>4 DEF added
<1> QED
  BY <1>2, <1>3

LEMMA AddedAsksFor ==
    ASSUME NEW list \in Seq(Entry), NEW i \in Iface, NEW reason \in Reasons \ {"requested"},
           NEW asked, AsksFor(list, asked), i \in asked => i \in Indexes(list)
    PROVE  AsksFor(addInterfaceCandidate(list, i, reason), asked)
<1> DEFINE added == addInterfaceCandidate(list, i, reason)
           n == Len(list)
<1>1. /\ n \in Nat /\ added \in Seq(Entry)
      /\ \A k \in 1..n : /\ added[k].index = list[k].index
                         /\ added[k].reason = list[k].reason
                              \/ added[k].reason = list[k].reason \cup {reason}
      /\ i \in Indexes(list) => Len(added) = n
      /\ i \notin Indexes(list) =>
           Len(added) = n + 1 /\ added[n + 1] = [index |-> i, reason |-> {reason}]
  BY Added, EntriesTyped
<1> HIDE DEF added
<1>2. \A k \in 1..n : "requested" \in added[k].reason <=> added[k].index \in asked
  BY <1>1 DEF AsksFor
<1>3. i \notin Indexes(list) =>
        ("requested" \in added[n + 1].reason <=> added[n + 1].index \in asked)
  BY <1>1
<1>4. \A k \in 1..Len(added) : k \in 1..n \/ (i \notin Indexes(list) /\ k = n + 1)
  BY <1>1
<1> QED
  BY <1>2, <1>3, <1>4 DEF AsksFor, added

-----------------------------------------------------------------------------
(* The host *)

LEMMA LinkNext ==
    ASSUME Host, LinkChanges
    PROVE  /\ link' \in [Iface -> {"absent", "down", "up"}] /\ addressed' \subseteq Iface
           /\ via' \in Iface \cup {None} /\ targetVia' \in [Target -> Iface \cup {None}]
           /\ routes' \in [Iface -> SUBSET DefaultRoute] /\ Consistent'
<1>1. /\ link' \in [Iface -> {"absent", "down", "up"}] /\ addressed' \subseteq Iface
      /\ via' \in {via, None}
      /\ targetVia' \in [Target -> Iface \cup {None}]
      /\ routes' \in [Iface -> SUBSET DefaultRoute]
  BY DEF Host, LinkChanges
<1>2. \A i \in addressed' : link'[i] # "absent"
  BY DEF LinkChanges
<1>3. via' # None => link'[via'] = "up"
  BY DEF LinkChanges
<1>4. \A t \in Target : targetVia'[t] # None => link'[targetVia'[t]] = "up"
  BY DEF LinkChanges
<1>5. \A i \in Iface : routes'[i] # {} => link'[i] = "up"
  BY DEF LinkChanges
<1>6. Consistent'
  BY <1>2, <1>3, <1>4, <1>5 DEF Consistent
<1> QED
  BY <1>1, <1>6 DEF Host

LEMMA RoutesNext ==
    ASSUME Host, RoutesChange
    PROVE  /\ link' = link /\ addressed' = addressed
           /\ via' \in Iface \cup {None} /\ targetVia' \in [Target -> Iface \cup {None}]
           /\ routes' \in [Iface -> SUBSET DefaultRoute] /\ Consistent'
<1>1. /\ link' = link /\ addressed' = addressed
      /\ via' \in Iface \cup {None} /\ (via' # None => link[via'] = "up")
  BY DEF RoutesChange, UpOrNone
<1>2. /\ \A i \in addressed : link[i] # "absent"
      /\ \A t \in Target : targetVia[t] # None => link[targetVia[t]] = "up"
      /\ \A i \in Iface : routes[i] # {} /\ i # None => link[i] = "up"
  BY DEF Host, Consistent
<1>3. CASE platform = "linux"
  <2>1. PICK i \in UpOrNone \ {None}, some \in SUBSET DefaultRoute :
          routes' = [routes EXCEPT ![i] = some]
    BY <1>3 DEF RoutesChange
  <2>2. i \in Iface /\ link[i] = "up"
    BY DEF UpOrNone
  <2>3. targetVia' = targetVia /\ routes' \in [Iface -> SUBSET DefaultRoute]
    BY <1>3, <2>1, <2>2 DEF RoutesChange, Host
  <2>4. \A j \in Iface : routes'[j] # {} /\ j # None => link[j] = "up"
    BY <1>2, <2>1, <2>2 DEF Host
  <2> QED
    BY <1>1, <1>2, <2>3, <2>4 DEF Consistent, Host
<1>4. CASE platform # "linux"
  <2>1. PICK t \in Target, i \in UpOrNone : targetVia' = [targetVia EXCEPT ![t] = i]
    BY <1>4 DEF RoutesChange
  <2>2. i \in Iface \cup {None} /\ (i # None => link[i] = "up")
    BY DEF UpOrNone
  <2>3. routes' = routes /\ targetVia' \in [Target -> Iface \cup {None}]
    BY <1>4, <2>1, <2>2 DEF RoutesChange, Host
  <2>4. \A u \in Target : targetVia'[u] # None => link[targetVia'[u]] = "up"
    BY <1>2, <2>1, <2>2 DEF Host
  <2> QED
    BY <1>1, <1>2, <2>3, <2>4 DEF Consistent, Host
<1> QED
  BY <1>3, <1>4

\* The selection asks; only the network, and a pinned neighbor, change the host.
LEMMA SelectAsks ==
    ASSUME Resolve \/ LinuxSelect \/ BSDSelect
    PROVE  /\ UNCHANGED <<platform, link, addressed, via, targetVia, routes, changes>>
           /\ faults' \in {faults, faults + 1}
<1>1. CASE Resolve
  BY <1>1 DEF Resolve, ListInterfaces, LookUpRoute, LookUpName, LookUpIndex,
              LookUpAddress, ScanInterfaces, Fault, world
<1>2. CASE LinuxSelect
  BY <1>2 DEF LinuxSelect, OpenSocket, SetFilter, AskGateway, AskNeighbor, PinNeighbor,
              Decide, Choose, Fault, world
<1>3. CASE BSDSelect
  BY <1>3 DEF BSDSelect, TryUplink, CheckTarget, TakeUplink, NoUplink, Fault, world
<1> QED
  BY <1>1, <1>2, <1>3

LEMMA HostNext == Host /\ [Next]_vars => Host'
<1> SUFFICES ASSUME Host, [Next]_vars PROVE Host'
  OBVIOUS
<1>1. CASE NetworkChanges
  <2>1. changes' = changes + 1 /\ faults' = faults
    BY <1>1 DEF NetworkChanges
  <2>2. CASE LinkChanges
    BY <2>1, <2>2, LinkNext DEF Host
  <2>3. CASE RoutesChange
    BY <2>1, <2>3, RoutesNext DEF Host
  <2>4. CASE AddressesChange \/ NeighborAnswers
    <3>1. /\ UNCHANGED <<link, via, targetVia, routes>> /\ addressed' \subseteq Iface
          /\ \A i \in addressed' : link[i] # "absent"
      BY <2>4 DEF AddressesChange, NeighborAnswers, Host, Consistent
    <3> QED
      BY <2>1, <3>1 DEF Host, Consistent
  <2> QED
    BY <1>1, <2>2, <2>3, <2>4 DEF NetworkChanges
<1>2. CASE Resolve \/ LinuxSelect \/ BSDSelect \/ UNCHANGED vars
  <2>1. /\ UNCHANGED <<link, addressed, via, targetVia, routes, changes>>
        /\ faults' \in {faults, faults + 1}
    BY <1>2, SelectAsks DEF vars, resolveVars, world
  <2>2. faults' \in Nat
    BY <2>1 DEF Host
  <2> QED
    BY <2>1, <2>2 DEF Host, Consistent
<1> QED
  BY <1>1, <1>2 DEF Next, Select, Ended

-----------------------------------------------------------------------------
(* The passes over the host *)

LEMMA RanksTyped == Ranks \in [Iface -> 0..3] /\ Ranks' \in [Iface -> 0..3]
<1>1. \A i : Rank(i) \in 0..3 /\ Rank(i)' \in 0..3
  BY DEF Rank
<1> QED
  BY <1>1 DEF Ranks

\* The list is as sorted as before while the ranks of its members stay.
LEMMA SortedKept ==
    ASSUME NEW list \in Seq(Entry), NEW r, NEW s, Sorted(list, r),
           \A i \in Indexes(list) : s[i] = r[i]
    PROVE  Sorted(list, s)
BY DEF Sorted, Precedes, Indexes

LEMMA SameRanks ==
    ASSUME UNCHANGED <<listing, routed, withAddress>>
    PROVE  Ranks' = Ranks /\ ListedUsable' = ListedUsable /\ Asked' = Asked
BY DEF Ranks, Rank, ListedUsable, Asked

\* After the list is made nothing changes it.
LEMMA FoundKeeps ==
    ASSUME Passes, Listings, UNCHANGED found,
           \/ UNCHANGED <<pc, at>>
           \/ Resolved /\ pc # "failed" /\ Resolved'
    PROVE  Passes' /\ Listings'
<1>1. /\ UNCHANGED <<listing, routed, withAddress, candidates>>
      /\ Ranks' = Ranks /\ ListedUsable' = ListedUsable /\ Asked' = Asked
  BY SameRanks DEF found
<1>2. Listings'
  BY <1>1 DEF Listings
<1>3. CASE UNCHANGED <<pc, at>>
  BY <1>1, <1>2, <1>3 DEF Passes, Resolved
<1>4. CASE Resolved /\ pc # "failed" /\ Resolved'
  BY <1>1, <1>2, <1>4 DEF Passes, Resolved
<1> QED
  BY <1>3, <1>4

LEMMA ListNext ==
    ASSUME Host, Passes, Listings, ListInterfaces
    PROVE  Passes' /\ Listings'
<1>1. /\ pc = "list" /\ candidates = <<>> /\ routed = None /\ withAddress = {} /\ at = 1
      /\ UNCHANGED <<routed, withAddress, at>>
  BY DEF ListInterfaces, Passes
<1>2. CASE Fault /\ pc' = "failed" /\ UNCHANGED <<listing, candidates>>
  <2>1. Ranks' = Ranks /\ ListedUsable' = ListedUsable /\ Asked' = Asked
    BY <1>1, <1>2, SameRanks
  <2> QED
    BY <1>1, <1>2, <2>1 DEF Passes, Listings, Resolved
<1>3. CASE listing' = link /\ pc' = "route"
  <2>1. /\ Asked' = IF Requested # None /\ link[Requested] = "up" THEN {Requested} ELSE {}
        /\ Requested # None => Requested \in Iface
    BY <1>3, CandidatesAssumption DEF Asked, ListedUsable
  <2>2. CASE Requested # None /\ link[Requested] = "up"
    <3> DEFINE first == addInterfaceCandidate(<<>>, Requested, "requested")
    <3>1. candidates' = first
      BY <1>3, <2>2 DEF ListInterfaces, Goes
    <3>2. <<>> \in Seq(Entry) /\ Indexes(<<>>) = {} /\ Sorted(<<>>, Ranks')
      BY DEF Indexes, Sorted
    <3>3. "requested" \in Reasons
      BY DEF Reasons
    <3>4. first \in Seq(Entry) /\ Sorted(first, Ranks') /\ Indexes(first) = {Requested}
      <4> HIDE DEF first
      <4> QED
        BY <2>1, <2>2, <3>2, <3>3, RanksTyped, AddedIsSorted DEF first
    <3>5. first = <<[index |-> Requested, reason |-> {"requested"}]>>
      BY DEF addInterfaceCandidate, Listed
    <3>6. AsksFor(first, Asked')
      BY <2>1, <2>2, <3>5 DEF AsksFor
    <3>7. Listings'
      BY <3>1, <3>4, <3>6 DEF Listings
    <3>8. Passes'
      BY <1>1, <1>3, <2>1, <2>2, <3>1, <3>4 DEF Passes, Resolved
    <3> QED
      BY <3>7, <3>8
  <2>3. CASE ~(Requested # None /\ link[Requested] = "up")
    <3>1. candidates' = <<>> /\ Asked' = {}
      BY <1>3, <2>1, <2>3 DEF ListInterfaces, Goes
    <3>2. Listings'
      BY <3>1 DEF Listings, Sorted, AsksFor
    <3>3. Indexes(candidates') = {}
      BY <3>1 DEF Indexes
    <3>4. Passes'
      BY <1>1, <1>3, <3>1, <3>3 DEF Passes, Resolved
    <3> QED
      BY <3>2, <3>4
  <2> QED
    BY <2>2, <2>3
<1> QED
  BY <1>2, <1>3 DEF ListInterfaces, Goes

\* The only interface the output of the route command names is that of the route.
LEMMA RouteOutputNames ==
    ASSUME NEW ifname
    PROVE  RouteInterfaces(ifname) \subseteq {ifname}
<1> SUFFICES ASSUME NEW lines \in RouteOutputs(ifname), NEW l \in lines, l.key = "interface"
             PROVE  l.value = ifname
  BY DEF RouteInterfaces, bsdRouteInterfaceFromOutput
<1>1. \A key, value : Line(key, value).key = key /\ Line(key, value).value = value
  BY DEF Line
<1>2. \/ l \in {Line("route to", "target"), Line("gateway", "router"),
                Line("interface", ifname), Line("flags", "UP")}
      \/ l \in {Line("destination", "default"), Line("interface", ifname),
                Line("if address", "source"), Line("", "recvpipe")}
  BY DEF RouteOutputs
<1>3. \/ l = Line("interface", ifname)
      \/ \E key \in {"route to", "gateway", "flags", "destination", "if address", ""} :
           \E value : l = Line(key, value)
  BY <1>2
<1> QED
  BY <1>1, <1>3

LEMMA RouteAnswers == DefaultRouteAnswers \subseteq {via}
BY RouteOutputNames DEF DefaultRouteAnswers

\* While only what was asked for is listed, the ranks of the list do not depend
\* on the route.
LEMMA AskedFirst ==
    ASSUME Listings, Indexes(candidates) = Asked, UNCHANGED <<listing, candidates>>
    PROVE  Listings' /\ Asked' = Asked /\ ListedUsable' = ListedUsable
<1>1. Asked' = Asked /\ ListedUsable' = ListedUsable
  BY DEF Asked, ListedUsable
<1>2. \A i \in Asked : i \in Iface /\ Rank(i) = 0 /\ Rank(i)' = 0
  BY <1>1 DEF Asked, Rank, ListedUsable
<1>3. Sorted(candidates, Ranks')
  <2>1. \A i \in Indexes(candidates) : Ranks'[i] = Ranks[i]
    BY <1>2 DEF Ranks
  <2> QED
    BY <2>1, SortedKept DEF Listings
<1> QED
  BY <1>1, <1>3 DEF Listings

LEMMA RouteNext ==
    ASSUME Host, Passes, Listings, LookUpRoute \/ LookUpName
    PROVE  Passes' /\ Listings'
<1>1. /\ pc \in {"route", "byName"} /\ UNCHANGED <<listing, candidates, withAddress, at>>
      /\ Indexes(candidates) = Asked /\ withAddress = {} /\ at = 1
  BY DEF LookUpRoute, LookUpName, Passes
<1>2. Listings' /\ Asked' = Asked /\ ListedUsable' = ListedUsable
  BY <1>1, AskedFirst
<1>3. /\ routed' \in Iface \cup {None}
      /\ pc' \in {"address", "byName", "byIndex"}
      /\ pc' = "address" <=> routed' = None
  <2>1. CASE LookUpRoute
    BY <2>1, RouteAnswers DEF LookUpRoute, Goes, Host
  <2>2. CASE LookUpName
    BY <2>2 DEF LookUpName, Goes, Passes
  <2> QED
    BY <2>1, <2>2
<1>4. 1 <= Len(Order) + 1
  BY Positioned
<1> QED
  BY <1>1, <1>2, <1>3, <1>4 DEF Passes, Resolved

LEMMA IndexNext ==
    ASSUME Host, Passes, Listings, LookUpIndex
    PROVE  Passes' /\ Listings'
<1>1. /\ pc = "byIndex" /\ pc' = "address" /\ UNCHANGED <<listing, withAddress, at>>
      /\ Indexes(candidates) = Asked /\ withAddress = {} /\ at = 1
      /\ routed \in Iface /\ routed # None
  BY CandidatesAssumption DEF LookUpIndex, Passes, Goes
<1>2. 1 <= Len(Order) + 1
  BY Positioned
<1>3. CASE link[routed] = "up"
  <2>1. /\ routed' = routed
        /\ candidates' = addInterfaceCandidate(candidates, routed, "default-ipv6-route")
    BY <1>3 DEF LookUpIndex
  <2>2. Ranks' = Ranks /\ ListedUsable' = ListedUsable /\ Asked' = Asked
    BY <1>1, <2>1, SameRanks
  <2>3. routed \notin Asked => \A j \in Asked : Precedes(Ranks, j, routed)
    <3>1. \A j \in Asked : j \in Iface /\ Rank(j) = 0
      BY DEF Asked, Rank, ListedUsable
    <3>2. routed \notin Asked => Rank(routed) = 1
      BY DEF Asked, Rank
    <3> QED
      BY <1>1, <3>1, <3>2 DEF Ranks, Precedes
  <2>4. "default-ipv6-route" \in Reasons \ {"requested"}
    BY DEF Reasons
  <2>5. /\ candidates' \in Seq(Entry) /\ Sorted(candidates', Ranks)
        /\ Indexes(candidates') = Asked \cup {routed}
    BY <1>1, <2>1, <2>3, <2>4, AddedIsSorted, RanksTyped DEF Listings
  <2>6. AsksFor(candidates', Asked)
    BY <1>1, <2>1, <2>4, AddedAsksFor DEF Listings
  <2>7. Listings'
    BY <2>2, <2>5, <2>6 DEF Listings
  <2> QED
    BY <1>1, <1>2, <2>1, <2>2, <2>5, <2>7 DEF Passes, Resolved
<1>4. CASE link[routed] # "up"
  <2>1. routed' = None /\ candidates' = candidates
    BY <1>4 DEF LookUpIndex
  <2>2. Listings' /\ Asked' = Asked /\ ListedUsable' = ListedUsable
    BY <1>1, <2>1, AskedFirst
  <2> QED
    BY <1>1, <1>2, <2>1, <2>2 DEF Passes, Resolved
<1> QED
  BY <1>3, <1>4

\* A usable interface with an address comes after what is listed so far.
LEMMA AddressNext ==
    ASSUME Stages, Passes, Listings, LookUpAddress
    PROVE  Passes' /\ Listings'
<1> DEFINE i == Order[at]
<1>1. /\ pc = "address" /\ UNCHANGED <<pc, listing, routed>> /\ at' = at + 1
      /\ at <= Len(Order)
  BY DEF LookUpAddress
<1>2. /\ Indexes(candidates) = Asked \cup ({routed} \ {None}) \cup withAddress
      /\ \A j \in withAddress : Position(j) < at
  BY <1>1 DEF Passes
<1>3. at \in 1..Len(Order) /\ i \in Iface /\ Position(i) = at
  BY <1>1, Positioned DEF Stages
<1>4. /\ at + 1 <= Len(Order) + 1
      /\ \A j \in withAddress : Position(j) < at + 1
  <2>1. \A j \in withAddress : Position(j) \in 1..Len(Order)
    BY Positioned DEF Passes, ListedUsable
  <2> QED
    BY <1>2, <1>3, <2>1, Positioned
<1>5. CASE UNCHANGED <<candidates, withAddress>>
  <2>1. Ranks' = Ranks /\ ListedUsable' = ListedUsable /\ Asked' = Asked
    BY <1>1, <1>5, SameRanks
  <2>2. Listings'
    BY <1>5, <2>1 DEF Listings
  <2>3. Passes'
    BY <1>1, <1>2, <1>4, <1>5, <2>1 DEF Passes, Resolved
  <2> QED
    BY <2>2, <2>3
<1>6. CASE /\ i \in ListedUsable /\ withAddress' = withAddress \cup {i}
           /\ candidates' = addInterfaceCandidate(candidates, i, "interface-ipv6-address")
  <2>1. ListedUsable' = ListedUsable /\ Asked' = Asked
    BY <1>1 DEF ListedUsable, Asked
  <2>2. \A j \in Iface : \/ Rank(j)' = Rank(j)
                         \/ j = i /\ j \notin Indexes(candidates)
    <3> SUFFICES ASSUME NEW j \in Iface, j # i \/ j \in Indexes(candidates)
                 PROVE  Rank(j)' = Rank(j)
      OBVIOUS
    <3>1. j \in Asked' <=> j \in Asked
      BY <2>1
    <3>2. CASE j # i
      BY <1>1, <1>6, <2>1, <3>2 DEF Rank
    <3>3. CASE j \in Asked \/ j = routed \/ j \in withAddress
      BY <1>1, <1>6, <2>1, <3>3 DEF Rank, Asked
    <3> QED
      BY <1>2, <3>2, <3>3
  <2>3. Indexes(candidates) \subseteq Iface
    BY EntriesTyped DEF Listings, Indexes
  <2>4. Sorted(candidates, Ranks')
    <3>1. \A j \in Indexes(candidates) : Ranks'[j] = Ranks[j]
      BY <2>2, <2>3 DEF Ranks
    <3> QED
      BY <3>1, SortedKept DEF Listings
  <2>5. i \notin Indexes(candidates) => \A j \in Indexes(candidates) : Precedes(Ranks', j, i)
    <3> SUFFICES ASSUME i \notin Indexes(candidates), NEW j \in Indexes(candidates)
                 PROVE  Precedes(Ranks', j, i)
      OBVIOUS
    <3>1. Ranks'[i] = 2
      <4>1. i # routed /\ i # None /\ i # Requested /\ i \in withAddress'
        BY <1>2, <1>3, <1>6, CandidatesAssumption DEF Asked
      <4>2. i # routed'
        BY <1>1, <4>1
      <4> QED
        BY <1>3, <4>1, <4>2 DEF Rank, Ranks
    <3>2. Ranks'[j] = Rank(j) /\ j \in Iface
      BY <2>2, <2>3 DEF Ranks
    <3>3. CASE j \in Asked \/ j = routed
      <4>1. Rank(j) \in {0, 1}
        BY <3>3 DEF Rank, Asked
      <4> QED
        BY <3>1, <3>2, <4>1 DEF Precedes
    <3>4. CASE j \in withAddress /\ j \notin Asked /\ j # routed
      <4>1. Rank(j) = 2
        BY <3>4 DEF Rank, Asked, Passes
      <4>2. Position(j) < Position(i)
        BY <1>2, <1>3, <3>4
      <4> QED
        BY <3>1, <3>2, <4>1, <4>2 DEF Precedes
    <3> QED
      BY <1>2, <3>3, <3>4
  <2>6. "interface-ipv6-address" \in Reasons \ {"requested"}
    BY DEF Reasons
  <2>7. /\ candidates' \in Seq(Entry) /\ Sorted(candidates', Ranks')
        /\ Indexes(candidates') = Indexes(candidates) \cup {i}
    BY <1>3, <1>6, <2>4, <2>5, <2>6, AddedIsSorted, RanksTyped DEF Listings
  <2>8. AsksFor(candidates', Asked)
    BY <1>2, <1>3, <1>6, <2>6, AddedAsksFor DEF Listings
  <2>9. Listings'
    BY <2>1, <2>7, <2>8 DEF Listings
  <2>10. Passes'
    <3>1. /\ withAddress' \subseteq ListedUsable'
          /\ \A j \in withAddress' : Position(j) < at'
      BY <1>1, <1>3, <1>4, <1>6, <2>1 DEF Passes
    <3>2. Indexes(candidates') = Asked' \cup ({routed'} \ {None}) \cup withAddress'
      BY <1>1, <1>2, <1>6, <2>1, <2>7
    <3> QED
      BY <1>1, <1>4, <3>1, <3>2 DEF Passes, Resolved
  <2> QED
    BY <2>9, <2>10
<1> QED
  BY <1>5, <1>6 DEF LookUpAddress

\* The last pass, one interface after the other.
LEMMA ScannedUnfolds ==
    ASSUME candidates \in Seq(Entry)
    PROVE  /\ Scanned \in [0..Len(Order) -> Seq(Entry)]
           /\ Scanned[0] = candidates
           /\ \A k \in 1..Len(Order) :
                Scanned[k] = IF Order[k] \in ListedUsable
                             THEN addInterfaceCandidate(Scanned[k - 1], Order[k], "interface-scan")
                             ELSE Scanned[k - 1]
<1> DEFINE V == Seq(Entry)
           n == Len(Order)
           add(list, k) == IF Order[k] \in ListedUsable
                           THEN addInterfaceCandidate(list, Order[k], "interface-scan")
                           ELSE list
           step == [k \in 1..n |-> [list \in V |-> add(list, k)]]
<1>1. n \in Nat /\ \A k \in 1..n : Order[k] \in Iface
  BY Positioned
<1>2. \A k \in 1..n : \A list \in V : add(list, k) \in V
  <2>1. "interface-scan" \in Reasons
    BY DEF Reasons
  <2> QED
    BY <1>1, <2>1, Added
<1> HIDE DEF add, V, n
<1>3. step \in [1..n -> [V -> V]]
  BY <1>2
<1> HIDE DEF step
<1>4. PICK f \in [0..n -> V] : f[0] = candidates /\ \A k \in 1..n : f[k] = step[k][f[k - 1]]
  <2>1. candidates \in V
    BY DEF V
  <2>2. IsBuilt(n, V, candidates, step)
    BY <1>1, <1>3, <2>1, Recursion
  <2> QED
    BY <2>2 DEF IsBuilt
<1>5. ASSUME NEW k \in 1..n PROVE f[k] = add(f[k - 1], k)
  <2>1. f[k - 1] \in V
    BY <1>1
  <2> QED
    BY <1>4, <2>1 DEF step
<1>6. f = [k \in 0..n |-> IF k = 0 THEN candidates ELSE add(f[k - 1], k)]
  BY <1>1, <1>4, <1>5
<1>7. Scanned = [k \in 0..n |-> IF k = 0 THEN candidates ELSE add(Scanned[k - 1], k)]
  BY <1>6, Zenon DEF Scanned, add, n
<1>8. Scanned = f
  <2> DEFINE same == {k \in 0..n : Scanned[k] = f[k]}
  <2>1. 0 \in same
    BY <1>1, <1>6, <1>7
  <2>2. ASSUME NEW k \in 1..n, k - 1 \in same PROVE k \in same
    <3>1. k \in 0..n /\ k # 0
      BY <1>1
    <3>2. Scanned[k] = add(Scanned[k - 1], k) /\ f[k] = add(f[k - 1], k)
      BY <1>6, <1>7, <3>1
    <3> QED
      BY <2>2, <3>1, <3>2
  <2>3. \A k \in 0..n : Scanned[k] = f[k]
    <3>1. \A k \in 0..n : k \in same
      <4> HIDE DEF same
      <4> QED
        BY <1>1, <2>1, <2>2, UpTo
    <3> QED
      BY <3>1
  <2> QED
    BY <1>6, <1>7, <2>3
<1> QED
  BY <1>1, <1>4, <1>5, <1>8 DEF V, n, add

LEMMA ScannedInOrder ==
    ASSUME Passes, Listings, pc = "address"
    PROVE  LET last == Scanned[Len(Order)]
           IN /\ last \in Seq(Entry) /\ Sorted(last, Ranks) /\ AsksFor(last, Asked)
              /\ Indexes(last) = ListedUsable \cup ({routed} \ {None})
<1> DEFINE n == Len(Order)
           Upto(k) == {Order[j] : j \in 1..k} \cap ListedUsable
           Fine(k) == /\ Scanned[k] \in Seq(Entry) /\ Sorted(Scanned[k], Ranks)
                      /\ AsksFor(Scanned[k], Asked)
                      /\ Indexes(Scanned[k]) = Indexes(candidates) \cup Upto(k)
           fine == {k \in 0..n : Fine(k)}
<1>1. /\ n \in Nat /\ \A k \in 1..n : Order[k] \in Iface /\ Position(Order[k]) = k
      /\ Indexes(candidates) = Asked \cup ({routed} \ {None}) \cup withAddress
      /\ withAddress \subseteq ListedUsable
  BY Positioned DEF Passes
<1>2. /\ Scanned \in [0..n -> Seq(Entry)] /\ Scanned[0] = candidates
      /\ \A k \in 1..n : Scanned[k] =
           IF Order[k] \in ListedUsable
           THEN addInterfaceCandidate(Scanned[k - 1], Order[k], "interface-scan")
           ELSE Scanned[k - 1]
  BY ScannedUnfolds DEF Listings
<1>3. 0 \in fine
  <2>1. Upto(0) = {}
    OBVIOUS
  <2> HIDE DEF Upto
  <2> QED
    BY <1>1, <1>2, <2>1 DEF Listings
<1>4. ASSUME NEW k \in 1..n, k - 1 \in fine PROVE k \in fine
  <2> DEFINE i == Order[k]
             list == Scanned[k - 1]
  <2>1. k \in 0..n /\ Upto(k) = Upto(k - 1) \cup ({i} \cap ListedUsable)
    <3>1. \A j \in 1..k : j = k \/ j \in 1..(k - 1)
      BY <1>1
    <3>2. k \in 1..k /\ \A j \in 1..(k - 1) : j \in 1..k
      BY <1>1
    <3>3. k \in 0..n
      BY <1>1
    <3> QED
      BY <3>1, <3>2, <3>3
  <2>2. Fine(k - 1)
    BY <1>4
  <2>3. CASE i \notin ListedUsable
    <3>1. Scanned[k] = list /\ Upto(k) = Upto(k - 1)
      BY <1>2, <2>1, <2>3
    <3> HIDE DEF Upto
    <3> QED
      BY <2>1, <2>2, <3>1
  <2>4. CASE i \in ListedUsable
    <3>1. Scanned[k] = addInterfaceCandidate(list, i, "interface-scan")
      BY <1>2, <2>4
    <3>2. i \notin Indexes(list) => \A j \in Indexes(list) : Precedes(Ranks, j, i)
      <4> SUFFICES ASSUME i \notin Indexes(list), NEW j \in Indexes(list)
                   PROVE  Precedes(Ranks, j, i)
        OBVIOUS
      <4>1. i \in Iface /\ i \notin Indexes(candidates)
        BY <1>1, <2>2
      <4>2. i \notin Asked /\ i # routed /\ i \notin withAddress
        BY <1>1, <4>1, CandidatesAssumption
      <4>3. Rank(i) = 3
        BY <4>2 DEF Rank, Asked
      <4>4. j \in Iface
        BY <2>2, EntriesTyped DEF Indexes
      <4>5. CASE j \in Indexes(candidates)
        <5>1. j \in Asked \/ j = routed \/ j \in withAddress
          BY <1>1, <4>5
        <5>2. Rank(j) \in 0..2
          BY <5>1 DEF Rank, Asked
        <5> QED
          BY <4>1, <4>3, <4>4, <5>2 DEF Precedes, Ranks
      <4>6. CASE j \in Upto(k - 1)
        <5>1. PICK m \in 1..(k - 1) : j = Order[m]
          BY <4>6
        <5>2. Position(j) < Position(i)
          BY <1>1, <5>1
        <5>3. Rank(j) \in 0..3
          BY DEF Rank
        <5> QED
          BY <4>1, <4>3, <4>4, <5>2, <5>3 DEF Precedes, Ranks
      <4> HIDE DEF Upto
      <4> QED
        BY <2>2, <4>5, <4>6
    <3>3. "interface-scan" \in Reasons \ {"requested"}
      BY DEF Reasons
    <3>4. i \in Iface /\ (i \in Asked => i \in Indexes(list))
      BY <1>1, <2>2
    <3>5. /\ Scanned[k] \in Seq(Entry) /\ Sorted(Scanned[k], Ranks)
          /\ Indexes(Scanned[k]) = Indexes(list) \cup {i}
      BY <2>2, <3>1, <3>2, <3>3, <3>4, AddedIsSorted, RanksTyped
    <3>6. AsksFor(Scanned[k], Asked)
      BY <2>2, <3>1, <3>3, <3>4, AddedAsksFor
    <3> HIDE DEF Upto
    <3> QED
      BY <2>1, <2>2, <2>4, <3>5, <3>6
  <2> QED
    BY <2>3, <2>4
<1>5. Fine(n)
  <2>1. \A k \in 0..n : k \in fine
    <3> HIDE DEF fine
    <3> QED
      BY <1>1, <1>3, <1>4, UpTo
  <2> QED
    BY <1>1, <2>1
<1>6. Upto(n) = ListedUsable
  <2>1. \A i \in ListedUsable : \E k \in 1..n : Order[k] = i
    BY DEF ListedUsable, Iface
  <2> QED
    BY <2>1
<1>7. Asked \subseteq ListedUsable
  BY DEF Asked
<1> HIDE DEF Upto
<1> QED
  BY <1>1, <1>5, <1>6, <1>7

LEMMA ScanNext ==
    ASSUME Stages, Passes, Listings, ScanInterfaces
    PROVE  Passes' /\ Listings'
<1>1. /\ pc = "address" /\ UNCHANGED <<listing, routed, withAddress>>
      /\ candidates' = Scanned[Len(Order)] /\ pc' \in {"failed", "open", "uplink"}
  BY DEF ScanInterfaces, Goes
<1>2. Ranks' = Ranks /\ ListedUsable' = ListedUsable /\ Asked' = Asked
  BY <1>1, SameRanks
<1>3. /\ candidates' \in Seq(Entry) /\ Sorted(candidates', Ranks) /\ AsksFor(candidates', Asked)
      /\ Indexes(candidates') = ListedUsable \cup ({routed} \ {None})
  BY <1>1, ScannedInOrder
<1>4. Listings'
  BY <1>2, <1>3 DEF Listings
<1>5. Passes'
  BY <1>1, <1>2, <1>3 DEF Passes, Resolved
<1> QED
  BY <1>4, <1>5

\* What is found is put together by Resolve alone.
LEMMA FoundNext ==
    ASSUME SelectionInv, Host, Passes, Listings, [Next]_vars
    PROVE  Passes' /\ Listings'
<1>1. CASE Resolve
  <2>1. Stages
    BY DEF SelectionInv
  <2> QED
    BY <1>1, <2>1, ListNext, RouteNext, IndexNext, AddressNext, ScanNext DEF Resolve
<1>2. CASE LinuxSelect
  <2>1. UNCHANGED found
    BY <1>2 DEF LinuxSelect, OpenSocket, SetFilter, AskGateway, AskNeighbor, PinNeighbor,
                Decide, Choose, found
  <2>2. pc \in LinuxOnly /\ pc' \in LinuxOnly \cup {"selected", "failed"}
    BY <1>2, MoreMoves DEF LinuxSelect, OpenSocket, SetFilter, AskGateway, AskNeighbor,
                PinNeighbor, Decide, Choose, Initialized, Finalize, Goes, LinuxOnly, Probing
  <2> QED
    BY <2>1, <2>2, FoundKeeps DEF Resolved, LinuxOnly, Probing
<1>3. CASE BSDSelect
  <2>1. UNCHANGED found
    BY <1>3 DEF BSDSelect, TryUplink, CheckTarget, TakeUplink, NoUplink, found
  <2>2. pc \in BSDOnly /\ pc' \in BSDOnly \cup {"selected", "failed"}
    BY <1>3 DEF BSDSelect, TryUplink, CheckTarget, TakeUplink, NoUplink, NextUplink, Goes, BSDOnly
  <2> QED
    BY <2>1, <2>2, FoundKeeps DEF Resolved, BSDOnly
<1>4. CASE NetworkChanges \/ UNCHANGED vars
  <2>1. UNCHANGED found /\ UNCHANGED <<pc, at>>
    BY <1>4 DEF NetworkChanges, vars, resolveVars, found
  <2> QED
    BY <2>1, FoundKeeps
<1> QED
  BY <1>1, <1>2, <1>3, <1>4 DEF Next, Select, Ended

-----------------------------------------------------------------------------
(* Positions in the list *)

LEMMA GatewaysAreRouters == Gateways \subseteq Router \cup {None}
<1> SUFFICES ASSUME NEW answer \in GatewayAnswers, NEW gw \in answer[2], gw # None
             PROVE  gw \in Router
  BY DEF Gateways
<1>1. PICK route \in DefaultRoute : route.gw = gw
  BY GatewayIsPreferred
<1> QED
  BY <1>1, RoutesAssumption DEF UsableRoute

LEMMA PositionsTyped ==
    ASSUME Stages, Listings
    PROVE  /\ at \in Nat \ {0} /\ Len(candidates) \in Nat
           /\ Len(ready) \in Nat /\ \A k \in 1..Len(ready) : ready[k].at \in Nat \ {0}
           /\ at <= Len(candidates) => Candidate \in Iface
<1>1. at \in Nat \ {0}
  BY DEF Stages
<1>2. Len(candidates) \in Nat /\ \A k \in 1..Len(candidates) : candidates[k].index \in Iface
  BY EntriesTyped DEF Listings
<1> QED
  BY <1>1, <1>2, ReadyTyped DEF Candidate

LEMMA ResolvePositions ==
    ASSUME SelectionInv, Passes, Listings', Positions, Resolve, UNCHANGED <<linuxVars, unrouted>>
    PROVE  Positions'
<1>1. /\ ready = <<>> /\ selected = 0 /\ pc \in Listing
      /\ UNCHANGED <<ready, selected, attempt, pinned, unrouted>>
  BY DEF SelectionInv, Stages, Positions, Resolve, ListInterfaces, LookUpRoute, LookUpName,
         LookUpIndex, LookUpAddress, ScanInterfaces, Listing, linuxVars
<1>2. Len(candidates') \in Nat
  BY DEF Listings
<1>3. \/ pc' \in Listing
      \/ pc' = "failed" /\ at' = 1
      \/ pc' \in {"open", "uplink"} /\ at' = 1 /\ candidates' # <<>>
  BY DEF Resolve, ListInterfaces, LookUpRoute, LookUpName,
         LookUpIndex, LookUpAddress, ScanInterfaces, Goes, Listing, Passes
<1>4. candidates' # <<>> => 1 <= Len(candidates')
  BY <1>2 DEF Listings
<1>5. /\ pc' \in Probing \cup {"open", "decide", "targets"} => at' <= Len(candidates')
      /\ Resolved' => at' <= Len(candidates') + 1
      /\ pc' # "gateway" /\ pc' # "selected"
  BY <1>2, <1>3, <1>4 DEF Resolved, Listing, Probing
<1> QED
  BY <1>1, <1>2, <1>5 DEF Positions

\* A candidate that is given up makes room for the next one of the list.
LEMMA MoreIsListed ==
    ASSUME Stages, Listings, pc' = More, at' = at + 1, at <= Len(candidates),
           UNCHANGED candidates
    PROVE  /\ pc' \in {"open", "choose"} /\ at' <= Len(candidates) + 1
           /\ pc' = "open" => at' <= Len(candidates)
BY PositionsTyped DEF More

LEMMA LinuxPositions ==
    ASSUME SelectionInv, Listings, Positions, LinuxSelect, UNCHANGED unrouted
    PROVE  Positions'
<1> USE DEF Probing
<1>1. /\ Stages /\ UNCHANGED <<candidates, unrouted>> /\ pc \in LinuxOnly /\ selected = 0
      /\ at \in Nat \ {0} /\ Len(candidates) \in Nat
      /\ Len(ready) \in Nat
  BY PositionsTyped DEF SelectionInv, LinuxSelect, OpenSocket, SetFilter, AskGateway, AskNeighbor,
       PinNeighbor, Decide, Choose, found, LinuxOnly, Positions
<1>2. /\ \A k \in 1..Len(ready) : ready[k].at <= Len(candidates) /\ ready[k].at \in Nat \ {0}
      /\ pc # "choose" => at <= Len(candidates)
      /\ at <= Len(candidates) + 1
  BY <1>1, PositionsTyped DEF Positions, LinuxOnly, Resolved
<1>3. CASE OpenSocket \/ SetFilter
  <2>1. /\ UNCHANGED <<ready, pinned, selected>> /\ pc \in {"open", "filter"}
        /\ attempt' \in {attempt, 0}
        /\ pc' = "gateway" => gatewayIP' = None
        /\ \/ pc' \in {"filter", "gateway"} /\ at' = at
           \/ pc' = More /\ at' = at + 1
    BY <1>3, MoreMoves DEF OpenSocket, SetFilter, Goes
  <2>2. /\ pc' \in Probing \cup {"open", "choose"} /\ at' <= Len(candidates) + 1
        /\ pc' # "choose" => at' <= Len(candidates)
    BY <1>1, <1>2, <2>1, MoreIsListed
  <2>3. attempt' \in 0..(MaxRetries - 1)
    BY <2>1, RetriesAssumption DEF Positions
  <2> QED
    BY <1>1, <2>1, <2>2, <2>3 DEF Positions
<1>4. CASE AskGateway \/ AskNeighbor \/ PinNeighbor
  <2>1. /\ UNCHANGED <<at, selected>> /\ pc \in Probing
        /\ pc' \in Probing \cup {"decide"}
        /\ pc' = "gateway" => gatewayIP' = None
        /\ \/ ready' = ready
           \/ \E gw : ready' = Append(ready, [at |-> at, gateway |-> gw])
    BY <1>4 DEF AskGateway, AskNeighbor, PinNeighbor, Goes, Initialized
  <2>2. \A k \in 1..Len(ready') : ready'[k].at <= Len(candidates)
    <3>1. CASE ready' = ready
      BY <1>2, <3>1
    <3>2. ASSUME NEW gw, ready' = Append(ready, [at |-> at, gateway |-> gw])
          PROVE  \A k \in 1..Len(ready') : ready'[k].at <= Len(candidates)
      <4>1. ready \in Seq(Found)
        BY <1>1 DEF Stages
      <4>2. /\ Len(ready') = Len(ready) + 1 /\ ready'[Len(ready) + 1].at = at
            /\ \A k \in 1..Len(ready) : ready'[k] = ready[k]
        BY <3>2, <4>1
      <4>3. \A k \in 1..Len(ready') : k \in 1..Len(ready) \/ k = Len(ready) + 1
        BY <1>1, <4>2
      <4> QED
        BY <1>2, <2>1, <4>2, <4>3
    <3> QED
      BY <2>1, <3>1, <3>2
  <2>3. attempt' \in 0..(MaxRetries - 1)
    <3>1. \/ attempt' \in {attempt, 0}
          \/ attempt' = NextAttempt /\ ~OutOfRetries
      <4>1. CASE AskGateway
        BY <4>1 DEF AskGateway
      <4>2. CASE AskNeighbor
        BY <4>2 DEF AskNeighbor
      <4>3. CASE PinNeighbor
        BY <4>3 DEF PinNeighbor
      <4> QED
        BY <1>4, <4>1, <4>2, <4>3
    <3> QED
      BY <3>1, RetriesAssumption DEF Positions, NextAttempt, OutOfRetries
  <2>4. pinned' \subseteq Iface \X Router
    <3>1. pinned' = pinned \/ (pc = "pin" /\ pinned' = pinned \cup {Neighbor})
      BY <1>4 DEF AskGateway, AskNeighbor, PinNeighbor
    <3>2. pc = "pin" => gatewayIP \in Router
      BY <1>1, GatewaysAreRouters DEF Stages
    <3>3. Candidate \in Iface
      BY <1>1, <1>2, <2>1, PositionsTyped
    <3> QED
      BY <3>1, <3>2, <3>3 DEF Positions, Neighbor
  <2>5. at' <= Len(candidates)
    BY <1>2, <2>1
  <2> QED
    BY <1>1, <1>2, <2>1, <2>2, <2>3, <2>4, <2>5 DEF Positions
<1>5. CASE Decide \/ Choose
  <2>1. /\ UNCHANGED <<ready, pinned, attempt>> /\ pc \in {"decide", "choose"}
        /\ \/ \E position \in Ready \cup {at} :
                /\ pc' = "selected" /\ selected' = position /\ at' = at
                /\ pc = "choose" => position \in Ready
           \/ pc = "decide" /\ pc' = More /\ at' = at + 1 /\ selected' = selected
           \/ pc' = "failed" /\ at' = at /\ selected' = selected
    <3>1. CASE Decide
      BY <3>1 DEF Decide, Goes, Finalize
    <3>2. CASE Choose
      <4>1. ready # <<>> => chooseResponderRuntime \in Ready
        <5> SUFFICES ASSUME ready # <<>>, pc = "choose" PROVE chooseResponderRuntime \in Ready
          BY <3>2 DEF Choose
        <5>1. \A k \in 1..Len(ready) : ready[k].gateway = None
          BY DEF SelectionInv, InTurn
        <5>2. chooseResponderRuntime = Head(ready).at
          BY <5>1 DEF chooseResponderRuntime
        <5>3. 1 \in 1..Len(ready) /\ Head(ready) = ready[1]
          BY <1>1 DEF Stages
        <5> QED
          BY <5>2, <5>3 DEF Ready
      <4> QED
        BY <3>2, <4>1 DEF Choose, Goes, Finalize
    <3> QED
      BY <1>5, <3>1, <3>2
  <2>2. /\ selected' \in 0..Len(candidates) /\ (pc' = "selected" <=> selected' # 0)
        /\ at' <= Len(candidates) + 1
        /\ pc' = "open" => at' <= Len(candidates)
        /\ pc' \in {"open", "choose", "selected", "failed"}
    <3>1. ASSUME NEW position \in Ready \cup {at}, pc' = "selected", selected' = position, at' = at,
                 pc = "choose" => position \in Ready
          PROVE  selected' \in 1..Len(candidates)
      BY <1>1, <1>2, <2>1, <3>1 DEF Ready
    <3>2. CASE pc = "decide" /\ pc' = More /\ at' = at + 1 /\ selected' = selected
      BY <1>1, <1>2, <3>2, MoreIsListed
    <3>3. 0 \in 0..Len(candidates)
      BY <1>1
    <3> QED
      BY <1>1, <1>2, <2>1, <3>1, <3>2, <3>3
  <2> QED
    BY <1>1, <1>2, <2>1, <2>2 DEF Positions
<1> QED
  BY <1>3, <1>4, <1>5 DEF LinuxSelect

LEMMA BSDPositions ==
    ASSUME SelectionInv, Listings, Positions, BSDSelect, UNCHANGED linuxVars
    PROVE  Positions'
<1> USE DEF Probing
<1>1. /\ UNCHANGED candidates /\ pc \in BSDOnly /\ selected = 0
      /\ at \in Nat \ {0} /\ Len(candidates) \in Nat /\ at <= Len(candidates) + 1
      /\ UNCHANGED <<ready, attempt, gatewayIP, pinned>>
  BY PositionsTyped DEF SelectionInv, BSDSelect, TryUplink, CheckTarget, TakeUplink, NoUplink,
       found, BSDOnly, Positions, Resolved, linuxVars
<1>2. \/ pc' = "targets" /\ at' = at /\ at <= Len(candidates) /\ selected' = selected
      \/ pc' = "uplink" /\ at' = at + 1 /\ at <= Len(candidates) /\ selected' = selected
      \/ pc' = "selected" /\ selected' = at /\ at' = at /\ at <= Len(candidates)
      \/ pc' = "failed" /\ at' = at /\ selected' = selected
  BY DEF BSDSelect, TryUplink, CheckTarget, TakeUplink, NoUplink, NextUplink, Goes, Positions
<1>3. unrouted' \subseteq Target
  BY DEF BSDSelect, TryUplink, CheckTarget, TakeUplink, NoUplink, NextUplink, ToCheck, Positions
<1>4. /\ selected' \in 0..Len(candidates) /\ (pc' = "selected" <=> selected' # 0)
      /\ at' <= Len(candidates) + 1
      /\ pc' = "targets" => at' <= Len(candidates)
      /\ pc' \in {"targets", "uplink", "selected", "failed"}
  BY <1>1, <1>2
<1> QED
  BY <1>1, <1>3, <1>4 DEF Positions

LEMMA PositionsNext ==
    ASSUME SelectionInv, Passes, Listings, Listings', Positions, [Next]_vars
    PROVE  Positions'
<1>1. CASE (NetworkChanges /\ UNCHANGED <<linuxVars, unrouted>>) \/ UNCHANGED vars
  BY <1>1 DEF NetworkChanges, vars, resolveVars, found, linuxVars, Positions, Resolved
<1> QED
  BY <1>1, ResolvePositions, LinuxPositions, BSDPositions DEF Next, Select, Ended

-----------------------------------------------------------------------------
(* The interface asked for *)

LEMMA SettlesKept ==
    ASSUME AskedSettles, UNCHANGED <<listing, candidates, ready, selected, platform>>,
           \/ pc' = pc
           \/ pc' \in Probing \cup {"open", "choose"} /\ pc \in Probing \cup {"open", "choose"}
           \/ pc' \notin Probing \cup {"open", "choose", "decide", "selected"}
    PROVE  AskedSettles'
BY DEF AskedSettles, Asked, ListedUsable, Probing

LEMMA LinuxSettles ==
    ASSUME SelectionInv, Listings, Positions, AskedSettles, LinuxSelect
    PROVE  AskedSettles'
<1>1. /\ UNCHANGED <<listing, candidates, platform>> /\ Asked' = Asked
      /\ Len(ready) \in Nat /\ ready \in Seq(Found)
  BY ReadyTyped DEF SelectionInv, Stages, LinuxSelect, OpenSocket, SetFilter, AskGateway,
       AskNeighbor, PinNeighbor, Decide, Choose, found, world, Asked, ListedUsable
<1>2. CASE OpenSocket \/ SetFilter
  BY <1>1, <1>2, MoreMoves, SettlesKept DEF OpenSocket, SetFilter, Goes, Probing
<1>3. CASE AskGateway \/ AskNeighbor \/ PinNeighbor
  <2>1. /\ selected' = selected /\ pc \in Probing
        /\ \/ ready' = ready /\ pc' \in Probing
           \/ pc' = "decide" /\ \E gw : ready' = Append(ready, [at |-> at, gateway |-> gw])
    BY <1>3 DEF AskGateway, AskNeighbor, PinNeighbor, Goes, Initialized, Probing
  <2>2. CASE ready' = ready /\ pc' \in Probing
    BY <1>1, <2>1, <2>2, SettlesKept
  <2>3. ASSUME NEW gw, pc' = "decide", ready' = Append(ready, [at |-> at, gateway |-> gw])
        PROVE  AskedSettles'
    <3>1. \A k \in 1..Len(ready) : candidates[ready[k].at].index \notin Asked
      BY <2>1 DEF AskedSettles
    <3>2. \A k \in 1..Len(ready') : k < Len(ready') => k \in 1..Len(ready) /\ ready'[k] = ready[k]
      BY <1>1, <2>3
    <3> QED
      BY <1>1, <2>3, <3>1, <3>2 DEF AskedSettles, Probing
  <2> QED
    BY <2>1, <2>2, <2>3
<1>4. CASE Decide
  <2>1. /\ pc = "decide" /\ ready' = ready /\ ready # <<>> /\ ready[Len(ready)].at = at
        /\ at \in 1..Len(candidates)
    BY <1>4, PositionsTyped DEF Decide, SelectionInv, InTurn, Positions
  <2>2. /\ \A k \in 1..Len(ready) : k < Len(ready) => candidates[ready[k].at].index \notin Asked
        /\ \A k \in 1..Len(ready) : k < Len(ready) \/ k = Len(ready)
    BY <1>1, <2>1 DEF AskedSettles
  <2>3. IsRequested <=> candidates[at].index \in Asked
    BY <2>1 DEF IsRequested, Listings, AsksFor
  <2>4. ~IsRequested => \A k \in 1..Len(ready) : candidates[ready[k].at].index \notin Asked
    BY <2>1, <2>2, <2>3
  <2>5. \/ pc' = "selected" /\ selected' = at
        \/ pc' \in {"open", "choose"} /\ ~IsRequested
    BY <1>4, MoreMoves DEF Decide, Settled, Finalize, Goes
  <2> QED
    BY <1>1, <2>1, <2>3, <2>4, <2>5 DEF AskedSettles, Probing
<1>5. CASE Choose
  <2>1. /\ pc = "choose" /\ ready' = ready /\ pc' \in {"selected", "failed"}
    BY <1>5 DEF Choose, Finalize, Goes
  <2> QED
    BY <1>1, <2>1 DEF AskedSettles, Probing
<1> QED
  BY <1>2, <1>3, <1>4, <1>5 DEF LinuxSelect

LEMMA SettlesNext ==
    ASSUME SelectionInv, Listings, Positions, AskedSettles, [Next]_vars
    PROVE  AskedSettles'
<1>1. CASE Resolve /\ UNCHANGED linuxVars
  <2>1. pc' \in Listing \cup {"failed", "open", "uplink"} /\ ready' = <<>>
    BY <1>1 DEF SelectionInv, Stages, Resolve, ListInterfaces, LookUpRoute, LookUpName,
                LookUpIndex, LookUpAddress, ScanInterfaces, Goes, Listing, linuxVars
  <2> QED
    BY <2>1 DEF AskedSettles, Listing, Probing
<1>2. CASE BSDSelect /\ UNCHANGED linuxVars
  <2>1. /\ platform = "bsd" /\ platform' = platform
        /\ pc' \in BSDOnly \cup {"selected", "failed"}
    BY <1>2 DEF SelectionInv, Stages, BSDSelect, TryUplink, CheckTarget, TakeUplink, NoUplink,
                NextUplink, Goes, BSDOnly, world
  <2> QED
    BY <2>1 DEF AskedSettles, BSDOnly, Probing
<1>3. CASE (NetworkChanges /\ UNCHANGED linuxVars) \/ UNCHANGED vars
  BY <1>3, SettlesKept DEF NetworkChanges, vars, resolveVars, found, linuxVars, world
<1> QED
  BY <1>1, <1>2, <1>3, LinuxSettles DEF Next, Select, Ended

-----------------------------------------------------------------------------
(* The uplink on macOS and the BSDs *)

LEMMA FirstUplinkIs ==
    ASSUME NEW k \in 1..Len(candidates), Len(candidates) \in Nat,
           Carries(candidates[k].index),
           \A l \in 1..Len(candidates) : l < k => ~Carries(candidates[l].index)
    PROVE  FirstUplink = k
<1> DEFINE fit == {l \in 1..Len(candidates) : Carries(candidates[l].index)}
<1>1. k \in fit /\ \A l \in fit : k <= l
  OBVIOUS
<1>2. \A j \in fit : (\A l \in fit : j <= l) => j = k
  BY <1>1
<1>3. FirstUplink = CHOOSE j \in fit : \A l \in fit : j <= l
  BY <1>1, Zenon DEF FirstUplink
<1> HIDE DEF fit
<1> QED
  BY <1>1, <1>2, <1>3

LEMMA NoFirstUplink ==
    ASSUME \A k \in 1..Len(candidates) : ~Carries(candidates[k].index)
    PROVE  FirstUplink = 0
<1>1. {k \in 1..Len(candidates) : Carries(candidates[k].index)} = {}
  OBVIOUS
<1> QED
  BY <1>1, Zenon DEF FirstUplink

\* Without a call that fails the look at a candidate tells what it carries.
LEMMA BSDUplinks ==
    ASSUME SelectionInv, Host, Listings, Positions, Uplinks, BSDSelect
    PROVE  Uplinks'
<1>1. /\ platform = "bsd" /\ platform' = platform /\ selected = 0 /\ pc \in BSDOnly
      /\ UNCHANGED <<candidates, targetVia, changes>>
      /\ faults' \in {faults, faults + 1} /\ faults \in Nat
      /\ at \in Nat \ {0} /\ Len(candidates) \in Nat /\ at <= Len(candidates) + 1
  BY SelectAsks, PositionsTyped DEF SelectionInv, Stages, BSDSelect, TryUplink, CheckTarget,
       TakeUplink, NoUplink, found, BSDOnly, Positions, Resolved, Host, world
<1>2. Undisturbed' => Undisturbed
  BY <1>1 DEF Undisturbed
<1>3. FirstUplink' = FirstUplink /\ \A i : Carries(i)' = Carries(i)
  BY <1>1 DEF FirstUplink, Carries, isBSDNDPProxyUplink
<1>4. Undisturbed => \A k \in 1..Len(candidates) : k < at => ~Carries(candidates[k].index)
  BY <1>1 DEF Uplinks
<1>5. ASSUME at <= Len(candidates), Undisturbed' => ~Carries(Candidate), NextUplink
      PROVE  Uplinks'
  <2>1. pc' = "uplink" /\ at' = at + 1
    BY <1>5 DEF NextUplink, Goes
  <2>2. ASSUME Undisturbed', NEW k \in 1..Len(candidates), k < at + 1
        PROVE  ~Carries(candidates[k].index)
    <3>1. CASE k = at
      BY <1>5, <2>2, <3>1 DEF Candidate
    <3>2. CASE k < at
      BY <1>2, <1>4, <2>2, <3>2
    <3> QED
      BY <1>1, <2>2, <3>1, <3>2
  <2> QED
    BY <1>1, <1>3, <2>1, <2>2 DEF Uplinks, BSDOnly
<1>6. CASE TryUplink
  <2>1. at <= Len(candidates)
    BY <1>6 DEF TryUplink
  <2>2. CASE /\ isBSDNDPProxyUplink(Candidate) /\ pc' = "targets" /\ unrouted' = Target
             /\ at' = at
    <3>1. Target \ unrouted' = {} /\ Candidate' = Candidate
      BY <1>1, <2>2 DEF Candidate
    <3>2. isBSDNDPProxyUplink(Candidate')
      BY <2>2, <3>1 DEF isBSDNDPProxyUplink
    <3> QED
      BY <1>1, <1>2, <1>3, <1>4, <2>2, <3>1, <3>2 DEF Uplinks, BSDOnly, isBSDNDPProxyUplink
  <2>3. CASE NextUplink /\ (~isBSDNDPProxyUplink(Candidate) \/ Fault)
    <3>1. Fault => ~Undisturbed'
      BY <1>1 DEF Fault, Undisturbed
    <3> QED
      BY <1>5, <2>1, <2>3, <3>1 DEF Carries
  <2> QED
    BY <1>6, <2>2, <2>3 DEF TryUplink, ToCheck, Goes
<1>7. CASE CheckTarget
  <2>1. at <= Len(candidates) /\ isBSDNDPProxyUplink(Candidate) /\ unrouted \subseteq Target
        /\ pc = "targets"
    BY <1>1, <1>7 DEF CheckTarget, Positions, Uplinks
  <2>2. PICK t \in unrouted :
          \/ \E ifname \in RouteInterfaces(targetVia[t]) :
               IF ifname = Candidate
               THEN unrouted' = unrouted \ {t} /\ UNCHANGED <<pc, at>>
               ELSE NextUplink
          \/ Fault /\ NextUplink
    BY <1>7 DEF CheckTarget
  <2>3. RouteInterfaces(targetVia[t]) \subseteq {targetVia[t]}
    BY RouteOutputNames
  <2>4. CASE targetVia[t] = Candidate /\ unrouted' = unrouted \ {t} /\ UNCHANGED <<pc, at>>
    <3>1. Undisturbed => \A u \in Target \ unrouted' : targetVia[u] = Candidate
      BY <1>1, <2>1, <2>4 DEF Uplinks
    <3>2. Candidate' = Candidate
      BY <1>1, <2>4 DEF Candidate
    <3> QED
      BY <1>1, <1>2, <1>3, <1>4, <2>1, <2>4, <3>1, <3>2 DEF Uplinks, BSDOnly, isBSDNDPProxyUplink
  <2>5. CASE targetVia[t] # Candidate /\ NextUplink
    BY <1>5, <2>1, <2>5 DEF Carries
  <2>6. CASE Fault /\ NextUplink
    <3>1. ~Undisturbed'
      BY <1>1, <2>6 DEF Fault, Undisturbed
    <3> QED
      BY <1>5, <2>1, <2>6, <3>1
  <2> QED
    BY <2>2, <2>3, <2>4, <2>5, <2>6
<1>8. CASE TakeUplink
  <2>1. /\ pc = "targets" /\ unrouted = {} /\ pc' = "selected" /\ selected' = at
        /\ at \in 1..Len(candidates) /\ isBSDNDPProxyUplink(Candidate)
    BY <1>1, <1>8 DEF TakeUplink, Goes, Positions, Uplinks
  <2>2. Undisturbed => FirstUplink = at
    <3> SUFFICES ASSUME Undisturbed PROVE FirstUplink = at
      OBVIOUS
    <3>1. Carries(candidates[at].index)
      BY <1>1, <2>1 DEF Uplinks, Carries, Candidate
    <3> QED
      BY <1>1, <1>4, <2>1, <3>1, FirstUplinkIs
  <2> QED
    BY <1>1, <1>2, <1>3, <2>1, <2>2 DEF Uplinks, BSDOnly, isBSDNDPProxyUplink, Candidate
<1>9. CASE NoUplink
  <2>1. pc' = "failed" /\ selected' = 0 /\ at > Len(candidates)
    BY <1>1, <1>9 DEF NoUplink, Goes
  <2>2. Undisturbed => FirstUplink = 0
    <3>1. \A k \in 1..Len(candidates) : k < at
      BY <1>1, <2>1
    <3> QED
      BY <1>4, <3>1, NoFirstUplink
  <2> QED
    BY <1>1, <1>2, <1>3, <2>1, <2>2 DEF Uplinks, BSDOnly
<1> QED
  BY <1>6, <1>7, <1>8, <1>9 DEF BSDSelect

LEMMA ResolveUplinks ==
    ASSUME SelectionInv, Host, Passes, Positions, Resolve
    PROVE  Uplinks'
<1>1. /\ selected' = 0 /\ faults \in Nat
      /\ \/ pc' \in Listing \cup {"open"}
         \/ pc' = "uplink" /\ at' = 1
         \/ pc' = "failed" /\ (Fault \/ candidates' = <<>>)
  BY DEF Positions, Host, Resolve, ListInterfaces, LookUpRoute, LookUpName, LookUpIndex,
         LookUpAddress, ScanInterfaces, Goes, Listing
<1>2. CASE pc' \in Listing \cup {"open"}
  BY <1>2 DEF Uplinks, Listing, BSDOnly
<1>3. CASE pc' = "uplink" /\ at' = 1
  <2>1. \A k \in 1..Len(candidates') : ~(k < 1)
    OBVIOUS
  <2> QED
    BY <1>3, <2>1 DEF Uplinks, BSDOnly
<1>4. CASE pc' = "failed" /\ (Fault \/ candidates' = <<>>)
  <2>1. Fault => ~Undisturbed'
    BY <1>1 DEF Fault, Undisturbed
  <2>2. candidates' = <<>> => FirstUplink' = 0
    <3>1. 1..Len(<<>>) = {}
      OBVIOUS
    <3> QED
      BY <3>1 DEF FirstUplink
  <2> QED
    BY <1>1, <1>4, <2>1, <2>2 DEF Uplinks, BSDOnly
<1> QED
  BY <1>1, <1>2, <1>3, <1>4

LEMMA UplinksNext ==
    ASSUME SelectionInv, Host, Passes, Listings, Positions, Uplinks, [Next]_vars
    PROVE  Uplinks'
<1>1. CASE LinuxSelect
  <2>1. platform' = "linux"
    BY <1>1 DEF SelectionInv, Stages, LinuxSelect, OpenSocket, SetFilter, AskGateway, AskNeighbor,
                PinNeighbor, Decide, Choose, world, LinuxOnly, Probing
  <2> QED
    BY <2>1 DEF Uplinks
<1>2. CASE NetworkChanges /\ UNCHANGED unrouted
  <2>1. /\ UNCHANGED <<platform, pc, candidates, at, selected, unrouted>>
        /\ changes' = changes + 1 /\ changes \in Nat
    BY <1>2 DEF NetworkChanges, found, Host
  <2>2. ~Undisturbed'
    BY <2>1 DEF Undisturbed
  <2> QED
    BY <2>1, <2>2 DEF Uplinks, Candidate, isBSDNDPProxyUplink
<1>3. CASE UNCHANGED vars
  BY <1>3 DEF vars, resolveVars, world, found, Uplinks, Undisturbed, Candidate, Carries,
              FirstUplink, isBSDNDPProxyUplink
<1> QED
  BY <1>1, <1>2, <1>3, BSDUplinks, ResolveUplinks DEF Next, Select, Ended

-----------------------------------------------------------------------------
(* The invariant of the search *)

LEMMA SearchInit == Init => SearchInv
<1> SUFFICES ASSUME Init PROVE SearchInv
  OBVIOUS
<1>1. Host
  <2>1. link \in [Iface -> {"absent", "down", "up"}]
    BY DEF Init, CandidatesInit
  <2>2. targetVia \in [Target -> Iface \cup {None}]
    BY DEF Init, CandidatesInit
  <2>3. routes \in [Iface -> SUBSET DefaultRoute]
    BY DEF Init, CandidatesInit
  <2> QED
    BY <2>1, <2>2, <2>3 DEF Host, Init, CandidatesInit
<1>2. /\ pc = "list" /\ candidates = <<>> /\ ListedUsable = {} /\ at = 1 /\ selected = 0
      /\ ready = <<>> /\ attempt = 0 /\ gatewayIP = None /\ pinned = {} /\ unrouted = {}
      /\ routed = None /\ withAddress = {}
  BY DEF Init, CandidatesInit, LinuxInit, BSDInit, ListedUsable
<1>3. Passes
  BY <1>2 DEF Passes, Resolved
<1>4. Listings
  BY <1>2 DEF Listings, Sorted, AsksFor
<1>5. Positions
  BY <1>2, RetriesAssumption DEF Positions, Probing, Resolved
<1>6. AskedSettles /\ Uplinks
  BY <1>2 DEF AskedSettles, Uplinks, Probing, BSDOnly
<1> QED
  BY <1>1, <1>3, <1>4, <1>5, <1>6 DEF SearchInv

LEMMA SearchNext == SelectionInv /\ SearchInv /\ [Next]_vars => SearchInv'
<1> SUFFICES ASSUME SelectionInv, SearchInv, [Next]_vars PROVE SearchInv'
  OBVIOUS
<1>1. Host /\ Passes /\ Listings /\ Positions /\ AskedSettles /\ Uplinks
  BY DEF SearchInv
<1>2. Host' /\ Passes' /\ Listings'
  BY <1>1, HostNext, FoundNext
<1>3. Positions' /\ AskedSettles' /\ Uplinks'
  BY <1>1, <1>2, PositionsNext, SettlesNext, UplinksNext
<1> QED
  BY <1>2, <1>3 DEF SearchInv

\* What the search knows of the host, of its list and of its place in the list
\* holds of every execution.
THEOREM SearchInvariant == Spec => [](SelectionInv /\ SearchInv)
<1>1. Init => SelectionInv /\ SearchInv
  BY InvInit, SearchInit
<1>2. (SelectionInv /\ SearchInv) /\ [Next]_vars => (SelectionInv /\ SearchInv)'
  BY InvNext, SearchNext
<1> QED
  BY <1>1, <1>2, PTL DEF Spec

\* The list has each interface once, for some reason, and the positions, the
\* retries, the gateway and the pinned neighbors are what their names say,
\* however the host changes while the list is put together.
THEOREM SelectionTyped == Spec => []SelectionTypeOK
<1>1. SelectionInv /\ SearchInv => SelectionTypeOK
  <2> SUFFICES ASSUME SelectionInv, SearchInv PROVE SelectionTypeOK
    OBVIOUS
  <2>1. /\ Stages /\ Sockets /\ Host /\ Passes /\ Listings /\ Positions
        /\ at \in Nat \ {0} /\ Len(candidates) \in Nat /\ Len(Order) \in Nat
    BY PositionsTyped, Positioned DEF SelectionInv, SearchInv
  <2>2. Len(candidates) <= Len(Order)
    BY <2>1, SortedIsShort, RanksTyped DEF Listings
  <2>3. at \in 1..(Len(Order) + 1)
    <3>1. CASE Resolved
      BY <2>1, <2>2, <3>1 DEF Positions
    <3>2. CASE ~Resolved
      BY <2>1, <3>2 DEF Passes, Resolved
    <3> QED
      BY <3>1, <3>2
  <2>4. open \subseteq 1..Len(candidates)
    <3>1. Ready \subseteq 1..Len(candidates)
      BY <2>1, PositionsTyped DEF Positions, Ready
    <3>2. pc \in Probing => at \in 1..Len(candidates)
      BY <2>1 DEF Positions
    <3>3. pc = "selected" => selected \in 1..Len(candidates)
      BY <2>1 DEF Positions
    <3> QED
      BY <2>1, <3>1, <3>2, <3>3 DEF Sockets, Stages, LinuxOnly, BSDOnly, Listing
  <2>5. gatewayIP \in Router \cup {None}
    BY <2>1, GatewaysAreRouters DEF Stages
  <2>6. \A k \in 1..Len(candidates) : /\ candidates[k].index \in Iface
                                      /\ candidates[k].reason \in (SUBSET Reasons) \ {{}}
    BY EntriesTyped, <2>1 DEF Listings
  <2> QED
    BY <2>1, <2>2, <2>3, <2>4, <2>5, <2>6 DEF SelectionTypeOK, Host, Positions
<1> QED
  BY <1>1, SearchInvariant, PTL

\* The candidates are in the documented order although four passes over a
\* changing host put them together.
THEOREM CandidatesAreInOrder == Spec => []CandidatesInOrder
<1>1. SearchInv => CandidatesInOrder
  <2> SUFFICES ASSUME SearchInv PROVE CandidatesInOrder
    OBVIOUS
  <2>1. Passes /\ Sorted(candidates, Ranks)
    BY DEF SearchInv, Listings
  <2>2. \A k \in 1..Len(candidates) : candidates[k].index \in Iface
    BY EntriesTyped DEF SearchInv, Listings
  <2>3. \A i, j \in Iface : Precedes(Ranks, i, j) <=> Before(i, j)
    BY DEF Precedes, Before, Ranks
  <2> QED
    BY <2>1, <2>2, <2>3 DEF CandidatesInOrder, Passes, Sorted, Indexes
<1> QED
  BY <1>1, SearchInvariant, PTL

\* On Linux an interface asked for by name is chosen as soon as it can be
\* initialized, whatever the other candidates are and whatever fails.
THEOREM RequestIsAuthoritative == Spec => []RequestedIsAuthoritative
<1>1. SearchInv => RequestedIsAuthoritative
  BY DEF SearchInv, AskedSettles, RequestedIsAuthoritative, Asked
<1> QED
  BY <1>1, SearchInvariant, PTL

\* On macOS and the BSDs no virtual interface is chosen, and on a quiet host the
\* first candidate that carries every target is.
THEOREM UplinkIsFirst == Spec => []UplinkCarriesTargets
<1>1. SearchInv => UplinkCarriesTargets
  BY DEF SearchInv, Uplinks, Undisturbed, UplinkCarriesTargets
<1> QED
  BY <1>1, SearchInvariant, PTL

\* The gateway taken is one no other default route is preferred to, for any
\* default routes, in whatever order they are listed and with what else.
THEOREM GatewayPreferred == Spec => PreferredGateway
<1>1. SearchInv /\ [Next]_vars =>
        [pc = "gateway" /\ gatewayIP' # None =>
           \E route \in routes[Candidate] :
              /\ route.gw = gatewayIP'
              /\ \A other \in routes[Candidate] : route.priority <= other.priority]_vars
  <2> SUFFICES ASSUME SearchInv, Next, pc = "gateway", gatewayIP' # None
               PROVE  \E route \in routes[Candidate] :
                        /\ route.gw = gatewayIP'
                        /\ \A other \in routes[Candidate] : route.priority <= other.priority
    OBVIOUS
  <2>1. gatewayIP = None
    BY DEF SearchInv, Positions
  <2>2. AskGateway
    BY <2>1 DEF Next, Select, Resolve, ListInterfaces, LookUpRoute, LookUpName, LookUpIndex,
         LookUpAddress, ScanInterfaces, LinuxSelect, OpenSocket, SetFilter, AskNeighbor,
         PinNeighbor, Decide, Choose, BSDSelect, TryUplink, CheckTarget, TakeUplink, NoUplink,
         Ended, NetworkChanges, linuxVars
  <2>3. PICK answer \in GatewayAnswers : answer[1] = routes[Candidate] /\ gatewayIP' \in answer[2]
    BY <2>1, <2>2 DEF AskGateway
  <2> QED
    BY <2>3, GatewayIsPreferred
<1> QED
  BY <1>1, SearchInvariant, PTL DEF Spec, PreferredGateway

-----------------------------------------------------------------------------
(* How much of the search is left.  It is compared component by component,   *)
(* so a search has no more steps than there are values of Left.              *)

Looking == {"open", "decide"} \cup Probing \cup BSDOnly

\* The passes over the host, then the looks at candidates, then the choice.
Phase == CASE pc = "list"     -> 7
           [] pc = "route"    -> 6
           [] pc = "byName"   -> 5
           [] pc = "byIndex"  -> 4
           [] pc = "address"  -> 3
           [] pc \in Looking  -> 2
           [] pc = "choose"   -> 1
           [] OTHER           -> 0

\* The interfaces of a pass, or the candidates, that are left.
Remaining == IF pc = "address" THEN Len(Order) + 1 - at
             ELSE IF pc \in Looking THEN Len(candidates) + 1 - at ELSE 0

\* What is left of the look at one candidate.
Stage == CASE pc = "open"     -> 6
           [] pc = "filter"   -> 5
           [] pc = "gateway"  -> 4
           [] pc = "neighbor" -> 3
           [] pc = "pin"      -> 2
           [] pc = "decide"   -> 1
           [] pc = "uplink"   -> 2
           [] pc = "targets"  -> 1
           [] OTHER           -> 0

\* The rounds of a probe, or the targets to check, that are left.
Rounds == IF pc \in {"gateway", "neighbor"} THEN MaxRetries - attempt
          ELSE IF pc = "targets" THEN Cardinality(unrouted) ELSE 0

Left == <<Phase, Remaining, Stage, Rounds>>

LeftInBounds ==
    /\ Phase \in 0..7 /\ Remaining \in 0..Len(Order) /\ Stage \in 0..6
    /\ Rounds \in (0..MaxRetries) \cup (0..Cardinality(Target))

Less(a, b) == \E n \in 1..4 : a[n] < b[n] /\ \A m \in 1..(n - 1) : a[m] = b[m]

LEMMA LessPhase == Phase' < Phase => Less(Left', Left)
<1>1. Left'[1] = Phase' /\ Left[1] = Phase
  BY DEF Left
<1>2. 1 \in 1..4 /\ 1..(1 - 1) = {}
  OBVIOUS
<1> QED
  BY <1>1, <1>2 DEF Less

LEMMA LessRemaining == Phase' = Phase /\ Remaining' < Remaining => Less(Left', Left)
<1>1. Left'[1] = Phase' /\ Left[1] = Phase /\ Left'[2] = Remaining' /\ Left[2] = Remaining
  BY DEF Left
<1>2. 2 \in 1..4 /\ 1..(2 - 1) = {1}
  OBVIOUS
<1> QED
  BY <1>1, <1>2 DEF Less

LEMMA LessStage ==
    Phase' = Phase /\ Remaining' = Remaining /\ Stage' < Stage => Less(Left', Left)
<1>1. /\ Left'[1] = Phase' /\ Left[1] = Phase /\ Left'[2] = Remaining' /\ Left[2] = Remaining
      /\ Left'[3] = Stage' /\ Left[3] = Stage
  BY DEF Left
<1>2. 3 \in 1..4 /\ 1..(3 - 1) = {1, 2}
  OBVIOUS
<1> QED
  BY <1>1, <1>2 DEF Less

LEMMA LessRounds ==
    Phase' = Phase /\ Remaining' = Remaining /\ Stage' = Stage /\ Rounds' < Rounds
      => Less(Left', Left)
<1>1. /\ Left'[1] = Phase' /\ Left[1] = Phase /\ Left'[2] = Remaining' /\ Left[2] = Remaining
      /\ Left'[3] = Stage' /\ Left[3] = Stage /\ Left'[4] = Rounds' /\ Left[4] = Rounds
  BY DEF Left
<1>2. 4 \in 1..4 /\ 1..(4 - 1) = {1, 2, 3}
  OBVIOUS
<1> QED
  BY <1>1, <1>2 DEF Less

LEMMA UnroutedFinite ==
    ASSUME Positions
    PROVE  /\ IsFiniteSet(unrouted) /\ Cardinality(unrouted) \in Nat
           /\ Cardinality(unrouted) <= Cardinality(Target) /\ Cardinality(Target) \in Nat
<1>1. IsFiniteSet(Target) /\ unrouted \subseteq Target
  BY CandidatesAssumption DEF Positions
<1> QED
  BY <1>1, FS_Subset, FS_CardinalityType

LEMMA LeftBounded ==
    ASSUME SelectionInv, SearchInv
    PROVE  LeftInBounds
<1>1. /\ Stages /\ Passes /\ Listings /\ Positions
      /\ at \in Nat \ {0} /\ Len(candidates) \in Nat /\ Len(Order) \in Nat
  BY PositionsTyped, Positioned DEF SelectionInv, SearchInv
<1>2. Len(candidates) <= Len(Order)
  BY <1>1, SortedIsShort, RanksTyped DEF Listings
<1>3. Phase \in 0..7 /\ Stage \in 0..6
  BY DEF Phase, Stage
<1>4. Remaining \in 0..Len(Order)
  <2>1. CASE pc = "address"
    BY <1>1, <2>1 DEF Remaining, Passes
  <2>2. CASE pc \in Looking
    <3>1. at <= Len(candidates) + 1
      BY <1>1, <2>2 DEF Positions, Resolved, Looking, Probing, BSDOnly
    <3> QED
      BY <1>1, <1>2, <2>2, <3>1 DEF Remaining, Looking, Probing, BSDOnly
  <2> QED
    BY <1>1, <2>1, <2>2 DEF Remaining
<1>5. Rounds \in (0..MaxRetries) \cup (0..Cardinality(Target))
  <2>1. MaxRetries - attempt \in 0..MaxRetries
    BY <1>1, RetriesAssumption DEF Positions
  <2>2. Cardinality(unrouted) \in 0..Cardinality(Target)
    BY <1>1, UnroutedFinite
  <2>3. 0 \in 0..MaxRetries
    BY RetriesAssumption
  <2> QED
    BY <2>1, <2>2, <2>3 DEF Rounds
<1> QED
  BY <1>3, <1>4, <1>5 DEF LeftInBounds

LEMMA ResolveShrinks ==
    ASSUME SelectionInv, SearchInv, Resolve
    PROVE  Less(Left', Left)
<1> USE DEF Looking, Probing, BSDOnly
<1>1. CASE LookUpAddress
  <2>1. /\ pc = "address" /\ pc' = pc /\ at' = at + 1 /\ at \in Nat /\ Len(Order) \in Nat
    BY <1>1, Positioned DEF LookUpAddress, SelectionInv, Stages
  <2>2. Phase' = Phase /\ Remaining' < Remaining
    BY <2>1 DEF Phase, Remaining
  <2> QED
    BY <2>2, LessRemaining
<1>2. CASE ~LookUpAddress
  <2>1. \/ pc = "list" /\ pc' \in {"failed", "route"}
        \/ pc = "route" /\ pc' \in {"address", "byIndex", "byName"}
        \/ pc = "byName" /\ pc' \in {"byIndex", "address"}
        \/ pc = "byIndex" /\ pc' = "address"
        \/ pc = "address" /\ pc' \in {"failed", "open", "uplink"}
    BY <1>2 DEF Resolve, ListInterfaces, LookUpRoute, LookUpName, LookUpIndex, ScanInterfaces, Goes
  <2>2. Phase' < Phase
    BY <2>1 DEF Phase
  <2> QED
    BY <2>2, LessPhase
<1> QED
  BY <1>1, <1>2

\* A candidate is given up, or there is none left and one is chosen.
LEMMA MoreShrinks ==
    ASSUME Stages, Listings, pc \in Looking, pc' \in {"open", "choose", "uplink"}, at' = at + 1,
           UNCHANGED candidates
    PROVE  Less(Left', Left)
<1> USE DEF Looking, Probing, BSDOnly
<1>1. at \in Nat /\ Len(candidates) \in Nat
  BY PositionsTyped
<1>2. CASE pc' = "choose"
  <2>1. Phase' < Phase
    BY <1>2 DEF Phase
  <2> QED
    BY <2>1, LessPhase
<1>3. CASE pc' \in {"open", "uplink"}
  <2>1. Phase' = Phase /\ Remaining' < Remaining
    BY <1>1, <1>3 DEF Phase, Remaining
  <2> QED
    BY <2>1, LessRemaining
<1> QED
  BY <1>2, <1>3

LEMMA LookShrinks ==
    ASSUME pc \in Looking, pc' \in Looking, UNCHANGED <<at, candidates>>,
           Stage' < Stage \/ (pc' = pc /\ Rounds' < Rounds)
    PROVE  Less(Left', Left)
<1>1. Phase' = Phase /\ Remaining' = Remaining
  BY DEF Phase, Remaining, Looking, Probing, BSDOnly
<1>2. pc' = pc => Stage' = Stage
  BY DEF Stage
<1> QED
  BY <1>1, <1>2, LessStage, LessRounds

LEMMA LinuxShrinks ==
    ASSUME SelectionInv, SearchInv, LinuxSelect
    PROVE  Less(Left', Left)
<1> USE DEF Looking, Probing, BSDOnly
<1>1. /\ Stages /\ Listings /\ UNCHANGED candidates /\ attempt \in Nat
  BY DEF SelectionInv, SearchInv, Positions, LinuxSelect, OpenSocket, SetFilter, AskGateway,
         AskNeighbor, PinNeighbor, Decide, Choose, found
<1>2. CASE OpenSocket \/ SetFilter
  <2>1. \/ pc = "open" /\ pc' = "filter" /\ at' = at
        \/ pc = "filter" /\ pc' = "gateway" /\ at' = at
        \/ pc \in {"open", "filter"} /\ pc' \in {"open", "choose"} /\ at' = at + 1
    BY <1>2, MoreMoves DEF OpenSocket, SetFilter, Goes
  <2>2. at' = at => Stage' < Stage
    BY <1>1, <2>1, PositionsTyped DEF Stage
  <2> QED
    BY <1>1, <2>1, <2>2, MoreShrinks, LookShrinks
<1>3. CASE AskGateway \/ AskNeighbor \/ PinNeighbor
  <2>1. /\ at' = at
        /\ \/ pc = "gateway" /\ pc' \in {"neighbor", "decide"}
           \/ pc = "neighbor" /\ pc' \in {"pin", "decide"}
           \/ pc = "pin" /\ pc' = "decide"
           \/ pc \in {"gateway", "neighbor"} /\ pc' = pc /\ attempt' = attempt + 1
    <3>1. CASE AskGateway
      BY <3>1 DEF AskGateway, Goes, Initialized, NextAttempt
    <3>2. CASE AskNeighbor
      BY <3>2 DEF AskNeighbor, Goes, Initialized, NextAttempt
    <3>3. CASE PinNeighbor
      BY <3>3 DEF PinNeighbor, Goes, Initialized
    <3> QED
      BY <1>3, <3>1, <3>2, <3>3
  <2>2. CASE pc' # pc
    <3>1. Stage' < Stage
      BY <2>1, <2>2 DEF Stage
    <3> QED
      BY <1>1, <2>1, <3>1, LookShrinks
  <2>3. CASE pc' = pc
    <3>1. Rounds' < Rounds
      BY <1>1, <2>1, <2>3, RetriesAssumption DEF Rounds
    <3> QED
      BY <1>1, <2>1, <2>3, <3>1, LookShrinks
  <2> QED
    BY <2>2, <2>3
<1>4. CASE Decide \/ Choose
  <2>1. \/ pc = "decide" /\ pc' \in {"open", "choose"} /\ at' = at + 1
        \/ pc \in {"decide", "choose"} /\ pc' \in {"selected", "failed"}
    BY <1>4, MoreMoves DEF Decide, Choose, Finalize, Goes
  <2>2. pc \in {"decide", "choose"} /\ pc' \in {"selected", "failed"} => Phase' < Phase
    BY DEF Phase
  <2> QED
    BY <1>1, <2>1, <2>2, MoreShrinks, LessPhase
<1> QED
  BY <1>2, <1>3, <1>4 DEF LinuxSelect

LEMMA BSDShrinks ==
    ASSUME SelectionInv, SearchInv, BSDSelect
    PROVE  Less(Left', Left)
<1> USE DEF Looking, Probing, BSDOnly
<1>1. /\ Stages /\ Listings /\ Positions /\ UNCHANGED candidates /\ pc \in BSDOnly
  BY DEF SelectionInv, SearchInv, BSDSelect, TryUplink, CheckTarget, TakeUplink, NoUplink, found
<1>2. \/ pc = "uplink" /\ pc' = "targets" /\ at' = at
      \/ pc' = "uplink" /\ at' = at + 1
      \/ /\ pc = "targets" /\ pc' = pc /\ at' = at
         /\ \E t \in unrouted : unrouted' = unrouted \ {t}
      \/ pc' \in {"selected", "failed"}
  BY DEF BSDSelect, TryUplink, CheckTarget, TakeUplink, NoUplink, NextUplink, Goes
<1>3. CASE pc = "uplink" /\ pc' = "targets" /\ at' = at
  <2>1. Stage' < Stage
    BY <1>3 DEF Stage
  <2> QED
    BY <1>1, <1>3, <2>1, LookShrinks
<1>4. CASE pc' = "uplink" /\ at' = at + 1
  BY <1>1, <1>4, MoreShrinks
<1>5. ASSUME pc = "targets", pc' = pc, at' = at, NEW t \in unrouted, unrouted' = unrouted \ {t}
      PROVE  Less(Left', Left)
  <2>1. Cardinality(unrouted \ {t}) = Cardinality(unrouted) - 1 /\ Cardinality(unrouted) \in Nat
    BY <1>1, UnroutedFinite, FS_RemoveElement
  <2>2. Rounds' < Rounds
    BY <1>5, <2>1 DEF Rounds
  <2> QED
    BY <1>1, <1>5, <2>2, LookShrinks
<1>6. CASE pc' \in {"selected", "failed"}
  <2>1. Phase' < Phase
    BY <1>1, <1>6 DEF Phase
  <2> QED
    BY <2>1, LessPhase
<1> QED
  BY <1>2, <1>3, <1>4, <1>5, <1>6

\* The search cannot go on for ever, however often the network changes under it:
\* what is left is bounded by the numbers of interfaces, retries and targets,
\* each call shrinks it, and nothing the network does makes it larger.
THEOREM SearchIsBounded ==
    Spec => /\ []LeftInBounds
            /\ [][Select => Less(Left', Left)]_vars
            /\ [][~Select => Left' = Left]_vars
<1>1. SelectionInv /\ SearchInv => LeftInBounds
  BY LeftBounded
<1>2. SelectionInv /\ SearchInv /\ [Next]_vars => [Select => Less(Left', Left)]_vars
  BY ResolveShrinks, LinuxShrinks, BSDShrinks DEF Select
<1>3. [Next]_vars => [~Select => Left' = Left]_vars
  <2> SUFFICES ASSUME \/ NetworkChanges /\ UNCHANGED <<linuxVars, unrouted>>
                      \/ Ended
               PROVE  Left' = Left
    BY DEF Next
  <2>1. UNCHANGED <<pc, at, candidates, attempt, unrouted>>
    BY DEF NetworkChanges, Ended, found, linuxVars, vars, resolveVars
  <2> QED
    BY <2>1 DEF Left, Phase, Remaining, Stage, Rounds
<1> QED
  BY <1>1, <1>2, <1>3, SearchInvariant, PTL DEF Spec
====
