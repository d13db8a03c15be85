---- MODULE ActiveIPs ----
(***************************************************************************)
(* The registry of runtime addresses (active_ips.go) and the announcement  *)
(* queue it feeds (active_ips_linux.go).  Several collector goroutines     *)
(* call replaceActiveIPSource; the responder loop reads activeIPs without  *)
(* a lock and receives from the two channels.                              *)
(*                                                                         *)
(* One call is four kinds of step: everything under the mutex up to the    *)
(* atomic Store, the Store with the unlock, the non-blocking signal, and   *)
(* one non-blocking publication per new address.  Only these boundaries    *)
(* can be observed by another goroutine.                                   *)
(***************************************************************************)
EXTENDS Naturals, Sequences

CONSTANTS Addr,       \* valid IPv6 addresses
          NotIPv6,    \* what a collector may hand over and the filter drops
          Source,     \* source names
          Goroutine,  \* callers of replaceActiveIPSource
          None,       \* nobody holds the mutex; no source
          QueueCap    \* capacity of newActiveIP: 64 on Linux; elsewhere there
                      \* is no queue (active_ips_nonlinux.go), capacity 0

ASSUME RegistryAssumption ==
    /\ None \notin Goroutine
    /\ None \notin Source
    /\ QueueCap \in Nat
    /\ Addr \cap NotIPv6 = {}

VARIABLES activeIPSources,   \* source |-> addresses; {} when the key is absent
          activeIPs,         \* the published *netipx.IPSet
          activeIPSourceMu,  \* the goroutine holding the mutex, or None
          activeIPsChanged,  \* tokens in the channel of capacity 1
          newActiveIP,       \* the announcement queue
          call               \* goroutine |-> its call in progress

registryVars == <<activeIPSources, activeIPs, activeIPSourceMu,
                  activeIPsChanged, newActiveIP, call>>

Idle == [pc |-> "idle", source |-> None, previous |-> {}, next |-> {},
         set |-> {}, new |-> {}]

RegistryInit ==
    /\ activeIPSources = [s \in Source |-> {}]
    /\ activeIPs = {}
    /\ activeIPSourceMu = None
    /\ activeIPsChanged = 0
    /\ newActiveIP = <<>>
    /\ call = [g \in Goroutine |-> Idle]

UnionOf(sources) == UNION {sources[s] : s \in Source}

-----------------------------------------------------------------------------
(* replaceActiveIPSource, one operator per idea so that each can be mutated *)

\* A bug: without the Is6 test an IPv4 address enters the sources.
KeepAll(addresses) == addresses

KeepIPv6(addresses) == addresses \cap Addr

\* A bug the comment at active_ips.go:52-54 warns of: publish unlocked.
AcquireNothing(g) == UNCHANGED activeIPSourceMu

Acquire(g) == /\ activeIPSourceMu = None
              /\ activeIPSourceMu' = g

ReplaceBuild(g, s, addresses) ==
    LET next == KeepIPv6(addresses)
        sources == [activeIPSources EXCEPT ![s] = next]
    IN /\ call[g].pc = "idle"
       /\ Acquire(g)
       /\ activeIPSources' = sources
       /\ call' = [call EXCEPT ![g] =
                     [pc |-> "store", source |-> s,
                      previous |-> activeIPSources[s], next |-> next,
                      set |-> UnionOf(sources),
                      new |-> next \ activeIPSources[s]]]
       /\ UNCHANGED <<activeIPs, activeIPsChanged, newActiveIP>>

ReplaceStore(g) ==
    /\ call[g].pc = "store"
    /\ activeIPs' = call[g].set
    /\ activeIPSourceMu' = None
    /\ call' = [call EXCEPT ![g].pc = "signal"]
    /\ UNCHANGED <<activeIPSources, activeIPsChanged, newActiveIP>>

\* A bug: only new addresses are signalled, so a removal is not.
ChangedByGrowth(c) == c.new # {}

Changed(c) == c.previous # c.next

\* A bug: only the first addresses of a source are published.
AfterSignalFirstOnly(c) ==
    IF c.new = {} \/ c.previous # {} THEN Idle ELSE [c EXCEPT !.pc = "publish"]

AfterSignal(c) == IF c.new = {} THEN Idle ELSE [c EXCEPT !.pc = "publish"]

ReplaceSignal(g) ==
    /\ call[g].pc = "signal"
    /\ activeIPsChanged' = IF Changed(call[g]) THEN 1 ELSE activeIPsChanged
    /\ call' = [call EXCEPT ![g] = AfterSignal(call[g])]
    /\ UNCHANGED <<activeIPSources, activeIPs, activeIPSourceMu, newActiveIP>>

\* A bug: the queue is taken for full one address too early.
publishOneShort(address) ==
    newActiveIP' = IF Len(newActiveIP) + 1 < QueueCap
                   THEN Append(newActiveIP, address)
                   ELSE newActiveIP

publishNewActiveIP(address) ==
    newActiveIP' = IF Len(newActiveIP) < QueueCap
                   THEN Append(newActiveIP, address)
                   ELSE newActiveIP

AfterPublish(c, address) ==
    IF c.new = {address} THEN Idle ELSE [c EXCEPT !.new = c.new \ {address}]

ReplacePublish(g) ==
    /\ call[g].pc = "publish"
    /\ \E address \in call[g].new :
         /\ publishNewActiveIP(address)
         /\ call' = [call EXCEPT ![g] = AfterPublish(call[g], address)]
    /\ UNCHANGED <<activeIPSources, activeIPs, activeIPSourceMu, activeIPsChanged>>

\* The steps of a call once it has started.
ReplaceContinue(g) == ReplaceStore(g) \/ ReplaceSignal(g) \/ ReplacePublish(g)

-----------------------------------------------------------------------------
(* The receiving ends, as far as the registry sees them *)

TakeChanged == /\ activeIPsChanged = 1
               /\ activeIPsChanged' = 0
               /\ UNCHANGED <<activeIPSources, activeIPs, activeIPSourceMu,
                              newActiveIP, call>>

TakeNew == /\ newActiveIP # <<>>
           /\ newActiveIP' = Tail(newActiveIP)
           /\ UNCHANGED <<activeIPSources, activeIPs, activeIPSourceMu,
                          activeIPsChanged, call>>

ReplaceStart(g) == \E s \in Source, addresses \in SUBSET (Addr \cup NotIPv6) :
                      ReplaceBuild(g, s, addresses)

RegistryNext == \/ \E g \in Goroutine : ReplaceStart(g) \/ ReplaceContinue(g)
                \/ TakeChanged
                \/ TakeNew

RegistrySpec == RegistryInit /\ [][RegistryNext]_registryVars

-----------------------------------------------------------------------------
CallType == [pc : {"idle", "store", "signal", "publish"},
             source : Source \cup {None},
             previous : SUBSET Addr, next : SUBSET Addr,
             set : SUBSET Addr, new : SUBSET Addr]

\* The registry's types: whatever a collector hands over, only IPv6 addresses
\* reach the sources, the published set and the queue, the change channel
\* holds at most one token and the queue never exceeds its capacity.
RegistryTypeOK ==
    /\ activeIPSources \in [Source -> SUBSET Addr]
    /\ activeIPs \in SUBSET Addr
    /\ activeIPSourceMu \in Goroutine \cup {None}
    /\ activeIPsChanged \in {0, 1}
    /\ newActiveIP \in Seq(Addr)
    /\ Len(newActiveIP) <= QueueCap
    /\ call \in [Goroutine -> CallType]

\* Whenever nobody is inside the critical section, the published set is the
\* union of the sources: no interleaving of refreshes leaves an older union
\* published, the bug the comment at active_ips.go:52-54 describes.
PublishedAgrees ==
    activeIPSourceMu = None => activeIPs = UnionOf(activeIPSources)

\* The critical section: the goroutine between lock and Store is the holder,
\* the union it is about to store is the union of the sources now, and what
\* is still published is the union before its call.
HolderStoresUnion ==
    \A g \in Goroutine :
      /\ activeIPSourceMu = g => call[g].pc = "store"
      /\ call[g].pc = "store" =>
           /\ activeIPSourceMu = g
           /\ call[g].source \in Source
           /\ call[g].set = UnionOf(activeIPSources)
           /\ activeIPs = UnionOf([activeIPSources EXCEPT
                                     ![call[g].source] = call[g].previous])

\* The inductive invariant behind PublishedAgrees and the refinement: types,
\* agreement outside the critical section, and what holds inside it.
RegistryInv == RegistryTypeOK /\ PublishedAgrees /\ HolderStoresUnion

-----------------------------------------------------------------------------
(* Refinement: seen from outside the mutex, a refresh is one step.  While a *)
(* holder has written its source but not stored the union, the view is the  *)
(* one before its call.                                                     *)
VisibleSources ==
    IF activeIPSourceMu = None THEN activeIPSources
    ELSE [activeIPSources EXCEPT ![call[activeIPSourceMu].source] =
                                    call[activeIPSourceMu].previous]

View == INSTANCE AddressView WITH view <- VisibleSources, published <- activeIPs

\* Every refresh takes effect for all readers at once, in the order of the
\* Stores: the registry implements AddressView.
RefinesAddressView == View!ViewSpec
====
