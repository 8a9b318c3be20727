------------------------------ MODULE HostPool ------------------------------
(***************************************************************************)
(* The shared connection pool of internal/hostruntime: Factory.Open and    *)
(* openSharedLocked, awaitFlight, runDial, sharedHandle.Close and          *)
(* invalidate, CloseHost and Close.                                        *)
(*                                                                         *)
(* Every step that runs under Factory.mu is one action.  What the code     *)
(* does after it unlocks (dialing, closing a transport, waiting on         *)
(* flight.done, the idle timer's callback) is an action of its own, so     *)
(* that every interleaving of callers, dial goroutines and timers occurs.  *)
(*                                                                         *)
(* A flight creates at most one sharedEndpoint, so one element of Flights  *)
(* stands for the dialFlight, its runDial goroutine and the entry that it  *)
(* publishes.  An element nothing refers to any more is garbage and is     *)
(* used again.  Transport errors, contexts, timers and the user table are  *)
(* inputs: they happen or not, at any moment the code allows.              *)
(***************************************************************************)
EXTENDS Integers, FiniteSets

CONSTANTS
    Hosts,          \* host IDs
    LocalHosts,     \* the hosts with Transport "local"
    Callers,        \* goroutines that open one endpoint at a time
    Flights,        \* identities of dialFlights and their sharedEndpoints
    None,           \* the nil pointer
    Limit,          \* Config.MaxHostConnections
    DialSlots,      \* Config.HostDialConcurrency
    MaxWaiters,     \* observers one flight accepts (128 in the code)
    MaxFailures,    \* failure records kept (1024 in the code)
    MaxCallbacks    \* bound: idle callbacks of one entry waiting for mu

ASSUME HostPoolAssumption ==
    /\ LocalHosts \subseteq Hosts
    /\ IsFiniteSet(Callers) /\ IsFiniteSet(Hosts) /\ IsFiniteSet(Flights)
    /\ None \notin Flights /\ None \notin Hosts
    /\ Limit \in Nat \ {0} /\ DialSlots \in Nat \ {0}
    /\ MaxWaiters \in Nat \ {0} /\ MaxFailures \in Nat \ {0}
    /\ MaxCallbacks \in Nat \ {0}

VARIABLES
    closed,     \* Factory.closed
    endpoints,  \* Factory.endpoints: the published entry of a host
    flights,    \* Factory.flights: the unfinished dial of a host
    failures,   \* Factory.failures: the cached failure of a host
    host,       \* the host a flight dials
    waiters,    \* dialFlight.waiters
    outcome,    \* dialFlight.finished, entry and err
    dialer,     \* where the flight's runDial goroutine is
    victim,     \* the evicted entry runDial closes before it dials
    endpoint,   \* the transport the flight dialed
    refs,       \* sharedEndpoint.refs
    retired,    \* sharedEndpoint.closed
    idle,       \* sharedEndpoint.idle is armed
    older,      \* the entries idle since before this one (idleSince)
    callbacks,  \* idle callbacks that fired and wait for mu
    closers,    \* endpoint.Close calls not made yet, after unlock
    pc,         \* where a caller is
    want,       \* the host a caller asked for
    on          \* the flight or entry a caller holds

poolVars   == <<closed, endpoints, flights, failures>>
flightVars == <<host, waiters, outcome, dialer, victim>>
entryVars  == <<endpoint, refs, retired, idle, older, callbacks, closers>>
callerVars == <<pc, want, on>>
vars == <<poolVars, flightVars, entryVars, callerVars>>

FailureKinds == {"none", "backoff", "expired", "permanent"}
Outcomes     == {"none", "pending", "entry", "failed", "canceled"}
DialerStates == {"off", "evicting", "queued", "dialing",
                 "dialed", "expired", "failing", "refused", "closing"}
CallerStates == {"idle", "checking", "waiting", "handle", "releasing"}

TypeOK ==
    /\ closed \in BOOLEAN
    /\ endpoints \in [Hosts -> Flights \cup {None}]
    /\ flights \in [Hosts -> Flights \cup {None}]
    /\ failures \in [Hosts -> FailureKinds]
    /\ host \in [Flights -> Hosts \cup {None}]
    /\ waiters \in [Flights -> Nat]
    /\ outcome \in [Flights -> Outcomes]
    /\ dialer \in [Flights -> DialerStates]
    /\ victim \in [Flights -> Flights \cup {None}]
    /\ endpoint \in [Flights -> {"none", "open", "closed"}]
    /\ refs \in [Flights -> Nat]
    /\ retired \in [Flights -> BOOLEAN]
    /\ idle \in [Flights -> BOOLEAN]
    /\ older \in [Flights -> SUBSET Flights]
    /\ callbacks \in [Flights -> Nat]
    /\ closers \in [Flights -> Nat]
    /\ pc \in [Callers -> CallerStates]
    /\ want \in [Callers -> Hosts \cup {None}]
    /\ on \in [Callers -> Flights \cup {None}]

Init ==
    /\ closed = FALSE
    /\ endpoints = [h \in Hosts |-> None]
    /\ flights = [h \in Hosts |-> None]
    /\ failures = [h \in Hosts |-> "none"]
    /\ host = [t \in Flights |-> None]
    /\ waiters = [t \in Flights |-> 0]
    /\ outcome = [t \in Flights |-> "none"]
    /\ dialer = [t \in Flights |-> "off"]
    /\ victim = [t \in Flights |-> None]
    /\ endpoint = [t \in Flights |-> "none"]
    /\ refs = [t \in Flights |-> 0]
    /\ retired = [t \in Flights |-> FALSE]
    /\ idle = [t \in Flights |-> FALSE]
    /\ older = [t \in Flights |-> {}]
    /\ callbacks = [t \in Flights |-> 0]
    /\ closers = [t \in Flights |-> 0]
    /\ pc = [c \in Callers |-> "idle"]
    /\ want = [c \in Callers |-> None]
    /\ on = [c \in Callers |-> None]

-----------------------------------------------------------------------------
Published == {t \in Flights : \E h \in Hosts : endpoints[h] = t}
InFlight  == {t \in Flights : \E h \in Hosts : flights[h] = t}
IdleEntries == {t \in Published : refs[t] = 0}

\* The idle entries no other idle entry has been idle longer than.
OldestIdle == {t \in IdleEntries : older[t] \cap IdleEntries = {}}

\* len(f.endpoints) + len(f.flights)
Load == Cardinality({h \in Hosts : endpoints[h] # None})
          + Cardinality({h \in Hosts : flights[h] # None})

\* Nothing refers to t: the garbage collector has it back.
Garbage(t) ==
    /\ outcome[t] # "pending" /\ dialer[t] = "off"
    /\ endpoint[t] # "open"
    /\ t \notin Published
    /\ closers[t] = 0 /\ callbacks[t] = 0
    /\ \A c \in Callers : on[c] # t
    /\ \A x \in Flights : victim[x] # t

Wait(c, h, t) ==
    /\ pc' = [pc EXCEPT ![c] = "waiting"]
    /\ want' = [want EXCEPT ![c] = h]
    /\ on' = [on EXCEPT ![c] = t]

Leave(c) ==
    /\ pc' = [pc EXCEPT ![c] = "idle"]
    /\ want' = [want EXCEPT ![c] = None]
    /\ on' = [on EXCEPT ![c] = None]

(***************************************************************************)
(* openSharedLocked: what an Open finds under the lock.                    *)
(***************************************************************************)
Reuse(c, h) ==
    LET t == endpoints[h] IN
    /\ t # None
    /\ refs' = [refs EXCEPT ![t] = @ + 1]
    /\ idle' = [idle EXCEPT ![t] = FALSE]
    /\ older' = [x \in Flights |-> IF x = t THEN {} ELSE older[x] \ {t}]
    /\ pc' = [pc EXCEPT ![c] = "handle"]
    /\ want' = [want EXCEPT ![c] = h]
    /\ on' = [on EXCEPT ![c] = t]
    /\ UNCHANGED <<poolVars, flightVars, endpoint, retired, callbacks, closers>>

CachedFailure(h) == failures[h] \in {"backoff", "permanent"}

Join(c, h) ==
    LET t == flights[h] IN
    /\ endpoints[h] = None /\ ~CachedFailure(h)
    /\ t # None
    /\ waiters[t] < MaxWaiters
    /\ waiters' = [waiters EXCEPT ![t] = @ + 1]
    /\ Wait(c, h, t)
    /\ UNCHANGED <<poolVars, host, outcome, dialer, victim, entryVars>>

\* The new flight t of host h, with v the entry to close first or None.
NewFlight(c, h, t, v) ==
    /\ Garbage(t)
    /\ flights' = [flights EXCEPT ![h] = t]
    /\ host' = [host EXCEPT ![t] = h]
    /\ waiters' = [waiters EXCEPT ![t] = 1]
    /\ outcome' = [outcome EXCEPT ![t] = "pending"]
    /\ dialer' = [dialer EXCEPT ![t] = IF v = None THEN "queued" ELSE "evicting"]
    /\ victim' = [victim EXCEPT ![t] = v]
    /\ endpoint' = [endpoint EXCEPT ![t] = "none"]
    /\ refs' = [refs EXCEPT ![t] = 0]
    /\ retired' = [x \in Flights |-> IF x = t THEN FALSE
                                     ELSE IF x = v THEN TRUE ELSE retired[x]]
    /\ idle' = [x \in Flights |-> IF x \in {t, v} THEN FALSE ELSE idle[x]]
    /\ older' = [x \in Flights |-> IF x \in {t, v} THEN {} ELSE older[x] \ {t, v}]
    /\ Wait(c, h, t)
    /\ UNCHANGED <<closed, failures, callbacks, closers>>

Start(c, h, t) ==
    /\ endpoints[h] = None /\ ~CachedFailure(h) /\ flights[h] = None
    /\ Load < Limit
    /\ NewFlight(c, h, t, None)
    /\ UNCHANGED endpoints

\* At the limit the longest idle entry makes room; runDial closes it.
StartEvicting(c, h, t) ==
    /\ endpoints[h] = None /\ ~CachedFailure(h) /\ flights[h] = None
    /\ Load >= Limit
    /\ \E v \in OldestIdle :
         /\ NewFlight(c, h, t, v)
         /\ endpoints' = [endpoints EXCEPT ![host[v]] = None]

OpenShared(c, h) ==
    \/ Reuse(c, h)
    \/ Join(c, h)
    \/ \E t \in Flights : Start(c, h, t) \/ StartEvicting(c, h, t)

(***************************************************************************)
(* Factory.Open.  An Open that is refused (a closed factory, a cached      *)
(* failure, a full flight, no idle entry to evict) changes nothing and is  *)
(* a stutter for a caller that is idle.                                    *)
(***************************************************************************)
Open(c, h) ==
    /\ pc[c] = "idle" /\ ~closed
    /\ h \notin LocalHosts
    /\ OpenShared(c, h)

\* A local host: unlock and look the owner up before the lock is taken again.
OpenLocal(c, h) ==
    /\ pc[c] = "idle" /\ ~closed
    /\ h \in LocalHosts
    /\ pc' = [pc EXCEPT ![c] = "checking"]
    /\ want' = [want EXCEPT ![c] = h]
    /\ UNCHANGED <<poolVars, flightVars, entryVars, on>>

\* The owner is an enabled admin and the factory is still open.
LocalAllowed(c) ==
    /\ pc[c] = "checking" /\ ~closed
    /\ OpenShared(c, want[c])

\* The owner is not allowed, the factory closed, or openSharedLocked refuses.
LocalRefused(c) ==
    /\ pc[c] = "checking"
    /\ Leave(c)
    /\ UNCHANGED <<poolVars, flightVars, entryVars>>

(***************************************************************************)
(* awaitFlight.                                                            *)
(***************************************************************************)
\* cancelFlightLocked for the flights of a set of hosts.
CancelFlights(hs) ==
    /\ outcome' = [t \in Flights |->
                     IF \E h \in hs : flights[h] = t THEN "canceled" ELSE outcome[t]]
    /\ flights' = [h \in Hosts |-> IF h \in hs THEN None ELSE flights[h]]

\* flight.done is closed: the caller gets a handle, or the flight's error.
Await(c) ==
    LET t == on[c] IN
    /\ pc[c] = "waiting"
    /\ outcome[t] # "pending"
    /\ IF outcome[t] = "entry" /\ ~retired[t]
         THEN pc' = [pc EXCEPT ![c] = "handle"] /\ UNCHANGED <<want, on>>
         ELSE Leave(c)
    /\ UNCHANGED <<poolVars, flightVars, entryVars>>

\* Fault: a caller canceled during completion keeps its reserved reference.
AbandonKeepsReference(c) ==
    LET t == on[c] IN
    /\ pc[c] = "waiting"
    /\ waiters' = [waiters EXCEPT ![t] = @ - 1]
    /\ Leave(c)
    /\ IF outcome[t] = "pending" /\ waiters[t] = 1
         THEN CancelFlights({host[t]})
         ELSE UNCHANGED <<flights, outcome>>
    /\ UNCHANGED <<closed, endpoints, failures, host, dialer, victim, entryVars>>

\* The caller's context ended.  A reference reserved for it is given back by
\* handle.Close, after unlock; the last observer of a dial cancels the dial.
AbandonWait(c) ==
    LET t == on[c] IN
    /\ pc[c] = "waiting"
    /\ waiters' = [waiters EXCEPT ![t] = @ - 1]
    /\ IF outcome[t] = "entry"
         THEN pc' = [pc EXCEPT ![c] = "releasing"] /\ UNCHANGED <<want, on>>
         ELSE Leave(c)
    /\ IF outcome[t] = "pending" /\ waiters[t] = 1
         THEN CancelFlights({host[t]})
         ELSE UNCHANGED <<flights, outcome>>
    /\ UNCHANGED <<closed, endpoints, failures, host, dialer, victim, entryVars>>

(***************************************************************************)
(* runDial.                                                                *)
(***************************************************************************)
CloseVictim(t) ==
    /\ dialer[t] = "evicting"
    /\ endpoint' = [endpoint EXCEPT ![victim[t]] = "closed"]
    /\ dialer' = [dialer EXCEPT ![t] = "queued"]
    /\ victim' = [victim EXCEPT ![t] = None]
    /\ UNCHANGED <<poolVars, host, waiters, outcome, refs, retired, idle, older,
                   callbacks, closers, callerVars>>

Dialing == {t \in Flights : dialer[t] = "dialing"}

TakeSlot(t) ==
    /\ dialer[t] = "queued"
    /\ outcome[t] = "pending"
    /\ Cardinality(Dialing) < DialSlots
    /\ dialer' = [dialer EXCEPT ![t] = "dialing"]
    /\ UNCHANGED <<poolVars, host, waiters, outcome, victim, entryVars, callerVars>>

\* Fault: a dial that times out in the queue returns without finishing.
LeaveQueueSilently(t) ==
    /\ dialer[t] = "queued"
    /\ dialer' = [dialer EXCEPT ![t] = "off"]
    /\ UNCHANGED <<poolVars, host, waiters, outcome, victim, entryVars, callerVars>>

\* The dial context was canceled with the flight, or timed out in the queue.
LeaveQueue(t) ==
    /\ dialer[t] = "queued"
    /\ dialer' = [dialer EXCEPT ![t] = "failing"]
    /\ UNCHANGED <<poolVars, host, waiters, outcome, victim, entryVars, callerVars>>

\* The dial returns: an endpoint, an endpoint after the context had ended, a
\* retryable error, or an error DescribeError calls permanent.
DialReturn(t) ==
    /\ dialer[t] = "dialing"
    /\ \E result \in {"dialed", "expired", "failing", "refused"} :
         /\ dialer' = [dialer EXCEPT ![t] = result]
         /\ endpoint' = [endpoint EXCEPT ![t] =
                           IF result \in {"dialed", "expired"} THEN "open" ELSE @]
    /\ UNCHANGED <<poolVars, host, waiters, outcome, victim, refs, retired, idle,
                   older, callbacks, closers, callerVars>>

AfterDial(t) == IF endpoint[t] = "open" THEN "closing" ELSE "off"

\* Fault: the endpoint of a canceled dial is forgotten.
DiscardForgetsEndpoint(t) ==
    /\ dialer[t] \in {"dialed", "expired", "failing", "refused"}
    /\ outcome[t] # "pending"
    /\ dialer' = [dialer EXCEPT ![t] = "off"]
    /\ UNCHANGED <<poolVars, host, waiters, outcome, victim, entryVars, callerVars>>

\* The flight was canceled while it was dialing: its endpoint is not published.
DiscardDial(t) ==
    /\ dialer[t] \in {"dialed", "expired", "failing", "refused"}
    /\ outcome[t] # "pending"
    /\ dialer' = [dialer EXCEPT ![t] = AfterDial(t)]
    /\ UNCHANGED <<poolVars, host, waiters, outcome, victim, entryVars, callerVars>>

\* A full failure table drops one record before it takes the new one.
RecordFailure(h, kind) ==
    LET known == {x \in Hosts : failures[x] # "none"} IN
    IF Cardinality(known) < MaxFailures
      THEN failures' = [failures EXCEPT ![h] = kind]
      ELSE \E x \in known :
             failures' = [y \in Hosts |-> IF y = h THEN kind
                                          ELSE IF y = x THEN "none" ELSE failures[y]]

FailDial(t) ==
    /\ dialer[t] \in {"expired", "failing", "refused"}
    /\ outcome[t] = "pending"
    /\ RecordFailure(host[t], IF dialer[t] = "refused" THEN "permanent" ELSE "backoff")
    /\ outcome' = [outcome EXCEPT ![t] = "failed"]
    /\ flights' = [flights EXCEPT ![host[t]] = None]
    /\ dialer' = [dialer EXCEPT ![t] = AfterDial(t)]
    /\ UNCHANGED <<closed, endpoints, host, waiters, victim, entryVars, callerVars>>

\* Fault: the entry is published without the observers' references.
PublishUnreserved(t) ==
    /\ dialer[t] = "dialed"
    /\ outcome[t] = "pending"
    /\ failures' = [failures EXCEPT ![host[t]] = "none"]
    /\ endpoints' = [endpoints EXCEPT ![host[t]] = t]
    /\ outcome' = [outcome EXCEPT ![t] = "entry"]
    /\ flights' = [flights EXCEPT ![host[t]] = None]
    /\ dialer' = [dialer EXCEPT ![t] = "off"]
    /\ UNCHANGED <<closed, host, waiters, victim, entryVars, callerVars>>

\* One reference is reserved for each observer, before they can see the entry.
Publish(t) ==
    /\ dialer[t] = "dialed"
    /\ outcome[t] = "pending"
    /\ failures' = [failures EXCEPT ![host[t]] = "none"]
    /\ refs' = [refs EXCEPT ![t] = waiters[t]]
    /\ endpoints' = [endpoints EXCEPT ![host[t]] = t]
    /\ outcome' = [outcome EXCEPT ![t] = "entry"]
    /\ flights' = [flights EXCEPT ![host[t]] = None]
    /\ dialer' = [dialer EXCEPT ![t] = "off"]
    /\ UNCHANGED <<closed, host, waiters, victim, endpoint, retired, idle, older,
                   callbacks, closers, callerVars>>

CloseDiscarded(t) ==
    /\ dialer[t] = "closing"
    /\ endpoint' = [endpoint EXCEPT ![t] = "closed"]
    /\ dialer' = [dialer EXCEPT ![t] = "off"]
    /\ UNCHANGED <<poolVars, host, waiters, outcome, victim, refs, retired, idle,
                   older, callbacks, closers, callerVars>>

\* failure.until passes.
BackoffEnds(h) ==
    /\ failures[h] = "backoff"
    /\ failures' = [failures EXCEPT ![h] = "expired"]
    /\ UNCHANGED <<closed, endpoints, flights, flightVars, entryVars, callerVars>>

(***************************************************************************)
(* Handles.  Retire is what every reason to drop an entry does under mu.   *)
(***************************************************************************)
Retire(ts) ==
    /\ retired' = [t \in Flights |-> t \in ts \/ retired[t]]
    /\ idle' = [t \in Flights |-> t \notin ts /\ idle[t]]
    /\ older' = [t \in Flights |-> IF t \in ts THEN {} ELSE older[t] \ ts]
    /\ closers' = [t \in Flights |-> IF t \in ts THEN closers[t] + 1 ELSE closers[t]]

\* sharedHandle.Close, by the holder or by an abandoned wait.
CloseHandle(c) ==
    LET t == on[c] IN
    /\ pc[c] \in {"handle", "releasing"}
    /\ refs' = [refs EXCEPT ![t] = @ - 1]
    /\ IF retired[t] \/ refs[t] # 1
         THEN UNCHANGED <<idle, older>>
         ELSE /\ idle' = [idle EXCEPT ![t] = TRUE]
              /\ older' = [x \in Flights |-> IF x = t THEN IdleEntries ELSE older[x] \ {t}]
    /\ Leave(c)
    /\ UNCHANGED <<poolVars, flightVars, endpoint, retired, callbacks, closers>>

\* A transport error of a call, or the health check's Invalidate.
Invalidate(c) ==
    LET t == on[c] IN
    /\ pc[c] = "handle"
    /\ ~retired[t]
    /\ Retire({t})
    /\ endpoints' = [endpoints EXCEPT ![host[t]] = IF @ = t THEN None ELSE @]
    /\ UNCHANGED <<closed, flights, failures, flightVars, endpoint, refs, callbacks,
                   callerVars>>

IdleTimer(t) ==
    /\ idle[t]
    /\ callbacks[t] < MaxCallbacks
    /\ idle' = [idle EXCEPT ![t] = FALSE]
    /\ callbacks' = [callbacks EXCEPT ![t] = @ + 1]
    /\ UNCHANGED <<poolVars, flightVars, endpoint, refs, retired, older, closers,
                   callerVars>>

\* Faults of the callback's second look: it trusts the count alone, it does not
\* count, it takes a timer that fired for one that was stopped.
StillIdleByRefs(t) == refs[t] = 0
StillIdleUncounted(t) == ~retired[t] /\ endpoints[host[t]] = t
StillIdleAndArmed(t) == ~retired[t] /\ refs[t] = 0 /\ idle[t]

\* A stopped timer may already have fired, so the callback looks again.
StillIdle(t) == ~retired[t] /\ refs[t] = 0 /\ endpoints[host[t]] = t

IdleCallback(t) ==
    /\ callbacks[t] > 0
    /\ callbacks' = [callbacks EXCEPT ![t] = @ - 1]
    /\ IF StillIdle(t)
         THEN /\ Retire({t})
              /\ endpoints' = [endpoints EXCEPT ![host[t]] = None]
         ELSE UNCHANGED <<endpoints, retired, idle, older, closers>>
    /\ UNCHANGED <<closed, flights, failures, flightVars, endpoint, refs, callerVars>>

(***************************************************************************)
(* CloseHost, Close and the endpoint.Close calls made after unlock.        *)
(***************************************************************************)
CloseHost(h) ==
    /\ failures' = [failures EXCEPT ![h] = "none"]
    /\ CancelFlights({h})
    /\ Retire({endpoints[h]} \ {None})
    /\ endpoints' = [endpoints EXCEPT ![h] = None]
    /\ UNCHANGED <<closed, host, waiters, dialer, victim, endpoint, refs, callbacks,
                   callerVars>>

Close ==
    /\ closed' = TRUE
    /\ CancelFlights(Hosts)
    /\ Retire(Published)
    /\ endpoints' = [h \in Hosts |-> None]
    /\ failures' = [h \in Hosts |-> "none"]
    /\ UNCHANGED <<host, waiters, dialer, victim, endpoint, refs, callbacks, callerVars>>

CloseEndpoint(t) ==
    /\ closers[t] > 0
    /\ closers' = [closers EXCEPT ![t] = @ - 1]
    /\ endpoint' = [endpoint EXCEPT ![t] = "closed"]
    /\ UNCHANGED <<poolVars, flightVars, refs, retired, idle, older, callbacks,
                   callerVars>>

-----------------------------------------------------------------------------
DialStep(t) == \/ CloseVictim(t) \/ TakeSlot(t) \/ LeaveQueue(t) \/ DialReturn(t)
               \/ DiscardDial(t) \/ FailDial(t) \/ Publish(t) \/ CloseDiscarded(t)

Next ==
    \/ \E c \in Callers, h \in Hosts : Open(c, h) \/ OpenLocal(c, h)
    \/ \E c \in Callers : \/ LocalAllowed(c) \/ LocalRefused(c)
                          \/ Await(c) \/ AbandonWait(c)
                          \/ CloseHandle(c) \/ Invalidate(c)
    \/ \E t \in Flights : \/ DialStep(t)
                          \/ IdleTimer(t) \/ IdleCallback(t) \/ CloseEndpoint(t)
    \/ \E h \in Hosts : BackoffEnds(h) \/ CloseHost(h)
    \/ Close

Spec == Init /\ [][Next]_vars

(***************************************************************************)
(* Goroutines that can run are scheduled: a dial runs to its end (its      *)
(* context times out after HostDialTimeout), a timer fires and its         *)
(* callback gets mu, a Close made after unlock returns, and a caller that  *)
(* flight.done woke, or that gives a reserved reference back, goes on.     *)
(* Nothing makes a caller close its handle, or a context end.              *)
(***************************************************************************)
Fairness ==
    /\ \A t \in Flights : /\ WF_vars(DialStep(t))
                          /\ WF_vars(IdleTimer(t))
                          /\ WF_vars(IdleCallback(t))
                          /\ WF_vars(CloseEndpoint(t))
    /\ \A c \in Callers : /\ WF_vars(Await(c))
                          /\ WF_vars(pc[c] = "releasing" /\ CloseHandle(c))

FairSpec == Spec /\ Fairness

-----------------------------------------------------------------------------
(***************************************************************************)
(* What the pool promises.                                                 *)
(***************************************************************************)
Users(t)  == {c \in Callers : on[c] = t}
Live(t)   == outcome[t] = "entry" /\ ~retired[t]

\* The reference count of an entry in use is the number of callers that hold
\* it or will be given it by awaitFlight, through joins, reuse, cancellation
\* during completion and late releases; a flight counts its observers.
RefsExact ==
    \A t \in Flights :
        /\ Live(t) => refs[t] = Cardinality(Users(t))
        /\ outcome[t] = "pending" => waiters[t] = Cardinality(Users(t))

\* Whoever has yet to close the transport of t: the pool while it publishes
\* it, the dial goroutine that evicts it or has it in hand, or the Close calls
\* to make after unlock.
InHand(t) == dialer[t] \in {"dialed", "expired", "closing"}

Owners(t) ==
    {<<"pool", h>> : h \in {x \in Hosts : endpoints[x] = t}}
      \cup {<<"evictor", x>> : x \in {y \in Flights : victim[y] = t}}
      \cup {<<"dialer", x>> : x \in {y \in {t} : InHand(y)}}
      \cup {<<"closer", n>> : n \in 1..closers[t]}

\* An open transport has exactly one owner and a closed one none, so none
\* leaks and none is closed twice, whichever of eviction, idle timer,
\* Invalidate, CloseHost, Close and a canceled dial meet.
OneOwner ==
    \A t \in Flights :
        IF endpoint[t] = "open" THEN \E o \in Owners(t) : Owners(t) = {o} ELSE Owners(t) = {}

\* An entry nobody uses has a timer armed or a callback on its way: the race
\* of Reuse with a timer that fired never leaves an idle entry unwatched.
IdleWatched ==
    \A t \in IdleEntries : idle[t] \/ callbacks[t] > 0

\* Published entries and unfinished dials together respect the limit.
WithinLimit == Load <= Limit

\* After Factory.Close nothing is published or dialing again, local opens that
\* released the lock before it included.
ClosedEmpty == closed => Load = 0 /\ \A t \in Flights : outcome[t] # "pending"

\* Reclaiming (the idle callback, eviction) never takes an entry from a
\* caller that holds it or was promised it.
ReclaimOnlyUnused ==
    [][\A t \in Flights :
         Live(t) /\ retired'[t] /\ Users(t) # {}
           => \/ \E c \in Callers : Invalidate(c)
              \/ \E h \in Hosts : CloseHost(h)
              \/ Close]_vars

\* The strengthening that makes the safety invariants inductive.
Waiting(t) == {c \in Callers : pc[c] = "waiting" /\ on[c] = t}

CallerInv ==
    \A c \in Callers :
        /\ pc[c] \in {"idle", "checking"} <=> on[c] = None
        /\ pc[c] = "checking" => want[c] \in Hosts
        /\ pc[c] = "waiting" => outcome[on[c]] # "none"
        /\ pc[c] \in {"handle", "releasing"} => outcome[on[c]] = "entry"

\* The maps hold exactly the live entries and the unfinished flights, and a
\* host never has both: a publication overwrites nothing.
PoolInv ==
    /\ \A t \in Flights :
         /\ outcome[t] # "none" => host[t] \in Hosts
         /\ \A h \in Hosts : endpoints[h] = t <=> Live(t) /\ host[t] = h
         /\ \A h \in Hosts : flights[h] = t <=> outcome[t] = "pending" /\ host[t] = h
    /\ \A h \in Hosts : endpoints[h] = None \/ flights[h] = None
    /\ closed => \A h \in Hosts : endpoints[h] = None /\ flights[h] = None

DialInv ==
    \A t \in Flights :
        /\ outcome[t] = "pending" => dialer[t] \notin {"off", "closing"}
        /\ outcome[t] \in {"none", "entry"} => dialer[t] = "off"
        /\ outcome[t] = "failed" => dialer[t] \in {"off", "closing"}
        /\ dialer[t] = "evicting" <=> victim[t] # None
        /\ outcome[t] # "entry" => /\ ~retired[t] /\ ~idle[t]
                                  /\ callbacks[t] = 0 /\ closers[t] = 0

CountInv ==
    \A t \in Flights :
        /\ waiters[t] >= Cardinality(Waiting(t))
        /\ outcome[t] = "pending" => waiters[t] = Cardinality(Users(t)) /\ waiters[t] > 0
        /\ outcome[t] = "entry" => refs[t] >= Cardinality(Users(t))
        /\ Live(t) => refs[t] = Cardinality(Users(t))

OwnerInv ==
    \A t \in Flights :
        /\ endpoint[t] = "open" <=> \/ Live(t) \/ InHand(t) \/ closers[t] = 1
                                    \/ \E x \in Flights : victim[x] = t
        /\ closers[t] \in {0, 1}
        /\ closers[t] = 1 => retired[t] /\ \A x \in Flights : victim[x] # t
        /\ \A x \in Flights : victim[x] = t =>
              /\ outcome[t] = "entry" /\ retired[t]
              /\ \A y \in Flights : victim[y] = t => y = x

IdleInv ==
    \A t \in Flights :
        /\ idle[t] => Live(t) /\ refs[t] = 0
        /\ Live(t) /\ refs[t] = 0 => idle[t] \/ callbacks[t] > 0

IInv == TypeOK /\ CallerInv /\ PoolInv /\ DialInv /\ CountInv /\ OwnerInv /\ IdleInv

\* Every observer of a dial is answered: by the dial, its timeout, the
\* cancellation of its flight or the closing of the host.
WaitersAnswered == \A c \in Callers : pc[c] = "waiting" ~> pc[c] # "waiting"

\* An idle entry is closed or used again.
IdleReclaimed == \A t \in Flights : t \in IdleEntries ~> t \notin IdleEntries

\* A closed factory ends with no transport open, dials under way included.
ShutdownDrains == closed ~> [](\A t \in Flights : endpoint[t] # "open")
=============================================================================
