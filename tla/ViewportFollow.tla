--------------------------- MODULE ViewportFollow ---------------------------
(***************************************************************************)
(* How the canvases of the observers of one terminal follow its size:      *)
(* internal/httpapi/terminal_viewport.go over the entry of                 *)
(* terminal_control.go, and internal/herdr/native_observe.go.              *)
(*                                                                         *)
(* While a window holds the size, its controller tells what it rendered.   *)
(* Otherwise one probe at a time reads the size on the host.  Both go      *)
(* through a queue of one for each observer.  Every size carries when it   *)
(* was read: the number of leases that had been given by then.             *)
(***************************************************************************)
EXTENDS Integers

CONSTANTS
    Streams,    \* observers of the terminal
    Sizes,
    Empty,      \* an empty queue, or no size
    MaxLeases   \* bound: leases on the size

VARIABLES
    size,           \* of the terminal on the host
    leases,         \* leases given so far
    lease,          \* entry.lease: its number, 0 for none
    controllerSize, \* entry.controllerSize
    rendered,       \* what a controller is about to report
    revision,       \* entry.viewportRevision
    probe,          \* entry.probing and the running probe
    watcher,        \* entry.watchers, and streams that were closed
    queue,          \* viewportRequests
    canvas          \* what each observer's canvas was set to

viewportVars == <<size, leases, lease, controllerSize, rendered, revision, probe,
                  watcher, queue, canvas>>
entry == <<leases, lease, controllerSize, revision>>

Reading == [size : Sizes, when : 0..MaxLeases]
NoProbe == [at |-> "none"]
NotRendered == [lease |-> 0, size |-> Empty]

\* What the constants have to be: an instance assumes it.
ViewportAssumption == MaxLeases \in Nat /\ Empty \notin Sizes \cup Reading

\* The types of all variables.
ViewportTypeOK ==
    /\ size \in Sizes /\ leases \in 0..MaxLeases /\ lease \in 0..leases
    /\ controllerSize \in Sizes \cup {Empty} /\ revision \in 0..2 * MaxLeases
    /\ rendered \in [lease : 0..MaxLeases, size : Sizes \cup {Empty}]
    /\ probe.at \in {"none", "started", "read"}
    /\ watcher \in [Streams -> {"absent", "opened", "watching", "closed"}]
    /\ queue \in [Streams -> Reading \cup {Empty}]
    /\ canvas \in [Streams -> Reading \cup {Empty}]

ViewportInit ==
    /\ size \in Sizes /\ leases = 0 /\ lease = 0 /\ controllerSize = Empty
    /\ rendered = NotRendered /\ revision = 0 /\ probe = NoProbe
    /\ watcher = [s \in Streams |-> "absent"]
    /\ queue = [s \in Streams |-> Empty] /\ canvas = [s \in Streams |-> Empty]

\* TerminalGeometry, or what a controller was told.
ReadNow(x) == [size |-> x, when |-> leases]

\* queueViewport: the newest size replaces one that waits.
QueueAll(reading) ==
    queue' = [s \in Streams |-> IF watcher[s] = "watching" THEN reading ELSE queue[s]]

\* ResizeViewport changes the canvas alone: no control, no input.
SetCanvas(s, reading) == canvas' = [canvas EXCEPT ![s] = reading]

\* openObserver reads the size before it opens the canvas.
Open(s) ==
    /\ watcher[s] = "absent"
    /\ watcher' = [watcher EXCEPT ![s] = "opened"]
    /\ SetCanvas(s, ReadNow(size))
    /\ UNCHANGED <<size, entry, rendered, probe, queue>>

\* registerGeometry
Watch(s) ==
    /\ watcher[s] = "opened"
    /\ watcher' = [watcher EXCEPT ![s] = "watching"]
    /\ queue' = IF lease # 0 /\ controllerSize # Empty
                THEN [queue EXCEPT ![s] = ReadNow(controllerSize)] ELSE queue
    /\ UNCHANGED <<size, entry, rendered, probe, canvas>>

\* Everything that closes a stream, a canvas that cannot be resized too.
Close(s) ==
    /\ watcher[s] \in {"opened", "watching"}
    /\ watcher' = [watcher EXCEPT ![s] = "closed"]
    /\ queue' = [queue EXCEPT ![s] = Empty]
    /\ UNCHANGED <<size, entry, rendered, probe, canvas>>

\* startViewportSync: one write at a time, none for the same size.
Follow(s) ==
    /\ watcher[s] = "watching" /\ queue[s] # Empty
    /\ SetCanvas(s, queue[s])
    /\ queue' = [queue EXCEPT ![s] = Empty]
    /\ UNCHANGED <<size, entry, rendered, probe, watcher>>

\* A terminal program outside, while nobody holds the size.
NativeResize(x) ==
    /\ lease = 0 /\ x # size /\ size' = x
    /\ UNCHANGED <<entry, rendered, probe, watcher, queue, canvas>>

\* acquire
Acquire ==
    /\ lease = 0 /\ leases < MaxLeases
    /\ leases' = leases + 1 /\ lease' = leases + 1
    /\ revision' = revision + 1 /\ controllerSize' = Empty
    /\ UNCHANGED <<size, rendered, probe, watcher, queue, canvas>>

\* stopLocked
Release ==
    /\ lease # 0 /\ lease' = 0 /\ revision' = revision + 1
    /\ UNCHANGED <<size, leases, controllerSize, rendered, probe, watcher, queue, canvas>>

\* The controller resizes the terminal; its frame arrives later.
ControllerResize(x) ==
    /\ lease # 0 /\ rendered = NotRendered
    /\ size' = x /\ rendered' = [lease |-> lease, size |-> x]
    /\ UNCHANGED <<entry, probe, watcher, queue, canvas>>

\* controllerViewport
ControllerViewport ==
    /\ rendered # NotRendered /\ rendered' = NotRendered
    /\ IF lease = rendered.lease
       THEN controllerSize' = rendered.size /\ QueueAll(ReadNow(rendered.size))
       ELSE UNCHANGED <<controllerSize, queue>>
    /\ UNCHANGED <<size, leases, lease, revision, probe, watcher, canvas>>

\* refreshViewports, with every snapshot of every session.
StartProbe(s) ==
    /\ watcher[s] = "watching" /\ lease = 0 /\ probe = NoProbe
    /\ probe' = [at |-> "started", stream |-> s, revision |-> revision]
    /\ UNCHANGED <<size, entry, rendered, watcher, queue, canvas>>

ReadSize ==
    /\ probe.at = "started"
    /\ probe' = [at |-> "read", stream |-> probe.stream, revision |-> probe.revision,
                 reading |-> ReadNow(size)]
    /\ UNCHANGED <<size, entry, rendered, watcher, queue, canvas>>

\* Fault: a lease that came and went is not noticed.
StillFree(p) == lease = 0 /\ watcher[p.stream] = "watching"

\* What the answer of a probe is held against.
StillValid(p) ==
    lease = 0 /\ p.revision = revision /\ watcher[p.stream] = "watching"

AnswerProbe ==
    /\ probe.at = "read" /\ probe' = NoProbe
    /\ IF StillValid(probe) THEN QueueAll(probe.reading) ELSE UNCHANGED queue
    /\ UNCHANGED <<size, entry, rendered, watcher, canvas>>

\* No answer within three seconds.
ProbeFails ==
    /\ probe # NoProbe /\ probe' = NoProbe
    /\ UNCHANGED <<size, entry, rendered, watcher, queue, canvas>>

ViewportNext ==
    \/ \E s \in Streams : Open(s) \/ Watch(s) \/ Close(s) \/ Follow(s) \/ StartProbe(s)
    \/ \E x \in Sizes : NativeResize(x) \/ ControllerResize(x)
    \/ Acquire \/ Release \/ ControllerViewport \/ ReadSize \/ AnswerProbe \/ ProbeFails

ViewportSpec == ViewportInit /\ [][ViewportNext]_viewportVars

-----------------------------------------------------------------------------
\* A canvas never goes back to a size that was read before a lease whose
\* size it already showed, or that was given since: a probe that answers
\* late, a controller that reports after its end and a queue of one do not
\* reorder what the observers see (controllerViewport, refreshViewports).
ViewportNeverGoesBack ==
    [][\A s \in Streams : canvas[s] # Empty =>
        canvas'[s] # Empty /\ canvas'[s].when >= canvas[s].when]_viewportVars

-----------------------------------------------------------------------------
\* What a canvas shows and what waits for it were read in this order, and
\* not later than now.
CanvasFits(s) ==
    /\ canvas[s] # Empty => canvas[s].when <= leases
    /\ queue[s] # Empty =>
        queue[s].when <= leases /\ canvas[s] # Empty /\ canvas[s].when <= queue[s].when
    /\ watcher[s] = "absent" <=> canvas[s] = Empty

\* A probe that would still be valid was read under the leases of now.
ProbeFits ==
    /\ probe.at # "none" => probe.revision \in 0..revision
    /\ probe.at = "read" =>
        probe.reading \in Reading /\ (probe.revision = revision => probe.reading.when = leases)

\* The inductive invariant: revision counts what was given and released.
ViewportInv ==
    /\ ViewportTypeOK
    /\ rendered # NotRendered => rendered.size # Empty
    /\ lease \in {0, leases} /\ revision = 2 * leases - (IF lease = 0 THEN 0 ELSE 1)
    /\ ProbeFits /\ \A s \in Streams : CanvasFits(s)
=============================================================================
