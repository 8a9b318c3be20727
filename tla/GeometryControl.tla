--------------------------- MODULE GeometryControl ---------------------------
(***************************************************************************)
(* Who may resize one remote terminal (internal/httpapi/terminal_control.go *)
(* and the stream life cycle of workbench.go).  Browser windows watch the   *)
(* terminal through streams.  One window at a time may hold a lease, which  *)
(* owns a control connection to Herdr; wheel gestures use a short           *)
(* connection of their own when there is no lease.                          *)
(*                                                                          *)
(* Every stream here belongs to a session of its own: streams of different  *)
(* sessions interleave more than streams that share a read loop.  The       *)
(* mutex op of an entry is the predicate Busy: it is held through a stop,   *)
(* an attach and a write, and the short sections under it are one step.     *)
(* A timer of a lease may fire at any time, so a renewal is not modelled.   *)
(***************************************************************************)
EXTENDS Naturals, FiniteSets

CONSTANTS
    Streams,      \* the streams, each opened and closed once
    NoStream,     \* the holder of a lease that was not handed out yet
    MaxLeases,    \* bound on the leases ever handed out
    MaxEntries,   \* bound on the entries ever registered for the terminal
    MaxRuntime,   \* bound on the runtime generations of the Herdr daemon
    MaxSeq,       \* bound on the sequence numbers of resize requests
    Scenarios     \* the sets of outside events considered together

ASSUME GeometryAssumption ==
    /\ NoStream \notin Streams
    /\ IsFiniteSet(Streams)
    /\ {MaxLeases, MaxEntries, MaxRuntime} \subseteq Nat \ {0}
    /\ MaxSeq \in Nat
    /\ Scenarios \subseteq SUBSET {"finish", "close", "session", "runtime", "release", "timer",
                                  "end", "scroll", "resize"}

VARIABLES
    runtime,   \* the runtime generation the sessions see
    entries,   \* the geometryEntry records; refs > 0 while in the registry
    leases,    \* the geometryLease records
    streams,   \* the terminalStream records and their sessions
    acq,       \* where the acquisition of a stream is; one at most is pending
    reader,    \* what the read loop of a stream's session is blocked in
    rel,       \* where each call of release(l) is, by its caller
    target,    \* seq, observed and submitted of a lease
    observer,  \* the status the output loop of a stream is about to write
    wire,      \* the last resize that reached the terminal of an entry
    reports,   \* the resize statuses written to the holder
    told,      \* the last control state published to a stream
    events     \* the kinds of outside events that happen in this behaviour

registryVars == <<runtime, entries>>
controlVars == <<leases, rel, acq, reader>>
resizeVars == <<target, observer, wire, reports>>
moving == <<registryVars, controlVars, streams, resizeVars, told>>
vars == <<moving, events>>

Leases == 1..MaxLeases
Entries == 1..MaxEntries
None == 0
Sources == {"reader", "timer", "done", "closer"}

(***************************************************************************)
(* The state                                                                *)
(***************************************************************************)
EntryType == [runtime : 0..MaxRuntime, refs : 0..Cardinality(Streams),
              lease : 0..MaxLeases, scroll : BOOLEAN]
LeaseType == [holder : Streams \cup {NoStream}, entry : 0..MaxEntries,
              revoked : BOOLEAN, cancelled : BOOLEAN, confirmed : BOOLEAN, armed : BOOLEAN,
              controller : {"none", "live", "closing", "done"}]
StreamType == [up : BOOLEAN, entry : 0..MaxEntries, listed : BOOLEAN,
               closing : BOOLEAN, closed : BOOLEAN,
               removal : {"no", "release", "unref", "over"}]
TargetType == [seq : 0..MaxSeq, observed : BOOLEAN, submitted : BOOLEAN]
ReportType == [submitted : 0..MaxSeq, observed : [1..MaxSeq -> 0..2]]
AcquireStages == {"none", "wait", "stopping", "clear", "opening", "waiting",
                  "checked", "failing", "answer"}
ReaderStages == {"idle", "release", "resize", "writing", "written", "stopping"}
ControlStates == {"none", "available", "pending", "owned", "other", "blocked"}

Init ==
    /\ runtime = 1
    /\ entries = [e \in Entries |-> [runtime |-> 0, refs |-> 0, lease |-> None, scroll |-> FALSE]]
    /\ leases = [l \in Leases |-> [holder |-> NoStream, entry |-> 0, revoked |-> FALSE,
                                   cancelled |-> FALSE, confirmed |-> FALSE, armed |-> FALSE,
                                   controller |-> "none"]]
    /\ streams = [s \in Streams |-> [up |-> TRUE, entry |-> 0, listed |-> FALSE,
                                     closing |-> FALSE, closed |-> FALSE, removal |-> "no"]]
    /\ acq = [s \in Streams |-> "none"]
    /\ reader = [s \in Streams |-> [stage |-> "idle", lease |-> None]]
    /\ rel = [l \in Leases |-> [c \in Sources |-> "no"]]
    /\ target = [l \in Leases |-> [seq |-> 0, observed |-> FALSE, submitted |-> FALSE]]
    /\ observer = [s \in Streams |-> [lease |-> None, seq |-> 0]]
    /\ wire = [e \in Entries |-> [lease |-> None, seq |-> 0]]
    /\ reports = [l \in Leases |-> [submitted |-> 0, observed |-> [q \in 1..MaxSeq |-> 0]]]
    /\ told = [s \in Streams |-> "none"]
    /\ events \in Scenarios

EntryOf(s) == streams[s].entry
CurrentLease(s) == entries[EntryOf(s)].lease
Holds(s, l) == l # None /\ leases[l].holder = s

\* The holder of the mutex op: an acquisition from its first check to its
\* answer, a stopLocked that waits, a resize that writes.
Busy(e) ==
    \/ \E s \in Streams : EntryOf(s) = e /\ acq[s] \notin {"none", "wait", "answer"}
    \/ \E s \in Streams : EntryOf(s) = e /\ reader[s].stage \in {"writing", "written", "stopping"}
    \/ \E l \in Leases : leases[l].entry = e /\ \E c \in Sources : rel[l][c] = "stop"

\* The stream may still be used for control: the session is authorized, the
\* stream is neither closed nor closing, the daemon is the one of the entry.
Unchanged(s) == ~streams[s].closed /\ ~streams[s].closing /\ entries[EntryOf(s)].runtime = runtime
Usable(s) == streams[s].up /\ Unchanged(s)

\* What publish says to stream s.
View(s) ==
    LET l == CurrentLease(s)
    IN  CASE l = None -> "available"
          [] l # None /\ leases[l].revoked -> "blocked"
          [] l # None /\ ~leases[l].revoked /\ ~leases[l].confirmed -> "pending"
          [] l # None /\ ~leases[l].revoked /\ leases[l].confirmed ->
                IF leases[l].holder = s THEN "owned" ELSE "other"

Publish(e) ==
    told' = [s \in Streams |-> IF streams'[s].listed /\ streams'[s].entry = e THEN View(s)' ELSE told[s]]

Revoked(l) == [leases EXCEPT ![l].revoked = TRUE, ![l].cancelled = TRUE]

\* The first half of stopLocked: the lease is revoked, its timer stopped and
\* its controller told to stop.
Stopping(l) ==
    [leases EXCEPT ![l].revoked = TRUE, ![l].cancelled = TRUE, ![l].armed = FALSE,
                   ![l].controller = IF @ = "live" THEN "closing" ELSE @]

\* Fault: the fence is forgotten, the lease leaves at the timeout.
StoppedForgets(l) ==
    IF entries[leases[l].entry].lease = l THEN [entries EXCEPT ![leases[l].entry].lease = None] ELSE entries

\* The second half, when the controller ended or the two seconds are over: a
\* controller that did not end keeps its revoked lease in the entry.
Stopped(l) ==
    IF entries[leases[l].entry].lease = l /\ leases[l].controller \in {"none", "done"}
    THEN [entries EXCEPT ![leases[l].entry].lease = None]
    ELSE entries

(***************************************************************************)
(* Streams: openTerminal, finishStream, closeStream and removeStream        *)
(***************************************************************************)
\* openTerminal with registerGeometry: the entry of the terminal and runtime
\* generation is found in the registry or added; then its state is published.
Register(s) ==
    /\ streams[s].up
    /\ \E e \in Entries :
          /\ \/ entries[e].refs > 0 /\ entries[e].runtime = runtime
             \/ /\ \A f \in Entries : entries[f].refs = 0 \/ entries[f].runtime # runtime
                /\ entries[e].runtime = 0
                /\ \A f \in 1..(e - 1) : entries[f].runtime # 0
          /\ entries' = [entries EXCEPT ![e].runtime = runtime, ![e].refs = @ + 1]
          /\ streams' = [streams EXCEPT ![s].entry = e, ![s].listed = TRUE]
          /\ UNCHANGED leases
          /\ Publish(e)
    /\ UNCHANGED <<runtime, acq, reader, rel, resizeVars>>

\* Fault: a stream is registered again.
OpenAgain(s) == Register(s)

OpenStream(s) == EntryOf(s) = 0 /\ Register(s)

\* finishStream: a lease of the stream is released first; the stream is closed
\* when the accepted input has been sent (CloseStream).
FinishStream(s) ==
    /\ "finish" \in events
    /\ reader[s].stage = "idle" /\ streams[s].up /\ streams[s].listed /\ ~streams[s].closing
    /\ streams' = [streams EXCEPT ![s].closing = TRUE]
    /\ LET l == CurrentLease(s)
       IN  IF Holds(s, l)
           THEN /\ leases' = Revoked(l)
                /\ rel' = [rel EXCEPT ![l]["reader"] = "wait"]
                /\ reader' = [reader EXCEPT ![s] = [stage |-> "release", lease |-> l]]
           ELSE UNCHANGED <<leases, rel, reader>>
    /\ UNCHANGED <<registryVars, acq, resizeVars, told>>

\* closeStream, by whichever cause: the input ended or failed, the observer
\* ended, its canvas could not follow, the snapshot shows another terminal.
CloseStream(s) ==
    /\ "close" \in events \/ (streams[s].closing /\ reader[s].stage = "idle")
    /\ streams[s].listed /\ ~streams[s].closed
    /\ streams' = [streams EXCEPT ![s].closed = TRUE]
    /\ UNCHANGED <<registryVars, controlVars, resizeVars, told>>

\* removeStream and the first part of unregisterGeometry.  The output loop of
\* a session that ended gets here with a stream that is not closed yet.
RemoveStream(s) ==
    /\ streams[s].listed /\ (streams[s].closed \/ ~streams[s].up)
    /\ LET l == CurrentLease(s)
       IN  /\ streams' = [streams EXCEPT ![s].listed = FALSE,
                                         ![s].removal = IF Holds(s, l) THEN "release" ELSE "unref"]
           /\ IF Holds(s, l)
              THEN leases' = Revoked(l) /\ rel' = [rel EXCEPT ![l]["closer"] = "wait"]
              ELSE UNCHANGED <<leases, rel>>
    /\ UNCHANGED <<registryVars, acq, reader, resizeVars, told>>

\* Fault: the last stream leaves the short controller open.
UnrefScrolling(s) ==
    /\ streams[s].removal = "unref" /\ ~Busy(EntryOf(s))
    /\ entries' = [entries EXCEPT ![EntryOf(s)].refs = @ - 1]
    /\ streams' = [streams EXCEPT ![s].removal = "over", ![s].closed = TRUE]
    /\ UNCHANGED <<runtime, controlVars, resizeVars, told>>

\* The last part of unregisterGeometry, under op: the last stream closes the
\* short controller, and the entry leaves the registry with it.
Unref(s) ==
    /\ streams[s].removal = "unref" /\ ~Busy(EntryOf(s))
    /\ entries' = [entries EXCEPT ![EntryOf(s)].refs = @ - 1,
                                  ![EntryOf(s)].scroll = @ /\ entries[EntryOf(s)].refs > 1]
    /\ streams' = [streams EXCEPT ![s].removal = "over", ![s].closed = TRUE]
    /\ UNCHANGED <<runtime, controlVars, resizeVars, told>>

\* The session's context ends (logout, socket closed, server stopping); the
\* contexts of its leases are derived from it.
SessionEnds(s) ==
    /\ "session" \in events
    /\ streams[s].up /\ EntryOf(s) # 0 /\ streams[s].removal # "over"
    /\ streams' = [streams EXCEPT ![s].up = FALSE]
    /\ leases' = [l \in Leases |-> IF leases[l].holder = s THEN [leases[l] EXCEPT !.cancelled = TRUE] ELSE leases[l]]
    /\ UNCHANGED <<registryVars, acq, reader, rel, resizeVars, told>>

\* The daemon was replaced, or the connection to it: runtimeGeneration.
RuntimeChanges ==
    /\ "runtime" \in events
    /\ runtime < MaxRuntime
    /\ runtime' = runtime + 1
    /\ UNCHANGED <<entries, controlVars, streams, resizeVars, told>>

(***************************************************************************)
(* terminal.control.acquire                                                 *)
(***************************************************************************)
SetAcq(s, stage) == acq' = [acq EXCEPT ![s] = stage]

\* Bound: every acquisition on its way still finds a fresh lease.
LeaseLeft ==
    Cardinality({l \in Leases : leases[l].holder = NoStream}) >
    Cardinality({s \in Streams : acq[s] \in {"wait", "stopping", "clear"}})

\* handleGeometry, in a goroutine of its own: op is requested.
RequestAcquire(s) ==
    /\ acq[s] = "none" /\ streams[s].listed /\ Usable(s) /\ LeaseLeft
    /\ SetAcq(s, "wait")
    /\ UNCHANGED <<registryVars, streams, leases, reader, rel, resizeVars, told>>

\* Fault: a revoked lease counts as gone.
StartOverRevoked(s) ==
    /\ acq[s] = "wait" /\ ~Busy(EntryOf(s)) /\ Usable(s)
    /\ CurrentLease(s) # None => leases[CurrentLease(s)].revoked
    /\ SetAcq(s, "clear")
    /\ entries' = [entries EXCEPT ![EntryOf(s)].scroll = FALSE]
    /\ UNCHANGED <<runtime, leases, streams, reader, rel, resizeVars, told>>

\* acquire gets op.  A lease that was not revoked gives way only to a transfer.
StartAcquire(s) ==
    /\ acq[s] = "wait" /\ ~Busy(EntryOf(s))
    /\ LET l == CurrentLease(s)
       IN  \/ /\ ~Usable(s) \/ (l # None /\ ~leases[l].revoked)
              /\ SetAcq(s, "none")
              /\ UNCHANGED <<entries, leases>>
           \/ /\ Usable(s) /\ l # None        \* transfer, or the lease is revoked
              /\ SetAcq(s, "stopping")
              /\ leases' = Stopping(l)
              /\ UNCHANGED entries
           \/ /\ Usable(s) /\ l = None
              /\ SetAcq(s, "clear")
              /\ entries' = [entries EXCEPT ![EntryOf(s)].scroll = FALSE]
              /\ UNCHANGED leases
    /\ UNCHANGED <<runtime, streams, reader, rel, resizeVars, told>>

\* stopLocked of the old lease returned.  If its controller did not end, the
\* acquisition fails; else the short controller is closed and the stream
\* checked again.
OldLeaseStopped(s) ==
    /\ acq[s] = "stopping"
    /\ LET ended == Stopped(CurrentLease(s))
           freed == ended[EntryOf(s)].lease = None
       IN  /\ entries' = [ended EXCEPT ![EntryOf(s)].scroll = @ /\ ~freed]
           /\ SetAcq(s, IF freed /\ Unchanged(s) THEN "clear" ELSE "none")
    /\ UNCHANGED <<runtime, streams, leases, reader, rel, resizeVars, told>>

\* A fresh lease becomes the entry's, and the watchers are told it is pending.
CreateLease(s) ==
    /\ acq[s] = "clear"
    /\ \E l \in Leases :
          /\ leases[l].holder = NoStream
          /\ \A m \in 1..(l - 1) : leases[m].holder # NoStream
          /\ leases' = [leases EXCEPT ![l] = [@ EXCEPT !.holder = s, !.entry = EntryOf(s),
                                                       !.armed = TRUE, !.cancelled = ~streams[s].up]]
          /\ entries' = [entries EXCEPT ![EntryOf(s)].lease = l]
    /\ SetAcq(s, "opening")
    /\ UNCHANGED <<runtime, streams, reader, rel, resizeVars>>
    /\ Publish(EntryOf(s))

\* OpenTerminal returned a process; newGeometryController reads it.
ProcessOpened(s) ==
    /\ acq[s] = "opening"
    /\ leases' = [leases EXCEPT ![CurrentLease(s)].controller = "live"]
    /\ SetAcq(s, "waiting")
    /\ UNCHANGED <<registryVars, streams, reader, rel, resizeVars, told>>

\* The eight seconds of the attach are over.
AttachTimesOut(s) ==
    /\ acq[s] \in {"opening", "waiting"} /\ ~leases[CurrentLease(s)].cancelled
    /\ leases' = [leases EXCEPT ![CurrentLease(s)].cancelled = TRUE]
    /\ UNCHANGED <<registryVars, streams, acq, reader, rel, resizeVars, told>>

\* The first full frame came, and every check that follows it passed.
ControllerReady(s) ==
    LET l == CurrentLease(s)
    IN  /\ acq[s] = "waiting" /\ leases[l].controller # "none"
        /\ streams[s].up /\ ~leases[l].cancelled /\ ~leases[l].revoked
        /\ entries[EntryOf(s)].runtime = runtime
        /\ SetAcq(s, "checked")
        /\ UNCHANGED <<registryVars, streams, leases, reader, rel, resizeVars, told>>

\* Fault: the failed attach is closed but its lease is not revoked.
AcquireFailsUnrevoked(s) ==
    /\ acq[s] \in {"opening", "waiting"}
    /\ SetAcq(s, "failing")
    /\ leases' = [leases EXCEPT ![CurrentLease(s)].controller = IF @ = "live" THEN "closing" ELSE @]
    /\ UNCHANGED <<registryVars, streams, reader, rel, resizeVars, told>>

\* OpenTerminal failed, no frame came, or a check after it failed.
AcquireFails(s) ==
    /\ acq[s] \in {"opening", "waiting"}
    /\ SetAcq(s, "failing")
    /\ leases' = Stopping(CurrentLease(s))
    /\ UNCHANGED <<registryVars, streams, reader, rel, resizeVars, told>>

\* Fault: the error path keeps op.
FailedKeepsOp(s) ==
    /\ acq[s] = "failing" /\ CurrentLease(s) # None
    /\ entries' = Stopped(CurrentLease(s))
    /\ UNCHANGED <<runtime, acq, streams, leases, reader, rel, resizeVars>>
    /\ Publish(EntryOf(s))

FailedLeaseStopped(s) ==
    /\ acq[s] = "failing"
    /\ entries' = Stopped(CurrentLease(s))
    /\ SetAcq(s, "none")
    /\ UNCHANGED <<runtime, streams, leases, reader, rel, resizeVars>>
    /\ Publish(EntryOf(s))

\* The lease is confirmed, whatever happened to it since the checks; op is free.
Confirm(s) ==
    /\ acq[s] = "checked"
    /\ leases' = [leases EXCEPT ![CurrentLease(s)].confirmed = TRUE]
    /\ SetAcq(s, "answer")
    /\ UNCHANGED <<registryVars, streams, reader, rel, resizeVars, told>>

\* Fault: only the window that asked gets an answer.
AnswerOnly(s) ==
    /\ acq[s] = "answer"
    /\ SetAcq(s, "none")
    /\ UNCHANGED <<registryVars, streams, leases, reader, rel, resizeVars, told>>

\* The answer is written, the stream may ask again, the state is published.
AnswerAcquire(s) ==
    /\ acq[s] = "answer"
    /\ SetAcq(s, "none")
    /\ UNCHANGED <<registryVars, streams, leases, reader, rel, resizeVars>>
    /\ Publish(EntryOf(s))

(***************************************************************************)
(* release(l): by a message, by the timer, by the end of the controller, by  *)
(* the removal of the stream.  The lease is revoked before op is waited for. *)
(***************************************************************************)
\* terminal.control.release of the holder.
ReleaseMessage(s) ==
    LET l == CurrentLease(s)
    IN  /\ "release" \in events
        /\ reader[s].stage = "idle" /\ streams[s].listed /\ Usable(s)
        /\ Holds(s, l) /\ ~leases[l].revoked
        /\ leases' = Revoked(l)
        /\ rel' = [rel EXCEPT ![l]["reader"] = "wait"]
        /\ reader' = [reader EXCEPT ![s] = [stage |-> "release", lease |-> l]]
        /\ UNCHANGED <<registryVars, acq, streams, resizeVars, told>>

\* The timer armed with the lease: twenty seconds without a renewal.
TimerFires(l) ==
    /\ "timer" \in events
    /\ leases[l].armed /\ entries[leases[l].entry].lease = l
    /\ rel[l]["timer"] = "no"
    /\ leases' = Revoked(l)
    /\ rel' = [rel EXCEPT ![l]["timer"] = "wait"]
    /\ UNCHANGED <<registryVars, acq, reader, streams, resizeVars, told>>

\* Fault: the end of a controller matters only while its lease is valid.
DoneIfValid(l) ==
    /\ leases[l].confirmed /\ leases[l].controller = "done" /\ ~leases[l].revoked
    /\ rel[l]["done"] = "no"
    /\ leases' = Revoked(l)
    /\ rel' = [rel EXCEPT ![l]["done"] = "wait"]
    /\ UNCHANGED <<registryVars, acq, reader, streams, resizeVars, told>>

\* The goroutine started when the lease was confirmed saw its controller end.
DoneFires(l) ==
    /\ leases[l].confirmed /\ leases[l].controller = "done"
    /\ rel[l]["done"] = "no"
    /\ leases' = Revoked(l)
    /\ rel' = [rel EXCEPT ![l]["done"] = "wait"]
    /\ UNCHANGED <<registryVars, acq, reader, streams, resizeVars, told>>

\* The call returns to its caller.
Return(l, c) ==
    /\ rel' = [rel EXCEPT ![l][c] = IF c \in {"timer", "done"} THEN "over" ELSE "no"]
    /\ reader' = IF c # "reader" THEN reader
                 ELSE [reader EXCEPT ![leases[l].holder] = [stage |-> "idle", lease |-> None]]
    /\ streams' = IF c # "closer" THEN streams
                  ELSE [streams EXCEPT ![leases[l].holder].removal = "unref"]

\* op is taken: only the lease that is still the entry's is stopped.
StartRelease(l, c) ==
    /\ rel[l][c] = "wait" /\ ~Busy(leases[l].entry)
    /\ \/ /\ entries[leases[l].entry].lease = l
          /\ leases' = Stopping(l)
          /\ rel' = [rel EXCEPT ![l][c] = "stop"]
          /\ UNCHANGED <<reader, streams>>
       \/ /\ entries[leases[l].entry].lease # l
          /\ Return(l, c)
          /\ UNCHANGED leases
    /\ UNCHANGED <<registryVars, acq, resizeVars, told>>

ReleasedLeaseStopped(l, c) ==
    /\ rel[l][c] = "stop"
    /\ entries' = Stopped(l)
    /\ rel' = [rel EXCEPT ![l][c] = "publish"]
    /\ UNCHANGED <<runtime, leases, acq, reader, streams, resizeVars, told>>

\* The state is published after op was given back.
PublishRelease(l, c) ==
    /\ rel[l][c] = "publish"
    /\ Return(l, c)
    /\ UNCHANGED <<registryVars, leases, acq, resizeVars>>
    /\ Publish(leases[l].entry)

(***************************************************************************)
(* The control connection                                                   *)
(***************************************************************************)
\* Its context ended: AfterFunc closes the process.
ContextStops(l) ==
    /\ leases[l].controller = "live" /\ leases[l].cancelled
    /\ leases' = [leases EXCEPT ![l].controller = "closing"]
    /\ UNCHANGED <<registryVars, acq, reader, rel, streams, resizeVars, told>>

\* The process ended: because it was closed, or by itself.
ControllerEnds(l) ==
    /\ leases[l].controller = "closing" \/ ("end" \in events /\ leases[l].controller = "live")
    /\ leases' = [leases EXCEPT ![l].controller = "done"]
    /\ UNCHANGED <<registryVars, acq, reader, rel, streams, resizeVars, told>>

(***************************************************************************)
(* terminal.resize_v2 and its statuses                                      *)
(***************************************************************************)
SetReader(s, stage) == reader' = [reader EXCEPT ![s].stage = stage]
ReaderIdle(s) == reader' = [reader EXCEPT ![s] = [stage |-> "idle", lease |-> None]]

\* handleGeometry found the lease valid; resize waits for op.
RequestResize(s) ==
    LET l == CurrentLease(s)
    IN  /\ reader[s].stage = "idle" /\ streams[s].listed /\ Usable(s)
        /\ Holds(s, l) /\ ~leases[l].revoked
        /\ "resize" \in events
        /\ reader' = [reader EXCEPT ![s] = [stage |-> "resize", lease |-> l]]
        /\ UNCHANGED <<registryVars, acq, leases, rel, streams, resizeVars, told>>

\* Fault: a late request is taken for a new one.
Different(l, q) == q # target[l].seq

\* The request is later than the target the lease has.
Newer(l, q) == q > target[l].seq

\* resize got op.  It checks everything again, takes the target and writes.
StartResize(s) ==
    LET l == reader[s].lease
        valid == CurrentLease(s) = l /\ leases[l].confirmed /\ ~leases[l].revoked
    IN  /\ reader[s].stage = "resize" /\ ~Busy(EntryOf(s))
        /\ \/ /\ ~Unchanged(s)                   \* the lease is stopped
              /\ leases' = Stopping(l)
              /\ SetReader(s, "stopping")
              /\ UNCHANGED target
           \/ /\ Unchanged(s) /\ ~valid
              /\ ReaderIdle(s)
              /\ UNCHANGED <<leases, target>>
           \/ /\ Unchanged(s) /\ valid
              /\ \E q \in 1..MaxSeq :
                    \/ /\ ~Newer(l, q)
                       /\ ReaderIdle(s)
                       /\ UNCHANGED target
                    \/ /\ Newer(l, q)
                       /\ target' = [target EXCEPT ![l] = [seq |-> q, observed |-> FALSE, submitted |-> FALSE]]
                       /\ IF streams[s].up /\ ~leases[l].cancelled THEN SetReader(s, "writing") ELSE ReaderIdle(s)
              /\ UNCHANGED leases
        /\ UNCHANGED <<registryVars, acq, rel, streams, observer, wire, reports, told>>

\* The command is on its way to Herdr, and the holder is told it was submitted.
ResizeWritten(s) ==
    LET l == reader[s].lease
    IN  /\ reader[s].stage = "writing" /\ leases[l].controller \in {"live", "closing"}
        /\ wire' = [wire EXCEPT ![EntryOf(s)] = [lease |-> l, seq |-> target[l].seq]]
        /\ reports' = [reports EXCEPT ![l].submitted = target[l].seq]
        /\ SetReader(s, "written")
        /\ UNCHANGED <<registryVars, acq, leases, rel, streams, target, observer, told>>

\* The write failed; it may have reached Herdr all the same.
ResizeFails(s) ==
    LET l == reader[s].lease
    IN  /\ reader[s].stage = "writing"
        /\ wire' \in {wire, [wire EXCEPT ![EntryOf(s)] = [lease |-> l, seq |-> target[l].seq]]}
        /\ leases' = Stopping(l)
        /\ SetReader(s, "stopping")
        /\ UNCHANGED <<registryVars, acq, rel, streams, target, observer, reports, told>>

\* submitted is recorded, and a frame that came earlier is reported now.
ResizeSubmitted(s) ==
    LET l == reader[s].lease
        q == target[l].seq
    IN  /\ reader[s].stage = "written"
        /\ target' = [target EXCEPT ![l].submitted = TRUE]
        /\ reports' = IF ~target[l].observed THEN reports
                      ELSE [reports EXCEPT ![l].observed[q] = IF @ = 2 THEN 2 ELSE @ + 1]
        /\ ReaderIdle(s)
        /\ UNCHANGED <<registryVars, acq, leases, rel, streams, observer, wire, told>>

\* The lease of a resize that failed was stopped.
ResizeLeaseStopped(s) ==
    /\ reader[s].stage = "stopping"
    /\ entries' = Stopped(reader[s].lease)
    /\ ReaderIdle(s)
    /\ UNCHANGED <<runtime, acq, leases, rel, streams, resizeVars>>
    /\ Publish(EntryOf(s))

\* Fault: a frame of the target's size is reported whether or not the write
\* has returned.
ObserveAtOnce(s) ==
    LET l == CurrentLease(s)
    IN  /\ streams[s].entry # 0 /\ observer[s].lease = None /\ Holds(s, l)
        /\ leases[l].confirmed /\ ~leases[l].revoked
        /\ target[l].seq # 0 /\ ~target[l].observed
        /\ target' = [target EXCEPT ![l].observed = TRUE]
        /\ observer' = [observer EXCEPT ![s] = [lease |-> l, seq |-> target[l].seq]]
        /\ UNCHANGED <<registryVars, controlVars, streams, wire, reports, told>>

\* geometryObserved: the output loop got a frame of the target's size.  The
\* status is written after the entry's lock was given back.
Observe(s) ==
    LET l == CurrentLease(s)
    IN  /\ streams[s].entry # 0 /\ observer[s].lease = None /\ Holds(s, l)
        /\ leases[l].confirmed /\ ~leases[l].revoked
        /\ target[l].seq # 0 /\ ~target[l].observed
        /\ target' = [target EXCEPT ![l].observed = TRUE]
        /\ observer' = IF target[l].submitted
                       THEN [observer EXCEPT ![s] = [lease |-> l, seq |-> target[l].seq]]
                       ELSE observer
        /\ UNCHANGED <<registryVars, controlVars, streams, wire, reports, told>>

ReportObserved(s) ==
    LET l == observer[s].lease
    IN  /\ l # None
        /\ reports' = [reports EXCEPT ![l].observed[observer[s].seq] = IF @ = 2 THEN 2 ELSE @ + 1]
        /\ observer' = [observer EXCEPT ![s] = [lease |-> None, seq |-> 0]]
        /\ UNCHANGED <<registryVars, controlVars, streams, target, wire, told>>

(***************************************************************************)
(* terminal.scroll: through the lease's controller, which changes nothing    *)
(* here, or through the short controller of the entry.                       *)
(***************************************************************************)
Scroll(s) ==
    /\ "scroll" \in events
    /\ streams[s].listed /\ ~Busy(EntryOf(s)) /\ Usable(s) /\ CurrentLease(s) = None
    /\ ~entries[EntryOf(s)].scroll
    /\ entries' = [entries EXCEPT ![EntryOf(s)].scroll = TRUE]
    /\ UNCHANGED <<runtime, controlVars, streams, resizeVars, told>>

\* The short controller is released after its idle gap, or ended by itself.
ScrollEnds(e) ==
    /\ entries[e].scroll
    /\ entries' = [entries EXCEPT ![e].scroll = FALSE]
    /\ UNCHANGED <<runtime, controlVars, streams, resizeVars, told>>

(***************************************************************************)
(* The specification                                                        *)
(***************************************************************************)
StreamStep(s) ==
    \/ OpenStream(s) \/ FinishStream(s) \/ CloseStream(s) \/ RemoveStream(s) \/ Unref(s)
    \/ SessionEnds(s) \/ Scroll(s)
AcquireStep(s) ==
    \/ RequestAcquire(s) \/ StartAcquire(s) \/ OldLeaseStopped(s) \/ CreateLease(s)
    \/ ProcessOpened(s) \/ AttachTimesOut(s) \/ ControllerReady(s) \/ AcquireFails(s)
    \/ FailedLeaseStopped(s) \/ Confirm(s) \/ AnswerAcquire(s)
ReaderStep(s) ==
    \/ ReleaseMessage(s) \/ RequestResize(s) \/ StartResize(s) \/ ResizeWritten(s)
    \/ ResizeFails(s) \/ ResizeSubmitted(s) \/ ResizeLeaseStopped(s)
    \/ Observe(s) \/ ReportObserved(s)
LeaseStep(l) == TimerFires(l) \/ DoneFires(l) \/ ContextStops(l) \/ ControllerEnds(l)
ReleaseStep(l, c) == StartRelease(l, c) \/ ReleasedLeaseStopped(l, c) \/ PublishRelease(l, c)

Next ==
    /\ \/ RuntimeChanges
       \/ \E e \in Entries : ScrollEnds(e)
       \/ \E s \in Streams : StreamStep(s) \/ AcquireStep(s) \/ ReaderStep(s)
       \/ \E l \in Leases : LeaseStep(l) \/ \E c \in Sources : ReleaseStep(l, c)
    /\ UNCHANGED events

Spec == Init /\ [][Next]_vars

(***************************************************************************)
(* Fairness.  Every step the program owes to itself is taken if it stays    *)
(* possible; a call that waits for op need not get it while others keep      *)
(* taking it.  A process that was closed ends, an attach answers or fails    *)
(* within its eight seconds, a stop within two, a write within five.  A      *)
(* window that is gone does not renew its lease, so its timer fires.  Nobody *)
(* has to open, acquire, resize or close anything.                           *)
(***************************************************************************)
AcquireGoesOn(s) ==
    \/ OldLeaseStopped(s) \/ CreateLease(s) \/ ProcessOpened(s) \/ ControllerReady(s) \/ AcquireFails(s)
    \/ FailedLeaseStopped(s) \/ Confirm(s) \/ AnswerAcquire(s)
ReaderGoesOn(s) ==
    ResizeWritten(s) \/ ResizeFails(s) \/ ResizeSubmitted(s) \/ ResizeLeaseStopped(s) \/ ReportObserved(s)
ControllerGoesOn(l) ==
    ContextStops(l) \/ DoneFires(l) \/ (leases[l].controller = "closing" /\ ControllerEnds(l))
ReleaseGoesOn(l) == \E c \in Sources : ReleasedLeaseStopped(l, c) \/ PublishRelease(l, c)
NobodyRenews(l) == leases[l].holder # NoStream /\ ~streams[leases[l].holder].listed

Progress ==
    /\ \A s \in Streams :
          /\ WF_moving(RemoveStream(s)) /\ WF_moving(Unref(s))
          /\ WF_moving(StartAcquire(s)) /\ WF_moving(AcquireGoesOn(s))
          /\ WF_moving(StartResize(s)) /\ WF_moving(ReaderGoesOn(s))
    /\ \A l \in Leases :
          /\ WF_moving(ControllerGoesOn(l))
          /\ WF_moving(NobodyRenews(l) /\ TimerFires(l))
          /\ WF_moving(\E c \in Sources : StartRelease(l, c)) /\ WF_moving(ReleaseGoesOn(l))

FairSpec == Spec /\ Progress

(***************************************************************************)
(* Properties                                                               *)
(***************************************************************************)
\* Every variable has its type.
TypeOK ==
    /\ runtime \in 1..MaxRuntime
    /\ entries \in [Entries -> EntryType]
    /\ leases \in [Leases -> LeaseType]
    /\ streams \in [Streams -> StreamType]
    /\ acq \in [Streams -> AcquireStages]
    /\ reader \in [Streams -> [stage : ReaderStages, lease : 0..MaxLeases]]
    /\ rel \in [Leases -> [Sources -> {"no", "wait", "stop", "publish", "over"}]]
    /\ target \in [Leases -> TargetType]
    /\ observer \in [Streams -> [lease : 0..MaxLeases, seq : 0..MaxSeq]]
    /\ wire \in [Entries -> [lease : 0..MaxLeases, seq : 0..MaxSeq]]
    /\ reports \in [Leases -> ReportType]
    /\ told \in [Streams -> ControlStates]

Attached(l) == leases[l].controller \in {"live", "closing"}

\* An entry has one connection to Herdr at most that controls the terminal: the
\* controller of one lease, even while it is being closed, or the short one.
OneAttachment ==
    \A e \in Entries :
        /\ \A l, m \in Leases :
              l # m /\ leases[l].entry = e /\ Attached(l) => ~ (leases[m].entry = e /\ Attached(m))
        /\ entries[e].scroll => \A l \in Leases : leases[l].entry = e => ~Attached(l)

\* Whoever finds op free and a lease that is not revoked may write to its
\* controller: geometryScroll does so without another check.
RoutableLease ==
    \A e \in Entries :
        LET l == entries[e].lease
        IN  l # None /\ ~leases[l].revoked /\ ~Busy(e)
                => leases[l].confirmed /\ leases[l].controller # "none"

\* The registry forgets an entry with its last stream, not earlier, and a
\* forgotten entry has no short controller, which nobody could close.
RegistryOwnsScroll ==
    \A e \in Entries :
        /\ entries[e].refs = Cardinality({s \in Streams : EntryOf(s) = e /\ streams[s].removal # "over"})
        /\ entries[e].refs = 0 => ~entries[e].scroll

\* Nothing of entry e is under way.
Settled(e) ==
    /\ \A s \in Streams : EntryOf(s) = e =>
          /\ acq[s] = "none" /\ reader[s].stage = "idle" /\ streams[s].removal \in {"no", "over"}
          /\ streams[s].listed => streams[s].up /\ ~streams[s].closed
    /\ \A l \in Leases : leases[l].entry = e =>
          /\ \A c \in Sources : rel[l][c] \in {"no", "over"}
          /\ leases[l].controller # "closing"
          /\ leases[l].controller = "live" => ~leases[l].cancelled
          /\ leases[l].confirmed /\ leases[l].controller = "done" => rel[l]["done"] = "over"

\* When everything has settled and there is a lease, every window was told so:
\* the holder that it has control, the others that another window has it.
HolderIsTold ==
    \A s \in Streams :
        streams[s].listed /\ CurrentLease(s) # None /\ Settled(EntryOf(s)) => told[s] = View(s)

\* "observed" is reported after "submitted" of the same request, and once.
ReportedInOrder ==
    \A l \in Leases, q \in 1..MaxSeq :
        /\ reports[l].observed[q] > 0 => q <= reports[l].submitted
        /\ reports[l].observed[q] <= 1

\* An entry lets go of a lease only when it is revoked and its controller ended.
HandoverAfterEnd ==
    [][\A e \in Entries :
          LET l == entries[e].lease
          IN  l # None /\ entries'[e].lease # l
                => leases[l].revoked /\ leases[l].controller \in {"none", "done"}]_vars

\* Requests reach the terminal in order: those of an earlier lease before those
\* of a later one, those of one lease by their sequence number.
ResizeInOrder ==
    [][\A e \in Entries :
          \/ wire'[e] = wire[e]
          \/ wire'[e].lease > wire[e].lease
          \/ wire'[e].lease = wire[e].lease /\ wire'[e].seq > wire[e].seq]_wire

\* The size of a terminal has one controller, which is told what it holds and
\* answered in order.
SizeIsControlled ==
    OneAttachment /\ RoutableLease /\ HolderIsTold /\ RegistryOwnsScroll /\ ReportedInOrder

\* A lease is handed over after the one before has ended, and resizes reach
\* the terminal in order.
HandoverInOrder == HandoverAfterEnd /\ ResizeInOrder

\* An acquisition ends, whatever the others and Herdr do.
AcquireEnds == \A s \in Streams : acq[s] = "wait" ~> acq[s] = "none"

\* A lease that was confirmed and then revoked leaves its entry.
RevokedLeaves ==
    \A l \in Leases :
        leases[l].confirmed /\ leases[l].revoked ~>
            ~ (leases[l].holder # NoStream /\ entries[leases[l].entry].lease = l)

\* A window that was closed has no control left when it is gone.
ClosedIsReleased ==
    \A s \in Streams : streams[s].removal = "over" =>
        ~ \E l \in Leases : leases[l].holder = s /\ entries[leases[l].entry].lease = l /\ ~leases[l].revoked

=============================================================================
