--------------------------- MODULE WorkbenchFeed ---------------------------
(***************************************************************************)
(* How a workbench session follows the workspace of Herdr: the snapshots   *)
(* of internal/httpapi/workbench.go (sendSnapshot, pollSnapshots,          *)
(* watchEvents) and the event subscription of internal/herdr/events.go.    *)
(*                                                                         *)
(* Three goroutines take snapshots of one session: the poller, the read    *)
(* loop after a call and the watcher of events.  A snapshot is fetched,    *)
(* stored and written in steps, so an older one may overtake a newer one.  *)
(* The workspace is the number of the set of panes with an agent and the   *)
(* number of everything else; both only count changes.                     *)
(***************************************************************************)
EXTENDS Integers

CONSTANTS
    MaxFailures,    \* snapshots that may fail in a row
    QuickRetries,   \* attempts to subscribe without a pause
    MaxChanges      \* bound: changes of each kind

\* What the constants have to be: an instance assumes it.
FeedAssumption == {MaxFailures, QuickRetries, MaxChanges} \subseteq Nat

VARIABLES
    world,      \* Herdr's workspace
    news,       \* Herdr has an event for the stream
    connected,  \* the session's context
    snapshot,   \* session.snapshot
    shown,      \* the last snapshot that was written to the browser
    sender,     \* the sendSnapshot of each goroutine
    poller,     \* where pollSnapshots stands
    failures,   \* its snapshots that failed in a row
    timer,      \* its timer runs or has fired
    live, kick, \* snapshotEvents
    watch,      \* where watchEvents stands
    panes,      \* snapshotEvents.panes, and what the subscription asked for
    resub,      \* "none", "set", or "called" when the subscription must end
    quick       \* quickRetries

watchVars == <<live, watch, panes, resub, quick>>
pollVars == <<poller, failures, timer>>
feedVars == <<world, news, connected, snapshot, shown, sender, pollVars, kick, watchVars>>

Senders == {"poll", "call", "watch"}
Worlds == [panes : 0..MaxChanges, rest : 0..MaxChanges]
Quiet == [at |-> "idle", of |-> [panes |-> 0, rest |-> 0]]

\* The types of all variables.
FeedTypeOK ==
    /\ {world, snapshot, shown} \subseteq Worlds
    /\ {news, connected, live, kick} \subseteq BOOLEAN
    /\ sender \in [Senders -> [at : {"idle", "fetch", "store", "write"}, of : Worlds]]
    /\ poller \in {"wait", "coalesce", "send", "off"} /\ failures \in 0..MaxFailures
    /\ timer \in BOOLEAN
    /\ watch \in {"read", "register", "subscribe", "stream", "ended", "refresh", "backoff", "off"}
    /\ panes \in 0..MaxChanges /\ resub \in {"none", "set", "called"} /\ quick \in 0..QuickRetries

\* The first snapshot has been written.
FeedInit ==
    /\ world = [panes |-> 0, rest |-> 0] /\ snapshot = world /\ shown = world
    /\ news = FALSE /\ connected = TRUE
    /\ sender = [s \in Senders |-> Quiet]
    /\ poller = "wait" /\ failures = 0 /\ timer = TRUE
    /\ live = FALSE /\ kick = FALSE
    /\ watch = "read" /\ panes = 0 /\ resub = "none" /\ quick = 0

\* Lifecycle events come for everything; the status of an agent is only
\* published for the panes that were asked for.
Change(kind) ==
    /\ world[kind] < MaxChanges
    /\ world' = [world EXCEPT ![kind] = @ + 1]
    /\ news' = (news \/ (watch = "stream" /\ (kind = "panes" \/ panes = world.panes)))
    /\ UNCHANGED <<connected, snapshot, shown, sender, pollVars, kick, watchVars>>

Disconnect ==
    /\ connected /\ connected' = FALSE
    /\ UNCHANGED <<world, news, snapshot, shown, sender, pollVars, kick, watchVars>>

(***************************************************************************)
(* sendSnapshot                                                            *)
(***************************************************************************)
Sender(s, at, of) == sender' = [sender EXCEPT ![s] = [at |-> at, of |-> of]]
Begin(s) == sender' = [sender EXCEPT ![s] = [Quiet EXCEPT !.at = "fetch"]]

Fetch(s) ==
    /\ connected /\ sender[s].at = "fetch" /\ Sender(s, "store", world)
    /\ UNCHANGED <<world, news, connected, snapshot, shown, pollVars, kick, watchVars>>

\* Fault: the subscription stays as it was.
ObserveNothing(of) == UNCHANGED <<panes, resub>>

\* snapshotEvents.observe
Observe(of) ==
    IF resub = "none" \/ panes = of.panes THEN UNCHANGED <<panes, resub>>
    ELSE panes' = of.panes /\ resub' = "called"

\* updateGeometrySnapshot, then observe.
Store(s) ==
    /\ sender[s].at = "store" /\ Sender(s, "write", sender[s].of)
    /\ snapshot' = sender[s].of /\ Observe(sender[s].of)
    /\ UNCHANGED <<world, news, connected, shown, pollVars, kick, live, watch, quick>>

Write(s) ==
    /\ sender[s].at = "write" /\ sender' = [sender EXCEPT ![s] = Quiet]
    /\ shown' = IF connected THEN sender[s].of ELSE shown
    /\ UNCHANGED <<world, news, connected, snapshot, pollVars, kick, watchVars>>

\* The read loop after a call of the user.
CallSends ==
    /\ connected /\ sender["call"].at = "idle" /\ Begin("call")
    /\ UNCHANGED <<world, news, connected, snapshot, shown, pollVars, kick, watchVars>>

\* Herdr does not answer; the poller counts it below.
Fails(s) ==
    /\ s # "poll" /\ sender[s].at = "fetch" /\ sender' = [sender EXCEPT ![s] = Quiet]
    /\ UNCHANGED <<world, news, connected, snapshot, shown, pollVars, kick, watchVars>>

(***************************************************************************)
(* pollSnapshots                                                           *)
(***************************************************************************)
Kicked ==
    /\ connected /\ poller = "wait" /\ kick /\ kick' = FALSE /\ poller' = "coalesce"
    /\ UNCHANGED <<world, news, connected, snapshot, shown, sender, failures, timer, watchVars>>

\* A burst becomes one snapshot.
Coalesce ==
    /\ poller = "coalesce" /\ kick' = FALSE /\ poller' = "send"
    /\ Begin("poll")
    /\ UNCHANGED <<world, news, connected, snapshot, shown, failures, timer, watchVars>>

TimerFires ==
    /\ connected /\ poller = "wait" /\ timer /\ timer' = FALSE /\ poller' = "send"
    /\ Begin("poll")
    /\ UNCHANGED <<world, news, connected, snapshot, shown, failures, kick, watchVars>>

\* Fault: the next poll waits for an event.
NoTimer == UNCHANGED timer

\* Two seconds, or ten while a subscription is live.
ResetTimer == timer' = TRUE

Polled ==
    /\ poller = "send" /\ sender["poll"].at = "idle"
    /\ poller' = "wait" /\ failures' = 0 /\ ResetTimer
    /\ UNCHANGED <<world, news, connected, snapshot, shown, sender, kick, watchVars>>

\* Three failures in a row end the connection; the browser opens a new one.
PollFails ==
    /\ poller = "send" /\ sender["poll"].at \in {"fetch", "write"}
    /\ sender' = [sender EXCEPT !["poll"] = Quiet]
    /\ IF ~connected THEN poller' = "off" /\ UNCHANGED <<failures, timer, connected>>
       ELSE IF failures + 1 = MaxFailures
       THEN poller' = "off" /\ failures' = MaxFailures /\ connected' = FALSE /\ UNCHANGED timer
       ELSE poller' = "wait" /\ failures' = failures + 1 /\ ResetTimer /\ UNCHANGED connected
    /\ UNCHANGED <<world, news, snapshot, shown, kick, watchVars>>

PollerLeaves ==
    /\ ~connected /\ poller \in {"wait", "coalesce"} /\ poller' = "off"
    /\ UNCHANGED <<world, news, connected, snapshot, shown, sender, failures, timer,
                   kick, watchVars>>

(***************************************************************************)
(* watchEvents                                                             *)
(***************************************************************************)
Watches(to) ==
    /\ watch' = to
    /\ UNCHANGED <<world, connected, snapshot, shown, pollVars>>

\* The panes are read under one lock and registered under another.
ReadPanes ==
    /\ connected /\ watch = "read" /\ Watches("register") /\ panes' = snapshot.panes
    /\ UNCHANGED <<news, sender, kick, live, resub, quick>>

Register ==
    /\ watch = "register" /\ Watches("subscribe") /\ resub' = "set"
    /\ UNCHANGED <<news, sender, kick, live, panes, quick>>

\* subscription_started
Subscribed ==
    /\ watch = "subscribe" /\ resub = "set" /\ connected /\ Watches("stream")
    /\ live' = TRUE /\ kick' = TRUE /\ news' = FALSE
    /\ UNCHANGED <<sender, panes, resub, quick>>

Event ==
    /\ watch = "stream" /\ news /\ news' = FALSE /\ kick' = TRUE
    /\ Watches(watch) /\ UNCHANGED <<sender, live, panes, resub, quick>>

\* SubscribeEvents returns: canceled, refused, lost or ended.  What was
\* missed is fetched at once.
StreamEnds ==
    /\ watch \in {"subscribe", "stream"} /\ Watches("ended")
    /\ live' = FALSE /\ kick' = (kick \/ live) /\ news' = FALSE
    /\ quick' = IF watch = "stream" THEN 0 ELSE quick
    /\ UNCHANGED <<sender, panes, resub>>

\* Canceled for other panes: again at once.  A pane that is gone: a new
\* snapshot first, three times.  Otherwise after a while, or never again.
NextAttempt ==
    /\ watch = "ended" /\ resub' = "none"
    /\ \/ ~connected /\ Watches("off") /\ UNCHANGED <<quick, sender>>
       \/ connected /\ resub = "called" /\ Watches("read") /\ UNCHANGED <<quick, sender>>
       \/ /\ connected /\ resub # "called" /\ panes # world.panes /\ quick < QuickRetries
          /\ Watches("refresh") /\ quick' = quick + 1 /\ Begin("watch")
       \/ connected /\ resub # "called" /\ Watches("backoff") /\ UNCHANGED <<quick, sender>>
       \/ connected /\ Watches("off") /\ UNCHANGED <<quick, sender>>
    /\ UNCHANGED <<news, kick, live, panes>>

Refreshed ==
    /\ watch = "refresh" /\ sender["watch"].at = "idle" /\ Watches("read")
    /\ UNCHANGED <<news, sender, kick, live, panes, resub, quick>>

AfterBackoff ==
    /\ watch = "backoff" /\ Watches("read")
    /\ UNCHANGED <<news, sender, kick, live, panes, resub, quick>>

Sends(s) == Fetch(s) \/ Store(s) \/ Write(s)
Poller == Kicked \/ Coalesce \/ TimerFires \/ Polled \/ PollFails \/ PollerLeaves
\* What watchEvents does by itself; Herdr decides when a stream ends.
Watcher ==
    \/ ReadPanes \/ Register \/ Event \/ NextAttempt \/ Refreshed \/ AfterBackoff
    \/ (resub = "called" \/ ~connected) /\ StreamEnds

FeedNext ==
    \/ Poller \/ Watcher \/ Subscribed \/ StreamEnds \/ CallSends \/ Disconnect
    \/ \E s \in Senders : Sends(s) \/ Fails(s)
    \/ \E kind \in {"panes", "rest"} : Change(kind)

\* The goroutines run, a snapshot is answered or fails within ten seconds, a
\* subscription is accepted or ends.
FeedFairness ==
    /\ WF_feedVars(Poller) /\ WF_feedVars(Watcher)
    /\ WF_feedVars(watch = "subscribe" /\ (Subscribed \/ StreamEnds))
    /\ \A s \in Senders : WF_feedVars(Sends(s) \/ Fails(s))
FeedSpec == FeedInit /\ [][FeedNext]_feedVars /\ FeedFairness

-----------------------------------------------------------------------------
\* Once Herdr's workspace rests, a browser that stays connected ends up
\* showing it, and a subscription that is live covers the panes it has:
\* snapshots that overtake each other, a subscription opened for panes that
\* changed meanwhile, lost streams and missed events do not last
\* (pollSnapshots, watchEvents, snapshotEvents.observe).
FeedCatchesUp ==
    <>[](connected => shown = world /\ (live => panes = world.panes /\ resub = "set"))
=============================================================================
