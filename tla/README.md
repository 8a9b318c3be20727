# herdrx in TLA+

herdrx is a self-hosted web client for [Herdr](https://herdr.dev/), a terminal multiplexer
for coding agents. One web server (Go, SQLite) serves many users; each user adds remote
hosts, and a browser window drives the terminals of a host through the server. A host is
reached by SSH or by a *tailcat* tunnel to a daemon (`herdrx`) that runs on it. This
directory keeps the models of the parts whose correctness depends on the order of steps
of several actors, the runs that check them with TLC, and the proofs that TLAPS checks.

Run a model with `tlc -config X.cfg M` and check a proof with `tlapm M.tla` in this
directory; `PROJECT.json` lists the runs, the lines of code behind every definition, the
hazards and the theorems.

Contents: 1 the system · 2 the models · 3 the runs · 4 what is proved · 5 where code and
documents differ · 6 what is left out · 7 what could follow.

## 1. The system

```
 browser windows ──WebSocket/HTTP──▶ httpapi ──▶ hostruntime ──ssh/tailcat──▶ Herdr on a host
        │                              │  (sessions, leases,     (connection     ▲
        │                              │   enrollment worker,      pool)         │ unix socket
        └── polls, push ◀── store ◀────┘   push monitor)                  daemon agentcli/tunnel
                           (SQLite)                                       (binding, endpoints,
                                                                           CLI update)
```

| Part | State | Operations | Hard because | Correct when |
|---|---|---|---|---|
| Connection pool `hostruntime/{factory,pool}.go` | endpoints, flights, failures, references, idle timers | Open, join, dial, cancel, Close of a handle, eviction, invalidate, CloseHost, Close | callers, dial goroutines and timers meet; everything slow runs outside the lock | references are exact, every transport has one owner, the limit holds, nobody waits for ever |
| Agent binding `tunnel/server.go`, `agentcli/{ipc,endpoint}.go` | configuration file (binding, enrollment, epoch), ephemeral and formal SSH endpoint, their connections | connect, prepare, commit, unpair, legacy pair, refresh, restore, watchdog | two-phase protocol over a lossy link; crashes, uncertain writes; requests outlive connections | one controller at a time, one use of a connection string, access that was taken away ends |
| Enrollment `httpapi/enrollment_worker.go`, `store/enrollment.go` | enrollment tasks, host rows | create, worker, mark, commit, finalize, fail | website and agent each crash and lose answers at every step | both agree on who is bound; a bound agent becomes a host |
| Geometry control `httpapi/terminal_control.go`, stream life cycle of `workbench.go` | registry of terminals, leases, controllers, streams | acquire, transfer, renew, release, resize, scroll, timers, close | slow attach and detach under a mutex, callbacks of processes, windows that go at any moment | one connection controls a terminal; requests and reports keep their order; nobody keeps control for ever |
| CLI updater `updater/install.go`, `agentcli/update.go` | stable entry, release store, state.json, service process | update, rollback, recovery, abort | a kill or a failed write at every step | the entry always holds, or can be brought back to, a binary known to work |
| Workbench stream `httpapi/workbench.go`, `herdr/input.go` | streams, credit, input queue | read loop, output loops, input, acknowledge, finish | producers faster than the browser; input must not be replayed | every frame shown is a screen of the terminal; input is sent in order and at most once |
| Workbench snapshots `httpapi/workbench.go`, `herdr/events.go` | last snapshot, poll timer, subscriptions | poll, event, call, resubscribe | three goroutines fetch, store and write; gaps between subscriptions | the snapshot shown last is a current one |
| Terminal canvases `httpapi/terminal_viewport.go` | queue of one size per observer, probe | queue, follow, probe | a late probe after a new lease | a canvas never goes back to an older size |
| Scroll controller `herdr/{scroll,native_scroll}.go` | gesture, connection, idle timer | Send, timer, Close | a timer that fired cannot be stopped | a gesture is not cut off, a quiet one gives control back |
| Workbench position `httpapi,store/workbench_session.go` | one row per user, high-water marks | put, read with cleanup | late, repeated, reordered requests of several pages | the row is the newest position of the page that wrote last |
| Screen view `httpapi/screen.go` | watches, shared reads, shared observer, frames | watch, kick, shared read, diff | windows share reads that others cancel | a reread after input shows a screen read after that input |
| Session starts, prompts, dialogs `httpapi/{sessions,prompt,dialog}.go` | tables of request ids, pane locks | begin, wait, finish | retries and capacity eviction | an id acts once; uncertain deliveries are never replayed |
| Capability cache `herdr/capabilities*.go` | report, revision, flight, rejected methods | Report, Observe, RecordFailure | the daemon is replaced during a probe | evidence is of the daemon it names |
| SSH connections `herdr/{ssh,openssh}.go` | connection, jump host, sessions | dial, open, close | every step fails or is canceled | nothing opened is left behind |
| Accounts `httpapi/{auth,admin,guards}.go` | users, invites, settings | bootstrap, register, administer | hashes are computed between a check and a transaction | who registered was admitted when the row was made |
| Access leases `httpapi/{access,password}.go` | leases of running requests, per-user gates | login, attach, change, close | revocation races attachment | after a revocation returned, no lease of that login is valid |
| Hosts, folders, keys `httpapi,store/{hosts,host_folders,ssh_keys}.go` | rows | edit, move, delete, trust | a row is read long before it is written | references exist, no cycles, a trusted key belongs to the address |
| Push monitor and delivery `httpapi/{push,push_monitor}.go`, `store/{push,agent_seen}.go` | last states, pending rounds, subscriptions | poll, deliver, mark as seen, subscribe | polls overlap with rounds and read marks; a provider answers late | a finished unread round is announced once, a read one not |
| Voice gateway `voicegateway/` | tickets, slots per user, relays | issue, claim, dial, relay, release | two pumps, timers and revocation end a session | every slot is returned once |
| Agent configuration and legacy agent `agentcli/{store,config}.go`, `agent/sshserver.go` | file, lock, daemon's copy | init, setup, pair, unpair, requests | commands and a daemon change one file; power loss | what was revoked stays revoked |
| Agent service `agentcli/service.go` | unit file, loaded unit, process | setup, restart, uninstall, repair | each step fails alone | a setup that succeeds runs what it installed |
| Transcripts, screen parser, launchers, relays, address checks, framing | none or a connection | parse, format, dial | formats | functions of their input |
| Web client `web/src` | React state | — | reconnects | left to the server's guarantees (of it only `applyScreenFrame` is modelled) |

Interactions that the models keep: a **window** (workbench session) asks the **pool** for a
connection; the pool's dial of a tailcat host talks to the **formal endpoint** of the agent,
which exists only while its **binding** is alive; the binding is made by the **enrollment
worker** of the website in two phases through the **ephemeral endpoint**; a window's stream
registers with **geometry control**, whose leases own a second connection to Herdr; the
**updater** replaces the binary that the daemon's service runs. `PROJECT.json` lists every
component with its files and, in `hazards`, the places where these things can go wrong.

## 2. The models

All modules follow one rule: what the code does under one lock, in one transaction or in
one message is one action; what it does after it gave the lock back is another one. Time
is never counted: a timeout or an expiry is a step that may happen whenever the code lets it.
`map` in `PROJECT.json` gives the lines each definition stands for. Definitions that start
with the comment "Fault:" are wrong variants of the definition that follows; they belong to
no specification and show that the property which names them is able to fail.

### HostPool.tla: the connection pool

State: `endpoints`, `flights`, `failures`, `closed` are the fields of `Factory`; an element
of `Flights` stands for a `dialFlight`, its `runDial` goroutine and the `sharedEndpoint` it
publishes (`waiters`, `outcome`, `dialer`, `victim`; `endpoint`, `refs`, `retired`, `idle`,
`callbacks`, `closers`). `older` keeps the order of `idleSince` for the choice of a victim.
Callers open one endpoint at a time (`pc`, `want`, `on`).

Actions: `Open`/`OpenLocal` (a local host releases the lock for its user lookup:
`LocalAllowed`, `LocalRefused`), which reuse, join, start, start with an eviction, or
fail; `Await`, `AbandonWait` (awaitFlight, with the cancellation of a flight its last
observer leaves); `DialStep` (runDial, from the eviction to the publication or the failure
record); `CloseHandle`, `Invalidate`; `IdleTimer` and `IdleCallback` as two steps, since a
timer that fired cannot be stopped; `CloseEndpoint`, the `Close` after unlock; `CloseHost`,
`Close`; `BackoffEnds`. Garbage identities are used again, so the model is finite without
a bound on dials.

### AgentBinding.tla and AccessGrant.tla: who may use an agent

State: the configuration file (`status`, `owner`, `bound`, `bid`, `epoch`, `lapsed`,
`enrollment`, `expired`, `paired`, `revoked`), the daemon (`up`, `ephem`, `ephemOpen`,
`formal`, `closing`, `unpairing`), the connections to the formal endpoint (`peer`, `role`,
`at`, `stream`) and the requests of controllers (`holds`, `answer`, `prepares`, `commits`).
`fence`, `won`, `torn` are history.

Actions: everything under `TwoPhaseState.lifecycleMu` is atomic: `Connect` (reuse or issue),
`Prepare` (new, again, refused), `Commit`, the first half of `Unpair`, `RefreshEndpoint`.
Outside it: `TearDown` (the second half of an unpair), `CloseEphemeral` (goroutine of a
commit), `Watchdog`, `Dial` (authentication fixes role and epoch), `Grant` and `OpenStream`
(check and stream), `Hangup`, `Paste` (a user gives the connection string to one more
website), `Crash`, `Restart`, expiry. Every write of the file takes two parameters, `saved`
and `told`: not saved; saved; saved although an error was reported
(`ErrPersistUncertain`).

`AccessGrant` is the promise in three lines: a holder, set by a grant that uses up an
enrollment, cleared by a release. `Promise == INSTANCE AccessGrant WITH holder <- ...,
spent <- ...` is the refinement; `GrantSpec` is checked by TLC and proved.

Abstractions: identical prepares that wait for the lock are one; a refresh always replaces
the server (a refresh that changes nothing is a stuttering step); addresses, relays and keys
are not part of the state; a crash loses the process, never the file.

### Enrollment.tla: a website adds an agent

`EXTENDS AgentBinding`; a task is the controller whose keys it generated. State: `phase`,
`taskBid` (rows of the store), `host` (the host row), `work` (where the create request or
the worker is). Actions are the messages and the transactions of the worker: `CheckCreate`,
`Create` (the unique index decides between two requests), `Start` (a poll starts a worker
from the saved phase), `StartFails` (the credential cannot be opened), `RequestPrepare`, `PrepareServed`,
`PrepareFails`, `SavePrepared`, `FailEnrollment`, `MarkCommitting`, `DialFormal`, `ReadStatus`, `RequestCommit`, `CommitServed`,
`AbandonCommit`, `FinalizeActive`, and `Vanish`: the worker's 45 seconds are over or the web
server stopped; a failure that is to be recorded is lost with it. The agent's own steps (`Agent`) interleave freely, so each side crashes and
loses answers at every point. Controllers that are no tasks are other websites with a copy
of the connection string.

### GeometryControl.tla: who resizes a terminal

State: `entries` (geometryEntry: runtime generation, references, lease, short scroll
controller), `leases` (holder, revoked, cancelled, confirmed, armed timer, its controller),
`streams`, and the program counters of the calls under way: `acq` (an acquisition), `reader`
(the session's read loop in a release or resize), `rel` (each `release(l)` by its caller:
read loop, timer, end of the controller, removal of the stream). `target`, `observer`,
`wire`, `reports`, `told` are the resize requests and what was reported to whom. The mutex
`op` of an entry is the predicate `Busy`: it is held exactly while such a program counter is
in a stage that waits.

Actions: the stream life cycle (`OpenStream` with `Register`, `FinishStream`, `CloseStream`,
`RemoveStream`, `Unref`, `SessionEnds`); an acquisition step by step (`RequestAcquire`,
`StartAcquire`, `OldLeaseStopped`, `CreateLease`, `ProcessOpened`, `ControllerReady`,
`AttachTimesOut`, `AcquireFails`, `FailedLeaseStopped`, `Confirm`, `AnswerAcquire`);
`ReleaseMessage`, `TimerFires`, `DoneFires` with `StartRelease`, `ReleasedLeaseStopped`,
`PublishRelease`; `ContextStops`, `ControllerEnds`; resizes (`RequestResize`, `StartResize`,
`ResizeWritten`, `ResizeFails`, `ResizeSubmitted`, `ResizeLeaseStopped`) and observed frames
(`Observe`, `ReportObserved`); `Scroll`, `ScrollEnds`; `RuntimeChanges`.

Abstractions: every stream has a session of its own, which interleaves more than streams
that share a read loop; a timer may fire at any time, so a renewal, which moves its deadline,
is not a step; the deadline and the callback of a timer are one step; sizes are "the size of
request q"; publishing is merged with the creation of a lease and with the cleanup of a
failed attach; whether Herdr accepts an attach is open. The variable `events` is fixed in
the initial state: it names the outside events that happen in a behaviour, so that a run
can explore several selections (`Scenarios`) instead of all of them together.

### Updater.tla: replacing the CLI

State: the files (`stable`: what the entry holds, `store`: the version directories,
`initial`: captured binaries, `saved`: state.json), the run under the lock (`pc`, `mem`, `target`, `before`,
`recovered`, `goal`, `outcome`) and the world (`service`, `confirmed`: history of the binaries known to
work). Every write succeeds, fails before its effect, or fails after it; a run is killed
at any step; the supervisor starts what the entry holds at any time; the owner may install a binary by hand
between runs. One run at a time, as the lock demands. A binary stands for its bytes and `VersionOf`
gives the version it reports; two binaries may report the same one.

Abstractions: signatures, identity and epoch only decide whether a self test fails;
a power loss is not modelled; an entry that does not exist is refused by the self test.

### The workbench

**TerminalStream.tla** is one observed terminal. `frames`, `pending`, `held`, `loop`, `image`
follow a frame from Herdr through the gate that waits for a full screen (`Gate`, `Take`), the
merge of frames that wait (`Merge`) and the output loop (`Reserve`, `Woken`, `GiveUp`,
`Write`) to what the browser shows: a full frame is its image, another one continues it (`Shows`); `credits`, `creditCh`, `acking` are the credit, where an acknowledgement frees
(`FreeCredit`) and wakes (`WakeLoop`) in two steps; `typed`, `queue`, `runner`, `flight` are
the input queue with its chunks (`Type`, `TakeChunk`, `Deliver`, `CallReturns`, `CallFails`);
`Finish`, `FinishClose`, `EndSession`, `CloseStreams`, `Detach` end it. A frame counts one unit
of credit for each of Herdr's frames in it. Frames that the parser refuses or that exceed its
limit, and a browser that reads in its scrollback and skips frames, are left out.

**WorkbenchFeed.tla** is the snapshots of one session: the sender at each of three places
fetches, stores and writes in steps (`Begin`, `Fetch`, `Store`, `Write`, `Fails`); the poller
has a timer that a fetch resets (`Kicked`, `TimerFires`, `Polled`); the watcher reads the panes,
registers and subscribes again (`ReadPanes`, `Register`, `Subscribed`, `Event`, `StreamEnds`,
`AfterBackoff`). The workspace is a number that counts its changes.

**ViewportFollow.tla** follows the size of a terminal from `controllerViewport` and from a
probe (`refreshViewports`) through the queue of one to the canvas of an observer. Every size
carries the number of leases there had been when it was read.

**Scroll.tla** is the scroll controller: `Send` with its stages under `mu`, timers that fired
and wait for `mu`, `Close`, and the connection they use. `generation` is the field of the code.

**WorkbenchPosition.tla** is the row of `user_workbench_sessions` with the high-water marks of
its writers. Messages are kept and delivered at any time, any number of times.

**ScreenReads.tla**, **ScreenSignal.tla** and **ScreenFeed.tla** split the screen view by what
its parts share: reads (which window may take another one's read), the observer process that
signals changes, and the frames with line differences, whose reader is in `web/src`.

**OnceLog.tla** is the table of request ids that `prompt.go` and `sessions.go` each have.
**GuardedInput.tla** has the prompts and the answers to dialogs, both of which read the screen
(`Checked`, `ReadDialog`) and then type (`SendText`, `SendEnter`, `PressKeys`); **SessionStart.tla** the
creation of a pane and of its session in several calls, each of which fails with or without effect.
In `GuardedInput` Herdr confirms keys when it has passed them on: whenever the program moves to another
question (`MovesBy`), the screen follows at once or later (`Redraw`), and the pane's lock does not wait for it.
`FreeTexts` are the dialogs whose cursor is on an option that takes text, into which a prompt may be
typed without the lock; a prompt that meets any dialog may answer it (`Reaches`). The state keeps
who opened the question (`opener`) and which answers hit a question that an earlier answer opened
(`astray`, by whether the screen they had read was drawn).

**CapabilityCache.tla** has the cache, its single flight, the probe's calls and the calls of
a transport that report failures, against a service that is replaced at any time.

**SshDial.tla** opens a connection step by step on the paths direct, jump host, system
OpenSSH and Tailcat; **SshSession.tla** has the opener, the caller and the closer of a session.

### What the website keeps

**Registration.tla** has the ways to an account (bootstrap, invite) with the hash slots;
**AccountAccess.tla** the logins, the access leases, the gate and every change that takes access
away; a password is the number of its changes. **Hosts.tla** has hosts, folders,
keys and host keys, and the requests and dials that read a row before they write it.
**PushMonitor.tla** is the polls and rounds of one host. **PushDelivery.tla** is the subscriptions and the
deliveries: a worker holds the rows its round collected (`Collect`), attaches a lease of the owner later (`Attach`)
and reads each row again before it asks the provider (`Read`), which may answer late (`Sent`, `Expired`). A user who
is disabled or gets a new password (`Disable`, `NewPassword`: `SetUserDisabled`, `ChangePassword`, `ResetPassword`,
all of which end in `endUserAccessTx` or delete the rows themselves) loses the subscriptions and the leases of
deliveries at once (`EndAccess`); `cleared` is history and remembers the last row saved by then. **VoiceGateway.tla** is the tickets, slots and sessions.

### What the controlled host keeps

**LegacyAgent.tla** is the configuration file with its lock: a daemon that holds it for its
lifetime, commands that ask the daemon or change the file themselves, connections that read
it again for each request, crashes, and a power loss that undoes a write that was not synced.
**ServiceInstall.tla** keeps four things that may disagree: the unit file, the loaded unit,
what the running daemon was started with, and the installed program, under systemd or launchd.

### MC modules: several parts in one run

The modules above share no state except where one extends another (`Enrollment` over
`AgentBinding`). A run that composes them, such as `MCHostPool`, extends its main parts, declares
the variables of the others and a variable `part` that the initial state fixes: a behaviour runs
one part and leaves the others where they begin. A product of independent parts would add no
behaviour to any of them; this way each part is explored completely, and a run's properties are
the conjunctions of its parts' properties; those that are proved stand in a module that the run
and the proofs both extend (`Connections`, `WorkbenchPosition`, `ServiceInstall`). `AgentBinding`, `Enrollment` and
`ServiceInstall` have a run of their own as well. The type invariant of a run speaks of the part that
runs. Liveness is fair as each module states it, restricted to the part. A module whose
constants are given by an instance has its assumption as a definition, which
the MC module assumes of that instance (`PartsAssumption`), so TLC evaluates it.

## 3. The runs

| Run | Instance | States | Shows |
|---|---|---|---|
| `host_pool_safety` | pool: 2 callers, 2 hosts (one local), 2 flights, limit 1; a dial; a session; capability cache with 2 versions; stream with 2 units of credit and 3 frames | 1 298 314 | `RefsExact`, `OneOwner`, `ReclaimOnlyUnused`, `ConnectionsLeaveNothing`, `EvidenceIsCurrent`, `OutputArrives` |
| `hosts_live` | pool of one host; a host with its watch; a session; 2 windows that want one size | 75 273 | `PoolServes`, `HoldersLeave`, `ControlEnds` |
| `agent_binding` | 2 controllers, 1 connection, 2 enrollments, 7 epochs, 2 open unpairs | 470 879 | `StreamsAuthorized`, `NoResurrection`, `BindingServed`, `GrantSpec`, `EverythingEnds` |
| `workbench_records` | enrollment with 2 tasks; 3 users and an invite; 2 users with 2 logins; a host, 2 folders, 2 addresses; a pane that is polled; 2 deliveries, 2 endpoints, 2 saved subscriptions | 899 890 | `EnrollmentKeepsTrack`, `AccessFollowsAccounts`, `RowsAreWhole`, `NotificationsAreRight` |
| `enrollment_live` | one task, one other website | 53 676 | `EnrollmentGoesOn` |
| `terminals` | 2 streams, 2 leases, 2 entries, 2 runtime generations, 2 requests, six selections of events; 2 sizes; 3 gestures; 2 pages, 2 hosts; 2 voice requests | 1 337 908 | `SizeIsControlled`, `HandoverInOrder`, `ViewportNeverGoesBack`, `GesturesAreWhole`, `PositionIsKept`, `VoiceIsCounted` |
| `workbench_live` | one stream, one session's snapshots, 2 voice requests for one slot | 351 729 | `StreamEndsWhole`, `FeedCatchesUp`, `VoiceEnds` |
| `controlled_host` | 3 binaries with 2 versions; 2 places and environments of a unit; 2 commands and one connection; 2 windows, 3 observers; 2 requests for each table, 2 dialogs, one of which takes free text | 1 295 267 | `EntryIsRecoverable`, `RollbackPointKept`, `ReportIsTrue`, `SetupTakesEffect`, `RevocationHolds`, `ScreensAreTrue`, `RequestsActOnce` |
| `enrollment_never_ends` | one task | — | violates `EnrollmentEnds` (section 5) |
| `geometry_closed_holds` | one lease | — | violates `ClosedIsReleased` (section 5) |
| `updater_recovery_reaches_service` | as in `controlled_host` | — | violates `RecoveryReachesService` (section 5) |
| `launchd_restart_keeps_unit` | one place, two environments | — | violates `RestartLoadsUnit` (section 5) |

Each passing run but the liveness runs checks a type invariant too. A property of a run names in its
comment the properties of the modules it is made of, and `PROJECT.json` has a mutant for
each of these.

**Why these bounds.** The hazards are races of two: a caller and a timer, two callers of one
flight, two controllers with one connection string, an old and a new holder, two requests
with one id, a read and the write it was meant for. In the pool two
identities and a limit of one force an eviction, a join, a replacement after an invalidation
and a dial that outlives its observers; the second host is local, because only its Open
gives the lock back. Two enrollments and seven epochs let a binding be prepared, committed, unpaired, and
a second one be prepared with requests of the first still waiting. Two subscriptions are
one that is deleted, replaced or handed on and the one that takes its place while a provider is asked about the first. Two leases give one
handover with everything around it; a third one repeats it. Three gestures let a timer of the first
fire while the second is replaced by the third. Three observers of a screen are one that ends,
one that joins and one that takes the place in the map. Three binaries, two of which report
the same version, are an old one, a new one and a rebuilt one. Three frames and two units of credit let
one frame be sent, one be held and one be merged into it. Two logins and two
requests are one that takes access away and one that is on its way in. What the bounds cut off
is growth, never a kind of step: TLC's coverage shows every action in some run. The
proofs of section 4 do without bounds.

**Fairness.** Every liveness property names the fairness it needs and the code that gives it.
*Pool*: goroutines run, a dial returns by its timeout, timers fire; nothing makes a caller
close its handle. *Binding*: the unpair handler, the goroutine of a commit and the ticker of the
watchdog run. *Enrollment*: the page polls its task, a worker ends after 45 seconds, the agent
serves requests that arrived and its service is restarted; strong fairness only for steps
of the commit that each new worker attempts again (a message may be lost, but not always), and none for
the prepare: its endpoint may be out of reach for good, and the failure is written with the context whose 45 seconds
the dial used up, so it need not be recorded either. A pending task may therefore stay pending (section 5);
`PreparedGoesOn` speaks of tasks that were prepared and `BoundBecomesHost` of an agent that stays bound and reachable. *Geometry*: weak fairness
of the internal steps; a process that was closed ends; a timer fires for a stream that is gone,
because nobody renews it. Nobody has to open, acquire or close anything. *Hosts*: the ticker of
a lease's watch runs. *Sessions over ssh*: the goroutines of a canceled session run, and a connection
that is closed unblocks them. *Stream*: the output loop, the acknowledgement, the runner of the
queue and what ends a stream go on; the browser need not acknowledge. *Snapshots*: the poller
and the watcher run, a call to Herdr returns or fails; `FeedCatchesUp` allows each attempt to fail a bounded
number of times in a row. *Voice*: requests and the pumps of a session that ended go on; neither
leg has to send anything.

`CHECK_DEADLOCK FALSE` stands where a behaviour may rightly end: everything was closed, or
a bound on epochs, leases or enrollments is used up.

## 4. What is proved

The theorems hold for every number of hosts, callers, flights, controllers, connections,
enrollments, binaries, windows, leases, users, logins, requests and frames; the constants satisfy only the named
assumptions of the modules (`HostPoolAssumption`: finite sets, a limit of at least one;
`AgentBindingAssumption`: positive bounds). Where a module is instantiated by a run, its assumption is a
definition and a theorem names it as its hypothesis; the run assumes the same of its instance.
Every safety property in the runs has a theorem but the types of `host_pool_safety`.

**HostPoolProofs.tla.** `TypeCorrect`, `RefsAreExact`, `SingleOwner`, `LimitHolds`,
`ReclaimIsSafe` prove the pool's properties in `host_pool_safety`, and `WithinLimit`, `IdleIsWatched` and
`ClosedIsEmpty`, which no run needs to repeat. None of them is inductive
alone: that a reference is given back exactly once needs to know that a waiter counts for the
flight until it completes and for the entry afterwards; that a transport is closed once needs
to know who may hold it. `IInv` adds
`CallerInv` (what a caller's stage says about the flight it holds), `PoolInv` (the maps hold
exactly the live entries and unfinished flights, never both for one host), `DialInv`
(outcome and dial goroutine fit), `CountInv` (counters are cardinalities of sets of callers),
`OwnerInv` (who has yet to close a transport) and `IdleInv`. One lemma per action shows that
it preserves `IInv`; lemmas on the cardinality of the callers of a flight
(`UsersJoin`, `UsersLeave`) carry the counting. `IInvStep` puts them together; the rest
follows by temporal logic. `LimitHolds` is a second induction on top: the load grows only
where the code compares it with the limit or has evicted an entry. That the pool is safe although
`Factory.Open` of a local host releases the lock is `LocalAllowed`'s check of `closed`, which
`ClosedIsEmpty` rests on.

**EnrollmentProofs.tla** is about the agent first, then about the whole of `Enrollment`. Of the agent
`TypeCorrect`, `StreamsAreAuthorized`, `NothingResurrected` and `BindingIsServed` prove the safety properties
of `agent_binding`, `OneControllerOnly` and `ChangesFenced` two that are only proved, `GrantImplemented`
that the binding implements `AccessGrant`; `EphemeralIsCurrent` and `ActivationReserved` prove two more. `IInv` adds `CountsFit` (nothing
is ahead of its counter), `RecordFits` (the parts of the configuration fit each other and
the history: a live binding is newer than the last revocation, an active one has used up
its enrollment), `RequestsFit` (whoever got an answer for the current enrollment holds the
reservation) and `EndpointsFit` (a connection in the current epoch is the owner's). An
unpair that is between its halves is what makes the authorization of streams conditional:
`StreamsAuthorized` excludes it and `AccessEnds` closes the gap under fairness.

`AgentIsKept` shows that the composition of
websites and agent implements the agent's own specification, step by step, so that whatever is proved
of the agent holds in it. `KeepsTrack` proves `EnrollmentKeepsTrack`; `SystemInv` adds to the agent's
invariant that a binding ID belongs to the controller it was answered to (`BidsFit`) and, phase by phase,
that what the store and the worker have of a task fits what the agent said (`TaskFits`): a task may be
given up only where no commit can have been asked for. `OneInFlight` is kept by the unique index
(`Create`). `WebTypeCorrect` is the type invariant.

**ControlledHostProofs.tla.** Of the updater, `TypeCorrect`, `AlwaysRecoverable`, `RecordsStay`, `OpenReported`,
`RollbackKept` and `ReportsTrue` prove the updater's properties, those of `controlled_host` and two
more (a record names a binary that verified; what is open is reported), for every set of
binaries and whichever of them share a version (`BinsAssumption`: versions are numbers, `None`
is neither a binary nor a record). `IInv` says stage by stage what a run has in memory, which
part of it is on disk and what the entry holds: `FilesFit` and `MemoryFits` (what the records
name is in place; the entry is a known binary or the open candidate), `OpeningFits` and
`TestingFits` (until the first write memory and file agree and nothing is open), `SwitchFits`
(record before entry before restart), and `AbortFits`, the part that is easy to get wrong: an
abort starts after any of three writes, each of which may have happened although it was
reported as failed. That a service seen ready is the candidate itself, not another binary of
its version, comes from `WaitingFits`: a process started after the restart runs what the entry
holds. `RunEnded` carries every way a run returns.

It also proves `SetupIsEffective` (`SetupTakesEffect` of `ServiceInstall`) and `ServiceTypeCorrect`, for any
places, environments and versions. `ServiceInv` follows a setup: `SetupFits` says from which step on the
file, the service manager and the daemon have the wanted unit (under launchd one step later than under systemd),
and that whoever reaches the wait has a ready daemon; `AgreedFits` says what the daemon runs when the setup
began with file and service manager agreed, which is what makes it right to leave an unchanged unit's daemon alone. Every
other command may fail anywhere and must leave only what these two allow.

`RequestsOnce` proves `RequestsActOnce` of `GuardedInput` and `SessionStart`, for any requests, ids and capacity of
the two tables. The lemmas on `OnceLog` say what each operation does to the *set* of its entries: a table has one entry
for each id (`OneEach`), `begin` keeps whatever still runs although it may drop an entry (`BegunEntries`), `finish`
and expiry touch one id (`EndedEntries`, `WithoutEntries`). `InputInv` then ties the table to the requests:
`TypistFits` (one request types for an id, and its entry runs), `TypedFits` (an id that is not in the table and
was never dropped has not been typed; an entry that says sent was) and `AnswersFit` (who has read a dialog holds
its pane, so if the screen it read was drawn, the question is still that of its card or somebody else opened the next one).
Nothing is assumed of how soon a program draws, nor of what a prompt does to a dialog it meets; what the lock therefore
does not give, that the next answer sees the keys of the last, is in section 5. `SessionInv` does the same for panes: `StarterFits` and
`PanesFit` (before its creation an id has no pane; afterwards the start knows the only one, and no
command went into it). The uncertain outcomes are where it could fail: they end a request and must keep its entry.

`HostRevokesForGood` proves `RevocationHolds` of `LegacyAgent` for any commands, connections, identities and tokens.
What was revoked is only in the file, which commands, the daemon's own updates, a kill and a power loss
change, and a daemon that has read it early may have connections of an earlier state. `AgentInv`
says who is in the file when (`LockFits`: a command that writes holds the lock, and the daemon
holds it while it runs), what a command knows at each of its steps (`CommandFits`: a
setup that migrates found no file under the lock), what the daemon serves (`DaemonFits`: the identity of
the file, with connections of that identity alone) and that a token which a connection or an update is about to
confirm was given out and is not that of a revoked file (`TokenFits`, `UpdatesFit`). `HostTypeCorrect` puts the
invariants of all eight parts together: with `HostHasParts` they give `PartsTypeOK` in every behaviour of the run.

**ScreenProofs.tla** is about the screen of a pane; `ControlledHostProofs` extends it. `HostShowsScreens` proves
`ScreensAreTrue` of three parts:

- `SignalInvariance`: the windows of an observer are those that joined it (`SignalInv`), so that one which runs on
  is in the map and has a window.
- `ReadsInvariance` (`ReadSeesInput`). `ReadsInv` compares moments: a window that was kicked needs a
  read that began after (`WatchFits`), and whatever shares or repeats one looks at when it began (`ReadsFit`).
- `FeedInvariance` (`WindowShowsScreen`). That the difference of two screens, applied to the first, gives the second
  is `FrameLeads`, for every two screens and whichever shift `bestScreenShift` takes (the lemmas say only that the shift is in
  range: `ShiftInRange`). `GenerationsFit` orders the feeds and the watches of a window, `MessagesFit` says
  that the reply to a watch is sent once and before its frames, and `LinesFit` that the frames which are on their way,
  applied in turn to what the window shows, lead to what its feed sent last (`Leads`), so a
  window that has received them all shows it; frames of an earlier feed are known by their generation.

**GeometryControlProofs.tla.** `SizeIsAlwaysControlled` proves what `terminals` checks as
`SizeIsControlled`, part by part (`OneAttachmentHolds`, `RoutableLeaseHolds`, `HolderIsToldHolds`,
`RegistryOwnsScrollHolds`, `ReportedInOrderHolds`), and `HandoverIsInOrder` the action property, for any
windows, leases, entries and connections. `IInv` says who is inside the mutex of an entry and what the
others may assume of it: `OpExclusive` (one acquisition, resize or release holds `op`), `StreamsFit`, `LeasesFit`,
`EntriesFit` (a lease whose controller has not ended is the one its entry names, which is the latest;
until it is confirmed or revoked, its acquisition holds `op`), `AcquireFits`, `ReaderFits` and `ReleaseFits` (what a
transfer, a reader and a release hold at each of their steps), `ReportsFit` and `WireFits` (the numbers of
what was submitted, observed and is still on the wire) and `ToldFits` (a window that was told
something else than its view has a publication on its way). The count of an entry's streams uses
the cardinality of the streams that are not over. Handing over in order needs all of it: the end of a controller,
seen late, must not release its successor.

**WorkbenchRecordsProofs.tla** extends `EnrollmentProofs` with the rest of `workbench_records`: five parts, each with
an inductive invariant of its own, put together by `RecordsHaveParts` (the specification of the run implies those
of its parts) in `RecordsAreWhole` (`RowsAreWhole`), `RecordsNotifyOnce` (`NotificationsAreRight`), `RecordsKeepTrack`
(`EnrollmentKeepsTrack`, `AccessFollowsAccounts`) and `RecordsTypeCorrect`: the run's properties, for all constants.

- `AccessFollows` (`AccessFollowsAccounts`): no request is served by access that was taken away, and none that
  looked its login up before a reset gets through after it. `AccessInv` follows a request by what it has read
  (`RequestFits`), says that one which attaches has held the gate of its user since the database admitted it
  (`AttachFits`), that whoever changes an account holds its gate from before the change until the leases are
  cancelled (`GateFits`) and whose lease survives that (`LeasesFit`).
- `RegistrationInvariance`: `RegistrationInv` says that whoever hashes for an account names its user and its
  invite (`JoinFits`); the transaction looks again, so nothing else that was read early is needed.
- `HostsInvariance`: a request that read a row knows the row of the moment by its version (`RequestFits`): if the
  version is the one read, so is the credential. `Presented` says that the key a row trusts or asks about was
  presented by the address of the row; `FoldersEnd`, that what is above a folder reaches the top.
  `Above(f)` is the least set that holds f and is closed under `parent`; that a folder is not moved below
  itself keeps the sets of the others, which is the long part of the proof. `Used` ties a host's own credential to
  the row that names it.
- `PushInvariance`: for each pane, what is shown, compared, pending and told fit each other run by run
  (`ShownFits`, `PreviousFits`, `PendingFits`, `ToldFits`, `DueFits`): a pending round began `Delay` before
  its due time, and what was told has no higher number than what was compared, unless Herdr was restarted.
- `DeliveryInvariance`: `RenewedStays` (a row goes only while it is the one the provider was asked about, or because
  its user's access ended) and `EndedIsSilent` (the provider is asked about nothing that was saved before that, though
  deliveries have collected it). `DeliveryInv`: no row is left of what was cleared, and a delivery that asks
  holds an id that was given out and not cleared; ids are not used again, so one that was deleted is never read as current.

**ConnectionProofs.tla** is about the parts of `host_pool_safety` beside the pool. `Connections` puts
them together for the run and for the proofs: it extends `TerminalStream`, takes instances of
`SshDial`, `SshSession` and `CapabilityCache`, and states what they promise.

- `DialIsReleased`, `SessionsReleased` and both together, `NothingIsLeft` (`ConnectionsLeaveNothing`).
  `DialInv` names for each of the four ways and each step what may be open, `SshSessionInv` who holds a
  session: the caller, the opener that was abandoned, or the goroutine that closes it.
- `EvidenceStaysCurrent` (`EvidenceIsCurrent`). `CapabilityInv` compares what each caller has read with
  the generation it read it in: a call, a probe or a snapshot of an earlier one is recognised as
  such by its revision when its answer arrives, and one of the same generation agrees with the service.
- `OutputIsNotLost` (`OutputArrives`) and `InputIsTypedOnce` (`InputOnceInOrder`). `OutputFits` says that
  one frame at most is under way and carries exactly what the browser lacks: a whole screen, or
  all that follows the browser's image; so whatever `Merge` combines may be applied to what is
  shown. `NoLostWake` is inductive once the two steps of an acknowledgement are told apart. `InputFits` lays the
  keys out as intervals of numbers: typed, in a call, in the queue; `EndFits` says when a queue may have
  stopped without an error. Lemmas on intervals (`BetweenJoin`, `BetweenCut`, `BetweenAppend`) carry both.

**WorkbenchProofs.tla** extends `GeometryControlProofs` with the four other parts of `terminals`; `WindowHasParts` carries
all five to the specification of the run (`WindowIsControlled` for what `GeometryControlProofs` shows), and
`WindowTypeCorrect` proves its type invariant.

- `PositionStays` and `WindowKeepsPosition` (`PositionIsKept`): whatever is late, repeated or overtaken, the
  row is the newest position of the page that wrote last, and it is gone only with its host.
  `PositionInv` says that the watermarks of the pages are the highest sequences put, and
  (`ReadingFits`) that a reader who found the host of a row gone deletes that row or none: a row written since is
  newer. `PositionTypeCorrect` is the type invariant.
- `CanvasesGoForward` and `WindowGoesForward` (`ViewportNeverGoesBack`). `ViewportInv` says that a size in a queue
  or at a canvas is of no later lease than there is (`CanvasFits`), and that a probe which is still valid has read
  under the leases of now (`ProbeFits`): the revision it compares under the lock changes with every lease.
- `VoiceInvariance` and `WindowCountsVoice` (`VoiceIsCounted`). `VoiceInv` counts the slots of each user and of
  the gateway as the cardinality of the requests that hold one (`SlotsExact`), says at which steps a request
  does (`RequestFits`: release happens once, whoever comes first), and that the tickets have different values
  and a request that consumed one is alone with its value (`TicketsFit`).
- `WindowReleasesControl` (`GesturesAreWhole`), from `ScrollInvariance`. A connection that holds control is ended
  or watched by the timer of the last gesture (`HeldIsWatched`), and one that ended by itself took every
  gesture that was sent on it (`LastGestureArrives`); a timer that fired and waited for the mutex is of an earlier generation
  unless the controller was quiet (`TimersFit`, `GesturesCounted`). `ConnFits` and `SenderFits` say at which step of `Send`, of the goroutine that
  drains a connection and of `Close` a connection is whose; that a release was quiet (`ReleasesWhenQuiet`) is
  an action property of the same invariant.

**Only model-checked.** The liveness properties and whatever needs ENABLED are out of the
prover's reach, and so is what a fold or `SelectSeq` computes: the proofs of `TerminalStream` treat the
sum of the credit as an unknown that changes only with the list, and the types of its credit list
(`StreamTypeOK`) stay with TLC. `PartsTypeOK` of `host_pool_safety`, which includes them, is therefore the only
invariant of a run without a theorem; its other conjuncts are `TypeCorrect`, `SshSessionTypeCorrect`,
`CapabilityTypeCorrect` and part of `DialInv`. `WorkbenchFeed` and the liveness runs have no theorem.

## 5. Where code and documents differ

Four runs end in a counterexample to a sentence of the documents or of a comment; each is kept as a run.

- `enrollment_never_ends`. After a crash of either side a task should be retried or fail for
  certain. A task that is `committing` when its prepared binding lapses (the agent was down)
  is retried by every poll and refused every time; `FailEnrollment` excludes its phase, and
  the unique index then answers every new connection string of that agent with this task.
- `geometry_closed_holds`. Leaving a pane should release its size control. `acquire` looks at
  the stream at :345 and makes the lease visible at :351; a stream that is finished and
  removed in between has no lease to release yet, and nobody looks again. The lease of the
  window that is gone holds the terminal until its 20 seconds are over.
- `updater_recovery_reaches_service`. A transaction that was interrupted should be recovered by
  the next run, with the old service. `Open` restores the entry and clears `pending` at once;
  a run that stops before its restart leaves the candidate, which nobody confirmed, serving,
  and no later run knows of it.

- `launchd_restart_keeps_unit`. A changed unit takes effect with bootout and bootstrap, which
  `EnableAndStart` and `Restart` are said to see to. `Restart` kickstarts the job that is loaded
  (service.go:273) and bootstraps only when none is; an update that repaired the unit runs the new
  program with the unit loaded before, and reports success.

More behaviours were met on the way that have no run of their own:

- A task whose ephemeral endpoint is out of reach stays pending: the dial uses up the 45 seconds of the worker's
  context, and `fail` (enrollment_worker.go:252) writes with the same context. Every poll starts over, and
  as with a task that is committing, a new connection string of that agent is answered with the task there is.
- The goroutine of a commit closes whatever ephemeral server is installed when it runs (ipc.go:102): after an unpair and
  a new `connect` that is the new one. `EverythingEnds` speaks of servers that stay, not of one that goes too early;
  the next `connect` starts it again for the same enrollment (`ConnectReuse`).
- Of two answers to a dialog the later one should read the screen after the keys of the former, "or else the second press
  lands on the next question" (dialog.go:177). The lock is free once Herdr has confirmed `pane.send_keys` (:184, :216), and the program
  draws in its own time: the later answer may read the dialog that was just answered, find its fingerprint unchanged
  and press at the next question. In `GuardedInput` such an answer puts `"old"` into `astray`. What the lock does give is in
  `RequestsActOnce`: an answer that read a screen which was drawn meets its own question, unless
  a prompt, the program itself or somebody at the computer opened another one meanwhile.
- A text that is sent into a dialog which takes free text may answer it beside the pane's lock, and so
  move the question between the look of an answer and its keys (prompt.go:196); a dialog that opens after
  the prompt looked at the screen gets its Enter as well.
- `UpsertPushSubscription` asks only that the user is enabled: the request of a login which a new password
  just ended may save its subscription afterwards. What was handed to a
  provider when access ends cannot be called back; the cancellation of the lease ends the wait for it.
- A transfer that fails after it stopped the old lease does not publish
  (terminal_control.go:346, :440), so the old window shows "owned" until its next renewal is refused;
  an attach that fails and whose connection takes longer than two seconds to close leaves a revoked
  record that only the next acquisition or a close removes (:383, :403), and until then scrolling is refused.
- An updater's commit that was written but reported as failed is undone, so that a kill in between
  leaves a rollback point equal to the installed binary.
- A voice session that ends for a cause that `report` has no case for is reported as the end of its login.
- A window that shares a screen read which another window's end cancels is told of a failure, and reads again.
- Capability evidence of a probe that began before any snapshot was known survives a replacement of
  the service; `EvidenceIsCurrent` is stated for probes and calls that began with one known.
- A login verified before a reset of the password is inserted after it; `must_change_password` is
  enforced for it all the same (`ResetIsEnforced`).
- Concurrent requests for a voice ticket each look at the count before one is added, so the cap on tickets
  is not exact; `VoiceIsCounted` speaks of slots and of the use of a ticket.
- Two first starts of the legacy agent without a configuration each create an identity, and `init --force` keeps
  the pairing token of the old one. A setup that failed half way leaves the PATH of the old unit, and
  uninstalling removes a unit the user wrote.

## 6. What is left out

The components without a module are listed in `PROJECT.json` with the reason: functions of
their input (transcripts, screen parser, launchers, address checks, framing, release
signatures), the schema and its migrations, relays (which path a connection takes, interesting only
on real networks), the start of Herdr by a script, a lease registry that nothing imports, and the
web client, of which only the reader of screen frames is modelled: what a window does is any order
of messages the server accepts.

Within the modelled components these are abstracted: encryption and formats; rate limits and
durations (a timeout may strike whenever its timer runs); lists and statistics that are only read;
the push worker pool and its backoff; the content of dialogs, prompts and screens beyond being
equal or different; the forwarding of streams by the legacy agent. Nothing is assumed of Herdr
itself except that it may accept or refuse an attach and end a process at any time; the network
may lose, delay and break; SQLite transactions are atomic and one at a time; a rename is
atomic; a crash loses processes, and a power loss (in `LegacyAgent` only) writes not synced too.

## 7. What could follow

A proof of the types of the credit list of `TerminalStream`, once a prover can tell what `SelectSeq` selects; and
models of what section 6 leaves out that has state of its own, the relay offers and the bounded cache of launchers.
