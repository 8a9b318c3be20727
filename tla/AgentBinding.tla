---------------------------- MODULE AgentBinding ----------------------------
(***************************************************************************)
(* The agent's side of a pairing: the two-phase binding that internal/     *)
(* tunnel/server.go keeps in the configuration file, the two SSH endpoints *)
(* it serves, and the daemon's control operations on both                  *)
(* (internal/agentcli/ipc.go and endpoint.go).                             *)
(*                                                                         *)
(* Everything done under TwoPhaseState.lifecycleMu is one action.  What    *)
(* runs outside that lock is an action of its own: the authentication of a *)
(* connection, the check before a stream and the stream itself, the        *)
(* watchdog of the ephemeral endpoint, the goroutine started by a commit,  *)
(* and the second half of an unpair, which closes the endpoints after the  *)
(* lock is released.  A request that waits for the lock outlives the       *)
(* connection it came on.                                                  *)
(*                                                                         *)
(* A write of the configuration either is not saved, or is saved and       *)
(* reported so, or is saved although an error is returned                  *)
(* (ErrPersistUncertain): the parameters saved and told.  A crash loses    *)
(* the process, not the file.  Time is two flags: the enrollment and the   *)
(* prepared binding expire at any moment, the former first.                *)
(*                                                                         *)
(* A controller stands for one request: its request and controller IDs and *)
(* its formal node and SSH keys.  A binding ID is the epoch it was         *)
(* prepared in, which no other binding shares.                             *)
(***************************************************************************)
EXTENDS Integers, FiniteSets

CONSTANTS
    Controllers,    \* requests of websites to control the agent
    Conns,          \* connections to the formal endpoint
    None,           \* no controller
    MaxIssued,      \* bound: enrollments issued by connect
    MaxEpoch,       \* bound: changes of the binding
    MaxUnpairs      \* bound: unpairs whose endpoints are still to be closed

ASSUME AgentBindingAssumption ==
    /\ None \notin Controllers
    /\ MaxIssued \in Nat \ {0} /\ MaxEpoch \in Nat \ {0}
    /\ MaxUnpairs \in Nat \ {0}

VARIABLES
    status,      \* Binding.Status
    owner,       \* Binding's controller, request and keys
    bound,       \* Binding.EnrollmentID
    bid,         \* Binding.BindingID
    epoch,       \* Binding.Epoch
    lapsed,      \* Binding.PreparedExpiresAt has passed
    enrollment,  \* Enrollment.EnrollmentID, 0 if empty
    expired,     \* Enrollment.ExpiresAt has passed
    paired,      \* Config.Paired
    revoked,     \* Config.Revoked
    up,          \* the daemon runs
    ephem,       \* IPCServer.ephemServer: its enrollment, 0 for nil
    ephemOpen,   \* that server still listens
    formal,      \* IPCServer.formalServer: the client it admits
    closing,     \* a closeEphemeralAsync goroutine has not run yet
    unpairing,   \* unpairs that revoked and have endpoints to close
    peer,        \* the controller on a formal connection
    role,        \* the role fixed when the connection authenticated
    at,          \* the epoch it authenticated in
    stream,      \* its terminal or socket stream
    holds,       \* the connection string a controller was given
    answer,      \* the binding ID a prepare returned to a controller
    prepares,    \* pairing-prepare requests that wait for the lock
    commits,     \* pairing-commit requests that wait for the lock
    issued,      \* enrollments issued so far
    fence,       \* enrollments issued when access was last revoked
    won,         \* history: the controller an enrollment bound
    torn         \* history: endpoints were closed under a live binding

bindingVars  == <<status, owner, bound, bid, epoch, lapsed>>
configVars   == <<bindingVars, enrollment, expired, paired, revoked>>
endpointVars == <<ephem, ephemOpen, formal>>
daemonVars   == <<up, endpointVars, closing, unpairing>>
connVars     == <<peer, role, at, stream>>
requestVars  == <<holds, answer, prepares, commits>>
historyVars  == <<issued, fence, won, torn>>
vars == <<configVars, daemonVars, connVars, requestVars, historyVars>>

Enrollments == 1..MaxIssued
Statuses    == {"none", "prepared", "active", "revoked"}

StateTypeOK ==
    /\ status \in Statuses
    /\ owner \in Controllers \cup {None} /\ formal \in Controllers \cup {None}
    /\ lapsed \in BOOLEAN /\ expired \in BOOLEAN
    /\ paired \in BOOLEAN /\ revoked \in BOOLEAN
    /\ up \in BOOLEAN /\ ephemOpen \in BOOLEAN /\ closing \in BOOLEAN
    /\ torn \in BOOLEAN

CountTypeOK ==
    /\ bound \in 0..MaxIssued /\ enrollment \in 0..MaxIssued
    /\ ephem \in 0..MaxIssued
    /\ issued \in 0..MaxIssued /\ fence \in 0..MaxIssued
    /\ bid \in 0..MaxEpoch /\ epoch \in 0..MaxEpoch
    /\ unpairing \in 0..MaxUnpairs

ConnTypeOK ==
    /\ peer \in [Conns -> Controllers \cup {None}]
    /\ role \in [Conns -> {"none", "prepared", "active"}]
    /\ at \in [Conns -> 0..MaxEpoch]
    /\ stream \in [Conns -> {"none", "granted", "open"}]

RequestTypeOK ==
    /\ holds \in [Controllers -> 0..MaxIssued]
    /\ answer \in [Controllers -> 0..MaxEpoch]
    /\ prepares \in SUBSET (Enrollments \X Controllers)
    /\ commits \in SUBSET (Controllers \X (1..MaxEpoch))
    /\ won \in [Enrollments -> Controllers \cup {None}]

TypeOK == StateTypeOK /\ CountTypeOK /\ ConnTypeOK /\ RequestTypeOK

Init ==
    /\ status = "none" /\ owner = None /\ bound = 0 /\ bid = 0 /\ epoch = 0
    /\ lapsed = FALSE /\ enrollment = 0 /\ expired = FALSE
    /\ paired = FALSE /\ revoked = FALSE
    /\ up = TRUE /\ ephem = 0 /\ ephemOpen = FALSE /\ formal = None
    /\ closing = FALSE /\ unpairing = 0
    /\ peer = [n \in Conns |-> None]
    /\ role = [n \in Conns |-> "none"]
    /\ at = [n \in Conns |-> 0]
    /\ stream = [n \in Conns |-> "none"]
    /\ holds = [c \in Controllers |-> 0]
    /\ answer = [c \in Controllers |-> 0]
    /\ prepares = {} /\ commits = {}
    /\ issued = 0 /\ fence = 0 /\ torn = FALSE
    /\ won = [e \in Enrollments |-> None]

(***************************************************************************)
(* Helpers                                                                 *)
(***************************************************************************)

\* Closing the formal server closes every connection it accepted.
CutAll ==
    /\ peer' = [n \in Conns |-> None]
    /\ role' = [n \in Conns |-> "none"]
    /\ at' = [n \in Conns |-> 0]
    /\ stream' = [n \in Conns |-> "none"]

\* The deadline of the ephemeral server of enrollment e has passed.
Overdue(e) ==
    \/ revoked
    \/ status \in {"active", "revoked"}
    \/ expired /\ ~(status = "prepared" /\ bound = e /\ ~lapsed)

\* An unexpired enrollment is served again rather than replaced.
ShouldRestore ==
    /\ enrollment # 0
    /\ \/ ~expired
       \/ status = "prepared" /\ bound = enrollment /\ ~lapsed

NeedsFormal == status = "active" \/ (status = "prepared" /\ ~lapsed)

(***************************************************************************)
(* handleConnect, under the lifecycle lock                                 *)
(***************************************************************************)
MayConnect == up /\ ~(paired /\ ~revoked) /\ status # "active"

\* reuseUnexpiredEnrollment: only a nil server is started again.
ConnectReuse ==
    /\ MayConnect /\ ShouldRestore
    /\ IF ephem = 0
       THEN ephem' = enrollment /\ ephemOpen' = TRUE
       ELSE UNCHANGED <<ephem, ephemOpen>>
    /\ UNCHANGED <<configVars, up, formal, closing, unpairing,
                   connVars, requestVars, historyVars>>

\* What issueEnrollment writes: a new enrollment and an empty binding.
IssueConfig ==
    /\ revoked' = FALSE
    /\ enrollment' = issued + 1 /\ expired' = FALSE
    /\ status' = "none" /\ epoch' = epoch + 1
    /\ owner' = None /\ bound' = 0 /\ bid' = 0 /\ lapsed' = FALSE
    /\ UNCHANGED paired

\* Only a reported write installs the server that was started for it.
Install(told) ==
    /\ ephem' = IF told THEN issued + 1 ELSE 0
    /\ ephemOpen' = told

\* issueEnrollment closes the old servers first: a failed write leaves none.
ConnectIssue(renew, saved, told) ==
    /\ MayConnect /\ (renew \/ ~ShouldRestore)
    /\ told => saved
    /\ issued < MaxIssued /\ epoch < MaxEpoch
    /\ issued' = issued + 1
    /\ IF saved THEN IssueConfig ELSE UNCHANGED configVars
    /\ Install(told)
    /\ IF renew /\ status = "prepared" /\ formal # None
       THEN formal' = None /\ CutAll
       ELSE UNCHANGED <<formal, connVars>>
    /\ torn' = IF saved THEN FALSE ELSE torn \/ (renew /\ status = "prepared")
    /\ UNCHANGED <<up, closing, unpairing, requestVars, fence, won>>

Connect ==
    \/ ConnectReuse
    \/ \E renew, saved, told \in BOOLEAN : ConnectIssue(renew, saved, told)

\* The user gives a connection string to a website.
Paste(c) ==
    /\ enrollment # 0 /\ holds[c] = 0
    /\ holds' = [holds EXCEPT ![c] = enrollment]
    /\ UNCHANGED <<configVars, daemonVars, connVars, answer, prepares, commits,
                   historyVars>>

(***************************************************************************)
(* PrepareWithStarter                                                      *)
(***************************************************************************)
\* An authenticated session of the ephemeral endpoint runs pairing-prepare.
SendPrepare(c) ==
    /\ up /\ ephemOpen /\ holds[c] = ephem
    /\ prepares' = prepares \cup {<<ephem, c>>}
    /\ UNCHANGED <<configVars, daemonVars, connVars, holds, answer, commits,
                   historyVars>>

Revoked == revoked \/ status = "revoked"
Reserved == status \in {"prepared", "active"}

\* A retry of the request that holds the binding.
Repeats(e, c) ==
    /\ ~Revoked /\ Reserved
    /\ bound = e /\ owner = c
    /\ status = "prepared" => ~lapsed

\* Fault: the enrollment of the server is not compared with the current one.
AvailableAny(e) ==
    /\ ~Revoked /\ ~Reserved
    /\ ~paired /\ ~expired

\* A new request for the current enrollment.
Available(e) ==
    /\ ~Revoked /\ ~Reserved
    /\ ~paired /\ enrollment = e /\ ~expired

\* Fault: any running server is kept.
StartFormalOnce(c) ==
    IF formal # None THEN UNCHANGED <<formal, connVars>>
                     ELSE formal' = c /\ CutAll

\* formalStarter: the running server is kept only for the same client.
StartFormal(c) ==
    IF formal = c THEN UNCHANGED <<formal, connVars>>
                  ELSE formal' = c /\ CutAll

\* What PrepareWithStarter writes.
PrepareConfig(e, c) ==
    /\ status' = "prepared" /\ owner' = c /\ bound' = e
    /\ epoch' = epoch + 1 /\ bid' = epoch + 1
    /\ lapsed' = FALSE
    /\ UNCHANGED <<enrollment, expired, paired, revoked>>

\* The answer carries the binding ID; ok is its exit status.
Answered(c, ok, b) == answer' = IF ok THEN [answer EXCEPT ![c] = b] ELSE answer

PrepareNew(e, c, started, saved, ok) ==
    /\ Available(e) /\ epoch < MaxEpoch
    /\ saved => started
    /\ ok => saved
    /\ IF started THEN StartFormal(c) ELSE UNCHANGED <<formal, connVars>>
    /\ IF saved THEN PrepareConfig(e, c) ELSE UNCHANGED configVars
    /\ Answered(c, ok, epoch + 1)

PrepareAgain(e, c) ==
    /\ Repeats(e, c)
    /\ Answered(c, TRUE, bid)
    /\ UNCHANGED <<configVars, formal, connVars>>

PrepareRefused(e, c) ==
    /\ ~Repeats(e, c) /\ ~Available(e)
    /\ UNCHANGED <<configVars, formal, connVars, answer>>

Prepare(e, c, ok) ==
    /\ up /\ <<e, c>> \in prepares
    /\ prepares' = prepares \ {<<e, c>>}
    /\ \/ \E started, saved \in BOOLEAN : PrepareNew(e, c, started, saved, ok)
       \/ ok /\ PrepareAgain(e, c)
       \/ ~ok /\ PrepareRefused(e, c)
    /\ UNCHANGED <<up, ephem, ephemOpen, closing, unpairing, holds, commits,
                   historyVars>>

(***************************************************************************)
(* The formal endpoint                                                     *)
(***************************************************************************)
\* PublicKeyCallback: the role and the epoch of a connection never change.
AuthRole == IF status = "active" /\ paired THEN "active" ELSE "prepared"

Authorized(c) ==
    /\ ~Revoked /\ owner = c
    /\ \/ status = "active" /\ paired
       \/ status = "prepared" /\ ~lapsed

Dial(n, c) ==
    /\ up /\ formal = c /\ peer[n] = None
    /\ Authorized(c)
    /\ peer' = [peer EXCEPT ![n] = c]
    /\ role' = [role EXCEPT ![n] = AuthRole]
    /\ at' = [at EXCEPT ![n] = epoch]
    /\ UNCHANGED <<configVars, daemonVars, stream, requestVars, historyVars>>

\* Fault: the role follows the binding instead of the authentication.
PermitsUpgraded(n) ==
    /\ role[n] \in {"prepared", "active"}
    /\ status = "active" /\ paired /\ ~revoked

\* handleSSH and handleSession: the check before a socket or a command.
Permits(n) ==
    /\ role[n] = "active"
    /\ status = "active" /\ paired /\ ~revoked /\ at[n] = epoch

Grant(n) ==
    /\ up /\ peer[n] # None /\ stream[n] = "none"
    /\ Permits(n)
    /\ stream' = [stream EXCEPT ![n] = "granted"]
    /\ UNCHANGED <<configVars, daemonVars, peer, role, at, requestVars,
                   historyVars>>

\* handleStreamLocal runs on its own goroutine, after the check.
OpenStream(n) ==
    /\ up /\ stream[n] = "granted"
    /\ stream' = [stream EXCEPT ![n] = "open"]
    /\ UNCHANGED <<configVars, daemonVars, peer, role, at, requestVars,
                   historyVars>>

Hangup(n) ==
    /\ peer[n] # None
    /\ peer' = [peer EXCEPT ![n] = None]
    /\ role' = [role EXCEPT ![n] = "none"]
    /\ at' = [at EXCEPT ![n] = 0]
    /\ stream' = [stream EXCEPT ![n] = "none"]
    /\ UNCHANGED <<configVars, daemonVars, requestVars, historyVars>>

(***************************************************************************)
(* Commit                                                                  *)
(***************************************************************************)
\* pairing-commit is served in both roles; only in the prepared role or in
\* the current epoch.
SendCommit(n, b) ==
    /\ up /\ peer[n] # None
    /\ role[n] = "prepared" \/ Permits(n)
    /\ commits' = commits \cup {<<peer[n], b>>}
    /\ UNCHANGED <<configVars, daemonVars, connVars, holds, answer, prepares,
                   historyVars>>

\* Only the owner can sign the context of the binding.
Proves(c, b) == ~revoked /\ bid = b /\ owner = c

Activates(c, b) == Proves(c, b) /\ status = "prepared" /\ ~lapsed

CommitConfig ==
    /\ status' = "active" /\ epoch' = epoch + 1
    /\ paired' = TRUE /\ revoked' = FALSE
    /\ enrollment' = 0 /\ expired' = FALSE
    /\ UNCHANGED <<owner, bound, bid, lapsed>>

CommitNew(c, b, saved, ok) ==
    /\ Activates(c, b) /\ epoch < MaxEpoch
    /\ ok => saved
    /\ IF saved
       THEN CommitConfig /\ won' = [won EXCEPT ![bound] = c]
       ELSE UNCHANGED <<configVars, won>>
    /\ closing' = (closing \/ ok)

\* Refused, or an idempotent success.
CommitSame(c, b, ok) ==
    /\ ~Activates(c, b)
    /\ ok <=> Proves(c, b) /\ status = "active"
    /\ UNCHANGED <<configVars, won, closing>>

Commit(c, b, ok) ==
    /\ up /\ <<c, b>> \in commits
    /\ commits' = commits \ {<<c, b>>}
    /\ \/ \E saved \in BOOLEAN : CommitNew(c, b, saved, ok)
       \/ CommitSame(c, b, ok)
    /\ UNCHANGED <<up, endpointVars, unpairing, connVars, holds, answer,
                   prepares, issued, fence, torn>>

\* closeEphemeralAsync closes whatever server is installed when it runs.
CloseEphemeral ==
    /\ up /\ closing
    /\ closing' = FALSE
    /\ ephem' = 0 /\ ephemOpen' = FALSE
    /\ UNCHANGED <<configVars, up, formal, unpairing, connVars, requestVars,
                   historyVars>>

\* Fault: only the end of the enrollment is watched.
WatchdogByExpiry ==
    /\ up /\ ephemOpen /\ expired /\ Overdue(ephem)
    /\ ephemOpen' = FALSE
    /\ UNCHANGED <<configVars, up, ephem, formal, closing, unpairing, connVars,
                   requestVars, historyVars>>

\* The watchdog closes a server past its deadline; the pointer stays.
Watchdog ==
    /\ up /\ ephemOpen /\ Overdue(ephem)
    /\ ephemOpen' = FALSE
    /\ UNCHANGED <<configVars, up, ephem, formal, closing, unpairing, connVars,
                   requestVars, historyVars>>

(***************************************************************************)
(* Unpair, legacy pairing, endpoint refresh                                *)
(***************************************************************************)
\* What Revoke writes; the identity of the binding stays in the record.
RevokeConfig ==
    /\ status' = "revoked" /\ epoch' = epoch + 1
    /\ paired' = FALSE /\ revoked' = TRUE
    /\ enrollment' = 0 /\ expired' = FALSE
    /\ UNCHANGED <<owner, bound, bid, lapsed>>

\* handleUnpair, first half: Revoke under the lifecycle lock.
Unpair ==
    /\ up /\ unpairing < MaxUnpairs /\ epoch < MaxEpoch
    /\ \E saved \in BOOLEAN :
          IF saved THEN RevokeConfig /\ fence' = issued
                   ELSE UNCHANGED <<configVars, fence>>
    /\ unpairing' = unpairing + 1
    /\ UNCHANGED <<up, endpointVars, closing, connVars, requestVars,
                   issued, won, torn>>

\* Fault: only the ephemeral endpoint is closed.
TearDownEphemeral ==
    /\ up /\ unpairing > 0
    /\ unpairing' = unpairing - 1
    /\ ephem' = 0 /\ ephemOpen' = FALSE
    /\ torn' = (torn \/ Reserved)
    /\ UNCHANGED <<configVars, up, formal, connVars, closing, requestVars,
                   issued, fence, won>>

\* Fault: the half that closes may run once more.
TearDownAgain ==
    /\ up
    /\ unpairing' = unpairing - 1
    /\ ephem' = 0 /\ ephemOpen' = FALSE
    /\ formal' = None /\ CutAll
    /\ torn' = (torn \/ Reserved)
    /\ UNCHANGED <<configVars, up, closing, requestVars, issued, fence, won>>

\* Second half, without the lock and whether or not the write was saved.
TearDown ==
    /\ up /\ unpairing > 0
    /\ unpairing' = unpairing - 1
    /\ ephem' = 0 /\ ephemOpen' = FALSE
    /\ formal' = None /\ CutAll
    /\ torn' = (torn \/ Reserved)
    /\ UNCHANGED <<configVars, up, closing, requestVars, issued, fence, won>>

\* The CLI revokes by itself when no daemon holds the configuration.
OfflineUnpair ==
    /\ ~up /\ epoch < MaxEpoch
    /\ RevokeConfig /\ fence' = issued
    /\ UNCHANGED <<daemonVars, connVars, requestVars, issued, won, torn>>

\* handleLegacyPair takes no lifecycle lock and clears only Paired.
LegacyPair ==
    /\ paired
    /\ paired' = FALSE
    /\ UNCHANGED <<bindingVars, enrollment, expired, revoked, daemonVars,
                   connVars, requestVars, historyVars>>

\* refreshEndpoint: the address is saved, then the server is replaced.
RefreshEndpoint ==
    /\ up /\ ~revoked /\ paired /\ status = "active"
    /\ \E started \in BOOLEAN :
          /\ formal' = IF started THEN owner ELSE None
          /\ torn' = ~started
    /\ CutAll
    /\ UNCHANGED <<configVars, up, ephem, ephemOpen, closing, unpairing,
                   requestVars, issued, fence, won>>

(***************************************************************************)
(* Crashes, restarts and time                                              *)
(***************************************************************************)
Crash ==
    /\ up
    /\ up' = FALSE
    /\ ephem' = 0 /\ ephemOpen' = FALSE /\ formal' = None
    /\ closing' = FALSE /\ unpairing' = 0
    /\ prepares' = {} /\ commits' = {}
    /\ CutAll
    /\ UNCHANGED <<configVars, holds, answer, historyVars>>

\* restoreFromStore, before the control socket is published.
Restart ==
    /\ ~up
    /\ up' = TRUE
    /\ formal' = IF ~Revoked /\ NeedsFormal THEN owner ELSE None
    /\ ephem' = IF ~Revoked /\ ShouldRestore THEN enrollment ELSE 0
    /\ ephemOpen' = (~Revoked /\ ShouldRestore)
    /\ torn' = FALSE
    /\ UNCHANGED <<configVars, closing, unpairing, connVars, requestVars,
                   issued, fence, won>>

Expire ==
    /\ enrollment # 0 /\ ~expired
    /\ expired' = TRUE
    /\ UNCHANGED <<bindingVars, enrollment, paired, revoked, daemonVars,
                   connVars, requestVars, historyVars>>

\* Ten minutes from the prepare: later than the enrollment's own end.
Lapse ==
    /\ status = "prepared" /\ expired /\ ~lapsed
    /\ lapsed' = TRUE
    /\ UNCHANGED <<status, owner, bound, bid, epoch, enrollment, expired,
                   paired, revoked, daemonVars, connVars, requestVars,
                   historyVars>>

Operate ==
    \/ Connect \/ Unpair \/ TearDown \/ OfflineUnpair \/ LegacyPair
    \/ RefreshEndpoint \/ CloseEphemeral \/ Watchdog

\* What a controller may ask, in any order; it knows a binding ID only from
\* the answer to its prepare.
Ask ==
    \/ \E c \in Controllers : Paste(c) \/ SendPrepare(c)
    \/ \E n \in Conns, c \in Controllers : Dial(n, c)
    \/ \E n \in Conns : Grant(n) \/ OpenStream(n) \/ Hangup(n)
    \/ \E n \in Conns, b \in 1..MaxEpoch :
           peer[n] # None /\ b = answer[peer[n]] /\ SendCommit(n, b)

\* A request gets the lifecycle lock.
Serve ==
    \E c \in Controllers, ok \in BOOLEAN :
        \/ \E e \in Enrollments : Prepare(e, c, ok)
        \/ \E b \in 1..MaxEpoch : Commit(c, b, ok)

Environment == Crash \/ Restart \/ Expire \/ Lapse

Next == Operate \/ Ask \/ Serve \/ Environment

Spec == Init /\ [][Next]_vars

\* The unpair handler, the goroutine of a commit and the watchdog's ticker
\* are never blocked.
Fairness == WF_vars(TearDown) /\ WF_vars(CloseEphemeral) /\ WF_vars(Watchdog)

LiveSpec == Spec /\ Fairness

(***************************************************************************)
(* What the agent promises: at any time one controller at most has access, *)
(* by an enrollment nobody used before.                                    *)
(***************************************************************************)
Promise == INSTANCE AccessGrant
    WITH holder <- IF status = "active" THEN owner ELSE None,
         spent <- {e \in Enrollments : won[e] # None}

\* The binding state machine implements that promise through renewals,
\* retries, unpairs, crashes and uncertain writes.
GrantSpec == Promise!Spec

(***************************************************************************)
(* Properties                                                              *)
(***************************************************************************)
\* A stream to the terminal belongs to the active binding and to the epoch
\* it was activated in.  Only an unpair between its two halves may still
\* have streams of the access it took away.
StreamsAuthorized ==
    \A n \in Conns :
        stream[n] # "none" /\ unpairing = 0 =>
            status = "active" /\ owner = peer[n] /\ at[n] = epoch

\* An enrollment that was issued before access was revoked, however its
\* requests are delayed, never holds a binding again.
NoResurrection == Reserved => bound > fence

\* One connection string is answered to one controller only, whatever was
\* retried, lost, renewed or restarted.
OneController ==
    \A c, d \in Controllers :
        answer[c] # 0 /\ answer[d] # 0 /\ holds[c] = holds[d] => c = d

\* While the daemon runs, the controller of a live binding has its endpoint,
\* unless an unpair or a failed refresh closed it.
BindingServed ==
    up /\ Reserved /\ ~lapsed /\ unpairing = 0 /\ ~torn => formal = owner

\* An ephemeral server that listens is that of the current enrollment, or
\* its deadline has passed and the watchdog will close it.
EphemeralCurrent == ephemOpen => ephem = enrollment \/ Overdue(ephem)

\* Every change of who may use the agent, or of what they may do, has an
\* epoch of its own: nothing authorized before it passes for current.
ChangesAreFenced ==
    [][ /\ epoch' >= epoch
        /\ <<status, owner, bid>>' # <<status, owner, bid>> => epoch' > epoch
      ]_vars

\* Only the controller the enrollment was reserved for activates the
\* binding, and only before the reservation ends.
ActivatesReserved ==
    [][ status # "active" /\ status' = "active" =>
           /\ status = "prepared" /\ ~lapsed
           /\ owner' = owner /\ bid' = bid
           /\ answer[owner] \in {0, bid}
      ]_vars

\* The strengthening that makes the safety properties inductive.  Nothing is
\* ahead of its counter;
CountsFit ==
    /\ fence <= issued /\ bid <= epoch
    /\ \A n \in Conns : at[n] <= epoch
    /\ \A c \in Controllers : holds[c] <= issued
    /\ \A e \in Enrollments : won[e] # None => e <= issued

\* the parts of the configuration fit each other and the history;
RecordFits ==
    /\ enrollment # 0 =>
          fence < enrollment /\ enrollment <= issued /\ won[enrollment] = None
    /\ Reserved => owner \in Controllers /\ bound > fence /\ bid > 0
    /\ status = "prepared" => bound = enrollment
    /\ status = "active" => enrollment = 0 /\ ~lapsed /\ won[bound] = owner
    /\ paired => status = "active"
    /\ revoked <=> status = "revoked"

\* what controllers were told fits the configuration;
RequestsFit ==
    /\ \A p \in prepares : holds[p[2]] = p[1]
    /\ \A c \in Controllers : answer[c] # 0 => holds[c] # 0
    /\ \A c \in Controllers :
          enrollment # 0 /\ answer[c] # 0 /\ holds[c] = enrollment =>
              status = "prepared"
    /\ \A c \in Controllers :
          Reserved /\ answer[c] # 0 /\ holds[c] = bound =>
              owner = c /\ answer[c] = bid
    /\ Reserved => holds[owner] = bound

\* and so do the endpoints and their connections.
EndpointsFit ==
    /\ ~up => ~ephemOpen /\ formal = None /\ unpairing = 0
    /\ ephemOpen => ephem # 0
    /\ ephemOpen => ephem = enrollment \/ status \in {"active", "revoked"}
    /\ \A n \in Conns :
          IF peer[n] = None THEN stream[n] = "none" ELSE formal = peer[n]
    /\ \A n \in Conns : peer[n] # None /\ at[n] = epoch => owner = peer[n]

IInv ==
    /\ TypeOK /\ CountsFit /\ RecordFits /\ RequestsFit /\ EndpointsFit
    /\ StreamsAuthorized /\ OneController /\ BindingServed

\* Access that was taken away ends, also when nobody hangs up.
AccessEnds ==
    \A n \in Conns :
        (stream[n] # "none" /\ at[n] # epoch) ~> (stream[n] = "none")

\* A server past its deadline does not stay open.
OverdueCloses == (ephemOpen /\ Overdue(ephem)) ~> ~(ephemOpen /\ Overdue(ephem))

\* What was taken away ends, the access of a binding and the endpoint of an
\* enrollment: AccessEnds, OverdueCloses.
EverythingEnds == AccessEnds /\ OverdueCloses
=============================================================================
