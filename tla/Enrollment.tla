----------------------------- MODULE Enrollment -----------------------------
(***************************************************************************)
(* A website adds an agent as a host: the enrollment tasks of internal/    *)
(* store/enrollment.go and their worker in internal/httpapi/               *)
(* enrollment_worker.go, composed with the agent of AgentBinding.          *)
(*                                                                         *)
(* The tasks are those of one user for one agent, so that the unique       *)
(* indexes of the store are on all of them.  A task generates the request  *)
(* ID, controller ID and keys of one controller.  Controllers that are not *)
(* tasks belong to other websites with a copy of the connection string.    *)
(*                                                                         *)
(* The worker is one goroutine per task.  Each of its messages and each of *)
(* its transactions is an action; between any two of them it may time out, *)
(* lose its connection or disappear with the web server, and the agent may *)
(* do anything.  A later poll of the task starts a new worker from what    *)
(* the store holds.  A worker whose 45 seconds are over cannot record its  *)
(* failure either: it uses the same context.                               *)
(***************************************************************************)
EXTENDS AgentBinding

CONSTANT Tasks  \* the tasks, by the controller each stands for

ASSUME EnrollmentAssumption == Tasks \subseteq Controllers

VARIABLES
    phase,      \* EnrollmentTask.Phase
    taskBid,    \* EnrollmentTask.BindingID, 0 if empty
    host,       \* the task whose host row exists
    work        \* where the task's create request or worker is

webVars == <<phase, taskBid, host, work>>
allVars == <<vars, webVars>>

Phases == {"absent", "pending", "prepared", "committing", "active", "failed"}
PrepareWork == {"prepare", "preparing", "saving", "failing"}
CommitWork == {"commit", "dial", "status", "sign", "waiting", "finalize"}
Works == {"idle", "checking"} \cup PrepareWork \cup CommitWork

WebTypeOK ==
    /\ phase \in [Tasks -> Phases]
    /\ taskBid \in [Tasks -> 0..MaxEpoch]
    /\ host \in Tasks \cup {None}
    /\ work \in [Tasks -> Works]
    /\ \A t \in Tasks :
          /\ work[t] = "checking" => phase[t] = "absent"
          /\ work[t] \in PrepareWork => phase[t] = "pending" /\ taskBid[t] = 0
          /\ work[t] \in CommitWork => phase[t] \in {"prepared", "committing"}

WebInit ==
    /\ phase = [t \in Tasks |-> "absent"]
    /\ taskBid = [t \in Tasks |-> 0]
    /\ host = None
    /\ work = [t \in Tasks |-> "idle"]

\* phase NOT IN ('active','failed'), the predicate of the unique index.
InFlight == {t \in Tasks : phase[t] \notin {"absent", "active", "failed"}}

Goes(t, where) == work' = [work EXCEPT ![t] = where]

(***************************************************************************)
(* createTailcatEnrollment                                                 *)
(***************************************************************************)
\* No host and no task in flight: the request generates keys and goes on.
CheckCreate(t) ==
    /\ phase[t] = "absent" /\ work[t] = "idle" /\ holds[t] # 0
    /\ host = None /\ InFlight = {}
    /\ Goes(t, "checking")
    /\ UNCHANGED <<vars, phase, taskBid, host>>

\* Fault: the insert relies on what the request read before.
CreateUnchecked(t) ==
    /\ work[t] = "checking"
    /\ phase' = [phase EXCEPT ![t] = "pending"]
    /\ Goes(t, "idle")
    /\ UNCHANGED <<vars, taskBid, host>>

\* The insert is refused by the unique index if a task came in between.
Create(t) ==
    /\ work[t] = "checking"
    /\ phase' = IF InFlight = {} THEN [phase EXCEPT ![t] = "pending"]
                                 ELSE phase
    /\ Goes(t, "idle")
    /\ UNCHANGED <<vars, taskBid, host>>

(***************************************************************************)
(* executeEnrollment                                                       *)
(***************************************************************************)
\* Fault: a prepared task without a worker is taken for finished.
StartUnprepared(t) ==
    /\ work[t] = "idle" /\ phase[t] \in {"pending", "committing"}
    /\ Goes(t, IF phase[t] = "pending" THEN "prepare" ELSE "commit")
    /\ UNCHANGED <<vars, phase, taskBid, host>>

\* Fault: a worker begins at the beginning, whatever was recorded.
StartOver(t) ==
    /\ work[t] = "idle" /\ t \in InFlight
    /\ Goes(t, "prepare")
    /\ UNCHANGED <<vars, phase, taskBid, host>>

\* Any poll of an unfinished task starts its worker, if none runs.
Start(t) ==
    /\ work[t] = "idle" /\ t \in InFlight
    /\ Goes(t, IF phase[t] = "pending" \/ taskBid[t] = 0 THEN "prepare"
                                                         ELSE "commit")
    /\ UNCHANGED <<vars, phase, taskBid, host>>

\* The credential is missing or cannot be read: a new worker fails the task,
\* unless it is committing.
StartFails(t) ==
    /\ work[t] = "idle" /\ t \in InFlight
    /\ phase' = IF phase[t] = "committing" THEN phase ELSE [phase EXCEPT ![t] = "failed"]
    /\ UNCHANGED <<vars, taskBid, host, work>>

RequestPrepare(t) ==
    /\ work[t] = "prepare"
    /\ SendPrepare(t)
    /\ Goes(t, "preparing")
    /\ UNCHANGED <<phase, taskBid, host>>

\* The agent serves the request; the answer may not arrive.
PrepareServed(t, ok) ==
    /\ \E e \in Enrollments : Prepare(e, t, ok)
    /\ work' \in {work, [work EXCEPT ![t] = IF ok THEN "saving" ELSE "failing"]}
    /\ work[t] # "preparing" => work' = work
    /\ UNCHANGED <<phase, taskBid, host>>

SavePrepared(t) ==
    /\ work[t] = "saving" /\ phase[t] \in {"pending", "prepared"}
    /\ phase' = [phase EXCEPT ![t] = "prepared"]
    /\ taskBid' = [taskBid EXCEPT ![t] = answer[t]]
    /\ Goes(t, "commit")
    /\ UNCHANGED <<vars, host>>

\* An error of prepareEnrollment while the worker has time left.  A dial that
\* nobody answers takes all of it, and the worker ends with Vanish.
PrepareFails(t) ==
    /\ work[t] \in {"prepare", "preparing", "saving"}
    /\ Goes(t, "failing")
    /\ UNCHANGED <<vars, phase, taskBid, host>>

FailEnrollment(t) ==
    /\ work[t] = "failing"
    /\ phase' = IF phase[t] \in {"active", "committing"}
                THEN phase ELSE [phase EXCEPT ![t] = "failed"]
    /\ Goes(t, "idle")
    /\ UNCHANGED <<vars, taskBid, host>>

(***************************************************************************)
(* commitEnrollment                                                        *)
(***************************************************************************)
\* Fault: a task that was committing before is a conflict that ends the worker.
MarkOnce(t) ==
    /\ work[t] = "commit"
    /\ phase' = [phase EXCEPT ![t] = "committing"]
    /\ Goes(t, IF phase[t] = "prepared" THEN "dial" ELSE "idle")
    /\ UNCHANGED <<vars, taskBid, host>>

\* A conflict is ignored: the worker goes on with what it has.
MarkCommitting(t) ==
    /\ work[t] = "commit"
    /\ phase' = IF phase[t] \in {"prepared", "committing"}
                THEN [phase EXCEPT ![t] = "committing"] ELSE phase
    /\ Goes(t, "dial")
    /\ UNCHANGED <<vars, taskBid, host>>

DialFormal(t, n) ==
    /\ work[t] = "dial"
    /\ Dial(n, t)
    /\ Goes(t, "status")
    /\ UNCHANGED <<phase, taskBid, host>>

\* pairing-status of the formal endpoint says that this binding is active.
AlreadyActive(t, n) ==
    /\ role[n] = "prepared" \/ Permits(n)
    /\ status = "active" /\ bid = taskBid[t]

ReadStatus(t, n) ==
    /\ work[t] = "status" /\ peer[n] = t
    /\ Goes(t, IF AlreadyActive(t, n) THEN "finalize" ELSE "sign")
    /\ UNCHANGED <<vars, phase, taskBid, host>>

RequestCommit(t, n) ==
    /\ work[t] = "sign" /\ peer[n] = t
    /\ SendCommit(n, taskBid[t])
    /\ Goes(t, "waiting")
    /\ UNCHANGED <<phase, taskBid, host>>

\* An error, or no answer, leaves the task committing for the next worker.
CommitServed(t, ok) ==
    /\ \E b \in 1..MaxEpoch : Commit(t, b, ok)
    /\ work' \in {work, [work EXCEPT ![t] = IF ok THEN "finalize" ELSE "idle"]}
    /\ work[t] # "waiting" => work' = work
    /\ UNCHANGED <<phase, taskBid, host>>

\* Fault: a commit without an answer is taken for done.
AbandonAsDone(t) ==
    /\ work[t] \in CommitWork
    /\ Goes(t, IF work[t] = "waiting" THEN "finalize" ELSE "idle")
    /\ UNCHANGED <<vars, phase, taskBid, host>>

\* Fault: a commit without an answer fails the task.
AbandonAsFailed(t) ==
    /\ work[t] \in CommitWork
    /\ phase' = [phase EXCEPT ![t] = "failed"]
    /\ Goes(t, "idle")
    /\ UNCHANGED <<vars, taskBid, host>>

\* Any error of commitEnrollment, a lost answer included.
AbandonCommit(t) ==
    /\ work[t] \in CommitWork
    /\ Goes(t, "idle")
    /\ UNCHANGED <<vars, phase, taskBid, host>>

\* One transaction: the phase, the host row and the credential.
FinalizeActive(t) ==
    /\ work[t] = "finalize"
    /\ IF phase[t] \in {"prepared", "committing"} /\ host = None
       THEN /\ phase' = [phase EXCEPT ![t] = "active"]
            /\ host' = t
       ELSE UNCHANGED <<phase, host>>
    /\ Goes(t, "idle")
    /\ UNCHANGED <<vars, taskBid>>

\* The context is over, or the web server restarts: nothing is recorded.
Vanish(t) ==
    /\ work[t] # "idle"
    /\ Goes(t, "idle")
    /\ UNCHANGED <<vars, phase, taskBid, host>>

DeleteHost ==
    /\ host # None
    /\ host' = None
    /\ UNCHANGED <<vars, phase, taskBid, work>>

(***************************************************************************)
(* The system                                                              *)
(***************************************************************************)
Worker(t) ==
    \/ CheckCreate(t) \/ Create(t) \/ Start(t) \/ StartFails(t)
    \/ RequestPrepare(t) \/ SavePrepared(t) \/ PrepareFails(t)
    \/ FailEnrollment(t) \/ MarkCommitting(t)
    \/ \E n \in Conns : \/ DialFormal(t, n) \/ ReadStatus(t, n)
                        \/ RequestCommit(t, n)
    \/ AbandonCommit(t) \/ FinalizeActive(t) \/ Vanish(t)

AgentServes ==
    \E t \in Tasks, ok \in BOOLEAN : PrepareServed(t, ok) \/ CommitServed(t, ok)

\* Another website with the same connection string.
Stranger(c) ==
    /\ \/ SendPrepare(c)
       \/ \E n \in Conns : Dial(n, c)
       \/ \E n \in Conns : peer[n] = c /\ answer[c] # 0 /\ SendCommit(n, answer[c])
       \/ \E e \in Enrollments, ok \in BOOLEAN : Prepare(e, c, ok)
       \/ \E b \in 1..MaxEpoch, ok \in BOOLEAN : Commit(c, b, ok)
    /\ UNCHANGED webVars

\* The agent by itself, the user at its terminal, and connections that break.
Agent ==
    /\ \/ Operate \/ Environment
       \/ \E c \in Controllers : Paste(c)
       \/ \E n \in Conns : Hangup(n)
    /\ UNCHANGED webVars

SystemNext ==
    \/ Agent \/ AgentServes \/ DeleteHost
    \/ \E t \in Tasks : Worker(t)
    \/ \E c \in Controllers \ Tasks : Stranger(c)

SystemSpec == Init /\ WebInit /\ [][SystemNext]_allVars

\* The worker of t has no formal connection of its own: the one it had, or
\* that of a worker before it, is closed.
Unconnected(t) == work[t] \notin {"status", "sign", "waiting", "finalize"}

\* The page that adds a host polls its task; a worker ends, its dials and
\* transactions with its 45 seconds and its SSH calls with their connection; the
\* agent serves its requests and its service is restarted; the connections of
\* workers that ended break; and a step of the commit that every new worker
\* attempts again, while it has time, is not lost for ever.  Nothing is said of
\* the prepare: its endpoint may be out of reach for good, and then the failure
\* is not recorded either.
SystemFairness ==
    /\ WF_allVars(AgentServes)
    /\ WF_allVars(Restart /\ UNCHANGED webVars)
    /\ \A t \in Tasks :
          /\ WF_allVars(Start(t)) /\ WF_allVars(Vanish(t))
          /\ SF_allVars(MarkCommitting(t)) /\ SF_allVars(FinalizeActive(t))
          /\ \A n \in Conns :
                /\ WF_allVars(/\ Unconnected(t) /\ peer[n] = t /\ Hangup(n)
                              /\ UNCHANGED webVars)
                /\ SF_allVars(DialFormal(t, n))
                /\ SF_allVars(ReadStatus(t, n))

SystemLiveSpec == SystemSpec /\ SystemFairness

(***************************************************************************)
(* Properties                                                              *)
(***************************************************************************)
\* The agent is never bound to a task the website has given up: whatever
\* fails after the prepare, the task stays where a retry finds it.
BoundIsRemembered ==
    status = "active" /\ owner \in Tasks =>
        phase[owner] \in {"committing", "active"}

\* A host appears only for a task whose binding the agent did activate.
HostWasBound ==
    \A t \in Tasks : phase[t] = "active" => won[holds[t]] = t

\* Of all the create requests for an agent one at most makes a task that is
\* in flight.
OneInFlight == \A s, t \in InFlight : s = t

\* A website and the agent agree about every task, at any moment and whatever
\* is lost between them.
EnrollmentKeepsTrack == BoundIsRemembered /\ HostWasBound /\ OneInFlight

\* The strengthening that makes these inductive.  A binding ID belongs to
\* the controller it was answered to;
BidsFit ==
    \A c \in Controllers :
        /\ answer[c] <= epoch
        /\ answer[c] # 0 /\ answer[c] = bid => owner = c

\* what the store and the worker have of a task fits what the agent said.
TaskFits(t) ==
    /\ phase[t] \in {"absent", "pending"} => taskBid[t] = 0
    /\ phase[t] \in {"prepared", "committing", "active"} =>
          taskBid[t] = answer[t] /\ answer[t] # 0
    /\ work[t] = "saving" => answer[t] # 0
    /\ work[t] \in CommitWork \ {"commit"} => phase[t] = "committing"
    /\ \A r \in commits : r[1] = t => phase[t] \in {"committing", "active"}
    /\ work[t] = "finalize" \/ phase[t] = "active" =>
          holds[t] # 0 /\ won[holds[t]] = t

SystemInv ==
    /\ IInv /\ WebTypeOK /\ BidsFit
    /\ \A t \in Tasks : TaskFits(t)
    /\ BoundIsRemembered /\ OneInFlight

\* A website never holds the keys to an agent without showing the host: an
\* agent that stays bound to a task, and reachable, makes the task active.
Bound(t) ==
    up /\ status = "active" /\ owner = t /\ paired /\ formal = t /\ unpairing = 0

BoundBecomesHost ==
    \A t \in Tasks : <>[]Bound(t) => <>(phase[t] = "active")

\* A task that was prepared does not stay there, whatever happens to its workers
\* and to the agent: it goes on to its commit or is recorded as failed.
PreparedGoesOn ==
    \A t \in Tasks : phase[t] = "prepared" ~> phase[t] \in {"committing", "active", "failed"}

\* A host that was bound becomes a row, and a task that was prepared goes on to
\* its commit: BoundBecomesHost, PreparedGoesOn.
EnrollmentGoesOn == BoundBecomesHost /\ PreparedGoesOn

\* docs/design/tailcat-onboarding-v0.5.md:243 says that after a crash of
\* either side at any step a task is retried or fails for certain: also if
\* nobody unpairs the agent, a task that reached its commit ends.
EnrollmentEnds ==
    [](~revoked) =>
        \A t \in Tasks : phase[t] = "committing" ~> phase[t] \in {"active", "failed"}
=============================================================================
