------------------------------ MODULE Updater ------------------------------
(***************************************************************************)
(* Updating the CLI of a remote host: internal/updater/install.go (the     *)
(* versioned binaries, the stable entry and state.json) and the commands   *)
(* update and rollback of internal/agentcli/update.go that drive them.     *)
(*                                                                         *)
(* A run of the tool holds the lock of the release directory, so there is  *)
(* one at a time; it may be killed between any two of its steps, and any   *)
(* write may fail before or after it took effect (a rename whose directory *)
(* could not be synced).  The service runs what the stable entry holds     *)
(* when the supervisor starts it, which the supervisor may do at any time. *)
(* While no run is on, the owner may install a binary by hand.             *)
(*                                                                         *)
(* A binary stands for its bytes.  Signatures, identities, epochs and the  *)
(* formats a candidate must be able to read only decide whether a self     *)
(* test passes, so a self test may fail at any time.                       *)
(***************************************************************************)
EXTENDS Naturals

CONSTANTS Bins,        \* binaries
          VersionOf,   \* [Bins -> version]: the version a binary reports
          None         \* no release, no service process

Versions == {VersionOf[b] : b \in Bins}
Releases == [dir : {"version", "initial"}, bin : Bins]

ASSUME BinsAssumption ==
  /\ None \notin Bins /\ None \notin Releases
  /\ VersionOf \in [Bins -> Nat]

States == [current : Releases \cup {None}, previous : Releases \cup {None},
           pending : Releases \cup {None}]
NoState == [current |-> None, previous |-> None, pending |-> None]

VARIABLES
  stable,     \* what the stable entry holds
  store,      \* <releases>/<version>/herdrx: its bytes, or None
  initial,    \* the bytes saved as <releases>/initial-<digest>/herdrx
  saved,      \* state.json
  pc,         \* where the run stands
  mem,        \* Manager.state of the run
  target,     \* the candidate of the run
  before,     \* what the stable entry held when the run tested it
  recovered,  \* Manager.Recovered
  goal,       \* what the run restarts the service for
  outcome,    \* how the last run ended
  service,    \* what the service runs
  confirmed   \* history: binaries installed by hand or seen ready after a switch

files == <<stable, store, initial, saved>>
run == <<pc, mem, target, before, recovered, goal, outcome>>
world == <<service, confirmed>>
vars == <<files, run, world>>

----------------------------------------------------------------------------
Init ==
  /\ stable \in Bins
  /\ store = [v \in Versions |-> None]
  /\ initial = {}
  /\ saved = NoState
  /\ pc = "idle" /\ mem = NoState /\ target = None /\ before = None
  /\ recovered = FALSE /\ goal = "target" /\ outcome = "none"
  /\ service = stable
  /\ confirmed = {stable}

\* Release.verify: the recorded bytes are still where the record says.
Verified(r) ==
  /\ r # None
  /\ IF r.dir = "version" THEN store[VersionOf[r.bin]] = r.bin ELSE r.bin \in initial

\* The run returns: the lock is released and nothing is kept in memory.
End(how) ==
  /\ pc' = "idle" /\ mem' = NoState /\ target' = None /\ before' = None
  /\ recovered' = FALSE /\ goal' = "target"
  /\ outcome' = how

\* The run goes on at another step.
Go(step) == pc' = step

----------------------------------------------------------------------------
(* Writes.  ok and failed are what the run does then.                      *)

\* Manager.persist and Commit's write of state.json.
Save(next, ok, failed) ==
  /\ \/ saved' = next /\ ok
     \/ saved' \in {saved, next} /\ failed
  /\ UNCHANGED <<stable, store, initial>>

\* replaceLink
Relink(r, ok, failed) ==
  /\ \/ stable' = r.bin /\ ok
     \/ stable' \in {stable, r.bin} /\ failed
  /\ UNCHANGED <<store, initial, saved>>

----------------------------------------------------------------------------
(* Open, with the recovery of an interrupted transaction.                  *)

Begin(r) ==
  /\ pc = "idle"
  /\ mem' = saved
  /\ target' = r
  /\ outcome' = "running"
  /\ Go(IF saved.pending # None THEN "recover" ELSE "probe")
  /\ UNCHANGED <<before, recovered, goal, files, world>>

BeginUpdate(b) == Begin([dir |-> "version", bin |-> b])
BeginRollback == Begin(None)

----------------------------------------------------------------------------
(* Abort: the entry first, the record of the transaction after it.  It is  *)
(* called by Open and by applyRelease.                                     *)

\* The entry is one of the two the transaction knows, and the old bytes are there.
Restorable == stable \in {mem.pending.bin, mem.current.bin} /\ Verified(mem.current)

RestoreLink(at, next) ==
  /\ pc = at
  /\ IF Restorable
     THEN Relink(mem.current, Go(next) /\ UNCHANGED <<mem, target, before, recovered, goal, outcome>>,
                 End("recoveryFailed"))
     ELSE End("recoveryFailed") /\ UNCHANGED files
  /\ UNCHANGED world

ClearPending(at, done) ==
  /\ pc = at
  /\ LET cleared == [mem EXCEPT !.pending = None]
     IN  Save(cleared, mem' = cleared /\ done, End("recoveryFailed"))
  /\ UNCHANGED world

OpenRestore == RestoreLink("recover", "recoverSave")
OpenClear ==
  ClearPending("recoverSave",
    Go("probe") /\ recovered' = TRUE /\ UNCHANGED <<target, before, goal, outcome>>)

AbortRestore == RestoreLink("abort", "abortSave")
AbortClear ==
  ClearPending("abortSave",
    Go("restart") /\ goal' = "previous" /\ UNCHANGED <<target, before, recovered, outcome>>)

----------------------------------------------------------------------------
(* installVerifiedUpdate and runRollback up to applyRelease.               *)

\* A self test, the service's unit, the version order or the record of the
\* previous binary makes the run return before it changed anything.
Refuse ==
  /\ pc \in {"probe", "stage", "probeTarget"}
  /\ End("refused")
  /\ UNCHANGED <<files, world>>

\* The installed binary's self test passes and the unit is the generated one.
Probe ==
  /\ pc = "probe"
  /\ before' = stable
  /\ IF recovered THEN Go("restart") /\ goal' = "recovered" ELSE Go("stage") /\ UNCHANGED goal
  /\ UNCHANGED <<mem, target, recovered, outcome, files, world>>

\* Prepare and saveRelease: a version's bytes are written once.
Stage ==
  /\ pc = "stage" /\ target # None
  /\ store[VersionOf[target.bin]] \in {None, target.bin}
  /\ LET written == [store EXCEPT ![VersionOf[target.bin]] = target.bin]
     IN  \/ store' = written /\ Go("probeTarget")
            /\ UNCHANGED <<mem, target, before, recovered, goal, outcome>>
         \/ store' \in {store, written} /\ End("refused")
  /\ UNCHANGED <<stable, initial, saved, world>>

\* Previous
PickPrevious ==
  /\ pc = "stage" /\ target = None
  /\ Verified(mem.previous)
  /\ target' = mem.previous
  /\ Go("probeTarget")
  /\ UNCHANGED <<mem, before, recovered, goal, outcome, files, world>>

ProbeTarget ==
  /\ pc = "probeTarget"
  /\ Go("capture")
  /\ UNCHANGED <<mem, target, before, recovered, goal, outcome, files, world>>

----------------------------------------------------------------------------
(* applyRelease: Switch, restart, Commit.                                  *)

\* captureCurrent: the record that describes the entry's bytes.
Captured ==
  IF mem.current # None /\ mem.current.bin = stable /\ Verified(mem.current)
  THEN mem.current ELSE [dir |-> "initial", bin |-> stable]

\* Switch up to its first write of state.json.
Capture ==
  /\ pc = "capture"
  /\ Verified(target)    \* always: nobody else writes the store while the run holds the lock
  /\ LET wanted == IF Captured.dir = "initial" THEN initial \cup {stable} ELSE initial
     IN  \/ /\ initial' = wanted
            /\ \/ /\ stable = target.bin
                  /\ goal' = "same" /\ Go("glance") /\ UNCHANGED <<mem, outcome, target, before, recovered>>
               \/ /\ stable # target.bin /\ VersionOf[stable] = VersionOf[target.bin]
                  /\ End("refused")
               \/ /\ VersionOf[stable] # VersionOf[target.bin]
                  /\ mem' = [mem EXCEPT !.current = Captured, !.pending = target]
                  /\ Go("switchSave") /\ UNCHANGED <<target, before, recovered, goal, outcome>>
         \/ initial' \in {initial, wanted} /\ wanted # initial /\ End("refused")
  /\ UNCHANGED <<stable, store, saved, world>>

\* What the later steps of applyRelease leave alone.
Keep == UNCHANGED <<mem, target, before, recovered, outcome>>

\* Fault: the entry is changed without a record to recover from.
SwitchUnrecorded ==
  /\ pc = "switchSave"
  /\ Go("switchLink") /\ Keep
  /\ UNCHANGED <<goal, files, world>>

SwitchSave ==
  /\ pc = "switchSave"
  /\ Save(mem, Go("switchLink") /\ Keep /\ UNCHANGED goal, Go("abort") /\ Keep /\ UNCHANGED goal)
  /\ UNCHANGED world

SwitchLink ==
  /\ pc = "switchLink"
  /\ Relink(target, Go("restart") /\ goal' = "target" /\ Keep, Go("abort") /\ Keep /\ UNCHANGED goal)
  /\ UNCHANGED world

----------------------------------------------------------------------------
(* restartAndWait                                                          *)

Expected == VersionOf[IF goal = "target" THEN target.bin ELSE before]

\* Fault: a failed restart is not told apart from a ready service.
NotReadyIgnored ==
  IF goal = "target" THEN Go("commit") /\ Keep /\ UNCHANGED goal ELSE End("notReady")

\* Restarting the service or waiting for it failed.
NotReady ==
  IF goal = "target" THEN Go("abort") /\ Keep /\ UNCHANGED goal ELSE End("notReady")

\* runner.Restart; the new process may die at once.
Restart ==
  /\ pc = "restart"
  /\ \/ service' \in {stable, None} /\ Go("wait") /\ Keep /\ UNCHANGED goal
     \/ service' \in {service, stable, None} /\ NotReady
  /\ UNCHANGED <<confirmed, files>>

\* Fault: any daemon that answers is ready; a daemon that does not
\* answer is taken for ready.
IsReadyWhateverVersion == service # None
IsReadyUnanswered == service # None => VersionOf[service] = Expected

IsReady == service # None /\ VersionOf[service] = Expected

\* waitForReadiness sees the version it waits for.
Ready ==
  /\ pc \in {"wait", "glance"}
  /\ IsReady
  /\ IF goal = "target"
     THEN Go("commit") /\ confirmed' = confirmed \cup {service} /\ Keep /\ UNCHANGED goal
     ELSE /\ End(CASE goal = "previous" -> "restored" [] goal = "recovered" -> "recovered"
                   [] goal = "same" -> "unchanged")
          /\ UNCHANGED confirmed
  /\ UNCHANGED <<service, files>>

\* Its time is up.  An unchanged binary gets a restart before that counts.
Late ==
  /\ \/ pc = "wait" /\ NotReady
     \/ pc = "glance" /\ Go("restart") /\ Keep /\ UNCHANGED goal
  /\ UNCHANGED <<files, world>>

\* What Commit writes.
Committed == [current |-> mem.pending, previous |-> mem.current, pending |-> None]

Commit ==
  /\ pc = "commit"
  /\ Save(Committed, End("installed"), Go("abort") /\ Keep /\ UNCHANGED goal)
  /\ UNCHANGED world

----------------------------------------------------------------------------
(* What happens around a run.                                              *)

\* The run is killed: the kernel drops its lock.
Crash ==
  /\ pc # "idle"
  /\ End("crashed")
  /\ UNCHANGED <<files, world>>

\* The service dies, or its supervisor starts what the entry holds.
Supervise ==
  /\ service' \in {stable, None} \ {service}
  /\ UNCHANGED <<confirmed, files, run>>

\* The owner runs the installer script, or copies a binary over the entry.
Reinstall(b) ==
  /\ pc = "idle" /\ b # stable
  /\ stable' = b
  /\ confirmed' = confirmed \cup {b}
  /\ outcome' = "none"
  /\ UNCHANGED <<store, initial, saved, pc, mem, target, before, recovered, goal, service>>

Tool ==
  \/ OpenRestore \/ OpenClear \/ Refuse \/ Probe \/ Stage \/ PickPrevious \/ ProbeTarget
  \/ Capture \/ SwitchSave \/ SwitchLink \/ Restart \/ Ready \/ Late
  \/ Commit \/ AbortRestore \/ AbortClear

Next ==
  \/ \E b \in Bins : BeginUpdate(b) \/ Reinstall(b)
  \/ BeginRollback
  \/ Tool
  \/ Crash
  \/ Supervise

Spec == Init /\ [][Next]_vars

----------------------------------------------------------------------------
TypeOK ==
  /\ stable \in Bins /\ service \in Bins \cup {None} /\ confirmed \subseteq Bins
  /\ store \in [Versions -> Bins \cup {None}] /\ initial \subseteq Bins
  /\ saved \in States /\ mem \in States
  /\ target \in Releases \cup {None} /\ before \in Bins \cup {None}
  /\ recovered \in BOOLEAN
  /\ goal \in {"target", "previous", "recovered", "same"}
  /\ outcome \in {"none", "running", "refused", "installed", "unchanged", "restored",
                  "recovered", "notReady", "recoveryFailed", "crashed"}
  /\ pc \in {"idle", "recover", "recoverSave", "probe", "stage", "probeTarget", "capture",
             "switchSave", "switchLink", "restart", "wait", "glance", "commit", "abort", "abortSave"}

\* Whatever fails and wherever a run is killed, the stable entry holds a
\* binary that is known to work, or state.json names it as the candidate of an
\* open transaction and the known binary to go back to is in its place on disk
\* (Switch persists the recovery information before it touches the entry).
EntryIsRecoverable ==
  \/ stable \in confirmed
  \/ /\ saved.pending # None /\ saved.pending.bin = stable
     /\ Verified(saved.current) /\ saved.current.bin \in confirmed

\* Every record of state.json and of a run's memory finds its bytes where it
\* says: no later release, capture or retry writes over them.  The rollback
\* point of a record is a binary that is known to work.
RecordsVerify ==
  \A s \in {saved, mem} :
    /\ \A r \in {s.current, s.previous, s.pending} : r # None => Verified(r)
    /\ s.previous # None => s.previous.bin \in confirmed

\* A run that returns by itself leaves no transaction open without saying that
\* the recovery failed.
OpenIsReported ==
  outcome \in {"refused", "installed", "unchanged", "restored", "recovered", "notReady"}
    => saved.pending = None

\* The rollback point is only replaced by a commit, by the binary that was
\* installed until then, and never by the binary that is being installed: a
\* retry, a failed update or a recovery keeps it
\* (docs/update-and-recovery.md:59).  A commit that was written and then failed
\* is undone: the rollback point it replaced comes back.
RollbackPointKept ==
  [][saved'.previous # saved.previous =>
       \/ /\ pc = "commit" /\ saved'.previous.bin = before
          /\ saved'.current.bin = stable /\ stable \in confirmed /\ before # stable
       \/ /\ pc = "abortSave" /\ saved.previous.bin = before
          /\ saved'.current.bin = before /\ saved'.previous = mem.previous]_vars

\* A run that reports success leaves a service that runs the version of the
\* stable entry (or is down, when it died after it was seen ready).
ReportIsTrue ==
  [][outcome = "running" /\ outcome' \in {"installed", "unchanged", "restored", "recovered"} =>
       service' = None \/ VersionOf[service'] = VersionOf[stable']]_vars

\* docs/update-and-recovery.md:59: a failed update restores the old entry,
\* restarts the old service and checks it, and an interrupted transaction is
\* recovered by the next update or rollback.  So a run that returns with no
\* transaction open, and does not say that the service is not ready, leaves no
\* service on a candidate that was never seen ready.
RecoveryReachesService ==
  outcome \in {"refused", "installed", "unchanged", "restored", "recovered"} /\ saved.pending = None
    => service \in confirmed \cup {None}
=============================================================================
