------------------------ MODULE ControlledHostProofs ------------------------
(***************************************************************************)
(* Theorems about a controlled host, for every value of the constants:     *)
(* Updater, ServiceInstall, GuardedInput, SessionStart and LegacyAgent, and *)
(* what they and the theorems about a pane's screen say of the behaviours  *)
(* of MCControlledHost.                                                    *)
(***************************************************************************)
EXTENDS ScreenProofs

----------------------------------------------------------------------------
(* The inductive invariant.                                                *)

\* A record is in order: its bytes are in place and known to work.
Good(r) == r = None \/ (Verified(r) /\ r.bin \in confirmed)

\* state.json, and what it says of the entry.
FilesFit ==
  /\ Good(saved.current) /\ Good(saved.previous)
  /\ saved.pending # None => Verified(saved.pending) /\ saved.current # None
  /\ stable \in confirmed \/ (saved.pending # None /\ saved.pending.bin = stable)

MemoryFits ==
  /\ Good(mem.current) /\ Good(mem.previous)
  /\ mem.pending # None => Verified(mem.pending)

\* How a run ended, and what it has in memory while it is being opened.
OpeningFits ==
  /\ pc = "idle" => mem = NoState
  /\ pc # "idle" => outcome = "running"
  /\ OpenIsReported
  /\ pc \in {"recover", "recoverSave"} => mem = saved /\ saved.pending # None
  /\ pc = "recoverSave" => stable = mem.current.bin

\* Until the candidate is chosen it is a version to store; from the self test to
\* the record of the entry nothing is open.
TestingFits ==
  /\ pc \in {"probe", "stage", "probeTarget", "capture"} => mem = saved /\ saved.pending = None
  /\ pc \in {"stage", "probeTarget", "capture"} => before = stable
  /\ pc \in {"recover", "recoverSave", "probe", "stage"}
     /\ target # None => target.dir = "version"
  /\ pc \in {"probeTarget", "capture"} => Verified(target)

\* A transaction is under way in the run's memory.
InTransaction ==
  \/ pc \in {"switchSave", "switchLink", "commit", "abort", "abortSave"}
  \/ pc \in {"restart", "wait"} /\ goal = "target"

\* The candidate and the binary to go back to.
CandidateFits ==
  InTransaction =>
    /\ target # None /\ mem.pending = target
    /\ mem.current # None /\ mem.current.bin = before
    /\ before # target.bin

\* What has been written of the transaction.
SwitchFits ==
  /\ pc = "switchSave" => stable = before /\ saved.pending = None
     /\ saved.previous = mem.previous
  /\ pc = "switchLink" => stable = before /\ saved = mem
  /\ pc \in {"restart", "wait"} /\ goal = "target" => stable = target.bin /\ saved = mem
  /\ pc = "commit" => stable = target.bin /\ saved = mem /\ stable \in confirmed

\* An abort starts after any of the writes, whether it took effect or not.
AbortFits ==
  /\ pc \in {"abort", "abortSave"} =>
       \/ stable \in {before, target.bin} /\ saved \in {mem, Committed}
       \/ stable = before /\ saved.pending = None /\ saved.previous = mem.previous
  /\ pc = "abortSave" => stable = before

\* The service is awaited: for another reason than a candidate nothing is
\* open, and a process that was started runs what the entry holds.
WaitingFits ==
  /\ pc \in {"restart", "wait", "glance"} /\ goal # "target" => saved.pending = None
     /\ before = stable
  /\ pc = "glance" => goal = "same"
  /\ pc \in {"wait", "commit"} => service \in {stable, None}

IInv ==
  /\ TypeOK
  /\ FilesFit /\ MemoryFits
  /\ OpeningFits /\ TestingFits
  /\ CandidateFits /\ SwitchFits /\ AbortFits /\ WaitingFits

----------------------------------------------------------------------------
\* A run that returns keeps the invariant when it leaves the files in order
\* and does not hide an open transaction.
LEMMA RunEnded ==
    ASSUME TypeOK', FilesFit', NEW how, End(how),
           how \in {"notReady", "refused", "installed", "unchanged", "restored", "recovered"}
             => saved'.pending = None
    PROVE  IInv'
<1>1. MemoryFits'
  BY DEF MemoryFits, Good, End, NoState
<1>2. OpeningFits' /\ TestingFits'
  BY DEF OpeningFits, TestingFits, OpenIsReported, End
<1>3. CandidateFits' /\ SwitchFits' /\ AbortFits' /\ WaitingFits'
  BY DEF CandidateFits, InTransaction, SwitchFits, AbortFits, WaitingFits, End
<1> QED BY <1>1, <1>2, <1>3 DEF IInv

\* The types after a run returned, when what it left on disk has its type.
LEMMA EndTypes ==
    ASSUME NEW how, End(how),
           how \in {"refused", "installed", "unchanged", "restored", "recovered", "notReady",
                    "recoveryFailed", "crashed"},
           stable' \in Bins, service' \in Bins \cup {None}, confirmed' \subseteq Bins,
           store' \in [Versions -> Bins \cup {None}], initial' \subseteq Bins, saved' \in States
    PROVE  TypeOK'
BY DEF TypeOK, End, NoState, States

\* A run that has not started yet.
LEMMA InitFits == Init => IInv
<1> SUFFICES ASSUME Init PROVE IInv
  OBVIOUS
<1>1. TypeOK
  BY BinsAssumption DEF Init, TypeOK, States, NoState, Versions
<1>2. FilesFit /\ MemoryFits
  BY DEF Init, FilesFit, MemoryFits, Good, NoState
<1>3. OpeningFits /\ TestingFits
  BY DEF Init, OpeningFits, TestingFits, OpenIsReported
<1>4. CandidateFits /\ SwitchFits /\ AbortFits /\ WaitingFits
  BY DEF Init, CandidateFits, InTransaction, SwitchFits, AbortFits, WaitingFits
<1> QED BY <1>1, <1>2, <1>3, <1>4 DEF IInv

\* A run starts: what it has in memory is what state.json says.
LEMMA BeginKeeps ==
    ASSUME IInv, NEW r \in Releases \cup {None}, Begin(r), r # None => r.dir = "version"
    PROVE  IInv'
<1>1. TypeOK'
  BY DEF IInv, TypeOK, Begin, Go, files, world
<1>2. FilesFit' /\ MemoryFits'
  BY DEF IInv, FilesFit, MemoryFits, Good, Verified, Begin, files, world
<1>3. OpeningFits' /\ TestingFits'
  BY DEF IInv, OpeningFits, TestingFits, OpenIsReported, Begin, Go, files
<1>4. CandidateFits' /\ SwitchFits' /\ AbortFits' /\ WaitingFits'
  BY DEF CandidateFits, InTransaction, SwitchFits, AbortFits, WaitingFits, Begin, Go
<1> QED BY <1>1, <1>2, <1>3, <1>4 DEF IInv

\* The entry is put back before a run, or before it is found that it cannot be.
LEMMA OpenRestoreKeeps ==
    ASSUME IInv, OpenRestore
    PROVE  IInv'
<1> USE DEF OpenRestore, RestoreLink
<1>0. /\ (stable' \in {stable, mem.current.bin} /\ Restorable) \/ UNCHANGED stable
      /\ UNCHANGED <<store, initial, saved, service, confirmed>>
  BY DEF Relink, files, world
<1>5. \/ End("recoveryFailed")
      \/ pc' = "recoverSave" /\ UNCHANGED <<mem, target, before, recovered, goal, outcome>>
  BY DEF Relink, Go
<1>6. stable' \in Bins
  BY <1>0 DEF IInv, TypeOK, States, Releases, Restorable, Verified
<1>1. TypeOK'
  <2>1. CASE End("recoveryFailed")
    BY <1>0, <1>6, <2>1 DEF IInv, TypeOK, End, NoState, States
  <2>2. CASE pc' = "recoverSave" /\ UNCHANGED <<mem, target, before, recovered, goal, outcome>>
    BY <1>0, <1>6, <2>2 DEF IInv, TypeOK
  <2> QED BY <1>5, <2>1, <2>2
<1>2. FilesFit'
  BY DEF IInv, FilesFit, OpeningFits, Good, Verified, Restorable, Relink, files, world
<1>3. CASE End("recoveryFailed")
  BY <1>1, <1>2, <1>3, RunEnded
<1>4. CASE ~End("recoveryFailed")
  <2>1. /\ pc = "recover" /\ pc' = "recoverSave" /\ Restorable
           /\ Relink(mem.current, TRUE, FALSE)
        /\ UNCHANGED <<mem, target, before, recovered, goal, outcome, world>>
    BY <1>4 DEF Relink, Go
  <2>2. MemoryFits'
    BY <2>1 DEF IInv, MemoryFits, Good, Verified, Relink, world
  <2>3. OpeningFits' /\ TestingFits'
    BY <2>1 DEF IInv, OpeningFits, TestingFits, OpenIsReported, Relink
  <2>4. CandidateFits' /\ SwitchFits' /\ AbortFits' /\ WaitingFits'
    BY <2>1 DEF CandidateFits, InTransaction, SwitchFits, AbortFits, WaitingFits
  <2> QED BY <1>1, <1>2, <2>2, <2>3, <2>4 DEF IInv
<1> QED BY <1>3, <1>4

\* The recovery of an interrupted run is recorded.
LEMMA OpenClearKeeps ==
    ASSUME IInv, OpenClear
    PROVE  IInv'
<1> DEFINE cleared == [mem EXCEPT !.pending = None]
<1>1. /\ pc = "recoverSave" /\ mem = saved /\ saved.pending # None /\ stable = mem.current.bin
      /\ saved' \in {saved, cleared}
      /\ UNCHANGED <<stable, store, initial, service, confirmed>>
  BY DEF IInv, OpeningFits, OpenClear, ClearPending, Save, world
<1>2. \/ End("recoveryFailed")
      \/ /\ saved' = cleared /\ mem' = cleared /\ pc' = "probe" /\ recovered' = TRUE
         /\ UNCHANGED <<target, before, goal, outcome>>
  BY DEF OpenClear, ClearPending, Save, Go
<1>3. /\ cleared \in States /\ cleared.pending = None
      /\ cleared.current = mem.current /\ cleared.previous = mem.previous
  BY DEF IInv, TypeOK, States
<1>4. TypeOK'
  <2>1. CASE End("recoveryFailed")
    BY <1>1, <1>3, <2>1, EndTypes DEF IInv, TypeOK
  <2>2. CASE mem' = cleared /\ pc' = "probe" /\ recovered' = TRUE
             /\ UNCHANGED <<target, before, goal, outcome>>
    BY <1>1, <1>3, <2>2 DEF IInv, TypeOK
  <2> QED BY <1>2, <2>1, <2>2
<1>5. FilesFit'
  BY <1>1, <1>3 DEF IInv, FilesFit, Good, Verified
<1>6. CASE End("recoveryFailed")
  BY <1>4, <1>5, <1>6, RunEnded
<1>7. CASE saved' = cleared /\ mem' = cleared /\ pc' = "probe" /\ UNCHANGED <<target, outcome>>
  <2>1. MemoryFits'
    BY <1>1, <1>3, <1>7 DEF IInv, MemoryFits, Good, Verified
  <2>2. OpeningFits' /\ TestingFits'
    BY <1>1, <1>3, <1>7 DEF IInv, OpeningFits, TestingFits, OpenIsReported
  <2>3. CandidateFits' /\ SwitchFits' /\ AbortFits' /\ WaitingFits'
    BY <1>7 DEF CandidateFits, InTransaction, SwitchFits, AbortFits, WaitingFits
  <2> QED BY <1>4, <1>5, <2>1, <2>2, <2>3 DEF IInv
<1> QED BY <1>2, <1>6, <1>7

\* A refusal leaves the files alone, and nothing was open.
LEMMA RefuseKeeps ==
    ASSUME IInv, Refuse
    PROVE  IInv'
<1>1. TypeOK'
  BY EndTypes DEF IInv, TypeOK, Refuse, files, world
<1>2. FilesFit'
  BY DEF IInv, FilesFit, Good, Verified, Refuse, files, world
<1>3. saved'.pending = None
  BY DEF IInv, TestingFits, Refuse, files
<1> QED BY <1>1, <1>2, <1>3, RunEnded DEF Refuse

\* A kill leaves the files alone.
LEMMA CrashKeeps ==
    ASSUME IInv, Crash
    PROVE  IInv'
<1>1. TypeOK'
  BY EndTypes DEF IInv, TypeOK, Crash, files, world
<1>2. FilesFit'
  BY DEF IInv, FilesFit, Good, Verified, Crash, files, world
<1> QED BY <1>1, <1>2, RunEnded DEF Crash

\* The service dies or is started.
LEMMA SuperviseKeeps ==
    ASSUME IInv, Supervise
    PROVE  IInv'
<1> USE DEF Supervise, files, run
<1>1. TypeOK'
  BY DEF IInv, TypeOK
<1>2. FilesFit' /\ MemoryFits'
  BY DEF IInv, FilesFit, MemoryFits, Good, Verified
<1>3. OpeningFits' /\ TestingFits'
  BY DEF IInv, OpeningFits, TestingFits, OpenIsReported, Verified
<1>4. CandidateFits' /\ SwitchFits' /\ AbortFits'
  BY DEF IInv, CandidateFits, InTransaction, SwitchFits, AbortFits, Committed
<1>5. WaitingFits'
  BY DEF IInv, WaitingFits
<1> QED BY <1>1, <1>2, <1>3, <1>4, <1>5 DEF IInv

\* The owner installs a binary while no run is on.
LEMMA ReinstallKeeps ==
    ASSUME IInv, NEW b \in Bins, Reinstall(b)
    PROVE  IInv'
<1>1. TypeOK'
  BY DEF IInv, TypeOK, Reinstall
<1>2. FilesFit' /\ MemoryFits'
  BY DEF IInv, FilesFit, MemoryFits, Good, Verified, Reinstall
<1>3. OpeningFits' /\ TestingFits'
  BY DEF IInv, OpeningFits, TestingFits, OpenIsReported, Reinstall
<1>4. CandidateFits' /\ SwitchFits' /\ AbortFits' /\ WaitingFits'
  BY DEF CandidateFits, InTransaction, SwitchFits, AbortFits, WaitingFits, Reinstall
<1> QED BY <1>1, <1>2, <1>3, <1>4 DEF IInv

\* The installed binary passes its self test.
LEMMA ProbeKeeps ==
    ASSUME IInv, Probe
    PROVE  IInv'
<1> USE DEF Probe, Go, files, world
<1>1. TypeOK'
  <2>1. CASE recovered
    BY <2>1 DEF IInv, TypeOK
  <2>2. CASE ~recovered
    BY <2>2 DEF IInv, TypeOK
  <2> QED BY <2>1, <2>2
<1>2. FilesFit' /\ MemoryFits'
  BY DEF IInv, FilesFit, MemoryFits, Good, Verified
<1>3. OpeningFits' /\ TestingFits'
  BY DEF IInv, OpeningFits, TestingFits, OpenIsReported
<1>4. CandidateFits' /\ SwitchFits' /\ AbortFits'
  BY DEF IInv, CandidateFits, InTransaction, SwitchFits, AbortFits
<1>5. WaitingFits'
  BY DEF IInv, WaitingFits, TestingFits
<1> QED BY <1>1, <1>2, <1>3, <1>4, <1>5 DEF IInv

\* A version's bytes are written where there were none, or the same.
LEMMA StageKeeps ==
    ASSUME IInv, Stage
    PROVE  IInv'
<1> DEFINE written == [store EXCEPT ![VersionOf[target.bin]] = target.bin]
<1>1. /\ pc = "stage" /\ target \in Releases
      /\ store[VersionOf[target.bin]] \in {None, target.bin}
      /\ store' \in {store, written} /\ VersionOf[target.bin] \in Versions
      /\ UNCHANGED <<stable, initial, saved, service, confirmed>>
  BY DEF IInv, TypeOK, Stage, Versions, Releases, world
<1>2. \/ End("refused")
      \/ store' = written /\ pc' = "probeTarget"
         /\ UNCHANGED <<mem, target, before, recovered, goal, outcome>>
  BY DEF Stage, Go
<1>3. store' \in [Versions -> Bins \cup {None}]
  BY <1>1 DEF IInv, TypeOK, Releases
<1>4. TypeOK'
  <2>1. CASE End("refused")
    BY <1>1, <1>3, <2>1, EndTypes DEF IInv, TypeOK
  <2>2. CASE pc' = "probeTarget" /\ UNCHANGED <<mem, target, before, recovered, goal, outcome>>
    BY <1>1, <1>3, <2>2 DEF IInv, TypeOK
  <2> QED BY <1>2, <2>1, <2>2
<1>5. \A r \in Releases :
        (IF r.dir = "version" THEN store[VersionOf[r.bin]] = r.bin ELSE r.bin \in initial)
          => IF r.dir = "version" THEN store'[VersionOf[r.bin]] = r.bin ELSE r.bin \in initial
  BY <1>1, BinsAssumption DEF IInv, TypeOK, Releases, Versions
<1>6. FilesFit'
  BY <1>1, <1>5 DEF IInv, FilesFit, Good, Verified, TypeOK, States
<1>7. CASE End("refused")
  BY <1>1, <1>4, <1>6, <1>7, RunEnded DEF IInv, TestingFits
<1>8. CASE store' = written /\ pc' = "probeTarget"
           /\ UNCHANGED <<mem, target, before, recovered, goal, outcome>>
  <2>1. MemoryFits'
    BY <1>1, <1>5, <1>8 DEF IInv, MemoryFits, Good, Verified, TypeOK, States
  <2>2. OpeningFits'
    BY <1>1, <1>8 DEF IInv, OpeningFits, OpenIsReported
  <2>3. TestingFits'
    <3>1. target # None
      BY DEF Stage
    <3>2. target.dir = "version"
      BY <1>1, <3>1 DEF IInv, TestingFits
    <3>3. store'[VersionOf[target.bin]] = target.bin
      BY <1>1, <1>8 DEF IInv, TypeOK
    <3>4. Verified(target)'
      BY <1>8, <3>1, <3>2, <3>3 DEF Verified
    <3> QED BY <1>1, <1>8, <3>4 DEF IInv, TestingFits
  <2>4. CandidateFits' /\ SwitchFits' /\ AbortFits' /\ WaitingFits'
    BY <1>8 DEF CandidateFits, InTransaction, SwitchFits, AbortFits, WaitingFits
  <2> QED BY <1>4, <1>6, <2>1, <2>2, <2>3, <2>4 DEF IInv
<1> QED BY <1>2, <1>7, <1>8

\* The rollback takes the record of the previous binary.
LEMMA PickPreviousKeeps ==
    ASSUME IInv, PickPrevious
    PROVE  IInv'
<1> USE DEF PickPrevious, Go, files, world
<1>1. TypeOK'
  BY DEF IInv, TypeOK, States, Verified
<1>2. FilesFit' /\ MemoryFits'
  BY DEF IInv, FilesFit, MemoryFits, Good, Verified
<1>3. OpeningFits' /\ TestingFits'
  BY DEF IInv, OpeningFits, TestingFits, OpenIsReported, Verified
<1>4. CandidateFits' /\ SwitchFits' /\ AbortFits' /\ WaitingFits'
  BY DEF CandidateFits, InTransaction, SwitchFits, AbortFits, WaitingFits
<1> QED BY <1>1, <1>2, <1>3, <1>4 DEF IInv

\* The candidate passes its self test.
LEMMA ProbeTargetKeeps ==
    ASSUME IInv, ProbeTarget
    PROVE  IInv'
<1> USE DEF ProbeTarget, Go, files, world
<1>1. TypeOK'
  BY DEF IInv, TypeOK
<1>2. FilesFit' /\ MemoryFits'
  BY DEF IInv, FilesFit, MemoryFits, Good, Verified
<1>3. OpeningFits' /\ TestingFits'
  BY DEF IInv, OpeningFits, TestingFits, OpenIsReported, Verified
<1>4. CandidateFits' /\ SwitchFits' /\ AbortFits' /\ WaitingFits'
  BY DEF CandidateFits, InTransaction, SwitchFits, AbortFits, WaitingFits
<1> QED BY <1>1, <1>2, <1>3, <1>4 DEF IInv

\* The record of the entry's bytes is one that verifies once they are saved.
LEMMA CapturedFits ==
    ASSUME IInv, pc = "capture"
    PROVE  /\ Captured \in Releases /\ Captured # None /\ Captured.bin = stable
           /\ Captured.dir = "initial" \/ Verified(Captured)
           /\ stable \in confirmed /\ stable \in Bins /\ saved.pending = None
<1>1. stable \in confirmed /\ stable \in Bins /\ saved.pending = None
      /\ mem.current \in Releases \cup {None}
  BY DEF IInv, TypeOK, States, TestingFits, FilesFit
<1>2. CASE mem.current # None /\ mem.current.bin = stable /\ Verified(mem.current)
  BY <1>1, <1>2, BinsAssumption DEF Captured
<1>3. CASE ~(mem.current # None /\ mem.current.bin = stable /\ Verified(mem.current))
  <2>1. Captured = [dir |-> "initial", bin |-> stable]
    BY <1>3 DEF Captured
  <2>2. Captured \in Releases
    BY <2>1, <1>1 DEF Releases
  <2> QED BY <1>1, <2>1, <2>2, BinsAssumption
<1> QED BY <1>2, <1>3

\* The entry's bytes are saved, and the transaction begins in memory unless the
\* candidate is the entry already, or another binary of its version.
LEMMA CaptureKeeps ==
    ASSUME IInv, Capture
    PROVE  IInv'
<1> DEFINE opened == [mem EXCEPT !.current = Captured, !.pending = target]
<1>1. /\ pc = "capture" /\ Verified(target) /\ target \in Releases
      /\ mem = saved /\ saved.pending = None /\ before = stable
      /\ initial' \in {initial, IF Captured.dir = "initial" THEN initial \cup {stable} ELSE initial}
      /\ UNCHANGED <<stable, store, saved, service, confirmed>>
  BY DEF IInv, TypeOK, TestingFits, Capture, Verified, world
<1>2. \/ End("refused")
      \/ goal' = "same" /\ pc' = "glance"
         /\ UNCHANGED <<mem, outcome, target, before, recovered>>
      \/ /\ VersionOf[stable] # VersionOf[target.bin]
         /\ initial' = IF Captured.dir = "initial" THEN initial \cup {stable} ELSE initial
         /\ mem' = opened /\ pc' = "switchSave"
         /\ UNCHANGED <<target, before, recovered, goal, outcome>>
  BY DEF Capture, Go
<1>3. /\ Captured \in Releases /\ Captured # None /\ Captured.bin = stable
      /\ Captured.dir = "initial" \/ Verified(Captured)
      /\ stable \in confirmed /\ stable \in Bins
  BY <1>1, CapturedFits
<1>4. /\ opened \in States /\ opened.current = Captured
      /\ opened.previous = saved.previous /\ opened.pending = target
  BY <1>1, <1>3 DEF IInv, TypeOK, States
<1>5. initial' \subseteq Bins /\ initial \subseteq initial'
  BY <1>1, <1>3 DEF IInv, TypeOK
<1>6. TypeOK'
  <2>1. CASE End("refused")
    BY <1>1, <1>5, <2>1, EndTypes DEF IInv, TypeOK
  <2>2. CASE goal' = "same" /\ pc' = "glance"
             /\ UNCHANGED <<mem, outcome, target, before, recovered>>
    BY <1>1, <1>5, <2>2 DEF IInv, TypeOK
  <2>3. CASE mem' = opened /\ pc' = "switchSave"
             /\ UNCHANGED <<target, before, recovered, goal, outcome>>
    BY <1>1, <1>4, <1>5, <2>3 DEF IInv, TypeOK
  <2> QED BY <1>2, <2>1, <2>2, <2>3
<1>7. FilesFit'
  BY <1>1, <1>5 DEF IInv, FilesFit, Good, Verified
<1>8. CASE End("refused")
  BY <1>1, <1>6, <1>7, <1>8, RunEnded
<1>9. CASE goal' = "same" /\ pc' = "glance"
           /\ UNCHANGED <<mem, outcome, target, before, recovered>>
  <2>1. MemoryFits'
    BY <1>1, <1>5, <1>9 DEF IInv, MemoryFits, Good, Verified
  <2>2. OpeningFits' /\ TestingFits'
    BY <1>1, <1>9 DEF IInv, OpeningFits, TestingFits, OpenIsReported
  <2>3. CandidateFits' /\ SwitchFits' /\ AbortFits' /\ WaitingFits'
    BY <1>1, <1>9 DEF CandidateFits, InTransaction, SwitchFits, AbortFits, WaitingFits
  <2> QED BY <1>6, <1>7, <2>1, <2>2, <2>3 DEF IInv
<1>10. CASE /\ VersionOf[stable] # VersionOf[target.bin]
            /\ initial' = IF Captured.dir = "initial" THEN initial \cup {stable} ELSE initial
            /\ mem' = opened /\ pc' = "switchSave"
            /\ UNCHANGED <<target, before, recovered, goal, outcome>>
  <2>1. MemoryFits'
    <3>1. Captured.dir = "initial" => Captured.bin \in initial'
      BY <1>3, <1>10
    <3>2. Captured.dir # "initial" => Captured.dir = "version"
          /\ store[VersionOf[Captured.bin]] = Captured.bin
      BY <1>3 DEF Verified, Releases
    <3>3. mem'.current = Captured /\ mem'.previous = mem.previous /\ mem'.pending = target
      BY <1>1, <1>4, <1>10
    <3>4. Good(mem.current)'
      BY <1>1, <1>3, <3>1, <3>2, <3>3 DEF Good, Verified
    <3>5. Good(mem.previous)' /\ Verified(mem.pending)'
      BY <1>1, <1>5, <3>3 DEF IInv, MemoryFits, Good, Verified
    <3> QED BY <3>4, <3>5 DEF MemoryFits
  <2>2. OpeningFits' /\ TestingFits'
    BY <1>1, <1>10 DEF IInv, OpeningFits, TestingFits, OpenIsReported
  <2>3. CandidateFits'
    BY <1>1, <1>3, <1>4, <1>10 DEF CandidateFits, Verified
  <2>4. SwitchFits' /\ AbortFits' /\ WaitingFits'
    BY <1>1, <1>4, <1>10 DEF SwitchFits, AbortFits, WaitingFits
  <2> QED BY <1>6, <1>7, <2>1, <2>2, <2>3, <2>4 DEF IInv
<1> QED BY <1>2, <1>8, <1>9, <1>10

\* The transaction is written, or it may have been.
LEMMA SwitchSaveKeeps ==
    ASSUME IInv, SwitchSave
    PROVE  IInv'
<1>1. /\ pc = "switchSave" /\ stable = before /\ saved.pending = None
         /\ saved.previous = mem.previous
      /\ target # None /\ mem.pending = target /\ mem.current # None /\ mem.current.bin = before
      /\ saved' \in {saved, mem} /\ ((pc' = "switchLink" /\ saved' = mem) \/ pc' = "abort")
      /\ UNCHANGED <<stable, store, initial, mem, target, before, recovered, goal, outcome,
                     service, confirmed>>
  BY DEF IInv, CandidateFits, InTransaction, SwitchFits, SwitchSave, Save, Go, Keep, world
<1>2. TypeOK'
  BY <1>1 DEF IInv, TypeOK
<1>3. FilesFit' /\ MemoryFits'
  BY <1>1 DEF IInv, FilesFit, MemoryFits, Good, Verified
<1>4. OpeningFits' /\ TestingFits'
  BY <1>1 DEF IInv, OpeningFits, TestingFits, OpenIsReported
<1>5. CandidateFits'
  BY <1>1 DEF IInv, CandidateFits, InTransaction
<1>6. SwitchFits' /\ AbortFits' /\ WaitingFits'
  BY <1>1 DEF SwitchFits, AbortFits, WaitingFits
<1> QED BY <1>2, <1>3, <1>4, <1>5, <1>6 DEF IInv

\* The entry is the candidate now, or it may be.
LEMMA SwitchLinkKeeps ==
    ASSUME IInv, SwitchLink
    PROVE  IInv'
<1>1. /\ pc = "switchLink" /\ stable = before /\ saved = mem
      /\ target # None /\ mem.pending = target /\ mem.current # None /\ mem.current.bin = before
      /\ stable' \in {stable, target.bin}
      /\ \/ pc' = "restart" /\ goal' = "target" /\ stable' = target.bin
         \/ pc' = "abort" /\ UNCHANGED goal
      /\ UNCHANGED <<saved, store, initial, mem, target, before, recovered, outcome,
                     service, confirmed>>
  BY DEF IInv, CandidateFits, InTransaction, SwitchFits, SwitchLink, Relink, Go, Keep, world
<1>2. TypeOK'
  BY <1>1 DEF IInv, TypeOK, Releases
<1>3. FilesFit' /\ MemoryFits'
  BY <1>1 DEF IInv, FilesFit, MemoryFits, Good, Verified
<1>4. OpeningFits' /\ TestingFits'
  BY <1>1 DEF IInv, OpeningFits, TestingFits, OpenIsReported
<1>5. CandidateFits'
  BY <1>1 DEF IInv, CandidateFits, InTransaction
<1>6. SwitchFits' /\ AbortFits' /\ WaitingFits'
  BY <1>1 DEF SwitchFits, AbortFits, WaitingFits
<1> QED BY <1>2, <1>3, <1>4, <1>5, <1>6 DEF IInv

\* A service that is not ready makes a candidate be aborted and ends any other run.
LEMMA NotReadyKeeps ==
    ASSUME IInv, pc \in {"restart", "wait"}, NotReady, service' \in Bins \cup {None},
           UNCHANGED <<files, confirmed>>
    PROVE  IInv'
<1> USE DEF files
<1>1. FilesFit'
  BY DEF IInv, FilesFit, Good, Verified
<1>2. CASE goal # "target"
  <2>1. End("notReady") /\ saved'.pending = None
    BY <1>2 DEF IInv, WaitingFits, NotReady
  <2>2. TypeOK'
    BY <2>1, EndTypes DEF IInv, TypeOK
  <2> QED BY <1>1, <2>1, <2>2, RunEnded
<1>3. CASE goal = "target"
  <2>1. /\ pc' = "abort" /\ UNCHANGED <<mem, target, before, recovered, outcome, goal>>
        /\ stable = target.bin /\ saved = mem
    BY <1>3 DEF IInv, SwitchFits, NotReady, Go, Keep
  <2>2. TypeOK'
    BY <2>1 DEF IInv, TypeOK
  <2>3. MemoryFits'
    BY <2>1 DEF IInv, MemoryFits, Good, Verified
  <2>4. OpeningFits' /\ TestingFits'
    BY <2>1 DEF IInv, OpeningFits, TestingFits, OpenIsReported
  <2>5. CandidateFits'
    BY <1>3, <2>1 DEF IInv, CandidateFits, InTransaction
  <2>6. SwitchFits' /\ AbortFits' /\ WaitingFits'
    BY <2>1 DEF SwitchFits, AbortFits, WaitingFits
  <2> QED BY <1>1, <2>2, <2>3, <2>4, <2>5, <2>6 DEF IInv
<1> QED BY <1>2, <1>3

\* The service is restarted.
LEMMA RestartKeeps ==
    ASSUME IInv, Restart
    PROVE  IInv'
<1>1. /\ pc = "restart" /\ service' \in Bins \cup {None} /\ UNCHANGED <<files, confirmed>>
      /\ \/ service' \in {stable, None} /\ pc' = "wait"
            /\ UNCHANGED <<mem, target, before, recovered, outcome, goal>>
         \/ NotReady
  BY DEF IInv, TypeOK, Restart, Go, Keep
<1>2. CASE NotReady
  BY <1>1, <1>2, NotReadyKeeps
<1>3. CASE service' \in {stable, None} /\ pc' = "wait"
           /\ UNCHANGED <<mem, target, before, recovered, outcome, goal>>
  <2> USE DEF files
  <2>1. TypeOK'
    BY <1>1, <1>3 DEF IInv, TypeOK
  <2>2. FilesFit' /\ MemoryFits'
    BY <1>1, <1>3 DEF IInv, FilesFit, MemoryFits, Good, Verified
  <2>3. OpeningFits' /\ TestingFits'
    BY <1>1, <1>3 DEF IInv, OpeningFits, TestingFits, OpenIsReported
  <2>4. CandidateFits' /\ SwitchFits' /\ AbortFits' /\ WaitingFits'
    BY <1>1, <1>3 DEF IInv, CandidateFits, InTransaction, SwitchFits, AbortFits, WaitingFits
  <2> QED BY <2>1, <2>2, <2>3, <2>4 DEF IInv
<1> QED BY <1>1, <1>2, <1>3

\* The time to get ready is up.
LEMMA LateKeeps ==
    ASSUME IInv, Late
    PROVE  IInv'
<1>1. CASE pc = "wait"
  BY <1>1, NotReadyKeeps DEF IInv, TypeOK, Late, world
<1>2. CASE pc = "glance"
  <2>1. pc' = "restart" /\ goal = "same"
        /\ UNCHANGED <<mem, target, before, recovered, outcome, goal, files, world>>
    BY <1>2 DEF IInv, WaitingFits, Late, Go, Keep
  <2> USE DEF files, world
  <2>2. TypeOK'
    BY <2>1 DEF IInv, TypeOK
  <2>3. FilesFit' /\ MemoryFits'
    BY <2>1 DEF IInv, FilesFit, MemoryFits, Good, Verified
  <2>4. OpeningFits' /\ TestingFits'
    BY <1>2, <2>1 DEF IInv, OpeningFits, TestingFits, OpenIsReported
  <2>5. CandidateFits' /\ SwitchFits' /\ AbortFits' /\ WaitingFits'
    BY <1>2, <2>1 DEF IInv, CandidateFits, InTransaction, SwitchFits, AbortFits, WaitingFits
  <2> QED BY <2>2, <2>3, <2>4, <2>5 DEF IInv
<1> QED BY <1>1, <1>2 DEF Late

\* The service was seen ready: it runs what the entry holds, and the version
\* of the entry is the one that was waited for.
LEMMA ReadyRuns ==
    ASSUME IInv, Ready
    PROVE  /\ service \in Bins /\ service # None
           /\ pc = "wait" => service = stable
           /\ goal = "target" => pc = "wait"
           /\ VersionOf[service] = VersionOf[stable]
<1>1. /\ service \in Bins /\ service # None
      /\ pc = "wait" => service = stable
      /\ goal = "target" => pc = "wait"
      /\ goal # "target" => stable = before
  BY DEF IInv, TypeOK, WaitingFits, Ready, IsReady
<1>2. CASE goal = "target"
  BY <1>1, <1>2
<1>3. CASE goal # "target"
  BY <1>1, <1>3 DEF Ready, IsReady, Expected
<1> QED BY <1>1, <1>2, <1>3

\* A service that was seen ready confirms the candidate, or ends the run.
LEMMA ReadyKeeps ==
    ASSUME IInv, Ready
    PROVE  IInv'
<1> USE DEF files
<1>1. /\ pc \in {"wait", "glance"} /\ UNCHANGED <<service, files>>
      /\ service \in Bins /\ service # None
      /\ pc = "wait" => service = stable
      /\ goal = "target" => pc = "wait"
  BY ReadyRuns DEF Ready
<1>2. CASE goal = "target"
  <2>1. /\ pc = "wait" /\ pc' = "commit" /\ confirmed' = confirmed \cup {stable}
           /\ stable = target.bin /\ saved = mem
        /\ UNCHANGED <<mem, target, before, recovered, outcome, goal>>
    BY <1>1, <1>2 DEF IInv, SwitchFits, Ready, Go, Keep
  <2>2. TypeOK'
    BY <1>1, <2>1 DEF IInv, TypeOK
  <2>3. FilesFit' /\ MemoryFits'
    BY <1>1, <2>1 DEF IInv, FilesFit, MemoryFits, Good, Verified
  <2>4. OpeningFits' /\ TestingFits'
    BY <1>1, <2>1 DEF IInv, OpeningFits, TestingFits, OpenIsReported
  <2>5. CandidateFits'
    BY <1>2, <2>1 DEF IInv, CandidateFits, InTransaction
  <2>6. SwitchFits' /\ AbortFits' /\ WaitingFits'
    BY <1>1, <2>1 DEF SwitchFits, AbortFits, WaitingFits
  <2> QED BY <2>2, <2>3, <2>4, <2>5, <2>6 DEF IInv
<1>3. CASE goal # "target"
  <2> DEFINE how == CASE goal = "previous" -> "restored" [] goal = "recovered" -> "recovered"
                      [] goal = "same" -> "unchanged"
  <2>1. End(how) /\ UNCHANGED confirmed /\ saved'.pending = None
    BY <1>1, <1>3 DEF IInv, WaitingFits, Ready
  <2>2. how \in {"restored", "recovered", "unchanged"}
    BY <1>3 DEF IInv, TypeOK
  <2>3. FilesFit'
    BY <1>1, <2>1 DEF IInv, FilesFit, Good, Verified
  <2> HIDE DEF how
  <2>4. TypeOK'
    BY <1>1, <2>1, <2>2, EndTypes DEF IInv, TypeOK
  <2> QED BY <2>1, <2>2, <2>3, <2>4, RunEnded
<1> QED BY <1>2, <1>3

\* What a commit writes is a binary that was seen ready, with the one before it.
LEMMA CommittedFits ==
    ASSUME IInv, InTransaction
    PROVE  /\ Committed \in States /\ Committed.pending = None
           /\ Committed.current = target /\ Committed.previous = mem.current
           /\ Verified(target) /\ Good(mem.current) /\ mem.current # None
<1>1. Committed \in States /\ Committed.pending = None
  BY DEF IInv, TypeOK, States, Committed
<1>2. Committed.current = target /\ Committed.previous = mem.current
  BY DEF IInv, CandidateFits, Committed
<1>3. Verified(target) /\ Good(mem.current) /\ mem.current # None
  BY DEF IInv, CandidateFits, MemoryFits
<1> QED BY <1>1, <1>2, <1>3

\* The commit is written, or it may have been.
LEMMA CommitKeeps ==
    ASSUME IInv, Commit
    PROVE  IInv'
<1>1. /\ pc = "commit" /\ InTransaction /\ stable = target.bin /\ saved = mem
         /\ stable \in confirmed
      /\ target # None /\ mem.current # None /\ mem.current.bin = before
      /\ saved' \in {saved, Committed}
         /\ UNCHANGED <<stable, store, initial, service, confirmed>>
  BY DEF IInv, CandidateFits, InTransaction, SwitchFits, Commit, Save, world
<1>2. \/ saved' = Committed /\ End("installed")
      \/ pc' = "abort" /\ UNCHANGED <<mem, target, before, recovered, outcome, goal>>
  BY DEF Commit, Save, Go, Keep
<1>3. TypeOK'
  <2>1. CASE End("installed")
    BY <1>1, <2>1, EndTypes, CommittedFits DEF IInv, TypeOK
  <2>2. CASE pc' = "abort" /\ UNCHANGED <<mem, target, before, recovered, outcome, goal>>
    BY <1>1, <2>2, CommittedFits DEF IInv, TypeOK
  <2> QED BY <1>2, <2>1, <2>2
<1>4. FilesFit'
  BY <1>1, CommittedFits DEF IInv, FilesFit, Good, Verified
<1>5. CASE saved' = Committed /\ End("installed")
  BY <1>1, <1>3, <1>4, <1>5, RunEnded, CommittedFits
<1>6. CASE pc' = "abort" /\ UNCHANGED <<mem, target, before, recovered, outcome, goal>>
  <2>1. MemoryFits'
    BY <1>1, <1>6 DEF IInv, MemoryFits, Good, Verified
  <2>2. OpeningFits' /\ TestingFits'
    BY <1>1, <1>6 DEF IInv, OpeningFits, TestingFits, OpenIsReported
  <2>3. CandidateFits'
    BY <1>1, <1>6 DEF IInv, CandidateFits, InTransaction
  <2>4. SwitchFits' /\ AbortFits' /\ WaitingFits'
    BY <1>1, <1>6 DEF SwitchFits, AbortFits, WaitingFits, Committed
  <2> QED BY <1>3, <1>4, <2>1, <2>2, <2>3, <2>4 DEF IInv
<1> QED BY <1>2, <1>5, <1>6

\* A failed update puts the entry back, or finds that it cannot.
LEMMA AbortRestoreKeeps ==
    ASSUME IInv, AbortRestore
    PROVE  IInv'
<1>1. /\ pc = "abort" /\ stable' \in {stable, before} /\ mem.current # None
         /\ mem.current.bin = before
      /\ UNCHANGED <<store, initial, saved, service, confirmed>>
  BY DEF IInv, CandidateFits, InTransaction, AbortRestore, RestoreLink, Relink, files, world
<1>2. \/ End("recoveryFailed")
      \/ pc' = "abortSave" /\ stable' = before
         /\ UNCHANGED <<mem, target, before, recovered, goal, outcome>>
  BY <1>1 DEF AbortRestore, RestoreLink, Relink, Go
<1>3. before \in confirmed /\ before \in Bins /\ stable' \in Bins
  BY <1>1 DEF IInv, MemoryFits, Good, TypeOK, States, Releases
<1>4. TypeOK'
  <2>1. CASE End("recoveryFailed")
    BY <1>1, <1>3, <2>1, EndTypes DEF IInv, TypeOK
  <2>2. CASE pc' = "abortSave" /\ UNCHANGED <<mem, target, before, recovered, goal, outcome>>
    BY <1>1, <1>3, <2>2 DEF IInv, TypeOK
  <2> QED BY <1>2, <2>1, <2>2
<1>5. FilesFit'
  BY <1>1, <1>3 DEF IInv, FilesFit, Good, Verified
<1>6. CASE End("recoveryFailed")
  BY <1>4, <1>5, <1>6, RunEnded
<1>7. CASE pc' = "abortSave" /\ stable' = before
           /\ UNCHANGED <<mem, target, before, recovered, goal, outcome>>
  <2>1. MemoryFits'
    BY <1>1, <1>7 DEF IInv, MemoryFits, Good, Verified
  <2>2. OpeningFits' /\ TestingFits'
    BY <1>1, <1>7 DEF IInv, OpeningFits, TestingFits, OpenIsReported
  <2>3. CandidateFits' /\ SwitchFits' /\ WaitingFits'
    BY <1>1, <1>7 DEF IInv, CandidateFits, InTransaction, SwitchFits, WaitingFits
  <2>4. AbortFits'
    BY <1>1, <1>7 DEF IInv, AbortFits, Committed
  <2> QED BY <1>4, <1>5, <2>1, <2>2, <2>3, <2>4 DEF IInv
<1> QED BY <1>2, <1>6, <1>7

\* What the record says after an abort: the previous binary is in place, and
\* the rollback point is the one before the transaction.
LEMMA ClearedFits ==
    ASSUME IInv, AbortClear
    PROVE  /\ pc = "abortSave" /\ stable = before /\ before \in confirmed
           /\ mem.current # None /\ mem.current.bin = before
           /\ [mem EXCEPT !.pending = None] \in States
           /\ saved' \in {saved, [mem EXCEPT !.pending = None]}
           /\ UNCHANGED <<stable, store, initial, service, confirmed>>
<1>1. /\ pc = "abortSave" /\ stable = before /\ mem.current # None /\ mem.current.bin = before
      /\ saved' \in {saved, [mem EXCEPT !.pending = None]}
      /\ UNCHANGED <<stable, store, initial, service, confirmed>>
  BY DEF IInv, CandidateFits, InTransaction, AbortFits, AbortClear, ClearPending, Save, world
<1>2. [mem EXCEPT !.pending = None] \in States
  BY DEF IInv, TypeOK, States
<1>3. before \in confirmed
  BY <1>1 DEF IInv, MemoryFits, Good
<1> QED BY <1>1, <1>2, <1>3

\* The end of a failed update is recorded.
LEMMA AbortClearKeeps ==
    ASSUME IInv, AbortClear
    PROVE  IInv'
<1> DEFINE cleared == [mem EXCEPT !.pending = None]
<1>1. /\ pc = "abortSave" /\ stable = before /\ before \in confirmed
         /\ saved' \in {saved, cleared}
      /\ UNCHANGED <<stable, store, initial, service, confirmed>>
  BY ClearedFits
<1>2. /\ cleared \in States /\ cleared.pending = None
      /\ cleared.current = mem.current /\ cleared.previous = mem.previous
  BY DEF IInv, TypeOK, States
<1>3. \/ End("recoveryFailed")
      \/ /\ saved' = cleared /\ mem' = cleared /\ pc' = "restart" /\ goal' = "previous"
         /\ UNCHANGED <<target, before, recovered, outcome>>
  BY DEF AbortClear, ClearPending, Save, Go
<1>4. TypeOK'
  <2>1. CASE End("recoveryFailed")
    BY <1>1, <1>2, <2>1, EndTypes DEF IInv, TypeOK
  <2>2. CASE mem' = cleared /\ pc' = "restart" /\ goal' = "previous"
             /\ UNCHANGED <<target, before, recovered, outcome>>
    BY <1>1, <1>2, <2>2 DEF IInv, TypeOK
  <2> QED BY <1>3, <2>1, <2>2
<1>5. FilesFit'
  BY <1>1, <1>2 DEF IInv, FilesFit, MemoryFits, Good, Verified
<1>6. CASE End("recoveryFailed")
  BY <1>4, <1>5, <1>6, RunEnded
<1>7. CASE /\ saved' = cleared /\ mem' = cleared /\ pc' = "restart" /\ goal' = "previous"
           /\ UNCHANGED <<target, before, recovered, outcome>>
  <2>1. MemoryFits'
    BY <1>1, <1>2, <1>7 DEF IInv, MemoryFits, Good, Verified
  <2>2. OpeningFits' /\ TestingFits'
    BY <1>1, <1>7 DEF IInv, OpeningFits, TestingFits, OpenIsReported
  <2>3. CandidateFits' /\ SwitchFits' /\ AbortFits' /\ WaitingFits'
    BY <1>1, <1>2, <1>7 DEF CandidateFits, InTransaction, SwitchFits, AbortFits, WaitingFits
  <2> QED BY <1>4, <1>5, <2>1, <2>2, <2>3 DEF IInv
<1> QED BY <1>3, <1>6, <1>7

\* A step that changes nothing.
LEMMA StutterKeeps ==
    ASSUME IInv, UNCHANGED vars
    PROVE  IInv'
<1> USE DEF vars, files, run, world
<1>1. TypeOK'
  BY DEF IInv, TypeOK
<1>2. FilesFit' /\ MemoryFits'
  BY DEF IInv, FilesFit, MemoryFits, Good, Verified
<1>3. OpeningFits' /\ TestingFits'
  BY DEF IInv, OpeningFits, TestingFits, OpenIsReported, Verified
<1>4. CandidateFits' /\ SwitchFits' /\ AbortFits' /\ WaitingFits'
  BY DEF IInv, CandidateFits, InTransaction, SwitchFits, AbortFits, WaitingFits, Committed
<1> QED BY <1>1, <1>2, <1>3, <1>4 DEF IInv

\* Every step keeps the invariant.
LEMMA StepFits == IInv /\ [Next]_vars => IInv'
<1> SUFFICES ASSUME IInv, [Next]_vars PROVE IInv'
  OBVIOUS
<1>1. CASE \E b \in Bins : BeginUpdate(b) \/ Reinstall(b)
  <2>1. PICK b \in Bins : BeginUpdate(b) \/ Reinstall(b)
    BY <1>1
  <2>2. CASE BeginUpdate(b)
    <3> DEFINE r == [dir |-> "version", bin |-> b]
    <3>1. r \in Releases /\ r.dir = "version"
      BY DEF Releases
    <3> QED BY <2>2, <3>1, BeginKeeps DEF BeginUpdate
  <2> QED BY <2>1, <2>2, ReinstallKeeps
<1>2. CASE BeginRollback
  BY <1>2, BeginKeeps DEF BeginRollback
<1>3. CASE Tool
  BY <1>3, OpenRestoreKeeps, OpenClearKeeps, RefuseKeeps, ProbeKeeps, StageKeeps, PickPreviousKeeps,
     ProbeTargetKeeps, CaptureKeeps, SwitchSaveKeeps, SwitchLinkKeeps, RestartKeeps, ReadyKeeps,
     LateKeeps, CommitKeeps, AbortRestoreKeeps, AbortClearKeeps DEF Tool
<1> QED BY <1>1, <1>2, <1>3, CrashKeeps, SuperviseKeeps, StutterKeeps DEF Next

----------------------------------------------------------------------------
(* The theorems.                                                           *)

\* The invariant holds in every state of every behaviour.
THEOREM Invariance == Spec => []IInv
<1>1. IInv /\ [Next]_vars => IInv'  BY StepFits
<1> QED BY InitFits, <1>1, PTL DEF Spec

\* Type correctness, for every set of binaries.
THEOREM TypeCorrect == Spec => []TypeOK
<1>1. IInv => TypeOK  BY DEF IInv
<1> QED BY Invariance, <1>1, PTL

\* Whatever fails and wherever a run is killed, the entry holds a known binary
\* or state.json names the known one to go back to.
THEOREM AlwaysRecoverable == Spec => []EntryIsRecoverable
<1>1. IInv => EntryIsRecoverable
  BY DEF IInv, FilesFit, Good, EntryIsRecoverable
<1> QED BY Invariance, <1>1, PTL

\* The records of state.json and of a run find their bytes.
THEOREM RecordsStay == Spec => []RecordsVerify
<1>1. IInv => RecordsVerify
  BY DEF IInv, FilesFit, MemoryFits, Good, RecordsVerify
<1> QED BY Invariance, <1>1, PTL

\* A run does not hide that it leaves a transaction open.
THEOREM OpenReported == Spec => []OpenIsReported
<1>1. IInv => OpenIsReported
  BY DEF IInv, OpeningFits
<1> QED BY Invariance, <1>1, PTL

\* Only a commit replaces the rollback point, and only an abort of that commit
\* brings back the one before.
THEOREM RollbackKept == Spec => RollbackPointKept
<1> DEFINE Kept ==
      saved'.previous # saved.previous =>
       \/ /\ pc = "commit" /\ saved'.previous.bin = before
          /\ saved'.current.bin = stable /\ stable \in confirmed /\ before # stable
       \/ /\ pc = "abortSave" /\ saved.previous.bin = before
          /\ saved'.current.bin = before /\ saved'.previous = mem.previous
<1>1. IInv /\ [Next]_vars => [Kept]_vars
  <2> SUFFICES ASSUME IInv, [Next]_vars PROVE Kept
    OBVIOUS
  <2>1. CASE Commit
    <3>1. saved' \in {saved, Committed}
      BY <2>1 DEF Commit, Save
    <3>2. /\ Committed.previous.bin = before /\ Committed.current.bin = stable
          /\ pc = "commit" /\ stable \in confirmed /\ before # stable
      BY <2>1, CommittedFits DEF IInv, CandidateFits, InTransaction, SwitchFits, Commit
    <3> QED BY <3>1, <3>2
  <2>2. CASE AbortClear
    <3>1. /\ pc = "abortSave" /\ mem.current.bin = before
          /\ saved' \in {saved, [mem EXCEPT !.pending = None]}
          /\ mem \in States
      BY <2>2, ClearedFits DEF IInv, TypeOK
    <3>2. saved \in {mem, Committed} \/ saved.previous = mem.previous
      BY <3>1 DEF IInv, AbortFits
    <3>3. Committed.previous.bin = before
      BY <3>1 DEF Committed
    <3> QED BY <3>1, <3>2, <3>3 DEF States
  <2>3. CASE SwitchSave
    BY <2>3 DEF IInv, SwitchFits, SwitchSave, Save
  <2>4. CASE OpenClear
    BY <2>4 DEF IInv, TypeOK, States, OpeningFits, OpenClear, ClearPending, Save
  <2>5. CASE OpenRestore \/ AbortRestore
    BY <2>5 DEF OpenRestore, AbortRestore, RestoreLink, Relink, files
  <2>6. CASE Refuse \/ Probe \/ Stage \/ PickPrevious \/ ProbeTarget \/ Capture
    BY <2>6 DEF Refuse, Probe, Stage, PickPrevious, ProbeTarget, Capture, files
  <2>7. CASE SwitchLink \/ Restart \/ Ready \/ Late \/ Crash \/ Supervise
    BY <2>7 DEF SwitchLink, Relink, Restart, Ready, Late, Crash, Supervise, files
  <2>8. CASE \E b \in Bins : BeginUpdate(b) \/ Reinstall(b)
    BY <2>8 DEF BeginUpdate, Begin, Reinstall, files
  <2>9. CASE BeginRollback \/ UNCHANGED vars
    BY <2>9 DEF BeginRollback, Begin, files, vars
  <2> QED BY <2>1, <2>2, <2>3, <2>4, <2>5, <2>6, <2>7, <2>8, <2>9 DEF Next, Tool
<1> QED BY Invariance, <1>1, PTL DEF Spec, RollbackPointKept

\* A run that reports success leaves the service at the entry's version, or down.
THEOREM ReportsTrue == Spec => ReportIsTrue
<1> DEFINE True ==
      outcome = "running" /\ outcome' \in {"installed", "unchanged", "restored", "recovered"} =>
       service' = None \/ VersionOf[service'] = VersionOf[stable']
<1>1. IInv /\ [Next]_vars => [True]_vars
  <2> SUFFICES ASSUME IInv, [Next]_vars PROVE True
    OBVIOUS
  <2>1. CASE Commit
    BY <2>1 DEF IInv, WaitingFits, Commit, Save, world
  <2>2. CASE Ready
    BY <2>2, ReadyRuns DEF Ready, files
  <2>3. CASE OpenRestore \/ AbortRestore \/ OpenClear \/ AbortClear
    BY <2>3 DEF OpenRestore, AbortRestore, RestoreLink, Relink, OpenClear, AbortClear, ClearPending,
       Save, End
  <2>4. CASE Refuse \/ Probe \/ Stage \/ PickPrevious \/ ProbeTarget \/ Capture
    BY <2>4 DEF Refuse, Probe, Stage, PickPrevious, ProbeTarget, Capture, End
  <2>5. CASE SwitchSave \/ SwitchLink \/ Restart \/ Late
    BY <2>5 DEF SwitchSave, Save, SwitchLink, Relink, Restart, Late, NotReady, Keep, End
  <2>6. CASE Crash \/ Supervise \/ BeginRollback \/ UNCHANGED vars
    BY <2>6 DEF Crash, Supervise, BeginRollback, Begin, End, run, vars
  <2>7. CASE \E b \in Bins : BeginUpdate(b) \/ Reinstall(b)
    BY <2>7 DEF BeginUpdate, Begin, Reinstall
  <2> QED BY <2>1, <2>2, <2>3, <2>4, <2>5, <2>6, <2>7 DEF Next, Tool
<1> QED BY Invariance, <1>1, PTL DEF Spec, ReportIsTrue

----------------------------------------------------------------------------
(* The service of the host.                                               *)

\* The steps of a command and the commands.
Ats == {"idle", "read", "write", "reload", "enable", "kick", "probe", "again", "wait", "kickback", "switch",
        "restart", "start", "stop", "done", "disable", "remove", "unload"}
Ops == {"none", "setup", "update", "start", "stop", "restart", "uninstall"}
\* The types that an action leaves alone or changes.
PlaceTypes ==
    /\ os \in {"linux", "darwin"} /\ installed \in 1..MaxVersion /\ runs \in 0..MaxRuns
    /\ disk \in Units \cup {Absent, Custom} /\ loaded \in Units \cup {Absent, Custom}
    /\ daemon \in Daemons \cup {Absent}

\* What is known of the constants and of the command under way.
LEMMA ServiceTypes ==
    ASSUME ServiceAssumption, ServiceInv
    PROVE  /\ PlaceTypes /\ Absent \notin Units /\ Absent # Custom /\ Custom \notin Units
           /\ command = [op |-> command.op, at |-> command.at, want |-> command.want, changed |-> command.changed,
                         agreed |-> command.agreed, old |-> command.old]
           /\ command.op \in Ops /\ command.at \in Ats
           /\ command.want \in Units \cup {Absent} /\ command.changed \in BOOLEAN /\ command.agreed \in BOOLEAN
           /\ command.old \in 0..MaxVersion
<1>1. Custom \notin Units
  BY DEF ServiceAssumption, Custom, Units, UnitsOf
<1> QED
  BY <1>1 DEF ServiceAssumption, ServiceInv, CommandRecords, PlaceTypes, Ops, Ats

\* A command that ends leaves nothing to tell of.
LEMMA EndKeeps ==
    ASSUME ServiceAssumption, Ends, PlaceTypes'
    PROVE  ServiceInv'
<1>1. command' = Free BY DEF Ends
<1>2. Free \in CommandRecords /\ Free.op = "none"
  BY DEF Free, CommandRecords, ServiceAssumption
<1> QED BY <1>1, <1>2 DEF ServiceInv, SetupFits, AgreedFits, PlaceTypes

\* A command that goes on to a step.
LEMMA GoesOn ==
    ASSUME ServiceAssumption, ServiceInv, NEW step \in Ats, Goes(step)
    PROVE  /\ command' \in CommandRecords /\ command'.at = step /\ command'.op = command.op
           /\ command'.want = command.want /\ command'.changed = command.changed
           /\ command'.agreed = command.agreed /\ command'.old = command.old
<1>1. command' = [op |-> command.op, at |-> step, want |-> command.want, changed |-> command.changed,
                  agreed |-> command.agreed, old |-> command.old]
  BY ServiceTypes DEF Goes
<1> QED
  BY <1>1, ServiceTypes DEF CommandRecords, Ops, Ats

\* A daemon that is started has the types.
LEMMA SpawnType ==
    ASSUME PlaceTypes, NEW u \in Units \cup {Custom}
    PROVE  /\ Spawn(u) \in Daemons
           /\ Spawn(u).unit = u /\ Spawn(u).version = installed
BY DEF PlaceTypes, Spawn, Daemons

\* No runner puts anything but a unit, or nothing, into its place.
LEMMA RunnerTypes ==
    ASSUME ServiceAssumption, ServiceInv, NEW ok \in BOOLEAN, UNCHANGED <<os, runs>>,
           \/ WriteUnitFile(ok) \/ DaemonReload(ok) \/ EnableAndStart(ok) \/ RestartRunner(ok) \/ StopRunner(ok)
           \/ RemoveUnitFile(ok)
    PROVE  PlaceTypes'
<1>1. PlaceTypes /\ command.want \in Units \cup {Absent}
  BY ServiceTypes
<1>2. \A u \in Units \cup {Custom} : Spawn(u) \in Daemons
  BY <1>1, SpawnType
<1>3. Started \in Daemons \cup {Absent}
  BY <1>1, <1>2 DEF Started, PlaceTypes
<1>4. CASE WriteUnitFile(ok) \/ RemoveUnitFile(ok)
  BY <1>1, <1>4 DEF WriteUnitFile, RemoveUnitFile, PlaceTypes
<1>5. CASE DaemonReload(ok)
  BY <1>1, <1>5 DEF DaemonReload, PlaceTypes
<1>6. CASE StopRunner(ok)
  BY <1>1, <1>6 DEF StopRunner, PlaceTypes
<1>7. ASSUME Bootstrap(ok), UNCHANGED <<disk, installed>> PROVE PlaceTypes'
  BY <1>1, <1>2, <1>7 DEF Bootstrap, PlaceTypes
<1>8. ASSUME Kick(ok), UNCHANGED <<disk, installed>> PROVE PlaceTypes'
  BY <1>1, <1>3, <1>8 DEF Kick, PlaceTypes
<1>9. CASE EnableAndStart(ok)
  BY <1>1, <1>3, <1>7, <1>9 DEF EnableAndStart, EnableNow, PlaceTypes
<1>10. CASE RestartRunner(ok)
  BY <1>7, <1>8, <1>10 DEF RestartRunner
<1> QED
  BY <1>4, <1>5, <1>6, <1>9, <1>10

\* A command whose step worked is at the next one.
LEMMA StepKeeps ==
    ASSUME ServiceAssumption, ServiceInv, NEW step \in Ats, Goes(step), PlaceTypes', SetupFits', AgreedFits',
           command.op = "update" /\ step # "idle" => command.at # "idle"
    PROVE  ServiceInv'
BY GoesOn DEF ServiceInv, PlaceTypes

\* What the step of another command does is no matter to a setup.
LEMMA OthersFit ==
    ASSUME ServiceAssumption, ServiceInv, NEW step \in Ats, Goes(step), command.op # "setup"
    PROVE  SetupFits' /\ AgreedFits'
BY GoesOn DEF SetupFits, AgreedFits

\* From here on the file holds the unit of the setup.
LEMMA WriteKeeps == ASSUME ServiceAssumption, ServiceInv, WriteUnit PROVE ServiceInv'
<1>1. /\ command.at = "write" /\ UNCHANGED <<os, runs>>
      /\ (WriteUnitFile(TRUE) /\ Goes("reload")) \/ (WriteUnitFile(FALSE) /\ Ends)
  BY DEF WriteUnit, Steps
<1>2. PlaceTypes'
  BY <1>1, RunnerTypes
<1>3. CASE WriteUnitFile(FALSE) /\ Ends
  BY <1>2, <1>3, EndKeeps
<1>4. CASE WriteUnitFile(TRUE) /\ Goes("reload")
  <2>1. "reload" \in Ats
    BY DEF Ats
  <2>2. SetupFits' /\ AgreedFits'
    BY <1>1, <1>4, <2>1, GoesOn, ServiceTypes DEF ServiceInv, SetupFits, AgreedFits, RunsUnit,
       WriteUnitFile,
       PlaceTypes, Daemons
  <2> QED
    BY <1>1, <1>2, <1>4, <2>1, <2>2, StepKeeps
<1> QED
  BY <1>1, <1>3, <1>4

\* systemd knows it now, launchd does not yet.
LEMMA ReloadKeeps == ASSUME ServiceAssumption, ServiceInv, Reload PROVE ServiceInv'
<1>1. PICK next \in {"enable", "switch"} :
      /\ command.at = "reload" /\ UNCHANGED <<os, runs>>
      /\ (DaemonReload(TRUE) /\ Goes(next)) \/ (DaemonReload(FALSE) /\ Ends)
      /\ command.op = "setup" => next = "enable"
  BY DEF Reload, Steps
<1>2. PlaceTypes'
  BY <1>1, RunnerTypes
<1>3. CASE DaemonReload(FALSE) /\ Ends
  BY <1>2, <1>3, EndKeeps
<1>4. CASE DaemonReload(TRUE) /\ Goes(next)
  <2>1. next \in Ats
    BY <1>1 DEF Ats
  <2>2. CASE command.op # "setup"
    BY <1>1, <1>2, <1>4, <2>1, <2>2, StepKeeps, OthersFit
  <2>3. CASE command.op = "setup"
    <3>1. /\ next = "enable" /\ disk' = disk /\ daemon' = daemon /\ installed' = installed
          /\ loaded' = IF os = "linux" THEN disk ELSE loaded
      BY <1>1, <1>4, <2>3 DEF DaemonReload
    <3>2. SetupFits' /\ AgreedFits'
      BY <1>1, <1>4, <2>1, <2>3, <3>1, GoesOn, ServiceTypes DEF ServiceInv, SetupFits, AgreedFits, RunsUnit
    <3> QED
      BY <1>1, <1>2, <1>4, <2>1, <3>2, StepKeeps
  <2> QED
    BY <2>2, <2>3
<1> QED
  BY <1>1, <1>3, <1>4

\* It is loaded on both, and what was started now runs it.
LEMMA EnableKeeps == ASSUME ServiceAssumption, ServiceInv, Enable PROVE ServiceInv'
<1>1. PICK next \in {"kick", "probe"} :
      /\ command.at = "enable" /\ UNCHANGED <<os, runs>>
      /\ (EnableAndStart(TRUE) /\ Goes(next)) \/ (EnableAndStart(FALSE) /\ Ends)
      /\ next = IF command.changed THEN "kick" ELSE "probe"
  BY DEF Enable, Steps
<1>2. PlaceTypes'
  BY <1>1, RunnerTypes
<1>3. CASE EnableAndStart(FALSE) /\ Ends
  BY <1>2, <1>3, EndKeeps
<1>4. CASE EnableAndStart(TRUE) /\ Goes(next)
  <2>1. next \in Ats
    BY <1>1 DEF Ats
  <2>2. CASE command.op # "setup"
    BY <1>1, <1>2, <1>4, <2>1, <2>2, StepKeeps, OthersFit
  <2>3. CASE command.op = "setup"
    <3>1. disk' = disk /\ disk = command.want /\ command.want \in Units /\ PlaceTypes
      BY <1>1, <1>4, <2>3, ServiceTypes DEF ServiceInv, SetupFits, EnableAndStart
    <3>2. loaded' = command.want
      BY <1>1, <1>4, <2>3, <3>1, ServiceTypes DEF ServiceInv, SetupFits, EnableAndStart, EnableNow,
         Bootstrap, PlaceTypes
    <3>3. \/ daemon' = daemon /\ (loaded = command.want /\ os = "linux")
          \/ daemon' = Spawn(command.want)
      BY <1>1, <1>4, <2>3, <3>1, ServiceTypes DEF ServiceInv, SetupFits, EnableAndStart, EnableNow,
         Bootstrap, PlaceTypes,
         Started
    <3>4. SetupFits'
      BY <1>1, <1>4, <2>1, <2>3, <3>1, <3>2, GoesOn, ServiceTypes DEF ServiceInv, SetupFits
    <3>5. ASSUME command.agreed, ~ command.changed PROVE RunsUnit(command.want)'
      <4>1. RunsUnit(command.want) /\ command'.want = command.want
        BY <1>1, <1>4, <2>1, <2>3, <3>5, GoesOn DEF ServiceInv, AgreedFits
      <4>2. Spawn(command.want).unit = command.want
        BY <3>1, SpawnType
      <4> QED
        BY <3>3, <4>1, <4>2 DEF RunsUnit
    <3>6. AgreedFits'
      BY <1>1, <1>4, <2>1, <3>5, GoesOn DEF AgreedFits
    <3> QED
      BY <1>1, <1>2, <1>4, <2>1, <3>4, <3>6, StepKeeps
  <2> QED
    BY <2>2, <2>3
<1> QED
  BY <1>1, <1>3, <1>4

\* Every restart of a command: a setup that restarts the service has loaded its
\* unit.
LEMMA RestartRunnerKeeps ==
    ASSUME ServiceAssumption, ServiceInv, NEW at \in {"kick", "again", "kickback", "restart"},
           NEW next \in {"wait", "done"},
           command.at = at, UNCHANGED <<os, runs>>, at # "restart" => next = "wait",
           (RestartRunner(TRUE) /\ Goes(next)) \/ (RestartRunner(FALSE) /\ Ends)
    PROVE  ServiceInv'
<1>1. PlaceTypes'
  BY RunnerTypes
<1>2. CASE RestartRunner(FALSE) /\ Ends
  BY <1>1, <1>2, EndKeeps
<1>3. CASE RestartRunner(TRUE) /\ Goes(next)
  <2>1. next \in Ats
    BY DEF Ats
  <2>2. CASE command.op # "setup"
    BY <1>1, <1>3, <2>1, <2>2, StepKeeps, OthersFit
  <2>3. CASE command.op = "setup"
    <3>1. /\ command.want \in Units /\ loaded = command.want /\ disk = command.want /\ command.old = 0
          /\ at \in {"kick", "again"} /\ next = "wait"
      BY <2>3 DEF ServiceInv, SetupFits
    <3>2. /\ daemon' = Spawn(command.want) /\ loaded' = command.want /\ disk' = command.want
          /\ installed' = installed
      BY <1>3, <3>1, ServiceTypes DEF RestartRunner, Kick, Started
    <3>3. /\ daemon'.unit = command.want /\ daemon'.version = installed
          /\ daemon' \in Daemons
      BY <3>1, <3>2, SpawnType, ServiceTypes
    <3>4. daemon' # Absent
      BY <3>1, <3>2, SpawnType, ServiceTypes DEF ServiceAssumption
    <3>5. DaemonReady'
      BY <1>3, <2>1, <3>2, <3>3, <3>4, GoesOn DEF DaemonReady, Serves
    <3>6. SetupFits' /\ AgreedFits'
      BY <1>3, <2>1, <3>1, <3>2, <3>3, <3>5, GoesOn DEF SetupFits, AgreedFits, RunsUnit
    <3> QED
      BY <1>1, <1>3, <2>1, <3>6, StepKeeps
  <2> QED
    BY <2>2, <2>3
<1> QED
  BY <1>2, <1>3

\* Steps that no setup takes.
LEMMA OtherStepKeeps ==
    ASSUME ServiceAssumption, ServiceInv, NEW step \in Ats, PlaceTypes',
           command.op # "setup" \/ command.at = "done",
           (Goes(step) /\ command.at # "idle") \/ Ends
    PROVE  ServiceInv'
<1>1. CASE Ends
  BY <1>1, EndKeeps
<1>2. CASE Goes(step) /\ command.at # "idle"
  <2>1. command.op # "setup"
    BY DEF ServiceInv, SetupFits
  <2> QED
    BY <1>2, <2>1, OthersFit, StepKeeps
<1> QED
  BY <1>1, <1>2

\* A setup begins knowing whether the unit of the file is loaded and runs.
LEMMA BeginCommandKeeps ==
    ASSUME ServiceAssumption, ServiceInv, NEW op \in Ops \ {"none"}, NEW want \in Units \cup {Absent},
           op \in {"setup", "update"} => want \in Units, BeginCommand(op, want)
    PROVE  ServiceInv'
<1> DEFINE at == CASE op \in {"setup", "update"} -> "read" [] op = "uninstall" -> "disable" [] OTHER -> op
           agreed == disk = loaded /\ (daemon # Absent => daemon.unit = disk)
<1>1. /\ command' = [op |-> op, at |-> at, want |-> want, changed |-> FALSE, agreed |-> agreed, old |-> 0]
      /\ runs' = runs + 1 /\ runs < MaxRuns /\ UNCHANGED <<os, disk, loaded, daemon, installed>>
  BY DEF BeginCommand, Free
<1>2. at \in Ats /\ (op = "setup" => at = "read") /\ agreed \in BOOLEAN
  BY DEF Ats, Ops
<1> HIDE DEF at
<1>3. PlaceTypes'
  BY <1>1, ServiceTypes DEF PlaceTypes, ServiceAssumption
<1>4. /\ command'.op = op /\ command'.at = at /\ command'.want = want /\ command'.old = 0
      /\ command'.agreed = agreed /\ command'.changed = FALSE
  BY <1>1
<1>5. command' \in CommandRecords
  BY <1>1, <1>2 DEF CommandRecords, Ops, Ats, ServiceAssumption
<1>6. SetupFits'
  BY <1>2, <1>4 DEF SetupFits
<1>7. AgreedFits'
  BY <1>1, <1>2, <1>4 DEF AgreedFits, RunsUnit
<1> QED
  BY <1>3, <1>4, <1>5, <1>6, <1>7 DEF ServiceInv, PlaceTypes

\* A setup notes whether the file held another unit.
LEMMA ReadKeeps == ASSUME ServiceAssumption, ServiceInv, ReadUnit PROVE ServiceInv'
<1>1. /\ command' = [op |-> "setup", at |-> "write", want |-> command.want, changed |-> UnitChanged,
                     agreed |-> command.agreed, old |-> command.old]
      /\ command.op = "setup" /\ command.at = "read"
      /\ UNCHANGED <<os, disk, loaded, daemon, installed, runs>>
  BY ServiceTypes DEF ReadUnit, At
<1>2. command' \in CommandRecords
  BY <1>1, ServiceTypes DEF CommandRecords, UnitChanged
<1>3. PlaceTypes'
  BY <1>1, ServiceTypes DEF PlaceTypes
<1>4. SetupFits' /\ AgreedFits'
  BY <1>1 DEF ServiceInv, SetupFits, AgreedFits, RunsUnit, UnitChanged
<1> QED
  BY <1>1, <1>2, <1>3, <1>4 DEF ServiceInv, PlaceTypes

\* A daemon that answers as it should may be left alone.
LEMMA ProbeVersionKeeps == ASSUME ServiceAssumption, ServiceInv, ProbeVersion PROVE ServiceInv'
<1>1. PICK next \in {"again", "wait"} :
      /\ Goes(next) /\ command.at = "probe" /\ (next = "wait" => ~ Outdated)
      /\ UNCHANGED <<os, disk, loaded, daemon, installed, runs>>
  BY DEF ProbeVersion
<1>2. PlaceTypes' /\ next \in Ats
  BY <1>1, ServiceTypes DEF PlaceTypes, Ats
<1>3. CASE command.op # "setup"
  BY <1>1, <1>2, <1>3, OthersFit, StepKeeps
<1>4. CASE command.op = "setup"
  <2>1. next = "wait" => DaemonReady
    BY <1>1, <1>4 DEF ServiceInv, SetupFits, Outdated
  <2>2. DaemonReady' <=> DaemonReady
    BY <1>1, <1>2, GoesOn DEF DaemonReady, Serves
  <2>3. SetupFits' /\ AgreedFits'
    BY <1>1, <1>2, <1>4, <2>1, <2>2, GoesOn DEF ServiceInv, SetupFits, AgreedFits, RunsUnit
  <2> QED
    BY <1>1, <1>2, <2>3, StepKeeps
<1> QED
  BY <1>3, <1>4

\* An update decides about its unit, or the program it wants is put in place.
LEMMA UpdateKeeps ==
    ASSUME ServiceAssumption, ServiceInv, RepairUnit \/ (\E v \in 1..MaxVersion : Switch(v)) \/ TimesOut
    PROVE  ServiceInv'
<1>1. CASE RepairUnit
  <2>1. PICK next \in {"switch", "write"} : Goes(next)
    BY <1>1 DEF RepairUnit, Goes
  <2>2. /\ command.op = "update" /\ command.at = "read"
        /\ UNCHANGED <<os, disk, loaded, daemon, installed, runs>>
    BY <1>1 DEF RepairUnit, At
  <2>3. PlaceTypes' /\ next \in Ats
    BY <2>2, ServiceTypes DEF PlaceTypes, Ats
  <2> QED
    BY <2>1, <2>2, <2>3, OtherStepKeeps
<1>2. ASSUME NEW c \in CommandRecords, command' = c, c.op = command.op, c.op # "setup", c.want = command.want,
             command.at # "idle", PlaceTypes'
      PROVE  ServiceInv'
  BY <1>2 DEF ServiceInv, SetupFits, AgreedFits, PlaceTypes
<1>3. ASSUME NEW v \in 1..MaxVersion, Switch(v) PROVE ServiceInv'
  <2>1. /\ command.at = "switch" /\ installed' = v /\ UNCHANGED <<os, disk, loaded, daemon, runs>>
    BY <1>3 DEF Switch
  <2>2. command.op # "setup"
    BY <2>1 DEF ServiceInv, SetupFits
  <2>3. PlaceTypes'
    BY <2>1, ServiceTypes DEF PlaceTypes
  <2>4. PICK next \in {"wait", "restart"}, old \in 0..MaxVersion :
           command' = [op |-> command.op, at |-> next, want |-> command.want, changed |-> command.changed,
                       agreed |-> command.agreed, old |-> old]
    <3>1. CASE v = installed
      <4>1. PICK next \in {"wait", "restart"} : command' = [command EXCEPT !.at = next]
        BY <1>3, <3>1 DEF Switch
      <4>2. command' = [op |-> command.op, at |-> next, want |-> command.want, changed |-> command.changed,
                        agreed |-> command.agreed, old |-> command.old]
        BY <4>1, ServiceTypes
      <4> QED
        BY <4>2, ServiceTypes
    <3>2. CASE v # installed
      <4>1. command' = [command EXCEPT !.at = "restart", !.old = installed]
        BY <1>3, <3>2 DEF Switch
      <4>2. command' = [op |-> command.op, at |-> "restart", want |-> command.want, changed |-> command.changed,
                        agreed |-> command.agreed, old |-> installed]
        BY <4>1, ServiceTypes
      <4>3. installed \in 0..MaxVersion
        BY ServiceTypes DEF PlaceTypes, ServiceAssumption
      <4> QED
        BY <4>2, <4>3
    <3> QED
      BY <3>1, <3>2
  <2>5. command' \in CommandRecords
    BY <2>4, ServiceTypes DEF CommandRecords, Ops
  <2> QED
    BY <1>2, <2>1, <2>2, <2>3, <2>4, <2>5
<1>4. CASE TimesOut
  <2>1. command.at = "wait" /\ UNCHANGED <<os, disk, loaded, daemon, runs>>
    BY <1>4 DEF TimesOut
  <2>2. CASE command.old = 0
    BY <1>4, <2>1, <2>2, ServiceTypes, EndKeeps DEF TimesOut, PlaceTypes
  <2>3. CASE command.old # 0
    <3>1. /\ command' = [op |-> command.op, at |-> "kickback", want |-> command.want, changed |-> command.changed,
                         agreed |-> command.agreed, old |-> 0]
          /\ installed' = command.old
      BY <1>4, <2>3, ServiceTypes DEF TimesOut
    <3>2. command.op # "setup"
      BY <2>3 DEF ServiceInv, SetupFits
    <3>3. PlaceTypes'
      BY <2>1, <2>3, <3>1, ServiceTypes DEF PlaceTypes, ServiceAssumption
    <3>4. command' \in CommandRecords
      BY <3>1, ServiceTypes DEF CommandRecords, Ops, ServiceAssumption
    <3> QED
      BY <1>2, <2>1, <3>1, <3>2, <3>3, <3>4
  <2> QED
    BY <2>2, <2>3
<1> QED
  BY <1>1, <1>3, <1>4

\* The daemon ends, the host starts again, the program is replaced by hand.
LEMMA HostKeeps == ASSUME ServiceAssumption, ServiceInv, Crashes \/ Boots \/ Installs PROVE ServiceInv'
<1>1. PlaceTypes
  BY ServiceTypes
<1>2. \A u \in Units \cup {Custom} : Spawn(u) \in Daemons /\ Spawn(u).unit = u /\ Spawn(u).version = installed
  BY <1>1, SpawnType
<1>3. CASE Boots
  BY <1>1, <1>2, <1>3, EndKeeps DEF Boots, PlaceTypes
<1>4. CASE Installs
  <2>1. PlaceTypes' /\ command.at = "idle" /\ UNCHANGED <<os, disk, loaded, daemon, command, runs>>
    BY <1>1, <1>4 DEF Installs, PlaceTypes, ServiceAssumption
  <2> QED
    BY <2>1 DEF ServiceInv, PlaceTypes, SetupFits, AgreedFits, RunsUnit
<1>5. CASE Crashes
  <2>1. /\ daemon # Absent /\ UNCHANGED <<os, disk, loaded, installed, command, runs>>
        /\ daemon' = IF loaded = Absent THEN Absent ELSE Spawn(loaded)
    BY <1>5 DEF Crashes, Started
  <2>2. PlaceTypes'
    BY <1>1, <1>2, <2>1 DEF PlaceTypes
  <2>3. ASSUME command.op = "setup", command.at = "wait" PROVE DaemonReady'
    <3>1. loaded = command.want /\ command.want \in Units
      BY <2>3 DEF ServiceInv, SetupFits
    <3>2. daemon' = Spawn(command.want) /\ daemon' \in Daemons
      BY <1>2, <2>1, <3>1, ServiceTypes
    <3> QED
      BY <1>2, <2>1, <3>1, <3>2 DEF DaemonReady, Serves, ServiceAssumption
  <2>4. SetupFits'
    BY <2>1, <2>3 DEF ServiceInv, SetupFits
  <2>5. ASSUME NEW u \in Units \cup {Absent, Custom}, loaded \in {Absent, u} PROVE RunsUnit(u)'
    BY <1>1, <1>2, <2>1, <2>5 DEF RunsUnit, PlaceTypes
  <2>6. AgreedFits'
    <3> SUFFICES ASSUME command.op = "setup", command.agreed PROVE AgreedFits'
      BY <2>1 DEF AgreedFits
    <3>1. CASE command.at \in {"read", "write"}
      BY <1>1, <2>1, <2>5, <3>1 DEF ServiceInv, AgreedFits, PlaceTypes
    <3>2. CASE command.at \in {"reload", "enable"} /\ ~ command.changed
      BY <2>1, <2>5, <3>2, ServiceTypes DEF ServiceInv, AgreedFits
    <3>3. CASE command.at \in {"probe", "wait"}
      BY <2>1, <2>5, <3>3, ServiceTypes DEF ServiceInv, AgreedFits, SetupFits
    <3> QED
      BY <2>1, <3>1, <3>2, <3>3 DEF AgreedFits
  <2> QED
    BY <2>1, <2>2, <2>4, <2>6 DEF ServiceInv, PlaceTypes
<1> QED
  BY <1>3, <1>4, <1>5

\* Every step of the service, of its commands and of the host.
LEMMA ServiceStep ==
    ASSUME ServiceAssumption, ServiceInv, [ServiceNext]_serviceVars
    PROVE  ServiceInv'
<1>1. CASE UNCHANGED serviceVars
  BY <1>1 DEF serviceVars, ServiceInv, SetupFits, AgreedFits, RunsUnit, DaemonReady, Serves
<1>2. ASSUME NEW w \in Units, NEW op \in {"setup", "update"}, BeginCommand(op, w) PROVE ServiceInv'
  BY <1>2, BeginCommandKeeps DEF Ops
<1>3. ASSUME NEW op \in {"start", "stop", "restart", "uninstall"}, BeginCommand(op, Absent) PROVE ServiceInv'
  BY <1>3, BeginCommandKeeps DEF Ops
<1>4. CASE Refuses \/ Succeeds \/ Done
  <2>1. Ends /\ UNCHANGED <<os, disk, loaded, daemon, installed, runs>>
    BY <1>4 DEF Refuses, Succeeds, Done
  <2>2. PlaceTypes'
    BY <2>1, ServiceTypes DEF PlaceTypes
  <2> QED
    BY <2>1, <2>2, EndKeeps
<1>5. CASE RestartChanged
  BY <1>5, RestartRunnerKeeps DEF RestartChanged, Steps
<1>6. CASE RestartInstalled
  BY <1>6, RestartRunnerKeeps DEF RestartInstalled, Steps
<1>7. CASE RestartRestored
  BY <1>7, RestartRunnerKeeps DEF RestartRestored, Steps
<1>8. CASE RestartService
  BY <1>8, RestartRunnerKeeps DEF RestartService, Steps
<1>9. CASE Start \/ Stop \/ Disable \/ RemoveUnit \/ Unload
  <2>1. PICK step \in {"done", "remove", "unload"} :
        /\ command.at \in {"start", "stop", "disable", "remove", "unload"}
        /\ (Goes(step) \/ Ends) /\ UNCHANGED <<os, runs>>
        /\ \E ok \in BOOLEAN : EnableAndStart(ok) \/ StopRunner(ok) \/ RemoveUnitFile(ok) \/ DaemonReload(ok)
    BY <1>9 DEF Start, Stop, Disable, RemoveUnit, Unload, Steps
  <2>2. PlaceTypes'
    BY <2>1, RunnerTypes
  <2>3. command.op # "setup" /\ step \in Ats /\ command.at # "idle"
    BY <2>1 DEF ServiceInv, SetupFits, Ats
  <2> QED
    BY <2>1, <2>2, <2>3, OtherStepKeeps
<1> QED
  BY <1>1, <1>2, <1>3, <1>4, <1>5, <1>6, <1>7, <1>8, <1>9, WriteKeeps, ReloadKeeps, EnableKeeps,
     ReadKeeps, ProbeVersionKeeps,
     UpdateKeeps, HostKeeps DEF ServiceNext

\* No command is under way at first.
LEMMA ServiceStarts == ASSUME ServiceAssumption, ServiceInit PROVE ServiceInv
<1>1. Free \in CommandRecords /\ Free.op = "none"
  BY DEF Free, CommandRecords, ServiceAssumption
<1> QED
  BY <1>1 DEF ServiceInit, ServiceInv, SetupFits, AgreedFits, ServiceAssumption

\* How far the commands of service.go have come is the same of the file, the
\* service manager and the daemon in every state, whichever of their steps
\* failed before.
THEOREM ServiceInvariance ==
    ASSUME ServiceAssumption PROVE ServiceSpec => []ServiceInv
<1>1. ServiceInit => ServiceInv
  BY ServiceStarts
<1>2. ServiceInv /\ [ServiceNext]_serviceVars => ServiceInv'
  BY ServiceStep
<1> QED
  BY <1>1, <1>2, PTL DEF ServiceSpec

\* A setup that reached its end (InstallService) finds the installed program
\* ready with the config it was given, and a daemon that ran the unit of the
\* file when the setup came runs the unit of the file then.
THEOREM SetupIsEffective ==
    ASSUME ServiceAssumption PROVE ServiceSpec => []SetupTakesEffect
<1>1. ASSUME ServiceInv PROVE SetupTakesEffect
  <2>1. CleanSetupSucceeds
    BY <1>1 DEF ServiceInv, SetupFits, CleanSetupSucceeds, At
  <2>2. ASSUME At("setup", "wait"), command.agreed PROVE daemon.unit = disk
    BY <1>1, <2>2 DEF ServiceInv, SetupFits, AgreedFits, RunsUnit, DaemonReady, Serves, At
  <2> QED
    BY <2>1, <2>2 DEF SetupTakesEffect, DaemonRunsUnit
<1> QED
  BY <1>1, ServiceInvariance, PTL

\* The variables of the service have their types.
THEOREM ServiceTypeCorrect ==
    ASSUME ServiceAssumption PROVE ServiceSpec => []ServiceTypeOK
<1>1. ASSUME ServiceInv PROVE ServiceTypeOK
  BY <1>1, ServiceTypes DEF ServiceTypeOK, PlaceTypes, Ops
<1> QED
  BY <1>1, ServiceInvariance, PTL

----------------------------------------------------------------------------
(* Prompts, answers and session starts: the invariants of the two tables.  *)

\* The entries of a log, and a log with one entry for each id.
Entries(log) == {log[i] : i \in DOMAIN log}
OneEach(log) == \A i, j \in DOMAIN log : log[i].id = log[j].id => i = j
Runs(log, id) == \E e \in Entries(log) : e.id = id /\ e.outcome = "running"
Unknown(log, id) == \A e \in Entries(log) : e.id # id

\* What a prompt and an answer are.
PromptEntries == [id : Ids, outcome : {"running", "sent", "unknown"}]
Prompts == [at : {"begin", "waits", "screen", "attach", "text", "enter"}, id : Ids, text : BOOLEAN,
            submit : BOOLEAN, typed : BOOLEAN, on : {Nobody}]
Answers == [at : {"lock", "read", "press", "keys"}, question : 1..MaxQuestions,
            screen : {Nobody, "drawn", "old"}]

PaneTypes == {question, asked, shown} \subseteq 0..MaxQuestions /\ opener \in {"answer", "other"}

InputTypes ==
    /\ PaneTypes
    /\ prompts \in Seq(PromptEntries) /\ Len(prompts) <= Capacity
    /\ answering \in Requests \cup {Nobody}
    /\ input \in [Requests -> {Input!Idle} \cup Prompts \cup Answers]
    /\ typed \in [Ids -> 0..2] /\ dropped \subseteq Ids /\ astray \subseteq {"drawn", "old"}

\* The request that types the text of an id.
Typing(r) == input[r].at \in {"screen", "attach", "text", "enter"}

\* One request at a time types for an id, and its entry says so.
TypistFits ==
    /\ OneEach(prompts)
    /\ \A r \in Requests : Typing(r) => Runs(prompts, input[r].id)
    /\ \A r, s \in Requests : Typing(r) /\ Typing(s) /\ input[r].id = input[s].id => r = s

\* How often a text was typed, by what the log and the request know.
TypedFits ==
    /\ \A id \in Ids \ dropped : typed[id] <= 1 /\ (Unknown(prompts, id) => typed[id] = 0)
    /\ \A e \in Entries(prompts) : e.outcome = "sent" => typed[e.id] > 0
    /\ \A r \in Requests :
          /\ input[r].at = "text" => input[r].text
          /\ Typing(r) /\ ~ (input[r].at = "enter" /\ input[r].text) /\ input[r].id \notin dropped => typed[input[r].id] = 0
          /\ input[r].at = "enter" /\ input[r].text => typed[input[r].id] > 0

\* Who has read a dialog holds its pane; when the screen was drawn, the question
\* of an answer is the one of its card, or another hand has opened it.
AnswersFit ==
    /\ "drawn" \notin astray
    /\ \A r \in Requests :
          /\ input[r].at \in {"read", "press", "keys"} => answering = r
          /\ input[r].at \in {"press", "keys"} =>
                /\ input[r].screen \in {"drawn", "old"}
                /\ input[r].screen = "drawn" /\ opener = "answer" => question = input[r].question

\* The pane does not move, or not because of an answer.
OthersMove == opener' = "other" \/ UNCHANGED <<question, opener>>

InputInv == InputTypes /\ TypistFits /\ TypedFits /\ AnswersFit

StartEntries == [id : Ids, content : Contents, outcome : {"running", "replied"}]
StartRecords == [at : {"begin", "waits", "attach", "open", "create", "shell", "foreground", "verify", "send"},
                 id : Ids, content : Contents, pane : 0..MaxPanes, shell : {"none", "zsh", "sh", "other"}]
Panes == [id : Ids, content : Contents, cwd : BOOLEAN, commands : 0..2]

SessionTypes ==
    /\ starts \in Seq(StartEntries) /\ Len(starts) <= Capacity
    /\ start \in [Requests -> {Sessions!Idle} \cup StartRecords]
    /\ pane \in Seq(Panes) /\ Len(pane) <= MaxPanes /\ forgotten \subseteq Ids

\* A start before, and after, its pane was created.
Creating(r) == start[r].at \in {"attach", "open", "create"}
Created(r) == start[r].at \in {"shell", "foreground", "verify", "send"}
Starting(r) == Creating(r) \/ Created(r)

\* One request at a time starts a session for an id; who waits for it asked
\* for the same.
StarterFits ==
    /\ OneEach(starts)
    /\ \A r \in Requests : Starting(r) \/ start[r].at = "waits" =>
          \E e \in Entries(starts) : e.id = start[r].id /\ e.content = start[r].content /\ e.outcome = "running"
    /\ \A r, s \in Requests : Starting(r) /\ Starting(s) /\ start[r].id = start[s].id => r = s

\* The panes of an id, by what the log and the request know.
PanesOf(panes, id) == {p \in DOMAIN panes : panes[p].id = id}
PanesFit ==
    /\ \A id \in Ids \ forgotten :
          /\ \A p, q \in PanesOf(pane, id) : p = q
          /\ Unknown(starts, id) => PanesOf(pane, id) = {}
    /\ \A r \in Requests : Creating(r) /\ start[r].id \notin forgotten => PanesOf(pane, start[r].id) = {}
    /\ \A r \in Requests : Created(r) =>
          /\ start[r].pane \in DOMAIN pane /\ pane[start[r].pane].id = start[r].id
          /\ pane[start[r].pane].commands = 0
          /\ start[r].at = "send" => pane[start[r].pane].cwd
    /\ \A p \in DOMAIN pane : pane[p].commands <= 1 /\ (pane[p].commands = 1 => pane[p].cwd)

SessionInv == SessionTypes /\ StarterFits /\ PanesFit

\* A sequence without one of its elements.
LEMMA RemovedAt ==
    ASSUME NEW S, NEW s \in Seq(S), NEW k \in DOMAIN s
    PROVE  /\ RemoveAt(s, k) \in Seq(S) /\ Len(RemoveAt(s, k)) = Len(s) - 1
           /\ \A j \in 1..(Len(s) - 1) : RemoveAt(s, k)[j] = s[IF j < k THEN j ELSE j + 1]
<1> DEFINE a == SubSeq(s, 1, k - 1)
           b == SubSeq(s, k + 1, Len(s))
<1>1. k \in 1..Len(s) /\ Len(s) \in Nat
  OBVIOUS
<1>2. a \in Seq(S) /\ Len(a) = k - 1 /\ \A j \in 1..(k - 1) : a[j] = s[j]
  BY <1>1, SubSeqProperties
<1>3. b \in Seq(S) /\ Len(b) = Len(s) - k /\ \A j \in 1..(Len(s) - k) : b[j] = s[k + j]
  BY <1>1, SubSeqProperties
<1>4. RemoveAt(s, k) = a \o b
  BY DEF RemoveAt
<1> HIDE DEF a, b
<1>5. a \o b \in Seq(S) /\ Len(a \o b) = Len(s) - 1
  BY <1>1, <1>2, <1>3, ConcatProperties
<1>6. ASSUME NEW j \in 1..(Len(s) - 1) PROVE (a \o b)[j] = s[IF j < k THEN j ELSE j + 1]
  BY <1>1, <1>2, <1>3, ConcatProperties
<1> QED
  BY <1>4, <1>5, <1>6

\* The log that lost an entry.
LEMMA LogShrinks ==
    ASSUME NEW S, NEW s \in Seq(S), OneEach(s), NEW k \in DOMAIN s
    PROVE  /\ OneEach(RemoveAt(s, k)) /\ Entries(RemoveAt(s, k)) = Entries(s) \ {s[k]}
<1> DEFINE t == RemoveAt(s, k)
           at(j) == IF j < k THEN j ELSE j + 1
<1>1. /\ t \in Seq(S) /\ Len(t) = Len(s) - 1 /\ DOMAIN s = 1..Len(s) /\ DOMAIN t = 1..(Len(s) - 1)
      /\ Len(s) \in Nat /\ k \in 1..Len(s)
      /\ \A j \in 1..(Len(s) - 1) : t[j] = s[at(j)]
  BY RemovedAt
<1>2. \A j \in DOMAIN t : at(j) \in DOMAIN s \ {k}
  BY <1>1
<1>3. \A i, j \in DOMAIN t : at(i) = at(j) => i = j
  BY <1>1
<1>4. \A i \in DOMAIN s \ {k} : \E j \in DOMAIN t : i = at(j)
  <2> TAKE i \in DOMAIN s \ {k}
  <2>1. CASE i < k
    <3>1. i \in DOMAIN t /\ i = at(i)
      BY <1>1, <2>1
    <3> QED
      BY <3>1
  <2>2. CASE i > k
    <3>1. i - 1 \in DOMAIN t /\ i = at(i - 1)
      BY <1>1, <2>2
    <3> QED
      BY <3>1
  <2> QED
    BY <1>1, <2>1, <2>2
<1> HIDE DEF t, at
<1>5. OneEach(t)
  BY <1>1, <1>2, <1>3 DEF OneEach
<1>6. \A i \in DOMAIN s \ {k} : s[i] # s[k]
  BY DEF OneEach
<1>7. Entries(t) = Entries(s) \ {s[k]}
  BY <1>1, <1>2, <1>4, <1>6 DEF Entries
<1> QED
  BY <1>5, <1>7 DEF t

\* The log that got an entry.
LEMMA LogGrows ==
    ASSUME NEW S, NEW s \in Seq(S), OneEach(s), NEW e \in S, Unknown(s, e.id)
    PROVE  /\ Append(s, e) \in Seq(S) /\ Len(Append(s, e)) = Len(s) + 1
           /\ OneEach(Append(s, e)) /\ Entries(Append(s, e)) = Entries(s) \cup {e}
<1> DEFINE t == Append(s, e)
<1>1. /\ t \in Seq(S) /\ Len(t) = Len(s) + 1 /\ DOMAIN s = 1..Len(s) /\ DOMAIN t = 1..(Len(s) + 1)
      /\ Len(s) \in Nat /\ t[Len(s) + 1] = e /\ \A j \in 1..Len(s) : t[j] = s[j]
  BY AppendProperties
<1>2. DOMAIN t = DOMAIN s \cup {Len(s) + 1} /\ Len(s) + 1 \notin DOMAIN s
  BY <1>1
<1> HIDE DEF t
<1>3. \A i \in DOMAIN s : s[i].id # e.id
  BY DEF Unknown, Entries
<1>4. OneEach(t)
  BY <1>1, <1>2, <1>3 DEF OneEach
<1>5. Entries(t) = Entries(s) \cup {e}
  BY <1>1, <1>2 DEF Entries
<1> QED
  BY <1>1, <1>4, <1>5 DEF t
\* The oldest finished entry is one.
LEMMA OldestIsFinished ==
    ASSUME NEW S, NEW s \in Seq(S), Finished(s) # {}
    PROVE  Min(Finished(s)) \in Finished(s)
<1>1. Finished(s) \subseteq Nat
  BY DEF Finished
<1>2. \E i \in Finished(s) : \A j \in Finished(s) : ~ (<<j, i>> \in OpToRel(<, Nat))
  BY <1>1, NatLessThanWellFounded, WFMin, Zenon
<1>3. \A i, j \in Nat : j < i => <<j, i>> \in OpToRel(<, Nat)
  BY Zenon DEF OpToRel
<1>4. \E i \in Finished(s) : \A j \in Finished(s) : ~ (j < i)
  BY <1>1, <1>2, <1>3, Zenon
<1>5. PICK i \in Finished(s) : \A j \in Finished(s) : i =< j
  BY <1>1, <1>4
<1> QED
  BY <1>5 DEF Min

\* begin: the entry comes, and one that has finished may go.
LEMMA BegunEntries ==
    ASSUME NEW S, NEW s \in Seq(S), OneEach(s), NEW capacity \in Nat \ {0}, Len(s) <= capacity,
           HasRoom(s, capacity), NEW e \in S, Unknown(s, e.id)
    PROVE  /\ Begun(s, e, capacity) \in Seq(S) /\ Len(Begun(s, e, capacity)) <= capacity
           /\ OneEach(Begun(s, e, capacity))
           /\ e \in Entries(Begun(s, e, capacity))
           /\ \A f \in Entries(s) : f.outcome = "running" => f \in Entries(Begun(s, e, capacity))
           /\ \A f \in Entries(Begun(s, e, capacity)) : f \in Entries(s) \/ f = e
<1>1. CASE Len(s) < capacity
  <2>1. Begun(s, e, capacity) = Append(s, e)
    BY <1>1 DEF Begun
  <2>2. Entries(Append(s, e)) = Entries(s) \cup {e}
    BY LogGrows
  <2>3. /\ Append(s, e) \in Seq(S) /\ Len(Append(s, e)) <= capacity
        /\ OneEach(Append(s, e))
    BY <1>1, LogGrows
  <2> QED
    BY <2>1, <2>2, <2>3
<1>2. CASE ~ (Len(s) < capacity)
  <2> DEFINE k == Min(Finished(s))
             t == RemoveAt(s, k)
  <2>1. Begun(s, e, capacity) = Append(t, e)
    BY <1>2 DEF Begun
  <2>2. k \in DOMAIN s /\ s[k].outcome # "running"
    BY <1>2, OldestIsFinished DEF HasRoom, Finished
  <2> HIDE DEF k
  <2>3. /\ t \in Seq(S) /\ Len(t) = Len(s) - 1 /\ OneEach(t)
        /\ Entries(t) = Entries(s) \ {s[k]} /\ {s[k]} \in SUBSET Entries(s)
    BY <2>2, RemovedAt, LogShrinks DEF Entries
  <2> HIDE DEF t
  <2>4. Unknown(t, e.id)
    BY <2>3 DEF Unknown
  <2>5. /\ Append(t, e) \in Seq(S) /\ Len(Append(t, e)) = Len(s) /\ OneEach(Append(t, e))
        /\ Entries(Append(t, e)) = (Entries(s) \ {s[k]}) \cup {e}
    BY <2>3, <2>4, LogGrows
  <2> QED
    BY <2>1, <2>2, <2>3, <2>5
<1> QED
  BY <1>1, <1>2

\* finish, and the deletion of old entries.
LEMMA WithoutEntries ==
    ASSUME NEW S, NEW s \in Seq(S), OneEach(s), NEW id, ~ Unknown(s, id)
    PROVE  /\ Without(s, id) \in Seq(S) /\ Len(Without(s, id)) <= Len(s) /\ OneEach(Without(s, id))
           /\ Entries(Without(s, id)) = {e \in Entries(s) : e.id # id}
<1>1. PlaceOf(s, id) \in DOMAIN s /\ s[PlaceOf(s, id)].id = id
  BY DEF PlaceOf, Unknown, Entries
<1> DEFINE k == PlaceOf(s, id)
<1> HIDE DEF k
<1>2. k \in DOMAIN s /\ s[k].id = id /\ Without(s, id) = RemoveAt(s, k)
  BY <1>1 DEF Without, k
<1>3. Entries(s) \ {s[k]} = {e \in Entries(s) : e.id # id}
  BY <1>2 DEF Entries, OneEach
<1> QED
  BY <1>2, <1>3, RemovedAt, LogShrinks

\* finish: the entry keeps its id and gets the outcome.
LEMMA EndedEntries ==
    ASSUME NEW S, NEW s \in Seq(S), OneEach(s), NEW id, NEW how, how # "forgotten",
           \A e \in S : [e EXCEPT !.outcome = how] \in S /\ [e EXCEPT !.outcome = how].id = e.id
    PROVE  /\ Ended(s, id, how) \in Seq(S) /\ Len(Ended(s, id, how)) = Len(s) /\ OneEach(Ended(s, id, how))
           /\ Entries(Ended(s, id, how)) =
                 {IF e.id = id THEN [e EXCEPT !.outcome = how] ELSE e : e \in Entries(s)}
<1> DEFINE new(e) == IF e.id = id THEN [e EXCEPT !.outcome = how] ELSE e
           t == [i \in DOMAIN s |-> new(s[i])]
<1>1. Ended(s, id, how) = t
  BY DEF Ended
<1>2. \A e \in S : new(e) \in S /\ new(e).id = e.id
  OBVIOUS
<1>3. DOMAIN s = 1..Len(s) /\ Len(s) \in Nat /\ \A i \in DOMAIN s : s[i] \in S
  OBVIOUS
<1> HIDE DEF new
<1>4. t \in Seq(S) /\ Len(t) = Len(s) /\ DOMAIN t = DOMAIN s
  BY <1>2, <1>3
<1>5. OneEach(t)
  BY <1>2, <1>3, <1>4 DEF OneEach
<1>6. Entries(t) = {new(e) : e \in Entries(s)}
  BY <1>4 DEF Entries
<1> QED
  BY <1>1, <1>4, <1>5, <1>6 DEF new

\* The two logs have the same operators.
LEMMA SameLogs ==
    /\ \A s, id : (Input!Has(s, id) <=> ~ Unknown(s, id)) /\ Input!Without(s, id) = Without(s, id)
    /\ \A s, e, c : Input!Begun(s, e, c) = Begun(s, e, c) /\ (Input!HasRoom(s, c) <=> HasRoom(s, c))
    /\ \A s, id, o : Input!Ended(s, id, o) = IF o = "forgotten" THEN Without(s, id) ELSE Ended(s, id, o)
<1>1. \A s, id : (Input!Has(s, id) <=> ~ Unknown(s, id))
  BY DEF Input!Has, Unknown, Entries
<1>2. \A s, id : Input!Without(s, id) = Without(s, id)
  BY DEF Input!Without, Input!RemoveAt, Input!PlaceOf, Without, RemoveAt, PlaceOf
<1>3. \A s, e, c : Input!Begun(s, e, c) = Begun(s, e, c) /\ (Input!HasRoom(s, c) <=> HasRoom(s, c))
  BY DEF Input!Begun, Begun, Input!HasRoom, HasRoom, Input!Finished, Finished, Input!RemoveAt,
     RemoveAt, Input!Min, Min
<1>4. \A s, id, o : Input!Ended(s, id, o) = IF o = "forgotten" THEN Without(s, id) ELSE Ended(s, id, o)
  BY <1>2 DEF Input!Ended, Ended
<1> QED
  BY <1>1, <1>2, <1>3, <1>4
\* A request by the step it is at.
LEMMA Shapes ==
    ASSUME InputTypes, NEW r \in Requests
    PROVE  /\ input[r].at \in {"begin", "waits", "screen", "attach", "text", "enter"} <=> input[r] \in Prompts
           /\ input[r].at \in {"lock", "read", "press", "keys"} <=> input[r] \in Answers
           /\ input[r].at = "idle" <=> input[r] = Input!Idle
BY DEF InputTypes, Prompts, Answers, Input!Idle

\* A prompt goes on to a step.
LEMMA PromptGoes ==
    ASSUME InputTypes, NEW r \in Requests, input[r] \in Prompts,
           NEW step \in {"begin", "waits", "screen", "attach", "text", "enter"}, Input!Goes(r, step)
    PROVE  /\ input' \in [Requests -> {Input!Idle} \cup Prompts \cup Answers]
           /\ input'[r].at = step /\ input'[r].id = input[r].id /\ input'[r].text = input[r].text
           /\ \A s \in Requests \ {r} : input'[s] = input[s]
<1>1. PICK p \in Prompts : p = input[r]
  OBVIOUS
<1>2. PICK q : q = [p EXCEPT !.at = step]
  OBVIOUS
<1>3. q \in Prompts /\ q.at = step /\ q.id = p.id /\ q.text = p.text
  BY <1>2 DEF Prompts
<1>4. input' = [input EXCEPT ![r] = q]
  BY <1>1, <1>2 DEF Input!Goes
<1> QED
  BY <1>1, <1>3, <1>4 DEF InputTypes

\* The Enter is still to come.
LEMMA PromptGoesOn ==
    ASSUME InputTypes, NEW r \in Requests, input[r] \in Prompts,
           input' = [input EXCEPT ![r].at = "enter", ![r].typed = TRUE]
    PROVE  /\ input' \in [Requests -> {Input!Idle} \cup Prompts \cup Answers]
           /\ input'[r].at = "enter" /\ input'[r].id = input[r].id /\ input'[r].text = input[r].text
           /\ \A s \in Requests \ {r} : input'[s] = input[s]
<1>1. PICK p \in Prompts : p = input[r]
  OBVIOUS
<1>2. PICK q : q = [p EXCEPT !.at = "enter", !.typed = TRUE]
  OBVIOUS
<1>3. q \in Prompts /\ q.at = "enter" /\ q.id = p.id /\ q.text = p.text
  BY <1>2 DEF Prompts
<1>4. input' = [input EXCEPT ![r] = q]
  BY <1>1, <1>2
<1> QED
  BY <1>1, <1>3, <1>4 DEF InputTypes

\* An answer goes on to a step.
LEMMA AnswerGoes ==
    ASSUME InputTypes, NEW r \in Requests, input[r] \in Answers, NEW step \in {"lock", "read", "press", "keys"},
           Input!Goes(r, step)
    PROVE  /\ input' \in [Requests -> {Input!Idle} \cup Prompts \cup Answers]
           /\ input'[r].at = step /\ input'[r].question = input[r].question /\ input'[r].screen = input[r].screen
           /\ \A s \in Requests \ {r} : input'[s] = input[s]
<1>1. PICK p \in Answers : p = input[r]
  OBVIOUS
<1>2. PICK q : q = [p EXCEPT !.at = step]
  OBVIOUS
<1>3. q \in Answers /\ q.at = step /\ q.question = p.question /\ q.screen = p.screen
  BY <1>2 DEF Answers
<1>4. input' = [input EXCEPT ![r] = q]
  BY <1>1, <1>2 DEF Input!Goes
<1> QED
  BY <1>1, <1>3, <1>4 DEF InputTypes

\* The dialog was read.
LEMMA AnswerMoves ==
    ASSUME InputTypes, NEW r \in Requests, input[r] \in Answers, NEW m \in {"drawn", "old"},
           input' = [input EXCEPT ![r].at = "press", ![r].screen = m]
    PROVE  /\ input' \in [Requests -> {Input!Idle} \cup Prompts \cup Answers]
           /\ input'[r].at = "press" /\ input'[r].question = input[r].question /\ input'[r].screen = m
           /\ \A s \in Requests \ {r} : input'[s] = input[s]
<1>1. PICK p \in Answers : p = input[r]
  OBVIOUS
<1>2. PICK q : q = [p EXCEPT !.at = "press", !.screen = m]
  OBVIOUS
<1>3. q \in Answers /\ q.at = "press" /\ q.question = p.question /\ q.screen = m
  BY <1>2 DEF Answers
<1>4. input' = [input EXCEPT ![r] = q]
  BY <1>1, <1>2
<1> QED
  BY <1>1, <1>3, <1>4 DEF InputTypes

\* A request that got its reply.
LEMMA Replies ==
    ASSUME InputTypes, NEW r \in Requests, Input!Replied(r)
    PROVE  /\ input' \in [Requests -> {Input!Idle} \cup Prompts \cup Answers]
           /\ input'[r] = Input!Idle /\ input'[r].at = "idle"
           /\ \A s \in Requests \ {r} : input'[s] = input[s]
BY DEF InputTypes, Input!Replied, Input!Idle

\* Steps that neither type nor change a log leave what is known of both alone.
LEMMA PromptsStay ==
    ASSUME TypistFits, TypedFits, UNCHANGED <<prompts, typed, dropped>>,
           \A r \in Requests : Typing(r)' =>
              /\ Typing(r) /\ input'[r].id = input[r].id /\ input'[r].text = input[r].text
              /\ input'[r].at = "text" => input[r].text
              /\ input'[r].at = "enter" /\ input'[r].text => input[r].at = "enter"
              /\ input[r].at = "enter" => input'[r].at = "enter"
    PROVE  TypistFits' /\ TypedFits'
<1>1. OneEach(prompts)' = OneEach(prompts) /\ Entries(prompts)' = Entries(prompts)
      /\ \A id : Runs(prompts, id)' = Runs(prompts, id) /\ Unknown(prompts, id)' = Unknown(prompts, id)
  BY DEF OneEach, Entries, Runs, Unknown
<1>2. TypistFits'
  BY <1>1 DEF TypistFits
<1>3. TypedFits'
  BY <1>1 DEF TypedFits, Typing
<1> QED
  BY <1>2, <1>3

\* Steps that press nothing and unlock nothing do not matter to an answer.
LEMMA AnswersStay ==
    ASSUME AnswersFit, OthersMove, UNCHANGED <<answering, astray>>,
           \A r \in Requests : input'[r].at \in {"read", "press", "keys"} => input'[r] = input[r]
    PROVE  AnswersFit'
BY DEF AnswersFit, OthersMove

\* What goes into a pane does not move it like an answer.
LEMMA PaneMoves ==
    ASSUME RequestsAssumption, InputTypes,
           UNCHANGED Input!paneVars \/ Input!Reaches \/ Input!MovesBy("other")
    PROVE  PaneTypes' /\ OthersMove
<1>1. CASE UNCHANGED Input!paneVars
  BY <1>1 DEF Input!paneVars, InputTypes, PaneTypes, OthersMove
<1>2. CASE Input!MovesBy("other")
  <2>1. PICK q \in Input!NextQuestions :
           question' = q /\ asked' = (IF q = 0 THEN asked ELSE q) /\ shown' \in {q, shown}
    BY <1>2 DEF Input!MovesBy
  <2>2. q \in 0..MaxQuestions /\ opener' = "other"
    BY <1>2 DEF Input!MovesBy, Input!NextQuestions, RequestsAssumption, Input!InputAssumption
  <2> QED
    BY <2>1, <2>2 DEF InputTypes, PaneTypes, OthersMove
<1> QED
  BY <1>1, <1>2 DEF Input!Reaches, Input!paneVars

\* The log after a request has ended.
LEMMA LogAfter ==
    ASSUME InputTypes, OneEach(prompts), NEW id, ~ Unknown(prompts, id),
           NEW how \in {"sent", "unknown", "forgotten"}, prompts' = Input!Ended(prompts, id, how)
    PROVE  /\ prompts' \in Seq(PromptEntries) /\ Len(prompts') <= Len(prompts) /\ OneEach(prompts')
           /\ \A e \in Entries(prompts') :
                 IF e.id = id THEN how # "forgotten" /\ e.outcome = how ELSE e \in Entries(prompts)
           /\ \A e \in Entries(prompts) : e.id # id => e \in Entries(prompts')
           /\ how # "forgotten" => ~ Unknown(prompts', id)
<1>0. prompts \in Seq(PromptEntries)
  BY DEF InputTypes
<1>1. CASE how = "forgotten"
  <2>1. prompts' = Without(prompts, id)
    BY <1>1, SameLogs
  <2> QED
    BY <1>0, <1>1, <2>1, WithoutEntries
<1>2. CASE how # "forgotten"
  <2> DEFINE new(e) == [e EXCEPT !.outcome = how]
  <2>1. prompts' = Ended(prompts, id, how)
    BY <1>2, SameLogs
  <2>2. \A e \in PromptEntries : new(e) \in PromptEntries /\ new(e).id = e.id /\ new(e).outcome = how
    BY <1>2 DEF PromptEntries
  <2>3. /\ prompts' \in Seq(PromptEntries) /\ Len(prompts') = Len(prompts) /\ OneEach(prompts')
        /\ Entries(prompts') = {IF e.id = id THEN new(e) ELSE e : e \in Entries(prompts)}
    BY <1>0, <1>2, <2>1, <2>2, EndedEntries
  <2>4. \A e \in Entries(prompts) : e \in PromptEntries
    BY <1>0 DEF Entries
  <2>5. PICK e \in Entries(prompts) : e.id = id
    BY DEF Unknown
  <2> HIDE DEF new
  <2>6. new(e) \in Entries(prompts') /\ new(e).id = id
    BY <2>2, <2>3, <2>4, <2>5
  <2>7. ~ Unknown(prompts', id)
    BY <2>6 DEF Unknown
  <2>8. Len(prompts') <= Len(prompts)
    BY <1>0, <2>3
  <2>9. \A x \in Entries(prompts') :
           IF x.id = id THEN x.outcome = how ELSE x \in Entries(prompts)
    <3> TAKE x \in Entries(prompts')
    <3>1. PICK y \in Entries(prompts) : x = IF y.id = id THEN new(y) ELSE y
      BY <2>3
    <3> QED
      BY <2>2, <2>4, <3>1
  <2>10. \A x \in Entries(prompts) : x.id # id => x \in Entries(prompts')
    BY <2>3
  <2> QED
    BY <1>2, <2>3, <2>7, <2>8, <2>9, <2>10
<1> QED
  BY <1>1, <1>2

\* A request ends: who waited for it may go on, nobody else notices.
LEMMA FinishMoves ==
    ASSUME InputTypes, NEW r \in Requests, NEW how, Input!Finish(r, how)
    PROVE  /\ input' \in [Requests -> {Input!Idle} \cup Prompts \cup Answers]
           /\ \A w \in Requests : input'[w].at \in {"screen", "attach", "text", "enter", "read", "press", "keys"} =>
                 w # r /\ input'[w] = input[w]
<1> DEFINE again(w) == [input[w] EXCEPT !.at = "begin"]
<1>1. \A w \in Requests : input[w].at = "waits" => again(w) \in Prompts /\ again(w).at = "begin"
  <2> SUFFICES ASSUME NEW w \in Requests, input[w].at = "waits" PROVE again(w) \in Prompts /\ again(w).at = "begin"
    OBVIOUS
  <2>1. PICK p \in Prompts : p = input[w]
    BY Shapes
  <2>2. PICK q : q = [p EXCEPT !.at = "begin"]
    OBVIOUS
  <2>3. q \in Prompts /\ q.at = "begin"
    BY <2>2 DEF Prompts
  <2> QED
    BY <2>1, <2>2, <2>3
<1>2. \A w \in Requests : \/ w # r /\ input'[w] = input[w]
                          \/ input'[w] = Input!Idle
                          \/ input[w].at = "waits" /\ input'[w] = again(w)
  <2> TAKE w \in Requests
  <2> DEFINE waiting == {v \in Requests : Input!At(v, "waits") /\ input[v].id = input[r].id}
  <2>1. w \in waiting => input[w].at = "waits"
    BY DEF Input!At
  <2>2. input'[w] = IF w = r THEN Input!Idle
                    ELSE IF w \notin waiting THEN input[w]
                    ELSE IF how = "forgotten" THEN again(w) ELSE Input!Idle
    BY Zenon DEF Input!Finish
  <2> HIDE DEF again, waiting
  <2> QED
    BY <2>1, <2>2
<1>3. DOMAIN input' = Requests /\ input' = [w \in Requests |-> input'[w]]
  BY DEF Input!Finish
<1> HIDE DEF again
<1>4. \A w \in Requests : input'[w] \in {Input!Idle} \cup Prompts \cup Answers
  BY <1>1, <1>2 DEF InputTypes
<1>5. \A w \in Requests : input'[w].at \in {"screen", "attach", "text", "enter", "read", "press", "keys"} =>
                 w # r /\ input'[w] = input[w]
  BY <1>1, <1>2 DEF Input!Idle
<1> QED
  BY <1>3, <1>4, <1>5

\* A request that types ends: the log says what is known of its text.
LEMMA FinishFits ==
    ASSUME RequestsAssumption, InputInv, NEW r \in Requests, Typing(r),
           NEW how \in {"sent", "unknown", "forgotten"}, Input!Finish(r, how),
           typed' \in [Ids -> 0..2], \A id \in Ids : id # input[r].id => typed'[id] = typed[id],
           input[r].id \notin dropped => typed'[input[r].id] <= 1,
           how = "sent" => typed'[input[r].id] > 0,
           how = "forgotten" /\ input[r].id \notin dropped => typed'[input[r].id] = 0,
           PaneTypes', OthersMove
    PROVE  InputInv'
<1>1. PICK id \in Ids : id = input[r].id
  BY Shapes DEF InputInv, Typing, Prompts
<1>2. ~ Unknown(prompts, id)
  BY <1>1 DEF InputInv, TypistFits, Runs, Unknown
<1>3. /\ prompts' = Input!Ended(prompts, id, how)
      /\ UNCHANGED <<answering, dropped, astray>>
  BY <1>1 DEF Input!Finish, Input!Record
<1>4. /\ prompts' \in Seq(PromptEntries) /\ Len(prompts') <= Len(prompts) /\ OneEach(prompts')
      /\ \A e \in Entries(prompts') :
            IF e.id = id THEN how # "forgotten" /\ e.outcome = how ELSE e \in Entries(prompts)
      /\ \A e \in Entries(prompts) : e.id # id => e \in Entries(prompts')
      /\ how # "forgotten" => ~ Unknown(prompts', id)
  BY <1>2, <1>3, LogAfter DEF InputInv, TypistFits
<1>5. /\ input' \in [Requests -> {Input!Idle} \cup Prompts \cup Answers]
      /\ \A w \in Requests : input'[w].at \in {"screen", "attach", "text", "enter", "read", "press", "keys"} =>
            w # r /\ input'[w] = input[w]
  BY FinishMoves DEF InputInv
<1>6. InputTypes'
  <2>1. Len(prompts') <= Capacity
    BY <1>4 DEF InputInv, InputTypes, RequestsAssumption, Input!InputAssumption
  <2> QED
    BY <1>3, <1>4, <1>5, <2>1 DEF InputInv, InputTypes, PromptEntries
<1>7. \A w \in Requests : Typing(w)' => Typing(w) /\ input'[w] = input[w] /\ input[w].id # id
  BY <1>1, <1>5 DEF InputInv, TypistFits, Typing
<1>8. TypistFits'
  <2>1. OneEach(prompts)'
    BY <1>4 DEF OneEach
  <2>2. \A w \in Requests : Typing(w)' => Runs(prompts, input[w].id)'
    BY <1>4, <1>7 DEF InputInv, TypistFits, Runs, Entries
  <2> QED
    BY <1>7, <2>1, <2>2 DEF InputInv, TypistFits
<1>9. TypedFits'
  <2>1. \A x \in Ids \ dropped : x # id => (Unknown(prompts, x)' => Unknown(prompts, x))
    BY <1>4 DEF Unknown, Entries
  <2>2. Unknown(prompts, id)' => how = "forgotten"
    BY <1>4 DEF Unknown, Entries
  <2>3. \A x \in Ids \ dropped' : typed'[x] <= 1 /\ (Unknown(prompts, x)' => typed'[x] = 0)
    BY <1>1, <1>3, <2>1, <2>2 DEF InputInv, TypedFits
  <2>4. \A e \in Entries(prompts)' : e.outcome = "sent" => typed'[e.id] > 0
    <3> SUFFICES ASSUME NEW e \in Entries(prompts'), e.outcome = "sent" PROVE typed'[e.id] > 0
      BY DEF Entries
    <3>1. CASE e.id = id
      BY <1>1, <1>4, <3>1
    <3>2. CASE e.id # id
      <4>1. e \in Entries(prompts) /\ e.id \in Ids
        <5>1. e \in Entries(prompts)
          BY <1>4, <3>2
        <5>2. prompts \in Seq(PromptEntries)
          BY DEF InputInv, InputTypes
        <5>3. e \in PromptEntries
          BY <5>1, <5>2 DEF Entries
        <5> QED
          BY <5>1, <5>3 DEF PromptEntries
      <4> QED
        BY <1>1, <3>2, <4>1 DEF InputInv, TypedFits
    <3> QED
      BY <3>1, <3>2
  <2>5. \A w \in Requests : Typing(w) => input[w].id \in Ids
    BY Shapes DEF InputInv, Typing, Prompts
  <2>6. ASSUME NEW w \in Requests
        PROVE  /\ input'[w].at = "text" => input'[w].text
               /\ Typing(w)' /\ ~ (input'[w].at = "enter" /\ input'[w].text) /\ input'[w].id \notin dropped'
                     => typed'[input'[w].id] = 0
               /\ input'[w].at = "enter" /\ input'[w].text => typed'[input'[w].id] > 0
    BY <1>1, <1>3, <1>7, <2>5 DEF InputInv, TypedFits, Typing
  <2> QED
    BY <2>3, <2>4, <2>6 DEF TypedFits
<1>10. AnswersFit'
  BY <1>3, <1>5, AnswersStay DEF InputInv
<1> QED
  BY <1>6, <1>8, <1>9, <1>10 DEF InputInv

\* A step of one request that types nothing.
LEMMA RequestMoves ==
    ASSUME InputInv, NEW r \in Requests,
           UNCHANGED <<question, asked, shown, opener, prompts, typed, dropped, astray>>,
           input' \in [Requests -> {Input!Idle} \cup Prompts \cup Answers],
           \A s \in Requests \ {r} : input'[s] = input[s],
           Typing(r)' =>
              /\ Typing(r) /\ input'[r].id = input[r].id /\ input'[r].text = input[r].text
              /\ input'[r].at = "text" => input[r].text
              /\ input'[r].at = "enter" /\ input'[r].text => input[r].at = "enter"
              /\ input[r].at = "enter" => input'[r].at = "enter",
           answering' \in Requests \cup {Nobody},
           \A s \in Requests \ {r} : answering = s => answering' = s,
           input'[r].at \in {"read", "press", "keys"} => answering' = r,
           input'[r].at \in {"press", "keys"} =>
              /\ input'[r].screen \in {"drawn", "old"}
              /\ input'[r].screen = "drawn" /\ opener = "answer" => question = input'[r].question
    PROVE  InputInv'
<1>1. InputTypes'
  BY DEF InputInv, InputTypes, PaneTypes, PromptEntries
<1>2. TypistFits' /\ TypedFits'
  <2>1. \A s \in Requests : Typing(s)' =>
              /\ Typing(s) /\ input'[s].id = input[s].id /\ input'[s].text = input[s].text
              /\ input'[s].at = "text" => input[s].text
              /\ input'[s].at = "enter" /\ input'[s].text => input[s].at = "enter"
              /\ input[s].at = "enter" => input'[s].at = "enter"
    BY DEF InputInv, TypedFits, Typing
  <2> QED
    BY <2>1, PromptsStay DEF InputInv
<1>3. AnswersFit'
  BY DEF InputInv, AnswersFit
<1> QED
  BY <1>1, <1>2, <1>3 DEF InputInv

\* Nothing but the request is changed.
LEMMA OnlyRequest ==
    ASSUME InputInv, NEW r \in Requests,
           UNCHANGED <<question, asked, shown, opener, prompts, answering, typed, dropped, astray>>,
           input' \in [Requests -> {Input!Idle} \cup Prompts \cup Answers],
           \A s \in Requests \ {r} : input'[s] = input[s],
           input'[r].at \in {"idle", "begin", "waits", "lock"}
    PROVE  InputInv'
<1>1. answering \in Requests \cup {Nobody}
  BY DEF InputInv, InputTypes
<1>2. ~ Typing(r)'
  BY DEF Typing
<1> QED
  BY <1>1, <1>2, RequestMoves

\* A browser asks for a prompt or an answer.
LEMMA AskFits ==
    ASSUME RequestsAssumption, InputInv, NEW r \in Requests, Input!Ask(r)
    PROVE  InputInv'
<1>1. PICK q : input' = [input EXCEPT ![r] = q] /\ q \in Prompts \cup Answers /\ q.at \in {"begin", "lock"}
  <2>1. \A id \in Ids, text \in BOOLEAN, submit \in BOOLEAN :
           Input!Prompt(id, text, submit) \in Prompts /\ Input!Prompt(id, text, submit).at = "begin"
    BY DEF Input!Prompt, Prompts
  <2>2. \A q \in 1..asked : Input!AnswerTo(q) \in Answers /\ Input!AnswerTo(q).at = "lock"
    BY DEF Input!AnswerTo, Answers, InputInv, InputTypes, PaneTypes, RequestsAssumption, Input!InputAssumption
  <2>3. CASE \E id \in Ids, text \in BOOLEAN, submit \in BOOLEAN :
            (text \/ submit) /\ input' = [input EXCEPT ![r] = Input!Prompt(id, text, submit)]
    <3>1. PICK id \in Ids, text \in BOOLEAN, submit \in BOOLEAN :
            input' = [input EXCEPT ![r] = Input!Prompt(id, text, submit)]
      BY <2>3
    <3> QED
      BY <2>1, <3>1, Zenon
  <2>4. CASE \E q \in 1..asked : input' = [input EXCEPT ![r] = Input!AnswerTo(q)]
    BY <2>2, <2>4, Zenon
  <2> QED
    BY <2>3, <2>4, Zenon DEF Input!Ask
<1>2. /\ input' \in [Requests -> {Input!Idle} \cup Prompts \cup Answers]
      /\ \A s \in Requests \ {r} : input'[s] = input[s]
      /\ input'[r].at \in {"begin", "lock"}
  BY <1>1 DEF InputInv, InputTypes
<1> QED
  BY <1>2, OnlyRequest DEF Input!Ask, Input!paneVars

\* begin: the prompt is the first with its id, or learns of the other.
LEMMA BeginFits ==
    ASSUME RequestsAssumption, InputInv, NEW r \in Requests, Input!Begin(r)
    PROVE  InputInv'
<1>1. input[r] \in Prompts /\ InputTypes
  BY Shapes DEF Input!Begin, Input!At, InputInv
<1>2. PICK id \in Ids : id = input[r].id
  BY <1>1 DEF Prompts
<1>3. UNCHANGED <<question, asked, shown, opener, answering, typed, astray>>
  BY DEF Input!Begin, Input!paneVars
<1>4. CASE UNCHANGED <<prompts, dropped>> /\ (Input!Goes(r, "waits") \/ Input!Replied(r))
  <2>1. /\ input' \in [Requests -> {Input!Idle} \cup Prompts \cup Answers]
        /\ \A s \in Requests \ {r} : input'[s] = input[s]
        /\ input'[r].at \in {"idle", "waits"}
    BY <1>1, <1>4, PromptGoes, Replies
  <2> QED
    BY <1>3, <1>4, <2>1, OnlyRequest
<1>5. CASE /\ ~ Input!Has(prompts, id) /\ Input!HasRoom(prompts, Capacity) /\ Input!Goes(r, "screen")
           /\ prompts' = Input!Begun(prompts, [id |-> id, outcome |-> "running"], Capacity)
           /\ dropped' = dropped \cup {i \in Ids : Input!Has(prompts, i) /\ ~ Input!Has(prompts', i)}
  <2>1. PICK e \in PromptEntries : e = [id |-> id, outcome |-> "running"]
    BY DEF PromptEntries
  <2>2. Unknown(prompts, e.id) /\ HasRoom(prompts, Capacity) /\ prompts' = Begun(prompts, e, Capacity)
        /\ e.id = id /\ e.outcome = "running"
    BY <1>5, <2>1, SameLogs
  <2>3. /\ prompts \in Seq(PromptEntries) /\ OneEach(prompts) /\ Len(prompts) <= Capacity
        /\ Capacity \in Nat \ {0}
    BY DEF InputInv, InputTypes, TypistFits, RequestsAssumption, Input!InputAssumption
  <2>4. /\ prompts' \in Seq(PromptEntries) /\ Len(prompts') <= Capacity /\ OneEach(prompts')
        /\ e \in Entries(prompts')
        /\ \A f \in Entries(prompts) : f.outcome = "running" => f \in Entries(prompts')
        /\ \A f \in Entries(prompts') : f \in Entries(prompts) \/ f = e
    BY <2>2, <2>3, BegunEntries
  <2>6. /\ input' \in [Requests -> {Input!Idle} \cup Prompts \cup Answers]
        /\ \A s \in Requests \ {r} : input'[s] = input[s]
        /\ input'[r].at = "screen" /\ input'[r].id = id
    BY <1>1, <1>2, <1>5, PromptGoes
  <2>7. InputTypes'
    <3>1. dropped' \subseteq Ids
      BY <1>1, <1>5 DEF InputTypes
    <3> QED
      BY <1>1, <1>3, <2>4, <2>6, <3>1 DEF InputTypes, PaneTypes, PromptEntries
  <2>8. \A s \in Requests : Typing(s)' => s = r \/ (Typing(s) /\ input'[s] = input[s] /\ input[s].id # id)
    BY <2>2, <2>6 DEF Typing, InputInv, TypistFits, Runs, Unknown
  <2>9. \A s \in Requests : Typing(s) => Runs(prompts', input[s].id)
    BY <2>4 DEF Typing, InputInv, TypistFits, Runs
  <2>10. Runs(prompts', id)
    BY <2>2, <2>4 DEF Runs
  <2>11. TypistFits'
    <3>1. OneEach(prompts)'
      BY <2>4 DEF OneEach
    <3>2. \A s \in Requests : Typing(s)' => Runs(prompts', input'[s].id)
      BY <2>6, <2>8, <2>9, <2>10
    <3>3. \A s, t \in Requests : Typing(s)' /\ Typing(t)' /\ input'[s].id = input'[t].id => s = t
      BY <2>6, <2>8 DEF InputInv, TypistFits
    <3> QED
      BY <3>1, <3>2, <3>3 DEF TypistFits, Runs, Entries
  <2>12. TypedFits'
    <3>1. \A x \in Ids : x \notin dropped' /\ Unknown(prompts', x) => x \notin dropped /\ Unknown(prompts, x)
      BY <1>5, SameLogs
    <3>2. \A x \in Ids \ dropped' : typed'[x] <= 1 /\ (Unknown(prompts', x) => typed'[x] = 0)
      BY <1>3, <1>5, <3>1 DEF InputInv, TypedFits
    <3>3. \A f \in Entries(prompts') : f.outcome = "sent" => typed'[f.id] > 0
      BY <1>3, <2>2, <2>4 DEF InputInv, TypedFits
    <3>4. id \notin dropped' => typed'[id] = 0
      BY <1>3, <1>5, <2>2 DEF InputInv, TypedFits
    <3>5. ASSUME NEW s \in Requests
          PROVE  /\ input'[s].at = "text" => input'[s].text
                 /\ Typing(s)' /\ ~ (input'[s].at = "enter" /\ input'[s].text) /\ input'[s].id \notin dropped'
                       => typed'[input'[s].id] = 0
                 /\ input'[s].at = "enter" /\ input'[s].text => typed'[input'[s].id] > 0
      <4>1. CASE s = r
        BY <2>6, <3>4, <4>1
      <4>2. CASE s # r
        BY <1>3, <1>5, <2>6, <4>2 DEF InputInv, TypedFits, Typing
      <4> QED
        BY <4>1, <4>2
    <3> QED
      BY <3>2, <3>3, <3>5 DEF TypedFits, Unknown, Entries
  <2>13. AnswersFit'
    <3>1. \A s \in Requests : input'[s].at \in {"read", "press", "keys"} => input'[s] = input[s]
      BY <2>6
    <3> QED
      BY <1>3, <3>1, AnswersStay DEF InputInv, OthersMove
  <2> QED
    BY <2>7, <2>11, <2>12, <2>13 DEF InputInv
<1> QED
  BY <1>2, <1>4, <1>5 DEF Input!Begin

\* How often a text was typed once it was typed again.
LEMMA TypedAgain ==
    ASSUME InputInv, NEW r \in Requests, Input!Typed(r), NEW id \in Ids, id = input[r].id
    PROVE  /\ typed' \in [Ids -> 0..2] /\ typed'[id] > 0 /\ (typed[id] = 0 => typed'[id] = 1)
           /\ \A x \in Ids : x # id => typed'[x] = typed[x]
           /\ \A x \in Ids : typed[x] > 0 => typed'[x] > 0
<1>1. typed \in [Ids -> 0..2]
  BY DEF InputInv, InputTypes
<1>2. typed' = [typed EXCEPT ![id] = IF typed[id] = 2 THEN 2 ELSE typed[id] + 1]
  BY DEF Input!Typed
<1>3. (IF typed[id] = 2 THEN 2 ELSE typed[id] + 1) \in 1..2
  BY <1>1
<1> QED
  BY <1>1, <1>2, <1>3

\* What is known of a prompt before it ends.
LEMMA BeforeTheEnd ==
    ASSUME InputInv, NEW r \in Requests, Typing(r)
    PROVE  /\ input[r] \in Prompts /\ input[r].id \in Ids /\ typed \in [Ids -> 0..2]
           /\ input[r].id \notin dropped => typed[input[r].id] <= 1
           /\ input[r].at \in {"screen", "attach", "text"} /\ input[r].id \notin dropped => typed[input[r].id] = 0
           /\ input[r].at = "enter" /\ ~ input[r].text /\ input[r].id \notin dropped => typed[input[r].id] = 0
           /\ input[r].at = "enter" /\ input[r].text => typed[input[r].id] > 0
<1>1. input[r] \in Prompts /\ typed \in [Ids -> 0..2]
  BY Shapes DEF InputInv, InputTypes, Typing
<1>2. input[r].id \in Ids
  BY <1>1 DEF Prompts
<1> QED
  BY <1>1, <1>2 DEF InputInv, TypedFits, Typing

\* Nothing was typed.
LEMMA RefusalFits ==
    ASSUME RequestsAssumption, InputInv, NEW r \in Requests,
           \/ Input!Refused(r) \/ Input!AttachFails(r) \/ Input!TextRefused(r)
    PROVE  InputInv'
<1>1. /\ input[r].at \in {"screen", "attach", "text"} /\ Input!Finish(r, "forgotten") /\ UNCHANGED typed
      /\ UNCHANGED Input!paneVars
  BY DEF Input!Refused, Input!AttachFails, Input!TextRefused, Input!At
<1>2. Typing(r)
  BY <1>1 DEF Typing
<1>3. PaneTypes' /\ OthersMove
  BY <1>1, PaneMoves DEF InputInv
<1> QED
  BY <1>1, <1>2, <1>3, BeforeTheEnd, FinishFits

\* Something may have been typed, or surely was.
LEMMA UncertaintyFits ==
    ASSUME RequestsAssumption, InputInv, NEW r \in Requests, Input!TextUnknown(r) \/ Input!EnterUnknown(r)
    PROVE  InputInv'
<1>1. /\ input[r].at \in {"text", "enter"} /\ Input!Finish(r, "unknown") /\ (Input!Typed(r) \/ UNCHANGED typed)
      /\ input[r].at = "enter" /\ input[r].text => UNCHANGED typed
  BY DEF Input!TextUnknown, Input!EnterUnknown, Input!At
<1>2. Typing(r)
  BY <1>1 DEF Typing
<1>3. PICK id \in Ids : id = input[r].id
  BY <1>2, BeforeTheEnd
<1>6. PaneTypes' /\ OthersMove
  <2>1. UNCHANGED Input!paneVars \/ Input!Reaches
    BY DEF Input!TextUnknown, Input!EnterUnknown
  <2> QED
    BY <2>1, PaneMoves DEF InputInv
<1>4. CASE UNCHANGED typed
  BY <1>1, <1>2, <1>4, <1>6, BeforeTheEnd, FinishFits
<1>5. CASE Input!Typed(r) /\ ~ UNCHANGED typed
  <2>1. /\ typed' \in [Ids -> 0..2] /\ (typed[id] = 0 => typed'[id] = 1)
        /\ \A x \in Ids : x # id => typed'[x] = typed[x]
    BY <1>3, <1>5, TypedAgain
  <2>2. id \notin dropped => typed[id] = 0
    BY <1>1, <1>2, <1>3, <1>5, BeforeTheEnd
  <2>3. id \notin dropped => typed'[id] <= 1
    BY <2>1, <2>2
  <2> QED
    BY <1>1, <1>2, <1>3, <1>6, <2>1, <2>3, FinishFits
<1> QED
  BY <1>1, <1>4, <1>5

\* The Enter was sent, and with it the prompt.
LEMMA EnterFits ==
    ASSUME RequestsAssumption, InputInv, NEW r \in Requests, Input!SendEnter(r)
    PROVE  InputInv'
<1>1. /\ input[r].at = "enter" /\ Input!Finish(r, "sent")
      /\ IF input[r].text THEN UNCHANGED typed ELSE Input!Typed(r)
  BY DEF Input!SendEnter, Input!At
<1>2. Typing(r)
  BY <1>1 DEF Typing
<1>3. PICK id \in Ids : id = input[r].id
  BY <1>2, BeforeTheEnd
<1>6. PaneTypes' /\ OthersMove
  BY PaneMoves DEF InputInv, Input!SendEnter
<1>4. CASE input[r].text
  BY <1>1, <1>2, <1>4, <1>6, BeforeTheEnd, FinishFits
<1>5. CASE ~ input[r].text
  <2>1. /\ typed' \in [Ids -> 0..2] /\ typed'[id] > 0 /\ (typed[id] = 0 => typed'[id] = 1)
        /\ \A x \in Ids : x # id => typed'[x] = typed[x]
    BY <1>1, <1>3, <1>5, TypedAgain
  <2>2. id \notin dropped => typed[id] = 0
    BY <1>1, <1>2, <1>3, <1>5, BeforeTheEnd
  <2>3. id \notin dropped => typed'[id] <= 1
    BY <2>1, <2>2
  <2> QED
    BY <1>1, <1>2, <1>3, <1>6, <2>1, <2>3, FinishFits
<1> QED
  BY <1>4, <1>5

\* The text was typed; it may be the prompt or wait for its Enter.
LEMMA TextFits ==
    ASSUME RequestsAssumption, InputInv, NEW r \in Requests, Input!SendText(r)
    PROVE  InputInv'
<1>1. input[r].at = "text" /\ Input!Typed(r) /\ Typing(r)
  BY DEF Input!SendText, Input!At, Typing
<1>2. PICK id \in Ids : id = input[r].id
  BY <1>1, BeforeTheEnd
<1>3. /\ typed' \in [Ids -> 0..2] /\ typed'[id] > 0 /\ (typed[id] = 0 => typed'[id] = 1)
      /\ \A x \in Ids : x # id => typed'[x] = typed[x]
      /\ \A x \in Ids : typed[x] > 0 => typed'[x] > 0
  BY <1>1, <1>2, TypedAgain
<1>4. id \notin dropped => typed'[id] = 1
  BY <1>1, <1>2, <1>3, BeforeTheEnd
<1>7. PaneTypes' /\ OthersMove
  BY PaneMoves DEF InputInv, Input!SendText
<1>5. CASE Input!Finish(r, "sent")
  BY <1>1, <1>2, <1>3, <1>4, <1>5, <1>7, FinishFits
<1>6. CASE /\ input' = [input EXCEPT ![r].at = "enter", ![r].typed = TRUE]
           /\ UNCHANGED <<prompts, answering, dropped, astray>>
  <2>1. /\ input' \in [Requests -> {Input!Idle} \cup Prompts \cup Answers]
        /\ input'[r].at = "enter" /\ input'[r].id = id /\ input'[r].text = input[r].text
        /\ \A s \in Requests \ {r} : input'[s] = input[s]
    BY <1>1, <1>2, <1>6, PromptGoesOn, BeforeTheEnd DEF InputInv
  <2>2. input'[r].text
    BY <1>1, <2>1 DEF InputInv, TypedFits
  <2>3. InputTypes'
    BY <1>3, <1>6, <1>7, <2>1 DEF InputInv, InputTypes, PromptEntries
  <2>4. Entries(prompts)' = Entries(prompts) /\ OneEach(prompts)' = OneEach(prompts)
    BY <1>6 DEF Entries, OneEach
  <2>5. \A s \in Requests : Typing(s)' => Typing(s) /\ input'[s].id = input[s].id
    BY <1>1, <1>2, <2>1 DEF Typing
  <2>6. TypistFits'
    BY <2>4, <2>5 DEF InputInv, TypistFits, Runs
  <2>7. \A s \in Requests : Typing(s) => input[s].id \in Ids
    BY BeforeTheEnd
  <2>8. \A s \in Requests \ {r} : Typing(s) => input[s].id # id
    BY <1>1, <1>2 DEF InputInv, TypistFits
  <2>9. TypedFits'
    <3>1. \A x \in Ids \ dropped : typed'[x] <= 1
      BY <1>3, <1>4 DEF InputInv, TypedFits
    <3>2. ~ Unknown(prompts, id)
      BY <1>1, <1>2 DEF InputInv, TypistFits, Runs, Unknown
    <3>3. \A x \in Ids \ dropped : Unknown(prompts, x) => typed'[x] = 0
      BY <1>3, <3>2 DEF InputInv, TypedFits
    <3>4. \A e \in Entries(prompts) : e.outcome = "sent" => typed'[e.id] > 0
      <4>1. \A e \in Entries(prompts) : e.id \in Ids
        <5>1. prompts \in Seq(PromptEntries)
          BY DEF InputInv, InputTypes
        <5>2. \A e \in Entries(prompts) : e \in PromptEntries
          BY <5>1 DEF Entries
        <5> QED
          BY <5>2 DEF PromptEntries
      <4> QED
        BY <1>3, <4>1 DEF InputInv, TypedFits
    <3>5. ASSUME NEW s \in Requests
          PROVE  /\ input'[s].at = "text" => input'[s].text
                 /\ Typing(s)' /\ ~ (input'[s].at = "enter" /\ input'[s].text) /\ input'[s].id \notin dropped'
                       => typed'[input'[s].id] = 0
                 /\ input'[s].at = "enter" /\ input'[s].text => typed'[input'[s].id] > 0
      <4>1. CASE s = r
        BY <1>3, <2>1, <2>2, <4>1
      <4>2. CASE s # r
        BY <1>3, <1>6, <2>1, <2>7, <2>8, <4>2 DEF InputInv, TypedFits, Typing
      <4> QED
        BY <4>1, <4>2
    <3> QED
      BY <1>6, <2>4, <3>1, <3>3, <3>4, <3>5 DEF TypedFits, Unknown
  <2>10. AnswersFit'
    <3>1. \A s \in Requests : input'[s].at \in {"read", "press", "keys"} => input'[s] = input[s]
      BY <2>1
    <3> QED
      BY <1>6, <1>7, <3>1, AnswersStay DEF InputInv
  <2> QED
    BY <2>3, <2>6, <2>9, <2>10 DEF InputInv
<1> QED
  BY <1>5, <1>6 DEF Input!SendText

\* An old entry is deleted.
LEMMA ExpireFits ==
    ASSUME RequestsAssumption, InputInv, NEW id \in Ids, Input!Expire(id)
    PROVE  InputInv'
<1>1. /\ prompts \in Seq(PromptEntries) /\ OneEach(prompts) /\ ~ Unknown(prompts, id)
      /\ prompts' = Without(prompts, id) /\ dropped' = dropped \cup {id}
      /\ UNCHANGED <<question, asked, shown, opener, answering, input, typed, astray>>
  BY SameLogs DEF Input!Expire, Input!paneVars, InputInv, InputTypes, TypistFits
<1>2. /\ prompts' \in Seq(PromptEntries) /\ Len(prompts') <= Len(prompts) /\ OneEach(prompts')
      /\ Entries(prompts') = {e \in Entries(prompts) : e.id # id}
  BY <1>1, WithoutEntries
<1>3. ~ Runs(prompts, id)
  <2>1. PICK i \in DOMAIN prompts : prompts[i].id = id /\ prompts[i].outcome # "running"
    BY DEF Input!Expire, Input!Has, Input!EntryOf, Input!PlaceOf
  <2> QED
    BY <1>1, <2>1 DEF Runs, Entries, OneEach
<1>4. InputTypes'
  <2>1. Len(prompts') <= Capacity
    BY <1>1, <1>2 DEF InputInv, InputTypes, RequestsAssumption, Input!InputAssumption
  <2> QED
    BY <1>1, <1>2, <2>1 DEF InputInv, InputTypes, PaneTypes, PromptEntries
<1>5. TypistFits'
  <2>1. \A r \in Requests : Typing(r) => Runs(prompts', input[r].id)
    BY <1>2, <1>3 DEF InputInv, TypistFits, Runs
  <2>2. OneEach(prompts)'
    BY <1>2 DEF OneEach
  <2> QED
    BY <1>1, <2>1, <2>2 DEF InputInv, TypistFits, Typing, Runs, Entries
<1>6. TypedFits'
  <2>1. \A x \in Ids : x # id /\ Unknown(prompts', x) => Unknown(prompts, x)
    BY <1>2 DEF Unknown
  <2>2. \A x \in Ids \ dropped' : typed[x] <= 1 /\ (Unknown(prompts', x) => typed[x] = 0)
    BY <1>1, <2>1 DEF InputInv, TypedFits
  <2>3. \A e \in Entries(prompts') : e.outcome = "sent" => typed[e.id] > 0
    BY <1>2 DEF InputInv, TypedFits
  <2> QED
    BY <1>1, <2>2, <2>3 DEF InputInv, TypedFits, Typing, Unknown, Entries
<1>7. AnswersFit'
  BY <1>1, AnswersStay DEF InputInv, OthersMove
<1> QED
  BY <1>4, <1>5, <1>6, <1>7 DEF InputInv

\* A prompt goes on to its pane, or its browser leaves.
LEMMA PromptFits ==
    ASSUME RequestsAssumption, InputInv, NEW r \in Requests,
           Input!Leave(r) \/ Input!Checked(r) \/ Input!Attach(r)
    PROVE  InputInv'
<1>1. input[r] \in Prompts /\ InputTypes /\ answering \in Requests \cup {Nobody}
  BY Shapes DEF Input!Leave, Input!Checked, Input!Attach, Input!At, InputInv, InputTypes
<1>2. UNCHANGED <<question, asked, shown, opener, prompts, answering, typed, dropped, astray>>
  BY DEF Input!Leave, Input!Checked, Input!Attach, Input!paneVars
<1>3. CASE Input!Leave(r)
  <2>1. Input!Replied(r)
    BY <1>3 DEF Input!Leave, Input!Replied
  <2> QED
    BY <1>1, <1>2, <2>1, Replies, OnlyRequest
<1>4. CASE Input!Checked(r)
  <2>1. Typing(r) /\ Input!Goes(r, "attach") /\ input[r].at # "enter"
    BY <1>4 DEF Input!Checked, Input!At, Typing
  <2>2. /\ input' \in [Requests -> {Input!Idle} \cup Prompts \cup Answers]
        /\ input'[r].at = "attach" /\ input'[r].id = input[r].id /\ input'[r].text = input[r].text
        /\ \A s \in Requests \ {r} : input'[s] = input[s]
    BY <1>1, <2>1, PromptGoes
  <2> QED
    BY <1>1, <1>2, <2>1, <2>2, RequestMoves
<1>5. CASE Input!Attach(r)
  <2>1. PICK step \in {"text", "enter"} : Input!Goes(r, step) /\ (step = "text" <=> input[r].text)
    <3>1. CASE input[r].text
      BY <1>5, <3>1 DEF Input!Attach
    <3>2. CASE ~ input[r].text
      BY <1>5, <3>2 DEF Input!Attach
    <3> QED
      BY <3>1, <3>2
  <2>2. Typing(r) /\ input[r].at # "enter"
    BY <1>5 DEF Input!Attach, Input!At, Typing
  <2>3. /\ input' \in [Requests -> {Input!Idle} \cup Prompts \cup Answers]
        /\ input'[r].at = step /\ input'[r].id = input[r].id /\ input'[r].text = input[r].text
        /\ \A s \in Requests \ {r} : input'[s] = input[s]
    BY <1>1, <2>1, PromptGoes
  <2> QED
    BY <1>1, <1>2, <2>1, <2>2, <2>3, RequestMoves
<1> QED
  BY <1>3, <1>4, <1>5

\* Who leaves the dialog of a pane unlocks no other's.
LEMMA Unlocks ==
    ASSUME InputTypes, NEW r \in Requests, Input!Unlock(r)
    PROVE  answering' \in Requests \cup {Nobody} /\ \A s \in Requests \ {r} : answering = s => answering' = s
BY DEF InputTypes, Input!Unlock

\* An answer waits for its turn, reads the dialog, and attaches to the pane.
LEMMA AnswerFits ==
    ASSUME RequestsAssumption, InputInv, NEW r \in Requests,
           \/ Input!Lock(r) \/ Input!LockTimeout(r) \/ Input!ReadDialog(r) \/ Input!AttachKeys(r) \/ Input!KeysLost(r)
    PROVE  InputInv'
<1>1. /\ input[r] \in Answers /\ InputTypes /\ answering \in Requests \cup {Nobody}
      /\ Nobody \notin Requests /\ ~ Typing(r)
  BY Shapes DEF Input!Lock, Input!LockTimeout, Input!ReadDialog, Input!AttachKeys, Input!KeysLost,
     Input!At, InputInv,
                InputTypes, RequestsAssumption, Input!InputAssumption, Typing
<1>2. UNCHANGED <<question, asked, shown, opener, prompts, typed, dropped, astray>>
  BY DEF Input!Lock, Input!LockTimeout, Input!ReadDialog, Input!AttachKeys, Input!KeysLost, Input!paneVars
<1>3. input[r].at \in {"read", "press", "keys"} => answering = r
  BY DEF InputInv, AnswersFit
<1>4. CASE Input!Replied(r) /\ (UNCHANGED answering \/ Input!Unlock(r))
  <2>1. answering' \in Requests \cup {Nobody} /\ \A s \in Requests \ {r} : answering = s => answering' = s
    BY <1>1, <1>4, Unlocks
  <2>2. /\ input' \in [Requests -> {Input!Idle} \cup Prompts \cup Answers]
        /\ input'[r].at = "idle" /\ \A s \in Requests \ {r} : input'[s] = input[s]
    BY <1>1, <1>4, Replies
  <2>3. ~ Typing(r)'
    BY <2>2 DEF Typing
  <2> QED
    BY <1>2, <2>1, <2>2, <2>3, RequestMoves
<1>5. CASE Input!Lock(r)
  <2>1. Input!Goes(r, "read") /\ answering = Nobody /\ answering' = r
    BY <1>5 DEF Input!Lock, Input!Free
  <2>2. /\ input' \in [Requests -> {Input!Idle} \cup Prompts \cup Answers]
        /\ input'[r].at = "read" /\ \A s \in Requests \ {r} : input'[s] = input[s]
    BY <1>1, <2>1, AnswerGoes
  <2>3. ~ Typing(r)'
    BY <2>2 DEF Typing
  <2> QED
    BY <1>1, <1>2, <2>1, <2>2, <2>3, RequestMoves
<1>6. CASE /\ input[r].at = "read" /\ shown = input[r].question /\ UNCHANGED answering
           /\ input' = [input EXCEPT ![r].at = "press",
                               ![r].screen = IF shown = question THEN "drawn" ELSE "old"]
  <2>1. PICK m \in {"drawn", "old"} : m = IF shown = question THEN "drawn" ELSE "old"
    OBVIOUS
  <2>2. /\ input' \in [Requests -> {Input!Idle} \cup Prompts \cup Answers]
        /\ input'[r].at = "press" /\ input'[r].question = input[r].question /\ input'[r].screen = m
        /\ \A s \in Requests \ {r} : input'[s] = input[s]
    BY <1>1, <1>6, <2>1, AnswerMoves
  <2>3. /\ ~ Typing(r)' /\ input'[r].screen \in {"drawn", "old"}
        /\ input'[r].screen = "drawn" => question = input'[r].question
    BY <1>6, <2>1, <2>2 DEF Typing
  <2> QED
    BY <1>1, <1>2, <1>3, <1>6, <2>2, <2>3, RequestMoves
<1>7. CASE input[r].at = "press" /\ Input!Goes(r, "keys") /\ UNCHANGED answering
  <2>1. /\ input' \in [Requests -> {Input!Idle} \cup Prompts \cup Answers]
        /\ input'[r].at = "keys" /\ input'[r].question = input[r].question /\ input'[r].screen = input[r].screen
        /\ \A s \in Requests \ {r} : input'[s] = input[s]
    BY <1>1, <1>7, AnswerGoes
  <2>2. /\ ~ Typing(r)' /\ input'[r].screen \in {"drawn", "old"}
        /\ input'[r].screen = "drawn" /\ opener = "answer" => question = input'[r].question
    BY <1>7, <2>1 DEF Typing, InputInv, AnswersFit
  <2> QED
    BY <1>1, <1>2, <1>3, <1>7, <2>1, <2>2, RequestMoves
<1> QED
  BY <1>4, <1>5, <1>6, <1>7 DEF Input!LockTimeout, Input!ReadDialog, Input!AttachKeys, Input!KeysLost,
     Input!At

\* The keys are pressed.
LEMMA KeysFit ==
    ASSUME RequestsAssumption, InputInv, NEW r \in Requests, Input!PressKeys(r)
    PROVE  InputInv'
<1>1. /\ input[r].at = "keys" /\ InputTypes /\ answering = r /\ Nobody \notin Requests
      /\ "drawn" \notin astray /\ input[r].screen \in {"drawn", "old"}
      /\ input[r].screen = "drawn" /\ opener = "answer" => question = input[r].question
  BY DEF Input!PressKeys, Input!At, InputInv, AnswersFit, RequestsAssumption, Input!InputAssumption
<1>2. PaneTypes'
  <2>1. CASE UNCHANGED Input!paneVars
    BY <1>1, <2>1, PaneMoves
  <2>2. CASE Input!MovesBy("answer")
    <3>1. PICK q \in Input!NextQuestions :
             question' = q /\ asked' = (IF q = 0 THEN asked ELSE q) /\ shown' \in {q, shown}
      BY <2>2 DEF Input!MovesBy
    <3>2. q \in 0..MaxQuestions /\ opener' = "answer"
      BY <2>2 DEF Input!MovesBy, Input!NextQuestions, RequestsAssumption, Input!InputAssumption
    <3> QED
      BY <1>1, <3>1, <3>2 DEF InputTypes, PaneTypes
  <2> QED
    BY <2>1, <2>2 DEF Input!PressKeys, Input!paneVars
<1>3. "drawn" \notin astray' /\ astray' \subseteq {"drawn", "old"} /\ UNCHANGED <<prompts, typed, dropped>>
  <2>1. astray' = astray \/ (astray' = astray \cup {input[r].screen} /\ question # input[r].question /\ opener = "answer")
    BY Zenon DEF Input!PressKeys
  <2>2. UNCHANGED <<prompts, typed, dropped>>
    BY DEF Input!PressKeys
  <2> QED
    BY <1>1, <2>1, <2>2 DEF InputTypes
<1>4. answering' \in Requests \cup {Nobody}
  BY <1>1, Unlocks DEF Input!PressKeys
<1>5. /\ input' \in [Requests -> {Input!Idle} \cup Prompts \cup Answers]
      /\ input'[r].at = "idle" /\ \A s \in Requests \ {r} : input'[s] = input[s]
  BY <1>1, Replies DEF Input!PressKeys
<1>6. InputTypes'
  BY <1>1, <1>2, <1>3, <1>4, <1>5 DEF InputTypes, PromptEntries
<1>7. TypistFits' /\ TypedFits'
  <2>1. \A s \in Requests : Typing(s)' => Typing(s) /\ input'[s] = input[s]
    BY <1>5 DEF Typing
  <2>2. \A s \in Requests : input[s].at = "text" => input[s].text
    BY DEF InputInv, TypedFits
  <2> QED
    BY <1>3, <2>1, <2>2, PromptsStay DEF InputInv
<1>8. AnswersFit'
  <2>1. \A s \in Requests : input'[s].at \notin {"read", "press", "keys"}
    BY <1>1, <1>5 DEF InputInv, AnswersFit
  <2> QED
    BY <1>2, <1>3, <2>1 DEF AnswersFit
<1> QED
  BY <1>6, <1>7, <1>8 DEF InputInv

\* The program asks, or shows what it asked.
LEMMA PaneFits ==
    ASSUME RequestsAssumption, InputInv, Input!Elsewhere \/ Input!Redraw
    PROVE  InputInv'
<1>1. ASSUME Input!Redraw PROVE PaneTypes' /\ OthersMove
  <2>1. shown' = question /\ UNCHANGED <<question, asked, opener>>
    BY <1>1 DEF Input!Redraw
  <2>2. PaneTypes
    BY DEF InputInv, InputTypes
  <2> QED
    BY <2>1, <2>2 DEF PaneTypes, OthersMove
<1>2. ASSUME Input!Elsewhere PROVE PaneTypes' /\ OthersMove
  BY <1>2, PaneMoves DEF Input!Elsewhere, InputInv
<1>3. UNCHANGED <<prompts, answering, input, typed, dropped, astray>>
  BY DEF Input!Elsewhere, Input!Redraw
<1>4. PaneTypes' /\ OthersMove
  BY <1>1, <1>2
<1>5. InputTypes'
  BY <1>3, <1>4 DEF InputInv, InputTypes, PromptEntries
<1>6. TypistFits' /\ TypedFits'
  BY <1>3, PromptsStay DEF InputInv, TypedFits, Typing
<1>7. AnswersFit'
  BY <1>3, <1>4, AnswersStay DEF InputInv
<1> QED
  BY <1>5, <1>6, <1>7 DEF InputInv

\* The first state.
LEMMA InputStarts ==
    ASSUME RequestsAssumption, Input!InputInit
    PROVE  InputInv
<1>1. \A r \in Requests : input[r] = Input!Idle /\ input[r].at = "idle"
  BY DEF Input!InputInit, Input!Idle
<1>2. prompts = <<>> /\ Entries(prompts) = {} /\ Len(prompts) = 0
  BY DEF Input!InputInit, Entries
<1>3. InputTypes
  <2>1. prompts \in Seq(PromptEntries) /\ Len(prompts) <= Capacity
    BY <1>2 DEF RequestsAssumption, Input!InputAssumption
  <2>2. /\ PaneTypes /\ answering \in Requests \cup {Nobody}
        /\ typed \in [Ids -> 0..2] /\ dropped \subseteq Ids /\ astray \subseteq {"drawn", "old"}
    <3>1. /\ question = 0 /\ asked = 0 /\ shown = 0 /\ opener = "other" /\ answering = Nobody
          /\ typed = [id \in Ids |-> 0] /\ dropped = {} /\ astray = {}
      BY DEF Input!InputInit
    <3>2. MaxQuestions \in Nat
      BY DEF RequestsAssumption, Input!InputAssumption
    <3>3. typed \in [Ids -> 0..2]
      BY <3>1
    <3>4. PaneTypes
      BY <3>1, <3>2 DEF PaneTypes
    <3>5. astray \subseteq {"drawn", "old"}
      BY <3>1
    <3>6. answering \in Requests \cup {Nobody} /\ dropped \subseteq Ids
      BY <3>1
    <3> QED
      BY <3>3, <3>4, <3>5, <3>6
  <2>3. input \in [Requests -> {Input!Idle} \cup Prompts \cup Answers]
    BY DEF Input!InputInit
  <2> QED
    BY <2>1, <2>2, <2>3 DEF InputTypes
<1>4. TypistFits /\ TypedFits
  BY <1>1, <1>2 DEF Input!InputInit, TypistFits, TypedFits, OneEach, Typing
<1>5. AnswersFit
  BY <1>1 DEF Input!InputInit, AnswersFit
<1> QED
  BY <1>3, <1>4, <1>5 DEF InputInv

\* The invariant of GuardedInput: who types a text is alone with its id and
\* the log knows of it; who pressed for a dialog holds its pane, and when its
\* screen was drawn no answer has moved the question since.
THEOREM InputInvariance ==
    ASSUME RequestsAssumption
    PROVE  Input!InputSpec => []InputInv
<1>1. Input!InputInit => InputInv
  BY InputStarts
<1>2. InputInv /\ [Input!InputNext]_Input!inputVars => InputInv'
  <2> SUFFICES ASSUME InputInv, [Input!InputNext]_Input!inputVars PROVE InputInv'
    OBVIOUS
  <2>1. CASE UNCHANGED Input!inputVars
    BY <2>1 DEF Input!inputVars, Input!paneVars, InputInv, InputTypes, TypistFits, TypedFits,
       AnswersFit, PaneTypes, Typing,
                OneEach, Runs, Unknown, Entries, PromptEntries
  <2>2. CASE Input!Elsewhere \/ Input!Redraw
    BY <2>2, PaneFits
  <2>3. CASE \E id \in Ids : Input!Expire(id)
    BY <2>3, ExpireFits
  <2>4. ASSUME NEW r \in Requests,
               \/ Input!Ask(r) \/ Input!Begin(r) \/ Input!Leave(r) \/ Input!Refused(r) \/ Input!Checked(r)
               \/ Input!Attach(r) \/ Input!AttachFails(r) \/ Input!SendText(r) \/ Input!TextRefused(r)
               \/ Input!TextUnknown(r) \/ Input!SendEnter(r) \/ Input!EnterUnknown(r)
               \/ Input!Lock(r) \/ Input!LockTimeout(r) \/ Input!ReadDialog(r) \/ Input!AttachKeys(r)
               \/ Input!PressKeys(r) \/ Input!KeysLost(r)
        PROVE  InputInv'
    BY <2>4, AskFits, BeginFits, PromptFits, RefusalFits, TextFits, UncertaintyFits, EnterFits,
       AnswerFits, KeysFit
  <2> QED
    BY <2>1, <2>2, <2>3, <2>4 DEF Input!InputNext
<1> QED
  BY <1>1, <1>2, PTL DEF Input!InputSpec

\* What the log and the pane promise follows.
LEMMA InputActsOnce ==
    ASSUME InputInv
    PROVE  Input!PromptOnce /\ Input!AnswersTakeTurns
<1>1. typed \in [Ids -> 0..2]
  BY DEF InputInv, InputTypes
<1> QED
  BY <1>1 DEF InputInv, TypedFits, AnswersFit, Input!PromptOnce, Input!AnswersTakeTurns, Entries

(***************************************************************************)
(* Session starts                                                          *)
(***************************************************************************)
\* The log of the starts has the same operators, too.
LEMMA SameStartLogs ==
    /\ \A s, id : (Sessions!Has(s, id) <=> ~ Unknown(s, id)) /\ Sessions!Without(s, id) = Without(s, id)
    /\ \A s, e, c : Sessions!Begun(s, e, c) = Begun(s, e, c) /\ (Sessions!HasRoom(s, c) <=> HasRoom(s, c))
    /\ \A s, id, o : Sessions!Ended(s, id, o) = IF o = "forgotten" THEN Without(s, id) ELSE Ended(s, id, o)
<1>1. \A s, id : (Sessions!Has(s, id) <=> ~ Unknown(s, id))
  BY DEF Sessions!Has, Unknown, Entries
<1>2. \A s, id : Sessions!Without(s, id) = Without(s, id)
  BY DEF Sessions!Without, Sessions!RemoveAt, Sessions!PlaceOf, Without, RemoveAt, PlaceOf
<1>3. \A s, e, c : Sessions!Begun(s, e, c) = Begun(s, e, c) /\ (Sessions!HasRoom(s, c) <=> HasRoom(s, c))
  BY DEF Sessions!Begun, Begun, Sessions!HasRoom, HasRoom, Sessions!Finished, Finished,
     Sessions!RemoveAt, RemoveAt, Sessions!Min, Min
<1>4. \A s, id, o : Sessions!Ended(s, id, o) = IF o = "forgotten" THEN Without(s, id) ELSE Ended(s, id, o)
  BY <1>2 DEF Sessions!Ended, Ended
<1> QED
  BY <1>1, <1>2, <1>3, <1>4

\* A request by the step it is at.
LEMMA StartShapes ==
    ASSUME SessionTypes, NEW r \in Requests
    PROVE  /\ start[r].at # "idle" <=> start[r] \in StartRecords
           /\ start[r].at = "idle" <=> start[r] = Sessions!Idle
BY DEF SessionTypes, StartRecords, Sessions!Idle

\* A start goes on to a step.
LEMMA StartGoes ==
    ASSUME SessionTypes, NEW r \in Requests, start[r] \in StartRecords,
           NEW step \in {"begin", "waits", "attach", "open", "create", "shell", "foreground", "verify",
           "send"},
           Sessions!Goes(r, step)
    PROVE  /\ start' \in [Requests -> {Sessions!Idle} \cup StartRecords]
           /\ start'[r].at = step /\ start'[r].id = start[r].id /\ start'[r].content = start[r].content
           /\ start'[r].pane = start[r].pane
           /\ \A s \in Requests \ {r} : start'[s] = start[s]
<1>1. PICK p \in StartRecords : p = start[r]
  OBVIOUS
<1>2. PICK q : q = [p EXCEPT !.at = step]
  OBVIOUS
<1>3. q \in StartRecords /\ q.at = step /\ q.id = p.id /\ q.content = p.content /\ q.pane = p.pane
  BY <1>2 DEF StartRecords
<1>4. start' = [start EXCEPT ![r] = q]
  BY <1>1, <1>2 DEF Sessions!Goes
<1> QED
  BY <1>1, <1>3, <1>4 DEF SessionTypes

\* The start knows its pane, or the shell in it.
LEMMA StartLearns ==
    ASSUME SessionTypes, NEW r \in Requests, start[r] \in StartRecords,
           NEW k \in 0..MaxPanes, NEW f \in {"zsh", "sh", "other"},
           \/ start' = [start EXCEPT ![r].at = "shell", ![r].pane = k]
           \/ start' = [start EXCEPT ![r].at = "verify", ![r].shell = f] /\ k = start[r].pane
    PROVE  /\ start' \in [Requests -> {Sessions!Idle} \cup StartRecords]
           /\ start'[r].at \in {"shell", "verify"} /\ start'[r].id = start[r].id /\ start'[r].content = start[r].content
           /\ start'[r].pane = k
           /\ \A s \in Requests \ {r} : start'[s] = start[s]
<1>1. PICK p \in StartRecords : p = start[r]
  OBVIOUS
<1>2. CASE start' = [start EXCEPT ![r].at = "shell", ![r].pane = k]
  <2>1. PICK q : q = [p EXCEPT !.at = "shell", !.pane = k]
    OBVIOUS
  <2>2. q \in StartRecords /\ q.at = "shell" /\ q.id = p.id /\ q.content = p.content /\ q.pane = k
    BY <2>1 DEF StartRecords
  <2>3. start' = [start EXCEPT ![r] = q]
    BY <1>1, <1>2, <2>1
  <2> QED
    BY <1>1, <2>2, <2>3 DEF SessionTypes
<1>3. CASE start' = [start EXCEPT ![r].at = "verify", ![r].shell = f] /\ k = start[r].pane
  <2>1. PICK q : q = [p EXCEPT !.at = "verify", !.shell = f]
    OBVIOUS
  <2>2. q \in StartRecords /\ q.at = "verify" /\ q.id = p.id /\ q.content = p.content /\ q.pane = p.pane
    BY <2>1 DEF StartRecords
  <2>3. start' = [start EXCEPT ![r] = q]
    BY <1>1, <1>3, <2>1
  <2> QED
    BY <1>1, <1>3, <2>2, <2>3 DEF SessionTypes
<1> QED
  BY <1>2, <1>3

\* A request that got its reply.
LEMMA StartReplies ==
    ASSUME SessionTypes, NEW r \in Requests, Sessions!Replied(r)
    PROVE  /\ start' \in [Requests -> {Sessions!Idle} \cup StartRecords]
           /\ start'[r].at = "idle" /\ \A s \in Requests \ {r} : start'[s] = start[s]
BY DEF SessionTypes, Sessions!Replied, Sessions!Idle

\* The log after a start has ended.
LEMMA StartsAfter ==
    ASSUME SessionTypes, OneEach(starts), NEW id, ~ Unknown(starts, id),
           NEW how \in {"replied", "forgotten"}, starts' = Sessions!Ended(starts, id, how)
    PROVE  /\ starts' \in Seq(StartEntries) /\ Len(starts') <= Len(starts) /\ OneEach(starts')
           /\ \A e \in Entries(starts) : e.id # id => e \in Entries(starts')
           /\ how # "forgotten" => ~ Unknown(starts', id)
<1>0. starts \in Seq(StartEntries)
  BY DEF SessionTypes
<1>1. CASE how = "forgotten"
  <2>1. starts' = Without(starts, id)
    BY <1>1, SameStartLogs
  <2> QED
    BY <1>0, <1>1, <2>1, WithoutEntries
<1>2. CASE how # "forgotten"
  <2> DEFINE new(e) == [e EXCEPT !.outcome = how]
  <2>1. starts' = Ended(starts, id, how)
    BY <1>2, SameStartLogs
  <2>2. \A e \in StartEntries : new(e) \in StartEntries /\ new(e).id = e.id
    BY <1>2 DEF StartEntries
  <2>3. /\ starts' \in Seq(StartEntries) /\ Len(starts') = Len(starts) /\ OneEach(starts')
        /\ Entries(starts') = {IF e.id = id THEN new(e) ELSE e : e \in Entries(starts)}
    BY <1>0, <1>2, <2>1, <2>2, EndedEntries
  <2>4. \A e \in Entries(starts) : e \in StartEntries
    BY <1>0 DEF Entries
  <2>5. PICK e \in Entries(starts) : e.id = id
    BY DEF Unknown
  <2> HIDE DEF new
  <2>6. new(e) \in Entries(starts') /\ new(e).id = id
    BY <2>2, <2>3, <2>4, <2>5
  <2>7. ~ Unknown(starts', id)
    BY <2>6 DEF Unknown
  <2>8. Len(starts') <= Len(starts)
    BY <1>0, <2>3
  <2>9. \A x \in Entries(starts) : x.id # id => x \in Entries(starts')
    BY <2>3
  <2> QED
    BY <1>2, <2>3, <2>7, <2>8, <2>9
<1> QED
  BY <1>1, <1>2

\* A start ends: who waited for it gets its answer or tries again.
LEMMA StartEnds ==
    ASSUME SessionTypes, NEW r \in Requests, NEW how, Sessions!Finish(r, how)
    PROVE  /\ start' \in [Requests -> {Sessions!Idle} \cup StartRecords]
           /\ \A w \in Requests : start'[w].at \notin {"idle", "begin"} =>
                 /\ w # r /\ start'[w] = start[w]
                 /\ start[w].at = "waits" => start[w].id # start[r].id
<1> DEFINE again(w) == [start[w] EXCEPT !.at = "begin"]
<1>1. \A w \in Requests : start[w].at = "waits" => again(w) \in StartRecords /\ again(w).at = "begin"
  <2> SUFFICES ASSUME NEW w \in Requests, start[w].at = "waits"
               PROVE again(w) \in StartRecords /\ again(w).at = "begin"
    OBVIOUS
  <2>1. PICK p \in StartRecords : p = start[w]
    BY StartShapes
  <2>2. PICK q : q = [p EXCEPT !.at = "begin"]
    OBVIOUS
  <2>3. q \in StartRecords /\ q.at = "begin"
    BY <2>2 DEF StartRecords
  <2> QED
    BY <2>1, <2>2, <2>3
<1>2. \A w \in Requests : \/ /\ w # r /\ start'[w] = start[w]
                             /\ start[w].at = "waits" => start[w].id # start[r].id
                          \/ start'[w] = Sessions!Idle
                          \/ start[w].at = "waits" /\ start'[w] = again(w)
  <2> TAKE w \in Requests
  <2> DEFINE waiting == {v \in Requests : Sessions!At(v, "waits") /\ start[v].id = start[r].id}
  <2>1. w \in waiting <=> start[w].at = "waits" /\ start[w].id = start[r].id
    BY DEF Sessions!At
  <2>2. start'[w] = IF w = r \/ (w \in waiting /\ how = "replied") THEN Sessions!Idle
                    ELSE IF w \in waiting THEN again(w) ELSE start[w]
    BY Zenon DEF Sessions!Finish
  <2> HIDE DEF again, waiting
  <2> QED
    BY <2>1, <2>2
<1>3. DOMAIN start' = Requests /\ start' = [w \in Requests |-> start'[w]]
  BY DEF Sessions!Finish
<1> HIDE DEF again
<1>4. \A w \in Requests : start'[w] \in {Sessions!Idle} \cup StartRecords
  BY <1>1, <1>2 DEF SessionTypes
<1>5. \A w \in Requests : start'[w].at \notin {"idle", "begin"} =>
                 /\ w # r /\ start'[w] = start[w]
                 /\ start[w].at = "waits" => start[w].id # start[r].id
  BY <1>1, <1>2 DEF Sessions!Idle
<1> QED
  BY <1>3, <1>4, <1>5

\* A start ends, whatever it did to the panes of its id.
LEMMA StartEndFits ==
    ASSUME RequestsAssumption, SessionInv, NEW r \in Requests, Starting(r), NEW id \in Ids, id = start[r].id,
           NEW how \in {"replied", "forgotten"}, Sessions!Finish(r, how),
           how = "forgotten" => Creating(r) /\ UNCHANGED pane,
           pane' \in Seq(Panes), Len(pane') <= MaxPanes,
           \A x \in Ids : x # id => PanesOf(pane', x) = PanesOf(pane, x),
           id \notin forgotten => \A p, q \in PanesOf(pane', id) : p = q,
           \A p \in DOMAIN pane : pane[p].id # id => p \in DOMAIN pane' /\ pane'[p] = pane[p],
           \A p \in DOMAIN pane' : pane'[p].commands <= 1 /\ (pane'[p].commands = 1 => pane'[p].cwd)
    PROVE  SessionInv'
<1>1. ~ Unknown(starts, id) /\ SessionTypes /\ OneEach(starts)
  BY DEF SessionInv, StarterFits, Unknown
<1>2. starts' = Sessions!Ended(starts, id, how) /\ UNCHANGED forgotten
  BY DEF Sessions!Finish
<1>3. /\ starts' \in Seq(StartEntries) /\ Len(starts') <= Len(starts) /\ OneEach(starts')
      /\ \A e \in Entries(starts) : e.id # id => e \in Entries(starts')
      /\ how # "forgotten" => ~ Unknown(starts', id)
  BY <1>1, <1>2, StartsAfter
<1>4. /\ start' \in [Requests -> {Sessions!Idle} \cup StartRecords]
      /\ \A w \in Requests : start'[w].at \notin {"idle", "begin"} =>
            /\ w # r /\ start'[w] = start[w]
            /\ start[w].at = "waits" => start[w].id # id
  BY <1>1, StartEnds
<1>5. SessionTypes'
  <2>1. Len(starts') <= Capacity
    BY <1>1, <1>3 DEF SessionTypes, RequestsAssumption, Sessions!SessionAssumption
  <2> QED
    BY <1>1, <1>2, <1>3, <1>4, <2>1 DEF SessionTypes, StartEntries, StartRecords, Panes, Sessions!Idle
<1>6. \A w \in Requests : Starting(w)' \/ start'[w].at = "waits" =>
         /\ w # r /\ start'[w] = start[w] /\ start[w].id # id
         /\ Starting(w) \/ start[w].at = "waits"
  BY <1>4 DEF SessionInv, StarterFits, Starting, Creating, Created
<1>7. StarterFits'
  <2>1. \A w \in Requests : Starting(w)' \/ start'[w].at = "waits" =>
           \E e \in Entries(starts') : e.id = start'[w].id /\ e.content = start'[w].content /\ e.outcome = "running"
    BY <1>3, <1>6 DEF SessionInv, StarterFits
  <2>2. \A w, v \in Requests : Starting(w)' /\ Starting(v)' /\ start'[w].id = start'[v].id => w = v
    BY <1>4 DEF SessionInv, StarterFits, Starting, Creating, Created
  <2> QED
    BY <1>3, <2>1, <2>2 DEF StarterFits, OneEach, Entries
<1>8. PanesFit'
  <2>1. \A x \in Ids : x # id => (Unknown(starts', x) => Unknown(starts, x))
    BY <1>3 DEF Unknown
  <2>2. ASSUME NEW x \in Ids \ forgotten
        PROVE  /\ \A p, q \in PanesOf(pane', x) : p = q
               /\ Unknown(starts', x) => PanesOf(pane', x) = {}
    <3>1. CASE x = id
      BY <1>3, <3>1 DEF SessionInv, PanesFit
    <3>2. CASE x # id
      BY <2>1, <3>2 DEF SessionInv, PanesFit
    <3> QED
      BY <3>1, <3>2
  <2>3. \A w \in Requests : start'[w].at \notin {"idle", "begin"} => start[w].id \in Ids
    BY <1>1, <1>4, StartShapes DEF StartRecords
  <2>4. \A w \in Requests : Creating(w)' /\ start'[w].id \notin forgotten' => PanesOf(pane', start'[w].id) = {}
    <3> SUFFICES ASSUME NEW w \in Requests, Creating(w)', start'[w].id \notin forgotten'
                 PROVE  PanesOf(pane', start'[w].id) = {}
      OBVIOUS
    <3>1. start'[w] = start[w] /\ start[w].id # id /\ start[w].at \in {"attach", "open", "create"}
      BY <1>6 DEF Starting, Creating
    <3>2. start[w].id \in Ids /\ start[w].id \notin forgotten
      BY <1>2, <2>3, <3>1
    <3>3. PanesOf(pane, start[w].id) = {}
      BY <3>1, <3>2 DEF SessionInv, PanesFit, Creating
    <3> QED
      BY <3>1, <3>2, <3>3
  <2>5. \A w \in Requests : Created(w)' =>
          /\ start'[w].pane \in DOMAIN pane' /\ pane'[start'[w].pane].id = start'[w].id
          /\ pane'[start'[w].pane].commands = 0
          /\ start'[w].at = "send" => pane'[start'[w].pane].cwd
    BY <1>6 DEF SessionInv, PanesFit, Starting, Created
  <2> QED
    BY <1>2, <2>2, <2>4, <2>5 DEF PanesFit, Unknown, Entries, PanesOf
<1> QED
  BY <1>5, <1>7, <1>8 DEF SessionInv

\* A start ends and leaves the panes alone.
LEMMA QuietEndFits ==
    ASSUME RequestsAssumption, SessionInv, NEW r \in Requests, Starting(r),
           NEW how \in {"replied", "forgotten"}, Sessions!Finish(r, how),
           how = "forgotten" => Creating(r), UNCHANGED pane
    PROVE  SessionInv'
<1>1. PICK id \in Ids : id = start[r].id
  BY StartShapes DEF SessionInv, Starting, Creating, Created, StartRecords
<1>2. pane' = pane /\ pane \in Seq(Panes) /\ Len(pane) <= MaxPanes
  BY DEF SessionInv, SessionTypes
<1>3. id \notin forgotten => \A p, q \in PanesOf(pane, id) : p = q
  BY DEF SessionInv, PanesFit
<1>4. \A p \in DOMAIN pane : pane[p].commands <= 1 /\ (pane[p].commands = 1 => pane[p].cwd)
  BY DEF SessionInv, PanesFit
<1> QED
  BY <1>1, <1>2, <1>3, <1>4, StartEndFits

\* A step of one request that creates nothing and is not the last.
LEMMA StartMoves ==
    ASSUME SessionInv, NEW r \in Requests, UNCHANGED <<starts, pane, forgotten>>,
           start' \in [Requests -> {Sessions!Idle} \cup StartRecords],
           \A s \in Requests \ {r} : start'[s] = start[s],
           start'[r].at = "waits" =>
              \E e \in Entries(starts) : e.id = start'[r].id /\ e.content = start'[r].content /\ e.outcome = "running",
           Starting(r)' =>
              /\ start'[r].id = start[r].id /\ start'[r].content = start[r].content /\ start'[r].pane = start[r].pane
              /\ Starting(r) /\ (Creating(r)' => Creating(r)) /\ (Created(r)' => Created(r)),
           start'[r].at = "send" => pane[start[r].pane].cwd
    PROVE  SessionInv'
<1>1. SessionTypes'
  BY DEF SessionInv, SessionTypes, StartEntries, StartRecords, Panes, Sessions!Idle
<1>2. \A s \in Requests : Starting(s)' =>
         /\ Starting(s) /\ start'[s].id = start[s].id /\ start'[s].content = start[s].content
         /\ start'[s].pane = start[s].pane /\ (Creating(s)' => Creating(s)) /\ (Created(s)' => Created(s))
  BY DEF Starting, Creating, Created
<1>3. StarterFits'
  <2>1. \A w \in Requests : Starting(w)' \/ start'[w].at = "waits" =>
           \E e \in Entries(starts) : e.id = start'[w].id /\ e.content = start'[w].content /\ e.outcome = "running"
    BY <1>2 DEF SessionInv, StarterFits
  <2>2. \A w, v \in Requests : Starting(w)' /\ Starting(v)' /\ start'[w].id = start'[v].id => w = v
    BY <1>2 DEF SessionInv, StarterFits
  <2> QED
    BY <2>1, <2>2 DEF SessionInv, StarterFits, OneEach, Entries
<1>4. PanesFit'
  <2>1. \A w \in Requests : Creating(w)' /\ start'[w].id \notin forgotten => PanesOf(pane, start'[w].id) = {}
    BY <1>2 DEF SessionInv, PanesFit, Starting
  <2>2. \A w \in Requests : Created(w)' =>
          /\ start'[w].pane \in DOMAIN pane /\ pane[start'[w].pane].id = start'[w].id
          /\ pane[start'[w].pane].commands = 0
          /\ start'[w].at = "send" => pane[start'[w].pane].cwd
    BY <1>2 DEF SessionInv, PanesFit, Starting
  <2> QED
    BY <2>1, <2>2 DEF SessionInv, PanesFit, Unknown, Entries, PanesOf
<1> QED
  BY <1>1, <1>3, <1>4 DEF SessionInv

\* Another pane.
LEMMA PaneAppended ==
    ASSUME RequestsAssumption, SessionTypes, NEW id \in Ids, NEW content \in Contents, NEW cwd \in BOOLEAN,
           Len(pane) < MaxPanes,
           pane' = Append(pane, [id |-> id, content |-> content, cwd |-> cwd, commands |-> 0])
    PROVE  /\ pane' \in Seq(Panes) /\ Len(pane') <= MaxPanes /\ Len(pane) + 1 \in DOMAIN pane' /\ Len(pane) \in Nat
           /\ pane'[Len(pane) + 1].id = id /\ pane'[Len(pane) + 1].commands = 0
           /\ \A x \in Ids : x # id => PanesOf(pane', x) = PanesOf(pane, x)
           /\ PanesOf(pane', id) = PanesOf(pane, id) \cup {Len(pane) + 1}
           /\ DOMAIN pane' = DOMAIN pane \cup {Len(pane) + 1}
           /\ \A p \in DOMAIN pane : pane'[p] = pane[p]
<1>1. PICK new : new = [id |-> id, content |-> content, cwd |-> cwd, commands |-> 0]
  OBVIOUS
<1>2. new \in Panes /\ new.id = id /\ new.commands = 0
  BY <1>1 DEF Panes
<1>3. pane \in Seq(Panes) /\ pane' = Append(pane, new)
  BY <1>1 DEF SessionTypes
<1>4. /\ pane' \in Seq(Panes) /\ Len(pane') = Len(pane) + 1 /\ Len(pane) \in Nat
      /\ DOMAIN pane = 1..Len(pane) /\ DOMAIN pane' = 1..(Len(pane) + 1)
      /\ pane'[Len(pane) + 1] = new /\ \A p \in 1..Len(pane) : pane'[p] = pane[p]
  BY <1>2, <1>3, AppendProperties
<1>5. DOMAIN pane' = DOMAIN pane \cup {Len(pane) + 1} /\ Len(pane) + 1 \notin DOMAIN pane
  BY <1>4
<1>6. Len(pane') <= MaxPanes
  BY <1>4 DEF RequestsAssumption, Sessions!SessionAssumption
<1> QED
  BY <1>2, <1>4, <1>5, <1>6 DEF PanesOf

\* A browser asks for a session.
LEMMA StartAskFits ==
    ASSUME RequestsAssumption, SessionInv, NEW r \in Requests, Sessions!Ask(r)
    PROVE  SessionInv'
<1>1. PICK q \in StartRecords : start' = [start EXCEPT ![r] = q] /\ q.at = "begin"
  <2>1. PICK id \in Ids, content \in Contents :
           start' = [start EXCEPT ![r] = [Sessions!Idle EXCEPT !.at = "begin", !.id = id,
           !.content = content]]
    BY DEF Sessions!Ask
  <2>2. PICK q : q = [Sessions!Idle EXCEPT !.at = "begin", !.id = id, !.content = content]
    OBVIOUS
  <2>3. q = [at |-> "begin", id |-> id, content |-> content, pane |-> 0, shell |-> "none"]
    BY <2>2 DEF Sessions!Idle
  <2>4. q \in StartRecords /\ q.at = "begin"
    BY <2>3 DEF StartRecords, RequestsAssumption, Sessions!SessionAssumption
  <2> QED
    BY <2>1, <2>2, <2>4
<1>2. /\ start' \in [Requests -> {Sessions!Idle} \cup StartRecords]
      /\ start'[r].at = "begin" /\ \A s \in Requests \ {r} : start'[s] = start[s]
  BY <1>1 DEF SessionInv, SessionTypes
<1>3. ~ Starting(r)'
  BY <1>2 DEF Starting, Creating, Created
<1>4. UNCHANGED <<starts, pane, forgotten>>
  BY DEF Sessions!Ask
<1> QED
  BY <1>2, <1>3, <1>4, StartMoves

\* A request goes on, or gets its reply.
LEMMA StartGoesFits ==
    ASSUME RequestsAssumption, SessionInv, NEW r \in Requests,
           \/ Sessions!Leave(r) \/ Sessions!Attach(r) \/ Sessions!Open(r) \/ Sessions!ShellSeen(r)
           \/ Sessions!ForegroundShell(r) \/ Sessions!Verified(r)
    PROVE  SessionInv'
<1>1. /\ start[r] \in StartRecords /\ SessionTypes
      /\ UNCHANGED <<starts, pane, forgotten>>
  BY StartShapes DEF SessionInv, Sessions!Leave, Sessions!Attach, Sessions!Open, Sessions!ShellSeen,
                     Sessions!ForegroundShell, Sessions!Verified, Sessions!At
<1>2. CASE Sessions!Leave(r)
  <2>1. start'[r].at = "idle" /\ start' \in [Requests -> {Sessions!Idle} \cup StartRecords]
        /\ \A s \in Requests \ {r} : start'[s] = start[s]
    BY <1>1, <1>2, StartReplies DEF Sessions!Leave
  <2>2. ~ Starting(r)'
    BY <2>1 DEF Starting, Creating, Created
  <2> QED
    BY <1>1, <2>1, <2>2, StartMoves
<1>3. CASE Sessions!ForegroundShell(r)
  <2>1. PICK f \in {"zsh", "sh", "other"} : start' = [start EXCEPT ![r].at = "verify", ![r].shell = f]
    BY <1>3 DEF Sessions!ForegroundShell, Sessions!Foregrounds
  <2>2. PICK k \in 0..MaxPanes : k = start[r].pane
    BY <1>1 DEF StartRecords
  <2>3. /\ start' \in [Requests -> {Sessions!Idle} \cup StartRecords]
        /\ start'[r].at \in {"shell", "verify"} /\ start'[r].id = start[r].id /\ start'[r].content = start[r].content
        /\ start'[r].pane = k
        /\ \A s \in Requests \ {r} : start'[s] = start[s]
    BY <1>1, <2>1, <2>2, StartLearns
  <2>4. Starting(r) /\ ~ Creating(r)' /\ Created(r)
    BY <1>3, <2>3 DEF Sessions!ForegroundShell, Sessions!At, Starting, Creating, Created
  <2> QED
    BY <1>1, <2>2, <2>3, <2>4, StartMoves
<1>4. ASSUME NEW step \in {"open", "create", "foreground", "send"}, Sessions!Goes(r, step), Starting(r),
             step \in {"open", "create"} <=> Creating(r), step = "send" => pane[start[r].pane].cwd
      PROVE  SessionInv'
  <2>1. /\ start' \in [Requests -> {Sessions!Idle} \cup StartRecords]
        /\ start'[r].at = step /\ start'[r].id = start[r].id /\ start'[r].content = start[r].content
        /\ start'[r].pane = start[r].pane
        /\ \A s \in Requests \ {r} : start'[s] = start[s]
    BY <1>1, <1>4, StartGoes
  <2>2. (Creating(r)' => Creating(r)) /\ (Created(r)' => Created(r))
    BY <1>4, <2>1 DEF Starting, Creating, Created
  <2> QED
    BY <1>1, <1>4, <2>1, <2>2, StartMoves
<1>5. CASE Sessions!Attach(r) \/ Sessions!Open(r) \/ Sessions!ShellSeen(r)
  BY <1>4, <1>5 DEF Sessions!Attach, Sessions!Open, Sessions!ShellSeen, Sessions!At, Starting,
     Creating, Created
<1>6. CASE Sessions!Verified(r)
  BY <1>4, <1>6 DEF Sessions!Verified, Sessions!Fits, Sessions!At, Starting, Creating, Created
<1> QED
  BY <1>2, <1>3, <1>5, <1>6

\* begin: the start is the first with its id, or learns of the other.
LEMMA StartBeginFits ==
    ASSUME RequestsAssumption, SessionInv, NEW r \in Requests, Sessions!Begin(r)
    PROVE  SessionInv'
<1>1. start[r] \in StartRecords /\ SessionTypes /\ UNCHANGED pane
  BY StartShapes DEF Sessions!Begin, Sessions!At, SessionInv
<1>2. PICK id \in Ids, content \in Contents : id = start[r].id /\ content = start[r].content
  BY <1>1 DEF StartRecords
<1>3. CASE UNCHANGED <<starts, forgotten>> /\ Sessions!Replied(r)
  <2>1. /\ start' \in [Requests -> {Sessions!Idle} \cup StartRecords]
        /\ start'[r].at = "idle" /\ \A s \in Requests \ {r} : start'[s] = start[s]
    BY <1>1, <1>3, StartReplies
  <2>2. ~ Starting(r)'
    BY <2>1 DEF Starting, Creating, Created
  <2> QED
    BY <1>1, <1>3, <2>1, <2>2, StartMoves
<1>4. CASE /\ UNCHANGED <<starts, forgotten>> /\ Sessions!Goes(r, "waits") /\ Sessions!Has(starts, id)
           /\ Sessions!Same(Sessions!EntryOf(starts, id), content)
           /\ Sessions!EntryOf(starts, id).outcome = "running"
  <2>1. /\ start' \in [Requests -> {Sessions!Idle} \cup StartRecords]
        /\ start'[r].at = "waits" /\ start'[r].id = id /\ start'[r].content = content
        /\ \A s \in Requests \ {r} : start'[s] = start[s]
    BY <1>1, <1>2, <1>4, StartGoes
  <2>2. PICK i \in DOMAIN starts : starts[i].id = id /\ starts[i] = Sessions!EntryOf(starts, id)
    BY <1>4 DEF Sessions!Has, Sessions!EntryOf, Sessions!PlaceOf
  <2>3. \E e \in Entries(starts) : e.id = id /\ e.content = content /\ e.outcome = "running"
    BY <1>4, <2>2 DEF Entries, Sessions!Same
  <2>4. ~ Starting(r)'
    BY <2>1 DEF Starting, Creating, Created
  <2> QED
    BY <1>1, <1>4, <2>1, <2>3, <2>4, StartMoves
<1>5. CASE /\ ~ Sessions!Has(starts, id) /\ Sessions!HasRoom(starts, Capacity) /\ Sessions!Goes(r, "attach")
           /\ starts' = Sessions!Begun(starts, [id |-> id, content |-> content, outcome |-> "running"], Capacity)
           /\ forgotten' = forgotten \cup {i \in Ids : Sessions!Has(starts, i) /\ ~ Sessions!Has(starts', i)}
  <2>1. PICK e \in StartEntries : e = [id |-> id, content |-> content, outcome |-> "running"]
    BY DEF StartEntries
  <2>2. /\ Unknown(starts, e.id) /\ HasRoom(starts, Capacity) /\ starts' = Begun(starts, e, Capacity)
        /\ e.id = id /\ e.content = content /\ e.outcome = "running"
    BY <1>5, <2>1, SameStartLogs
  <2>3. /\ starts \in Seq(StartEntries) /\ OneEach(starts) /\ Len(starts) <= Capacity
        /\ Capacity \in Nat \ {0}
    BY DEF SessionInv, SessionTypes, StarterFits, RequestsAssumption, Sessions!SessionAssumption
  <2>4. /\ starts' \in Seq(StartEntries) /\ Len(starts') <= Capacity /\ OneEach(starts')
        /\ e \in Entries(starts')
        /\ \A f \in Entries(starts) : f.outcome = "running" => f \in Entries(starts')
        /\ \A f \in Entries(starts') : f \in Entries(starts) \/ f = e
    BY <2>2, <2>3, BegunEntries
  <2>5. /\ start' \in [Requests -> {Sessions!Idle} \cup StartRecords]
        /\ \A s \in Requests \ {r} : start'[s] = start[s]
        /\ start'[r].at = "attach" /\ start'[r].id = id /\ start'[r].content = content
    BY <1>1, <1>2, <1>5, StartGoes
  <2>6. SessionTypes'
    <3>1. forgotten' \subseteq Ids
      BY <1>1, <1>5 DEF SessionTypes
    <3> QED
      BY <1>1, <2>4, <2>5, <3>1 DEF SessionTypes, StartEntries, StartRecords, Panes, Sessions!Idle
  <2>7. \A s \in Requests : Starting(s)' =>
           s = r \/ (Starting(s) /\ start'[s] = start[s] /\ start[s].id # id)
    BY <2>2, <2>5 DEF Starting, Creating, Created, SessionInv, StarterFits, Unknown
  <2>8. StarterFits'
    <3>1. OneEach(starts)'
      BY <2>4 DEF OneEach
    <3>2. \A w \in Requests : Starting(w)' \/ start'[w].at = "waits" =>
             \E f \in Entries(starts') : f.id = start'[w].id /\ f.content = start'[w].content /\ f.outcome = "running"
      <4> SUFFICES ASSUME NEW w \in Requests, Starting(w)' \/ start'[w].at = "waits"
                   PROVE  \E f \in Entries(starts') : f.id = start'[w].id /\ f.content = start'[w].content /\ f.outcome = "running"
        OBVIOUS
      <4>1. CASE w = r
        BY <2>2, <2>4, <2>5, <4>1
      <4>2. CASE w # r
        <5>1. start'[w] = start[w] /\ (Starting(w) \/ start[w].at = "waits")
          BY <2>5, <2>7, <4>2
        <5>2. PICK f \in Entries(starts) : f.id = start[w].id /\ f.content = start[w].content /\ f.outcome = "running"
          BY <5>1 DEF SessionInv, StarterFits
        <5> QED
          BY <2>4, <5>1, <5>2
      <4> QED
        BY <4>1, <4>2
    <3>3. \A s, t \in Requests : Starting(s)' /\ Starting(t)' /\ start'[s].id = start'[t].id => s = t
      BY <2>5, <2>7 DEF SessionInv, StarterFits
    <3> QED
      BY <3>1, <3>2, <3>3 DEF StarterFits, Entries
  <2>9. PanesFit'
    <3>1. \A x \in Ids : x \notin forgotten' /\ Unknown(starts', x) => x \notin forgotten /\ Unknown(starts, x)
      BY <1>5, SameStartLogs
    <3>2. \A x \in Ids \ forgotten' :
             /\ \A p, q \in PanesOf(pane, x) : p = q
             /\ Unknown(starts', x) => PanesOf(pane, x) = {}
      BY <1>5, <3>1 DEF SessionInv, PanesFit
    <3>3. id \notin forgotten' => PanesOf(pane, id) = {}
      BY <1>5, <2>2 DEF SessionInv, PanesFit
    <3>4. \A w \in Requests : Creating(w)' /\ start'[w].id \notin forgotten' => PanesOf(pane, start'[w].id) = {}
      <4> SUFFICES ASSUME NEW w \in Requests, Creating(w)', start'[w].id \notin forgotten'
                   PROVE  PanesOf(pane, start'[w].id) = {}
        OBVIOUS
      <4>1. CASE w = r
        BY <2>5, <3>3, <4>1
      <4>2. CASE w # r
        <5>1. start'[w] = start[w] /\ Creating(w) /\ start[w].id \notin forgotten
          BY <1>5, <2>5, <4>2 DEF Creating
        <5> QED
          BY <5>1 DEF SessionInv, PanesFit
      <4> QED
        BY <4>1, <4>2
    <3>5. \A w \in Requests : Created(w)' =>
          /\ start'[w].pane \in DOMAIN pane /\ pane[start'[w].pane].id = start'[w].id
          /\ pane[start'[w].pane].commands = 0
          /\ start'[w].at = "send" => pane[start'[w].pane].cwd
      BY <2>5 DEF SessionInv, PanesFit, Created
    <3> QED
      BY <1>1, <3>2, <3>4, <3>5 DEF SessionInv, PanesFit, Unknown, Entries, PanesOf
  <2> QED
    BY <2>6, <2>8, <2>9 DEF SessionInv
<1> QED
  BY <1>2, <1>3, <1>4, <1>5 DEF Sessions!Begin

\* Starts that end without another pane.
LEMMA QuietEndsFit ==
    ASSUME RequestsAssumption, SessionInv, NEW r \in Requests,
           \/ Sessions!Refused(r) \/ Sessions!CreateRefused(r) \/ Sessions!ForegroundUnknown(r)
           \/ Sessions!Mismatch(r) \/ Sessions!SendFails(r)
    PROVE  SessionInv'
<1>1. CASE Sessions!Refused(r) \/ Sessions!CreateRefused(r)
  <2>1. Creating(r) /\ Sessions!Finish(r, "forgotten") /\ UNCHANGED pane
    BY <1>1 DEF Sessions!Refused, Sessions!CreateRefused, Sessions!At, Creating
  <2> QED
    BY <2>1, QuietEndFits DEF Starting
<1>2. CASE Sessions!ForegroundUnknown(r) \/ Sessions!Mismatch(r) \/ Sessions!SendFails(r)
  <2>1. Created(r) /\ Sessions!Finish(r, "replied") /\ UNCHANGED pane
    BY <1>2 DEF Sessions!ForegroundUnknown, Sessions!Mismatch, Sessions!SendFails, Sessions!At, Created
  <2> QED
    BY <2>1, QuietEndFits DEF Starting
<1> QED
  BY <1>1, <1>2

\* Nobody knows whether the pane was created.
LEMMA UnknownCreateFits ==
    ASSUME RequestsAssumption, SessionInv, NEW r \in Requests, Sessions!CreateUnknown(r)
    PROVE  SessionInv'
<1>1. start[r].at = "create" /\ Sessions!Finish(r, "replied") /\ SessionTypes
  BY DEF Sessions!CreateUnknown, Sessions!At, Sessions!UnknownCreate, SessionInv
<1>2. Creating(r) /\ Starting(r)
  BY <1>1 DEF Starting, Creating
<1>3. CASE UNCHANGED pane
  BY <1>1, <1>2, <1>3, QuietEndFits
<1>4. CASE Len(pane) < MaxPanes /\ Sessions!Creates(r)
  <2>1. PICK id \in Ids, content \in Contents : id = start[r].id /\ content = start[r].content
    BY <1>1, StartShapes DEF StartRecords
  <2>2. PICK cwd \in BOOLEAN :
           pane' = Append(pane, [id |-> id, content |-> content, cwd |-> cwd, commands |-> 0])
    BY <1>4, <2>1 DEF Sessions!Creates
  <2>3. /\ pane' \in Seq(Panes) /\ Len(pane') <= MaxPanes /\ Len(pane) + 1 \in DOMAIN pane' /\ Len(pane) \in Nat
        /\ pane'[Len(pane) + 1].id = id /\ pane'[Len(pane) + 1].commands = 0
        /\ \A x \in Ids : x # id => PanesOf(pane', x) = PanesOf(pane, x)
        /\ PanesOf(pane', id) = PanesOf(pane, id) \cup {Len(pane) + 1}
        /\ DOMAIN pane' = DOMAIN pane \cup {Len(pane) + 1}
        /\ \A p \in DOMAIN pane : pane'[p] = pane[p]
    BY <1>1, <1>4, <2>2, PaneAppended
  <2>4. id \notin forgotten => \A p, q \in PanesOf(pane', id) : p = q
    <3>1. id \notin forgotten => PanesOf(pane, id) = {}
      BY <1>2, <2>1 DEF SessionInv, PanesFit
    <3> QED
      BY <2>3, <3>1
  <2>5. \A p \in DOMAIN pane' : pane'[p].commands <= 1 /\ (pane'[p].commands = 1 => pane'[p].cwd)
    BY <2>3 DEF SessionInv, PanesFit
  <2> QED
    BY <1>1, <1>2, <2>1, <2>3, <2>4, <2>5, StartEndFits
<1> QED
  BY <1>3, <1>4 DEF Sessions!CreateUnknown

\* The command goes into the pane of the start.
LEMMA CommandFits ==
    ASSUME RequestsAssumption, SessionInv, NEW r \in Requests, Sessions!SendCommand(r)
    PROVE  SessionInv'
<1>1. start[r].at = "send" /\ Sessions!Finish(r, "replied") /\ SessionTypes /\ pane \in Seq(Panes)
  BY DEF Sessions!SendCommand, Sessions!At, SessionInv, SessionTypes
<1>2. Created(r) /\ Starting(r)
  BY <1>1 DEF Starting, Created
<1>3. PICK id \in Ids : id = start[r].id
  BY <1>1, StartShapes DEF StartRecords
<1>4. PICK k \in DOMAIN pane : k = start[r].pane /\ pane[k].id = id /\ pane[k].commands = 0 /\ pane[k].cwd
  BY <1>1, <1>2, <1>3 DEF SessionInv, PanesFit
<1>5. PICK p \in Panes : p = pane[k]
  BY <1>1
<1>6. PICK q : q = [p EXCEPT !.commands = 1]
  OBVIOUS
<1>7. q \in Panes /\ q.id = id /\ q.commands = 1 /\ q.cwd
  BY <1>4, <1>5, <1>6 DEF Panes
<1>8. pane' = [pane EXCEPT ![k] = q]
  <2>1. pane' = [pane EXCEPT ![k].commands = IF pane[k].commands = 2 THEN 2 ELSE pane[k].commands + 1]
    BY <1>4 DEF Sessions!SendCommand
  <2>2. (IF pane[k].commands = 2 THEN 2 ELSE pane[k].commands + 1) = 1
    BY <1>4
  <2>3. pane' = [pane EXCEPT ![k].commands = 1]
    BY <2>1, <2>2
  <2> QED
    BY <1>5, <1>6, <2>3
<1>9. /\ DOMAIN pane' = DOMAIN pane /\ pane'[k] = q /\ \A i \in DOMAIN pane \ {k} : pane'[i] = pane[i]
      /\ pane' \in Seq(Panes) /\ Len(pane') = Len(pane)
  BY <1>1, <1>7, <1>8
<1>10. \A x : PanesOf(pane', x) = PanesOf(pane, x)
  BY <1>4, <1>7, <1>9 DEF PanesOf
<1>11. id \notin forgotten => \A i, j \in PanesOf(pane', id) : i = j
  BY <1>10 DEF SessionInv, PanesFit
<1>12. \A i \in DOMAIN pane : pane[i].id # id => i \in DOMAIN pane' /\ pane'[i] = pane[i]
  BY <1>4, <1>9
<1>13. \A i \in DOMAIN pane' : pane'[i].commands <= 1 /\ (pane'[i].commands = 1 => pane'[i].cwd)
  BY <1>7, <1>9 DEF SessionInv, PanesFit
<1>14. Len(pane') <= MaxPanes
  BY <1>1, <1>9 DEF SessionTypes
<1> QED
  BY <1>1, <1>2, <1>3, <1>9, <1>10, <1>11, <1>12, <1>13, <1>14, StartEndFits

\* The pane of the start.
LEMMA CreateFits ==
    ASSUME RequestsAssumption, SessionInv, NEW r \in Requests, Sessions!CreateOK(r)
    PROVE  SessionInv'
<1>1. /\ start[r].at = "create" /\ SessionTypes /\ Len(pane) < MaxPanes /\ Sessions!Creates(r)
      /\ start[r] \in StartRecords /\ UNCHANGED <<starts, forgotten>>
  BY StartShapes DEF Sessions!CreateOK, Sessions!At, SessionInv
<1>2. Creating(r) /\ Starting(r)
  BY <1>1 DEF Starting, Creating
<1>3. PICK id \in Ids, content \in Contents : id = start[r].id /\ content = start[r].content
  BY <1>1 DEF StartRecords
<1>4. PICK cwd \in BOOLEAN :
         pane' = Append(pane, [id |-> id, content |-> content, cwd |-> cwd, commands |-> 0])
  BY <1>1, <1>3 DEF Sessions!Creates
<1>5. /\ pane' \in Seq(Panes) /\ Len(pane') <= MaxPanes /\ Len(pane) + 1 \in DOMAIN pane' /\ Len(pane) \in Nat
      /\ pane'[Len(pane) + 1].id = id /\ pane'[Len(pane) + 1].commands = 0
      /\ \A x \in Ids : x # id => PanesOf(pane', x) = PanesOf(pane, x)
      /\ PanesOf(pane', id) = PanesOf(pane, id) \cup {Len(pane) + 1}
      /\ DOMAIN pane' = DOMAIN pane \cup {Len(pane) + 1}
      /\ \A p \in DOMAIN pane : pane'[p] = pane[p]
  BY <1>1, <1>4, PaneAppended
<1>6. PICK k \in 0..MaxPanes : k = Len(pane) + 1
  BY <1>1, <1>5 DEF RequestsAssumption, Sessions!SessionAssumption
<1>7. start' = [start EXCEPT ![r].at = "shell", ![r].pane = k]
  BY <1>6 DEF Sessions!CreateOK
<1>8. /\ start' \in [Requests -> {Sessions!Idle} \cup StartRecords]
      /\ start'[r].at \in {"shell", "verify"} /\ start'[r].id = id /\ start'[r].content = content
      /\ start'[r].pane = k
      /\ \A s \in Requests \ {r} : start'[s] = start[s]
  BY <1>1, <1>3, <1>6, <1>7, StartLearns
<1>9. SessionTypes'
  BY <1>1, <1>5, <1>8 DEF SessionTypes, StartEntries, StartRecords, Panes, Sessions!Idle
<1>10. \A s \in Requests : Starting(s)' => Starting(s) /\ start'[s].id = start[s].id /\ start'[s].content = start[s].content
  BY <1>2, <1>3, <1>8 DEF Starting, Creating, Created
<1>11. StarterFits'
  <2>1. \A w \in Requests : Starting(w)' \/ start'[w].at = "waits" =>
           \E e \in Entries(starts) : e.id = start'[w].id /\ e.content = start'[w].content /\ e.outcome = "running"
    BY <1>8, <1>10 DEF SessionInv, StarterFits
  <2>2. \A w, v \in Requests : Starting(w)' /\ Starting(v)' /\ start'[w].id = start'[v].id => w = v
    BY <1>10 DEF SessionInv, StarterFits
  <2> QED
    BY <1>1, <2>1, <2>2 DEF SessionInv, StarterFits, OneEach, Entries
<1>12. PanesFit'
  <2>1. ~ Unknown(starts, id)
    BY <1>2, <1>3 DEF SessionInv, StarterFits, Unknown
  <2>2. id \notin forgotten => PanesOf(pane, id) = {}
    BY <1>2, <1>3 DEF SessionInv, PanesFit
  <2>3. ASSUME NEW x \in Ids \ forgotten
        PROVE  /\ \A p, q \in PanesOf(pane', x) : p = q
               /\ Unknown(starts, x) => PanesOf(pane', x) = {}
    <3>1. CASE x = id
      BY <1>5, <2>1, <2>2, <3>1
    <3>2. CASE x # id
      BY <1>5, <3>2 DEF SessionInv, PanesFit
    <3> QED
      BY <3>1, <3>2
  <2>4. \A w \in Requests \ {r} : Starting(w) => start[w].id # id /\ start[w].id \in Ids
    <3> SUFFICES ASSUME NEW w \in Requests \ {r}, Starting(w) PROVE start[w].id # id /\ start[w].id \in Ids
      OBVIOUS
    <3>1. start[w] \in StartRecords
      BY <1>1, StartShapes DEF Starting, Creating, Created
    <3> QED
      BY <1>2, <1>3, <3>1 DEF SessionInv, StarterFits, StartRecords
  <2>5. \A w \in Requests : Creating(w)' /\ start'[w].id \notin forgotten => PanesOf(pane', start'[w].id) = {}
    <3> SUFFICES ASSUME NEW w \in Requests, Creating(w)', start'[w].id \notin forgotten
                 PROVE  PanesOf(pane', start'[w].id) = {}
      OBVIOUS
    <3>1. w # r /\ start'[w] = start[w] /\ Creating(w)
      BY <1>8 DEF Creating
    <3>2. PanesOf(pane, start[w].id) = {} /\ start[w].id # id /\ start[w].id \in Ids
      BY <2>4, <3>1 DEF SessionInv, PanesFit, Starting
    <3> QED
      BY <1>5, <3>1, <3>2
  <2>6. \A w \in Requests : Created(w)' =>
          /\ start'[w].pane \in DOMAIN pane' /\ pane'[start'[w].pane].id = start'[w].id
          /\ pane'[start'[w].pane].commands = 0
          /\ start'[w].at = "send" => pane'[start'[w].pane].cwd
    <3> SUFFICES ASSUME NEW w \in Requests, Created(w)'
                 PROVE  /\ start'[w].pane \in DOMAIN pane' /\ pane'[start'[w].pane].id = start'[w].id
                        /\ pane'[start'[w].pane].commands = 0
                        /\ start'[w].at = "send" => pane'[start'[w].pane].cwd
      OBVIOUS
    <3>1. CASE w = r
      BY <1>5, <1>6, <1>8, <3>1
    <3>2. CASE w # r
      <4>1. start'[w] = start[w] /\ Created(w)
        BY <1>8, <3>2 DEF Created
      <4>2. /\ start[w].pane \in DOMAIN pane /\ pane[start[w].pane].id = start[w].id
            /\ pane[start[w].pane].commands = 0
            /\ start[w].at = "send" => pane[start[w].pane].cwd
        BY <4>1 DEF SessionInv, PanesFit
      <4> QED
        BY <1>5, <4>1, <4>2
    <3> QED
      BY <3>1, <3>2
  <2>7. \A p \in DOMAIN pane' : pane'[p].commands <= 1 /\ (pane'[p].commands = 1 => pane'[p].cwd)
    BY <1>5 DEF SessionInv, PanesFit
  <2> QED
    BY <1>1, <2>3, <2>5, <2>6, <2>7 DEF PanesFit, Unknown, Entries, PanesOf
<1> QED
  BY <1>9, <1>11, <1>12 DEF SessionInv

\* An old answer is deleted.
LEMMA StartExpireFits ==
    ASSUME RequestsAssumption, SessionInv, NEW id \in Ids, Sessions!Expire(id)
    PROVE  SessionInv'
<1>1. /\ starts \in Seq(StartEntries) /\ OneEach(starts) /\ ~ Unknown(starts, id)
      /\ starts' = Without(starts, id) /\ forgotten' = forgotten \cup {id}
      /\ UNCHANGED <<start, pane>>
  BY SameStartLogs DEF Sessions!Expire, SessionInv, SessionTypes, StarterFits
<1>2. /\ starts' \in Seq(StartEntries) /\ Len(starts') <= Len(starts) /\ OneEach(starts')
      /\ Entries(starts') = {e \in Entries(starts) : e.id # id}
  BY <1>1, WithoutEntries
<1>3. \A e \in Entries(starts) : e.id = id => e.outcome # "running"
  <2>1. PICK i \in DOMAIN starts : starts[i].id = id /\ starts[i].outcome # "running"
    BY DEF Sessions!Expire, Sessions!Has, Sessions!EntryOf, Sessions!PlaceOf
  <2> QED
    BY <1>1, <2>1 DEF Entries, OneEach
<1>4. SessionTypes'
  <2>1. Len(starts') <= Capacity
    BY <1>1, <1>2 DEF SessionInv, SessionTypes, RequestsAssumption, Sessions!SessionAssumption
  <2> QED
    BY <1>1, <1>2, <2>1 DEF SessionInv, SessionTypes, StartEntries, StartRecords, Panes, Sessions!Idle
<1>5. StarterFits'
  <2>1. \A r \in Requests : Starting(r) \/ start[r].at = "waits" =>
           \E e \in Entries(starts') : e.id = start[r].id /\ e.content = start[r].content /\ e.outcome = "running"
    BY <1>2, <1>3 DEF SessionInv, StarterFits
  <2> QED
    BY <1>1, <1>2, <2>1 DEF SessionInv, StarterFits, Starting, Creating, Created, OneEach, Entries
<1>6. PanesFit'
  <2>1. \A x \in Ids : x # id /\ Unknown(starts', x) => Unknown(starts, x)
    BY <1>2 DEF Unknown
  <2>2. \A x \in Ids \ forgotten' :
           /\ \A p, q \in PanesOf(pane, x) : p = q
           /\ Unknown(starts', x) => PanesOf(pane, x) = {}
    BY <1>1, <2>1 DEF SessionInv, PanesFit
  <2> QED
    BY <1>1, <2>2 DEF SessionInv, PanesFit, Creating, Created, Unknown, Entries, PanesOf
<1> QED
  BY <1>4, <1>5, <1>6 DEF SessionInv

\* The first state.
LEMMA SessionsStart ==
    ASSUME RequestsAssumption, Sessions!SessionInit
    PROVE  SessionInv
<1>1. \A r \in Requests : start[r] = Sessions!Idle /\ start[r].at = "idle"
  BY DEF Sessions!SessionInit, Sessions!Idle
<1>2. starts = <<>> /\ Entries(starts) = {} /\ pane = <<>> /\ DOMAIN pane = {}
  BY DEF Sessions!SessionInit, Entries
<1>3. SessionTypes
  <2>1. starts \in Seq(StartEntries) /\ Len(starts) <= Capacity /\ pane \in Seq(Panes) /\ Len(pane) <= MaxPanes
    BY <1>2 DEF RequestsAssumption, Sessions!SessionAssumption
  <2>2. start \in [Requests -> {Sessions!Idle} \cup StartRecords] /\ forgotten \subseteq Ids
    BY DEF Sessions!SessionInit
  <2> QED
    BY <2>1, <2>2 DEF SessionTypes
<1>4. StarterFits
  BY <1>1, <1>2 DEF StarterFits, OneEach, Starting, Creating, Created
<1>5. PanesFit
  BY <1>1, <1>2 DEF PanesFit, PanesOf, Creating, Created
<1> QED
  BY <1>3, <1>4, <1>5 DEF SessionInv

\* The invariant of SessionStart: who starts a session is alone with its id
\* and the log knows of it; its pane is the only one of the id.
THEOREM SessionInvariance ==
    ASSUME RequestsAssumption
    PROVE  Sessions!SessionSpec => []SessionInv
<1>1. Sessions!SessionInit => SessionInv
  BY SessionsStart
<1>2. SessionInv /\ [Sessions!SessionNext]_Sessions!sessionVars => SessionInv'
  <2> SUFFICES ASSUME SessionInv, [Sessions!SessionNext]_Sessions!sessionVars PROVE SessionInv'
    OBVIOUS
  <2>1. CASE UNCHANGED Sessions!sessionVars
    BY <2>1 DEF Sessions!sessionVars, SessionInv, SessionTypes, StarterFits, PanesFit, Starting,
       Creating, Created,
                OneEach, Unknown, Entries, PanesOf, StartEntries, StartRecords, Panes, Sessions!Idle
  <2>2. CASE \E id \in Ids : Sessions!Expire(id)
    BY <2>2, StartExpireFits
  <2>3. ASSUME NEW r \in Requests,
               \/ Sessions!Ask(r) \/ Sessions!Begin(r) \/ Sessions!Leave(r) \/ Sessions!Attach(r)
               \/ Sessions!Refused(r) \/ Sessions!Open(r) \/ Sessions!CreateOK(r) \/ Sessions!CreateRefused(r)
               \/ Sessions!CreateUnknown(r) \/ Sessions!ShellSeen(r) \/ Sessions!ForegroundShell(r)
               \/ Sessions!ForegroundUnknown(r) \/ Sessions!Verified(r) \/ Sessions!Mismatch(r)
               \/ Sessions!SendCommand(r) \/ Sessions!SendFails(r)
        PROVE  SessionInv'
    BY <2>3, StartAskFits, StartBeginFits, StartGoesFits, QuietEndsFit, CreateFits, UnknownCreateFits,
       CommandFits
  <2> QED
    BY <2>1, <2>2, <2>3 DEF Sessions!SessionNext
<1> QED
  BY <1>1, <1>2, PTL DEF Sessions!SessionSpec

\* What the log and the panes promise follows.
LEMMA SessionsStartOnce ==
    ASSUME SessionInv
    PROVE  Sessions!StartOnce /\ Sessions!WaitsForItsOwn
<1>1. ASSUME NEW id \in Ids, id \notin forgotten
      PROVE  ~ (Cardinality(Sessions!Of(id)) > 1)
  <2>1. \A p, q \in Sessions!Of(id) : p = q
    BY <1>1 DEF SessionInv, PanesFit, Sessions!Of, PanesOf
  <2>2. CASE Sessions!Of(id) = {}
    BY <2>2, FS_EmptySet
  <2>3. CASE Sessions!Of(id) # {}
    <3>1. PICK p : Sessions!Of(id) = {p}
      BY <2>1, <2>3
    <3>2. Cardinality({p}) = 1
      BY FS_Singleton
    <3> QED
      BY <3>1, <3>2
  <2> QED
    BY <2>2, <2>3
<1>2. Sessions!StartOnce
  <2>1. \A id \in Ids : Cardinality(Sessions!Of(id)) > 1 => id \in forgotten
    BY <1>1
  <2>2. \A p \in DOMAIN pane : pane[p].commands <= 1 /\ (pane[p].commands = 1 => pane[p].cwd)
    BY DEF SessionInv, PanesFit
  <2>3. \A S : Sessions!Cardinality(S) = Cardinality(S)
    BY Zenon DEF Sessions!Cardinality, Cardinality
  <2> QED
    BY <2>1, <2>2, <2>3 DEF Sessions!StartOnce
<1>3. ASSUME NEW r \in Requests, Sessions!At(r, "waits")
      PROVE  Sessions!Has(starts, start[r].id) /\ Sessions!EntryOf(starts,
      start[r].id).content = start[r].content
  <2>1. PICK i \in DOMAIN starts : starts[i].id = start[r].id /\ starts[i].content = start[r].content
    BY <1>3 DEF SessionInv, StarterFits, Entries, Sessions!At
  <2>2. Sessions!PlaceOf(starts, start[r].id) = i
    BY <2>1 DEF Sessions!PlaceOf, SessionInv, StarterFits, OneEach
  <2> QED
    BY <2>1, <2>2 DEF Sessions!Has, Sessions!EntryOf
<1> QED
  BY <1>2, <1>3 DEF Sessions!WaitsForItsOwn

\* RequestsActOnce holds of the requests of one user: a prompt is typed once,
\* answers take turns, a session is started once and nobody waits for another.
THEOREM RequestsOnce ==
    ASSUME RequestsAssumption
    PROVE  Input!InputSpec /\ Sessions!SessionSpec => []RequestsActOnce
<1>1. InputInv /\ SessionInv => RequestsActOnce
  BY InputActsOnce, SessionsStartOnce DEF RequestsActOnce
<1> QED
  BY <1>1, InputInvariance, SessionInvariance, PTL

----------------------------------------------------------------------------
(* The configuration of the agent and the legacy agent.                    *)

\* The states of a command, of a connection and of the daemon.
CommandStates == [op : Agent!Ops \cup {"none"}, at : Agent!Stages]
Connected == [at : {"none", "open", "runs", "confirm"}, id : 0..MaxId, paired : BOOLEAN, token : 0..MaxTokens]
Updates == [by : {None} \cup Requests \cup Conns, op : {"none", "pair", "unpair", "confirm"},
            token : 0..MaxTokens, saved : BOOLEAN]
Servers == [at : {"off", "starting", "up"}, serves : Nat, update : Updates]

\* What is at a path is no configuration, or one of an identity and a token
\* that were made.
FileFits(f) == f = None \/ (f \in Agent!Configurations /\ f.id \in 0..lastId /\ f.token \in 0..lastToken)

\* The parts of AgentTypeOK.
LEMMA AgentTypes ==
    Agent!AgentTypeOK <=>
        /\ lastId \in 0..MaxId /\ lastToken \in 0..MaxTokens /\ unpaired \in 0..lastId
        /\ FileFits(file) /\ FileFits(durable) /\ FileFits(memory)
        /\ holder \in {None, "daemon"} \cup Requests
        /\ server \in Servers
        /\ caller \in [Requests -> CommandStates]
        /\ conn \in [Conns -> Connected]
BY DEF Agent!AgentTypeOK, FileFits, Servers, Updates, CommandStates, Connected

\* The same of the next state.
LEMMA NextAgentTypes ==
    Agent!AgentTypeOK' <=>
        /\ lastId' \in 0..MaxId /\ lastToken' \in 0..MaxTokens /\ unpaired' \in 0..lastId'
        /\ FileFits(file)' /\ FileFits(durable)' /\ FileFits(memory)'
        /\ holder' \in {None, "daemon"} \cup Requests
        /\ server' \in Servers
        /\ caller' \in [Requests -> CommandStates]
        /\ conn' \in [Conns -> Connected]
BY DEF Agent!AgentTypeOK, FileFits, Servers, Updates, CommandStates, Connected

\* One command changes.
CommandTurns(c, x) ==
    /\ caller' \in [Requests -> CommandStates] /\ caller'[c] = x
    /\ \A d \in Requests \ {c} : caller'[d] = caller[d]

\* What an assignment to an element of command does.
LEMMA OneCommand ==
    ASSUME Agent!AgentTypeOK, NEW c \in Requests, NEW x \in CommandStates, caller' = [caller EXCEPT ![c] = x]
    PROVE  CommandTurns(c, x)
BY AgentTypes DEF CommandTurns

\* A command ends.
LEMMA CommandIsOver ==
    ASSUME Agent!AgentTypeOK, NEW c \in Requests, Agent!CommandEnds(c)
    PROVE  CommandTurns(c, Agent!Idle)
BY OneCommand DEF Agent!CommandEnds, Agent!Idle, CommandStates, Agent!Stages

\* A command goes on.
LEMMA CommandGoesOn ==
    ASSUME Agent!AgentTypeOK, NEW c \in Requests, NEW step \in Agent!Stages, Agent!CommandGoes(c, step)
    PROVE  \E x \in CommandStates : CommandTurns(c, x) /\ x.op = caller[c].op /\ x.at = step
<1>1. PICK x : x = [caller[c] EXCEPT !.at = step]
  OBVIOUS
<1>2. x \in CommandStates /\ x.op = caller[c].op /\ x.at = step
  BY <1>1, AgentTypes DEF CommandStates
<1>3. caller' = [caller EXCEPT ![c] = x]
  BY <1>1 DEF Agent!CommandGoes
<1> QED BY <1>2, <1>3, OneCommand

\* A command that comes to an end, or to a step without a promise, leaves the
\* file and the daemon alone.
LEMMA CommandStepKeeps ==
    ASSUME Agent!AgentAssumption, Agent!AgentInv, NEW c \in Requests, NEW x \in CommandStates,
           CommandTurns(c, x),
           x.at \in {"copy", "change", "sync"} => holder' = c,
           \A d \in Requests \ {c} : holder = d => holder' = d,
           holder = "daemon" => holder' = "daemon",
           holder' \in {None, "daemon"} \cup Requests,
           x.at = "copy" => file = None,
           x.at \in {"ask", "asked"} => x.op \in {"pair", "unpair"},
           x.at \in {"migrate", "copy"} => x.op = "setup",
           x.at \in {"lock", "change"} => x.op \in Agent!Ops \ {"force"},
           x.at = "sync" => FALSE,
           UNCHANGED <<file, durable, server, memory, conn, lastId, lastToken, unpaired>>
    PROVE  Agent!AgentInv'
<1>1. Agent!AgentTypeOK'
  BY AgentTypes, NextAgentTypes DEF Agent!AgentInv, FileFits, CommandTurns
<1>2. Agent!LockFits'
  BY DEF Agent!AgentInv, Agent!LockFits, CommandTurns
<1>3. \A d \in Requests : Agent!CommandFits(d)'
  BY DEF Agent!AgentInv, Agent!CommandFits, CommandTurns
<1>4. Agent!RevokedStays' /\ Agent!RunsForItsIdentity' /\ Agent!DaemonFits' /\ Agent!UpdatesFit'
  BY DEF Agent!AgentInv, Agent!RevokedStays, Agent!RunsForItsIdentity, Agent!DaemonFits,
     Agent!UpdatesFit, Agent!TokenFits, Agent!Quiet
<1> QED BY <1>1, <1>2, <1>3, <1>4 DEF Agent!AgentInv

\* A command begins, looks, and asks for the lock or the daemon.
LEMMA CommandBegins ==
    ASSUME Agent!AgentAssumption, Agent!AgentInv, NEW c \in Requests, Agent!Begin(c)
    PROVE  Agent!AgentInv'
<1>1. PICK op \in Agent!Ops : caller' = [caller EXCEPT ![c] = [op |-> op, at |-> IF op \in {"pair", "unpair"} THEN "ask" ELSE "look"]]
  BY DEF Agent!Begin
<1>2. PICK x : x = [op |-> op, at |-> IF op \in {"pair", "unpair"} THEN "ask" ELSE "look"]
  OBVIOUS
<1>3. x \in CommandStates /\ x.op = op /\ x.at = IF op \in {"pair", "unpair"} THEN "ask" ELSE "look"
  BY <1>2 DEF CommandStates, Agent!Stages
<1>4. CommandTurns(c, x)
  BY <1>1, <1>2, <1>3, OneCommand DEF Agent!AgentInv
<1>5. UNCHANGED <<file, durable, holder, server, memory, conn, lastId, lastToken, unpaired>>
  BY DEF Agent!Begin
<1> QED BY <1>3, <1>4, <1>5, CommandStepKeeps, AgentTypes DEF Agent!AgentInv

\* A command reads the file before it takes the lock, and may end there.
LEMMA LookKeeps ==
    ASSUME Agent!AgentAssumption, Agent!AgentInv, NEW c \in Requests, Agent!Look(c)
    PROVE  Agent!AgentInv'
<1>1. /\ UNCHANGED <<file, durable, holder, server, memory, conn, lastId, lastToken, unpaired>>
      /\ holder \in {None, "daemon"} \cup Requests
  BY AgentTypes DEF Agent!Look, Agent!AgentInv
<1>2. CASE Agent!CommandEnds(c)
  BY <1>1, <1>2, CommandIsOver, CommandStepKeeps DEF Agent!AgentInv, Agent!Idle, CommandStates, Agent!Stages
<1>3. CASE caller' = [caller EXCEPT ![c] = IF caller[c].op = "setup" THEN [op |-> caller[c].op, at |-> "migrate"] ELSE [op |-> "init", at |-> "lock"]]
  <2>1. PICK x : x = IF caller[c].op = "setup" THEN [op |-> caller[c].op, at |-> "migrate"] ELSE [op |-> "init", at |-> "lock"]
    OBVIOUS
  <2>2. /\ x \in CommandStates /\ x.at \in {"migrate", "lock"} /\ x.op \in {"setup", "init"}
        /\ x.at = "migrate" => x.op = "setup"
    BY <2>1 DEF CommandStates, Agent!Stages, Agent!Ops
  <2>3. CommandTurns(c, x)
    BY <1>3, <2>1, <2>2, OneCommand DEF Agent!AgentInv
  <2> QED BY <1>1, <2>2, <2>3, CommandStepKeeps DEF Agent!Ops
<1> QED BY <1>2, <1>3 DEF Agent!Look

\* A setup takes the lock to migrate the old configuration, or ends.
LEMMA MigrateKeeps ==
    ASSUME Agent!AgentAssumption, Agent!AgentInv, NEW c \in Requests, Agent!Migrate(c)
    PROVE  Agent!AgentInv'
<1>1. /\ UNCHANGED <<file, durable, server, memory, conn, lastId, lastToken, unpaired>>
      /\ holder \in {None, "daemon"} \cup Requests /\ \A d \in Requests : d # None /\ d # "daemon"
      /\ None # "daemon"
  BY AgentTypes DEF Agent!Migrate, Agent!AgentInv, Agent!AgentAssumption
<1>2. CASE Agent!CommandEnds(c) /\ UNCHANGED holder
  BY <1>1, <1>2, CommandIsOver, CommandStepKeeps DEF Agent!AgentInv, Agent!Idle, CommandStates, Agent!Stages
<1>3. CASE holder = None /\ file = None /\ holder' = c /\ Agent!CommandGoes(c, "copy")
  <2>1. PICK x \in CommandStates : CommandTurns(c, x) /\ x.op = caller[c].op /\ x.at = "copy"
    BY <1>3, CommandGoesOn DEF Agent!AgentInv, Agent!Stages
  <2>2. x.op = "setup"
    BY <2>1 DEF Agent!Migrate, Agent!AgentInv, Agent!CommandFits
  <2> QED BY <1>1, <1>3, <2>1, <2>2, CommandStepKeeps
<1> QED BY <1>2, <1>3 DEF Agent!Migrate

\* A command gives up, or is killed, at any of its steps.
LEMMA LeaveKeeps ==
    ASSUME Agent!AgentAssumption, Agent!AgentInv, NEW c \in Requests,
           Agent!MigrationRefused(c) \/ Agent!LockTimesOut(c) \/ Agent!ChangeFails(c) \/ Agent!Kill(c)
    PROVE  Agent!AgentInv'
<1>1. /\ UNCHANGED <<file, durable, server, memory, conn, lastId, lastToken, unpaired>>
      /\ Agent!CommandEnds(c) /\ holder' \in {None, holder} /\ (holder' # holder => holder = c)
  BY DEF Agent!MigrationRefused, Agent!LockTimesOut, Agent!ChangeFails, Agent!Kill, Agent!AgentInv,
     Agent!LockFits
<1>2. holder \in {None, "daemon"} \cup Requests /\ c # "daemon"
  BY AgentTypes DEF Agent!AgentInv, Agent!AgentAssumption
<1> QED BY <1>1, <1>2, CommandIsOver, CommandStepKeeps DEF Agent!AgentInv, Agent!Idle, CommandStates,
           Agent!Stages

\* A setup finds nothing to migrate, or a command takes the lock.
LEMMA LockStepKeeps ==
    ASSUME Agent!AgentAssumption, Agent!AgentInv, NEW c \in Requests, Agent!NothingToCopy(c) \/ Agent!Lock(c)
    PROVE  Agent!AgentInv'
<1>1. /\ UNCHANGED <<file, durable, server, memory, conn, lastId, lastToken, unpaired>>
      /\ caller[c].op \in Agent!Ops \ {"force"}
      /\ holder \in {None, "daemon"} \cup Requests /\ \A d \in Requests : d # None /\ d # "daemon"
      /\ None # "daemon"
  BY AgentTypes DEF Agent!NothingToCopy, Agent!Lock, Agent!AgentInv, Agent!CommandFits,
     Agent!AgentAssumption, Agent!Ops
<1>2. CASE Agent!NothingToCopy(c)
  <2>1. PICK x \in CommandStates : CommandTurns(c, x) /\ x.op = caller[c].op /\ x.at = "lock"
    BY <1>2, CommandGoesOn DEF Agent!AgentInv, Agent!Stages, Agent!NothingToCopy
  <2>2. holder = c /\ holder' = None
    BY <1>2 DEF Agent!NothingToCopy, Agent!AgentInv, Agent!LockFits
  <2> QED BY <1>1, <2>1, <2>2, CommandStepKeeps
<1>3. CASE Agent!Lock(c)
  <2>1. PICK x \in CommandStates : CommandTurns(c, x) /\ x.op = caller[c].op /\ x.at = "change"
    BY <1>3, CommandGoesOn DEF Agent!AgentInv, Agent!Stages, Agent!Lock
  <2>2. holder = None /\ holder' = c
    BY <1>3 DEF Agent!Lock, Agent!LockFree
  <2> QED BY <1>1, <2>1, <2>2, CommandStepKeeps
<1> QED BY <1>2, <1>3

\* The daemon is asked, or is offline.
LEMMA CommandAsks ==
    ASSUME Agent!AgentAssumption, Agent!AgentInv, NEW c \in Requests, Agent!Ask(c)
    PROVE  Agent!AgentInv'
<1>1. /\ UNCHANGED <<file, durable, holder, memory, conn, lastId, lastToken, unpaired>>
      /\ caller[c].op \in {"pair", "unpair"}
  BY DEF Agent!Ask, Agent!AgentInv, Agent!CommandFits
<1>2. CASE server.at # "up" /\ Agent!CommandGoes(c, "lock") /\ UNCHANGED server
  <2>1. PICK x \in CommandStates : CommandTurns(c, x) /\ x.op = caller[c].op /\ x.at = "lock"
    BY <1>2, CommandGoesOn DEF Agent!AgentInv, Agent!Stages
  <2>2. holder \in {None, "daemon"} \cup Requests
    BY AgentTypes DEF Agent!AgentInv
  <2> QED BY <1>1, <1>2, <2>1, <2>2, CommandStepKeeps DEF Agent!Ops
<1>3. CASE /\ server.at = "up" /\ server.update.op = "none" /\ Agent!CommandGoes(c, "asked")
           /\ server' = [server EXCEPT !.update = [Agent!Quiet EXCEPT !.by = c, !.op = caller[c].op]]
  <2>1. PICK x \in CommandStates : CommandTurns(c, x) /\ x.op = caller[c].op /\ x.at = "asked"
    BY <1>3, CommandGoesOn DEF Agent!AgentInv, Agent!Stages
  <2>2. PICK u : u = [Agent!Quiet EXCEPT !.by = c, !.op = caller[c].op]
    OBVIOUS
  <2>3. u \in Updates /\ u.op = caller[c].op /\ ~ u.saved
    <3>1. u = [by |-> c, op |-> caller[c].op, token |-> 0, saved |-> FALSE]
      BY <2>2 DEF Agent!Quiet
    <3>2. 0 \in 0..MaxTokens
      BY DEF Agent!AgentAssumption
    <3> QED BY <1>1, <3>1, <3>2 DEF Updates
  <2>4. server' \in Servers /\ server'.at = "up" /\ server'.serves = server.serves /\ server'.update = u
    BY <1>3, <2>2, <2>3, AgentTypes DEF Agent!AgentInv, Servers
  <2>5. Agent!AgentTypeOK'
    BY <1>1, <2>1, <2>4, AgentTypes, NextAgentTypes DEF Agent!AgentInv, FileFits, CommandTurns
  <2>6. Agent!LockFits' /\ Agent!DaemonFits'
    BY <1>1, <1>3, <2>1, <2>4 DEF Agent!AgentInv, Agent!LockFits, Agent!DaemonFits, CommandTurns
  <2>7. Agent!UpdatesFit'
    BY <1>1, <2>3, <2>4 DEF Agent!AgentInv, Agent!UpdatesFit, Agent!TokenFits
  <2>8. \A d \in Requests : Agent!CommandFits(d)'
    BY <1>1, <2>1 DEF Agent!AgentInv, Agent!CommandFits, CommandTurns
  <2>9. Agent!RevokedStays' /\ Agent!RunsForItsIdentity'
    BY <1>1 DEF Agent!AgentInv, Agent!RevokedStays, Agent!RunsForItsIdentity
  <2> QED BY <2>5, <2>6, <2>7, <2>8, <2>9 DEF Agent!AgentInv
<1> QED BY <1>2, <1>3 DEF Agent!Ask

\* What an Update of the file by a command or the daemon writes is a
\* configuration; only init gives another identity, a revocation stays one, and
\* a token that was issued before it is void.
LEMMA SavesFit ==
    ASSUME Agent!AgentAssumption, Agent!AgentInv, NEW op \in {"setup", "init", "pair", "unpair", "confirm"},
           NEW token,
           op = "confirm" => Agent!TokenFits(token), Agent!Saves(op, token)
    PROVE  /\ file' \in Agent!Configurations /\ file'.id \in 0..lastId' /\ file'.token \in 0..lastToken'
           /\ lastId' \in 0..MaxId /\ lastToken' \in 0..MaxTokens /\ lastId' >= lastId /\ lastToken' >= lastToken
           /\ file # None => file \in Agent!Configurations /\ file.id # 0
           /\ op = "init" \/ (op = "setup" /\ file = None) => file'.id = lastId + 1 /\ lastId' = lastId + 1 /\ ~ file'.revoked
           /\ op = "setup" => file = None
           /\ op = "confirm" => file # None /\ ~ file.revoked
           /\ op \in {"pair", "unpair", "confirm"} => (file # None => file'.id = file.id) /\ lastId' = lastId
           /\ op = "pair" /\ file = None => file'.id = 0 /\ ~ file'.revoked
           /\ op = "pair" => file'.token = lastToken + 1 /\ lastToken' = lastToken + 1
           /\ op = "pair" /\ file # None => (file'.revoked <=> file.revoked)
           /\ op = "unpair" => file'.revoked /\ file'.token = 0
           /\ op = "unpair" /\ file = None => file'.id = 0
           /\ op = "confirm" => ~ file'.revoked
<1> DEFINE old == Agent!Loaded
<1>0. /\ lastId \in 0..MaxId /\ lastToken \in 0..MaxTokens /\ FileFits(file) /\ MaxId \in Nat /\ MaxTokens \in Nat
  BY AgentTypes DEF Agent!AgentInv, Agent!AgentAssumption
<1>1. /\ Agent!Loaded \in Agent!Configurations /\ Agent!Loaded.id \in 0..lastId /\ Agent!Loaded.token \in 0..lastToken
      /\ file = None => Agent!Loaded.id = 0 /\ Agent!Loaded.token = 0 /\ ~ Agent!Loaded.revoked
      /\ file # None => Agent!Loaded = file /\ file \in Agent!Configurations
  BY <1>0 DEF Agent!Loaded, Agent!Empty, Agent!Configurations, FileFits
<1>2. /\ Agent!WithinBounds(op) /\ (file # None => file.id # 0) /\ Agent!Accepted(op, token) /\ file' = Agent!Changed(op, token)
      /\ lastId' = (IF Agent!MakesId(op) THEN lastId + 1 ELSE lastId)
      /\ lastToken' = (IF op = "pair" THEN lastToken + 1 ELSE lastToken)
  BY DEF Agent!Saves, Agent!Loads
<1>3. /\ lastId' \in 0..MaxId /\ lastToken' \in 0..MaxTokens /\ lastId' >= lastId /\ lastToken' >= lastToken
      /\ 0 \in 0..lastId' /\ 0 \in 0..lastToken'
  BY <1>0, <1>2 DEF Agent!WithinBounds, Agent!MakesId
<1>n. PICK n \in Nat : n = lastId + 1
  BY <1>0
<1>t. PICK t \in Nat : t = lastToken + 1
  BY <1>0
<1>4. CASE op = "setup"
  <2>1. file' = [Agent!Empty EXCEPT !.id = lastId + 1] /\ Agent!Loaded.id = 0 /\ lastId' = lastId + 1
    BY <1>2, <1>4 DEF Agent!Changed, Agent!Accepted, Agent!MakesId
  <2>2. file'.id = lastId + 1 /\ file'.token = 0 /\ ~ file'.revoked /\ file' \in Agent!Configurations
    <3>1. file' = [Agent!Empty EXCEPT !.id = n]
      BY <2>1, <1>n
    <3>2. file' = [id |-> n, keys |-> FALSE, paired |-> FALSE, revoked |-> FALSE, token |-> 0]
      BY <3>1 DEF Agent!Empty
    <3>3. file'.id = n /\ file'.token = 0 /\ ~ file'.revoked /\ file' \in Agent!Configurations
      BY <3>2 DEF Agent!Configurations
    <3> QED BY <3>3, <1>n
  <2>3. file = None
    BY <1>1, <1>2, <2>1
  <2> QED BY <1>0, <1>3, <1>4, <2>1, <2>2, <2>3
<1>5. CASE op = "init"
  <2>1. file' = [Agent!Loaded EXCEPT !.id = lastId + 1, !.keys = TRUE, !.paired = FALSE, !.revoked = FALSE]
        /\ lastId' = lastId + 1 /\ lastToken' = lastToken
    BY <1>2, <1>5 DEF Agent!Changed, Agent!MakesId
  <2>2. /\ file'.id = lastId + 1 /\ file'.token = Agent!Loaded.token /\ ~ file'.revoked
        /\ file' \in Agent!Configurations
    <3>1. file' = [Agent!Loaded EXCEPT !.id = n, !.keys = TRUE, !.paired = FALSE, !.revoked = FALSE]
      BY <2>1, <1>n
    <3>2. file'.id = n /\ file'.token = Agent!Loaded.token /\ ~ file'.revoked /\ file' \in Agent!Configurations
      BY <3>1, <1>1 DEF Agent!Configurations
    <3> QED BY <3>2, <1>n
  <2> QED BY <1>0, <1>1, <1>2, <1>3, <1>5, <2>1, <2>2
<1>6. CASE op = "pair"
  <2>1. file' = [Agent!Loaded EXCEPT !.paired = FALSE, !.token = lastToken + 1]
        /\ lastId' = lastId /\ lastToken' = lastToken + 1
    BY <1>2, <1>6 DEF Agent!Changed, Agent!MakesId
  <2>2. /\ file'.id = Agent!Loaded.id /\ file'.token = lastToken + 1
        /\ (file'.revoked <=> Agent!Loaded.revoked) /\ file' \in Agent!Configurations
    <3>1. file' = [Agent!Loaded EXCEPT !.paired = FALSE, !.token = t]
      BY <2>1, <1>t
    <3>2. /\ file'.id = Agent!Loaded.id /\ file'.token = t
          /\ (file'.revoked <=> Agent!Loaded.revoked) /\ file' \in Agent!Configurations
      BY <3>1, <1>1 DEF Agent!Configurations
    <3> QED BY <3>2, <1>t
  <2> QED BY <1>0, <1>1, <1>2, <1>3, <1>6, <2>1, <2>2
<1>7. CASE op = "unpair"
  <2>1. file' = [Agent!Loaded EXCEPT !.paired = FALSE, !.revoked = TRUE, !.token = 0]
        /\ lastId' = lastId /\ lastToken' = lastToken
    BY <1>2, <1>7 DEF Agent!Changed, Agent!MakesId
  <2>2. file'.id = Agent!Loaded.id /\ file'.token = 0 /\ file'.revoked /\ file' \in Agent!Configurations
    BY <1>0, <1>1, <2>1 DEF Agent!Configurations
  <2> QED BY <1>0, <1>1, <1>2, <1>3, <1>7, <2>1, <2>2
<1>8. CASE op = "confirm"
  <2>1. /\ file' = [Agent!Loaded EXCEPT !.paired = TRUE, !.revoked = FALSE, !.token = 0]
        /\ Agent!Loaded.token = token
        /\ lastId' = lastId /\ lastToken' = lastToken
    BY <1>2, <1>8 DEF Agent!Changed, Agent!Accepted, Agent!MakesId
  <2>2. file'.id = Agent!Loaded.id /\ file'.token = 0 /\ ~ file'.revoked /\ file' \in Agent!Configurations
    BY <1>0, <1>1, <2>1 DEF Agent!Configurations
  <2>3. file # None /\ ~ file.revoked
    BY <1>0, <1>1, <1>8, <2>1 DEF Agent!TokenFits
  <2> QED BY <1>0, <1>1, <1>2, <1>3, <1>8, <2>1, <2>2, <2>3
<1> QED BY <1>4, <1>5, <1>6, <1>7, <1>8

\* Who holds the lock has no daemon beside it.
LEMMA AloneWithTheFile ==
    ASSUME Agent!AgentAssumption, Agent!AgentInv, NEW c \in Requests,
           caller[c].at \in {"copy", "change", "sync"}
    PROVE  /\ holder = c /\ server.at = "off" /\ memory = None /\ server.serves = 0 /\ server.update.op = "none"
           /\ \A k \in Conns : conn[k].at = "none"
           /\ \A d \in Requests \ {c} : caller[d].at \notin {"copy", "change", "sync"}
<1>1. holder = c /\ \A d \in Requests \ {c} : caller[d].at \notin {"copy", "change", "sync"}
  BY DEF Agent!AgentInv, Agent!LockFits
<1>2. server.at = "off"
  BY <1>1 DEF Agent!AgentInv, Agent!LockFits, Agent!AgentAssumption
<1> QED BY <1>1, <1>2 DEF Agent!AgentInv, Agent!DaemonFits, Agent!Quiet

\* A command wrote the file.
LEMMA CommandWrites ==
    ASSUME Agent!AgentAssumption, Agent!AgentInv, NEW c \in Requests, NEW x \in CommandStates,
           CommandTurns(c, x),
           caller[c].at \in {"copy", "change"}, x.at = "sync", x.op = caller[c].op,
           file' \in Agent!Configurations, file'.id \in 0..lastId', file'.token \in 0..lastToken',
           lastId' \in 0..MaxId, lastToken' \in 0..MaxTokens, lastId' >= lastId, lastToken' >= lastToken,
           unpaired # 0 /\ file'.id = unpaired => file'.revoked,
           x.op = "unpair" => file'.revoked,
           UNCHANGED <<durable, holder, server, memory, conn, unpaired>>
    PROVE  Agent!AgentInv'
<1>1. /\ holder = c /\ server.at = "off" /\ memory = None /\ server.serves = 0 /\ server.update.op = "none"
      /\ \A k \in Conns : conn[k].at = "none"
      /\ \A d \in Requests \ {c} : caller[d].at \notin {"copy", "change", "sync"}
  BY AloneWithTheFile
<1>2. file' # None
  BY DEF Agent!AgentAssumption
<1>3. Agent!AgentTypeOK'
  <2>1. /\ unpaired \in 0..lastId /\ FileFits(durable) /\ lastId \in 0..MaxId /\ lastToken \in 0..MaxTokens
        /\ MaxId \in Nat /\ MaxTokens \in Nat
    BY AgentTypes DEF Agent!AgentInv, Agent!AgentAssumption
  <2>2. unpaired' \in 0..lastId' /\ FileFits(durable)' /\ FileFits(memory)' /\ FileFits(file)'
    BY <1>1, <2>1 DEF FileFits
  <2> QED BY <2>2, AgentTypes, NextAgentTypes DEF Agent!AgentInv, CommandTurns
<1>4. Agent!RevokedStays'
  BY <1>1 DEF Agent!AgentInv, Agent!RevokedStays
<1>5. Agent!LockFits' /\ Agent!DaemonFits' /\ Agent!RunsForItsIdentity' /\ Agent!UpdatesFit'
  BY <1>1 DEF Agent!AgentInv, Agent!LockFits, Agent!DaemonFits, Agent!RunsForItsIdentity,
     Agent!UpdatesFit, CommandTurns, Agent!Quiet
<1>6. \A d \in Requests : Agent!CommandFits(d)'
  BY <1>1, <1>2 DEF Agent!AgentInv, Agent!CommandFits, CommandTurns
<1> QED BY <1>3, <1>4, <1>5, <1>6 DEF Agent!AgentInv

\* The old configuration is copied.
LEMMA CopyKeeps ==
    ASSUME Agent!AgentAssumption, Agent!AgentInv, NEW c \in Requests, Agent!Copy(c)
    PROVE  Agent!AgentInv'
<1>1. PICK x \in CommandStates : CommandTurns(c, x) /\ x.op = caller[c].op /\ x.at = "sync"
  BY CommandGoesOn DEF Agent!AgentInv, Agent!Stages, Agent!Copy
<1>2. /\ caller[c].at = "copy" /\ lastId' = lastId + 1 /\ lastId < MaxId
      /\ UNCHANGED <<durable, holder, server, memory, conn, lastToken, unpaired>>
  BY DEF Agent!Copy
<1>3. /\ lastId \in 0..MaxId /\ lastToken \in 0..MaxTokens /\ unpaired \in 0..lastId
      /\ MaxId \in Nat /\ MaxTokens \in Nat
  BY AgentTypes DEF Agent!AgentInv, Agent!AgentAssumption
<1>n. PICK n \in Nat : n = lastId + 1
  BY <1>3
<1>4. PICK r \in BOOLEAN, p \in BOOLEAN :
        file' = [Agent!Empty EXCEPT !.id = n, !.keys = TRUE, !.paired = p, !.revoked = r]
  BY <1>n DEF Agent!Copy
<1>5. file' = [id |-> n, keys |-> TRUE, paired |-> p, revoked |-> r, token |-> 0]
  BY <1>4 DEF Agent!Empty
<1>6. file' \in Agent!Configurations /\ file'.id = n /\ file'.token = 0
  BY <1>5 DEF Agent!Configurations
<1>7. /\ file'.id \in 0..lastId' /\ file'.token \in 0..lastToken' /\ file'.id # unpaired
      /\ lastId' \in 0..MaxId /\ lastToken' \in 0..MaxTokens /\ lastId' >= lastId /\ lastToken' >= lastToken
  BY <1>2, <1>3, <1>n, <1>6
<1>8. caller[c].op # "unpair"
  BY <1>2 DEF Agent!AgentInv, Agent!CommandFits
<1> QED BY <1>1, <1>2, <1>6, <1>7, <1>8, CommandWrites

\* A command changes the file.
LEMMA CommandChanges ==
    ASSUME Agent!AgentAssumption, Agent!AgentInv, NEW c \in Requests, Agent!Change(c)
    PROVE  Agent!AgentInv'
<1>0. PICK op : op = caller[c].op
  OBVIOUS
<1>1. PICK x \in CommandStates : CommandTurns(c, x) /\ x.op = op /\ x.at = "sync"
  BY <1>0, CommandGoesOn DEF Agent!AgentInv, Agent!Stages, Agent!Change
<1>2. /\ caller[c].at = "change" /\ Agent!Saves(op, 0)
      /\ UNCHANGED <<durable, holder, server, memory, conn, unpaired>>
  BY <1>0 DEF Agent!Change
<1>3. op \in {"setup", "init", "pair", "unpair"}
  BY <1>0, <1>2 DEF Agent!AgentInv, Agent!CommandFits, Agent!Ops
<1>4. /\ file' \in Agent!Configurations /\ file'.id \in 0..lastId' /\ file'.token \in 0..lastToken'
      /\ lastId' \in 0..MaxId /\ lastToken' \in 0..MaxTokens /\ lastId' >= lastId /\ lastToken' >= lastToken
      /\ op = "unpair" => file'.revoked
  BY <1>2, <1>3, SavesFit
<1>5. unpaired # 0 /\ file'.id = unpaired => file'.revoked
  <2>1. unpaired \in 0..lastId /\ lastId \in Nat
    BY AgentTypes DEF Agent!AgentInv
  <2>2. file # None /\ unpaired # 0 /\ file.id = unpaired => file.revoked
    BY DEF Agent!AgentInv, Agent!RevokedStays
  <2>3. CASE op \in {"setup", "init"}
    BY <1>2, <2>1, <2>3, SavesFit
  <2>4. CASE op \in {"pair", "unpair"}
    BY <1>2, <2>2, <2>4, SavesFit
  <2> QED BY <1>3, <2>3, <2>4
<1> QED BY <1>0, <1>1, <1>2, <1>4, <1>5, CommandWrites

\* What a command wrote is on the disk, or nobody knows.
LEMMA SyncKeeps ==
    ASSUME Agent!AgentAssumption, Agent!AgentInv, NEW c \in Requests, Agent!Sync(c)
    PROVE  Agent!AgentInv'
<1>1. /\ holder = c /\ server.at = "off" /\ memory = None /\ server.serves = 0 /\ server.update.op = "none"
      /\ \A k \in Conns : conn[k].at = "none"
      /\ \A d \in Requests \ {c} : caller[d].at \notin {"copy", "change", "sync"}
  BY AloneWithTheFile DEF Agent!Sync
<1>2. /\ CommandTurns(c, Agent!Idle) /\ holder' = None /\ UNCHANGED <<file, server, memory, conn, lastId, lastToken>>
      /\ caller[c].at = "sync" /\ durable' \in {file, durable}
      /\ unpaired' = unpaired \/ (file # None /\ file.revoked /\ unpaired' = file.id /\ durable' = file)
  BY CommandIsOver DEF Agent!Sync, Agent!Done, Agent!AgentInv, Agent!CommandFits
<1>3. Agent!AgentTypeOK'
  BY <1>1, <1>2, AgentTypes, NextAgentTypes DEF Agent!AgentInv, FileFits, CommandTurns,
     Agent!AgentAssumption
<1>4. Agent!RevokedStays'
  BY <1>1, <1>2 DEF Agent!AgentInv, Agent!RevokedStays
<1>5. Agent!LockFits' /\ Agent!DaemonFits' /\ Agent!RunsForItsIdentity' /\ Agent!UpdatesFit'
  BY <1>1, <1>2 DEF Agent!AgentInv, Agent!LockFits, Agent!DaemonFits, Agent!RunsForItsIdentity,
     Agent!UpdatesFit, CommandTurns, Agent!Quiet, Agent!TokenFits, Agent!Idle
<1>6. \A d \in Requests : Agent!CommandFits(d)'
  BY <1>1, <1>2 DEF Agent!AgentInv, Agent!CommandFits, CommandTurns, Agent!Idle
<1> QED BY <1>3, <1>4, <1>5, <1>6 DEF Agent!AgentInv

\* The daemon starts, and reads the file.
LEMMA ServeKeeps ==
    ASSUME Agent!AgentAssumption, Agent!AgentInv, Agent!Serve
    PROVE  Agent!AgentInv'
<1>1. /\ holder = None /\ server.at = "off" /\ holder' = "daemon"
      /\ UNCHANGED <<file, durable, memory, caller, conn, lastId, lastToken, unpaired>>
      /\ \A c \in Requests : c # None
  BY DEF Agent!Serve, Agent!AgentAssumption
<1>2. /\ server' \in Servers /\ server'.at = "starting" /\ server'.serves = server.serves
      /\ server'.update = server.update
  BY AgentTypes DEF Agent!Serve, Agent!AgentInv, Servers
<1>3. Agent!AgentTypeOK'
  BY <1>1, <1>2, AgentTypes, NextAgentTypes DEF Agent!AgentInv, FileFits
<1>4. /\ Agent!LockFits' /\ Agent!DaemonFits' /\ Agent!RunsForItsIdentity' /\ Agent!UpdatesFit'
      /\ Agent!RevokedStays'
  BY <1>1, <1>2 DEF Agent!AgentInv, Agent!LockFits, Agent!DaemonFits, Agent!RunsForItsIdentity,
     Agent!UpdatesFit, Agent!TokenFits, Agent!RevokedStays, Agent!Quiet
<1>5. \A c \in Requests : Agent!CommandFits(c)'
  BY <1>1 DEF Agent!AgentInv, Agent!CommandFits
<1> QED BY <1>3, <1>4, <1>5 DEF Agent!AgentInv

\* The daemon has loaded the file and serves its identity, or none.
LEMMA UpKeeps ==
    ASSUME Agent!AgentAssumption, Agent!AgentInv, Agent!Up
    PROVE  Agent!AgentInv'
<1>0. PICK serves : serves = IF Agent!Loads(file) /\ file.keys /\ ~ file.revoked THEN file.id ELSE 0
  OBVIOUS
<1>1. /\ server.at = "starting" /\ memory' \in {file, None}
      /\ UNCHANGED <<file, durable, holder, caller, conn, lastId, lastToken, unpaired>>
      /\ server' = [server EXCEPT !.at = "up", !.serves = serves]
  BY <1>0 DEF Agent!Up
<1>2. serves \in Nat /\ (serves # 0 => file # None /\ file.id = serves)
  BY <1>0, AgentTypes DEF Agent!AgentInv, FileFits, Agent!Configurations, Agent!Loads
<1>3. server' \in Servers /\ server'.at = "up" /\ server'.serves = serves /\ server'.update = server.update
  BY <1>1, <1>2, AgentTypes DEF Agent!AgentInv, Servers
<1>4. Agent!AgentTypeOK'
  BY <1>1, <1>3, AgentTypes, NextAgentTypes DEF Agent!AgentInv, FileFits
<1>5. Agent!RevokedStays'
  BY <1>1 DEF Agent!AgentInv, Agent!RevokedStays
<1>6. \A k \in Conns : conn[k].at = "none"
  BY <1>1 DEF Agent!AgentInv, Agent!DaemonFits
<1>7. Agent!LockFits' /\ Agent!DaemonFits' /\ Agent!RunsForItsIdentity' /\ Agent!UpdatesFit'
  BY <1>1, <1>2, <1>3, <1>6 DEF Agent!AgentInv, Agent!LockFits, Agent!DaemonFits,
     Agent!RunsForItsIdentity, Agent!UpdatesFit, Agent!TokenFits, Agent!Quiet
<1>8. \A c \in Requests : Agent!CommandFits(c)'
  BY <1>1 DEF Agent!AgentInv, Agent!CommandFits
<1> QED BY <1>4, <1>5, <1>7, <1>8 DEF Agent!AgentInv

\* While the daemon runs no command writes the file.
LEMMA DaemonWrites ==
    ASSUME Agent!AgentAssumption, Agent!AgentInv, server.at # "off"
    PROVE  \A c \in Requests : caller[c].at \notin {"copy", "change", "sync"}
BY DEF Agent!AgentInv, Agent!LockFits, Agent!AgentAssumption

\* The daemon changes the file for a command or a connection.
LEMMA DaemonChangeKeeps ==
    ASSUME Agent!AgentAssumption, Agent!AgentInv, Agent!DaemonChange
    PROVE  Agent!AgentInv'
<1>0. PICK u : u = server.update
  OBVIOUS
<1>1. /\ u.op # "none" /\ ~ u.saved /\ Agent!Saves(u.op, u.token)
      /\ server' = [server EXCEPT !.update.saved = TRUE]
      /\ UNCHANGED <<durable, holder, memory, caller, conn, unpaired>>
  BY <1>0 DEF Agent!DaemonChange
<1>2. u \in Updates /\ u.op \in {"pair", "unpair", "confirm"} /\ (u.op = "confirm" => Agent!TokenFits(u.token))
      /\ server.at # "off"
  BY <1>0, <1>1, AgentTypes DEF Agent!AgentInv, Servers, Updates, Agent!UpdatesFit, Agent!DaemonFits,
     Agent!Quiet
<1>3. PICK w : w = [u EXCEPT !.saved = TRUE]
  OBVIOUS
<1>4. w \in Updates /\ w.op = u.op /\ w.token = u.token /\ w.saved
  BY <1>2, <1>3 DEF Updates
<1>5. server' \in Servers /\ server'.at = server.at /\ server'.serves = server.serves /\ server'.update = w
  <2>1. server' = [server EXCEPT !.update = w]
    BY <1>0, <1>1, <1>3
  <2> QED BY <1>4, <2>1, AgentTypes DEF Agent!AgentInv, Servers
<1>6. /\ file' \in Agent!Configurations /\ file'.id \in 0..lastId' /\ file'.token \in 0..lastToken'
      /\ lastToken' \in 0..MaxTokens /\ lastToken' >= lastToken /\ lastId' = lastId
      /\ file # None => file'.id = file.id
      /\ u.op = "confirm" => file # None /\ ~ file.revoked /\ ~ file'.revoked
      /\ u.op = "pair" => file'.token = lastToken + 1 /\ lastToken' = lastToken + 1
      /\ u.op = "pair" /\ file = None => ~ file'.revoked
      /\ u.op = "pair" /\ file # None => (file'.revoked <=> file.revoked)
      /\ u.op = "unpair" => file'.revoked /\ file'.token = 0
      /\ u.op = "unpair" /\ file = None => file'.id = 0
      /\ u.op = "pair" /\ file = None => file'.id = 0
  BY <1>1, <1>2, SavesFit
<1>7. file' # None /\ lastToken \in Nat
  BY <1>6, AgentTypes DEF Agent!AgentAssumption, Agent!AgentInv
<1>8. Agent!AgentTypeOK'
  <2>1. FileFits(file)' /\ FileFits(durable)' /\ FileFits(memory)'
    <3>1. /\ FileFits(durable) /\ FileFits(memory) /\ lastToken \in 0..MaxTokens /\ MaxTokens \in Nat
      BY AgentTypes DEF Agent!AgentInv, Agent!AgentAssumption
    <3> QED BY <1>1, <1>6, <3>1 DEF FileFits
  <2> QED BY <1>1, <1>5, <1>6, <2>1, AgentTypes, NextAgentTypes DEF Agent!AgentInv
<1>9. Agent!RevokedStays'
  <2>1. unpaired # 0 /\ file'.id = unpaired => file'.revoked
    BY <1>2, <1>6 DEF Agent!AgentInv, Agent!RevokedStays
  <2> QED BY <1>1, <2>1 DEF Agent!AgentInv, Agent!RevokedStays
<1>10. \A c \in Requests : Agent!CommandFits(c)'
  BY <1>1, <1>2, DaemonWrites DEF Agent!AgentInv, Agent!CommandFits
<1>11. Agent!DaemonFits' /\ Agent!RunsForItsIdentity'
  BY <1>1, <1>2, <1>0, <1>5, <1>6, <1>7 DEF Agent!AgentInv, Agent!DaemonFits, Agent!RunsForItsIdentity,
     Agent!Quiet
<1>12. Agent!LockFits'
  BY <1>1, <1>5 DEF Agent!AgentInv, Agent!LockFits
<1>13. \A t : Agent!TokenFits(t) => t \in 1..lastToken' /\ (file'.revoked => t # file'.token)
  BY <1>2, <1>6, <1>7 DEF Agent!TokenFits
<1>14. Agent!UpdatesFit'
  BY <1>0, <1>1, <1>4, <1>5, <1>6, <1>7, <1>13 DEF Agent!AgentInv, Agent!UpdatesFit, Agent!TokenFits
<1> QED BY <1>8, <1>9, <1>10, <1>11, <1>12, <1>14 DEF Agent!AgentInv

\* Whoever asked the daemon gets the answer, and asks no more.
LEMMA AnsweredConns ==
    ASSUME Agent!AgentAssumption, Agent!AgentInv, NEW by, Agent!Answered(by)
    PROVE  /\ server' \in Servers /\ server'.at = server.at /\ server'.serves = server.serves /\ server'.update = Agent!Quiet
           /\ caller' \in [Requests -> CommandStates]
           /\ \A c \in Requests : caller'[c] = caller[c] \/ caller'[c].at = "idle"
           /\ conn' \in [Conns -> Connected]
           /\ \A k \in Conns : /\ conn'[k].id = conn[k].id /\ (conn'[k].at = "none" <=> conn[k].at = "none")
                              /\ (conn'[k].at = "runs" => conn[k].at = "runs")
                              /\ (conn'[k].at = "confirm" => conn'[k] = conn[k])
<1>1. /\ server' \in Servers /\ server'.at = server.at /\ server'.serves = server.serves
      /\ server'.update = Agent!Quiet
  <2>1. Agent!Quiet \in Updates
    BY DEF Agent!Quiet, Updates, Agent!AgentAssumption
  <2> QED BY <2>1, AgentTypes DEF Agent!Answered, Agent!AgentInv, Servers
<1>2. Agent!Idle \in CommandStates /\ Agent!Idle.at = "idle"
  BY DEF Agent!Idle, CommandStates, Agent!Stages
<1>3. /\ caller' \in [Requests -> CommandStates]
      /\ \A c \in Requests : caller'[c] = caller[c] \/ caller'[c].at = "idle"
  BY <1>2, AgentTypes DEF Agent!Answered, Agent!AgentInv
<1>4. ASSUME NEW k \in Conns
      PROVE  /\ conn'[k] \in Connected /\ conn'[k].id = conn[k].id /\ (conn'[k].at = "none" <=> conn[k].at = "none")
             /\ (conn'[k].at = "runs" => conn[k].at = "runs")
             /\ (conn'[k].at = "confirm" => conn'[k] = conn[k])
  <2>1. PICK x : x = [conn[k] EXCEPT !.at = "open", !.token = 0]
    OBVIOUS
  <2>2. conn[k] \in Connected /\ 0 \in 0..MaxTokens
    BY AgentTypes DEF Agent!AgentInv, Agent!AgentAssumption
  <2>3. x \in Connected /\ x.id = conn[k].id /\ x.at = "open"
    BY <2>1, <2>2 DEF Connected
  <2>4. conn'[k] = conn[k] \/ (conn'[k] = x /\ conn[k].at = "confirm")
    BY <2>1 DEF Agent!Answered
  <2> QED BY <2>2, <2>3, <2>4
<1>5. conn' \in [Conns -> Connected]
  <2>1. DOMAIN conn' = Conns /\ conn' = [k \in Conns |-> conn'[k]]
    BY DEF Agent!Answered
  <2> QED BY <1>4, <2>1
<1> QED BY <1>1, <1>3, <1>4, <1>5

\* An answer leaves the file as it is; what is on the disk, in memory and
\* reported may follow it.
LEMMA ConnAnswers ==
    ASSUME Agent!AgentAssumption, Agent!AgentInv, Agent!DaemonRefuses \/ Agent!DaemonSync
    PROVE  Agent!AgentInv'
<1>0. PICK u : u = server.update
  OBVIOUS
<1>1. /\ (u.op # "none" \/ u.saved) /\ Agent!Answered(u.by) /\ UNCHANGED <<file, holder, lastId, lastToken>>
      /\ memory' \in {file, memory} /\ durable' \in {file, durable}
      /\ \/ unpaired' = unpaired
         \/ u.op = "unpair" /\ u.saved /\ unpaired' = file.id /\ durable' = file /\ memory' = file
  BY <1>0 DEF Agent!DaemonRefuses, Agent!DaemonSync, Agent!Done
<1>2. server.at = "up" /\ Agent!Answered(u.by)
  BY <1>0 DEF Agent!DaemonRefuses, Agent!DaemonSync, Agent!AgentInv, Agent!DaemonFits, Agent!Quiet
<1>3. /\ server' \in Servers /\ server'.at = server.at /\ server'.serves = server.serves /\ server'.update = Agent!Quiet
      /\ caller' \in [Requests -> CommandStates]
      /\ \A c \in Requests : caller'[c] = caller[c] \/ caller'[c].at = "idle"
      /\ conn' \in [Conns -> Connected]
      /\ \A k \in Conns : /\ conn'[k].id = conn[k].id /\ (conn'[k].at = "none" <=> conn[k].at = "none")
                         /\ (conn'[k].at = "runs" => conn[k].at = "runs")
                         /\ (conn'[k].at = "confirm" => conn'[k] = conn[k])
  BY <1>2, AnsweredConns
<1>4. /\ UNCHANGED <<file, holder, lastId, lastToken>> /\ memory' \in {file, memory}
      /\ durable' \in {file, durable}
  BY DEF Agent!DaemonRefuses, Agent!DaemonSync
<1>5. unpaired' = unpaired \/ (file # None /\ file.revoked /\ unpaired' = file.id /\ durable' = file /\ memory' = file)
  BY <1>0, <1>1 DEF Agent!AgentInv, Agent!UpdatesFit, Agent!DaemonRefuses
<1>6. Agent!AgentTypeOK'
  <2>1. FileFits(file) /\ unpaired \in 0..lastId
    BY AgentTypes DEF Agent!AgentInv
  <2>2. unpaired' \in 0..lastId'
    BY <1>4, <1>5, <2>1 DEF FileFits
  <2> QED BY <1>3, <1>4, <2>2, AgentTypes, NextAgentTypes DEF Agent!AgentInv, FileFits
<1>7. Agent!RevokedStays'
  BY <1>4, <1>5 DEF Agent!AgentInv, Agent!RevokedStays
<1>8. Agent!LockFits'
  BY <1>3, <1>4 DEF Agent!AgentInv, Agent!LockFits
<1>9. Agent!DaemonFits' /\ Agent!RunsForItsIdentity'
  BY <1>2, <1>3, <1>4 DEF Agent!AgentInv, Agent!DaemonFits, Agent!RunsForItsIdentity
<1>10. Agent!UpdatesFit'
  BY <1>3, <1>4 DEF Agent!AgentInv, Agent!UpdatesFit, Agent!TokenFits, Agent!Quiet
<1>11. \A c \in Requests : Agent!CommandFits(c)'
  BY <1>3, <1>4 DEF Agent!AgentInv, Agent!CommandFits
<1> QED BY <1>6, <1>7, <1>8, <1>9, <1>10, <1>11 DEF Agent!AgentInv

\* The daemon ends, or the power does.
LEMMA ConnEnds ==
    ASSUME Agent!AgentAssumption, Agent!AgentInv, Agent!DaemonStops \/ Agent!PowerFails
    PROVE  Agent!AgentInv'
<1>1. /\ server' = [at |-> "off", serves |-> 0, update |-> Agent!Quiet] /\ memory' = None /\ holder' = None
      /\ conn' = [k \in Conns |-> Agent!Closed] /\ UNCHANGED <<durable, lastId, lastToken, unpaired>>
  BY DEF Agent!DaemonStops, Agent!PowerFails, Agent!DaemonGone
<1>2. server' \in Servers /\ server'.at = "off" /\ server'.serves = 0 /\ server'.update = Agent!Quiet
  <2>1. Agent!Quiet \in Updates
    BY DEF Agent!Quiet, Updates, Agent!AgentAssumption
  <2> QED BY <1>1, <2>1 DEF Servers
<1>3. conn' \in [Conns -> Connected] /\ \A k \in Conns : conn'[k].at = "none"
  <2>1. Agent!Closed \in Connected /\ Agent!Closed.at = "none"
    BY DEF Agent!Closed, Connected, Agent!AgentAssumption
  <2> QED BY <1>1, <2>1
<1>4. Agent!Idle \in CommandStates /\ Agent!Idle.at = "idle"
  BY DEF Agent!Idle, CommandStates, Agent!Stages
<1>5. CASE /\ server.at # "off" /\ UNCHANGED file
           /\ caller' = [c \in Requests |-> IF caller[c].at = "asked" THEN Agent!Idle ELSE caller[c]]
  <2>1. caller' \in [Requests -> CommandStates] /\ \A c \in Requests : caller'[c] = caller[c] \/ caller'[c].at = "idle"
    BY <1>4, <1>5, AgentTypes DEF Agent!AgentInv
  <2>2. Agent!AgentTypeOK'
    BY <1>1, <1>2, <1>3, <1>5, <2>1, AgentTypes, NextAgentTypes DEF Agent!AgentInv, FileFits
  <2>3. /\ Agent!LockFits' /\ Agent!DaemonFits' /\ Agent!RunsForItsIdentity'
        /\ Agent!UpdatesFit' /\ Agent!RevokedStays'
    BY <1>1, <1>2, <1>3, <1>5, <2>1, DaemonWrites
       DEF Agent!AgentInv, Agent!LockFits, Agent!DaemonFits, Agent!RunsForItsIdentity,
       Agent!UpdatesFit, Agent!RevokedStays, Agent!Quiet
  <2>4. \A c \in Requests : Agent!CommandFits(c)'
    BY <1>5, <2>1 DEF Agent!AgentInv, Agent!CommandFits
  <2> QED BY <2>2, <2>3, <2>4 DEF Agent!AgentInv
<1>6. CASE file' = durable /\ caller' = [c \in Requests |-> Agent!Idle]
  <2>1. caller' \in [Requests -> CommandStates] /\ \A c \in Requests : caller'[c].at = "idle"
    BY <1>4, <1>6
  <2>2. Agent!AgentTypeOK'
    BY <1>1, <1>2, <1>3, <1>6, <2>1, AgentTypes, NextAgentTypes DEF Agent!AgentInv, FileFits
  <2>3. /\ Agent!LockFits' /\ Agent!DaemonFits' /\ Agent!RunsForItsIdentity'
        /\ Agent!UpdatesFit' /\ Agent!RevokedStays'
    BY <1>1, <1>2, <1>3, <1>6, <2>1
       DEF Agent!AgentInv, Agent!LockFits, Agent!DaemonFits, Agent!RunsForItsIdentity,
       Agent!UpdatesFit, Agent!RevokedStays, Agent!Quiet
  <2>4. \A c \in Requests : Agent!CommandFits(c)'
    BY <2>1 DEF Agent!CommandFits
  <2> QED BY <2>2, <2>3, <2>4 DEF Agent!AgentInv
<1> QED BY <1>5, <1>6 DEF Agent!DaemonStops, Agent!PowerFails

\* A connection is made, asked or closed.
LEMMA ConnStepKeeps ==
    ASSUME Agent!AgentAssumption, Agent!AgentInv, NEW k \in Conns, NEW x \in Connected,
           conn' = [conn EXCEPT ![k] = x],
           x.at # "none" => x.id = server.serves /\ server.serves # 0,
           x.at = "confirm" => Agent!TokenFits(x.token),
           UNCHANGED <<file, durable, holder, server, memory, caller, lastId, lastToken, unpaired>>
    PROVE  Agent!AgentInv'
<1>1. conn' \in [Conns -> Connected] /\ conn'[k] = x /\ \A j \in Conns \ {k} : conn'[j] = conn[j]
  BY AgentTypes DEF Agent!AgentInv
<1>2. Agent!AgentTypeOK'
  BY <1>1, AgentTypes, NextAgentTypes DEF Agent!AgentInv, FileFits
<1>3. Agent!LockFits' /\ Agent!RevokedStays' /\ \A c \in Requests : Agent!CommandFits(c)'
  BY DEF Agent!AgentInv, Agent!LockFits, Agent!RevokedStays, Agent!CommandFits
<1>4. Agent!DaemonFits' /\ Agent!RunsForItsIdentity'
  BY <1>1 DEF Agent!AgentInv, Agent!DaemonFits, Agent!RunsForItsIdentity, Agent!Quiet
<1>5. Agent!UpdatesFit'
  BY <1>1 DEF Agent!AgentInv, Agent!UpdatesFit, Agent!TokenFits
<1> QED BY <1>2, <1>3, <1>4, <1>5 DEF Agent!AgentInv

\* A connection is made, runs a command, confirms a token or ends.
LEMMA ConnKeeps ==
    ASSUME Agent!AgentAssumption, Agent!AgentInv, NEW k \in Conns,
           Agent!Connect(k) \/ Agent!Run(k) \/ Agent!Ran(k) \/ Agent!Confirm(k) \/ Agent!Hangup(k)
    PROVE  Agent!AgentInv'
<1>1. /\ conn[k] \in Connected /\ conn \in [Conns -> Connected] /\ lastToken \in 0..MaxTokens /\ MaxTokens \in Nat
      /\ lastId \in 0..MaxId /\ FileFits(file) /\ MaxId \in Nat
  BY AgentTypes DEF Agent!AgentInv, Agent!AgentAssumption
<1>2. UNCHANGED <<file, durable, holder, server, memory, caller, lastId, lastToken, unpaired>>
  BY DEF Agent!Connect, Agent!Run, Agent!Ran, Agent!Confirm, Agent!Hangup
<1>3. CASE Agent!Connect(k)
  <2>1. PICK x : x = [at |-> "open", id |-> server.serves, paired |-> file.paired, token |-> 0]
    OBVIOUS
  <2>2. server.serves \in 0..MaxId /\ file.paired \in BOOLEAN /\ server.serves # 0
    <3>1. server.serves # 0 /\ Agent!Loads(file)
      BY <1>3 DEF Agent!Connect
    <3>2. file \in Agent!Configurations /\ file.id \in 0..lastId /\ file.id = server.serves
      BY <1>1, <3>1 DEF FileFits, Agent!Loads, Agent!AgentInv, Agent!DaemonFits
    <3> QED BY <1>1, <3>1, <3>2 DEF Agent!Configurations
  <2>3. x \in Connected /\ x.at = "open" /\ x.id = server.serves
    BY <1>1, <2>1, <2>2 DEF Connected
  <2>4. conn' = [conn EXCEPT ![k] = x]
    BY <1>3, <2>1 DEF Agent!Connect
  <2> QED BY <1>2, <2>2, <2>3, <2>4, ConnStepKeeps
<1>4. ASSUME NEW at \in {"open", "runs"}, conn[k].at # "none", conn' = [conn EXCEPT ![k].at = at]
      PROVE  Agent!AgentInv'
  <2>1. PICK x : x = [conn[k] EXCEPT !.at = at]
    OBVIOUS
  <2>2. x \in Connected /\ x.at = at /\ x.id = conn[k].id
    BY <1>1, <2>1 DEF Connected
  <2>3. conn' = [conn EXCEPT ![k] = x]
    BY <1>4, <2>1
  <2>4. x.id = server.serves /\ server.serves # 0
    BY <1>4, <2>2 DEF Agent!AgentInv, Agent!DaemonFits
  <2>5. x.at # "confirm"
    BY <1>4, <2>2
  <2> QED BY <1>2, <2>2, <2>3, <2>4, <2>5, ConnStepKeeps
<1>5. CASE Agent!Run(k) \/ Agent!Ran(k)
  BY <1>4, <1>5 DEF Agent!Run, Agent!Ran
<1>6. CASE Agent!Confirm(k)
  <2>1. PICK t \in 1..lastToken : conn' = [conn EXCEPT ![k].at = "confirm", ![k].token = t]
    BY <1>6 DEF Agent!Confirm
  <2>2. PICK x : x = [conn[k] EXCEPT !.at = "confirm", !.token = t]
    OBVIOUS
  <2>3. t \in 0..MaxTokens
    BY <1>1
  <2>4. x \in Connected /\ x.at = "confirm" /\ x.id = conn[k].id /\ x.token = t
    BY <1>1, <2>2, <2>3 DEF Connected
  <2>5. conn' = [conn EXCEPT ![k] = x]
    BY <1>1, <2>1, <2>2
  <2>6. Agent!TokenFits(x.token)
    BY <1>6, <2>4 DEF Agent!Confirm, Agent!TokenFits
  <2>7. conn[k].id = server.serves /\ server.serves # 0
    BY <1>6 DEF Agent!AgentInv, Agent!DaemonFits, Agent!Confirm
  <2>8. x.id = server.serves
    BY <2>4, <2>5, <2>7
  <2> QED BY <1>2, <2>4, <2>5, <2>6, <2>7, <2>8, ConnStepKeeps
<1>7. CASE Agent!Hangup(k)
  <2>1. Agent!Closed \in Connected /\ Agent!Closed.at = "none"
    BY DEF Agent!Closed, Connected, Agent!AgentAssumption
  <2> QED BY <1>2, <1>7, <2>1, ConnStepKeeps DEF Agent!Hangup
<1> QED BY <1>3, <1>5, <1>6, <1>7

\* The daemon takes up a confirmation.
LEMMA ConfirmStartsKeeps ==
    ASSUME Agent!AgentAssumption, Agent!AgentInv, NEW k \in Conns, Agent!ConfirmStarts(k)
    PROVE  Agent!AgentInv'
<1>1. PICK u : u = [Agent!Quiet EXCEPT !.by = k, !.op = "confirm", !.token = conn[k].token]
  OBVIOUS
<1>2. /\ conn[k].at = "confirm" /\ server' = [server EXCEPT !.update = u]
      /\ UNCHANGED <<file, durable, holder, memory, caller, conn, lastId, lastToken, unpaired>>
  BY <1>1 DEF Agent!ConfirmStarts
<1>3. conn[k].token \in 0..MaxTokens
  BY AgentTypes DEF Agent!AgentInv, Connected
<1>4. u \in Updates /\ u.op = "confirm" /\ u.token = conn[k].token
  <2>1. u = [by |-> k, op |-> "confirm", token |-> conn[k].token, saved |-> FALSE]
    BY <1>1 DEF Agent!Quiet
  <2> QED BY <1>3, <2>1 DEF Updates
<1>5. server' \in Servers /\ server'.at = server.at /\ server'.serves = server.serves /\ server'.update = u
  BY <1>2, <1>4, AgentTypes DEF Agent!AgentInv, Servers
<1>6. Agent!AgentTypeOK'
  BY <1>2, <1>5, AgentTypes, NextAgentTypes DEF Agent!AgentInv, FileFits
<1>7. Agent!LockFits' /\ Agent!RevokedStays' /\ \A c \in Requests : Agent!CommandFits(c)'
  BY <1>2, <1>5 DEF Agent!AgentInv, Agent!LockFits, Agent!RevokedStays, Agent!CommandFits
<1>8. server.at = "up"
  BY <1>2 DEF Agent!AgentInv, Agent!DaemonFits
<1>9. Agent!DaemonFits' /\ Agent!RunsForItsIdentity'
  BY <1>2, <1>5, <1>8 DEF Agent!AgentInv, Agent!DaemonFits, Agent!RunsForItsIdentity
<1>10. Agent!UpdatesFit'
  BY <1>2, <1>4, <1>5 DEF Agent!AgentInv, Agent!UpdatesFit, Agent!TokenFits
<1> QED BY <1>6, <1>7, <1>9, <1>10 DEF Agent!AgentInv

\* The agent begins without a file.
LEMMA AgentBegins ==
    ASSUME Agent!AgentAssumption, Agent!AgentInit
    PROVE  Agent!AgentInv
<1>1. /\ Agent!Idle \in CommandStates /\ Agent!Idle.at = "idle" /\ Agent!Closed \in Connected
      /\ Agent!Closed.at = "none" /\ Agent!Quiet \in Updates
  BY DEF Agent!Idle, CommandStates, Agent!Stages, Agent!Closed, Connected, Agent!Quiet, Updates,
     Agent!AgentAssumption
<1>2. server \in Servers /\ server.at = "off" /\ server.serves = 0 /\ server.update = Agent!Quiet
  BY <1>1 DEF Agent!AgentInit, Servers
<1>3. Agent!AgentTypeOK
  BY <1>1, <1>2, AgentTypes DEF Agent!AgentInit, FileFits, Agent!AgentAssumption
<1> QED
  BY <1>1, <1>2, <1>3 DEF Agent!AgentInit, Agent!AgentInv, Agent!RevokedStays,
     Agent!RunsForItsIdentity, Agent!LockFits, Agent!DaemonFits, Agent!UpdatesFit,
     Agent!CommandFits, Agent!Quiet

\* One lemma for each action.
LEMMA AgentStep ==
    ASSUME Agent!AgentAssumption, Agent!AgentInv, [Agent!AgentNext]_(Agent!agentVars)
    PROVE  Agent!AgentInv'
<1>1. CASE UNCHANGED Agent!agentVars
  <2>1. Agent!AgentTypeOK'
    BY <1>1, AgentTypes, NextAgentTypes DEF Agent!agentVars, Agent!AgentInv, FileFits
  <2> QED
    BY <1>1, <2>1 DEF Agent!agentVars, Agent!AgentInv, Agent!RevokedStays, Agent!RunsForItsIdentity,
       Agent!LockFits, Agent!DaemonFits, Agent!UpdatesFit,
       Agent!CommandFits, Agent!TokenFits, Agent!Quiet
<1>2. CASE Agent!AgentNext
  BY <1>2, CommandBegins, LookKeeps, MigrateKeeps, CopyKeeps, LeaveKeeps, LockStepKeeps, CommandAsks,
     CommandChanges,
     SyncKeeps, ServeKeeps, UpKeeps, DaemonChangeKeeps, ConnAnswers, ConnEnds, ConnKeeps, ConfirmStartsKeeps
     DEF Agent!AgentNext, Agent!Watch
<1> QED BY <1>1, <1>2

\* What IdentityIsKept says of a step.
IdentityStep ==
    Agent!Loads(file) /\ Agent!Loads(file') /\ file'.id # file.id =>
        \/ \E c \in Requests : caller[c].op = "init" /\ caller[c].at = "change"
        \/ file' = durable

\* Who changes the file keeps its identity, init excepted.
LEMMA OnlyInitReplaces ==
    ASSUME Agent!AgentAssumption, Agent!AgentInv, [Agent!AgentNext]_(Agent!agentVars)
    PROVE  IdentityStep
<1>1. ASSUME file' = file PROVE IdentityStep
  BY <1>1 DEF IdentityStep
<1>2. ASSUME NEW c \in Requests, Agent!Copy(c) PROVE IdentityStep
  BY <1>2 DEF Agent!Copy, Agent!AgentInv, Agent!CommandFits, IdentityStep, Agent!Loads
<1>3. ASSUME NEW c \in Requests, Agent!Change(c) PROVE IdentityStep
  <2>0. PICK op : op = caller[c].op
    OBVIOUS
  <2>1. caller[c].at = "change" /\ Agent!Saves(op, 0) /\ op \in {"setup", "init", "pair", "unpair"}
    BY <1>3, <2>0 DEF Agent!Change, Agent!AgentInv, Agent!CommandFits, Agent!Ops
  <2>2. /\ op = "setup" => file = None
        /\ op \in {"pair", "unpair"} => (file # None => file'.id = file.id)
    BY <2>1, SavesFit
  <2> QED BY <2>0, <2>1, <2>2 DEF IdentityStep, Agent!Loads
<1>4. ASSUME Agent!DaemonChange PROVE IdentityStep
  <2>0. PICK u : u = server.update
    OBVIOUS
  <2>1. u.op # "none" /\ ~ u.saved /\ Agent!Saves(u.op, u.token)
    BY <1>4, <2>0 DEF Agent!DaemonChange
  <2>2. u.op \in {"pair", "unpair", "confirm"} /\ (u.op = "confirm" => Agent!TokenFits(u.token))
    BY <2>0, <2>1, AgentTypes DEF Agent!AgentInv, Servers, Updates, Agent!UpdatesFit
  <2>3. file # None => file'.id = file.id
    BY <2>1, <2>2, SavesFit
  <2> QED BY <2>3 DEF IdentityStep, Agent!Loads
<1>5. CASE Agent!PowerFails
  BY <1>5 DEF Agent!PowerFails, IdentityStep
<1>6. CASE UNCHANGED Agent!agentVars
  BY <1>1, <1>6 DEF Agent!agentVars
<1>7. ASSUME NEW c \in Requests,
             Agent!Begin(c) \/ Agent!Look(c) \/ Agent!Migrate(c) \/ Agent!NothingToCopy(c) \/ Agent!MigrationRefused(c) \/ Agent!Ask(c) \/ Agent!Lock(c)
             \/ Agent!LockTimesOut(c) \/ Agent!ChangeFails(c) \/ Agent!Sync(c) \/ Agent!Kill(c)
      PROVE  IdentityStep
  BY <1>1, <1>7 DEF Agent!Begin, Agent!Look, Agent!Migrate, Agent!NothingToCopy,
     Agent!MigrationRefused, Agent!Ask, Agent!Lock, Agent!LockTimesOut, Agent!ChangeFails, Agent!Sync,
     Agent!Kill
<1>8. CASE Agent!Serve \/ Agent!Up \/ Agent!DaemonRefuses \/ Agent!DaemonSync \/ Agent!DaemonStops
  BY <1>1, <1>8 DEF Agent!Serve, Agent!Up, Agent!DaemonRefuses, Agent!DaemonSync, Agent!DaemonStops
<1>9. ASSUME NEW k \in Conns,
             Agent!Connect(k) \/ Agent!Run(k) \/ Agent!Ran(k) \/ Agent!Confirm(k) \/ Agent!ConfirmStarts(k) \/ Agent!Hangup(k) \/ Agent!Watch(k)
      PROVE  IdentityStep
  BY <1>1, <1>9 DEF Agent!Connect, Agent!Run, Agent!Ran, Agent!Confirm, Agent!ConfirmStarts,
     Agent!Hangup, Agent!Watch
<1> QED BY <1>2, <1>3, <1>4, <1>5, <1>6, <1>7, <1>8, <1>9 DEF Agent!AgentNext

\* A revocation stays, a connection runs commands only for the identity of the
\* file, and an identity is replaced by init alone (StateStore.Update).
THEOREM AgentInvariance ==
    ASSUME Agent!AgentAssumption
    PROVE  Agent!AgentSpec => []Agent!AgentInv /\ Agent!IdentityIsKept
<1>1. Agent!AgentInit => Agent!AgentInv
  BY AgentBegins
<1>2. Agent!AgentInv /\ [Agent!AgentNext]_(Agent!agentVars) => Agent!AgentInv'
  BY AgentStep
<1>3. Agent!AgentInv /\ [Agent!AgentNext]_(Agent!agentVars) => [IdentityStep]_(Agent!agentVars)
  BY OnlyInitReplaces
<1> QED BY <1>1, <1>2, <1>3, PTL DEF Agent!AgentSpec, Agent!IdentityIsKept, IdentityStep

----------------------------------------------------------------------------
(* The host: what holds of its parts holds of their behaviours together.   *)

\* A step of the host is a step of each part, or leaves it alone; of the parts
\* of a pane's screen HostScreenStep says so.
LEMMA HostStep ==
    [PartsNext]_<<part, vars, serviceVars, agentVars, paneVars>> =>
        /\ [Next]_vars /\ [ServiceNext]_serviceVars
        /\ [Agent!AgentNext]_(Agent!agentVars)
        /\ [Input!InputNext]_(Input!inputVars)
        /\ [Sessions!SessionNext]_(Sessions!sessionVars)
<1>1. UNCHANGED agentVars => UNCHANGED (Agent!agentVars)
  BY DEF agentVars, Agent!agentVars
<1>2. UNCHANGED inputVars => UNCHANGED (Input!inputVars)
  BY DEF inputVars, Input!inputVars, Input!paneVars
<1>3. UNCHANGED startVars => UNCHANGED (Sessions!sessionVars)
  BY DEF startVars, Sessions!sessionVars
<1>4. UNCHANGED paneVars => UNCHANGED inputVars /\ UNCHANGED startVars
  BY DEF paneVars
<1>5. CASE UNCHANGED <<part, vars, serviceVars, agentVars, paneVars>>
  BY <1>1, <1>2, <1>3, <1>4, <1>5
<1>6. CASE ProgramNext /\ UNCHANGED <<part, paneVars>>
  BY <1>1, <1>2, <1>3, <1>4, <1>6 DEF ProgramNext
<1>7. CASE PaneNext /\ UNCHANGED <<part, vars, serviceVars, agentVars>>
  BY <1>1, <1>2, <1>3, <1>7 DEF PaneNext
<1> QED BY <1>5, <1>6, <1>7 DEF PartsNext

\* The specification of the host implies those of its parts.
LEMMA HostHasParts ==
    PartsSpec =>
        /\ Spec /\ ServiceSpec /\ Agent!AgentSpec /\ Reads!ScreenSpec /\ Signal!SignalSpec
        /\ Feed!ScreenFeedSpec /\ Input!InputSpec /\ Sessions!SessionSpec
<1>1. PartsInit =>
        /\ Init /\ ServiceInit /\ Agent!AgentInit /\ Input!InputInit /\ Sessions!SessionInit
  BY DEF PartsInit
<1> QED
  BY <1>1, HostStep, HostHasScreens, PTL DEF PartsSpec, Spec, ServiceSpec, Agent!AgentSpec,
     Input!InputSpec, Sessions!SessionSpec

\* The types of the variables of a pane follow from its invariants.
LEMMA PaneHasTypes ==
    ASSUME RequestsAssumption, InputInv, SessionInv
    PROVE  Input!InputTypeOK /\ Sessions!SessionTypeOK
<1>1. Input!InputTypeOK
  <2>1. /\ {question, asked, shown} \subseteq 0..MaxQuestions /\ opener \in {"answer", "other"}
        /\ prompts \in Seq(PromptEntries) /\ Len(prompts) <= Capacity
        /\ answering \in Requests \cup {Nobody}
        /\ input \in [Requests -> {Input!Idle} \cup Prompts \cup Answers]
        /\ typed \in [Ids -> 0..2] /\ dropped \subseteq Ids /\ astray \subseteq {"drawn", "old"}
    BY DEF InputInv, InputTypes, PaneTypes
  <2>2. \A i \in DOMAIN prompts : prompts[i] \in PromptEntries
    BY <2>1, ElementOfSeq, LenProperties
  <2>3. \A i \in DOMAIN prompts : prompts[i].id \in Ids /\ prompts[i].outcome \in {"running", "sent", "unknown"}
    BY <2>2 DEF PromptEntries
  <2>4. \A r \in Requests : input[r] = Input!Idle \/ input[r] \in Prompts \/ input[r] \in Answers
    BY <2>1
  <2>5. \A r \in Requests : input[r].at \in Input!Steps
    BY <2>4 DEF Input!Idle, Prompts, Answers, Input!Steps
  <2> QED BY <2>1, <2>3, <2>5 DEF Input!InputTypeOK
<1>2. Sessions!SessionTypeOK
  <2>1. /\ starts \in Seq(StartEntries) /\ Len(starts) <= Capacity
        /\ start \in [Requests -> {Sessions!Idle} \cup StartRecords]
        /\ pane \in Seq(Panes) /\ Len(pane) <= MaxPanes /\ forgotten \subseteq Ids
    BY DEF SessionInv, SessionTypes
  <2>2. /\ \A i \in DOMAIN starts : starts[i] \in StartEntries
        /\ \A p \in DOMAIN pane : pane[p] \in Panes /\ Len(pane) \in Nat
    BY <2>1, ElementOfSeq, LenProperties
  <2>3. /\ \A i \in DOMAIN starts : /\ starts[i].id \in Ids /\ starts[i].content \in Contents
                                   /\ starts[i].outcome \in {"running", "replied"}
        /\ \A p \in DOMAIN pane : /\ pane[p].id \in Ids /\ pane[p].content \in Contents
                                 /\ pane[p].cwd \in BOOLEAN /\ pane[p].commands \in 0..2
    BY <2>2 DEF StartEntries, Panes
  <2>4. 0 \in 0..MaxPanes
    BY DEF RequestsAssumption, Sessions!SessionAssumption
  <2>5. \A r \in Requests : start[r] = Sessions!Idle \/ start[r] \in StartRecords
    BY <2>1
  <2>6. \A r \in Requests :
            /\ start[r].at \in {"idle", "begin", "waits", "attach", "open", "create", "shell", "foreground",
                               "verify", "send"}
            /\ start[r].pane \in 0..MaxPanes
    BY <2>4, <2>5 DEF Sessions!Idle, StartRecords
  <2> QED BY <2>1, <2>3, <2>6 DEF Sessions!SessionTypeOK
<1> QED BY <1>1, <1>2

\* The variables of every part of the host have their types, for every value
\* of the constants.
THEOREM HostTypeCorrect == PartsSpec => []PartsTypeOK
<1>1. /\ ServiceAssumption /\ Reads!ScreenAssumption /\ Signal!SignalAssumption
      /\ Feed!FeedAssumption /\ RequestsAssumption /\ Agent!AgentAssumption
  BY PartsAssumption
<1>2. /\ RequestsAssumption
      /\ TypeOK /\ ServiceTypeOK /\ Agent!AgentInv /\ Reads!ReadsInv /\ Signal!SignalInv /\ Feed!FeedInv
      /\ InputInv /\ SessionInv
      => PartsTypeOK
  BY PaneHasTypes DEF PartsTypeOK, Agent!AgentInv, Reads!ReadsInv, Signal!SignalInv, Feed!FeedInv
<1> QED
  BY <1>1, <1>2, HostHasParts, TypeCorrect, ServiceTypeCorrect, AgentInvariance, ReadsInvariance,
     SignalInvariance, FeedInvariance, InputInvariance, SessionInvariance, PTL

\* What was revoked stays revoked, a connection runs commands for the identity
\* of the file alone, and only init replaces an identity, whatever commands,
\* daemon and power do to the file (runLegacyUnpair, StateStore.Update).
THEOREM HostRevokesForGood == PartsSpec => RevocationHolds
<1>1. Agent!AgentAssumption
  BY PartsAssumption
<1>2. Agent!AgentInv' => [part = "agent" => (Agent!RevokedStays /\ Agent!RunsForItsIdentity)']_agentVars
  BY DEF Agent!AgentInv
<1> QED
  BY <1>1, <1>2, HostHasParts, AgentInvariance, PTL DEF RevocationHolds
==============================================================================
