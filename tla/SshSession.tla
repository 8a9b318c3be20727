----------------------------- MODULE SshSession -----------------------------
(***************************************************************************)
(* Sessions on a shared connection to a host: newSession, locateSocket,    *)
(* OpenTerminal, StageImage and sshTerminal of internal/herdr/ssh.go, and  *)
(* openSSHSession of internal/herdr/openssh.go, which runs each session as *)
(* a process of the system's OpenSSH.                                      *)
(*                                                                         *)
(* Three goroutines touch a session: the opener of newSession, the caller, *)
(* and the one that closes the session when the caller's context ends.     *)
(* What they do under the session's mutex is one step here.                *)
(***************************************************************************)
EXTENDS Naturals

CONSTANT Callers   \* callers of newSession, each with a session of its own

VARIABLES
    caller,     \* where each caller stands
    opener,     \* the goroutine of newSession
    closer,     \* the goroutine, or AfterFunc, that waits for the context's end
    ended,      \* callers whose context has ended
    session,    \* openSSHSession
    master      \* the connection that all sessions use is up

sessionVars == <<caller, opener, closer, ended, session, master>>

\* pipes: descriptors that are open.  waiter: who is in cmd.Wait.
NoSession == [pipes |-> FALSE, started |-> FALSE, closed |-> FALSE, done |-> FALSE,
              process |-> "none", waits |-> 0]

CallerSteps == {"idle", "opening", "start", "use", "terminal", "close", "closing", "reap", "waiting", "left"}
CloserSteps == {"off", "armed", "reap", "waiting"}

\* The types of all variables.
SshSessionTypeOK ==
    /\ master \in BOOLEAN /\ ended \subseteq Callers
    /\ \A c \in Callers :
        /\ caller[c] \in CallerSteps /\ opener[c] \in {"off", "opening", "offers"} /\ closer[c] \in CloserSteps
        /\ session[c].process \in {"none", "runs", "killed", "exited", "gone"} /\ session[c].waits \in 0..2

SshSessionInit ==
    /\ caller = [c \in Callers |-> "idle"] /\ opener = [c \in Callers |-> "off"]
    /\ closer = [c \in Callers |-> "off"] /\ ended = {} /\ session = [c \in Callers |-> NoSession]
    /\ master = TRUE

CallerGoes(c, step) == caller' = [caller EXCEPT ![c] = step]
CloserGoes(c, step) == closer' = [closer EXCEPT ![c] = step]

(***************************************************************************)
(* openSSHSession                                                          *)
(***************************************************************************)
MayStart(s) == ~ s.closed /\ ~ s.started

\* Fault: a started session is only waited for.
LeftRunning(s) == s

\* cancel() of the session's context: its process is killed.
Killed(s) == [s EXCEPT !.process = IF @ = "runs" THEN "killed" ELSE @]

\* Fault: the descriptors of a session that never started are forgotten.
ClosedOnly(s) == IF s.started THEN Killed(s) ELSE [Killed(s) EXCEPT !.closed = TRUE]

\* Close, up to the end of its critical section.
Close(s) == IF s.started THEN Killed(s) ELSE [Killed(s) EXCEPT !.closed = TRUE, !.pipes = FALSE]

\* The first one in Wait waits for the process, the others for it.
Claim(s) == [s EXCEPT !.closed = TRUE, !.waits = IF @ = 2 THEN 2 ELSE @ + 1]
Reaped(s) == [s EXCEPT !.process = "gone", !.pipes = FALSE, !.done = TRUE]

(***************************************************************************)
(* newSession                                                              *)
(***************************************************************************)
Ask(c) ==
    /\ master /\ caller[c] = "idle" /\ opener[c] = "off" /\ closer[c] = "off"
    /\ CallerGoes(c, "opening") /\ opener' = [opener EXCEPT ![c] = "opening"]
    /\ session' = [session EXCEPT ![c] = NoSession] /\ ended' = ended \ {c} /\ UNCHANGED <<closer, master>>

Cancel(c) ==
    /\ caller[c] # "idle" /\ c \notin ended /\ ended' = ended \cup {c}
    /\ UNCHANGED <<caller, opener, closer, session, master>>

\* NewSession of the transport answers.
Opened(c) ==
    /\ opener[c] = "opening" /\ master /\ opener' = [opener EXCEPT ![c] = "offers"]
    /\ UNCHANGED <<caller, closer, ended, session, master>>

NotOpened(c) ==
    /\ opener[c] = "opening" /\ opener' = [opener EXCEPT ![c] = "off"]
    /\ (caller[c] = "opening" => CallerGoes(c, "idle")) /\ (caller[c] # "opening" => UNCHANGED caller)
    /\ UNCHANGED <<closer, ended, session, master>>

\* The caller takes the session over the unbuffered channel.
Handed(c) ==
    /\ opener[c] = "offers" /\ caller[c] = "opening"
    /\ opener' = [opener EXCEPT ![c] = "off"] /\ CallerGoes(c, "start") /\ CloserGoes(c, "armed")
    /\ UNCHANGED <<ended, session, master>>

\* The caller leaves: its context has ended.
Leave(c) ==
    /\ caller[c] = "opening" /\ c \in ended /\ CallerGoes(c, "left") /\ UNCHANGED <<opener, closer, ended, session, master>>

\* The opener closes a session that comes late, and only it.
Late(c) ==
    /\ opener[c] = "offers" /\ c \in ended
    /\ opener' = [opener EXCEPT ![c] = "off"] /\ session' = [session EXCEPT ![c] = Close(@)]
    /\ UNCHANGED <<caller, closer, ended, master>>

Gone(c) ==
    /\ caller[c] = "left" /\ opener[c] = "off" /\ closer[c] = "off"
    /\ CallerGoes(c, "idle") /\ UNCHANGED <<opener, closer, ended, session, master>>

(***************************************************************************)
(* The caller                                                              *)
(***************************************************************************)
\* StdinPipe, StdoutPipe and StderrPipe.
MakePipes(c) ==
    /\ caller[c] = "start" /\ ~ session[c].closed /\ ~ session[c].pipes
    /\ session' = [session EXCEPT ![c].pipes = TRUE] /\ UNCHANGED <<caller, opener, closer, ended, master>>

\* Start
Start(c) ==
    /\ caller[c] = "start" /\ UNCHANGED <<opener, closer, ended, master>>
    /\ \/ /\ MayStart(session[c]) /\ master /\ CallerGoes(c, "use")
          /\ session' = [session EXCEPT ![c].started = TRUE, ![c].process = "runs"]
       \/ /\ CallerGoes(c, "close")
          /\ session' = IF MayStart(session[c]) THEN [session EXCEPT ![c].closed = TRUE, ![c].pipes = FALSE] ELSE session

\* A terminal is returned to the caller's caller.
Terminal(c) == caller[c] = "use" /\ CallerGoes(c, "terminal") /\ UNCHANGED <<opener, closer, ended, session, master>>

\* Wait of Output, StageImage and sshTerminal.
Wait(c) ==
    /\ caller[c] \in {"use", "terminal"} /\ UNCHANGED <<opener, closer, ended, master>>
    /\ IF session[c].closed THEN CallerGoes(c, "waiting") /\ UNCHANGED session
       ELSE CallerGoes(c, "reap") /\ session' = [session EXCEPT ![c] = Claim(@)]

\* The copy fails, the terminal is closed by its user, or the deferred Close.
CloseSession(c) ==
    /\ caller[c] \in {"start", "use", "terminal", "close"}
    /\ CallerGoes(c, "closing") /\ session' = [session EXCEPT ![c] = Close(@)] /\ UNCHANGED <<opener, closer, ended, master>>

\* Close of a session that was started waits for its process.
CloseWaits(c) ==
    /\ caller[c] = "closing" /\ UNCHANGED <<opener, closer, ended, master>>
    /\ IF ~ session[c].started THEN CallerGoes(c, "left") /\ UNCHANGED session
       ELSE IF session[c].closed THEN CallerGoes(c, "waiting") /\ UNCHANGED session
       ELSE CallerGoes(c, "reap") /\ session' = [session EXCEPT ![c] = Claim(@)]

\* cmd.Wait returns to the caller.
Reap(c) ==
    /\ caller[c] = "reap" /\ session[c].process \in {"exited", "killed"}
    /\ CallerGoes(c, "left") /\ session' = [session EXCEPT ![c] = Reaped(@)] /\ UNCHANGED <<opener, closer, ended, master>>

Waited(c) ==
    /\ caller[c] = "waiting" /\ session[c].done /\ CallerGoes(c, "left") /\ UNCHANGED <<opener, closer, ended, session, master>>

\* stop() of the AfterFunc, or the terminal's done.
Disarm(c) ==
    /\ caller[c] = "left" /\ closer[c] = "armed" /\ CloserGoes(c, "off") /\ UNCHANGED <<caller, opener, ended, session, master>>

Exit(c) ==
    /\ session[c].process = "runs" /\ session' = [session EXCEPT ![c].process = "exited"]
    /\ UNCHANGED <<caller, opener, closer, ended, master>>

(***************************************************************************)
(* The context's end                                                       *)
(***************************************************************************)
\* Close of the AfterFunc, or of the goroutine of OpenTerminal.
Fire(c) ==
    /\ closer[c] = "armed" /\ c \in ended
    /\ session' = [session EXCEPT ![c] = Close(@)]
    /\ CloserGoes(c, IF session[c].started THEN "waiting" ELSE "off") /\ UNCHANGED <<caller, opener, ended, master>>

CloserWaits(c) ==
    /\ closer[c] = "waiting" /\ ~ session[c].closed
    /\ CloserGoes(c, "reap") /\ session' = [session EXCEPT ![c] = Claim(@)] /\ UNCHANGED <<caller, opener, ended, master>>

CloserReaps(c) ==
    /\ closer[c] = "reap" /\ session[c].process \in {"exited", "killed"}
    /\ CloserGoes(c, "off") /\ session' = [session EXCEPT ![c] = Reaped(@)] /\ UNCHANGED <<caller, opener, ended, master>>

CloserWaited(c) ==
    /\ closer[c] = "waiting" /\ session[c].done /\ CloserGoes(c, "off") /\ UNCHANGED <<caller, opener, ended, session, master>>

\* The connection ends: the context of every session is derived from it.
MasterEnds ==
    /\ master /\ master' = FALSE /\ session' = [c \in Callers |-> Killed(session[c])]
    /\ UNCHANGED <<caller, opener, closer, ended>>

\* The pool dials again for those who come later.
Reconnect ==
    /\ ~ master /\ (\A c \in Callers : caller[c] = "idle")
    /\ master' = TRUE /\ UNCHANGED <<caller, opener, closer, ended, session>>

-----------------------------------------------------------------------------
Proceeds(c) ==
    \/ Opened(c) \/ NotOpened(c) \/ Handed(c) \/ Leave(c) \/ Late(c) \/ Gone(c) \/ Start(c) \/ CloseWaits(c)
    \/ Reap(c) \/ Waited(c) \/ Disarm(c) \/ Fire(c) \/ CloserWaits(c) \/ CloserReaps(c) \/ CloserWaited(c)

SshSessionNext ==
    \/ MasterEnds \/ Reconnect
    \/ \E c \in Callers : Ask(c) \/ Cancel(c) \/ MakePipes(c) \/ Terminal(c) \/ Wait(c) \/ CloseSession(c) \/ Exit(c) \/ Proceeds(c)

SshSessionSpec == SshSessionInit /\ [][SshSessionNext]_sessionVars

\* The goroutines run; nobody makes the remote command end or the user of a
\* terminal close it.
SshSessionLive == SshSessionSpec /\ \A c \in Callers : WF_sessionVars(Proceeds(c))

-----------------------------------------------------------------------------
\* A session is waited for once at most, and when neither the opener, the
\* caller nor the closer has it any more, its process is gone and its
\* descriptors are closed, whether it was canceled before it came, before
\* it started, while it ran or after (newSession, openSSHSession).
SessionsAreReleased ==
    \A c \in Callers :
        /\ session[c].waits <= 1
        /\ caller[c] \in {"idle", "left"} /\ opener[c] = "off" /\ closer[c] = "off" =>
            session[c].process \in {"none", "gone"} /\ ~ session[c].pipes

\* What is known of a session wherever it stands: it is closed before it
\* starts, or claimed by one who waits for its process.
SessionFits(s) ==
    /\ s.started <=> s.process # "none"
    /\ s.done <=> s.process = "gone"
    /\ s.waits = IF s.started /\ s.closed THEN 1 ELSE 0
    /\ s.done => s.closed
    /\ s.done \/ (s.closed /\ ~ s.started) => ~ s.pipes

\* Nothing of it is left, or it never began.
Over(s) == s.done \/ (~ s.started /\ ~ s.pipes)

\* What a session is like where its caller stands.
CallerFits(c) ==
    /\ caller[c] \in {"idle", "opening", "left"} => Over(session[c])
    /\ caller[c] \in {"idle", "opening"} => closer[c] = "off"
    /\ caller[c] = "opening" => ~ session[c].started /\ (opener[c] = "off" => c \in ended)
    /\ caller[c] = "start" => ~ session[c].started
    /\ caller[c] \in {"use", "terminal", "reap", "waiting"} => session[c].started
    /\ caller[c] = "waiting" => session[c].closed
    /\ caller[c] \in {"close", "closing"} /\ ~ session[c].started => session[c].closed

\* The opener has a session that nobody used; one goroutine at a time waits
\* for the process, and the closer leaves before its caller does.
HoldersFit(c) ==
    /\ opener[c] # "off" => /\ caller[c] \in {"opening", "left"} /\ closer[c] = "off"
                            /\ ~ session[c].started /\ ~ session[c].closed
    /\ closer[c] \in {"reap", "waiting"} => session[c].started
    /\ session[c].started /\ session[c].closed /\ ~ session[c].done <=> caller[c] = "reap" \/ closer[c] = "reap"
    /\ ~ (caller[c] = "reap" /\ closer[c] = "reap")

Sessions ==
    [pipes : BOOLEAN, started : BOOLEAN, closed : BOOLEAN, done : BOOLEAN,
     process : {"none", "runs", "killed", "exited", "gone"}, waits : 0..2]

\* The invariant that every step preserves.
SshSessionInv ==
    /\ SshSessionTypeOK
    /\ caller \in [Callers -> CallerSteps] /\ opener \in [Callers -> {"off", "opening", "offers"}]
    /\ closer \in [Callers -> CloserSteps] /\ session \in [Callers -> Sessions]
    /\ \A c \in Callers : SessionFits(session[c]) /\ CallerFits(c) /\ HoldersFit(c)

\* When the context of a caller ends, its session's process ends as well,
\* and nobody waits for it forever.
CanceledEnds ==
    \A c \in Callers : c \in ended /\ caller[c] # "idle" ~>
        c \notin ended \/ (session[c].process \in {"none", "gone"} /\ caller[c] \notin {"reap", "waiting", "closing"})
=============================================================================
