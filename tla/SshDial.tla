------------------------------ MODULE SshDial ------------------------------
(***************************************************************************)
(* Making the connection to a host: internal/herdr/ssh.go                  *)
(* (DialSSHEndpoint, dialSSHViaProxyJump, DialSSHOnConn), openssh.go       *)
(* (DialOpenSSHEndpoint) and internal/hostruntime/factory.go               *)
(* (openUncached, dialTailcatSSH).                                         *)
(*                                                                         *)
(* Each step opens something more and may fail; the caller's context may   *)
(* end at any time, which closes whatever the current step waits for.      *)
(***************************************************************************)
EXTENDS Naturals

CONSTANT MaxAttempts   \* attempts at a tailcat address

\* What the constant has to be: an instance assumes it.
DialAssumption == MaxAttempts \in Nat \ {0}

VARIABLES
    path,      \* how the host is reached
    at,        \* the step of the dial
    open,      \* what is open: connections, processes, directories
    ended,     \* the context of the dial has ended
    attempt    \* of dialTailcatSSH

dialVars == <<path, at, open, ended, attempt>>

Paths == {"direct", "jump", "tailcat", "system"}
Resources == {"dir", "master", "outer", "network"}
DialSteps == {"idle", "target", "jump", "jumpAuth", "jumpHandshake", "through", "tailcat", "channel", "pause",
              "auth", "handshake", "args", "start", "control", "locate", "dialed", "failed"}

\* The types of all variables.
DialTypeOK ==
    /\ path \in Paths /\ at \in DialSteps /\ open \subseteq Resources /\ ended \in BOOLEAN
    /\ attempt \in 0..MaxAttempts

DialInit == path = "direct" /\ at = "idle" /\ open = {} /\ ended = FALSE /\ attempt = 0

\* What context.AfterFunc closes while a step is under way.  "outer" is the
\* connection to the jump host, or the tailcat client.
Guards(step) ==
    CASE step \in {"jumpAuth", "jumpHandshake", "through"} -> {"outer"}
      [] step \in {"auth", "handshake"} -> {"network"}
      [] step = "locate" /\ path # "system" -> {"network"}
      [] OTHER -> {}

\* The step is done, more is open, and the next one begins; a context that
\* has already ended closes at once what the next step guards.
Enter(step, more) ==
    /\ at' = step /\ open' = (open \cup more) \ (IF ended THEN Guards(step) ELSE {})
    /\ UNCHANGED <<path, ended>>

Cancel ==
    /\ at \notin {"idle", "dialed", "failed"} /\ ~ended
    /\ ended' = TRUE /\ open' = open \ Guards(at) /\ UNCHANGED <<path, at, attempt>>

Dial(p) ==
    /\ at = "idle" /\ path' = p /\ ended' \in BOOLEAN /\ attempt' = 0
    /\ at' = CASE p = "direct" -> "target" [] p = "jump" -> "jump"
               [] p = "tailcat" -> "tailcat" [] p = "system" -> "args"
    /\ open' = IF p = "system" THEN {"dir"} ELSE {}

\* os.MkdirTemp fails, ParseProxyJump refuses the hop, the host's address,
\* credential or owner does not pass openUncached.
RefusedBefore(p) ==
    /\ at = "idle" /\ path' = p /\ at' = "failed" /\ UNCHANGED <<open, ended, attempt>>

(***************************************************************************)
(* The steps that open something                                           *)
(***************************************************************************)
DialTarget == at = "target" /\ Enter("auth", {"network"}) /\ UNCHANGED attempt
DialJump == at = "jump" /\ Enter("jumpAuth", {"outer"}) /\ UNCHANGED attempt
JumpAuth == at = "jumpAuth" /\ Enter("jumpHandshake", {}) /\ UNCHANGED attempt
JumpHandshake == at = "jumpHandshake" /\ "outer" \in open /\ Enter("through", {}) /\ UNCHANGED attempt
DialThrough == at = "through" /\ "outer" \in open /\ Enter("auth", {"network"}) /\ UNCHANGED attempt

\* dialTailcatSSH: up to three clients, one after the other.
PingTailcat == at = "tailcat" /\ Enter("channel", {"outer"}) /\ UNCHANGED attempt
DialChannel == at = "channel" /\ Enter("auth", {"network"}) /\ UNCHANGED attempt

TailcatFails ==
    /\ at \in {"tailcat", "channel"} /\ at' = "pause" /\ attempt' = attempt + 1
    /\ open' = open \ {"outer"} /\ UNCHANGED <<path, ended>>

TryAgain == at = "pause" /\ attempt < MaxAttempts /\ Enter("tailcat", {}) /\ UNCHANGED attempt
GiveUp ==
    /\ at = "pause" /\ (ended \/ attempt = MaxAttempts) /\ at' = "failed" /\ UNCHANGED <<path, open, ended, attempt>>

\* sshAuth can use the credential.
Auth == at = "auth" /\ Enter("handshake", {}) /\ UNCHANGED attempt

\* ssh.NewClientConn: the host shows the expected key and lets us in.
Handshake == at = "handshake" /\ "network" \in open /\ Enter("locate", {}) /\ UNCHANGED attempt

\* The process of system OpenSSH and its control socket.
Args == at = "args" /\ Enter("start", {}) /\ UNCHANGED attempt
StartMaster == at = "start" /\ Enter("control", {"master"}) /\ UNCHANGED attempt
ControlUp == at = "control" /\ Enter("locate", {}) /\ UNCHANGED attempt
MasterEnds ==
    /\ "master" \in open /\ open' = open \ {"master"} /\ UNCHANGED <<path, at, ended, attempt>>

\* locateSocket: the remote shell names the directory of its Herdr.
Locate ==
    /\ at = "locate" /\ (IF path = "system" THEN "master" ELSE "network") \in open
    /\ Enter("dialed", {}) /\ UNCHANGED attempt

(***************************************************************************)
(* Failure                                                                 *)
(***************************************************************************)
\* Fault: a failed handshake closes its own connection only.
OwnOnly ==
    CASE at \in {"auth", "handshake"} -> {"network"}
      [] at = "locate" /\ path # "system" -> {"network"}
      [] at = "control" \/ (at = "locate" /\ path = "system") -> {"master", "dir"}
      [] at \in {"args", "start"} -> {"dir"}
      [] OTHER -> {"outer"}

\* What the error path of the step closes.
Closes ==
    CASE at \in {"target", "jump"} -> {}
      [] at \in {"jumpAuth", "jumpHandshake", "through"} -> {"outer"}
      [] at \in {"auth", "handshake"} -> {"network", "outer"}
      [] at \in {"args", "start"} -> {"dir"}
      [] at = "control" -> {"master", "dir"}
      [] at = "locate" -> IF path = "system" THEN {"master", "dir"} ELSE {"network", "outer"}

StepFails ==
    /\ at \notin {"idle", "tailcat", "channel", "pause", "dialed", "failed"}
    /\ at' = "failed" /\ open' = open \ Closes /\ UNCHANGED <<path, ended, attempt>>

\* The endpoint's Close, or the caller has seen the error.
CloseEndpoint ==
    /\ at = "dialed" /\ at' = "idle" /\ open' = open \ (IF path = "system" THEN {"master", "dir"} ELSE {"network", "outer"})
    /\ UNCHANGED <<path, ended, attempt>>

Returned == at = "failed" /\ at' = "idle" /\ UNCHANGED <<path, open, ended, attempt>>

-----------------------------------------------------------------------------
DialNext ==
    \/ \E p \in Paths : Dial(p) \/ RefusedBefore(p)
    \/ Cancel \/ DialTarget \/ DialJump \/ JumpAuth \/ JumpHandshake \/ DialThrough
    \/ PingTailcat \/ DialChannel \/ TailcatFails \/ TryAgain \/ GiveUp
    \/ Auth \/ Handshake \/ Args \/ StartMaster \/ ControlUp \/ MasterEnds \/ Locate
    \/ StepFails \/ CloseEndpoint \/ Returned

DialSpec == DialInit /\ [][DialNext]_dialVars

-----------------------------------------------------------------------------
\* A dial that fails at any step, or is left at any step, and an endpoint
\* that was closed leave no connection, no process and no directory behind;
\* and an endpoint that was made owns what its way to the host is made of
\* (the error paths of DialSSHOnConn, dialSSHViaProxyJump, dialTailcatSSH
\* and DialOpenSSHEndpoint).
DialLeavesNothing ==
    /\ at \in {"idle", "failed"} => open = {}
    /\ at = "dialed" => open \subseteq CASE path = "direct" -> {"network"} [] path = "system" -> {"master", "dir"}
                                         [] OTHER -> {"network", "outer"}

\* What may be open at each step, on each way: the invariant that every step
\* preserves.
MayBeOpen ==
    CASE at \in {"jumpAuth", "jumpHandshake", "through", "channel"} -> {"outer"}
      [] at \in {"auth", "handshake"} -> IF path = "direct" THEN {"network"} ELSE {"network", "outer"}
      [] at \in {"args", "start"} -> {"dir"}
      [] at = "control" -> {"master", "dir"}
      [] at \in {"locate", "dialed"} -> IF path = "system" THEN {"master", "dir"}
                                       ELSE IF path = "direct" THEN {"network"} ELSE {"network", "outer"}
      [] OTHER -> {}

WayOf(p) ==
    CASE p = "direct" -> {"target", "auth", "handshake", "locate", "dialed"}
      [] p = "jump" -> {"jump", "jumpAuth", "jumpHandshake", "through", "auth", "handshake", "locate", "dialed"}
      [] p = "tailcat" -> {"tailcat", "channel", "pause", "auth", "handshake", "locate", "dialed"}
      [] p = "system" -> {"args", "start", "control", "locate", "dialed"}

DialInv ==
    /\ DialTypeOK /\ open \subseteq MayBeOpen /\ at \in WayOf(path) \cup {"idle", "failed"}
    /\ at \in {"tailcat", "channel"} => attempt < MaxAttempts
=============================================================================
