----------------------------- MODULE Connections -----------------------------
(***************************************************************************)
(* The connections to hosts beside the pool: a dial over ssh (SshDial),    *)
(* the sessions on a connection (SshSession), what a transport knows about *)
(* the service it reaches (CapabilityCache) and the stream of a terminal   *)
(* (TerminalStream, which this module extends).  They share no state; what *)
(* each promises is here, for the runs and for the proofs.                 *)
(***************************************************************************)
EXTENDS TerminalStream

CONSTANTS
    MaxAttempts,                    \* SshDial
    Openers,                        \* SshSession: who opens a session
    Askers, Nobody,                 \* CapabilityCache: who asks the service
    MaxVersion, MaxCli, Reviewed

VARIABLES
    path, at, open, ended, attempt,                             \* SshDial
    caller, opener, closer, gone, session, master,              \* SshSession
    daemon, cli, revision, live, cliSeen, report, unsupported, probing, call \* CapabilityCache

Dial == INSTANCE SshDial
Session == INSTANCE SshSession WITH Callers <- Openers, ended <- gone
Capability == INSTANCE CapabilityCache WITH Callers <- Askers, None <- Nobody, flight <- probing

\* Whatever step of a dial fails, and whenever a session is canceled, nothing
\* that was opened is left (ssh.go and openssh.go of internal/herdr).
ConnectionsLeaveNothing == Dial!DialLeavesNothing /\ Session!SessionsAreReleased

\* What is cached comes from the service that runs, for calls and probes that
\* began with a service known, however late they end (RecordFailureAt,
\* Report).
EvidenceIsCurrent == Capability!EvidenceIsCurrent

\* After each message a browser shows what the terminal showed at the frame
\* it names, and a loop that waits for credit is not forgotten
\* (readTerminalSource, terminalOutput, reserveCredit, acknowledge).
OutputArrives == OutputIsWhole /\ NoLostWake
=============================================================================
