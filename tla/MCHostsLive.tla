---------------------------- MODULE MCHostsLive -----------------------------
(***************************************************************************)
(* TLC instance of what must happen in the end where hosts are shared: the *)
(* waits of the connection pool and of a session over ssh, the lease of a  *)
(* host that was deleted, and the control of a terminal's size.  They      *)
(* share no state here, so a behaviour runs one of them and leaves the     *)
(* others where they begin; each is fair as its module says.               *)
(***************************************************************************)
EXTENDS Naturals

CONSTANTS Nobody, Deleted, Callers, Flights

VARIABLES
    part,                                                       \* which of them runs
    closed, endpoints, flights, failures, host, waiters, outcome, dialer, victim, endpoint, refs,
    retired, idle, older, callbacks, closers, pc, want, on,     \* HostPool
    row, made, creds, keyRev, parent, request,                  \* Hosts
    caller, opener, ender, gone, session, master,               \* SshSession
    runtime, entries, leases, streams, acq, reader, rel, target, observer, wire, reports, told,
    events                                                      \* GeometryControl

Pool == INSTANCE HostPool WITH
    Hosts <- {"h"}, LocalHosts <- {}, Limit <- 1, DialSlots <- 1, MaxWaiters <- 2, MaxFailures <- 1,
    MaxCallbacks <- 1, None <- Nobody
Rows == INSTANCE Hosts WITH
    HostIds <- {"h"}, Folders <- {"f"}, Keys <- {"k"}, Owned <- {"o"}, Addresses <- {"a"},
    Requests <- {"r"}, MaxVersion <- 1, None <- Nobody
Ssh == INSTANCE SshSession WITH Callers <- {"caller"}, closer <- ender, ended <- gone
Geometry == INSTANCE GeometryControl WITH
    Streams <- {"s1", "s2"}, NoStream <- Nobody, MaxLeases <- 2, MaxEntries <- 1, MaxRuntime <- 1,
    MaxSeq <- 0, Scenarios <- {{"end"}}

\* The parts get the constants they assume.
ASSUME PartsAssumption ==
    /\ Pool!HostPoolAssumption /\ Rows!HostsAssumption
    /\ Geometry!GeometryAssumption

poolVars ==
    <<closed, endpoints, flights, failures, host, waiters, outcome, dialer, victim, endpoint, refs,
      retired, idle, older, callbacks, closers, pc, want, on>>
rowVars == <<row, made, creds, keyRev, parent, request>>
sshVars == <<caller, opener, ender, gone, session, master>>
movingVars ==
    <<runtime, entries, leases, streams, acq, reader, rel, target, observer, wire, reports, told>>
sizeVars == <<movingVars, events>>

LiveInit ==
    /\ part \in {"pool", "hosts", "ssh", "size"}
    /\ Pool!Init /\ Rows!HostsInit /\ Ssh!SshSessionInit /\ Geometry!Init

LiveNext ==
    \/ part = "pool" /\ Pool!Next /\ UNCHANGED <<part, rowVars, sshVars, sizeVars>>
    \/ part = "hosts" /\ Rows!HostsNext /\ UNCHANGED <<part, poolVars, sshVars, sizeVars>>
    \/ part = "ssh" /\ Ssh!SshSessionNext /\ UNCHANGED <<part, poolVars, rowVars, sizeVars>>
    \/ part = "size" /\ Geometry!Next /\ UNCHANGED <<part, poolVars, rowVars, sshVars>>

\* The fairness that each module states, for the part that runs.
LiveFairness ==
    /\ \A t \in Flights :
          /\ WF_poolVars(part = "pool" /\ Pool!DialStep(t)) /\ WF_poolVars(part = "pool" /\ Pool!IdleTimer(t))
          /\ WF_poolVars(part = "pool" /\ Pool!IdleCallback(t)) /\ WF_poolVars(part = "pool" /\ Pool!CloseEndpoint(t))
    /\ \A c \in Callers :
          /\ WF_poolVars(part = "pool" /\ Pool!Await(c))
          /\ WF_poolVars(part = "pool" /\ pc[c] = "releasing" /\ Pool!CloseHandle(c))
    /\ WF_rowVars(part = "hosts" /\ Rows!Watch("r"))
    /\ WF_sshVars(part = "ssh" /\ Ssh!Proceeds("caller"))
    /\ \A s \in {"s1", "s2"} :
          /\ WF_movingVars(part = "size" /\ Geometry!RemoveStream(s))
          /\ WF_movingVars(part = "size" /\ Geometry!Unref(s))
          /\ WF_movingVars(part = "size" /\ Geometry!StartAcquire(s))
          /\ WF_movingVars(part = "size" /\ Geometry!AcquireGoesOn(s))
          /\ WF_movingVars(part = "size" /\ Geometry!StartResize(s))
          /\ WF_movingVars(part = "size" /\ Geometry!ReaderGoesOn(s))
    /\ \A l \in 1..2 :
          /\ WF_movingVars(part = "size" /\ Geometry!ControllerGoesOn(l))
          /\ WF_movingVars(part = "size" /\ Geometry!NobodyRenews(l) /\ Geometry!TimerFires(l))
          /\ WF_movingVars(part = "size" /\ \E c \in Geometry!Sources : Geometry!StartRelease(l, c))
          /\ WF_movingVars(part = "size" /\ Geometry!ReleaseGoesOn(l))

LiveSpec == LiveInit /\ [][LiveNext]_<<part, poolVars, rowVars, sshVars, sizeVars>> /\ LiveFairness

\* A caller that waits is answered, an idle entry is reclaimed or used, and a
\* closed factory drains: WaitersAnswered, IdleReclaimed, ShutdownDrains.
PoolServes == Pool!WaitersAnswered /\ Pool!IdleReclaimed /\ Pool!ShutdownDrains

\* Who may no longer hold something lets it go: a request whose host was
\* deleted and a canceled session over ssh: DeletedHostLeaves, CanceledEnds.
HoldersLeave == Rows!DeletedHostLeaves /\ Ssh!CanceledEnds

\* An acquisition of the size is answered, and a lease that was revoked leaves
\* its entry: AcquireEnds, RevokedLeaves.
ControlEnds == Geometry!AcquireEnds /\ Geometry!RevokedLeaves
=============================================================================
