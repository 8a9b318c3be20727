----------------------------- MODULE PushMonitor -----------------------------
(***************************************************************************)
(* Web Push about agents: internal/httpapi/push_monitor.go, agents.go,    *)
(* internal/agentstate and internal/store/agent_seen.go.                   *)
(*                                                                         *)
(* A host is polled, one poll after another.  A poll compares a snapshot   *)
(* with what the last one saw: a pane that became blocked is told at once, *)
(* a round that is done only when it is still done and unread after        *)
(* pushDoneDelay.  The backoff of a host that fails only puts its next     *)
(* poll off, and polls come at any time here.                              *)
(***************************************************************************)
EXTENDS Integers, FiniteSets

CONSTANTS
    Panes,
    None,
    Delay,        \* pushDoneDelay, in ticks
    MaxClock,     \* bound: ticks
    MaxSeq,       \* bound: state changes of a Herdr run
    MaxRun        \* bound: runs of Herdr

VARIABLES
    clock,
    agents,        \* the agent in each pane, or None
    seq,           \* Herdr's state_change_seq
    run,           \* which run of Herdr this is
    previous,      \* state.previous and state.seqs, and the run they are of
    pending,       \* state.pending: when it is due
    poll,          \* the poll that runs
    told,          \* the last round of each pane a notification was made for
    markers,       \* agent_seen, -1 without a row
    absent         \* the panes a listAgents found a marker but no pane for

herdrVars == <<agents, seq, run>>
pollVars == <<previous, pending, poll, told>>
pushVars == <<clock, herdrVars, pollVars, markers, absent>>

\* idle and unknown are to a poll what working is.
Statuses == {"working", "blocked", "done"}
Agents == [status : Statuses, seq : 0..MaxSeq, since : 0..MaxClock]
Rounds == [status : Statuses, seq : 0..MaxSeq, run : 1..MaxRun]
Messages == [kind : {"blocked", "done"}, pane : Panes, seq : 0..MaxSeq, run : 1..MaxRun]

\* What the constants have to be: an instance assumes it.
PushAssumption ==
    /\ {Delay, MaxClock, MaxSeq} \subseteq Nat /\ MaxRun \in Nat \ {0}
    /\ None \notin Panes \cup Rounds \cup Messages

Idle == [at |-> "idle", snapshot |-> [p \in Panes |-> None], run |-> 0, due |-> {}, out |-> {}]

\* The types of all variables.
PushTypeOK ==
    /\ clock \in 0..MaxClock /\ seq \in 0..MaxSeq /\ run \in 1..MaxRun
    /\ agents \in [Panes -> Agents \cup {None}] /\ previous \in [Panes -> Rounds \cup {None}]
    /\ pending \in [Panes -> 0..(MaxClock + Delay) \cup {None}]
    /\ told \in [Panes -> Messages \cup {None}] /\ markers \in [Panes -> -1..MaxSeq]
    /\ poll.at \in {"idle", "snapshot", "compare", "markers", "deliver"}
    /\ poll.snapshot \in [Panes -> Agents \cup {None}] /\ poll.run \in 0..MaxRun
    /\ poll.due \subseteq Panes /\ poll.out \subseteq Messages /\ absent \subseteq Panes

PushInit ==
    /\ clock = 0 /\ agents = [p \in Panes |-> None] /\ seq = 0 /\ run = 1
    /\ previous = [p \in Panes |-> None] /\ pending = [p \in Panes |-> None] /\ poll = Idle /\ told = [p \in Panes |-> None]
    /\ markers = [p \in Panes |-> -1] /\ absent = {}

(***************************************************************************)
(* Herdr and time                                                          *)
(***************************************************************************)
\* A change of a pane's state takes the next number of the run.
AgentMoves(p) ==
    /\ seq < MaxSeq /\ seq' = seq + 1
    /\ \E status \in Statuses :
        /\ agents[p] # None => agents[p].status # status
        /\ agents' = [agents EXCEPT ![p] = [status |-> status, seq |-> seq + 1, since |-> clock]]
    /\ UNCHANGED <<clock, run, pollVars, markers, absent>>

PaneCloses(p) ==
    /\ agents[p] # None /\ agents' = [agents EXCEPT ![p] = None]
    /\ UNCHANGED <<clock, seq, run, pollVars, markers, absent>>

\* The numbers start again, and the names of the panes repeat.
HerdrRestarts ==
    /\ run < MaxRun /\ run' = run + 1 /\ seq' = 0 /\ agents' = [p \in Panes |-> None]
    /\ UNCHANGED <<clock, pollVars, markers, absent>>

Tick ==
    /\ clock < MaxClock /\ clock' = clock + 1
    /\ UNCHANGED <<herdrVars, pollVars, markers, absent>>

(***************************************************************************)
(* A poll                                                                  *)
(***************************************************************************)
\* No subscription of the owner is left, or the host is gone: its history
\* goes with its job.
Forget ==
    /\ poll.at = "idle"
    /\ previous' = [p \in Panes |-> None] /\ pending' = [p \in Panes |-> None]
    /\ UNCHANGED <<clock, herdrVars, poll, told, markers, absent>>

Collect ==
    /\ poll.at = "idle" /\ poll' = [Idle EXCEPT !.at = "snapshot"]
    /\ UNCHANGED <<clock, herdrVars, previous, pending, told, markers, absent>>

Snapshot ==
    /\ poll.at = "snapshot" /\ poll' = [poll EXCEPT !.at = "compare", !.snapshot = agents, !.run = run]
    /\ UNCHANGED <<clock, herdrVars, previous, pending, told, markers, absent>>

\* The host fails, the access of the owner or the server ends.
PollStops ==
    /\ poll.at \in {"snapshot", "compare", "deliver"} /\ poll' = Idle
    /\ UNCHANGED <<clock, herdrVars, previous, pending, told, markers, absent>>

\* Fault: a round that ran and finished between two polls is the old one.
StatusChanged(p, agent) == previous[p] # None /\ previous[p].status # agent.status

Changed(p, agent) == previous[p] # None /\ (previous[p].status # agent.status \/ previous[p].seq # agent.seq)

Due(p, agent) ==
    agent.status = "done" /\ ~Changed(p, agent) /\ pending[p] # None /\ clock >= pending[p]

Seen(p) == poll.snapshot[p] # None
Message(kind, p) == [kind |-> kind, pane |-> p, seq |-> poll.snapshot[p].seq, run |-> poll.run]

Tells(out) == [p \in Panes |-> IF \E m \in out : m.pane = p THEN CHOOSE m \in out : m.pane = p ELSE told[p]]

ToDeliver(out) == [Idle EXCEPT !.at = "deliver", !.out = out]

\* The locked part of collectPushHost.
Compare ==
    LET blocked == {p \in Panes : Seen(p) /\ poll.snapshot[p].status = "blocked" /\ Changed(p, poll.snapshot[p])}
        due == {p \in Panes : Seen(p) /\ Due(p, poll.snapshot[p])}
        out == {Message("blocked", p) : p \in blocked} IN
    /\ poll.at = "compare"
    /\ previous' = [p \in Panes |-> IF Seen(p) THEN [status |-> poll.snapshot[p].status, seq |-> poll.snapshot[p].seq,
                                                     run |-> IF previous[p] # None /\ ~Changed(p, poll.snapshot[p])
                                                             THEN previous[p].run ELSE poll.run]
                                               ELSE None]
    /\ pending' = [p \in Panes |->
            IF ~Seen(p) \/ poll.snapshot[p].status # "done" \/ p \in due THEN None
            ELSE IF Changed(p, poll.snapshot[p]) THEN clock + Delay
            ELSE pending[p]]
    /\ poll' = IF due = {} THEN ToDeliver(out) ELSE [poll EXCEPT !.at = "markers", !.due = due, !.out = out]
    /\ told' = Tells(out)
    /\ UNCHANGED <<clock, herdrVars, markers, absent>>

\* agentstate.Classify of a pane that is done.
Unread(p) == markers[p] # poll.snapshot[p].seq

ReadMarkers ==
    LET out == {Message("done", p) : p \in {q \in poll.due : Unread(q)}} IN
    /\ poll.at = "markers"
    /\ poll' = ToDeliver(poll.out \cup out)
    /\ told' = Tells(out)
    /\ UNCHANGED <<clock, herdrVars, previous, pending, markers, absent>>

\* The rounds are kept for the next poll.
MarkersFail ==
    /\ poll.at = "markers" /\ poll' = ToDeliver(poll.out)
    /\ pending' = [p \in Panes |-> IF p \in poll.due /\ pending[p] = None /\ previous[p] # None /\ previous[p].status = "done"
                                   THEN clock ELSE pending[p]]
    /\ UNCHANGED <<clock, herdrVars, previous, told, markers, absent>>

\* deliverPushHost: what was told is gone from the monitor, delivered or not.
Delivered ==
    /\ poll.at = "deliver" /\ poll' = Idle
    /\ UNCHANGED <<clock, herdrVars, previous, pending, told, markers, absent>>

(***************************************************************************)
(* The read markers                                                        *)
(***************************************************************************)
\* markAgentSeen: of a page that shows the pane now, or that showed an older
\* state and is late.
MarkSeen(p, shown) ==
    /\ markers[p] # shown /\ markers' = [markers EXCEPT ![p] = shown]
    /\ UNCHANGED <<clock, herdrVars, pollVars, absent>>

\* listAgents: a snapshot lacks a pane that has a marker; the marker is
\* deleted later.
FindAbsent(p) ==
    /\ markers[p] # -1 /\ agents[p] = None /\ absent' = absent \cup {p}
    /\ UNCHANGED <<clock, herdrVars, pollVars, markers>>

Prune(p) ==
    /\ p \in absent /\ absent' = absent \ {p} /\ markers' = [markers EXCEPT ![p] = -1]
    /\ UNCHANGED <<clock, herdrVars, pollVars>>

-----------------------------------------------------------------------------
PushNext ==
    \/ \E p \in Panes : AgentMoves(p) \/ PaneCloses(p) \/ FindAbsent(p) \/ Prune(p)
    \/ \E p \in Panes, shown \in 1..seq : MarkSeen(p, shown)
    \/ HerdrRestarts \/ Tick
    \/ Forget \/ Collect \/ Snapshot \/ PollStops \/ Compare \/ ReadMarkers \/ MarkersFail \/ Delivered

PushSpec == PushInit /\ [][PushNext]_pushVars

-----------------------------------------------------------------------------
\* A round is told once, and a finished one only when it is not marked as
\* read and has stayed finished for the delay -- unless Herdr was restarted
\* since the delay began and the numbers of the new run hide it
\* (collectPushHost).
ToldOnceInTime ==
    [][/\ \A message \in poll'.out \ poll.out :
            message # told[message.pane] /\ (message.kind = "done" => markers[message.pane] # message.seq)
       /\ \A p \in poll'.due \ poll.due :
            previous[p].run = poll.run => poll.snapshot[p].since + Delay <= clock]_pushVars

-----------------------------------------------------------------------------
\* The poll works with a snapshot; the run whose numbers it goes by.
Works == poll.at \in {"compare", "markers"}
RunOf == IF Works THEN poll.run ELSE run

\* Of one run, a is what the pane was in before or when it was in b.
Before(a, b) == a.seq <= b.seq /\ (a.seq = b.seq => a.status = b.status)
ToldBefore(m, b) == m.seq <= b.seq /\ (m.seq = b.seq => m.kind = b.status)

\* What Herdr shows of a pane, and what the poll has seen of it.
ShownFits(p) ==
    /\ agents[p] # None => agents[p].seq <= seq /\ agents[p].since <= clock
    /\ Works /\ poll.snapshot[p] # None =>
        /\ poll.snapshot[p].since <= clock
        /\ poll.run = run =>
            /\ poll.snapshot[p].seq <= seq
            /\ agents[p] # None =>
                /\ poll.snapshot[p].seq <= agents[p].seq
                /\ poll.snapshot[p].seq = agents[p].seq => poll.snapshot[p] = agents[p]

\* What was told of a pane is not ahead of what Herdr and the poll show.
ToldFits(p) ==
    told[p] # None =>
        /\ told[p].run <= RunOf /\ told[p].pane = p
        /\ told[p].run = run =>
            told[p].seq <= seq /\ (agents[p] # None => ToldBefore(told[p], agents[p]))
        /\ poll.at = "compare" /\ told[p].run = poll.run /\ poll.snapshot[p] # None =>
            ToldBefore(told[p], poll.snapshot[p])

\* After something was told, what the last poll saw is between that and now.
PreviousFits(p) ==
    /\ previous[p] # None =>
        /\ previous[p].run <= RunOf
        /\ previous[p].run = run => previous[p].seq <= seq
    /\ previous[p] # None /\ told[p] # None /\ told[p].run = RunOf =>
        /\ ToldBefore(told[p], previous[p])
        /\ RunOf = run =>
            previous[p].seq <= seq /\ (agents[p] # None => Before(previous[p], agents[p]))
        /\ poll.at = "compare" /\ poll.snapshot[p] # None => Before(previous[p], poll.snapshot[p])

\* A round that waits was not told and is not due before its delay.
PendingFits(p) ==
    pending[p] # None =>
        /\ previous[p] # None
        /\ told[p] # None /\ told[p].run = RunOf /\ told[p].kind = "done" => told[p].seq # previous[p].seq
        /\ previous[p].run = run /\ agents[p] # None /\ agents[p].seq = previous[p].seq =>
            agents[p].since + Delay <= pending[p]
        /\ poll.at = "compare" /\ previous[p].run = poll.run /\ poll.snapshot[p] # None
                /\ poll.snapshot[p].seq = previous[p].seq =>
            poll.snapshot[p].since + Delay <= pending[p]

\* A round whose markers are asked for.
DueFits(p) ==
    p \in poll.due =>
        /\ poll.at = "markers" /\ poll.snapshot[p] # None /\ poll.snapshot[p].status = "done"
        /\ pending[p] = None /\ previous[p] # None
        /\ previous[p].seq = poll.snapshot[p].seq /\ previous[p].status = "done"
        /\ told[p] # [kind |-> "done", pane |-> p, seq |-> poll.snapshot[p].seq, run |-> poll.run]
        /\ previous[p].run = poll.run => poll.snapshot[p].since + Delay <= clock

\* The inductive invariant.
PushInv ==
    /\ PushTypeOK
    /\ Works => poll.run \in 1..run
    /\ \A p \in Panes : ShownFits(p) /\ ToldFits(p) /\ PreviousFits(p) /\ PendingFits(p) /\ DueFits(p)
=============================================================================
