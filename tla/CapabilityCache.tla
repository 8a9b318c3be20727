-------------------------- MODULE CapabilityCache --------------------------
(***************************************************************************)
(* What a transport knows about the Herdr service it reaches:              *)
(* internal/herdr/capabilities_cache.go, capabilities.go and the calls of  *)
(* internal/hostruntime/factory.go that feed it.                           *)
(*                                                                         *)
(* The service may be replaced at any time.  No lock is held while it is   *)
(* asked, so answers of an older service arrive after a newer one was      *)
(* seen.  A version stands for a version with its protocol.                *)
(***************************************************************************)
EXTENDS Naturals, FiniteSets

CONSTANTS
    Callers,
    None,
    MaxVersion,     \* bound: services that run one after the other
    MaxCli,         \* bound: executables installed one after the other
    Reviewed        \* versions whose protocol the workbench knows

\* What the constants have to be: an instance assumes it.
CapabilityAssumption ==
    /\ MaxVersion \in Nat \ {0} /\ MaxCli \in Nat \ {0} /\ Reviewed \subseteq 1..MaxVersion
    /\ None \notin Callers

Versions == 1..MaxVersion
Methods == {"pane.read", "pane.process_info"}
Names == {"observe", "input", "resize", "preserve_scroll", "history"}
States == {"available", "unavailable", "unknown"}
Outcomes == {"ok", "unsupported", "failed"}

VARIABLES
    daemon,         \* the service that runs
    cli,            \* the executable that is installed
    revision,       \* CapabilityCache.revision, the generation
    live,           \* liveVersion, 0 until liveKnown
    cliSeen,        \* cliVersion, 0 until known
    report,         \* the report, None when there is none or it is a minute old
    unsupported,    \* the names, with the service that refused each
                    \* and whether one was known when it was asked
    flight,         \* the caller that probes
    call            \* where each caller stands and what it has read

serviceVars == <<daemon, cli>>
cacheVars == <<revision, live, cliSeen, report, unsupported, flight>>
capabilityVars == <<serviceVars, cacheVars, call>>

Idle == [at |-> "idle", revision |-> 0, known |-> FALSE, method |-> "none", from |-> 0, outcome |-> "none"]
Probe == [at |-> "ping", revision |-> 0, about |-> 0, observed |-> FALSE, changed |-> FALSE, cli |-> 0]

\* The types of all variables.
CapabilityTypeOK ==
    /\ daemon \in Versions /\ cli \in 1..MaxCli
    /\ revision \in Nat /\ live \in 0..MaxVersion /\ cliSeen \in 0..MaxCli
    /\ report # None => report \in [about : Versions, observed : BOOLEAN, features : [Names -> States]]
    /\ unsupported \subseteq [name : Names, from : Versions, known : BOOLEAN]
    /\ flight \in Callers \cup {None}
    /\ \A c \in Callers : call[c].at \in {"idle", "call", "answered", "snapshot", "observe", "enter",
            "waits", "ping", "cli", "finish"}

CapabilityInit ==
    /\ daemon = 1 /\ cli = 1
    /\ revision = 0 /\ live = 0 /\ cliSeen = 0
    /\ report = None /\ unsupported = {} /\ flight = None
    /\ call = [c \in Callers |-> Idle]

Goes(c, state) == call' = [call EXCEPT ![c] = state]
At(c, at) == call[c].at = at

\* Somebody installs another version, and somebody restarts the service.
Replace ==
    /\ daemon < MaxVersion /\ daemon' = daemon + 1
    /\ UNCHANGED <<cli, cacheVars, call>>

Install ==
    /\ cli < MaxCli /\ cli' = cli + 1
    /\ UNCHANGED <<daemon, cacheVars, call>>

(***************************************************************************)
(* The cache, under its lock                                               *)
(***************************************************************************)
\* ObserveSnapshot: another version ends what was known.
Observe(version) ==
    /\ live' = version
    /\ IF live # 0 /\ live # version
       THEN revision' = revision + 1 /\ report' = None /\ unsupported' = {}
       ELSE UNCHANGED <<revision, report, unsupported>>

\* methodFeature, and the sizing that needs the same method.
NamesOf(method) == IF method = "pane.read" THEN {"history"} ELSE {"preserve_scroll", "resize"}

Refuse(features, names) == [n \in Names |-> IF n \in names THEN "unavailable" ELSE features[n]]

\* Fault: an answer counts whenever it was asked for.
AlwaysCounts(generation) == generation \in Nat

Counts(generation) == generation = revision

\* RecordFailureAt
RecordFailure(r) ==
    IF r.outcome = "unsupported" /\ Counts(r.revision)
    THEN /\ unsupported' = unsupported \cup [name : NamesOf(r.method), from : {r.from}, known : {r.known}]
         /\ report' = IF report = None THEN None
                      ELSE [report EXCEPT !.features = Refuse(@, NamesOf(r.method))]
    ELSE UNCHANGED <<unsupported, report>>

(***************************************************************************)
(* sharedHandle.Call and Snapshot                                          *)
(***************************************************************************)
BeginCall(c) ==
    /\ At(c, "idle")
    /\ \E method \in Methods :
        Goes(c, [Idle EXCEPT !.at = "call", !.method = method, !.revision = revision, !.known = live # 0])
    /\ UNCHANGED <<serviceVars, cacheVars>>

Answer(c) ==
    /\ At(c, "call")
    /\ \E outcome \in Outcomes : Goes(c, [call[c] EXCEPT !.at = "answered", !.from = daemon, !.outcome = outcome])
    /\ UNCHANGED <<serviceVars, cacheVars>>

EndCall(c) ==
    /\ At(c, "answered")
    /\ RecordFailure(call[c])
    /\ Goes(c, Idle)
    /\ UNCHANGED <<serviceVars, revision, live, cliSeen, flight>>

Snapshot(c) ==
    /\ At(c, "idle") /\ Goes(c, [Idle EXCEPT !.at = "snapshot", !.from = daemon])
    /\ UNCHANGED <<serviceVars, cacheVars>>

EndSnapshot(c) ==
    /\ At(c, "snapshot") /\ Observe(call[c].from) /\ Goes(c, Idle)
    /\ UNCHANGED <<serviceVars, cliSeen, flight>>

(***************************************************************************)
(* Report                                                                  *)
(***************************************************************************)
\* The snapshot of every turn of its loop; it may fail, or the caller leaves.
Looks(c) ==
    /\ Goes(c, [Idle EXCEPT !.at = "observe", !.from = daemon]) \/ (At(c, "waits") /\ Goes(c, Idle))
    /\ UNCHANGED <<serviceVars, cacheVars>>

Report(c) == At(c, "idle") /\ Looks(c)
Woken(c) == At(c, "waits") /\ flight # call[c].from /\ Looks(c)

ObserveFirst(c) ==
    /\ At(c, "observe") /\ Observe(call[c].from) /\ Goes(c, [call[c] EXCEPT !.at = "enter"])
    /\ UNCHANGED <<serviceVars, cliSeen, flight>>

\* The lock is taken again: what is cached, the probe of another, or a probe.
Enter(c) ==
    /\ At(c, "enter")
    /\ \/ report # None /\ Goes(c, Idle) /\ UNCHANGED flight
       \/ /\ report = None /\ flight # None /\ UNCHANGED flight
          /\ Goes(c, [Idle EXCEPT !.at = "waits", !.from = flight])
       \/ /\ report = None /\ flight = None /\ flight' = c
          /\ Goes(c, [Probe EXCEPT !.revision = revision, !.about = call[c].from,
                                   !.observed = (live = call[c].from)])
    /\ UNCHANGED <<serviceVars, revision, live, cliSeen, report, unsupported>>

\* probeCapabilities asks the service and the executable in this order.
Ping(c) ==
    /\ At(c, "ping")
    /\ \E changed \in {FALSE, daemon # call[c].about} :
        Goes(c, [call[c] EXCEPT !.at = "cli", !.changed = changed])
    /\ UNCHANGED <<serviceVars, cacheVars>>

ReadCli(c) ==
    /\ At(c, "cli")
    /\ \E seen \in {0, cli} : Goes(c, [call[c] EXCEPT !.at = "finish", !.cli = seen])
    /\ UNCHANGED <<serviceVars, cacheVars>>

\* What the answers say; the executable may speak another protocol, and a
\* pane of the snapshot, if there is one, is read and measured.
FromOutcome(outcome) ==
    CASE outcome = "ok" -> "available" [] outcome = "unsupported" -> "unavailable" [] OTHER -> "unknown"

Features(p, sameProtocol, history, geometry) ==
    LET reviewed == IF p.about \in Reviewed THEN "available" ELSE "unknown"
        terminal == IF p.about \notin Reviewed THEN "unavailable"
                    ELSE IF p.cli = 0 THEN "unknown"
                    ELSE IF sameProtocol THEN "available" ELSE "unavailable"
        scroll == IF p.about \in Reviewed THEN "available" ELSE "unavailable"
        sized == IF geometry = "unsupported" THEN "unavailable" ELSE "unknown"
        lost == p.about \in Reviewed /\ geometry \in {"unsupported", "failed"} IN
    [n \in Names |->
        IF p.changed THEN "unknown"
        ELSE CASE n = "input" -> reviewed
             []   n = "history" -> IF history = "none" THEN reviewed ELSE FromOutcome(history)
             []   n = "preserve_scroll" -> IF lost THEN sized ELSE scroll
             []   n = "resize" -> IF lost /\ terminal # "unavailable" THEN sized ELSE terminal
             []   n = "observe" -> IF ~lost THEN IF p.about \in Reviewed THEN "available" ELSE terminal
                                   ELSE IF terminal # "available" /\ sized = "unknown" THEN sized
                                   ELSE terminal]

\* Fault: the cache takes the report of a service that is gone.
NeverOvertaken(p) == p.revision > revision

Overtaken(p) == p.revision # revision

\* The probe is stored unless the service changed meanwhile, the caller left
\* or something stayed unknown; another executable ends what was refused.
Finish(c) ==
    LET p == call[c]
        newCli == p.cli # 0 /\ cliSeen # 0 /\ p.cli # cliSeen IN
    /\ At(c, "finish") /\ flight' = None
    /\ \/ /\ Overtaken(p)
          /\ Goes(c, [Idle EXCEPT !.at = "observe", !.from = daemon])
          /\ UNCHANGED <<revision, live, cliSeen, report, unsupported>>
       \/ /\ ~Overtaken(p)
          /\ revision' = IF newCli THEN revision + 1 ELSE revision
          /\ unsupported' = IF newCli THEN {} ELSE unsupported
          /\ cliSeen' = IF p.cli # 0 THEN p.cli ELSE cliSeen
          /\ \/ UNCHANGED report
             \/ \E sameProtocol \in BOOLEAN, history \in Outcomes, geometry \in Outcomes, pane \in BOOLEAN :
                    LET known == IF pane THEN Features(p, sameProtocol, history, geometry)
                                 ELSE Features(p, sameProtocol, "none", "none")
                        features == Refuse(known, {e.name : e \in unsupported'}) IN
                    /\ \A n \in Names : features[n] # "unknown"
                    /\ report' = [about |-> p.about, observed |-> p.observed, features |-> features]
          /\ Goes(c, Idle) /\ UNCHANGED live
    /\ UNCHANGED serviceVars

\* A report counts for a minute.
Expire == report # None /\ report' = None /\ UNCHANGED <<serviceVars, revision, live, cliSeen, unsupported, flight, call>>

CapabilityNext ==
    \/ Replace \/ Install \/ Expire
    \/ \E c \in Callers :
        \/ BeginCall(c) \/ Answer(c) \/ EndCall(c) \/ Snapshot(c) \/ EndSnapshot(c)
        \/ Report(c) \/ Woken(c) \/ ObserveFirst(c) \/ Enter(c) \/ Ping(c) \/ ReadCli(c) \/ Finish(c)

CapabilitySpec == CapabilityInit /\ [][CapabilityNext]_capabilityVars

-----------------------------------------------------------------------------
\* When the cache knows the service that runs, what it holds comes from that
\* service, however late the answers come in: nothing another service refused,
\* for calls that began with a service known, and no report about another,
\* for probes that began with their snapshot known (RecordFailureAt, Report).
EvidenceIsCurrent ==
    live = daemon => /\ \A e \in unsupported : (e.known => e.from = daemon)
                     /\ (report # None /\ report.observed) => report.about = daemon

(***************************************************************************)
(* Why EvidenceIsCurrent holds: an invariant that every step preserves.    *)
(***************************************************************************)
\* What a caller has read so far, outside a probe and in one.
Reading ==
    [at : {"idle", "call", "answered", "snapshot", "observe", "enter", "waits"}, revision : Nat,
     known : BOOLEAN, method : Methods \cup {"none"}, from : 0..MaxVersion \cup Callers,
     outcome : Outcomes \cup {"none"}]
Probing ==
    [at : {"ping", "cli", "finish"}, revision : Nat, about : Versions, observed : BOOLEAN,
     changed : BOOLEAN, cli : 0..MaxCli]

\* No version is read before it runs, and no generation before it is reached.
ReadBefore(k) ==
    /\ k.revision <= revision
    /\ k.at \in {"answered", "snapshot", "observe", "enter"} => k.from \in 1..daemon
    /\ k.at \in {"ping", "cli", "finish"} => k.about \in 1..daemon

\* A call or a probe of this generation that began with a service known
\* meets that service or a later one.
SameGeneration(k) ==
    k.revision = revision =>
        /\ k.at \in {"call", "answered"} /\ k.known => live # 0
        /\ k.at = "answered" /\ k.known => live <= k.from
        /\ k.at \in {"ping", "cli", "finish"} /\ k.observed => k.about = live

CallFits(c) ==
    /\ call[c] \in Reading \cup Probing
    /\ ReadBefore(call[c]) /\ SameGeneration(call[c])
    /\ call[c].at \in {"ping", "cli", "finish"} => flight = c

\* What is held was said by the service known or by one that came later, a
\* report by the one known.
EvidenceFits ==
    /\ live <= daemon
    /\ \A e \in unsupported : e.known => live # 0 /\ live <= e.from /\ e.from <= daemon
    /\ (report # None /\ report.observed) => report.about = live

CapabilityInv ==
    /\ CapabilityTypeOK /\ EvidenceFits
    /\ call \in [Callers -> Reading \cup Probing]
    /\ \A c \in Callers : CallFits(c)
=============================================================================
