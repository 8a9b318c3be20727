---------------------------- MODULE SessionStart ----------------------------
(***************************************************************************)
(* Starting an agent session in a new pane: internal/httpapi/sessions.go   *)
(* (startSession, sessionStarts, runSessionStart, verifyNewPane).          *)
(*                                                                         *)
(* A start is made of calls to the host, each of which may fail without    *)
(* saying what it did.  A start that is repeated with its id gets the      *)
(* answer of the first one, unless that one surely created nothing.        *)
(***************************************************************************)
EXTENDS OnceLog, FiniteSets

CONSTANTS
    Requests,   \* requests at a time
    None,
    Ids,        \* request_id
    Contents,   \* what a request asks for: its fingerprint
    Zsh,        \* the contents whose launcher is an alias of zsh
    Capacity,   \* sessionStartUserCapacity
    MaxPanes    \* bound: panes that are created

\* What the constants have to be: an instance assumes it.
SessionAssumption == {Capacity, MaxPanes} \subseteq Nat \ {0} /\ None \notin Requests

VARIABLES
    log,        \* sessionStarts
    request,    \* where each request stands
    pane,       \* the panes created, in their order
    dropped     \* an id whose entry was dropped, by age or for want of room

sessionVars == <<log, request, pane, dropped>>

Idle == [at |-> "idle", id |-> None, content |-> None, pane |-> 0, shell |-> "none"]
Foregrounds == {"zsh", "sh", "other"}

\* The types of all variables.
SessionTypeOK ==
    /\ \A i \in DOMAIN log : /\ log[i].id \in Ids /\ log[i].content \in Contents
                             /\ log[i].outcome \in {"running", "replied"}
    /\ Len(log) <= Capacity
    /\ \A r \in Requests :
        /\ request[r].at \in {"idle", "begin", "waits", "attach", "open", "create", "shell", "foreground", "verify", "send"}
        /\ request[r].pane \in 0..MaxPanes
    /\ \A p \in DOMAIN pane : /\ pane[p].id \in Ids /\ pane[p].content \in Contents
                              /\ pane[p].cwd \in BOOLEAN /\ pane[p].commands \in 0..2
    /\ dropped \subseteq Ids

SessionInit == log = <<>> /\ request = [r \in Requests |-> Idle] /\ pane = <<>> /\ dropped = {}

At(r, step) == request[r].at = step
Goes(r, step) == request' = [request EXCEPT ![r].at = step]
Replied(r) == request' = [request EXCEPT ![r] = Idle]

(***************************************************************************)
(* The host                                                                *)
(***************************************************************************)
\* workspace.create and tab.create: a directory that does not exist becomes
\* another one.
Creates(r) ==
    \E cwd \in BOOLEAN :
        pane' = Append(pane, [id |-> request[r].id, content |-> request[r].content,
                              cwd |-> cwd, commands |-> 0])

(***************************************************************************)
(* The table                                                               *)
(***************************************************************************)
Ask(r) ==
    /\ At(r, "idle")
    /\ \E id \in Ids, content \in Contents :
        request' = [request EXCEPT ![r] = [Idle EXCEPT !.at = "begin", !.id = id, !.content = content]]
    /\ UNCHANGED <<log, pane, dropped>>

\* Fault: what is asked for is not compared.
SameAnyhow(entry, content) == entry.outcome # "none"

Same(entry, content) == entry.content = content

Begin(r) ==
    LET id == request[r].id
        content == request[r].content
        entry == EntryOf(log, id) IN
    /\ At(r, "begin") /\ UNCHANGED pane
    /\ \/ /\ Has(log, id) /\ UNCHANGED <<log, dropped>>
          /\ IF Same(entry, content) /\ entry.outcome = "running" THEN Goes(r, "waits") ELSE Replied(r)
       \/ /\ ~Has(log, id) /\ HasRoom(log, Capacity) /\ Goes(r, "attach")
          /\ log' = Begun(log, [id |-> id, content |-> content, outcome |-> "running"], Capacity)
          /\ dropped' = dropped \cup {i \in Ids : Has(log, i) /\ ~Has(log', i)}
       \/ /\ ~Has(log, id) /\ ~HasRoom(log, Capacity) /\ Replied(r)
          /\ UNCHANGED <<log, dropped>>

\* A waiting browser leaves.
Leave(r) == At(r, "waits") /\ Replied(r) /\ UNCHANGED <<log, pane, dropped>>

\* Answers of ten minutes ago are deleted.
Expire(id) ==
    /\ Has(log, id) /\ EntryOf(log, id).outcome # "running"
    /\ log' = Without(log, id) /\ dropped' = dropped \cup {id}
    /\ UNCHANGED <<request, pane>>

\* The start ends; those who waited get its answer, or try on their own when
\* nothing was created.
Finish(r, outcome) ==
    LET id == request[r].id
        waiting == {w \in Requests : At(w, "waits") /\ request[w].id = id} IN
    /\ log' = Ended(log, id, outcome)
    /\ request' = [w \in Requests |->
            IF w = r \/ (w \in waiting /\ outcome = "replied") THEN Idle
            ELSE IF w \in waiting THEN [request[w] EXCEPT !.at = "begin"] ELSE request[w]]
    /\ UNCHANGED dropped

(***************************************************************************)
(* runSessionStart                                                         *)
(***************************************************************************)
\* inputContext
Attach(r) == At(r, "attach") /\ Goes(r, "open") /\ UNCHANGED <<log, pane, dropped>>

\* The access was revoked, the host is out of reach, it does not know the
\* launcher or the workspace is gone: nothing was created.
Refused(r) == (At(r, "attach") \/ At(r, "open")) /\ Finish(r, "forgotten") /\ UNCHANGED pane

Open(r) == At(r, "open") /\ Goes(r, "create") /\ UNCHANGED <<log, pane, dropped>>

CreateOK(r) ==
    /\ At(r, "create") /\ Len(pane) < MaxPanes /\ Creates(r)
    /\ request' = [request EXCEPT ![r].at = "shell", ![r].pane = Len(pane) + 1]
    /\ UNCHANGED <<log, dropped>>

\* Herdr says no.
CreateRefused(r) == At(r, "create") /\ Finish(r, "forgotten") /\ UNCHANGED pane

\* Fault: a start that nobody is sure of may be tried again.
RetryUnknown == "forgotten"

UnknownCreate == "replied"

\* Nobody knows, or the answer does not say which pane.
CreateUnknown(r) ==
    /\ At(r, "create") /\ Finish(r, UnknownCreate)
    /\ UNCHANGED pane \/ (Len(pane) < MaxPanes /\ Creates(r))

\* waitForShell: something is on the screen, or it took too long.
ShellSeen(r) == At(r, "shell") /\ Goes(r, "foreground") /\ UNCHANGED <<log, pane, dropped>>

\* waitForForegroundShell: a shell, what was read last, or nothing.
ForegroundShell(r) ==
    /\ At(r, "foreground") /\ UNCHANGED <<log, pane, dropped>>
    /\ \E f \in Foregrounds : request' = [request EXCEPT ![r].at = "verify", ![r].shell = f]

ForegroundUnknown(r) == At(r, "foreground") /\ Finish(r, "replied") /\ UNCHANGED pane

\* verifyNewPane: the directory and the shell fit what was asked for.
Fits(p, shell) ==
    /\ pane[p].cwd
    /\ shell \in {"zsh", "sh"} /\ (pane[p].content \in Zsh => shell = "zsh")

Verified(r) ==
    /\ At(r, "verify") /\ Fits(request[r].pane, request[r].shell) /\ Goes(r, "send")
    /\ UNCHANGED <<log, pane, dropped>>

\* It does not fit, or the snapshot fails; the pane stays open.
Mismatch(r) == At(r, "verify") /\ Finish(r, "replied") /\ UNCHANGED pane

\* The launcher's line and Enter in one call.
SendCommand(r) ==
    /\ At(r, "send") /\ Finish(r, "replied")
    /\ pane' = [pane EXCEPT ![request[r].pane].commands = IF @ = 2 THEN 2 ELSE @ + 1]

SendFails(r) == At(r, "send") /\ Finish(r, "replied") /\ UNCHANGED pane

SessionNext ==
    \/ \E id \in Ids : Expire(id)
    \/ \E r \in Requests :
        \/ Ask(r) \/ Begin(r) \/ Leave(r) \/ Attach(r) \/ Refused(r) \/ Open(r) \/ CreateOK(r)
        \/ CreateRefused(r) \/ CreateUnknown(r) \/ ShellSeen(r) \/ ForegroundShell(r) \/ ForegroundUnknown(r)
        \/ Verified(r) \/ Mismatch(r) \/ SendCommand(r) \/ SendFails(r)

SessionSpec == SessionInit /\ [][SessionNext]_sessionVars

-----------------------------------------------------------------------------
Of(id) == {p \in DOMAIN pane : pane[p].id = id}

\* While a start is remembered, its id has created one pane at most, however
\* often it was repeated, failed or was left; the command went into it once
\* at most, and only into a pane in the right directory (startSession,
\* sessionStarts, runSessionStart).
StartOnce ==
    /\ \A id \in Ids : Cardinality(Of(id)) > 1 => id \in dropped
    /\ \A p \in DOMAIN pane : pane[p].commands <= 1 /\ (pane[p].commands = 1 => pane[p].cwd)

\* A browser that waits for a start waits for one of the same content: the
\* answer it will get is about what it asked for (the fingerprint).
WaitsForItsOwn ==
    \A r \in Requests : At(r, "waits") =>
        Has(log, request[r].id) /\ EntryOf(log, request[r].id).content = request[r].content
=============================================================================
