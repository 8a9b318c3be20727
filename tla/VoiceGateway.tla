----------------------------- MODULE VoiceGateway -----------------------------
(***************************************************************************)
(* Voice sessions: internal/voicegateway (gateway.go, session.go) and the  *)
(* routes of internal/httpapi/voice.go.                                    *)
(*                                                                         *)
(* A login asks for a ticket and spends it on a WebSocket; the request     *)
(* takes one of the slots of its user and of the gateway, dials the        *)
(* upstream and relays until either leg, a limit, the end of the login or  *)
(* Close ends it.  An expired ticket answers as one that is gone, so       *)
(* expiry is its removal.                                                  *)
(***************************************************************************)
EXTENDS Integers, FiniteSets

CONSTANTS
    Requests,     \* requests of /api/voice/ws
    Logins,
    Users,
    UserOf,       \* [Logins -> Users]
    None,
    MaxPerUser,   \* MaxSessionsPerUser
    MaxSessions,
    MaxTickets,   \* MaxOutstandingTickets
    MaxMinted,    \* bound: tickets that are issued
    MaxEpoch      \* bound: InvalidateTickets

\* What Config.Validate admits.
Validated == MaxPerUser \in Nat \ {0} /\ MaxSessions \in Nat /\ MaxPerUser <= MaxSessions

\* What the constants have to be: an instance assumes it.
VoiceAssumption ==
    /\ Validated /\ UserOf \in [Logins -> Users] /\ None \notin Requests \cup Logins
    /\ {MaxTickets, MaxMinted, MaxEpoch} \subseteq Nat /\ IsFiniteSet(Requests)

VARIABLES
    tickets,     \* g.tickets
    minted,      \* g.ticketsN: the ticket values are 1..minted
    asks,        \* the epoch an IssueTicket has read, 0 when none runs
    epoch,       \* g.epoch
    closed,      \* g.closed
    perUser,     \* g.perUser
    active,      \* g.active
    closers,     \* g.closers
    stopping,    \* the sessions Close has still to shut down
    ended,       \* logins whose lease has ended
    request,     \* where each request stands, the ticket it spent
    session      \* its Session

gatewayVars == <<tickets, minted, asks, epoch>>
slotVars == <<perUser, active>>
voiceVars == <<gatewayVars, closed, slotVars, closers, stopping, ended, request, session>>

\* Why a relay ends: the pump that failed or was done, whichever way, a timer
\* (limit, idle), the gateway, the login, a context whose cause is not looked
\* up.
Causes == {"browser", "upstream", "timer", "stopped", "login", "canceled"}

NoSession == [up |-> "none", ctx |-> "none", pumps |-> {}, first |-> "none", released |-> FALSE]

Tickets == [value : 1..MaxMinted, login : Logins, epoch : 1..(MaxEpoch + 1), asked : 1..(MaxEpoch + 1)]
Steps == {"idle", "consumed", "claimed", "accepted", "dialing", "opened", "refused",
          "dialed", "relay", "closing", "joining", "over"}
Asked == [at : Steps, login : Logins \cup {None}, value : 0..MaxMinted]
Sessions == [up : {"none", "open", "closed"}, ctx : Causes \cup {"none", "live"}, pumps : SUBSET {"browser", "upstream"},
             first : Causes \cup {"none"}, released : BOOLEAN]

\* The types of all variables.
VoiceTypeOK ==
    /\ tickets \subseteq Tickets
    /\ minted \in 0..MaxMinted /\ epoch \in 1..(MaxEpoch + 1) /\ asks \in [Logins -> 0..epoch]
    /\ closed \in BOOLEAN /\ perUser \in [Users -> 0..MaxPerUser] /\ active \in 0..MaxSessions
    /\ closers \subseteq Requests /\ stopping \subseteq Requests /\ ended \subseteq Logins
    /\ request \in [Requests -> Asked] /\ session \in [Requests -> Sessions]

VoiceInit ==
    /\ tickets = {} /\ minted = 0 /\ asks = [l \in Logins |-> 0] /\ epoch = 1 /\ closed = FALSE
    /\ perUser = [u \in Users |-> 0] /\ active = 0 /\ closers = {} /\ stopping = {} /\ ended = {}
    /\ request = [r \in Requests |-> [at |-> "idle", login |-> None, value |-> 0]]
    /\ session = [r \in Requests |-> NoSession]

At(r, step) == request[r].at = step
Goes(r, step) == request' = [request EXCEPT ![r].at = step]
Over(r) == request' = [request EXCEPT ![r].at = "over", ![r].login = None]
Owner(r) == UserOf[request[r].login]

(***************************************************************************)
(* Tickets                                                                 *)
(***************************************************************************)
Outstanding(u) == Cardinality({t \in tickets : UserOf[t.login] = u})

\* IssueTicket up to its first unlock: the epoch is read here.
Ask(l) ==
    /\ l \notin ended /\ asks[l] = 0 /\ ~closed /\ Outstanding(UserOf[l]) < MaxTickets
    /\ asks' = [asks EXCEPT ![l] = epoch]
    /\ UNCHANGED <<tickets, minted, epoch, closed, slotVars, closers, stopping, ended, request, session>>

\* The limiter or the entropy refuses, or the gateway was closed meanwhile.
AskFails(l) ==
    /\ asks[l] # 0 /\ asks' = [asks EXCEPT ![l] = 0]
    /\ UNCHANGED <<tickets, minted, epoch, closed, slotVars, closers, stopping, ended, request, session>>

\* Fault: the ticket carries the epoch of its insertion.
StampsLate(l) == epoch

Stamp(l) == asks[l]

\* Neither the epoch nor the number of tickets is looked at again.
Mint(l) ==
    /\ asks[l] # 0 /\ ~closed /\ minted < MaxMinted
    /\ minted' = minted + 1
    /\ tickets' = tickets \cup {[value |-> minted + 1, login |-> l, epoch |-> Stamp(l), asked |-> asks[l]]}
    /\ asks' = [asks EXCEPT ![l] = 0]
    /\ UNCHANGED <<epoch, closed, slotVars, closers, stopping, ended, request, session>>

Expire(t) ==
    /\ tickets' = tickets \ {t}
    /\ UNCHANGED <<minted, asks, epoch, closed, slotVars, closers, stopping, ended, request, session>>

InvalidateTickets ==
    /\ epoch <= MaxEpoch
    /\ epoch' = epoch + 1 /\ tickets' = {}
    /\ UNCHANGED <<minted, asks, closed, slotVars, closers, stopping, ended, request, session>>

Spent(t) == tickets \ {t}

\* consume: the ticket goes whatever the checks say.
Consume(r, l, t) ==
    /\ At(r, "idle") /\ l \notin ended
    /\ tickets' = Spent(t)
    /\ request' = [request EXCEPT ![r] =
            IF t.epoch = epoch /\ t.login = l THEN [at |-> "consumed", login |-> l, value |-> t.value]
                                              ELSE [@ EXCEPT !.at = "over"]]
    /\ UNCHANGED <<minted, asks, epoch, closed, slotVars, closers, stopping, ended, session>>

(***************************************************************************)
(* Slots                                                                   *)
(***************************************************************************)
\* Gateway.release
Frees(u) ==
    /\ perUser' = [perUser EXCEPT ![u] = IF @ > 0 THEN @ - 1 ELSE @]
    /\ active' = IF active > 0 THEN active - 1 ELSE active

Full(u) == perUser[u] >= MaxPerUser \/ active >= MaxSessions

Reserve(r) ==
    /\ At(r, "consumed")
    /\ IF closed \/ Full(Owner(r))
       THEN Over(r) /\ UNCHANGED slotVars
       ELSE /\ Goes(r, "claimed") /\ active' = active + 1
            /\ perUser' = [perUser EXCEPT ![Owner(r)] = @ + 1]
    /\ UNCHANGED <<gatewayVars, closed, closers, stopping, ended, session>>

\* Claim.Release: the upgrade fails, or the login has ended meanwhile.
Release(r) ==
    /\ At(r, "claimed") \/ (At(r, "accepted") /\ request[r].login \in ended)
    /\ Over(r) /\ Frees(Owner(r))
    /\ UNCHANGED <<gatewayVars, closed, closers, stopping, ended, session>>

Accept(r) ==
    /\ At(r, "claimed") /\ Goes(r, "accepted")
    /\ UNCHANGED <<gatewayVars, closed, slotVars, closers, stopping, ended, session>>

(***************************************************************************)
(* Dialing                                                                 *)
(***************************************************************************)
StartDial(r) ==
    /\ At(r, "accepted") /\ request[r].login \notin ended /\ Goes(r, "dialing")
    /\ UNCHANGED <<gatewayVars, closed, slotVars, closers, stopping, ended, session>>

DialFails(r) ==
    /\ At(r, "dialing") /\ Over(r) /\ Frees(Owner(r))
    /\ UNCHANGED <<gatewayVars, closed, closers, stopping, ended, session>>

DialOpens(r) ==
    /\ At(r, "dialing") /\ Goes(r, "opened")
    /\ session' = [session EXCEPT ![r].up = "open"]
    /\ UNCHANGED <<gatewayVars, closed, slotVars, closers, stopping, ended>>

Register(r) ==
    /\ At(r, "opened")
    /\ IF closed
       THEN /\ Goes(r, "refused") /\ session' = [session EXCEPT ![r].up = "closed"]
            /\ UNCHANGED closers
       ELSE Goes(r, "dialed") /\ closers' = closers \cup {r} /\ UNCHANGED session
    /\ UNCHANGED <<gatewayVars, closed, slotVars, stopping, ended>>

DialRefused(r) ==
    /\ At(r, "refused") /\ Over(r) /\ Frees(Owner(r))
    /\ UNCHANGED <<gatewayVars, closed, closers, stopping, ended, session>>

(***************************************************************************)
(* The relay                                                               *)
(***************************************************************************)
\* Fault: what was released is released again.
ReleasesAgain(r) == Frees(Owner(r))

\* Session.release frees the slot once.
ReleasesOnce(r) == IF session[r].released THEN UNCHANGED slotVars ELSE Frees(Owner(r))

Gone(s) == [s EXCEPT !.up = "closed", !.released = TRUE]

Relay(r) ==
    /\ At(r, "dialed") /\ Goes(r, "relay")
    /\ session' = [session EXCEPT ![r].pumps = {"browser", "upstream"},
                                  ![r].ctx = IF request[r].login \in ended THEN "login" ELSE "live"]
    /\ UNCHANGED <<gatewayVars, closed, slotVars, closers, stopping, ended>>

\* A pump ends: by itself, or because the context has ended -- which a read
\* tells with its cause and a write as a plain cancellation.
PumpEnds(r, pump) ==
    LET s == session[r] IN
    /\ pump \in s.pumps
    /\ \E result \in {pump} \cup (IF s.ctx = "live" THEN {} ELSE {s.ctx, "canceled"}) :
        session' = [session EXCEPT ![r] = [s EXCEPT !.pumps = @ \ {pump},
                                                    !.first = IF @ = "none" /\ At(r, "relay") THEN result ELSE @]]
    /\ UNCHANGED <<gatewayVars, closed, slotVars, closers, stopping, ended, request>>

pumpBrowser(r) == PumpEnds(r, "browser")
pumpUpstream(r) == PumpEnds(r, "upstream")

Cancel(s, cause) == IF s.ctx = "live" THEN [s EXCEPT !.ctx = cause] ELSE s

\* The timer of the session and watchIdle.
RunsOut(r) ==
    /\ session[r].ctx = "live" /\ session' = [session EXCEPT ![r] = Cancel(@, "timer")]
    /\ UNCHANGED <<gatewayVars, closed, slotVars, closers, stopping, ended, request>>

\* Relay: the first result cancels the rest, and is reported.
First(r) ==
    /\ At(r, "relay") /\ session[r].first # "none" /\ Goes(r, "closing")
    /\ session' = [session EXCEPT ![r].ctx = "canceled", ![r].first = "none"]
    /\ UNCHANGED <<gatewayVars, closed, slotVars, closers, stopping, ended>>

CloseLegs(r) ==
    /\ At(r, "closing") /\ Goes(r, "joining")
    /\ session' = [session EXCEPT ![r].up = "closed"]
    /\ UNCHANGED <<gatewayVars, closed, slotVars, closers, stopping, ended>>

Join(r) ==
    /\ At(r, "joining") /\ session[r].pumps = {} /\ Over(r)
    /\ session' = [session EXCEPT ![r] = Gone(@)]
    /\ ReleasesOnce(r) /\ closers' = closers \ {r}
    /\ UNCHANGED <<gatewayVars, closed, stopping, ended>>

(***************************************************************************)
(* The end of a login, and of the gateway                                  *)
(***************************************************************************)
EndLogin(l) ==
    /\ l \notin ended /\ ended' = ended \cup {l}
    /\ session' = [r \in Requests |-> IF request[r].login = l THEN Cancel(session[r], "login") ELSE session[r]]
    /\ UNCHANGED <<gatewayVars, closed, slotVars, closers, stopping, request>>

Close ==
    /\ ~closed /\ closed' = TRUE
    /\ tickets' = {} /\ stopping' = closers /\ closers' = {}
    /\ UNCHANGED <<minted, asks, epoch, slotVars, ended, request, session>>

\* Fault: a session whose relay has not begun is left to its relay.
SkipsUnstarted(r) == UNCHANGED <<session, slotVars>>

\* Without a relay to cancel, the upstream is closed here.
EndsUnstarted(r) == session' = [session EXCEPT ![r] = Gone(@)] /\ ReleasesOnce(r)

shutdown(r) ==
    /\ r \in stopping /\ stopping' = stopping \ {r}
    /\ IF session[r].ctx = "none"
       THEN EndsUnstarted(r)
       ELSE session' = [session EXCEPT ![r] = Cancel(@, "stopped")] /\ UNCHANGED slotVars
    /\ UNCHANGED <<gatewayVars, closed, closers, ended, request>>

-----------------------------------------------------------------------------
RequestStep(r) ==
    \/ Reserve(r) \/ Release(r) \/ Accept(r) \/ StartDial(r) \/ DialFails(r) \/ DialOpens(r)
    \/ Register(r) \/ DialRefused(r) \/ Relay(r) \/ First(r) \/ CloseLegs(r) \/ Join(r)

VoiceNext ==
    \/ \E l \in Logins : Ask(l) \/ AskFails(l) \/ Mint(l) \/ EndLogin(l)
    \/ \E t \in tickets : Expire(t)
    \/ \E r \in Requests, l \in Logins, t \in tickets : Consume(r, l, t)
    \/ \E r \in Requests : RequestStep(r) \/ shutdown(r)
    \/ \E r \in Requests : pumpBrowser(r) \/ pumpUpstream(r) \/ RunsOut(r)
    \/ InvalidateTickets \/ Close

\* A handler goes on, a dial has a timeout, and a pump ends once its context
\* has ended or, for the upstream one, once the upstream is closed.
VoiceFairness ==
    \A r \in Requests :
        /\ WF_voiceVars(RequestStep(r)) /\ WF_voiceVars(shutdown(r))
        /\ WF_voiceVars(session[r].ctx # "live" /\ pumpBrowser(r))
        /\ WF_voiceVars((session[r].ctx # "live" \/ session[r].up = "closed") /\ pumpUpstream(r))

VoiceSpec == VoiceInit /\ [][VoiceNext]_voiceVars
VoiceLive == VoiceSpec /\ VoiceFairness

-----------------------------------------------------------------------------
Holds(r) ==
    /\ request[r].at \in {"claimed", "accepted", "dialing", "opened", "refused", "dialed", "relay", "closing", "joining"}
    /\ ~session[r].released

\* The slots in use are those of the requests that claimed one and have not
\* given it back, in all and for every user, and an open upstream holds one
\* (reserve, release, Session.release; shutdown racing Relay).
SlotsExact ==
    /\ active = Cardinality({r \in Requests : Holds(r)})
    /\ \A u \in Users : perUser[u] = Cardinality({r \in Requests : Holds(r) /\ Owner(r) = u})
    /\ \A r \in Requests : session[r].up = "open" => Holds(r)

\* A request goes on only with a ticket of its own login that no other
\* request was given and that was asked for after the last InvalidateTickets
\* (IssueTicket, consume).
TicketGrantsOnce ==
    [][\A r \in Requests : At(r, "idle") /\ request'[r].at = "consumed" =>
        /\ \A other \in Requests \ {r} : request[other].value # request'[r].value
        /\ \E t \in tickets : /\ t.value = request'[r].value /\ t.login = request'[r].login
                              /\ t.asked = epoch]_voiceVars

\* After Close, and after the end of its login, a session gives back its slot
\* and leaves no upstream open (Close, shutdown, Relay).
VoiceEnds ==
    \A r \in Requests : (closed \/ request[r].login \in ended) ~> ~Holds(r)

-----------------------------------------------------------------------------
\* Before a request has a session that Close knows of.
Unregistered == {"idle", "consumed", "claimed", "accepted", "dialing", "opened", "refused"}

\* Where a request stands and what its session is fit.
RequestFits(r) ==
    /\ request[r].at \notin {"idle", "over"} => request[r].login \in Logins
    /\ request[r].at \in Unregistered => ~session[r].released /\ r \notin closers \cup stopping
    /\ request[r].at \in Unregistered \cup {"dialed"} => session[r].ctx = "none"
    /\ request[r].at \in {"relay", "closing", "joining"} => session[r].ctx # "none"
    /\ r \in closers \cup stopping /\ request[r].at = "over" => session[r].ctx # "none"
    /\ session[r].up = "open" => request[r].at \in {"opened", "dialed", "relay", "closing", "joining"} /\ Holds(r)

\* A ticket has a value of its own, which no request was given, and the epoch
\* that was read for it.
TicketsFit ==
    /\ \A t \in tickets : t.value <= minted /\ t.epoch = t.asked /\ \A r \in Requests : request[r].value # t.value
    /\ \A t, u \in tickets : t.value = u.value => t = u
    /\ \A r \in Requests : request[r].value <= minted

\* The inductive invariant.
VoiceInv == VoiceTypeOK /\ TicketsFit /\ SlotsExact /\ \A r \in Requests : RequestFits(r)

=============================================================================
