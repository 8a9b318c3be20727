----------------------------- MODULE MCTerminals -----------------------------
(***************************************************************************)
(* TLC instance of what a window of the workbench holds: the size of a     *)
(* terminal, the canvas of an observer, scrolling, the position of the     *)
(* page, and voice sessions.                                               *)
(* They share no state here, so a behaviour runs one of them and leaves    *)
(* the others where they begin.                                            *)
(***************************************************************************)
EXTENDS MCGeometryControl, WorkbenchPosition

CONSTANTS
    Sizes,                                                                  \* ViewportFollow
    MaxGestures, MaxConns,                                                  \* Scroll
    Logins, Users, UserOf, MaxPerUser, MaxSessions, MaxTickets, MaxMinted, MaxEpoch \* VoiceGateway

VARIABLES
    part,                                                       \* which of them runs
    size, given, lease, controllerSize, rendered, revision, probe, watcher, asks, canvas, \* ViewportFollow
    over, stop, mu, current, generation, idle, fired, conns, sender, gestures, quiet, \* Scroll
    tickets, minted, issues, epoch, shut, perUser, active, closers, stopping, ended, request, session \* VoiceGateway

Viewport == INSTANCE ViewportFollow WITH
    Empty <- NoStream, leases <- given, queue <- asks
Scrolling == INSTANCE Scroll WITH
    Senders <- Streams, None <- NoStream, closing <- stop
Voice == INSTANCE VoiceGateway WITH
    Requests <- Streams, None <- NoStream, asks <- issues, closed <- shut

\* All logins are of one user.
OneUser == [l \in Logins |-> CHOOSE u \in Users : TRUE]

\* The parts get the constants they assume.
ASSUME PartsAssumption ==
    /\ Viewport!ViewportAssumption
    /\ Scrolling!ScrollAssumption
    /\ PositionAssumption
    /\ Voice!VoiceAssumption

viewportVars ==
    <<size, given, lease, controllerSize, rendered, revision, probe, watcher, asks, canvas>>
scrollVars == <<over, stop, mu, current, generation, idle, fired, conns, sender, gestures, quiet>>
voiceVars ==
    <<tickets, minted, issues, epoch, shut, perUser, active, closers, stopping, ended, request, session>>

\* A part that does not run has one initial state.
TerminalsInit ==
    /\ part \in {"size", "viewport", "scroll", "position", "voice"}
    /\ Init /\ Viewport!ViewportInit /\ Scrolling!ScrollInit
    /\ PositionInit /\ Voice!VoiceInit
    /\ part # "size" => events = {"close"}
    /\ part # "viewport" => size = CHOOSE x \in Sizes : TRUE

TerminalsNext ==
    \/ part = "size" /\ Next
        /\ UNCHANGED <<part, viewportVars, scrollVars, positionVars, voiceVars>>
    \/ part = "viewport" /\ Viewport!ViewportNext
        /\ UNCHANGED <<part, vars, scrollVars, positionVars, voiceVars>>
    \/ part = "scroll" /\ Scrolling!ScrollNext
        /\ UNCHANGED <<part, vars, viewportVars, positionVars, voiceVars>>
    \/ part = "position" /\ PositionNext
        /\ UNCHANGED <<part, vars, viewportVars, scrollVars, voiceVars>>
    \/ part = "voice" /\ Voice!VoiceNext
        /\ UNCHANGED <<part, vars, viewportVars, scrollVars, positionVars>>

TerminalsSpec ==
    TerminalsInit /\ [][TerminalsNext]_<<part, vars, viewportVars, scrollVars, positionVars, voiceVars>>

\* The types of the variables of the part that runs.
TerminalsTypeOK ==
    /\ part = "size" => TypeOK
    /\ part = "viewport" => Viewport!ViewportTypeOK
    /\ part = "scroll" => Scrolling!ScrollTypeOK
    /\ part = "position" => PositionTypeOK
    /\ part = "voice" => Voice!VoiceTypeOK

\* ViewportNeverGoesBack of an observer's canvas.
ViewportNeverGoesBack == Viewport!ViewportNeverGoesBack

\* A connection for scrolling is released when its gesture is over, no sooner
\* and at last: ReleasesWhenQuiet, and after every step HeldIsWatched and
\* LastGestureArrives.
GesturesAreWhole ==
    /\ [][part = "scroll" => (Scrolling!HeldIsWatched /\ Scrolling!LastGestureArrives)']_scrollVars
    /\ Scrolling!ReleasesWhenQuiet

\* A ticket admits one voice session of its user at most, and the slots are
\* those of the sessions: TicketGrantsOnce, and after every step SlotsExact.
VoiceIsCounted == [][part = "voice" => Voice!SlotsExact']_voiceVars /\ Voice!TicketGrantsOnce
=============================================================================
