----------------------------- MODULE MCControlledHost --------------------------
(***************************************************************************)
(* TLC instance of a controlled host: the program's updates, its service   *)
(* and its configuration; the screens of panes, the prompts and answers to *)
(* dialogs that are typed into them, and the sessions that are started.    *)
(* They share no state here, so a behaviour runs one of them and leaves    *)
(* the others where they begin.                                            *)
(***************************************************************************)
EXTENDS MCUpdater, ServiceInstall, OnceLog, TLC

CONSTANTS
    Requests,                   \* what browsers and commands ask at a time
    Nobody, Ids, Capacity,      \* GuardedInput, SessionStart: promptUserCapacity, sessionStartUserCapacity
    MaxQuestions, FreeTexts,    \* GuardedInput
    Contents, Zsh, MaxPanes,    \* SessionStart
    Conns, MaxId, MaxTokens,    \* LegacyAgent
    MaxChanges, MaxClock,       \* ScreenReads
    Observers,                  \* ScreenSignal
    Line, Blank, MaxLines, MaxCandidates, MaxWatches, MaxFrames \* ScreenFeed

VARIABLES
    part,                                                       \* which of them runs
    file, durable, holder, server, memory, caller, conn, lastId, lastToken, unpaired, \* LegacyAgent
    screen, clock, watch, kick, kickedAt, needs, read, current, result, \* ScreenReads
    signal, observer, canceled, subscribers, joined, changed, dirty, \* ScreenSignal
    generation, feed, requests, frames, watched, view, \* ScreenFeed
    question, asked, shown, opener, prompts, answering, input, typed, dropped, astray, \* GuardedInput
    starts, start, pane, forgotten                              \* SessionStart

Agent == INSTANCE LegacyAgent WITH Commands <- Requests, daemon <- server, command <- caller
Reads == INSTANCE ScreenReads WITH Windows <- Requests
Signal == INSTANCE ScreenSignal WITH Viewers <- Requests, entry <- signal
Feed == INSTANCE ScreenFeed WITH current <- generation, asked <- watched
Input == INSTANCE GuardedInput WITH
    None <- Nobody, log <- prompts, request <- input, holder <- answering
Sessions == INSTANCE SessionStart WITH
    None <- Nobody, log <- starts, request <- start, dropped <- forgotten

\* What the requests that log what they did need.
RequestsAssumption == Input!InputAssumption /\ Sessions!SessionAssumption

\* The parts get the constants they assume.
ASSUME PartsAssumption ==
    /\ ServiceAssumption /\ Reads!ScreenAssumption /\ Signal!SignalAssumption
    /\ Feed!FeedAssumption /\ RequestsAssumption /\ Agent!AgentAssumption

agentVars == <<file, durable, holder, server, memory, caller, conn, lastId, lastToken, unpaired>>
readsVars == <<screen, clock, watch, kick, kickedAt, needs, read, current, result>>
signalVars == <<signal, observer, canceled, subscribers, joined, changed, dirty>>
feedVars == <<generation, feed, requests, frames, watched, view>>
inputVars == <<question, asked, shown, opener, prompts, answering, input, typed, dropped, astray>>
startVars == <<starts, start, pane, forgotten>>
paneVars == <<readsVars, signalVars, feedVars, inputVars, startVars>>

\* A part that does not run has one initial state.
PartsInit ==
    /\ part \in {"update", "service", "agent", "reads", "signal", "feed", "input", "start"}
    /\ Init /\ ServiceInit /\ Agent!AgentInit
    /\ Reads!ScreenInit /\ Signal!SignalInit /\ Feed!ScreenFeedInit
    /\ Input!InputInit /\ Sessions!SessionInit
    /\ part # "update" => stable = b1
    /\ part # "service" => os = "linux" /\ disk = Absent

ProgramNext ==
    \/ part = "update" /\ Next /\ UNCHANGED <<serviceVars, agentVars>>
    \/ part = "service" /\ ServiceNext /\ UNCHANGED <<vars, agentVars>>
    \/ part = "agent" /\ Agent!AgentNext /\ UNCHANGED <<vars, serviceVars>>

PaneNext ==
    \/ part = "reads" /\ Reads!ScreenNext
        /\ UNCHANGED <<signalVars, feedVars, inputVars, startVars>>
    \/ part = "signal" /\ Signal!SignalNext
        /\ UNCHANGED <<readsVars, feedVars, inputVars, startVars>>
    \/ part = "feed" /\ Feed!ScreenFeedNext
        /\ UNCHANGED <<readsVars, signalVars, inputVars, startVars>>
    \/ part = "input" /\ Input!InputNext
        /\ UNCHANGED <<readsVars, signalVars, feedVars, startVars>>
    \/ part = "start" /\ Sessions!SessionNext
        /\ UNCHANGED <<readsVars, signalVars, feedVars, inputVars>>

PartsNext ==
    \/ ProgramNext /\ UNCHANGED <<part, paneVars>>
    \/ PaneNext /\ UNCHANGED <<part, vars, serviceVars, agentVars>>

PartsSpec == PartsInit /\ [][PartsNext]_<<part, vars, serviceVars, agentVars, paneVars>>

Symmetry == Permutations(Requests)

\* The types of the variables of the part that runs.
PartsTypeOK ==
    /\ part = "update" => TypeOK
    /\ part = "service" => ServiceTypeOK
    /\ part = "agent" => Agent!AgentTypeOK
    /\ part = "reads" => Reads!ScreenTypeOK
    /\ part = "signal" => Signal!SignalTypeOK
    /\ part = "feed" => Feed!ScreenFeedTypeOK
    /\ part = "input" => Input!InputTypeOK
    /\ part = "start" => Sessions!SessionTypeOK

\* A prompt is typed once, answers to a dialog take turns, a session is
\* started once and waits for its own pane: PromptOnce, AnswersTakeTurns,
\* StartOnce, WaitsForItsOwn (panePrompt, answerPaneDialog, startSession).
RequestsActOnce ==
    /\ Input!PromptOnce /\ Input!AnswersTakeTurns
    /\ Sessions!StartOnce /\ Sessions!WaitsForItsOwn

\* What was revoked stays revoked, a request is served for the identity its
\* connection belongs to, and no command puts an old identity back:
\* after every step RevokedStays and RunsForItsIdentity, and IdentityIsKept.
RevocationHolds ==
    /\ [][part = "agent" => (Agent!RevokedStays /\ Agent!RunsForItsIdentity)']_agentVars
    /\ Agent!IdentityIsKept

\* The windows of a pane share one observer, a read that an input asked for
\* began after it, and what a window shows is a screen that was read for it:
\* ReadSeesInput, and after every step OneObserver and WindowShowsScreen.
ScreensAreTrue ==
    /\ [][part = "signal" => Signal!OneObserver']_signalVars
    /\ [][part = "feed" => Feed!WindowShowsScreen']_feedVars
    /\ Reads!ReadSeesInput
=============================================================================
