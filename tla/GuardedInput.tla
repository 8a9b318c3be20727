---------------------------- MODULE GuardedInput ----------------------------
(***************************************************************************)
(* Prompts and answers to dialogs that the browsers of one user send into  *)
(* a pane: internal/httpapi/prompt.go (panePrompt, promptLog) and          *)
(* dialog.go (answerPaneDialog, paneLocks).                                *)
(*                                                                         *)
(* Both look at the screen first.  A prompt that is repeated with its id   *)
(* is typed once; answers take turns, prompts do not wait for them.  Herdr *)
(* confirms keys when it has passed them on; the program draws its next    *)
(* question later.                                                         *)
(***************************************************************************)
EXTENDS OnceLog, FiniteSets

CONSTANTS
    Requests,       \* requests at a time
    None,
    Ids,            \* client_msg_id
    Capacity,       \* promptUserCapacity
    MaxQuestions,   \* bound: dialogs that the program opens
    FreeTexts       \* those with the cursor on an option that takes free text

\* What the constants have to be: an instance assumes it.
InputAssumption ==
    /\ {Capacity, MaxQuestions} \subseteq Nat \ {0} /\ FreeTexts \subseteq 1..MaxQuestions
    /\ None \notin Requests

VARIABLES
    question,   \* the dialog the program waits at, 0 for none
    asked,      \* dialogs so far
    shown,      \* the dialog on the screen
    opener,     \* whether the question came up because of an answer of the workbench
    log,        \* promptLog
    holder,     \* paneLocks: who answers the pane's dialog
    request,    \* where each request stands
    typed,      \* how often the text of an id was typed
    dropped,    \* an id whose entry was dropped, by age or for want of room
    astray      \* answers pressed at a question that another answer opened, by their screen

paneVars == <<question, asked, shown, opener>>
inputVars == <<paneVars, log, holder, request, typed, dropped, astray>>

Idle == [at |-> "idle"]
Prompt(id, text, submit) ==
    [at |-> "begin", id |-> id, text |-> text, submit |-> submit, typed |-> FALSE, on |-> None]
AnswerTo(q) == [at |-> "lock", question |-> q, screen |-> None]

Steps == {"idle", "begin", "waits", "screen", "attach", "text", "enter",
          "lock", "read", "press", "keys"}

\* The types of all variables.
InputTypeOK ==
    /\ {question, asked, shown} \subseteq 0..MaxQuestions /\ opener \in {"answer", "other"}
    /\ \A i \in DOMAIN log : log[i].id \in Ids /\ log[i].outcome \in {"running", "sent", "unknown"}
    /\ Len(log) <= Capacity /\ holder \in Requests \cup {None}
    /\ \A r \in Requests : request[r].at \in Steps
    /\ typed \in [Ids -> 0..2] /\ dropped \subseteq Ids /\ astray \subseteq {"drawn", "old"}

InputInit ==
    /\ question = 0 /\ asked = 0 /\ shown = 0 /\ opener = "other"
    /\ log = <<>> /\ holder = None
    /\ request = [r \in Requests |-> Idle]
    /\ typed = [id \in Ids |-> 0] /\ dropped = {} /\ astray = {}

At(r, step) == request[r].at = step
Goes(r, step) == request' = [request EXCEPT ![r].at = step]

(***************************************************************************)
(* The pane                                                                *)
(***************************************************************************)
NextQuestions == {0} \cup {q \in 1..MaxQuestions : q = asked + 1}

\* The program goes on, and draws at once or a little later.
MovesBy(who) ==
    /\ \E q \in NextQuestions :
        question' = q /\ asked' = (IF q = 0 THEN asked ELSE q) /\ shown' \in {q, shown}
    /\ opener' = who

\* The program asks on its own, somebody at the computer answers, or keys that
\* the workbench had given up arrive.
Elsewhere == MovesBy("other") /\ UNCHANGED <<log, holder, request, typed, dropped, astray>>

Redraw ==
    /\ shown # question /\ shown' = question
    /\ UNCHANGED <<question, asked, opener, log, holder, request, typed, dropped, astray>>

(***************************************************************************)
(* panePrompt                                                              *)
(***************************************************************************)
Ask(r) ==
    /\ At(r, "idle")
    /\ \/ \E id \in Ids, text \in BOOLEAN, submit \in BOOLEAN :
            (text \/ submit) /\ request' = [request EXCEPT ![r] = Prompt(id, text, submit)]
       \/ \E q \in 1..asked : request' = [request EXCEPT ![r] = AnswerTo(q)]
    /\ UNCHANGED <<paneVars, log, holder, typed, dropped, astray>>

Replied(r) == request' = [request EXCEPT ![r] = Idle]

\* promptLog.begin: the first goes on, the others wait for it or learn how it
\* ended.
Begin(r) ==
    LET id == request[r].id IN
    /\ At(r, "begin") /\ UNCHANGED <<paneVars, holder, typed, astray>>
    /\ \/ /\ Has(log, id) /\ UNCHANGED <<log, dropped>>
          /\ IF EntryOf(log, id).outcome = "running" THEN Goes(r, "waits") ELSE Replied(r)
       \/ /\ ~Has(log, id) /\ HasRoom(log, Capacity) /\ Goes(r, "screen")
          /\ log' = Begun(log, [id |-> id, outcome |-> "running"], Capacity)
          /\ dropped' = dropped \cup {i \in Ids : Has(log, i) /\ ~Has(log', i)}
       \/ /\ ~Has(log, id) /\ ~HasRoom(log, Capacity) /\ Replied(r)
          /\ UNCHANGED <<log, dropped>>

\* A waiting browser leaves.
Leave(r) ==
    /\ At(r, "waits") /\ request' = [request EXCEPT ![r] = Idle]
    /\ UNCHANGED <<paneVars, log, holder, typed, dropped, astray>>

\* Entries of ten minutes ago are deleted.
Expire(id) ==
    /\ Has(log, id) /\ EntryOf(log, id).outcome # "running"
    /\ log' = Without(log, id) /\ dropped' = dropped \cup {id}
    /\ UNCHANGED <<paneVars, holder, request, typed, astray>>

\* Fault: an uncertain delivery is forgotten like a refused one.
RecordSent(outcome) == IF outcome = "unknown" THEN "forgotten" ELSE outcome

Record(outcome) == outcome

\* The request ends and its entry with it; who waited learns the outcome, or
\* tries again when nothing was sent.
Finish(r, outcome) ==
    LET id == request[r].id
        waiting == {w \in Requests : At(w, "waits") /\ request[w].id = id} IN
    /\ log' = Ended(log, id, Record(outcome))
    /\ request' = [w \in Requests |->
            IF w = r THEN Idle
            ELSE IF w \notin waiting THEN request[w]
            ELSE IF outcome = "forgotten" THEN [request[w] EXCEPT !.at = "begin"] ELSE Idle]
    /\ UNCHANGED <<holder, dropped, astray>>

\* The host is out of reach, a dialog is open, or a draft lies in the
\* box and the user did not say to send all the same.
Refused(r) ==
    /\ At(r, "screen") /\ Finish(r, "forgotten")
    /\ UNCHANGED <<paneVars, typed>>

\* No dialog is open, or the text goes into the box of one.
Checked(r) ==
    /\ At(r, "screen") /\ shown \in {0} \cup FreeTexts
    /\ Goes(r, "attach")
    /\ UNCHANGED <<paneVars, log, holder, typed, dropped, astray>>

\* inputContext: the access still stands, or it does not.
Attach(r) ==
    /\ At(r, "attach") /\ Goes(r, IF request[r].text THEN "text" ELSE "enter")
    /\ UNCHANGED <<paneVars, log, holder, typed, dropped, astray>>

AttachFails(r) == At(r, "attach") /\ Finish(r, "forgotten") /\ UNCHANGED <<paneVars, typed>>

Typed(r) == typed' = [typed EXCEPT ![request[r].id] = IF @ = 2 THEN 2 ELSE @ + 1]

\* What goes into a pane with a dialog may answer it, also one that came up
\* after the screen was read.
Reaches == UNCHANGED paneVars \/ (question # 0 /\ MovesBy("other"))

\* The text goes in and is confirmed.
SendText(r) ==
    /\ At(r, "text") /\ Typed(r) /\ Reaches
    /\ \/ /\ request[r].submit
          /\ request' = [request EXCEPT ![r].at = "enter", ![r].typed = TRUE]
          /\ UNCHANGED <<log, holder, dropped, astray>>
       \/ ~request[r].submit /\ Finish(r, "sent")

\* Herdr refuses it, or nobody knows whether it went in.
TextRefused(r) == At(r, "text") /\ Finish(r, "forgotten") /\ UNCHANGED <<paneVars, typed>>

TextUnknown(r) ==
    /\ At(r, "text") /\ ((Typed(r) /\ Reaches) \/ UNCHANGED <<paneVars, typed>>)
    /\ Finish(r, "unknown")

\* The Enter is a call of its own.
SendEnter(r) ==
    /\ At(r, "enter") /\ Reaches
    /\ IF request[r].text THEN UNCHANGED typed ELSE Typed(r)
    /\ Finish(r, "sent")

EnterUnknown(r) ==
    /\ At(r, "enter") /\ Reaches
    /\ IF request[r].text THEN UNCHANGED typed ELSE (Typed(r) \/ UNCHANGED typed)
    /\ Finish(r, "unknown")

(***************************************************************************)
(* answerPaneDialog                                                        *)
(***************************************************************************)
\* Fault: answers do not wait for each other.
NoLock == holder \in Requests \cup {None}

Free == holder = None

Lock(r) ==
    /\ At(r, "lock") /\ Free /\ holder' = r /\ Goes(r, "read")
    /\ UNCHANGED <<paneVars, log, typed, dropped, astray>>

LockTimeout(r) ==
    /\ At(r, "lock") /\ Replied(r)
    /\ UNCHANGED <<paneVars, log, holder, typed, dropped, astray>>

Unlock(r) == holder' = IF holder = r THEN None ELSE holder

\* The screen is read again: the dialog must still be the one of the card.  It
\* may be a screen that the program has not drawn again yet.
ReadDialog(r) ==
    /\ At(r, "read") /\ UNCHANGED <<paneVars, log, typed, dropped, astray>>
    /\ \/ /\ shown = request[r].question /\ UNCHANGED holder
          /\ request' = [request EXCEPT ![r].at = "press",
                              ![r].screen = IF shown = question THEN "drawn" ELSE "old"]
       \/ Replied(r) /\ Unlock(r)

AttachKeys(r) ==
    /\ At(r, "press") /\ UNCHANGED <<paneVars, log, typed, dropped, astray>>
    /\ \/ Goes(r, "keys") /\ UNCHANGED holder
       \/ Replied(r) /\ Unlock(r)

\* The keys answer whatever the program asks now.  They are confirmed, and the
\* pane is given to the next answer, before the program draws again.
PressKeys(r) ==
    /\ At(r, "keys") /\ Replied(r) /\ Unlock(r)
    /\ IF question = 0 THEN UNCHANGED <<paneVars, astray>>
       ELSE /\ MovesBy("answer")
            /\ astray' = IF question # request[r].question /\ opener = "answer"
                         THEN astray \cup {request[r].screen} ELSE astray
    /\ UNCHANGED <<log, typed, dropped>>

\* Nobody knows whether they were pressed, or will be.
KeysLost(r) ==
    /\ At(r, "keys") /\ Replied(r) /\ Unlock(r)
    /\ UNCHANGED <<paneVars, log, typed, dropped, astray>>

InputNext ==
    \/ Elsewhere \/ Redraw
    \/ \E id \in Ids : Expire(id)
    \/ \E r \in Requests :
        \/ Ask(r) \/ Begin(r) \/ Leave(r) \/ Refused(r) \/ Checked(r) \/ Attach(r) \/ AttachFails(r)
        \/ SendText(r) \/ TextRefused(r) \/ TextUnknown(r) \/ SendEnter(r) \/ EnterUnknown(r)
        \/ Lock(r) \/ LockTimeout(r) \/ ReadDialog(r) \/ AttachKeys(r) \/ PressKeys(r) \/ KeysLost(r)

InputSpec == InputInit /\ [][InputNext]_inputVars

-----------------------------------------------------------------------------
\* A prompt is typed once however often it is repeated, at the same time or
\* after a delivery that nobody could be sure of, while its entry is kept; and
\* what the log calls sent was typed (promptLog, panePrompt).
PromptOnce ==
    /\ \A id \in Ids : typed[id] > 1 => id \in dropped
    /\ \A i \in DOMAIN log : log[i].outcome = "sent" => typed[log[i].id] > 0

\* Between the screen an answer reads and its keys no other answer comes in: if
\* the screen was drawn, its keys meet the question of its card, or one that
\* another hand opened meanwhile (the pane locks of answerPaneDialog).  An answer
\* that read an old screen may well hit the question the last one opened.
AnswersTakeTurns == "drawn" \notin astray
=============================================================================
