---------------------------- MODULE ScreenReads ----------------------------
(***************************************************************************)
(* Windows that look at the screen of one pane and share their reads:      *)
(* internal/httpapi/screen.go (watchScreen, runScreen, screenReads).       *)
(*                                                                         *)
(* A read is shared by every window that may accept it: one that started   *)
(* after the window's last input.  The clock counts the moments at which   *)
(* somebody looked at it; the screen is the number of its changes.         *)
(***************************************************************************)
EXTENDS Integers

CONSTANTS
    Windows,
    None,           \* no entry
    MaxChanges,     \* bound: changes of the screen
    MaxClock        \* bound: moments

\* What the constants have to be: an instance assumes it.
ScreenAssumption == {MaxChanges, MaxClock} \subseteq Nat /\ None \notin Windows

VARIABLES
    screen,     \* the pane's content
    clock,
    watch,      \* screenWatch: where the goroutine of each window stands
    kick,       \* its channel holds a kick
    kickedAt,   \* the time of the last kick it took
    needs,      \* what was on the screen then, until it is shown
    read,       \* the last read that each window started
    current,    \* screenReads.entries: the window whose read it is
    result      \* what readScreen got for the window

watchVars == <<watch, kick, kickedAt, needs>>
readVars == <<read, current, result>>
screenVars == <<screen, clock, watchVars, readVars>>

NoRead == [at |-> "none", started |-> 0, content |-> 0, outcome |-> "none"]
NoResult == [outcome |-> "none", content |-> 0, shared |-> FALSE]
Outcomes == {"none", "ok", "failed", "canceled"}

\* The types of all variables.
ScreenTypeOK ==
    /\ screen \in 1..MaxChanges + 1 /\ clock \in 0..MaxClock
    /\ watch \in [Windows -> [at : {"off", "timer", "reads", "shares", "got", "again"},
                              tries : 0..2, from : 0..MaxClock, with : Windows \cup {None}, canceled : BOOLEAN]]
    /\ kick \in [Windows -> BOOLEAN] /\ kickedAt \in [Windows -> 0..MaxClock]
    /\ needs \in [Windows -> 0..MaxChanges + 1]
    /\ current \in Windows \cup {None}
    /\ read \in [Windows -> [at : {"none", "started", "fetched", "settled"}, started : 0..MaxClock,
                             content : 0..MaxChanges + 1, outcome : Outcomes]]
    /\ result \in [Windows -> [outcome : Outcomes, content : 0..MaxChanges + 1, shared : BOOLEAN]]

Off == [at |-> "off", tries |-> 0, from |-> 0, with |-> None, canceled |-> FALSE]

ScreenInit ==
    /\ screen = 1 /\ clock = 0 /\ watch = [w \in Windows |-> Off]
    /\ kick = [w \in Windows |-> FALSE] /\ kickedAt = [w \in Windows |-> 0]
    /\ needs = [w \in Windows |-> 0]
    /\ read = [w \in Windows |-> NoRead] /\ current = None
    /\ result = [w \in Windows |-> NoResult]

Stands(w, at) == watch' = [watch EXCEPT ![w].at = at]

\* watchScreen
Watch(w) ==
    /\ watch[w].at = "off"
    /\ watch' = [watch EXCEPT ![w] = [Off EXCEPT !.at = "timer"]]
    /\ kick' = [kick EXCEPT ![w] = FALSE]
    /\ kickedAt' = [kickedAt EXCEPT ![w] = 0] /\ needs' = [needs EXCEPT ![w] = 0]
    /\ UNCHANGED <<screen, clock, readVars>>

\* unwatchScreen, closeScreens, another watch of the window, the end of access.
Unwatch(w) ==
    /\ watch[w].at # "off" /\ ~watch[w].canceled
    /\ IF watch[w].at = "timer" THEN watch' = [watch EXCEPT ![w] = Off]
       ELSE watch' = [watch EXCEPT ![w].canceled = TRUE]
    /\ UNCHANGED <<screen, clock, kick, kickedAt, needs, readVars>>

\* The program in the pane prints.
Change ==
    /\ screen <= MaxChanges /\ screen' = screen + 1
    /\ UNCHANGED <<clock, watchVars, readVars>>

\* Input reaches the pane; kickScreen follows.
Input(w) ==
    /\ watch[w].at # "off" /\ ~watch[w].canceled /\ screen <= MaxChanges
    /\ screen' = screen + 1 /\ kick' = [kick EXCEPT ![w] = TRUE]
    /\ UNCHANGED <<clock, watch, kickedAt, needs, readVars>>

\* runScreen takes the kick and reads again after a moment.
TakeKick(w) ==
    /\ watch[w].at = "timer" /\ kick[w] /\ clock < MaxClock
    /\ kick' = [kick EXCEPT ![w] = FALSE]
    /\ clock' = clock + 1 /\ kickedAt' = [kickedAt EXCEPT ![w] = clock + 1]
    /\ needs' = [needs EXCEPT ![w] = screen]
    /\ UNCHANGED <<screen, watch, readVars>>

(***************************************************************************)
(* screenReads.read                                                        *)
(***************************************************************************)
\* Fault: any read that is young enough is shared.
Young(r, notBefore) == r.at # "none"

\* An entry may be shared by a caller that wants a read from then on.
Accepts(r, notBefore) == r.at # "none" /\ r.started >= notBefore

\* A caller shares the entry of the map if it may and if it is young enough,
\* or reads on its own and puts its entry there.
Join(w, notBefore, tries) ==
    \/ /\ current # None /\ Accepts(read[current], notBefore)
       /\ IF read[current].at = "settled"
          THEN /\ watch' = [watch EXCEPT ![w].at = "got", ![w].tries = tries]
               /\ result' = [result EXCEPT ![w] = [outcome |-> read[current].outcome,
                                content |-> read[current].content, shared |-> TRUE]]
          ELSE /\ watch' = [watch EXCEPT ![w].at = "shares", ![w].tries = tries,
                                         ![w].with = current]
               /\ UNCHANGED result
       /\ UNCHANGED <<read, current>>
    \/ /\ watch' = [watch EXCEPT ![w].at = "reads", ![w].tries = tries]
       /\ read' = [u \in Windows |->
            IF u = w THEN [NoRead EXCEPT !.at = "started", !.started = clock]
            ELSE IF read[u].at = "settled" THEN NoRead ELSE read[u]]
       /\ current' = w
       /\ UNCHANGED result

TimerFires(w) ==
    /\ watch[w].at = "timer" /\ Join(w, kickedAt[w], 1)
    /\ UNCHANGED <<screen, clock, kick, kickedAt, needs>>

\* pane.read reaches Herdr.
Fetch(w) ==
    /\ watch[w].at = "reads" /\ read[w].at = "started"
    /\ read' = [read EXCEPT ![w].at = "fetched", ![w].content = screen]
    /\ UNCHANGED <<screen, clock, watchVars, current, result>>

\* The answer, an error or a timeout settle the entry for all who share it;
\* the entry of a canceled reader leaves the map.
Settle(w, outcome) ==
    LET r == [outcome |-> outcome, content |-> read[w].content, shared |-> FALSE]
        sharing == {u \in Windows : watch[u].at = "shares" /\ watch[u].with = w} IN
    /\ watch[w].at = "reads"
    /\ outcome = "ok" => read[w].at = "fetched"
    /\ outcome = "canceled" => watch[w].canceled
    /\ read' = [read EXCEPT ![w] = IF watch[w].canceled \/ current # w THEN NoRead
                                   ELSE [@ EXCEPT !.at = "settled", !.outcome = outcome]]
    /\ current' = IF watch[w].canceled /\ current = w THEN None ELSE current
    /\ result' = [u \in Windows |-> IF u = w THEN r
                                    ELSE IF u \in sharing THEN [r EXCEPT !.shared = TRUE]
                                    ELSE result[u]]
    /\ watch' = [u \in Windows |-> IF u \in sharing \cup {w}
                                   THEN [watch[u] EXCEPT !.at = "got", !.with = None]
                                   ELSE watch[u]]
    /\ UNCHANGED <<screen, clock, kick, kickedAt, needs>>

\* Entries that settled a second ago are deleted.
Forget ==
    /\ current # None /\ read[current].at = "settled" /\ current' = None
    /\ read' = [read EXCEPT ![current] = NoRead]
    /\ UNCHANGED <<screen, clock, watchVars, result>>

\* A canceled window leaves a read that it shares.
LeaveShared(w) ==
    /\ watch[w].at = "shares" /\ watch[w].canceled
    /\ watch' = [watch EXCEPT ![w] = Off]
    /\ UNCHANGED <<screen, clock, kick, kickedAt, needs, readVars>>

(***************************************************************************)
(* readScreen and runScreen with the result                                *)
(***************************************************************************)
\* Canceled by another window: one more read, from now on.
Retry(w) ==
    LET r == result[w] IN
    /\ watch[w].at = "got" /\ ~watch[w].canceled /\ watch[w].tries = 1
    /\ r.shared /\ r.outcome = "canceled" /\ clock < MaxClock
    /\ clock' = clock + 1
    /\ watch' = [watch EXCEPT ![w].at = "again", ![w].from = clock + 1]
    /\ result' = [result EXCEPT ![w] = NoResult]
    /\ UNCHANGED <<screen, kick, kickedAt, needs, read, current>>

Again(w) ==
    /\ watch[w].at = "again" /\ Join(w, watch[w].from, 2)
    /\ UNCHANGED <<screen, clock, kick, kickedAt, needs>>

\* A frame for the browser, an error for it, or the end of the watch.
Deliver(w) ==
    LET r == result[w] IN
    /\ watch[w].at = "got" /\ UNCHANGED <<screen, clock, kick, kickedAt, read, current>>
    /\ result' = [result EXCEPT ![w] = NoResult]
    /\ \/ /\ r.outcome = "ok"
          /\ watch' = [watch EXCEPT ![w] = IF @.canceled THEN Off ELSE [Off EXCEPT !.at = "timer"]]
          /\ needs' = [needs EXCEPT ![w] = 0]
       \/ /\ r.outcome # "ok" /\ watch[w].canceled
          /\ watch' = [watch EXCEPT ![w] = Off] /\ UNCHANGED needs
       \/ /\ r.outcome # "ok" /\ ~watch[w].canceled
          /\ ~(r.shared /\ r.outcome = "canceled" /\ watch[w].tries = 1)
          /\ watch' = [watch EXCEPT ![w] = [Off EXCEPT !.at = "timer"]]
          /\ UNCHANGED needs

ScreenNext ==
    \/ Change \/ Forget
    \/ \E w \in Windows :
        \/ Watch(w) \/ Unwatch(w) \/ Input(w) \/ TakeKick(w) \/ TimerFires(w) \/ Fetch(w)
        \/ LeaveShared(w) \/ Retry(w) \/ Again(w) \/ Deliver(w)
        \/ \E outcome \in {"ok", "failed", "canceled"} : Settle(w, outcome)

ScreenSpec == ScreenInit /\ [][ScreenNext]_screenVars

-----------------------------------------------------------------------------
\* A window that reread after its input shows at least what was on the
\* screen when it took the kick, although other windows' reads answer it,
\* fail or are canceled (readScreen with notBefore, screenReads.read).
ReadSeesInput ==
    [][\A w \in Windows : (watch'[w].at = "timer" /\ watch[w].at # "off" /\ needs[w] # 0 /\ needs'[w] = 0)
        => result[w].content >= needs[w]]_screenVars

-----------------------------------------------------------------------------
Complete(r) == r.at = "fetched" \/ (r.at = "settled" /\ r.outcome = "ok")

\* A read that started after a window took its kick has what was on the screen.
ReadsFit ==
    \A u \in Windows :
        /\ read[u].started <= clock
        /\ read[u].at \in {"started", "fetched"} <=> watch[u].at = "reads"
        /\ Complete(read[u]) =>
            \A w \in Windows : read[u].started >= kickedAt[w] => read[u].content >= needs[w]

\* A window waits for such a read, and has the answer of one.
WatchFits(w) ==
    /\ kickedAt[w] <= clock /\ needs[w] <= screen
    /\ watch[w].at = "reads" => read[w].started >= kickedAt[w]
    /\ watch[w].at = "shares" =>
        \E u \in Windows : watch[w].with = u /\ watch[u].at = "reads" /\ read[u].started >= kickedAt[w]
    /\ watch[w].at = "again" => kickedAt[w] <= watch[w].from /\ watch[w].from <= clock
    /\ watch[w].at = "got" /\ result[w].outcome = "ok" => result[w].content >= needs[w]

\* The inductive invariant.
ReadsInv == ScreenTypeOK /\ ReadsFit /\ \A w \in Windows : WatchFits(w)
=============================================================================
