---------------------------- MODULE ScreenSignal ----------------------------
(***************************************************************************)
(* The read-only observer of one pane that tells every window looking at   *)
(* it that the screen changed: internal/httpapi/screen.go                  *)
(* (subscribeSignal, runSignal, screenSignalState).                        *)
(*                                                                         *)
(* The first window starts the observer, the last one ends it; the process *)
(* takes its time to end, and another observer may have taken its place in *)
(* the map by then.                                                        *)
(***************************************************************************)
EXTENDS Naturals

CONSTANTS
    Viewers,    \* windows
    Observers   \* bound: observers that are ever started

VARIABLES
    entry,      \* screenReads.signals: the observer in the map, 0 for none
    observer,   \* where each observer's goroutine stands
    canceled,   \* its context
    subscribers,\* the windows of each observer
    joined,     \* the observer of each window, 0 for none
    changed,    \* a change waits in the window's channel
    dirty       \* the screen changed and the window does not know yet

signalVars == <<entry, observer, canceled, subscribers, joined, changed, dirty>>

\* What the constants have to be: an instance assumes it.
SignalAssumption == Observers \subseteq Nat \ {0}

Running == {"opening", "open", "closing"}

\* The types of all variables.
SignalTypeOK ==
    /\ entry \in Observers \cup {0}
    /\ observer \in [Observers -> {"unused", "ended"} \cup Running]
    /\ canceled \in [Observers -> BOOLEAN]
    /\ subscribers \in [Observers -> SUBSET Viewers]
    /\ joined \in [Viewers -> Observers \cup {0}]
    /\ changed \in [Viewers -> BOOLEAN] /\ dirty \in [Viewers -> BOOLEAN]

SignalInit ==
    /\ entry = 0
    /\ observer = [o \in Observers |-> "unused"]
    /\ canceled = [o \in Observers |-> FALSE]
    /\ subscribers = [o \in Observers |-> {}]
    /\ joined = [v \in Viewers |-> 0]
    /\ changed = [v \in Viewers |-> FALSE] /\ dirty = [v \in Viewers |-> FALSE]

Joins(v, o) ==
    /\ joined' = [joined EXCEPT ![v] = o]
    /\ subscribers' = [subscribers EXCEPT ![o] = @ \cup {v}]
    /\ changed' = [changed EXCEPT ![v] = FALSE]

\* connect, subscribeSignal
Subscribe(v) ==
    /\ joined[v] = 0
    /\ \/ entry # 0 /\ Joins(v, entry) /\ UNCHANGED <<entry, observer>>
       \/ /\ entry = 0
          /\ \E o \in Observers :
                /\ observer[o] = "unused"
                /\ \A other \in Observers : observer[other] = "unused" => o <= other
                /\ Joins(v, o) /\ entry' = o
                /\ observer' = [observer EXCEPT ![o] = "opening"]
    /\ UNCHANGED <<canceled, dirty>>

\* releaseSub: the watch ended, or the observer did (lost).
Release(v) ==
    LET o == joined[v]
        rest == subscribers[o] \ {v} IN
    /\ o # 0 /\ joined' = [joined EXCEPT ![v] = 0]
    /\ subscribers' = [subscribers EXCEPT ![o] = rest]
    /\ changed' = [changed EXCEPT ![v] = FALSE]
    /\ IF rest = {}
       THEN /\ canceled' = [canceled EXCEPT ![o] = TRUE]
            /\ entry' = IF entry = o THEN 0 ELSE entry
       ELSE UNCHANGED <<canceled, entry>>
    /\ UNCHANGED <<observer, dirty>>

Stands(o, at) == observer' = [observer EXCEPT ![o] = at]

\* openScreenObserver
Opened(o) ==
    /\ observer[o] = "opening" /\ Stands(o, "open")
    /\ UNCHANGED <<entry, canceled, subscribers, joined, changed, dirty>>

\* It could not be opened, was canceled, or the terminal closed.
Closes(o) ==
    /\ observer[o] \in {"opening", "open"} /\ Stands(o, "closing")
    /\ UNCHANGED <<entry, canceled, subscribers, joined, changed, dirty>>

\* Fault: whatever is in the map goes.
Removed(o) == 0

\* The map keeps another observer.
Left(o) == IF entry = o THEN 0 ELSE entry

\* The deferred end of runSignal.
Ended(o) ==
    /\ observer[o] = "closing" /\ Stands(o, "ended")
    /\ entry' = Left(o)
    /\ canceled' = [canceled EXCEPT ![o] = TRUE]
    /\ UNCHANGED <<subscribers, joined, changed, dirty>>

\* The pane redraws: windows with an open observer will hear of it.
Redraw ==
    /\ dirty' = [v \in Viewers |-> joined[v] # 0 /\ observer[joined[v]] = "open"]
    /\ UNCHANGED <<entry, observer, canceled, subscribers, joined, changed>>

Frame(o) ==
    /\ observer[o] = "open" /\ \E v \in subscribers[o] : dirty[v]
    /\ changed' = [v \in Viewers |-> changed[v] \/ v \in subscribers[o]]
    /\ dirty' = [v \in Viewers |-> dirty[v] /\ v \notin subscribers[o]]
    /\ UNCHANGED <<entry, observer, canceled, subscribers, joined>>

\* The window takes the change and reads the screen.
Take(v) ==
    /\ changed[v] /\ changed' = [changed EXCEPT ![v] = FALSE]
    /\ UNCHANGED <<entry, observer, canceled, subscribers, joined, dirty>>

\* The window sees the end of its observer.
Lost(v) == joined[v] # 0 /\ observer[joined[v]] = "ended" /\ Release(v)

SignalNext ==
    \/ Redraw
    \/ \E v \in Viewers : Subscribe(v) \/ Release(v) \/ Take(v) \/ Lost(v)
    \/ \E o \in Observers : Opened(o) \/ Closes(o) \/ Ended(o) \/ Frame(o)

SignalSpec == SignalInit /\ [][SignalNext]_signalVars

-----------------------------------------------------------------------------
\* An observer that runs on serves the windows that look now and is the one
\* the next window will join: nobody opens a second one beside it, and none
\* is left behind on the host without a reader (subscribeSignal, runSignal).
OneObserver ==
    \A o \in Observers :
        (observer[o] \in {"opening", "open"} /\ ~canceled[o])
        => entry = o /\ subscribers[o] = {v \in Viewers : joined[v] = o} /\ subscribers[o] # {}

\* The inductive invariant: the windows of an observer are those that joined
\* it, and one that was never started has none and is not in the map.
SignalInv ==
    /\ SignalTypeOK /\ OneObserver
    /\ \A o \in Observers :
        /\ subscribers[o] = {v \in Viewers : joined[v] = o}
        /\ observer[o] = "unused" => subscribers[o] = {} /\ entry # o
=============================================================================
