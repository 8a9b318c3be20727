---------------------------- MODULE ScreenProofs ----------------------------
(***************************************************************************)
(* Theorems about the screen of a pane, for every value of the constants:  *)
(* ScreenSignal, ScreenReads and ScreenFeed, and what they say of the      *)
(* behaviours of MCControlledHost.                                         *)
(***************************************************************************)
EXTENDS MCControlledHost, SequenceTheorems, WellFoundedInduction, FiniteSetTheorems, TLAPS

----------------------------------------------------------------------------
(* The observer that the windows of a pane share.                          *)

\* A window joins the observer in the map, or the first one that is not used.
LEMMA SubscribeKeeps ==
    ASSUME Signal!SignalAssumption, Signal!SignalInv, NEW v \in Requests, Signal!Subscribe(v)
    PROVE  Signal!SignalInv'
<1>1. ASSUME NEW o \in Observers, Signal!Joins(v, o), joined[v] = 0, signal' = o, UNCHANGED <<canceled, dirty>>,
             \/ signal = o /\ UNCHANGED observer
             \/ signal = 0 /\ observer[o] = "unused" /\ observer' = [observer EXCEPT ![o] = "opening"]
      PROVE  Signal!SignalInv'
  <2>1. /\ subscribers' = [subscribers EXCEPT ![o] = subscribers[o] \cup {v}] /\ joined' = [joined EXCEPT ![v] = o]
        /\ changed' = [changed EXCEPT ![v] = FALSE]
    BY <1>1 DEF Signal!Joins
  <2>2. Signal!SignalTypeOK'
    BY <1>1, <2>1 DEF Signal!SignalInv, Signal!SignalTypeOK, Signal!Running
  <2>3. \A p \in Observers : subscribers'[p] = {w \in Requests : joined'[w] = p}
    <3> SUFFICES ASSUME NEW p \in Observers PROVE subscribers'[p] = {w \in Requests : joined'[w] = p}
      OBVIOUS
    <3>1. p # 0 /\ subscribers[p] = {w \in Requests : joined[w] = p}
      BY DEF Signal!SignalAssumption, Signal!SignalInv
    <3>2. CASE p = o
      BY <1>1, <2>1, <3>1, <3>2 DEF Signal!SignalInv, Signal!SignalTypeOK
    <3>3. CASE p # o
      BY <1>1, <2>1, <3>1, <3>3 DEF Signal!SignalInv, Signal!SignalTypeOK
    <3> QED BY <3>2, <3>3
  <2>4. \A p \in Observers : observer'[p] = "unused" => subscribers'[p] = {} /\ signal' # p
    BY <1>1, <2>1 DEF Signal!SignalInv, Signal!SignalTypeOK
  <2>5. Signal!OneObserver'
    <3> SUFFICES ASSUME NEW p \in Observers, observer'[p] \in {"opening", "open"}, ~canceled'[p]
                 PROVE  signal' = p /\ subscribers'[p] # {}
      BY <2>3 DEF Signal!OneObserver
    <3>1. CASE p = o
      BY <1>1, <2>1, <3>1 DEF Signal!SignalInv, Signal!SignalTypeOK
    <3>2. CASE p # o
      <4>1. observer[p] \in {"opening", "open"} /\ ~canceled[p]
        BY <1>1, <3>2 DEF Signal!SignalInv, Signal!SignalTypeOK
      <4> QED BY <1>1, <3>2, <4>1 DEF Signal!SignalInv, Signal!OneObserver, Signal!SignalAssumption
    <3> QED BY <3>1, <3>2
  <2> QED BY <2>2, <2>3, <2>4, <2>5 DEF Signal!SignalInv
<1>2. CASE signal # 0
  BY <1>1, <1>2 DEF Signal!Subscribe, Signal!SignalInv, Signal!SignalTypeOK
<1>3. CASE signal = 0
  BY <1>1, <1>3 DEF Signal!Subscribe
<1> QED BY <1>2, <1>3

\* A window leaves; the last one ends the observer.
LEMMA ReleaseKeeps ==
    ASSUME Signal!SignalAssumption, Signal!SignalInv, NEW v \in Requests, Signal!Release(v)
    PROVE  Signal!SignalInv'
<1>0. PICK o : o = joined[v]
  OBVIOUS
<1>r. PICK rest : rest = subscribers[o] \ {v}
  OBVIOUS
<1>1. /\ o # 0 /\ joined' = [joined EXCEPT ![v] = 0] /\ subscribers' = [subscribers EXCEPT ![o] = rest]
      /\ changed' = [changed EXCEPT ![v] = FALSE] /\ UNCHANGED <<observer, dirty>>
      /\ \/ rest = {} /\ canceled' = [canceled EXCEPT ![o] = TRUE] /\ signal' = IF signal = o THEN 0 ELSE signal
         \/ rest # {} /\ UNCHANGED <<canceled, signal>>
  BY <1>0, <1>r DEF Signal!Release
<1>2. o \in Observers /\ rest \subseteq Requests
  BY <1>0, <1>1, <1>r DEF Signal!SignalInv, Signal!SignalTypeOK
<1>3. Signal!SignalTypeOK'
  BY <1>1, <1>2 DEF Signal!SignalInv, Signal!SignalTypeOK
<1>4. \A p \in Observers : subscribers'[p] = {w \in Requests : joined'[w] = p}
  <2> SUFFICES ASSUME NEW p \in Observers PROVE subscribers'[p] = {w \in Requests : joined'[w] = p}
    OBVIOUS
  <2>1. p # 0 /\ subscribers[p] = {w \in Requests : joined[w] = p}
    BY DEF Signal!SignalAssumption, Signal!SignalInv
  <2>2. CASE p = o
    BY <1>1, <1>r, <2>1, <2>2 DEF Signal!SignalInv, Signal!SignalTypeOK
  <2>3. CASE p # o
    BY <1>0, <1>1, <2>1, <2>3 DEF Signal!SignalInv, Signal!SignalTypeOK
  <2> QED BY <2>2, <2>3
<1>5. \A p \in Observers : observer'[p] = "unused" => subscribers'[p] = {} /\ signal' # p
  <2> SUFFICES ASSUME NEW p \in Observers, observer'[p] = "unused" PROVE subscribers'[p] = {} /\ signal' # p
    OBVIOUS
  <2>1. p # 0 /\ subscribers[p] = {} /\ signal # p
    BY <1>1 DEF Signal!SignalAssumption, Signal!SignalInv
  <2> QED BY <1>1, <1>2, <1>r, <2>1 DEF Signal!SignalInv, Signal!SignalTypeOK
<1>6. Signal!OneObserver'
  <2> SUFFICES ASSUME NEW p \in Observers, observer'[p] \in {"opening", "open"}, ~canceled'[p]
               PROVE  signal' = p /\ subscribers'[p] # {}
    BY <1>4 DEF Signal!OneObserver
  <2>1. ~canceled[p] /\ signal = p /\ subscribers[p] # {}
    BY <1>1, <1>2 DEF Signal!SignalInv, Signal!SignalTypeOK, Signal!OneObserver
  <2> QED BY <1>1, <1>2, <2>1 DEF Signal!SignalInv, Signal!SignalTypeOK
<1> QED BY <1>3, <1>4, <1>5, <1>6 DEF Signal!SignalInv

\* An observer goes on, or ends.
LEMMA ObserverKeeps ==
    ASSUME Signal!SignalAssumption, Signal!SignalInv, NEW o \in Observers,
           Signal!Opened(o) \/ Signal!Closes(o) \/ Signal!Ended(o)
    PROVE  Signal!SignalInv'
<1>1. /\ UNCHANGED <<subscribers, joined, changed, dirty>> /\ observer[o] # "unused" /\ o # 0
      /\ signal' = signal \/ (signal' = Signal!Left(o) /\ observer[o] = "closing")
  BY DEF Signal!Opened, Signal!Closes, Signal!Ended, Signal!SignalAssumption
<1>2. PICK at \in {"open", "closing", "ended"} :
        /\ observer' = [observer EXCEPT ![o] = at]
        /\ at = "ended" \/ (UNCHANGED <<signal, canceled>> /\ (at = "open" => observer[o] = "opening"))
        /\ at = "ended" => observer[o] = "closing" /\ signal' = Signal!Left(o) /\ canceled' = [canceled EXCEPT ![o] = TRUE]
  BY DEF Signal!Opened, Signal!Closes, Signal!Ended, Signal!Stands
<1>3. Signal!SignalTypeOK'
  BY <1>1, <1>2 DEF Signal!SignalInv, Signal!SignalTypeOK, Signal!Running, Signal!Left
<1>4. \A p \in Observers : observer'[p] = "unused" => observer[p] = "unused" /\ p # o
  BY <1>2 DEF Signal!SignalInv, Signal!SignalTypeOK
<1>5. \A p \in Observers : signal' # p \/ signal' = signal
  BY <1>1 DEF Signal!Left, Signal!SignalAssumption
<1>6. Signal!OneObserver'
  <2> SUFFICES ASSUME NEW p \in Observers, observer'[p] \in {"opening", "open"}, ~canceled'[p]
               PROVE  signal' = p /\ subscribers'[p] = {v \in Requests : joined'[v] = p} /\ subscribers'[p] # {}
    BY DEF Signal!OneObserver
  <2>1. /\ observer[p] \in {"opening", "open"} /\ ~canceled[p] /\ (p = o => signal' = signal)
    BY <1>2 DEF Signal!SignalInv, Signal!SignalTypeOK
  <2>2. signal = p /\ subscribers[p] = {v \in Requests : joined[v] = p} /\ subscribers[p] # {}
    BY <2>1 DEF Signal!SignalInv, Signal!OneObserver
  <2> QED BY <1>1, <1>2, <2>1, <2>2 DEF Signal!Left
<1> QED BY <1>1, <1>3, <1>4, <1>5, <1>6 DEF Signal!SignalInv

\* What a window hears changes no observer.
LEMMA HearingKeeps ==
    ASSUME Signal!SignalInv, UNCHANGED <<signal, observer, canceled, subscribers, joined>>,
           changed' \in [Requests -> BOOLEAN], dirty' \in [Requests -> BOOLEAN]
    PROVE  Signal!SignalInv'
BY DEF Signal!SignalInv, Signal!SignalTypeOK, Signal!OneObserver

\* The windows that look share one observer, whoever joins, leaves or loses it
\* meanwhile, and no observer is left without a window (subscribeSignal,
\* runSignal).
THEOREM SignalInvariance ==
    ASSUME Signal!SignalAssumption
    PROVE  Signal!SignalSpec => []Signal!SignalInv
<1>1. Signal!SignalInit => Signal!SignalInv
  BY DEF Signal!SignalAssumption, Signal!SignalInit, Signal!SignalInv, Signal!SignalTypeOK,
     Signal!OneObserver
<1>2. Signal!SignalInv /\ [Signal!SignalNext]_(Signal!signalVars) => Signal!SignalInv'
  <2> SUFFICES ASSUME Signal!SignalInv, [Signal!SignalNext]_(Signal!signalVars) PROVE Signal!SignalInv'
    OBVIOUS
  <2>1. ASSUME Signal!Redraw \/ (\E o \in Observers : Signal!Frame(o)) \/ (\E v \in Requests : Signal!Take(v)) \/ UNCHANGED Signal!signalVars
        PROVE  Signal!SignalInv'
    <3>1. UNCHANGED <<signal, observer, canceled, subscribers, joined>>
      BY <2>1 DEF Signal!Redraw, Signal!Frame, Signal!Take, Signal!signalVars
    <3>2. changed' \in [Requests -> BOOLEAN] /\ dirty' \in [Requests -> BOOLEAN]
      <4>1. changed \in [Requests -> BOOLEAN] /\ dirty \in [Requests -> BOOLEAN]
        BY DEF Signal!SignalInv, Signal!SignalTypeOK
      <4>2. CASE Signal!Redraw
        BY <4>1, <4>2, Zenon DEF Signal!Redraw
      <4>3. ASSUME NEW o \in Observers, Signal!Frame(o) PROVE changed' \in [Requests -> BOOLEAN] /\ dirty' \in [Requests -> BOOLEAN]
        BY <4>3, Zenon DEF Signal!Frame
      <4>4. ASSUME NEW v \in Requests, Signal!Take(v) PROVE changed' \in [Requests -> BOOLEAN] /\ dirty' \in [Requests -> BOOLEAN]
        BY <4>1, <4>4 DEF Signal!Take
      <4>5. CASE UNCHANGED Signal!signalVars
        BY <4>1, <4>5 DEF Signal!signalVars
      <4> QED BY <2>1, <4>2, <4>3, <4>4, <4>5
    <3> QED BY <3>1, <3>2, HearingKeeps
  <2> QED BY <2>1, SubscribeKeeps, ReleaseKeeps, ObserverKeeps DEF Signal!SignalNext, Signal!Lost
<1> QED BY <1>1, <1>2, PTL DEF Signal!SignalSpec

----------------------------------------------------------------------------
(* The reads that the windows of a pane share.                             *)

\* The records of windows, of reads and of results.
Watching == [at : {"off", "timer", "reads", "shares", "got", "again"},
             tries : 0..2, from : 0..MaxClock, with : Requests \cup {None}, canceled : BOOLEAN]
ReadEntries == [at : {"none", "started", "fetched", "settled"}, started : 0..MaxClock,
                content : 0..MaxChanges + 1, outcome : Reads!Outcomes]
ReadResults == [outcome : Reads!Outcomes, content : 0..MaxChanges + 1, shared : BOOLEAN]

\* What the types say of one window.
LEMMA WindowTypes ==
    ASSUME Reads!ScreenAssumption, Reads!ScreenTypeOK, NEW w \in Requests
    PROVE  /\ MaxClock \in Nat /\ MaxChanges \in Nat /\ None \notin Requests
           /\ screen \in 1..MaxChanges + 1 /\ clock \in 0..MaxClock
           /\ watch[w] \in Watching /\ watch[w].from \in 0..MaxClock /\ watch[w].canceled \in BOOLEAN
           /\ kickedAt[w] \in 0..MaxClock /\ needs[w] \in 0..MaxChanges + 1
           /\ read[w] \in ReadEntries /\ read[w].started \in 0..MaxClock /\ read[w].content \in 0..MaxChanges + 1
           /\ read[w].at \in {"none", "started", "fetched", "settled"} /\ read[w].outcome \in Reads!Outcomes
           /\ result[w] \in ReadResults /\ result[w].content \in 0..MaxChanges + 1
           /\ result[w].outcome \in Reads!Outcomes
<1>1. MaxClock \in Nat /\ MaxChanges \in Nat /\ None \notin Requests
  BY DEF Reads!ScreenAssumption
<1>2. watch[w] \in Watching /\ read[w] \in ReadEntries /\ result[w] \in ReadResults
  BY DEF Reads!ScreenTypeOK, Watching, ReadEntries, ReadResults
<1> QED BY <1>1, <1>2 DEF Reads!ScreenTypeOK, Watching, ReadEntries, ReadResults

\* One window goes on, and the others stand where they stood.
Stays(w, x) == watch' \in [Requests -> Watching] /\ watch'[w] = x /\ \A u \in Requests \ {w} : watch'[u] = watch[u]

\* What an assignment to an element of watch does.
LEMMA OneWatch ==
    ASSUME Reads!ScreenTypeOK, NEW w \in Requests, NEW x \in Watching, watch' = [watch EXCEPT ![w] = x]
    PROVE  Stays(w, x)
BY DEF Reads!ScreenTypeOK, Stays, Watching

\* Where a window stands may change in three ways without any of its other fields.
LEMMA WatchOff ==
    ASSUME Reads!ScreenAssumption
    PROVE  /\ Reads!Off \in Watching /\ Reads!Off.at = "off" /\ ~Reads!Off.canceled
           /\ \E x \in Watching : x = [Reads!Off EXCEPT !.at = "timer"] /\ x.at = "timer"
           /\ Reads!NoRead \in ReadEntries /\ Reads!NoRead.at = "none" /\ Reads!NoRead.started = 0
           /\ Reads!NoResult \in ReadResults /\ Reads!NoResult.outcome = "none"
<1>1. 0 \in 0..MaxClock /\ 0 \in 0..MaxChanges + 1
  BY DEF Reads!ScreenAssumption
<1>2. Reads!Off \in Watching /\ Reads!Off.at = "off" /\ ~Reads!Off.canceled
  BY <1>1 DEF Reads!Off, Watching
<1>3. PICK x : x = [Reads!Off EXCEPT !.at = "timer"]
  OBVIOUS
<1>4. x \in Watching /\ x.at = "timer"
  BY <1>2, <1>3 DEF Watching
<1>5. Reads!NoRead \in ReadEntries /\ Reads!NoRead.at = "none" /\ Reads!NoRead.started = 0
  BY <1>1 DEF Reads!NoRead, ReadEntries, Reads!Outcomes
<1>6. Reads!NoResult \in ReadResults /\ Reads!NoResult.outcome = "none"
  BY <1>1 DEF Reads!NoResult, ReadResults, Reads!Outcomes
<1> QED BY <1>2, <1>3, <1>4, <1>5, <1>6

\* A window that turns elsewhere without a read.
LEMMA TurnKeeps ==
    ASSUME Reads!ScreenAssumption, Reads!ReadsInv, NEW w \in Requests, NEW x \in Watching, Stays(w, x),
           watch[w].at # "reads", x.at \in {"off", "timer"},
           screen' \in 1..MaxChanges + 1, screen' >= screen,
           kick' \in [Requests -> BOOLEAN],
           kickedAt' \in [Requests -> 0..MaxClock], needs' \in [Requests -> 0..MaxChanges + 1],
           \A u \in Requests \ {w} : kickedAt'[u] = kickedAt[u] /\ needs'[u] = needs[u],
           kickedAt'[w] = kickedAt[w] \/ needs'[w] = 0, kickedAt'[w] <= kickedAt[w], needs'[w] \in {0,
           needs[w]},
           result' \in [Requests -> ReadResults], \A u \in Requests \ {w} : result'[u] = result[u],
           UNCHANGED <<clock, read, current>>
    PROVE  Reads!ReadsInv'
<1>1. Reads!ScreenTypeOK'
  BY DEF Reads!ReadsInv, Reads!ScreenTypeOK, Stays, Watching, ReadEntries, ReadResults
<1>2. Reads!ReadsFit'
  <2> SUFFICES ASSUME NEW u \in Requests
               PROVE  /\ read[u].started <= clock
                      /\ read[u].at \in {"started", "fetched"} <=> watch'[u].at = "reads"
                      /\ Reads!Complete(read[u]) =>
                          \A z \in Requests : read[u].started >= kickedAt'[z] => read[u].content >= needs'[z]
    BY DEF Reads!ReadsFit, Reads!Complete
  <2>1. read[u].started <= clock /\ (read[u].at \in {"started", "fetched"} <=> watch'[u].at = "reads")
    BY DEF Reads!ReadsInv, Reads!ReadsFit, Stays
  <2>2. ASSUME Reads!Complete(read[u]), NEW z \in Requests, read[u].started >= kickedAt'[z]
        PROVE  read[u].content >= needs'[z]
    <3>1. read[u].content \in 0..MaxChanges + 1 /\ MaxChanges \in Nat
      BY WindowTypes DEF Reads!ReadsInv
    <3>2. needs'[z] = 0 \/ (needs'[z] = needs[z] /\ kickedAt'[z] = kickedAt[z])
      OBVIOUS
    <3> QED BY <2>2, <3>1, <3>2 DEF Reads!ReadsInv, Reads!ReadsFit
  <2> QED BY <2>1, <2>2
<1>3. ASSUME NEW u \in Requests PROVE Reads!WatchFits(u)'
  <2>1. /\ kickedAt'[u] <= clock' /\ needs'[u] <= screen'
    <3>1. /\ kickedAt[u] \in 0..MaxClock /\ kickedAt'[u] \in 0..MaxClock /\ clock \in 0..MaxClock /\ MaxClock \in Nat
          /\ MaxChanges \in Nat /\ screen \in 1..MaxChanges + 1 /\ needs[u] \in 0..MaxChanges + 1
          /\ kickedAt[u] <= clock /\ needs[u] <= screen
      BY WindowTypes DEF Reads!ReadsInv, Reads!WatchFits
    <3>2. kickedAt'[u] <= kickedAt[u] /\ needs'[u] \in {0, needs[u]}
      BY <3>1
    <3> QED BY <3>1, <3>2
  <2>2. CASE u = w
    BY <2>1, <2>2 DEF Reads!WatchFits, Stays
  <2>3. CASE u # w
    <3>1. watch'[u] = watch[u] /\ kickedAt'[u] = kickedAt[u] /\ needs'[u] = needs[u] /\ result'[u] = result[u]
      BY <2>3 DEF Stays
    <3>2. \A z \in Requests : watch[z].at = "reads" => watch'[z] = watch[z]
      BY DEF Stays
    <3> QED BY <2>1, <3>1, <3>2 DEF Reads!ReadsInv, Reads!WatchFits
  <2> QED BY <2>2, <2>3
<1> QED BY <1>1, <1>2, <1>3 DEF Reads!ReadsInv

\* A window begins to look, stops, and its input arrives.
LEMMA LookingKeeps ==
    ASSUME Reads!ScreenAssumption, Reads!ReadsInv, NEW w \in Requests,
           Reads!Watch(w) \/ (Reads!Unwatch(w) /\ watch[w].at = "timer") \/ Reads!LeaveShared(w) \/ Reads!Deliver(w)
    PROVE  Reads!ReadsInv'
<1>1. /\ UNCHANGED <<screen, clock, read, current>> /\ watch[w].at # "reads"
      /\ screen \in 1..MaxChanges + 1 /\ MaxChanges \in Nat /\ MaxClock \in Nat /\ kickedAt[w] \in 0..MaxClock
      /\ watch[w] \in Watching
  BY WindowTypes DEF Reads!Watch, Reads!Unwatch, Reads!LeaveShared, Reads!Deliver, Reads!readVars,
     Reads!ReadsInv
<1>2. /\ Reads!Off \in Watching /\ Reads!Off.at = "off" /\ Reads!NoResult \in ReadResults
      /\ \E x \in Watching : x = [Reads!Off EXCEPT !.at = "timer"] /\ x.at = "timer"
  BY WatchOff
<1>3. \E x \in Watching : watch' = [watch EXCEPT ![w] = x] /\ x.at \in {"off", "timer"}
  <2>1. CASE Reads!Deliver(w)
    BY <1>2, <2>1 DEF Reads!Deliver, Reads!ReadsInv, Reads!ScreenTypeOK
  <2>2. CASE ~Reads!Deliver(w)
    BY <1>2, <2>2 DEF Reads!Watch, Reads!Unwatch, Reads!LeaveShared
  <2> QED BY <2>1, <2>2
<1>4. PICK x \in Watching : Stays(w, x) /\ x.at \in {"off", "timer"}
  BY <1>3, OneWatch DEF Reads!ReadsInv
<1>5. /\ kick' \in [Requests -> BOOLEAN] /\ result' \in [Requests -> ReadResults]
      /\ \A u \in Requests \ {w} : result'[u] = result[u]
  <2>1. kick \in [Requests -> BOOLEAN] /\ result \in [Requests -> ReadResults]
    BY DEF Reads!ReadsInv, Reads!ScreenTypeOK, ReadResults
  <2>2. kick' = kick \/ kick' = [kick EXCEPT ![w] = FALSE]
    BY DEF Reads!Watch, Reads!Unwatch, Reads!LeaveShared, Reads!Deliver, Reads!readVars
  <2>3. result' = result \/ result' = [result EXCEPT ![w] = Reads!NoResult]
    BY DEF Reads!Watch, Reads!Unwatch, Reads!LeaveShared, Reads!Deliver, Reads!readVars
  <2>4. kick' \in [Requests -> BOOLEAN]
    BY <2>1, <2>2
  <2> QED BY <1>2, <2>1, <2>3, <2>4
<1>6. /\ kickedAt' \in [Requests -> 0..MaxClock] /\ needs' \in [Requests -> 0..MaxChanges + 1]
      /\ \A u \in Requests \ {w} : kickedAt'[u] = kickedAt[u] /\ needs'[u] = needs[u]
      /\ kickedAt'[w] = kickedAt[w] \/ (kickedAt'[w] = 0 /\ needs'[w] = 0)
      /\ needs'[w] \in {0, needs[w]}
  <2>1. 0 \in 0..MaxClock /\ 0 \in 0..MaxChanges + 1
    BY <1>1
  <2>2. kickedAt \in [Requests -> 0..MaxClock] /\ needs \in [Requests -> 0..MaxChanges + 1]
    BY DEF Reads!ReadsInv, Reads!ScreenTypeOK
  <2>3. \/ UNCHANGED <<kickedAt, needs>>
        \/ kickedAt' \in {kickedAt, [kickedAt EXCEPT ![w] = 0]} /\ needs' = [needs EXCEPT ![w] = 0]
    BY DEF Reads!Watch, Reads!Unwatch, Reads!LeaveShared, Reads!Deliver, Reads!readVars
  <2> QED BY <2>1, <2>2, <2>3
<1>7. screen' \in 1..MaxChanges + 1 /\ screen' >= screen /\ kickedAt'[w] <= kickedAt[w]
  BY <1>1, <1>6
<1> QED BY <1>1, <1>4, <1>5, <1>6, <1>7, TurnKeeps

\* The screen changes, by itself or after an input.
LEMMA ScreenChanges ==
    ASSUME Reads!ScreenAssumption, Reads!ReadsInv, Reads!Change \/ \E w \in Requests : Reads!Input(w)
    PROVE  Reads!ReadsInv'
<1>1. /\ screen' = screen + 1 /\ screen <= MaxChanges /\ UNCHANGED <<clock, watch, kickedAt, needs, read, current, result>>
      /\ kick' \in [Requests -> BOOLEAN]
  BY DEF Reads!Change, Reads!Input, Reads!watchVars, Reads!readVars, Reads!ReadsInv, Reads!ScreenTypeOK
<1>2. MaxChanges \in Nat /\ screen \in 1..MaxChanges + 1
  BY DEF Reads!ScreenAssumption, Reads!ReadsInv, Reads!ScreenTypeOK
<1>3. Reads!ScreenTypeOK'
  <2>1. screen' \in 1..MaxChanges + 1
    BY <1>1, <1>2
  <2> QED BY <1>1, <2>1 DEF Reads!ReadsInv, Reads!ScreenTypeOK
<1>4. Reads!ReadsFit'
  BY <1>1 DEF Reads!ReadsInv, Reads!ReadsFit, Reads!Complete
<1>5. ASSUME NEW u \in Requests PROVE Reads!WatchFits(u)'
  <2>1. needs[u] <= screen' /\ kickedAt[u] <= clock
    <3>1. needs[u] <= screen /\ needs[u] \in 0..MaxChanges + 1 /\ kickedAt[u] <= clock
      BY WindowTypes DEF Reads!ReadsInv, Reads!WatchFits
    <3> QED BY <1>1, <1>2, <3>1
  <2> QED BY <1>1, <2>1 DEF Reads!ReadsInv, Reads!WatchFits
<1> QED BY <1>3, <1>4, <1>5 DEF Reads!ReadsInv

\* Access to the window ends while it reads or waits.
LEMMA CancelKeeps ==
    ASSUME Reads!ScreenAssumption, Reads!ReadsInv, NEW w \in Requests, Reads!Unwatch(w), watch[w].at # "timer"
    PROVE  Reads!ReadsInv'
<1>1. PICK x : x = [watch[w] EXCEPT !.canceled = TRUE]
  OBVIOUS
<1>2. /\ UNCHANGED <<screen, clock, kick, kickedAt, needs, read, current, result>>
      /\ watch[w] \in Watching /\ watch' = [watch EXCEPT ![w] = x]
  BY <1>1, WindowTypes DEF Reads!Unwatch, Reads!readVars, Reads!ReadsInv
<1>3. x \in Watching /\ x.at = watch[w].at /\ x.with = watch[w].with /\ x.from = watch[w].from
  BY <1>1, <1>2 DEF Watching
<1>4. Stays(w, x)
  BY <1>2, <1>3, OneWatch DEF Reads!ReadsInv
<1>5. \A u \in Requests : watch'[u].at = watch[u].at /\ watch'[u].with = watch[u].with /\ watch'[u].from = watch[u].from
  BY <1>3, <1>4 DEF Stays
<1>6. Reads!ScreenTypeOK'
  BY <1>2, <1>4 DEF Reads!ReadsInv, Reads!ScreenTypeOK, Stays, Watching
<1>7. Reads!ReadsFit' /\ \A u \in Requests : Reads!WatchFits(u)'
  BY <1>2, <1>5 DEF Reads!ReadsInv, Reads!ReadsFit, Reads!WatchFits, Reads!Complete
<1> QED BY <1>6, <1>7 DEF Reads!ReadsInv

\* A window takes its kick: no read so far began after it.
LEMMA TakeKickKeeps ==
    ASSUME Reads!ScreenAssumption, Reads!ReadsInv, NEW w \in Requests, Reads!TakeKick(w)
    PROVE  Reads!ReadsInv'
<1>1. /\ watch[w].at = "timer" /\ clock < MaxClock /\ clock' = clock + 1
      /\ kick' = [kick EXCEPT ![w] = FALSE]
      /\ kickedAt' = [kickedAt EXCEPT ![w] = clock + 1] /\ needs' = [needs EXCEPT ![w] = screen]
      /\ UNCHANGED <<screen, watch, read, current, result>>
  BY DEF Reads!TakeKick, Reads!readVars
<1>2. MaxChanges \in Nat /\ MaxClock \in Nat /\ clock \in 0..MaxClock /\ screen \in 1..MaxChanges + 1
  BY DEF Reads!ScreenAssumption, Reads!ReadsInv, Reads!ScreenTypeOK
<1>3. Reads!ScreenTypeOK'
  <2>1. clock + 1 \in 0..MaxClock /\ screen \in 0..MaxChanges + 1
    BY <1>1, <1>2
  <2> QED BY <1>1, <2>1 DEF Reads!ReadsInv, Reads!ScreenTypeOK
<1>4. \A u \in Requests : u # w => kickedAt'[u] = kickedAt[u] /\ needs'[u] = needs[u]
  BY <1>1 DEF Reads!ReadsInv, Reads!ScreenTypeOK
<1>5. kickedAt'[w] = clock + 1 /\ needs'[w] = screen
  BY <1>1 DEF Reads!ReadsInv, Reads!ScreenTypeOK
<1>6. Reads!ReadsFit'
  <2> SUFFICES ASSUME NEW u \in Requests
               PROVE  /\ read[u].started <= clock'
                      /\ read[u].at \in {"started", "fetched"} <=> watch[u].at = "reads"
                      /\ Reads!Complete(read[u]) =>
                          \A z \in Requests : read[u].started >= kickedAt'[z] => read[u].content >= needs'[z]
    BY <1>1 DEF Reads!ReadsFit, Reads!Complete
  <2>1. read[u].started <= clock /\ read[u].started \in 0..MaxClock
    BY WindowTypes DEF Reads!ReadsInv, Reads!ReadsFit
  <2>2. read[u].started <= clock' /\ ~(read[u].started >= kickedAt'[w])
    BY <1>1, <1>2, <1>5, <2>1
  <2> QED BY <1>4, <2>2 DEF Reads!ReadsInv, Reads!ReadsFit
<1>7. ASSUME NEW u \in Requests PROVE Reads!WatchFits(u)'
  <2>1. CASE u = w
    BY <1>1, <1>2, <1>5, <2>1 DEF Reads!WatchFits
  <2>2. CASE u # w
    <3>1. /\ kickedAt[u] <= clock /\ kickedAt[u] \in 0..MaxClock /\ watch[u].from \in 0..MaxClock
          /\ (watch[u].at = "again" => watch[u].from <= clock)
      BY WindowTypes DEF Reads!ReadsInv, Reads!WatchFits
    <3>2. kickedAt[u] <= clock' /\ (watch[u].at = "again" => watch[u].from <= clock')
      BY <1>1, <1>2, <3>1
    <3> QED BY <1>1, <1>4, <2>2, <3>2 DEF Reads!ReadsInv, Reads!WatchFits
  <2> QED BY <2>1, <2>2
<1> QED BY <1>3, <1>6, <1>7 DEF Reads!ReadsInv

\* A window that does not read goes on with a result or a read that fits it.
LEMMA WindowMoves ==
    ASSUME Reads!ScreenAssumption, Reads!ReadsInv, NEW w \in Requests, NEW x \in Watching, Stays(w, x),
           watch[w].at # "reads", x.at # "reads", Reads!WatchFits(w)',
           clock' \in 0..MaxClock, clock' >= clock,
           result' \in [Requests -> ReadResults], \A u \in Requests \ {w} : result'[u] = result[u],
           UNCHANGED <<screen, kick, kickedAt, needs, read, current>>
    PROVE  Reads!ReadsInv'
<1>1. Reads!ScreenTypeOK'
  BY DEF Reads!ReadsInv, Reads!ScreenTypeOK, Stays, Watching, ReadEntries, ReadResults
<1>2. \A u \in Requests : /\ read[u].started <= clock /\ read[u].started \in 0..MaxClock /\ kickedAt[u] <= clock
                          /\ kickedAt[u] \in 0..MaxClock /\ watch[u].from \in 0..MaxClock
                          /\ (watch[u].at = "again" => watch[u].from <= clock)
  BY WindowTypes DEF Reads!ReadsInv, Reads!ReadsFit, Reads!WatchFits
<1>3. \A u \in Requests : /\ read[u].started <= clock' /\ kickedAt[u] <= clock'
                          /\ (watch[u].at = "again" => watch[u].from <= clock')
  <2>1. clock \in Nat /\ MaxClock \in Nat
    BY DEF Reads!ScreenAssumption, Reads!ReadsInv, Reads!ScreenTypeOK
  <2> QED BY <1>2, <2>1
<1>4. Reads!ReadsFit'
  BY <1>3 DEF Reads!ReadsInv, Reads!ReadsFit, Reads!Complete, Stays
<1>5. ASSUME NEW u \in Requests, u # w PROVE Reads!WatchFits(u)'
  <2>1. watch'[u] = watch[u] /\ result'[u] = result[u]
    BY <1>5 DEF Stays
  <2>2. \A z \in Requests : watch[z].at = "reads" => watch'[z] = watch[z]
    BY DEF Stays
  <2> QED BY <1>3, <1>5, <2>1, <2>2 DEF Reads!ReadsInv, Reads!WatchFits
<1> QED BY <1>1, <1>4, <1>5 DEF Reads!ReadsInv

\* A window whose read another one canceled reads once more.
LEMMA RetryKeeps ==
    ASSUME Reads!ScreenAssumption, Reads!ReadsInv, NEW w \in Requests, Reads!Retry(w)
    PROVE  Reads!ReadsInv'
<1>1. PICK x : x = [watch[w] EXCEPT !.at = "again", !.from = clock + 1]
  OBVIOUS
<1>2. /\ watch[w].at = "got" /\ clock < MaxClock /\ clock' = clock + 1 /\ watch[w] \in Watching
      /\ UNCHANGED <<screen, kick, kickedAt, needs, read, current>>
      /\ clock \in 0..MaxClock /\ MaxClock \in Nat /\ kickedAt[w] \in 0..MaxClock /\ kickedAt[w] <= clock
      /\ needs[w] <= screen
  BY WindowTypes DEF Reads!Retry, Reads!ReadsInv, Reads!WatchFits
<1>3. PICK n \in 0..MaxClock : n = clock + 1
  BY <1>2
<1>4. x \in Watching /\ x.at = "again" /\ x.from = n
  BY <1>1, <1>2, <1>3 DEF Watching
<1>5. Stays(w, x)
  <2>1. watch' = [watch EXCEPT ![w] = x]
    BY <1>1 DEF Reads!Retry
  <2> QED BY <1>4, <2>1, OneWatch DEF Reads!ReadsInv
<1>6. Reads!WatchFits(w)'
  <2>1. kickedAt[w] <= clock' /\ kickedAt[w] <= n /\ n <= clock'
    BY <1>2, <1>3
  <2> QED BY <1>2, <1>4, <1>5, <2>1 DEF Reads!WatchFits, Stays
<1>7. result' \in [Requests -> ReadResults] /\ \A u \in Requests \ {w} : result'[u] = result[u]
  <2>1. result \in [Requests -> ReadResults] /\ Reads!NoResult \in ReadResults
    BY WatchOff DEF Reads!ReadsInv, Reads!ScreenTypeOK, ReadResults
  <2> QED BY <2>1 DEF Reads!Retry
<1>8. clock' \in 0..MaxClock /\ clock' >= clock
  BY <1>2, <1>3
<1> QED BY <1>2, <1>4, <1>5, <1>6, <1>7, <1>8, WindowMoves

\* A window shares the read in the map, or starts one of its own.
LEMMA JoinKeeps ==
    ASSUME Reads!ScreenAssumption, Reads!ReadsInv, NEW w \in Requests, watch[w].at \in {"timer", "again"},
           NEW notBefore \in 0..MaxClock, kickedAt[w] <= notBefore, notBefore <= clock, NEW tries \in 1..2,
           Reads!Join(w, notBefore, tries), UNCHANGED <<screen, clock, kick, kickedAt, needs>>
    PROVE  Reads!ReadsInv'
<1>1. /\ watch[w] \in Watching /\ kickedAt[w] \in 0..MaxClock /\ kickedAt[w] <= clock /\ needs[w] <= screen
      /\ MaxClock \in Nat /\ clock \in 0..MaxClock /\ tries \in 0..2
      /\ result \in [Requests -> ReadResults] /\ read[w].at \notin {"started", "fetched"}
  <2>1. result \in [Requests -> ReadResults]
    BY DEF Reads!ReadsInv, Reads!ScreenTypeOK, ReadResults
  <2> QED BY <2>1, WindowTypes DEF Reads!ReadsInv, Reads!WatchFits, Reads!ReadsFit
<1>2. CASE /\ current # None /\ Reads!Accepts(read[current], notBefore) /\ read[current].at = "settled"
           /\ watch' = [watch EXCEPT ![w].at = "got", ![w].tries = tries]
           /\ result' = [result EXCEPT ![w] = [outcome |-> read[current].outcome,
                                                content |-> read[current].content, shared |-> TRUE]]
           /\ UNCHANGED <<read, current>>
  <2>0. PICK e : e = read[current]
    OBVIOUS
  <2>1. PICK x : x = [watch[w] EXCEPT !.at = "got", !.tries = tries]
    OBVIOUS
  <2>2. PICK r : r = [outcome |-> e.outcome, content |-> e.content, shared |-> TRUE]
    OBVIOUS
  <2>3. /\ current \in Requests /\ e \in ReadEntries /\ e.at = "settled" /\ e.started >= notBefore
        /\ e.started \in 0..MaxClock
    BY <1>2, <2>0, WindowTypes DEF Reads!ReadsInv, Reads!ScreenTypeOK, Reads!Accepts
  <2>4. x \in Watching /\ x.at = "got" /\ r \in ReadResults /\ r.outcome = e.outcome /\ r.content = e.content
    BY <1>1, <2>1, <2>2, <2>3 DEF Watching, ReadResults, ReadEntries
  <2>5. watch' = [watch EXCEPT ![w] = x] /\ result' = [result EXCEPT ![w] = r]
    BY <1>1, <1>2, <2>0, <2>1, <2>2 DEF Reads!ReadsInv, Reads!ScreenTypeOK
  <2>6. Stays(w, x)
    BY <2>4, <2>5, OneWatch DEF Reads!ReadsInv
  <2>7. e.outcome = "ok" => e.content >= needs[w]
    <3>1. e.started >= kickedAt[w]
      BY <1>1, <2>3
    <3> QED BY <2>0, <2>3, <3>1 DEF Reads!ReadsInv, Reads!ReadsFit, Reads!Complete
  <2>8. result' \in [Requests -> ReadResults] /\ result'[w] = r /\ \A u \in Requests \ {w} : result'[u] = result[u]
    BY <1>1, <2>4, <2>5
  <2>9. Reads!WatchFits(w)'
    BY <1>1, <2>4, <2>6, <2>7, <2>8 DEF Reads!WatchFits, Stays
  <2>10. /\ clock' \in 0..MaxClock /\ clock' >= clock /\ watch[w].at # "reads" /\ x.at # "reads"
         /\ UNCHANGED <<screen, kick, kickedAt, needs, read, current>>
    BY <1>1, <1>2, <2>4
  <2> QED BY <2>4, <2>6, <2>8, <2>9, <2>10, WindowMoves
<1>3. CASE /\ current # None /\ Reads!Accepts(read[current], notBefore) /\ read[current].at # "settled"
           /\ watch' = [watch EXCEPT ![w].at = "shares", ![w].tries = tries, ![w].with = current]
           /\ UNCHANGED <<result, read, current>>
  <2>1. PICK x : x = [watch[w] EXCEPT !.at = "shares", !.tries = tries, !.with = current]
    OBVIOUS
  <2>2. /\ current \in Requests /\ read[current].started >= notBefore /\ read[current].started \in 0..MaxClock
        /\ watch[current].at = "reads"
    BY <1>3, WindowTypes DEF Reads!ReadsInv, Reads!ScreenTypeOK, Reads!Accepts, Reads!ReadsFit, ReadEntries
  <2>3. x \in Watching /\ x.at = "shares" /\ x.with = current
    BY <1>1, <2>1, <2>2 DEF Watching
  <2>4. watch' = [watch EXCEPT ![w] = x]
    BY <1>1, <1>3, <2>1 DEF Reads!ReadsInv, Reads!ScreenTypeOK
  <2>5. Stays(w, x)
    BY <2>3, <2>4, OneWatch DEF Reads!ReadsInv
  <2>6. watch'[current].at = "reads" /\ read[current].started >= kickedAt[w]
    BY <1>1, <2>2, <2>5 DEF Stays
  <2>7. Reads!WatchFits(w)'
    BY <1>1, <1>3, <2>2, <2>3, <2>5, <2>6 DEF Reads!WatchFits, Stays
  <2> QED BY <1>1, <1>3, <2>3, <2>5, <2>7, WindowMoves
<1>4. CASE /\ watch' = [watch EXCEPT ![w].at = "reads", ![w].tries = tries]
           /\ read' = [u \in Requests |->
                IF u = w THEN [Reads!NoRead EXCEPT !.at = "started", !.started = clock]
                ELSE IF read[u].at = "settled" THEN Reads!NoRead ELSE read[u]]
           /\ current' = w /\ UNCHANGED result
  <2>1. PICK x : x = [watch[w] EXCEPT !.at = "reads", !.tries = tries]
    OBVIOUS
  <2>2. PICK e : e = [Reads!NoRead EXCEPT !.at = "started", !.started = clock]
    OBVIOUS
  <2>3. x \in Watching /\ x.at = "reads"
    BY <1>1, <2>1 DEF Watching
  <2>4. /\ e \in ReadEntries /\ e.at = "started" /\ e.started = clock
        /\ Reads!NoRead \in ReadEntries /\ Reads!NoRead.at = "none" /\ Reads!NoRead.started = 0
    BY <1>1, <2>2, WatchOff DEF ReadEntries
  <2>5. Stays(w, x)
    <3>1. watch' = [watch EXCEPT ![w] = x]
      BY <1>1, <1>4, <2>1 DEF Reads!ReadsInv, Reads!ScreenTypeOK
    <3> QED BY <2>3, <3>1, OneWatch DEF Reads!ReadsInv
  <2>6. /\ read' \in [Requests -> ReadEntries] /\ read'[w] = e
        /\ \A u \in Requests \ {w} : read'[u] = read[u] \/ (read'[u] = Reads!NoRead /\ read[u].at = "settled")
    <3>1. \A u \in Requests : read[u] \in ReadEntries
      BY WindowTypes DEF Reads!ReadsInv
    <3> QED BY <1>4, <2>2, <2>4, <3>1
  <2>7. Reads!ScreenTypeOK'
    BY <1>4, <2>5, <2>6 DEF Reads!ReadsInv, Reads!ScreenTypeOK, Stays, Watching, ReadEntries
  <2>8. \A u \in Requests : watch[u].at = "reads" => read'[u] = read[u] /\ watch'[u] = watch[u] /\ u # w
    BY <2>5, <2>6 DEF Stays, Reads!ReadsInv, Reads!ReadsFit
  <2>9. Reads!ReadsFit'
    <3>1. e.started <= clock /\ Reads!NoRead.started <= clock
      BY <1>1, <2>4
    <3> QED BY <1>1, <2>3, <2>4, <2>5, <2>6, <3>1 DEF Reads!ReadsInv, Reads!ReadsFit, Reads!Complete, Stays
  <2>10. Reads!WatchFits(w)'
    <3>1. e.started >= kickedAt[w]
      BY <1>1, <2>4
    <3> QED BY <1>1, <2>3, <2>5, <2>6, <3>1 DEF Reads!WatchFits, Stays
  <2>11. ASSUME NEW u \in Requests, u # w PROVE Reads!WatchFits(u)'
    <3>1. watch'[u] = watch[u] /\ result'[u] = result[u] /\ Reads!WatchFits(u)
      BY <1>4, <2>5, <2>11 DEF Stays, Reads!ReadsInv
    <3>2. watch[u].at = "reads" => read'[u] = read[u]
      BY <2>8
    <3>3. watch[u].at = "shares" =>
            \E z \in Requests : watch'[u].with = z /\ watch'[z].at = "reads" /\ read'[z].started >= kickedAt[u]
      BY <2>8, <3>1 DEF Reads!WatchFits
    <3> QED BY <3>1, <3>2, <3>3 DEF Reads!WatchFits
  <2> QED BY <2>7, <2>9, <2>10, <2>11 DEF Reads!ReadsInv
<1> QED BY <1>2, <1>3, <1>4 DEF Reads!Join

\* The timer of a window fires, or it reads once more.
LEMMA BeginsToRead ==
    ASSUME Reads!ScreenAssumption, Reads!ReadsInv, NEW w \in Requests, Reads!TimerFires(w) \/ Reads!Again(w)
    PROVE  Reads!ReadsInv'
<1>1. /\ kickedAt[w] \in 0..MaxClock /\ kickedAt[w] <= clock /\ watch[w].from \in 0..MaxClock
      /\ watch[w].at = "again" => kickedAt[w] <= watch[w].from /\ watch[w].from <= clock
      /\ kickedAt[w] <= kickedAt[w] /\ 1 \in 1..2 /\ 2 \in 1..2
  BY WindowTypes DEF Reads!ReadsInv, Reads!WatchFits
<1>2. CASE Reads!TimerFires(w)
  BY <1>1, <1>2, JoinKeeps DEF Reads!TimerFires
<1>3. CASE Reads!Again(w)
  BY <1>1, <1>3, JoinKeeps DEF Reads!Again
<1> QED BY <1>2, <1>3

\* A read reaches Herdr and gets what is on the screen.
LEMMA FetchKeeps ==
    ASSUME Reads!ScreenAssumption, Reads!ReadsInv, NEW w \in Requests, Reads!Fetch(w)
    PROVE  Reads!ReadsInv'
<1>0. PICK e : e = [read[w] EXCEPT !.at = "fetched", !.content = screen]
  OBVIOUS
<1>1. /\ watch[w].at = "reads" /\ read[w].at = "started" /\ read' = [read EXCEPT ![w] = e]
      /\ UNCHANGED <<screen, clock, watch, kick, kickedAt, needs, current, result>>
  BY <1>0 DEF Reads!Fetch, Reads!watchVars
<1>2. read[w] \in ReadEntries /\ screen \in 0..MaxChanges + 1
  <2>1. screen \in 1..MaxChanges + 1 /\ MaxChanges \in Nat /\ read[w] \in ReadEntries
    BY WindowTypes DEF Reads!ReadsInv
  <2> QED BY <2>1
<1>3. e \in ReadEntries /\ e.at = "fetched" /\ e.content = screen /\ e.started = read[w].started
  BY <1>0, <1>2 DEF ReadEntries
<1>4. /\ read' \in [Requests -> ReadEntries] /\ read'[w] = e /\ \A u \in Requests \ {w} : read'[u] = read[u]
  <2>1. read \in [Requests -> ReadEntries]
    BY DEF Reads!ReadsInv, Reads!ScreenTypeOK, ReadEntries
  <2> QED BY <1>1, <1>3, <2>1
<1>5. Reads!ScreenTypeOK'
  BY <1>1, <1>4 DEF Reads!ReadsInv, Reads!ScreenTypeOK, ReadEntries
<1>6. \A z \in Requests : needs[z] <= screen
  BY DEF Reads!ReadsInv, Reads!WatchFits
<1>7. Reads!ReadsFit'
  BY <1>1, <1>3, <1>4, <1>6 DEF Reads!ReadsInv, Reads!ReadsFit, Reads!Complete
<1>8. \A u \in Requests : read'[u].started = read[u].started
  BY <1>3, <1>4
<1>9. \A u \in Requests : Reads!WatchFits(u)'
  BY <1>1, <1>8 DEF Reads!ReadsInv, Reads!WatchFits
<1> QED BY <1>5, <1>7, <1>9 DEF Reads!ReadsInv

\* The entry of a read that settled a second ago leaves the map.
LEMMA ForgetKeeps ==
    ASSUME Reads!ScreenAssumption, Reads!ReadsInv, Reads!Forget
    PROVE  Reads!ReadsInv'
<1>1. /\ current \in Requests /\ read[current].at = "settled" /\ current' = None
      /\ read' = [read EXCEPT ![current] = Reads!NoRead]
      /\ UNCHANGED <<screen, clock, watch, kick, kickedAt, needs, result>>
  BY DEF Reads!Forget, Reads!watchVars, Reads!ReadsInv, Reads!ScreenTypeOK
<1>2. Reads!NoRead \in ReadEntries /\ Reads!NoRead.at = "none" /\ Reads!NoRead.started = 0
  BY WatchOff
<1>3. /\ read' \in [Requests -> ReadEntries] /\ read'[current] = Reads!NoRead
      /\ \A u \in Requests \ {current} : read'[u] = read[u]
  <2>1. read \in [Requests -> ReadEntries]
    BY DEF Reads!ReadsInv, Reads!ScreenTypeOK, ReadEntries
  <2> QED BY <1>1, <1>2, <2>1
<1>4. Reads!ScreenTypeOK'
  BY <1>1, <1>3 DEF Reads!ReadsInv, Reads!ScreenTypeOK, ReadEntries
<1>5. Reads!ReadsFit'
  <2>1. 0 <= clock
    BY DEF Reads!ReadsInv, Reads!ScreenTypeOK
  <2> QED BY <1>1, <1>2, <1>3, <2>1 DEF Reads!ReadsInv, Reads!ReadsFit, Reads!Complete
<1>6. \A u \in Requests : watch[u].at = "reads" => read'[u] = read[u]
  BY <1>1, <1>3 DEF Reads!ReadsInv, Reads!ReadsFit
<1>7. ASSUME NEW u \in Requests PROVE Reads!WatchFits(u)'
  <2>1. watch[u].at = "shares" =>
            \E z \in Requests : watch[u].with = z /\ watch[z].at = "reads" /\ read'[z].started >= kickedAt[u]
    BY <1>6 DEF Reads!ReadsInv, Reads!WatchFits
  <2> QED BY <1>1, <1>6, <2>1 DEF Reads!ReadsInv, Reads!WatchFits
<1> QED BY <1>4, <1>5, <1>7 DEF Reads!ReadsInv

\* What one read answers, to its window and to those that share it.
LEMMA SettleKeeps ==
    ASSUME Reads!ScreenAssumption, Reads!ReadsInv, NEW w \in Requests, NEW how \in {"ok", "failed", "canceled"},
           Reads!Settle(w, how)
    PROVE  Reads!ReadsInv'
<1> DEFINE sharing == {u \in Requests : watch[u].at = "shares" /\ watch[u].with = w}
           answered == sharing \cup {w}
<1>1. /\ read[w] \in ReadEntries /\ how \in Reads!Outcomes /\ w \notin sharing /\ watch[w].at = "reads"
      /\ read[w].started \in 0..MaxClock /\ read[w].started <= clock /\ read[w].content \in 0..MaxChanges + 1
      /\ MaxChanges \in Nat /\ clock \in 0..MaxClock
  BY WindowTypes DEF Reads!ReadsInv, Reads!ReadsFit, Reads!Outcomes, Reads!Settle
<1>2. UNCHANGED <<screen, clock, kick, kickedAt, needs>>
  BY DEF Reads!Settle
<1>3. PICK r : r = [outcome |-> how, content |-> read[w].content, shared |-> FALSE]
  OBVIOUS
<1>4. PICK s : s = [r EXCEPT !.shared = TRUE]
  OBVIOUS
<1>5. /\ r \in ReadResults /\ r.outcome = how /\ r.content = read[w].content
      /\ s \in ReadResults /\ s.outcome = how /\ s.content = read[w].content
  BY <1>1, <1>3, <1>4 DEF ReadResults
<1>6. /\ result' \in [Requests -> ReadResults] /\ \A u \in Requests \ answered : result'[u] = result[u]
      /\ \A u \in answered : result'[u].outcome = how /\ result'[u].content = read[w].content
  <2>1. \A u \in Requests : result[u] \in ReadResults
    BY WindowTypes DEF Reads!ReadsInv
  <2>2. result' = [u \in Requests |-> IF u = w THEN r ELSE IF u \in sharing THEN s ELSE result[u]]
    BY <1>3, <1>4 DEF Reads!Settle
  <2> QED BY <1>5, <2>1, <2>2
<1>7. /\ watch' \in [Requests -> Watching] /\ \A u \in Requests \ answered : watch'[u] = watch[u]
      /\ \A u \in answered : watch'[u].at = "got"
  <2>1. \A u \in Requests : watch[u] \in Watching
    BY WindowTypes DEF Reads!ReadsInv
  <2>2. watch' = [u \in Requests |-> IF u \in answered THEN [watch[u] EXCEPT !.at = "got", !.with = None]
                                    ELSE watch[u]]
    BY DEF Reads!Settle
  <2>3. \A u \in Requests : /\ [watch[u] EXCEPT !.at = "got", !.with = None] \in Watching
                            /\ [watch[u] EXCEPT !.at = "got", !.with = None].at = "got"
    BY <2>1 DEF Watching
  <2> QED BY <2>1, <2>2, <2>3
<1>8. PICK e : e = IF watch[w].canceled \/ current # w THEN Reads!NoRead
                   ELSE [read[w] EXCEPT !.at = "settled", !.outcome = how]
  OBVIOUS
<1>9. /\ read' \in [Requests -> ReadEntries] /\ read'[w] = e /\ \A u \in Requests \ {w} : read'[u] = read[u]
      /\ e.at \in {"none", "settled"} /\ e.started <= clock
      /\ e.at = "settled" => e.outcome = how /\ e.started = read[w].started /\ e.content = read[w].content
  <2>1. Reads!NoRead \in ReadEntries /\ Reads!NoRead.at = "none" /\ Reads!NoRead.started = 0
    BY WatchOff
  <2>2. PICK d : d = [read[w] EXCEPT !.at = "settled", !.outcome = how]
    OBVIOUS
  <2>3. /\ d \in ReadEntries /\ d.at = "settled" /\ d.outcome = how
        /\ d.started = read[w].started /\ d.content = read[w].content
    BY <1>1, <2>2 DEF ReadEntries
  <2>4. /\ e \in ReadEntries /\ e.at \in {"none", "settled"} /\ e.started <= clock
        /\ e.at = "settled" => e.outcome = how /\ e.started = read[w].started /\ e.content = read[w].content
    BY <1>1, <1>8, <2>1, <2>2, <2>3
  <2>5. read \in [Requests -> ReadEntries]
    BY DEF Reads!ReadsInv, Reads!ScreenTypeOK, ReadEntries
  <2>6. read' = [read EXCEPT ![w] = e]
    BY <1>8, <2>5 DEF Reads!Settle
  <2> QED BY <2>4, <2>5, <2>6
<1>10. current' \in Requests \cup {None}
  BY DEF Reads!Settle, Reads!ReadsInv, Reads!ScreenTypeOK
<1>11. Reads!ScreenTypeOK'
  BY <1>2, <1>6, <1>7, <1>9, <1>10 DEF Reads!ReadsInv, Reads!ScreenTypeOK, Watching, ReadEntries,
     ReadResults
\* An answer that is ok comes from a complete read.
<1>12. how = "ok" => \A z \in Requests : read[w].started >= kickedAt[z] => read[w].content >= needs[z]
  BY DEF Reads!Settle, Reads!ReadsInv, Reads!ReadsFit, Reads!Complete
<1>13. Reads!ReadsFit'
  <2>1. \A u \in Requests : read'[u].started <= clock'
    BY <1>2, <1>9 DEF Reads!ReadsInv, Reads!ReadsFit
  <2>2. \A u \in Requests : read'[u].at \in {"started", "fetched"} <=> watch'[u].at = "reads"
    BY <1>1, <1>7, <1>9 DEF Reads!ReadsInv, Reads!ReadsFit
  <2>3. ASSUME NEW u \in Requests, Reads!Complete(read'[u]), NEW z \in Requests, read'[u].started >= kickedAt[z]
        PROVE  read'[u].content >= needs[z]
    BY <1>9, <1>12, <2>3 DEF Reads!ReadsInv, Reads!ReadsFit, Reads!Complete
  <2> QED BY <1>2, <2>1, <2>2, <2>3 DEF Reads!ReadsFit, Reads!Complete
<1>14. ASSUME NEW u \in Requests PROVE Reads!WatchFits(u)'
  <2>1. CASE u \in answered
    <3>1. read[w].started >= kickedAt[u]
      BY <1>1, <2>1 DEF Reads!ReadsInv, Reads!WatchFits
    <3>2. result'[u].outcome = "ok" => result'[u].content >= needs[u]
      BY <1>6, <1>12, <2>1, <3>1
    <3> QED BY <1>2, <1>7, <2>1, <3>2 DEF Reads!ReadsInv, Reads!WatchFits
  <2>2. CASE u \notin answered
    <3>1. watch'[u] = watch[u] /\ result'[u] = result[u] /\ read'[u] = read[u] /\ Reads!WatchFits(u)
      BY <1>6, <1>7, <1>9, <2>2 DEF Reads!ReadsInv
    <3>2. watch[u].at = "shares" =>
            \E z \in Requests : watch'[u].with = z /\ watch'[z].at = "reads" /\ read'[z].started >= kickedAt[u]
      <4>1. SUFFICES ASSUME watch[u].at = "shares"
                     PROVE  \E z \in Requests : /\ watch'[u].with = z /\ watch'[z].at = "reads"
                                                /\ read'[z].started >= kickedAt[u]
        OBVIOUS
      <4>2. PICK z \in Requests : watch[u].with = z /\ watch[z].at = "reads" /\ read[z].started >= kickedAt[u]
        BY <3>1, <4>1 DEF Reads!WatchFits
      <4>3. z \notin answered
        BY <2>2, <4>1, <4>2
      <4> QED BY <1>7, <1>9, <3>1, <4>2, <4>3
    <3> QED BY <1>2, <3>1, <3>2 DEF Reads!WatchFits
  <2> QED BY <2>1, <2>2
<1> QED BY <1>11, <1>13, <1>14 DEF Reads!ReadsInv

\* Nobody looks at first.
LEMMA ReadsBegins ==
    ASSUME Reads!ScreenAssumption, Reads!ScreenInit
    PROVE  Reads!ReadsInv
<1>1. /\ Reads!Off \in Watching /\ Reads!Off.at = "off" /\ Reads!NoRead \in ReadEntries
      /\ Reads!NoRead.at = "none" /\ Reads!NoRead.started = 0
      /\ Reads!NoResult \in ReadResults
  BY WatchOff
<1>2. 0 \in 0..MaxClock /\ 0 \in 0..MaxChanges + 1 /\ 1 \in 1..MaxChanges + 1
  BY DEF Reads!ScreenAssumption
<1>3. Reads!ScreenTypeOK
  BY <1>1, <1>2 DEF Reads!ScreenInit, Reads!ScreenTypeOK, Watching, ReadEntries, ReadResults
<1>4. Reads!ReadsFit
  BY <1>1 DEF Reads!ScreenInit, Reads!ReadsFit, Reads!Complete
<1>5. ASSUME NEW w \in Requests PROVE Reads!WatchFits(w)
  <2>1. watch[w].at = "off" /\ kickedAt[w] = 0 /\ needs[w] = 0 /\ clock = 0 /\ screen = 1
    BY <1>1 DEF Reads!ScreenInit
  <2> QED BY <2>1 DEF Reads!WatchFits
<1> QED BY <1>3, <1>4, <1>5 DEF Reads!ReadsInv

\* Every step preserves the invariant.
LEMMA ReadsStep ==
    ASSUME Reads!ScreenAssumption, Reads!ReadsInv, [Reads!ScreenNext]_(Reads!screenVars)
    PROVE  Reads!ReadsInv'
<1>1. CASE UNCHANGED Reads!screenVars
  BY <1>1 DEF Reads!screenVars, Reads!watchVars, Reads!readVars, Reads!ReadsInv, Reads!ScreenTypeOK,
     Reads!ReadsFit, Reads!WatchFits, Reads!Complete
<1>2. CASE Reads!Change \/ \E w \in Requests : Reads!Input(w)
  BY <1>2, ScreenChanges
<1>3. CASE Reads!Forget
  BY <1>3, ForgetKeeps
<1>4. ASSUME NEW w \in Requests,
             Reads!Watch(w) \/ Reads!Unwatch(w) \/ Reads!TakeKick(w) \/ Reads!LeaveShared(w) \/ Reads!Retry(w) \/ Reads!Deliver(w)
      PROVE  Reads!ReadsInv'
  BY <1>4, LookingKeeps, CancelKeeps, TakeKickKeeps, RetryKeeps
<1>5. ASSUME NEW w \in Requests,
             Reads!TimerFires(w) \/ Reads!Again(w) \/ Reads!Fetch(w) \/ \E how \in {"ok", "failed",
             "canceled"} : Reads!Settle(w, how)
      PROVE  Reads!ReadsInv'
  BY <1>5, BeginsToRead, FetchKeeps, SettleKeeps
<1> QED BY <1>1, <1>2, <1>3, <1>4, <1>5 DEF Reads!ScreenNext

\* Where a window turns to its timer.
LEMMA TurnsToTimer ==
    ASSUME Reads!ScreenAssumption, Reads!ReadsInv, Reads!ScreenNext, NEW w \in Requests,
           watch'[w].at = "timer", watch[w].at # "off", needs[w] # 0, needs'[w] = 0
    PROVE  Reads!Deliver(w) /\ result[w].outcome = "ok"
<1>1. ~UNCHANGED needs
  OBVIOUS
<1>2. PICK u \in Requests : Reads!Watch(u) \/ Reads!TakeKick(u) \/ Reads!Deliver(u)
  BY <1>1 DEF Reads!ScreenNext, Reads!Change, Reads!Forget, Reads!Unwatch, Reads!Input,
     Reads!TimerFires, Reads!Fetch, Reads!LeaveShared, Reads!Retry, Reads!Again, Reads!Settle,
     Reads!watchVars
<1>3. needs \in [Requests -> 0..MaxChanges + 1] /\ screen # 0
  BY DEF Reads!ReadsInv, Reads!ScreenTypeOK, Reads!ScreenAssumption
<1>4. u = w
  BY <1>2, <1>3 DEF Reads!Watch, Reads!TakeKick, Reads!Deliver
<1>5. Reads!Deliver(w)
  BY <1>2, <1>3, <1>4 DEF Reads!Watch, Reads!TakeKick
<1> QED BY <1>1, <1>5 DEF Reads!Deliver

\* An input is seen by the read that follows its kick.
LEMMA InputIsSeen ==
    ASSUME Reads!ScreenAssumption, Reads!ReadsInv, [Reads!ScreenNext]_(Reads!screenVars), NEW w \in Requests,
           watch'[w].at = "timer", watch[w].at # "off", needs[w] # 0, needs'[w] = 0
    PROVE  result[w].content >= needs[w]
<1>1. Reads!ScreenNext
  BY DEF Reads!screenVars, Reads!watchVars
<1>2. Reads!Deliver(w) /\ result[w].outcome = "ok"
  BY <1>1, TurnsToTimer
<1> QED BY <1>2 DEF Reads!Deliver, Reads!ReadsInv, Reads!WatchFits

\* A read that a window accepts began after its input, whoever started it:
\* the invariant of the shared reads, and what they show.
THEOREM ReadsInvariance ==
    ASSUME Reads!ScreenAssumption
    PROVE  Reads!ScreenSpec => []Reads!ReadsInv /\ Reads!ReadSeesInput
<1>1. Reads!ScreenInit => Reads!ReadsInv
  BY ReadsBegins
<1>2. Reads!ReadsInv /\ [Reads!ScreenNext]_(Reads!screenVars) => Reads!ReadsInv'
  BY ReadsStep
<1>3. Reads!ReadsInv /\ [Reads!ScreenNext]_(Reads!screenVars) =>
        [\A w \in Requests : (watch'[w].at = "timer" /\ watch[w].at # "off" /\ needs[w] # 0 /\ needs'[w] = 0)
            => result[w].content >= needs[w]]_(Reads!screenVars)
  BY InputIsSeen
<1> QED BY <1>1, <1>2, <1>3, PTL DEF Reads!ScreenSpec, Reads!ReadSeesInput

----------------------------------------------------------------------------
(* The differences by which the lines of a pane travel.                    *)

\* The operators of FiniteSets that ScreenFeed takes.
LEMMA FeedSets == \A S : Feed!Cardinality(S) = Cardinality(S)
BY Zenon DEF Feed!Cardinality, Cardinality


\* The screens are the sequences of lines that are not too long.
LEMMA ScreensAreSequences ==
    ASSUME Feed!FeedAssumption
    PROVE  /\ MaxLines \in Nat
           /\ \A s : s \in Feed!Screens <=> s \in Seq(Line) /\ Len(s) <= MaxLines
           /\ \A s \in Feed!Screens : s \in [1..Len(s) -> Line] /\ Len(s) \in 0..MaxLines /\ DOMAIN s = 1..Len(s)
           /\ <<>> \in Feed!Screens
<1>1. MaxLines \in Nat
  BY DEF Feed!FeedAssumption
<1>2. ASSUME NEW s \in Feed!Screens PROVE s \in Seq(Line) /\ Len(s) <= MaxLines
  <2>1. PICK n \in 0..MaxLines : s \in [1..n -> Line]
    BY <1>2 DEF Feed!Screens
  <2>2. n \in Nat /\ s \in Seq(Line)
    BY <1>1, <2>1, SeqDef
  <2>3. Len(s) = n
    BY <2>1, <2>2, LenProperties
  <2> QED BY <1>1, <2>2, <2>3
<1>3. ASSUME NEW s \in Seq(Line), Len(s) <= MaxLines PROVE s \in Feed!Screens
  <2>1. Len(s) \in Nat /\ s \in [1..Len(s) -> Line]
    BY <1>3, LenProperties
  <2>2. Len(s) \in 0..MaxLines
    BY <1>1, <1>3, <2>1
  <2>3. [1..Len(s) -> Line] \in {[1..n -> Line] : n \in 0..MaxLines}
    BY <2>2
  <2> QED BY <2>1, <2>3 DEF Feed!Screens
<1>4. ASSUME NEW s \in Feed!Screens
      PROVE  s \in [1..Len(s) -> Line] /\ Len(s) \in 0..MaxLines /\ DOMAIN s = 1..Len(s)
  BY <1>1, <1>2, <1>4, LenProperties
<1>5. <<>> \in Feed!Screens
  <2>1. PICK e : e = <<>>
    OBVIOUS
  <2>2. e \in Seq(Line) /\ Len(e) = 0
    BY <2>1, EmptySeq
  <2>3. Len(e) <= MaxLines
    BY <1>1, <2>2
  <2>4. e \in Feed!Screens
    BY <1>3, <2>2, <2>3, Zenon
  <2> QED BY <2>1, <2>4
<1> QED BY <1>1, <1>2, <1>3, <1>4, <1>5

\* A set of natural numbers has a smallest element.
LEMMA SmallestOf ==
    ASSUME NEW T, T \subseteq Nat, T # {}
    PROVE  \E i \in T : \A j \in T : i <= j
<1>1. \E i \in T : \A j \in T : ~ (<<j, i>> \in OpToRel(<, Nat))
  BY NatLessThanWellFounded, WFMin, Zenon
<1>2. \A i, j \in Nat : j < i => <<j, i>> \in OpToRel(<, Nat)
  BY Zenon DEF OpToRel
<1>3. \E i \in T : \A j \in T : ~ (j < i)
  BY <1>1, <1>2, Zenon
<1> QED BY <1>3

\* The cardinality of a set of lines is a number.
LEMMA CountsLines ==
    ASSUME NEW n \in Nat, NEW T, T \subseteq 1..n
    PROVE  Feed!Cardinality(T) \in Nat
<1>1. IsFiniteSet(1..n)
  BY FS_Interval
<1> QED BY <1>1, FS_Subset, FS_CardinalityType, FeedSets

\* bestScreenShift finds a shift within the lines that were there.
LEMMA ShiftInRange ==
    ASSUME Feed!FeedAssumption, NEW previous \in Feed!Screens, NEW next \in Feed!Screens
    PROVE  Feed!Shift(previous, next) \in 0..Len(previous)
<1>1. /\ Len(previous) \in Nat /\ Len(next) \in Nat /\ DOMAIN next = 1..Len(next)
  BY ScreensAreSequences
<1>2. SUFFICES ASSUME next # <<>> PROVE Feed!Shift(previous, next) \in 0..Len(previous)
  BY <1>1 DEF Feed!Shift
<1> DEFINE likely == {s \in 1..Len(previous) - 1 : previous[s + 1] = next[1]}
           tried == {0} \cup {s \in likely : Feed!Cardinality({r \in likely : r <= s}) <= MaxCandidates}
           cheapest == {s \in tried : \A r \in tried : Feed!Cost(previous, next,
           s) <= Feed!Cost(previous, next, r)}
           best == Feed!Min(cheapest)
<1>3. tried \subseteq 0..Len(previous) /\ tried \subseteq Nat /\ 0 \in tried
  BY <1>1
<1>4. \A s : Feed!Cost(previous, next, s) \in Nat
  <2>1. ASSUME NEW s PROVE Feed!Cost(previous, next, s) \in Nat
    BY <1>1, CountsLines DEF Feed!Cost
  <2> QED BY <2>1
<1>5. \E s \in tried : \A r \in tried : Feed!Cost(previous, next, s) <= Feed!Cost(previous, next, r)
  <2> DEFINE costs == {Feed!Cost(previous, next, s) : s \in tried}
  <2>1. costs \subseteq Nat /\ costs # {}
    BY <1>3, <1>4
  <2> HIDE DEF costs
  <2>2. PICK c \in costs : \A d \in costs : c <= d
    BY <2>1, SmallestOf
  <2>3. PICK s \in tried : c = Feed!Cost(previous, next, s)
    BY <2>2 DEF costs
  <2>4. \A r \in tried : Feed!Cost(previous, next, r) \in costs
    BY DEF costs
  <2> QED BY <2>2, <2>3, <2>4
<1>6. cheapest \subseteq Nat /\ cheapest # {}
  BY <1>3, <1>5
<1>7. best \in cheapest
  <2> HIDE DEF cheapest
  <2>1. \E i \in cheapest : \A j \in cheapest : i <= j
    BY <1>6, SmallestOf
  <2> QED BY <2>1 DEF Feed!Min
<1>8. best \in 0..Len(previous)
  BY <1>3, <1>7
<1>9. Feed!Shift(previous, next) = IF Len(next) < Feed!Cost(previous, next, best) THEN Len(previous) ELSE best
  BY <1>2, Zenon DEF Feed!Shift
<1> QED BY <1>1, <1>8, <1>9

\* A frame brings the lines it was made from to those that were read.
THEOREM FrameLeads ==
    ASSUME Feed!FeedAssumption, NEW g \in Feed!Generations,
           NEW previous \in Feed!Screens, NEW next \in Feed!Screens, NEW first \in BOOLEAN
    PROVE  /\ Feed!Frame(g, previous, next, first) \in Feed!Messages
           /\ Feed!Frame(g, previous, next, first).t = "screen" /\ Feed!Frame(g, previous, next, first).gen = g
           /\ first => Feed!Frame(g, previous, next, first).full
           /\ Feed!Apply(previous, Feed!Frame(g, previous, next, first)) = next
           /\ Feed!Frame(g, previous, next, first).full =>
                  \A lines : Feed!Apply(lines, Feed!Frame(g, previous, next, first)) = next
<1> DEFINE base(d) == SubSeq(previous, d + 1, Len(previous))
           full(d) == \/ first
                      \/ 5 * Feed!Cardinality(DOMAIN [i \in Feed!Differs(base(d), next) |-> next[i]]) > 4 * Len(next)
<1>1. PICK drop \in 0..Len(previous) : drop = Feed!Shift(previous, next)
  BY ShiftInRange
<1>2. /\ Len(previous) \in 0..MaxLines /\ Len(next) \in 0..MaxLines /\ DOMAIN next = 1..Len(next)
      /\ previous \in [1..Len(previous) -> Line] /\ next \in [1..Len(next) -> Line] /\ previous \in Seq(Line)
      /\ MaxLines \in Nat /\ <<>> \in Feed!Screens /\ drop \in 0..MaxLines
  BY ScreensAreSequences
<1>3. PICK old : old = SubSeq(previous, drop + 1, Len(previous))
  OBVIOUS
<1>4. Len(old) = Len(previous) - drop /\ \A i \in 1..Len(old) : old[i] = previous[drop + i]
  <2>1. Len(old) = IF drop + 1 <= Len(previous) THEN Len(previous) - (drop + 1) + 1 ELSE 0
    BY <1>2, <1>3, SubSeqProperties
  <2>2. Len(old) = Len(previous) - drop
    BY <1>1, <1>2, <2>1
  <2>3. \A i \in 1..Len(old) : old[i] = previous[drop + 1 + i - 1]
    <3>1. \A i \in drop + 1..Len(previous) : previous[i] \in Line
      BY <1>1, <1>2
    <3>2. \A i \in 1..Len(previous) - (drop + 1) + 1 : old[i] = previous[drop + 1 + i - 1]
      BY <1>1, <1>2, <1>3, <3>1, SubSeqProperties
    <3>3. Len(previous) - (drop + 1) + 1 = Len(old)
      BY <1>1, <1>2, <2>2
    <3> QED BY <3>2, <3>3
  <2>4. \A i \in 1..Len(old) : drop + 1 + i - 1 = drop + i
    BY <1>2, <2>2
  <2> QED BY <2>2, <2>3, <2>4
<1>5. PICK set : set = [i \in Feed!Differs(old, next) |-> next[i]]
  OBVIOUS
<1>6. /\ DOMAIN set = Feed!Differs(old, next) /\ \A i \in Feed!Differs(old, next) : set[i] = next[i]
      /\ Feed!Differs(old, next) \subseteq 1..Len(next)
  BY <1>2, <1>5 DEF Feed!Differs
<1>7. set \in UNION {[D -> Line] : D \in SUBSET (1..MaxLines)}
  <2>1. Feed!Differs(old, next) \in SUBSET (1..MaxLines)
    BY <1>2, <1>6
  <2>2. set \in [Feed!Differs(old, next) -> Line]
    BY <1>2, <1>5, <1>6
  <2> QED BY <2>1, <2>2
<1>8. PICK whole \in BOOLEAN : whole <=> first \/ 5 * Feed!Cardinality(DOMAIN set) > 4 * Len(next)
  OBVIOUS
<1>9. PICK differs \in BOOLEAN : differs <=> first \/ drop > 0 \/ DOMAIN set # {} \/ Len(old) # Len(next)
  OBVIOUS
<1>10. PICK f : f = [t |-> "screen", gen |-> g, total |-> Len(next), full |-> whole, changed |-> differs,
                     lines |-> IF whole THEN next ELSE <<>>,
                     drop |-> IF whole THEN 0 ELSE drop, set |-> IF whole THEN <<>> ELSE set]
  OBVIOUS
<1>11. Feed!Frame(g, previous, next, first) = f
  BY <1>1, <1>3, <1>5, <1>8, <1>9, <1>10 DEF Feed!Frame
<1>12. <<>> \in UNION {[D -> Line] : D \in SUBSET (1..MaxLines)}
  <2>1. <<>> \in [1..0 -> Line] /\ 1..0 \in SUBSET (1..MaxLines)
    BY EmptySeq, LenProperties
  <2> QED BY <2>1
<1>13. f \in Feed!Messages
  <2>1. /\ f.lines \in Feed!Screens /\ f.drop \in 0..MaxLines
        /\ f.set \in UNION {[D -> Line] : D \in SUBSET (1..MaxLines)}
    <3>1. CASE whole
      <4>1. f.lines = next /\ f.drop = 0 /\ f.set = <<>>
        BY <1>10, <3>1
      <4> QED BY <1>2, <1>12, <4>1
    <3>2. CASE ~ whole
      <4>1. f.lines = <<>> /\ f.drop = drop /\ f.set = set
        BY <1>10, <3>2
      <4> QED BY <1>2, <1>7, <4>1
    <3> QED BY <3>1, <3>2
  <2> QED BY <1>2, <1>10, <2>1 DEF Feed!Messages
<1>14. whole => \A lines : Feed!Apply(lines, f) = next
  BY <1>10 DEF Feed!Apply
<1>15. Feed!Apply(previous, f) = next
  <2>1. SUFFICES ASSUME ~ whole PROVE Feed!Apply(previous, f) = next
    BY <1>14
  <2>2. Feed!Apply(previous, f) = [i \in 1..Len(next) |->
            IF i \in DOMAIN set THEN set[i]
            ELSE IF drop + i <= Len(previous) THEN previous[drop + i] ELSE Blank]
    BY <1>10, <2>1 DEF Feed!Apply
  <2>3. ASSUME NEW i \in 1..Len(next), i \notin DOMAIN set
        PROVE  drop + i <= Len(previous) /\ previous[drop + i] = next[i]
    <3>1. i <= Len(old) /\ old[i] = next[i]
      BY <1>2, <1>4, <1>6, <2>3 DEF Feed!Differs
    <3> QED BY <1>2, <1>4, <3>1
  <2>4. \A i \in 1..Len(next) : Feed!Apply(previous, f)[i] = next[i]
    BY <1>6, <2>2, <2>3
  <2> QED BY <1>2, <2>2, <2>4
<1> QED BY <1>8, <1>10, <1>11, <1>13, <1>14, <1>15

\* What a frame makes of a screen is a screen.
LEMMA AppliedIsScreen ==
    ASSUME Feed!FeedAssumption, NEW lines \in Feed!Screens, NEW f \in Feed!Messages, f.t = "screen"
    PROVE  Feed!Apply(lines, f) \in Feed!Screens
<1>1. /\ f.total \in 0..MaxLines /\ f.lines \in Feed!Screens /\ f.drop \in 0..MaxLines
      /\ f.set \in UNION {[D -> Line] : D \in SUBSET (1..MaxLines)}
  BY DEF Feed!Messages
<1>2. /\ Len(lines) \in Nat /\ MaxLines \in Nat /\ lines \in [1..Len(lines) -> Line] /\ Blank \in Line
  BY ScreensAreSequences DEF Feed!FeedAssumption
<1>3. PICK D \in SUBSET (1..MaxLines) : f.set \in [D -> Line]
  BY <1>1
<1>4. CASE ~ f.full
  <2>1. Feed!Apply(lines, f) = [i \in 1..f.total |->
            IF i \in D THEN f.set[i]
            ELSE IF f.drop + i <= Len(lines) THEN lines[f.drop + i] ELSE Blank]
    BY <1>3, <1>4 DEF Feed!Apply
  <2>2. ASSUME NEW i \in 1..f.total, f.drop + i <= Len(lines) PROVE lines[f.drop + i] \in Line
    BY <1>1, <1>2, <2>2
  <2>3. Feed!Apply(lines, f) \in [1..f.total -> Line]
    BY <1>2, <1>3, <2>1, <2>2
  <2> QED BY <1>1, <2>3 DEF Feed!Screens
<1> QED BY <1>1, <1>4 DEF Feed!Apply

\* The records of generations.
Feeds == [state : {"none", "runs", "canceled", "ended"}, previous : Feed!Screens, first : BOOLEAN]

\* What the types say of a generation and of the messages.
LEMMA FeedTypes ==
    ASSUME Feed!FeedAssumption, Feed!ScreenFeedTypeOK
    PROVE  /\ MaxWatches \in Nat /\ Feed!Made \in Nat /\ Feed!Generations \subseteq Nat /\ watched \in 0..MaxWatches
           /\ \A h \in Feed!Generations : /\ feed[h] \in Feeds /\ feed[h].previous \in Feed!Screens /\ feed[h].first \in BOOLEAN
                                          /\ feed[h].state \in {"none", "runs", "canceled", "ended"}
           /\ frames \in Seq(Feed!Messages) /\ DOMAIN frames = 1..Len(frames) /\ Len(frames) \in Nat
           /\ \A i \in DOMAIN frames : /\ frames[i] \in Feed!Messages /\ frames[i].gen \in Feed!Generations
                                       /\ frames[i].t \in {"watching", "screen"}
           /\ requests \in Seq(Feed!Requested) /\ DOMAIN requests = 1..Len(requests) /\ Len(requests) \in Nat
           /\ \A i \in DOMAIN requests : requests[i] \in Feed!Requested
           /\ view.id \in 0..MaxWatches /\ view.gen \in 0..MaxWatches /\ view.lines \in Feed!Screens
<1>1. MaxWatches \in Nat /\ Feed!Generations \subseteq Nat
  BY DEF Feed!FeedAssumption, Feed!Generations
<1>2. Feed!Made \in Nat
  BY <1>1, CountsLines DEF Feed!Made, Feed!Generations
<1>3. \A h \in Feed!Generations : feed[h] \in Feeds
  BY DEF Feed!ScreenFeedTypeOK, Feeds
<1>4. frames \in Seq(Feed!Messages) /\ requests \in Seq(Feed!Requested)
  BY DEF Feed!ScreenFeedTypeOK
<1>5. /\ DOMAIN frames = 1..Len(frames) /\ Len(frames) \in Nat /\ \A i \in 1..Len(frames) : frames[i] \in Feed!Messages
      /\ DOMAIN requests = 1..Len(requests) /\ Len(requests) \in Nat
      /\ \A i \in 1..Len(requests) : requests[i] \in Feed!Requested
  BY <1>4, LenProperties
<1>6. \A m \in Feed!Messages : m.gen \in Feed!Generations /\ m.t \in {"watching", "screen"}
  BY DEF Feed!Messages
<1>7. /\ watched \in 0..MaxWatches
      /\ view.id \in 0..MaxWatches /\ view.gen \in 0..MaxWatches /\ view.lines \in Feed!Screens
  BY DEF Feed!ScreenFeedTypeOK
<1> QED BY <1>1, <1>2, <1>3, <1>4, <1>5, <1>6, <1>7 DEF Feeds

\* The generations that were given away are counted.
LEMMA MadeIs ==
    ASSUME Feed!FeedAssumption, NEW n \in 0..MaxWatches,
           \A h \in Feed!Generations : feed'[h].state # "none" <=> h <= n
    PROVE  Feed!Made' = n
<1>1. MaxWatches \in Nat
  BY DEF Feed!FeedAssumption
<1>2. {h \in Feed!Generations : feed'[h].state # "none"} = 1..n
  BY <1>1 DEF Feed!Generations
<1>3. Feed!Cardinality(1..n) = n
  BY <1>1, FS_Interval, FeedSets
<1> QED BY <1>2, <1>3 DEF Feed!Made

\* A message is sent.
LEMMA FramesAppended ==
    ASSUME Feed!FeedAssumption, Feed!ScreenFeedTypeOK, NEW m \in Feed!Messages, frames' = Append(frames, m)
    PROVE  /\ frames' \in Seq(Feed!Messages) /\ Len(frames') = Len(frames) + 1 /\ DOMAIN frames' = 1..Len(frames) + 1
           /\ \A i \in 1..Len(frames) : frames'[i] = frames[i]
           /\ frames'[Len(frames) + 1] = m
           /\ \A g : Feed!Opens(g)' = IF m.t = "watching" /\ m.gen = g THEN Feed!Opens(g) \cup {Len(frames) + 1} ELSE Feed!Opens(g)
           /\ \A g : Feed!Shows(g)' = IF m.t = "screen" /\ m.gen = g THEN Feed!Shows(g) \cup {Len(frames) + 1} ELSE Feed!Shows(g)
<1>1. frames \in Seq(Feed!Messages) /\ DOMAIN frames = 1..Len(frames) /\ Len(frames) \in Nat
  BY FeedTypes
<1>2. /\ frames' \in Seq(Feed!Messages) /\ Len(frames') = Len(frames) + 1
      /\ \A i \in 1..Len(frames) : frames'[i] = frames[i]
      /\ frames'[Len(frames) + 1] = m
  BY <1>1, AppendProperties
<1>3. DOMAIN frames' = 1..Len(frames) + 1
  BY <1>2, LenProperties
<1>4. /\ \A i \in DOMAIN frames' : i \in DOMAIN frames \/ i = Len(frames) + 1
      /\ DOMAIN frames \subseteq DOMAIN frames' /\ Len(frames) + 1 \in DOMAIN frames'
  BY <1>1, <1>3
<1>5. \A g : Feed!Opens(g)' = IF m.t = "watching" /\ m.gen = g THEN Feed!Opens(g) \cup {Len(frames) + 1} ELSE Feed!Opens(g)
  BY <1>1, <1>2, <1>4 DEF Feed!Opens
<1>6. \A g : Feed!Shows(g)' = IF m.t = "screen" /\ m.gen = g THEN Feed!Shows(g) \cup {Len(frames) + 1} ELSE Feed!Shows(g)
  BY <1>1, <1>2, <1>4 DEF Feed!Shows
<1> QED BY <1>2, <1>3, <1>5, <1>6

\* A message arrives.
LEMMA FramesTail ==
    ASSUME Feed!FeedAssumption, Feed!ScreenFeedTypeOK, frames # <<>>, frames' = Tail(frames)
    PROVE  /\ frames' \in Seq(Feed!Messages) /\ Len(frames') = Len(frames) - 1 /\ Len(frames) \in Nat \ {0}
           /\ DOMAIN frames' = 1..Len(frames) - 1
           /\ Head(frames) = frames[1]
           /\ \A i \in 1..Len(frames) - 1 : frames'[i] = frames[i + 1]
           /\ \A g, i : i \in Feed!Opens(g)' <=> i \in 1..Len(frames) - 1 /\ i + 1 \in Feed!Opens(g)
           /\ \A g, i : i \in Feed!Shows(g)' <=> i \in 1..Len(frames) - 1 /\ i + 1 \in Feed!Shows(g)
<1>1. frames \in Seq(Feed!Messages) /\ DOMAIN frames = 1..Len(frames) /\ Len(frames) \in Nat \ {0}
  BY FeedTypes, EmptySeq
<1>2. /\ frames' \in Seq(Feed!Messages) /\ Len(frames') = Len(frames) - 1 /\ Head(frames) = frames[1]
      /\ \A i \in 1..Len(frames) - 1 : frames'[i] = frames[i + 1]
  BY <1>1, HeadTailProperties
<1>3. DOMAIN frames' = 1..Len(frames) - 1
  BY <1>2, LenProperties
<1>4. \A i \in 1..Len(frames) - 1 : i + 1 \in 1..Len(frames)
  BY <1>1
<1>5. \A g, i : i \in Feed!Opens(g)' <=> i \in 1..Len(frames) - 1 /\ i + 1 \in Feed!Opens(g)
  BY <1>1, <1>2, <1>3, <1>4 DEF Feed!Opens
<1>6. \A g, i : i \in Feed!Shows(g)' <=> i \in 1..Len(frames) - 1 /\ i + 1 \in Feed!Shows(g)
  BY <1>1, <1>2, <1>3, <1>4 DEF Feed!Shows
<1> QED BY <1>1, <1>2, <1>3, <1>5, <1>6

\* What stays of the messages and the lines when nothing is sent or arrives.
LEMMA QuietKeeps ==
    ASSUME Feed!FeedAssumption, Feed!FeedInv, frames' = frames, Feed!Made' = Feed!Made,
           \A h \in Feed!Generations : feed'[h] = feed[h] \/ feed'[h].state # "runs",
           view'.lines = view.lines, view'.gen \in {0, view.gen}
    PROVE  Feed!MessagesFit' /\ Feed!LinesFit'
<1>1. \A g : Feed!Opens(g)' = Feed!Opens(g) /\ Feed!Shows(g)' = Feed!Shows(g)
  BY DEF Feed!Opens, Feed!Shows
<1>2. 0 \notin Feed!Generations
  BY DEF Feed!Generations
<1>3. \A g \in Feed!Generations : /\ view'.gen = g => view.gen = g
                                  /\ feed'[g].state = "runs" => feed'[g] = feed[g]
  BY <1>2
<1>4. Feed!MessagesFit'
  <2>1. \A i \in DOMAIN frames' : frames'[i].gen <= Feed!Made'
    BY DEF Feed!FeedInv, Feed!MessagesFit
  <2>2. ASSUME NEW g \in Feed!Generations
        PROVE  /\ view'.gen = g => Feed!Opens(g)' = {}
               /\ \A i, j \in Feed!Opens(g)' : i = j
               /\ \A i \in Feed!Opens(g)', j \in Feed!Shows(g)' : i < j
               /\ feed'[g].state = "runs" /\ feed'[g].first => Feed!Shows(g)' = {}
               /\ feed'[g].state = "runs" /\ ~ feed'[g].first /\ Feed!Opens(g)' # {} =>
                    \E j \in Feed!Shows(g)' : frames'[j].full /\ \A k \in Feed!Shows(g)' : j <= k
    BY <1>1, <1>3 DEF Feed!FeedInv, Feed!MessagesFit
  <2> QED BY <2>1, <2>2 DEF Feed!MessagesFit
<1>5. Feed!LinesFit'
  <2> SUFFICES ASSUME NEW g \in Feed!Generations, feed'[g].state = "runs", ~ feed'[g].first,
                      view'.gen = g \/ Feed!Opens(g)' # {}
               PROVE  \E lines \in [0..Len(frames') -> Feed!Screens] : Feed!Leads(g, lines)'
    BY DEF Feed!LinesFit
  <2>1. PICK lines \in [0..Len(frames) -> Feed!Screens] : Feed!Leads(g, lines)
    BY <1>1, <1>3 DEF Feed!FeedInv, Feed!LinesFit
  <2>2. Feed!Leads(g, lines)'
    BY <1>1, <1>3, <2>1 DEF Feed!Leads
  <2> QED BY <2>1, <2>2
<1> QED BY <1>4, <1>5

\* The lines go through the messages on their way, wherever they lead.
Passes(g, lines) ==
    /\ \A k \in Feed!Shows(g) : lines[k] = Feed!Apply(lines[k - 1], frames[k])
    /\ \A i, k \in 0..Len(frames) : i <= k /\ Feed!Shows(g) \cap (i + 1)..k = {} => lines[i] = lines[k]
    /\ view.gen = g => lines[0] = view.lines

\* A message that is sent goes on from what was read last.
LEMMA LeadsOn ==
    ASSUME Feed!FeedAssumption, Feed!ScreenFeedTypeOK, NEW g \in Feed!Generations, NEW m \in Feed!Messages,
           frames' = Append(frames, m),
           NEW lines \in [0..Len(frames) -> Feed!Screens], Passes(g, lines), NEW next \in Feed!Screens,
           feed'[g].previous = next, view' = view,
           next = IF m.t = "screen" /\ m.gen = g THEN Feed!Apply(lines[Len(frames)],
           m) ELSE lines[Len(frames)]
    PROVE  \E more \in [0..Len(frames') -> Feed!Screens] : Feed!Leads(g, more)'
<1> DEFINE n == Len(frames)
<1>0. PICK more : more = [k \in 0..n + 1 |-> IF k <= n THEN lines[k] ELSE next]
  OBVIOUS
<1>1. /\ n \in Nat /\ Len(frames') = n + 1 /\ \A i \in 1..n : frames'[i] = frames[i] /\ frames'[n + 1] = m
      /\ Feed!Shows(g)' = IF m.t = "screen" /\ m.gen = g THEN Feed!Shows(g) \cup {n + 1} ELSE Feed!Shows(g)
      /\ Feed!Shows(g) \subseteq 1..n
  BY FeedTypes, FramesAppended DEF Feed!Shows
<1>2. more \in [0..n + 1 -> Feed!Screens] /\ more[n + 1] = next /\ \A k \in 0..n : more[k] = lines[k]
  BY <1>0, <1>1
<1>3. ASSUME NEW k \in Feed!Shows(g)' PROVE more[k] = Feed!Apply(more[k - 1], frames'[k])
  <2>1. CASE k \in Feed!Shows(g)
    <3>1. k \in 1..n /\ k \in 0..n /\ k - 1 \in 0..n
      BY <1>1, <2>1
    <3> QED BY <1>1, <1>2, <2>1, <3>1 DEF Passes
  <2>2. CASE k \notin Feed!Shows(g)
    <3>1. k = n + 1 /\ m.t = "screen" /\ m.gen = g
      BY <1>1, <1>3, <2>2
    <3>2. k - 1 = n /\ n \in 0..n /\ frames'[k] = m
      BY <1>1, <3>1, FramesAppended
    <3> QED BY <1>2, <3>1, <3>2
  <2> QED BY <2>1, <2>2
<1>4. ASSUME NEW i \in 0..n + 1, NEW k \in 0..n + 1, i <= k, Feed!Shows(g)' \cap (i + 1)..k = {}
      PROVE  more[i] = more[k]
  <2>1. Feed!Shows(g) \subseteq Feed!Shows(g)'
    BY <1>1
  <2>2. CASE k <= n
    BY <1>1, <1>2, <1>4, <2>1, <2>2 DEF Passes
  <2>3. CASE k = n + 1 /\ i = n + 1
    BY <2>3
  <2>4. CASE k = n + 1 /\ i <= n
    <3>1. n + 1 \notin Feed!Shows(g)' /\ Feed!Shows(g) \cap (i + 1)..n = {} /\ n \in 0..n /\ i \in 0..n
      BY <1>1, <1>4, <2>1, <2>4
    <3>2. next = lines[n]
      BY <1>1, <3>1
    <3>3. lines[i] = lines[n]
      BY <2>4, <3>1 DEF Passes
    <3> QED BY <1>2, <2>4, <3>1, <3>2, <3>3
  <2> QED BY <1>1, <2>2, <2>3, <2>4
<1>5. view'.gen = g => more[0] = view'.lines
  BY <1>1, <1>2 DEF Passes
<1>6. Feed!Leads(g, more)'
  <2>1. \A k \in Feed!Shows(g)' : more[k] = Feed!Apply(more[k - 1], frames'[k])
    BY <1>3
  <2>2. \A i, k \in 0..Len(frames') : i <= k /\ Feed!Shows(g)' \cap (i + 1)..k = {} => more[i] = more[k]
    BY <1>1, <1>4
  <2>3. more[Len(frames')] = feed'[g].previous
    BY <1>1, <1>2
  <2> QED BY <1>5, <2>1, <2>2, <2>3 DEF Feed!Leads
<1> QED BY <1>1, <1>2, <1>6

\* A generation that was given away stays so.
LEMMA MadeStays ==
    ASSUME Feed!FeedAssumption, Feed!ScreenFeedTypeOK, \A h \in Feed!Generations : feed'[h].state = "none" <=> feed[h].state = "none"
    PROVE  Feed!Made' = Feed!Made
BY DEF Feed!Made

\* The generation of a watch that is replaced or given up is canceled.
LEMMA FeedCancels ==
    ASSUME Feed!FeedAssumption, Feed!FeedInv, NEW h \in Feed!Generations, NEW x,
           x = [feed[h] EXCEPT !.state = Feed!Cancel(@)]
    PROVE  /\ x \in Feeds /\ x.state # "runs" /\ (x.state = "none" <=> feed[h].state = "none")
           /\ x.first = feed[h].first
<1>1. feed[h] \in Feeds /\ feed[h].state \in {"none", "runs", "canceled", "ended"}
  BY FeedTypes DEF Feed!FeedInv
<1>2. PICK c : c = Feed!Cancel(feed[h].state)
  OBVIOUS
<1>3. c \in {"none", "canceled", "ended"} /\ (c = "none" <=> feed[h].state = "none")
  BY <1>1, <1>2 DEF Feed!Cancel
<1>4. x = [feed[h] EXCEPT !.state = c]
  BY <1>2
<1> QED BY <1>1, <1>3, <1>4 DEF Feeds

\* The window gives its watch up, or a canceled goroutine ends.
LEMMA UnwatchKeeps ==
    ASSUME Feed!FeedAssumption, Feed!FeedInv, Feed!UnwatchScreen \/ \E g \in Feed!Generations : Feed!FeedEnds(g)
    PROVE  Feed!FeedInv'
<1>1. /\ UNCHANGED <<frames, watched, view>>
      /\ generation' \in 0..MaxWatches
      /\ requests' = requests \/ (requests # <<>> /\ requests' = Tail(requests))
  BY DEF Feed!UnwatchScreen, Feed!FeedEnds, Feed!FeedInv, Feed!ScreenFeedTypeOK, Feed!FeedAssumption
<1>2. /\ feed' \in [Feed!Generations -> Feeds]
      /\ \A h \in Feed!Generations : /\ feed'[h] = feed[h] \/ feed'[h].state # "runs"
                                     /\ feed'[h].state = "none" <=> feed[h].state = "none"
                                     /\ feed'[h].state = "none" => feed'[h].first
  <2>1. \A h \in Feed!Generations : feed[h] \in Feeds /\ (feed[h].state = "none" => feed[h].first)
    BY FeedTypes DEF Feed!FeedInv, Feed!GenerationsFit
  <2>2. CASE Feed!UnwatchScreen
    <3>1. feed' = [h \in Feed!Generations |-> IF h = generation THEN [feed[h] EXCEPT !.state = Feed!Cancel(@)] ELSE feed[h]]
      BY <2>2 DEF Feed!UnwatchScreen
    <3>2. ASSUME NEW h \in Feed!Generations
          PROVE  /\ feed'[h] \in Feeds /\ (feed'[h] = feed[h] \/ feed'[h].state # "runs")
                 /\ feed'[h].state = "none" <=> feed[h].state = "none"
                 /\ feed'[h].state = "none" => feed'[h].first
      <4>1. CASE h = generation
        <5>1. PICK x : x = [feed[h] EXCEPT !.state = Feed!Cancel(@)]
          OBVIOUS
        <5>2. /\ x \in Feeds /\ x.state # "runs"
              /\ (x.state = "none" <=> feed[h].state = "none") /\ x.first = feed[h].first
          BY <5>1, FeedCancels
        <5>3. feed'[h] = x
          BY <3>1, <4>1, <5>1
        <5> QED BY <2>1, <5>2, <5>3
      <4>2. CASE h # generation
        BY <2>1, <3>1, <4>2
      <4> QED BY <4>1, <4>2
    <3> QED BY <3>1, <3>2
  <2>3. CASE \E g \in Feed!Generations : Feed!FeedEnds(g)
    <3>1. PICK g \in Feed!Generations : feed[g].state = "canceled" /\ feed' = [feed EXCEPT ![g] = Feed!Ended]
      BY <2>3 DEF Feed!FeedEnds
    <3>2. Feed!Ended \in Feeds /\ Feed!Ended.state = "ended"
      BY ScreensAreSequences DEF Feed!Ended, Feeds
    <3>3. feed \in [Feed!Generations -> Feeds]
      BY DEF Feed!FeedInv, Feed!ScreenFeedTypeOK, Feeds
    <3> QED BY <2>1, <3>1, <3>2, <3>3
  <2> QED BY <2>2, <2>3
<1>3. Feed!Made' = Feed!Made
  BY <1>2, MadeStays DEF Feed!FeedInv
<1>4. Feed!MessagesFit' /\ Feed!LinesFit'
  BY <1>1, <1>2, <1>3, QuietKeeps
<1>5. /\ requests' \in Seq(Feed!Requested) /\ DOMAIN requests' = 1..Len(requests')
      /\ Len(requests') \in Nat /\ \E d \in {0, 1} : /\ Len(requests') = Len(requests) - d
                                                     /\ \A i \in 1..Len(requests') : requests'[i] = requests[i + d]
  <2>1. requests \in Seq(Feed!Requested) /\ DOMAIN requests = 1..Len(requests) /\ Len(requests) \in Nat
    BY FeedTypes DEF Feed!FeedInv
  <2>2. CASE requests' = requests
    BY <2>1, <2>2
  <2>3. CASE requests # <<>> /\ requests' = Tail(requests)
    <3>1. /\ requests' \in Seq(Feed!Requested) /\ Len(requests') = Len(requests) - 1
          /\ \A i \in 1..Len(requests') : requests'[i] = requests[i + 1]
      BY <2>1, <2>3, HeadTailProperties
    <3> QED BY <3>1, LenProperties
  <2> QED BY <1>1, <2>2, <2>3
<1>6. Feed!ScreenFeedTypeOK'
  BY <1>1, <1>2, <1>5 DEF Feed!FeedInv, Feed!ScreenFeedTypeOK, Feeds
<1>7. Feed!GenerationsFit'
  <2>1. PICK d \in {0, 1} : /\ Len(requests') = Len(requests) - d
                            /\ \A i \in 1..Len(requests') : requests'[i] = requests[i + d]
    BY <1>5
  <2>2. DOMAIN requests = 1..Len(requests) /\ Len(requests) \in Nat
    BY FeedTypes DEF Feed!FeedInv
  <2>3. \A i \in DOMAIN requests' : i + d \in DOMAIN requests /\ requests'[i] = requests[i + d] /\ i \in Nat
    BY <1>5, <2>1, <2>2
  <2>4. \A h \in Feed!Generations : feed'[h].state # "none" <=> h <= Feed!Made'
    BY <1>2, <1>3 DEF Feed!FeedInv, Feed!GenerationsFit
  <2>5. \A i \in DOMAIN requests' : requests'[i].t = "watch" => Feed!Made' < requests'[i].id /\ requests'[i].id <= watched'
    BY <1>1, <1>3, <2>3 DEF Feed!FeedInv, Feed!GenerationsFit
  <2>6. ASSUME NEW i \in DOMAIN requests', NEW j \in DOMAIN requests', i < j, requests'[i].t = "watch", requests'[j].t = "watch"
        PROVE  requests'[i].id < requests'[j].id
    <3>1. i + d < j + d
      BY <2>1, <2>3, <2>6
    <3> QED BY <2>3, <2>6, <3>1 DEF Feed!FeedInv, Feed!GenerationsFit
  <2> QED BY <1>1, <1>2, <1>3, <2>4, <2>5, <2>6 DEF Feed!FeedInv, Feed!GenerationsFit
<1> QED BY <1>4, <1>6, <1>7 DEF Feed!FeedInv

\* The requests to watch come in the order of their numbers.
Ordered(s, n, a) ==
    /\ \A i \in DOMAIN s : s[i].t = "watch" => n < s[i].id /\ s[i].id <= a
    /\ \A i, j \in DOMAIN s : i < j /\ s[i].t = "watch" /\ s[j].t = "watch" => s[i].id < s[j].id

\* Another request of the window.
LEMMA WatchAppended ==
    ASSUME Feed!FeedAssumption, NEW s \in Seq(Feed!Requested), NEW n \in Nat, NEW a \in Nat, n <= a,
           Ordered(s, n, a),
           NEW m \in Feed!Requested, NEW b \in {a, a + 1}, m.t = "watch" => m.id = a + 1 /\ b = a + 1
    PROVE  Append(s, m) \in Seq(Feed!Requested) /\ Ordered(Append(s, m), n, b)
<1>1. PICK t : t = Append(s, m)
  OBVIOUS
<1>2. /\ t \in Seq(Feed!Requested) /\ Len(t) = Len(s) + 1 /\ \A i \in 1..Len(s) : t[i] = s[i]
      /\ t[Len(s) + 1] = m /\ Len(s) \in Nat /\ DOMAIN s = 1..Len(s)
  BY <1>1, AppendProperties, LenProperties
<1>3. DOMAIN t = 1..Len(s) + 1
  BY <1>2, LenProperties
<1>4. \A i \in 1..Len(s) : s[i].t = "watch" => s[i].id \in Nat
  <2>1. \A i \in 1..Len(s) : s[i] \in Feed!Requested
    BY <1>2, LenProperties
  <2>2. \A x \in Feed!Requested : x.t = "watch" => x.id \in 1..MaxWatches
    BY DEF Feed!Requested
  <2> QED BY <2>1, <2>2
<1>5. \A i \in DOMAIN t : i \in 1..Len(s) \/ i = Len(s) + 1
  BY <1>2, <1>3
<1>6. \A i \in DOMAIN t : t[i].t = "watch" => n < t[i].id /\ t[i].id <= b
  BY <1>2, <1>4, <1>5 DEF Ordered
<1>7. ASSUME NEW i \in DOMAIN t, NEW j \in DOMAIN t, i < j, t[i].t = "watch", t[j].t = "watch"
      PROVE  t[i].id < t[j].id
  <2>1. i \in 1..Len(s)
    BY <1>2, <1>3, <1>7
  <2>2. CASE j \in 1..Len(s)
    BY <1>2, <1>7, <2>1, <2>2 DEF Ordered
  <2>3. CASE j = Len(s) + 1
    BY <1>2, <1>4, <1>7, <2>1, <2>3 DEF Ordered
  <2> QED BY <1>5, <2>2, <2>3
<1> QED BY <1>1, <1>2, <1>6, <1>7 DEF Ordered

\* The window looks, looks again, or stops looking.
LEMMA WindowLooks ==
    ASSUME Feed!FeedAssumption, Feed!FeedInv, Feed!Look \/ Feed!LookAway
    PROVE  Feed!FeedInv'
<1>1. /\ UNCHANGED <<generation, feed, frames>>
      /\ MaxWatches \in Nat /\ Feed!Made \in Nat /\ watched \in 0..MaxWatches /\ Feed!Made <= watched
      /\ requests \in Seq(Feed!Requested) /\ Ordered(requests, Feed!Made, watched)
  BY FeedTypes DEF Feed!Look, Feed!LookAway, Feed!FeedInv, Feed!GenerationsFit, Ordered
<1>2. /\ view' \in [id : 0..MaxWatches, gen : 0..MaxWatches, lines : Feed!Screens]
      /\ view'.gen = 0 /\ view'.lines = view.lines
  <2>1. view \in [id : 0..MaxWatches, gen : 0..MaxWatches, lines : Feed!Screens]
    BY DEF Feed!FeedInv, Feed!ScreenFeedTypeOK
  <2>2. PICK n \in 0..MaxWatches : view' = [view EXCEPT !.id = n, !.gen = 0]
    <3>1. CASE Feed!Look
      <4>1. watched + 1 \in 0..MaxWatches
        BY <1>1, <3>1 DEF Feed!Look
      <4> QED BY <3>1, <4>1 DEF Feed!Look
    <3>2. CASE Feed!LookAway
      <4>1. 0 \in 0..MaxWatches /\ view' = [view EXCEPT !.id = 0, !.gen = 0]
        BY <1>1, <3>2 DEF Feed!LookAway
      <4> QED BY <4>1
    <3> QED BY <3>1, <3>2
  <2>3. 0 \in 0..MaxWatches
    BY <1>1
  <2>4. PICK v : v = view'
    OBVIOUS
  <2>5. /\ v \in [id : 0..MaxWatches, gen : 0..MaxWatches, lines : Feed!Screens] /\ v.gen = 0
        /\ v.lines = view.lines
    BY <2>1, <2>2, <2>3, <2>4
  <2> QED BY <2>4, <2>5
<1>3. Feed!Made' = Feed!Made
  BY <1>1 DEF Feed!Made
<1>4. Feed!MessagesFit' /\ Feed!LinesFit'
  BY <1>1, <1>2, <1>3, QuietKeeps
<1>5. /\ requests' \in Seq(Feed!Requested) /\ Ordered(requests', Feed!Made, watched')
      /\ watched' \in 0..MaxWatches /\ watched <= watched'
  <2>1. [t |-> "unwatch"] \in Feed!Requested
    BY DEF Feed!Requested
  <2>2. CASE Feed!LookAway
    BY <1>1, <2>1, <2>2, WatchAppended DEF Feed!LookAway
  <2>3. CASE Feed!Look
    <3>1. PICK m : m = [t |-> "watch", id |-> watched + 1]
      OBVIOUS
    <3>2. /\ m \in Feed!Requested /\ m.t = "watch" /\ m.id = watched + 1
          /\ watched' = watched + 1 /\ watched + 1 \in 1..MaxWatches
      BY <1>1, <2>3, <3>1 DEF Feed!Look, Feed!Requested
    <3>3. PICK s : s \in {<<>>, <<[t |-> "unwatch"]>>} /\ requests' = requests \o s \o <<m>>
      BY <2>3, <3>1 DEF Feed!Look
    <3>4. PICK r : r = requests \o s
      OBVIOUS
    <3>5. r \in Seq(Feed!Requested) /\ Ordered(r, Feed!Made, watched)
      <4>1. CASE s = <<>>
        BY <1>1, <3>4, <4>1, ConcatEmptySeq
      <4>2. CASE s = <<[t |-> "unwatch"]>>
        <5>1. r = Append(requests, [t |-> "unwatch"])
          BY <1>1, <2>1, <3>4, <4>2, AppendIsConcat
        <5> QED BY <1>1, <2>1, <5>1, WatchAppended
      <4> QED BY <3>3, <4>1, <4>2
    <3>6. requests' = Append(r, m)
      BY <3>2, <3>3, <3>4, <3>5, AppendIsConcat
    <3> QED BY <1>1, <3>2, <3>5, <3>6, WatchAppended
  <2> QED BY <2>2, <2>3
<1>6. Feed!ScreenFeedTypeOK'
  BY <1>1, <1>2, <1>5 DEF Feed!FeedInv, Feed!ScreenFeedTypeOK
<1>7. Feed!GenerationsFit'
  BY <1>1, <1>2, <1>3, <1>5 DEF Feed!FeedInv, Feed!GenerationsFit, Ordered
<1> QED BY <1>4, <1>6, <1>7 DEF Feed!FeedInv

\* The workbench begins a watch, in place of the one before it.
LEMMA WatchKeeps ==
    ASSUME Feed!FeedAssumption, Feed!FeedInv, Feed!WatchScreen
    PROVE  Feed!FeedInv'
<1>1. PICK g : g = Feed!Made + 1
  OBVIOUS
<1>2. PICK head : head = Head(requests)
  OBVIOUS
<1>3. PICK m : m = [t |-> "watching", id |-> head.id, gen |-> g]
  OBVIOUS
<1>4. /\ requests # <<>> /\ head.t = "watch" /\ requests' = Tail(requests) /\ UNCHANGED <<watched, view>>
      /\ feed' = [h \in Feed!Generations |->
                    IF h = g THEN [feed[h] EXCEPT !.state = "runs"]
                    ELSE IF h = generation THEN [feed[h] EXCEPT !.state = Feed!Cancel(@)] ELSE feed[h]]
      /\ generation' = g /\ frames' = Append(frames, m)
  <2>1. g = 1 + Feed!Cardinality({h \in Feed!Generations : feed[h].state # "none"})
    BY <1>1, FeedTypes DEF Feed!Made, Feed!FeedInv
  <2> QED BY <1>2, <1>3, <2>1 DEF Feed!WatchScreen
<1>5. /\ MaxWatches \in Nat /\ Feed!Made \in Nat /\ watched \in 0..MaxWatches
      /\ requests \in Seq(Feed!Requested) /\ DOMAIN requests = 1..Len(requests) /\ Len(requests) \in Nat \ {0}
      /\ \A i \in DOMAIN requests : requests[i] \in Feed!Requested
  BY <1>4, FeedTypes, EmptySeq DEF Feed!FeedInv
<1>6. /\ head = requests[1] /\ 1 \in DOMAIN requests /\ head.id \in 1..MaxWatches
      /\ Feed!Made < head.id /\ head.id <= watched
  <2>1. head = requests[1] /\ 1 \in DOMAIN requests
    BY <1>2, <1>5, HeadTailProperties
  <2> QED BY <1>4, <1>5, <2>1 DEF Feed!Requested, Feed!FeedInv, Feed!GenerationsFit
<1>7. g \in 1..MaxWatches /\ g \in Feed!Generations /\ g <= watched /\ g <= head.id
  BY <1>1, <1>5, <1>6 DEF Feed!Generations
<1>8. m \in Feed!Messages /\ m.t = "watching" /\ m.gen = g
  BY <1>3, <1>6, <1>7 DEF Feed!Messages
\* The generations.
<1>9. /\ feed[g].state = "none" /\ feed[g].first
      /\ feed'[g] \in Feeds /\ feed'[g].state = "runs" /\ feed'[g].first
  <2>1. feed[g].state = "none" /\ feed[g].first
    BY <1>1, <1>5, <1>7 DEF Feed!FeedInv, Feed!GenerationsFit
  <2>2. feed[g] \in Feeds
    BY <1>7, FeedTypes DEF Feed!FeedInv
  <2>3. feed'[g] = [feed[g] EXCEPT !.state = "runs"]
    BY <1>4, <1>7
  <2> QED BY <2>1, <2>2, <2>3 DEF Feeds
<1>10. \A h \in Feed!Generations \ {g} : /\ feed'[h] \in Feeds /\ (feed'[h] = feed[h] \/ feed'[h].state # "runs")
                                         /\ feed'[h].state = "none" <=> feed[h].state = "none"
                                         /\ feed'[h].first = feed[h].first
  <2> SUFFICES ASSUME NEW h \in Feed!Generations \ {g}
               PROVE  /\ feed'[h] \in Feeds /\ (feed'[h] = feed[h] \/ feed'[h].state # "runs")
                      /\ feed'[h].state = "none" <=> feed[h].state = "none"
                      /\ feed'[h].first = feed[h].first
    OBVIOUS
  <2>1. CASE h = generation
    <3>1. PICK x : x = [feed[h] EXCEPT !.state = Feed!Cancel(@)]
      OBVIOUS
    <3>2. /\ x \in Feeds /\ x.state # "runs" /\ (x.state = "none" <=> feed[h].state = "none")
          /\ x.first = feed[h].first
      BY <3>1, FeedCancels
    <3>3. feed'[h] = x
      BY <1>4, <2>1, <3>1
    <3> QED BY <3>2, <3>3
  <2>2. CASE h # generation
    <3>1. feed'[h] = feed[h] /\ feed[h] \in Feeds
      BY <1>4, <2>2, FeedTypes DEF Feed!FeedInv
    <3> QED BY <3>1
  <2> QED BY <2>1, <2>2
<1>11. feed' \in [Feed!Generations -> Feeds]
  <2>1. \A h \in Feed!Generations : feed'[h] \in Feeds
    BY <1>9, <1>10
  <2> QED BY <1>4, <2>1
<1>12. Feed!Made' = g
  <2>1. ASSUME NEW h \in Feed!Generations PROVE feed'[h].state # "none" <=> h <= g
    <3>1. CASE h = g
      BY <1>7, <1>9, <3>1
    <3>2. CASE h # g
      <4>1. h <= Feed!Made <=> h <= g
        BY <1>1, <1>5, <3>2 DEF Feed!Generations
      <4> QED BY <1>10, <3>2, <4>1 DEF Feed!FeedInv, Feed!GenerationsFit
    <3> QED BY <3>1, <3>2
  <2> QED BY <1>7, <2>1, MadeIs
\* The requests.
<1>13. /\ requests' \in Seq(Feed!Requested)
       /\ \A i \in DOMAIN requests' : i \in Nat /\ i + 1 \in DOMAIN requests /\ requests'[i] = requests[i + 1]
  <2>1. /\ requests' \in Seq(Feed!Requested) /\ Len(requests') = Len(requests) - 1
        /\ \A i \in 1..Len(requests') : requests'[i] = requests[i + 1]
    BY <1>4, <1>5, HeadTailProperties
  <2>2. DOMAIN requests' = 1..Len(requests')
    BY <2>1, LenProperties
  <2> QED BY <1>5, <2>1, <2>2
<1>14. Feed!ScreenFeedTypeOK'
  <2>1. frames' \in Seq(Feed!Messages)
    BY <1>4, <1>8, FramesAppended DEF Feed!FeedInv
  <2>2. generation' \in 0..MaxWatches
    BY <1>4, <1>5, <1>7
  <2>3. feed' \in [Feed!Generations -> [state : {"none", "runs", "canceled", "ended"}, previous : Feed!Screens, first : BOOLEAN]]
    BY <1>11 DEF Feeds
  <2> QED BY <1>4, <1>13, <2>1, <2>2, <2>3 DEF Feed!FeedInv, Feed!ScreenFeedTypeOK
<1>15. Feed!GenerationsFit'
  <2>1. \A h \in Feed!Generations : feed'[h].state # "none" <=> h <= Feed!Made'
    <3>1. ASSUME NEW h \in Feed!Generations, h # g PROVE h <= Feed!Made <=> h <= g
      BY <1>1, <1>5, <3>1 DEF Feed!Generations
    <3> QED BY <1>7, <1>9, <1>10, <1>12, <3>1 DEF Feed!FeedInv, Feed!GenerationsFit
  <2>2. \A h \in Feed!Generations : feed'[h].state = "none" => feed'[h].first
    BY <1>9, <1>10 DEF Feed!FeedInv, Feed!GenerationsFit
  <2>3. Feed!Made' <= watched' /\ view'.gen <= Feed!Made'
    <3>1. view.gen <= Feed!Made /\ view.gen \in 0..MaxWatches
      BY FeedTypes DEF Feed!FeedInv, Feed!GenerationsFit
    <3> QED BY <1>1, <1>4, <1>5, <1>7, <1>12, <3>1
  <2>4. ASSUME NEW i \in DOMAIN requests', requests'[i].t = "watch"
        PROVE  Feed!Made' < requests'[i].id /\ requests'[i].id <= watched'
    <3>1. i + 1 \in DOMAIN requests /\ requests'[i] = requests[i + 1] /\ 1 < i + 1
      BY <1>5, <1>13, <2>4
    <3>2. head.id < requests'[i].id /\ requests'[i].id <= watched /\ requests'[i].id \in Nat
      <4>1. requests[1].id < requests[i + 1].id /\ requests[i + 1].id <= watched
        BY <1>4, <1>6, <2>4, <3>1 DEF Feed!FeedInv, Feed!GenerationsFit
      <4>2. requests[i + 1].id \in 1..MaxWatches
        BY <1>5, <2>4, <3>1 DEF Feed!Requested
      <4> QED BY <1>5, <1>6, <3>1, <4>1, <4>2
    <3> QED BY <1>4, <1>6, <1>7, <1>12, <3>2
  <2>5. ASSUME NEW i \in DOMAIN requests', NEW j \in DOMAIN requests', i < j, requests'[i].t = "watch", requests'[j].t = "watch"
        PROVE  requests'[i].id < requests'[j].id
    <3>1. i + 1 < j + 1
      BY <1>13, <2>5
    <3> QED BY <1>13, <2>5, <3>1 DEF Feed!FeedInv, Feed!GenerationsFit
  <2> QED BY <2>1, <2>2, <2>3, <2>4, <2>5 DEF Feed!GenerationsFit
\* The messages.
<1>16. Feed!Opens(g) = {} /\ Feed!Shows(g) = {} /\ view.gen # g /\ \A i \in DOMAIN frames : frames[i].gen <= g
  <2>1. \A i \in DOMAIN frames : frames[i].gen <= Feed!Made /\ frames[i].gen \in Nat
    BY FeedTypes DEF Feed!FeedInv, Feed!MessagesFit
  <2>2. \A i \in DOMAIN frames : frames[i].gen # g /\ frames[i].gen <= g
    BY <1>1, <1>5, <2>1
  <2>3. view.gen <= Feed!Made /\ view.gen \in 0..MaxWatches
    BY FeedTypes DEF Feed!FeedInv, Feed!GenerationsFit
  <2> QED BY <1>1, <1>5, <2>2, <2>3 DEF Feed!Opens, Feed!Shows
<1>17. /\ Len(frames) \in Nat /\ DOMAIN frames = 1..Len(frames) /\ DOMAIN frames' = 1..Len(frames) + 1
       /\ \A i \in 1..Len(frames) : frames'[i] = frames[i]
       /\ frames'[Len(frames) + 1] = m
       /\ Feed!Opens(g)' = {Len(frames) + 1} /\ Feed!Shows(g)' = {}
       /\ \A h \in Feed!Generations \ {g} : Feed!Opens(h)' = Feed!Opens(h) /\ Feed!Shows(h)' = Feed!Shows(h)
  BY <1>4, <1>8, <1>16, FramesAppended, FeedTypes DEF Feed!FeedInv
<1>18. Feed!MessagesFit'
  <2>1. \A i \in DOMAIN frames' : frames'[i].gen <= Feed!Made'
    BY <1>5, <1>7, <1>8, <1>12, <1>16, <1>17
  <2>2. ASSUME NEW h \in Feed!Generations
        PROVE  /\ view'.gen = h => Feed!Opens(h)' = {}
               /\ \A i, j \in Feed!Opens(h)' : i = j
               /\ \A i \in Feed!Opens(h)', j \in Feed!Shows(h)' : i < j
               /\ feed'[h].state = "runs" /\ feed'[h].first => Feed!Shows(h)' = {}
               /\ feed'[h].state = "runs" /\ ~ feed'[h].first /\ Feed!Opens(h)' # {} =>
                    \E j \in Feed!Shows(h)' : frames'[j].full /\ \A k \in Feed!Shows(h)' : j <= k
    <3>1. CASE h = g
      BY <1>4, <1>9, <1>16, <1>17, <3>1
    <3>2. CASE h # g
      <4>1. Feed!Opens(h)' = Feed!Opens(h) /\ Feed!Shows(h)' = Feed!Shows(h) /\ view' = view /\ \A j \in Feed!Shows(h) : frames'[j] = frames[j]
        BY <1>4, <1>17, <3>2 DEF Feed!Shows
      <4>2. feed'[h].state = "runs" => feed'[h] = feed[h]
        BY <1>10, <3>2
      <4> QED BY <4>1, <4>2 DEF Feed!FeedInv, Feed!MessagesFit
    <3> QED BY <3>1, <3>2
  <2> QED BY <2>1, <2>2 DEF Feed!MessagesFit
<1>19. Feed!LinesFit'
  <2> SUFFICES ASSUME NEW h \in Feed!Generations, feed'[h].state = "runs", ~ feed'[h].first,
                      view'.gen = h \/ Feed!Opens(h)' # {}
               PROVE  \E lines \in [0..Len(frames') -> Feed!Screens] : Feed!Leads(h, lines)'
    BY DEF Feed!LinesFit
  <2>1. h # g /\ feed'[h] = feed[h] /\ Feed!Opens(h)' = Feed!Opens(h)
    BY <1>9, <1>10, <1>17
  <2>2. PICK lines \in [0..Len(frames) -> Feed!Screens] : Feed!Leads(h, lines)
    BY <1>4, <2>1 DEF Feed!FeedInv, Feed!LinesFit
  <2>3. feed[h].previous = lines[Len(frames)] /\ Passes(h, lines) /\ feed[h].previous \in Feed!Screens
    BY <2>2, FeedTypes DEF Feed!FeedInv, Feed!Leads, Passes
  <2> QED BY <1>4, <1>8, <2>1, <2>3, LeadsOn DEF Feed!FeedInv
<1> QED BY <1>14, <1>15, <1>18, <1>19 DEF Feed!FeedInv

\* A frame of a generation is sent.
LEMMA SendKeeps ==
    ASSUME Feed!FeedAssumption, Feed!FeedInv, NEW g \in Feed!Generations, NEW next \in Feed!Screens,
           Feed!SendFrame(g, next)
    PROVE  Feed!FeedInv'
<1>1. PICK f : f = Feed!Frame(g, feed[g].previous, next, feed[g].first)
  OBVIOUS
<1>2. /\ feed[g].state \in {"runs", "canceled"} /\ frames' = Append(frames, f)
      /\ feed' = [feed EXCEPT ![g] = IF @.state = "canceled" THEN Feed!Ended ELSE [@ EXCEPT !.previous = next, !.first = FALSE]]
      /\ UNCHANGED <<generation, requests, watched, view>>
  BY <1>1 DEF Feed!SendFrame
<1>3. /\ feed[g] \in Feeds /\ feed[g].previous \in Feed!Screens /\ feed[g].first \in BOOLEAN
      /\ feed \in [Feed!Generations -> Feeds]
  <2>1. feed \in [Feed!Generations -> Feeds]
    BY DEF Feed!FeedInv, Feed!ScreenFeedTypeOK, Feeds
  <2> QED BY <2>1, FeedTypes DEF Feed!FeedInv
<1>4. /\ f \in Feed!Messages /\ f.t = "screen" /\ f.gen = g /\ (feed[g].first => f.full)
      /\ Feed!Apply(feed[g].previous, f) = next /\ (f.full => \A lines : Feed!Apply(lines, f) = next)
  BY <1>1, <1>3, FrameLeads
\* The generations.
<1>5. /\ feed'[g] \in Feeds /\ feed'[g].state # "none"
      /\ feed'[g].state = "runs" => feed[g].state = "runs" /\ feed'[g].previous = next /\ ~ feed'[g].first
  <2>1. CASE feed[g].state = "canceled"
    <3>1. feed'[g] = Feed!Ended
      BY <1>2, <1>3, <2>1
    <3>2. Feed!Ended \in Feeds /\ Feed!Ended.state = "ended"
      BY ScreensAreSequences DEF Feed!Ended, Feeds
    <3> QED BY <3>1, <3>2
  <2>2. CASE feed[g].state = "runs"
    <3>1. PICK x : x = [feed[g] EXCEPT !.previous = next, !.first = FALSE]
      OBVIOUS
    <3>2. feed'[g] = x
      BY <1>2, <1>3, <2>2, <3>1
    <3>3. x \in Feeds /\ x.state = "runs" /\ x.previous = next /\ ~ x.first
      BY <1>3, <2>2, <3>1 DEF Feeds
    <3> QED BY <2>2, <3>2, <3>3
  <2> QED BY <1>2, <2>1, <2>2
<1>6. feed' \in [Feed!Generations -> Feeds] /\ \A h \in Feed!Generations \ {g} : feed'[h] = feed[h]
  <2>1. feed' = [feed EXCEPT ![g] = feed'[g]]
    BY <1>2, <1>3
  <2> QED BY <1>2, <1>3, <1>5, <2>1
<1>7. \A h \in Feed!Generations : feed'[h].state = "none" <=> feed[h].state = "none"
  BY <1>2, <1>5, <1>6
<1>8. Feed!Made' = Feed!Made
  BY <1>7, MadeStays DEF Feed!FeedInv
<1>9. Feed!ScreenFeedTypeOK'
  <2>1. frames' \in Seq(Feed!Messages)
    BY <1>2, <1>4, FramesAppended DEF Feed!FeedInv
  <2>2. feed' \in [Feed!Generations -> [state : {"none", "runs", "canceled", "ended"}, previous : Feed!Screens, first : BOOLEAN]]
    BY <1>6 DEF Feeds
  <2> QED BY <1>2, <2>1, <2>2 DEF Feed!FeedInv, Feed!ScreenFeedTypeOK
<1>10. Feed!GenerationsFit'
  <2>1. \A h \in Feed!Generations : feed'[h].state = "none" => feed'[h].first
    BY <1>5, <1>6 DEF Feed!FeedInv, Feed!GenerationsFit
  <2> QED BY <1>2, <1>7, <1>8, <2>1 DEF Feed!FeedInv, Feed!GenerationsFit
\* The messages.
<1>11. /\ Len(frames) \in Nat /\ DOMAIN frames = 1..Len(frames) /\ DOMAIN frames' = 1..Len(frames) + 1
       /\ \A i \in 1..Len(frames) : frames'[i] = frames[i]
       /\ frames'[Len(frames) + 1] = f
       /\ Feed!Shows(g)' = Feed!Shows(g) \cup {Len(frames) + 1}
       /\ \A h \in Feed!Generations : Feed!Opens(h)' = Feed!Opens(h) /\ (h # g => Feed!Shows(h)' = Feed!Shows(h))
       /\ \A h : Feed!Opens(h) \subseteq 1..Len(frames) /\ Feed!Shows(h) \subseteq 1..Len(frames)
  BY <1>2, <1>4, FramesAppended, FeedTypes DEF Feed!FeedInv, Feed!Opens, Feed!Shows
<1>12. Feed!MessagesFit'
  <2>1. \A i \in DOMAIN frames' : frames'[i].gen <= Feed!Made'
    <3>1. g <= Feed!Made
      BY <1>2 DEF Feed!FeedInv, Feed!GenerationsFit
    <3> QED BY <1>4, <1>8, <1>11, <3>1 DEF Feed!FeedInv, Feed!MessagesFit
  <2>2. ASSUME NEW h \in Feed!Generations
        PROVE  /\ view'.gen = h => Feed!Opens(h)' = {}
               /\ \A i, j \in Feed!Opens(h)' : i = j
               /\ \A i \in Feed!Opens(h)', j \in Feed!Shows(h)' : i < j
               /\ feed'[h].state = "runs" /\ feed'[h].first => Feed!Shows(h)' = {}
               /\ feed'[h].state = "runs" /\ ~ feed'[h].first /\ Feed!Opens(h)' # {} =>
                    \E j \in Feed!Shows(h)' : frames'[j].full /\ \A k \in Feed!Shows(h)' : j <= k
    <3>1. CASE h = g
      <4>1. Feed!Opens(g)' = Feed!Opens(g) /\ (view'.gen = g => Feed!Opens(g)' = {}) /\ \A i, j \in Feed!Opens(g)' : i = j
        BY <1>2, <1>11 DEF Feed!FeedInv, Feed!MessagesFit
      <4>2. \A i \in Feed!Opens(g)', j \in Feed!Shows(g)' : i < j
        <5>1. \A i \in Feed!Opens(g) : i < Len(frames) + 1
          BY <1>11
        <5> QED BY <1>11, <4>1, <5>1 DEF Feed!FeedInv, Feed!MessagesFit
      <4>3. feed'[g].state = "runs" => ~ feed'[g].first
        BY <1>5
      <4>4. ASSUME feed'[g].state = "runs", Feed!Opens(g)' # {}
            PROVE  \E j \in Feed!Shows(g)' : frames'[j].full /\ \A k \in Feed!Shows(g)' : j <= k
        <5>1. feed[g].state = "runs" /\ Feed!Opens(g) # {}
          BY <1>5, <1>11, <4>4
        <5>2. CASE feed[g].first
          <6>1. Feed!Shows(g)' = {Len(frames) + 1} /\ f.full
            BY <1>4, <1>11, <5>1, <5>2 DEF Feed!FeedInv, Feed!MessagesFit
          <6> QED BY <1>11, <6>1
        <5>3. CASE ~ feed[g].first
          <6>1. PICK j \in Feed!Shows(g) : frames[j].full /\ \A k \in Feed!Shows(g) : j <= k
            BY <5>1, <5>3 DEF Feed!FeedInv, Feed!MessagesFit
          <6>2. j \in 1..Len(frames) /\ j <= Len(frames) + 1
            BY <1>11, <6>1
          <6> QED BY <1>11, <6>1, <6>2
        <5> QED BY <5>2, <5>3
      <4> QED BY <3>1, <4>1, <4>2, <4>3, <4>4
    <3>2. CASE h # g
      <4>1. Feed!Opens(h)' = Feed!Opens(h) /\ Feed!Shows(h)' = Feed!Shows(h) /\ view' = view /\ \A j \in Feed!Shows(h) : frames'[j] = frames[j]
        BY <1>2, <1>11, <3>2
      <4>2. feed'[h] = feed[h]
        BY <1>6, <3>2
      <4> QED BY <4>1, <4>2 DEF Feed!FeedInv, Feed!MessagesFit
    <3> QED BY <3>1, <3>2
  <2> QED BY <2>1, <2>2 DEF Feed!MessagesFit
<1>13. Feed!LinesFit'
  <2> SUFFICES ASSUME NEW h \in Feed!Generations, feed'[h].state = "runs", ~ feed'[h].first,
                      view'.gen = h \/ Feed!Opens(h)' # {}
               PROVE  \E lines \in [0..Len(frames') -> Feed!Screens] : Feed!Leads(h, lines)'
    BY DEF Feed!LinesFit
  <2>1. view.gen = h \/ Feed!Opens(h) # {}
    BY <1>2, <1>11
  <2>2. CASE h # g \/ ~ feed[h].first
    <3>1. feed[h].state = "runs" /\ ~ feed[h].first
      BY <1>5, <1>6, <2>2
    <3>2. PICK lines \in [0..Len(frames) -> Feed!Screens] : Feed!Leads(h, lines)
      BY <2>1, <3>1 DEF Feed!FeedInv, Feed!LinesFit
    <3>3. feed[h].previous = lines[Len(frames)] /\ Passes(h, lines) /\ feed[h].previous \in Feed!Screens
      BY <3>2, FeedTypes DEF Feed!FeedInv, Feed!Leads, Passes
    <3>4. CASE h = g
      <4>1. feed'[h].previous = next /\ next = Feed!Apply(lines[Len(frames)], f)
        BY <1>4, <1>5, <3>3, <3>4
      <4> QED BY <1>2, <1>4, <3>3, <3>4, <4>1, LeadsOn DEF Feed!FeedInv
    <3>5. CASE h # g
      <4>1. feed'[h].previous = lines[Len(frames)] /\ f.gen # h
        BY <1>4, <1>6, <3>3, <3>5
      <4> QED BY <1>2, <1>4, <3>3, <4>1, LeadsOn DEF Feed!FeedInv
    <3> QED BY <3>4, <3>5
  <2>3. CASE h = g /\ feed[h].first
    <3>1. feed[g].state = "runs" /\ feed'[g].previous = next /\ f.full /\ Feed!Shows(g) = {}
      BY <1>4, <1>5, <2>3 DEF Feed!FeedInv, Feed!MessagesFit
    <3>2. PICK lines : lines = [k \in 0..Len(frames) |-> view.lines]
      OBVIOUS
    <3>3. lines \in [0..Len(frames) -> Feed!Screens] /\ \A k \in 0..Len(frames) : lines[k] = view.lines
      BY <3>2, FeedTypes DEF Feed!FeedInv
    <3>4. Passes(g, lines)
      BY <1>11, <3>1, <3>3 DEF Passes
    <3>5. next = Feed!Apply(lines[Len(frames)], f)
      BY <1>4, <3>1
    <3> QED BY <1>2, <1>4, <2>3, <3>1, <3>3, <3>4, <3>5, LeadsOn DEF Feed!FeedInv
  <2> QED BY <2>2, <2>3
<1> QED BY <1>9, <1>10, <1>12, <1>13 DEF Feed!FeedInv

\* What a message does to the window.
LEMMA Received ==
    ASSUME Feed!FeedAssumption, Feed!FeedInv, Feed!Receive
    PROVE  /\ frames # <<>> /\ frames' = Tail(frames) /\ UNCHANGED <<generation, feed, requests, watched>>
           /\ view' \in [id : 0..MaxWatches, gen : 0..MaxWatches, lines : Feed!Screens]
           /\ \/ frames[1].t = "watching" /\ view'.gen = frames[1].gen /\ view'.lines = view.lines
              \/ frames[1].t = "screen" /\ view.gen = frames[1].gen /\ view'.gen = view.gen
                 /\ view'.lines = Feed!Apply(view.lines, frames[1])
              \/ frames[1].t = "watching" /\ view' = view
              \/ frames[1].t = "screen" /\ view.gen # frames[1].gen /\ view' = view
<1>1. PICK f : f = Head(frames)
  OBVIOUS
<1>2. /\ frames # <<>> /\ frames' = Tail(frames) /\ UNCHANGED <<generation, feed, requests, watched>>
      /\ view' = IF f.t = "watching"
                 THEN (IF f.id = view.id THEN [view EXCEPT !.gen = f.gen] ELSE view)
                 ELSE IF Feed!Mine(f) THEN [view EXCEPT !.lines = Feed!Apply(@, f)] ELSE view
  BY <1>1 DEF Feed!Receive
<1>3. f = frames[1] /\ f \in Feed!Messages /\ f.gen \in Feed!Generations /\ f.t \in {"watching", "screen"}
  <2>1. f = frames[1] /\ 1 \in DOMAIN frames
    BY <1>1, <1>2, FramesTail, FeedTypes, HeadTailProperties, EmptySeq DEF Feed!FeedInv
  <2> QED BY <2>1, FeedTypes DEF Feed!FeedInv
<1>4. /\ view \in [id : 0..MaxWatches, gen : 0..MaxWatches, lines : Feed!Screens] /\ f.gen \in 0..MaxWatches /\ f.gen # 0
      /\ view.lines \in Feed!Screens
  BY <1>3, FeedTypes DEF Feed!FeedInv, Feed!ScreenFeedTypeOK, Feed!Generations
<1>5. CASE f.t = "watching" /\ f.id = view.id
  <2>1. PICK v : v = [view EXCEPT !.gen = f.gen]
    OBVIOUS
  <2>2. /\ v \in [id : 0..MaxWatches, gen : 0..MaxWatches, lines : Feed!Screens]
        /\ v.gen = f.gen /\ v.lines = view.lines
    BY <1>4, <2>1
  <2> QED BY <1>2, <1>3, <1>5, <2>1, <2>2
<1>6. CASE f.t = "screen" /\ Feed!Mine(f)
  <2>1. PICK s \in Feed!Screens : s = Feed!Apply(view.lines, f)
    BY <1>3, <1>4, <1>6, AppliedIsScreen
  <2>2. PICK v : v = [view EXCEPT !.lines = s]
    OBVIOUS
  <2>3. v \in [id : 0..MaxWatches, gen : 0..MaxWatches, lines : Feed!Screens] /\ v.gen = view.gen /\ v.lines = s
    BY <1>4, <2>1, <2>2
  <2>4. view' = v
    BY <1>2, <1>6, <2>1, <2>2
  <2> QED BY <1>2, <1>3, <1>6, <2>1, <2>3, <2>4 DEF Feed!Mine
<1>7. CASE (f.t = "watching" /\ f.id # view.id) \/ (f.t = "screen" /\ ~ Feed!Mine(f))
  <2>1. view' = view
    BY <1>2, <1>7
  <2> QED BY <1>2, <1>3, <1>4, <1>7, <2>1 DEF Feed!Mine
<1> QED BY <1>3, <1>5, <1>6, <1>7

\* The messages that are left.
LEMMA ReceiveKeepsMessages ==
    ASSUME Feed!FeedAssumption, Feed!FeedInv, Feed!Receive
    PROVE  Feed!ScreenFeedTypeOK' /\ Feed!GenerationsFit' /\ Feed!MessagesFit'
<1>1. /\ frames # <<>> /\ frames' = Tail(frames) /\ UNCHANGED <<generation, feed, requests, watched>>
      /\ view' \in [id : 0..MaxWatches, gen : 0..MaxWatches, lines : Feed!Screens]
      /\ view'.gen = view.gen \/ (frames[1].t = "watching" /\ view'.gen = frames[1].gen)
  BY Received
<1>2. /\ frames' \in Seq(Feed!Messages) /\ Len(frames) \in Nat \ {0} /\ DOMAIN frames = 1..Len(frames)
      /\ DOMAIN frames' = 1..Len(frames) - 1
      /\ \A i \in 1..Len(frames) - 1 : frames'[i] = frames[i + 1] /\ i + 1 \in DOMAIN frames
      /\ \A g, i : i \in Feed!Opens(g)' <=> i \in 1..Len(frames) - 1 /\ i + 1 \in Feed!Opens(g)
      /\ \A g, i : i \in Feed!Shows(g)' <=> i \in 1..Len(frames) - 1 /\ i + 1 \in Feed!Shows(g)
      /\ 1 \in DOMAIN frames /\ frames[1].gen \in Feed!Generations
  BY <1>1, FramesTail, FeedTypes DEF Feed!FeedInv
<1>3. Feed!Made' = Feed!Made
  BY <1>1 DEF Feed!Made
<1>4. Feed!ScreenFeedTypeOK'
  BY <1>1, <1>2 DEF Feed!FeedInv, Feed!ScreenFeedTypeOK
<1>5. Feed!GenerationsFit'
  <2>1. view'.gen <= Feed!Made
    BY <1>1, <1>2 DEF Feed!FeedInv, Feed!GenerationsFit, Feed!MessagesFit
  <2> QED BY <1>1, <1>3, <2>1 DEF Feed!FeedInv, Feed!GenerationsFit
<1>6. ASSUME NEW g \in Feed!Generations, view'.gen = g PROVE Feed!Opens(g)' = {}
  <2>1. CASE view.gen = g
    BY <1>2, <2>1 DEF Feed!FeedInv, Feed!MessagesFit
  <2>2. CASE view.gen # g
    <3>1. 1 \in Feed!Opens(g)
      BY <1>1, <1>2, <1>6, <2>2 DEF Feed!Opens
    <3>2. \A i \in Feed!Opens(g) : i = 1
      BY <3>1 DEF Feed!FeedInv, Feed!MessagesFit
    <3> QED BY <1>2, <3>2
  <2> QED BY <2>1, <2>2
<1>7. ASSUME NEW g \in Feed!Generations, NEW i \in Feed!Opens(g)', NEW j \in Feed!Opens(g)' PROVE i = j
  <2>1. i + 1 = j + 1 /\ i \in Nat /\ j \in Nat
    BY <1>2, <1>7 DEF Feed!FeedInv, Feed!MessagesFit
  <2> QED BY <2>1
<1>8. ASSUME NEW g \in Feed!Generations, NEW i \in Feed!Opens(g)', NEW j \in Feed!Shows(g)' PROVE i < j
  <2>1. i + 1 < j + 1 /\ i \in Nat /\ j \in Nat
    BY <1>2, <1>8 DEF Feed!FeedInv, Feed!MessagesFit
  <2> QED BY <2>1
<1>9. ASSUME NEW g \in Feed!Generations, feed[g].state = "runs", feed[g].first PROVE Feed!Shows(g)' = {}
  BY <1>2, <1>9 DEF Feed!FeedInv, Feed!MessagesFit
<1>10. ASSUME NEW g \in Feed!Generations, feed[g].state = "runs", ~ feed[g].first, Feed!Opens(g)' # {}
       PROVE  \E j \in Feed!Shows(g)' : frames'[j].full /\ \A k \in Feed!Shows(g)' : j <= k
  <2>1. PICK i : i \in Feed!Opens(g)'
    BY <1>10
  <2>2. i \in 1..Len(frames) - 1 /\ i + 1 \in Feed!Opens(g)
    BY <1>2, <2>1
  <2>3. PICK j \in Feed!Shows(g) : frames[j].full /\ \A k \in Feed!Shows(g) : j <= k
    BY <1>10, <2>2 DEF Feed!FeedInv, Feed!MessagesFit
  <2>4. i + 1 < j /\ j \in 1..Len(frames)
    BY <1>2, <2>2, <2>3 DEF Feed!FeedInv, Feed!MessagesFit, Feed!Shows
  <2>5. PICK p : p = j - 1
    OBVIOUS
  <2>6. p \in 1..Len(frames) - 1 /\ p + 1 = j
    BY <1>2, <2>2, <2>4, <2>5
  <2>7. p \in Feed!Shows(g)' /\ frames'[p].full
    BY <1>2, <2>3, <2>6
  <2>8. \A k \in Feed!Shows(g)' : p <= k
    BY <1>2, <2>3, <2>6
  <2> QED BY <2>7, <2>8
<1>11. Feed!MessagesFit'
  <2>1. \A i \in DOMAIN frames' : frames'[i].gen <= Feed!Made'
    BY <1>2, <1>3 DEF Feed!FeedInv, Feed!MessagesFit
  <2> QED BY <1>1, <1>6, <1>7, <1>8, <1>9, <1>10, <2>1 DEF Feed!MessagesFit
<1> QED BY <1>4, <1>5, <1>11

\* The window learns of its generation: until the first frame of it the lines
\* are those that it has, and that frame is full.
LEMMA LearnsOfFeed ==
    ASSUME Feed!FeedAssumption, Feed!FeedInv, Feed!Receive, NEW g \in Feed!Generations,
           feed[g].state = "runs", ~ feed[g].first,
           frames[1].t = "watching", view'.gen = g, view'.lines = view.lines, 1 \in Feed!Opens(g),
           NEW lines \in [0..Len(frames) -> Feed!Screens], Feed!Leads(g, lines)
    PROVE  \E more \in [0..Len(frames') -> Feed!Screens] : Feed!Leads(g, more)'
<1>1. /\ frames # <<>> /\ frames' = Tail(frames) /\ feed' = feed /\ view.lines \in Feed!Screens
  BY Received, FeedTypes DEF Feed!FeedInv
<1>2. /\ Len(frames) \in Nat \ {0} /\ Len(frames') = Len(frames) - 1
      /\ \A i \in 1..Len(frames) - 1 : frames'[i] = frames[i + 1]
      /\ \A i : i \in Feed!Shows(g)' <=> i \in 1..Len(frames) - 1 /\ i + 1 \in Feed!Shows(g)
      /\ Feed!Shows(g) \subseteq 1..Len(frames) /\ 1 \notin Feed!Shows(g)
  BY <1>1, FramesTail, FeedTypes DEF Feed!FeedInv, Feed!Shows, Feed!Opens
<1>3. PICK n : n = Len(frames) - 1
  OBVIOUS
<1>4. n \in Nat /\ Len(frames') = n /\ Len(frames) = n + 1
  BY <1>2, <1>3
<1>5. PICK more : more = [i \in 0..n |-> IF Feed!Shows(g) \cap 1..i + 1 = {} THEN view.lines ELSE lines[i + 1]]
  OBVIOUS
<1>6. /\ more \in [0..n -> Feed!Screens]
      /\ \A i \in 0..n : more[i] = IF Feed!Shows(g) \cap 1..i + 1 = {} THEN view.lines ELSE lines[i + 1]
  <2>1. \A i \in 0..n : lines[i + 1] \in Feed!Screens
    BY <1>4
  <2> QED BY <1>1, <1>5, <2>1
<1>7. PICK j \in Feed!Shows(g) : frames[j].full /\ \A k \in Feed!Shows(g) : j <= k
  BY DEF Feed!FeedInv, Feed!MessagesFit
<1>8. ASSUME NEW k \in Feed!Shows(g)' PROVE more[k] = Feed!Apply(more[k - 1], frames'[k])
  <2>1. /\ k \in 1..n /\ k + 1 \in Feed!Shows(g) /\ frames'[k] = frames[k + 1] /\ k - 1 \in 0..n
        /\ k - 1 + 1 = k /\ k \in 0..n
    BY <1>2, <1>4, <1>8
  <2>2. lines[k + 1] = Feed!Apply(lines[k + 1 - 1], frames[k + 1])
    BY <2>1 DEF Feed!Leads
  <2>3. k + 1 - 1 = k
    BY <2>1
  <2>4. k + 1 \in 1..k + 1
    BY <2>1
  <2>5. more[k] = lines[k + 1]
    BY <1>6, <2>1, <2>4
  <2>6. CASE Feed!Shows(g) \cap 1..k = {}
    <3>1. j = k + 1
      BY <1>2, <1>7, <2>1, <2>6
    <3>2. Feed!Apply(more[k - 1], frames[k + 1]) = Feed!Apply(lines[k], frames[k + 1])
      BY <1>7, <3>1 DEF Feed!Apply
    <3> QED BY <2>1, <2>2, <2>3, <2>5, <3>2
  <2>7. CASE Feed!Shows(g) \cap 1..k # {}
    <3>1. more[k - 1] = lines[k]
      BY <1>6, <2>1, <2>7
    <3> QED BY <2>1, <2>2, <2>3, <2>5, <3>1
  <2> QED BY <2>6, <2>7
<1>9. ASSUME NEW i \in 0..n, NEW k \in 0..n, i <= k, Feed!Shows(g)' \cap (i + 1)..k = {}
      PROVE  more[i] = more[k]
  <2>1. Feed!Shows(g) \cap (i + 2)..(k + 1) = {}
    <3>1. ASSUME NEW x \in Feed!Shows(g), x \in (i + 2)..(k + 1) PROVE FALSE
      <4>1. x - 1 \in 1..n /\ x - 1 + 1 = x /\ x - 1 \in (i + 1)..k
        BY <1>4, <3>1
      <4>2. x - 1 \in Feed!Shows(g)'
        BY <1>2, <1>4, <3>1, <4>1
      <4> QED BY <1>9, <4>1, <4>2
    <3> QED BY <3>1
  <2>2. Feed!Shows(g) \cap 1..i + 1 = {} <=> Feed!Shows(g) \cap 1..k + 1 = {}
    <3>1. \A x \in 1..k + 1 : x \in 1..i + 1 \/ x \in (i + 2)..(k + 1)
      BY <1>9
    <3>2. \A x \in 1..i + 1 : x \in 1..k + 1
      BY <1>9
    <3> QED BY <2>1, <3>1, <3>2
  <2>3. lines[i + 1] = lines[k + 1]
    <3>1. i + 1 \in 0..Len(frames) /\ k + 1 \in 0..Len(frames) /\ i + 1 <= k + 1 /\ i + 1 + 1 = i + 2
      BY <1>4, <1>9
    <3> QED BY <2>1, <3>1 DEF Feed!Leads
  <2> QED BY <1>6, <2>2, <2>3
<1>10. more[n] = feed[g].previous
  <2>1. j \in 1..n + 1
    BY <1>2, <1>4, <1>7
  <2>2. more[n] = lines[n + 1]
    BY <1>4, <1>6, <1>7, <2>1
  <2> QED BY <1>4, <2>2 DEF Feed!Leads
<1>11. more[0] = view.lines
  <2>1. Feed!Shows(g) \cap 1..0 + 1 = {}
    BY <1>2
  <2>2. 0 \in 0..n
    BY <1>4
  <2> QED BY <1>6, <2>1, <2>2
<1>12. Feed!Leads(g, more)'
  <2>1. \A k \in Feed!Shows(g)' : more[k] = Feed!Apply(more[k - 1], frames'[k])
    BY <1>8
  <2>2. \A i, k \in 0..Len(frames') : i <= k /\ Feed!Shows(g)' \cap (i + 1)..k = {} => more[i] = more[k]
    BY <1>4, <1>9
  <2>3. more[Len(frames')] = feed'[g].previous /\ (view'.gen = g => more[0] = view'.lines)
    BY <1>1, <1>4, <1>10, <1>11
  <2> QED BY <2>1, <2>2, <2>3 DEF Feed!Leads
<1> QED BY <1>4, <1>6, <1>12

\* The lines go on from what the message that arrived made of them.
LEMMA ReceiveKeepsLines ==
    ASSUME Feed!FeedAssumption, Feed!FeedInv, Feed!Receive
    PROVE  Feed!LinesFit'
<1> SUFFICES ASSUME NEW g \in Feed!Generations, feed'[g].state = "runs", ~ feed'[g].first,
                    view'.gen = g \/ Feed!Opens(g)' # {}
             PROVE  \E lines \in [0..Len(frames') -> Feed!Screens] : Feed!Leads(g, lines)'
  BY DEF Feed!LinesFit
<1>1. /\ frames # <<>> /\ frames' = Tail(frames) /\ feed' = feed
      /\ \/ frames[1].t = "watching" /\ view'.gen = frames[1].gen /\ view'.lines = view.lines
         \/ frames[1].t = "screen" /\ view.gen = frames[1].gen /\ view'.gen = view.gen
            /\ view'.lines = Feed!Apply(view.lines, frames[1])
         \/ frames[1].t = "watching" /\ view' = view
         \/ frames[1].t = "screen" /\ view.gen # frames[1].gen /\ view' = view
  BY Received
<1>2. /\ Len(frames) \in Nat \ {0} /\ Len(frames') = Len(frames) - 1
      /\ \A i \in 1..Len(frames) - 1 : frames'[i] = frames[i + 1]
      /\ \A i : i \in Feed!Opens(g)' <=> i \in 1..Len(frames) - 1 /\ i + 1 \in Feed!Opens(g)
      /\ \A i : i \in Feed!Shows(g)' <=> i \in 1..Len(frames) - 1 /\ i + 1 \in Feed!Shows(g)
      /\ Feed!Shows(g) \subseteq 1..Len(frames) /\ 1 \in DOMAIN frames
      /\ (1 \in Feed!Opens(g) <=> frames[1].t = "watching" /\ frames[1].gen = g)
      /\ (1 \in Feed!Shows(g) <=> frames[1].t = "screen" /\ frames[1].gen = g)
  BY <1>1, FramesTail, FeedTypes DEF Feed!FeedInv, Feed!Shows, Feed!Opens
<1>3. view.gen = g \/ Feed!Opens(g) # {}
  BY <1>1, <1>2
<1>4. PICK lines \in [0..Len(frames) -> Feed!Screens] : Feed!Leads(g, lines)
  BY <1>1, <1>3 DEF Feed!FeedInv, Feed!LinesFit
<1>5. CASE view'.gen = g /\ frames[1].t = "watching" /\ view.gen # g
  <2>1. view'.lines = view.lines /\ 1 \in Feed!Opens(g)
    BY <1>1, <1>2, <1>5
  <2> QED BY <1>1, <1>4, <1>5, <2>1, LearnsOfFeed
<1>6. CASE ~ (view'.gen = g /\ frames[1].t = "watching" /\ view.gen # g)
  <2>1. PICK n : n = Len(frames) - 1
    OBVIOUS
  <2>2. n \in Nat /\ Len(frames') = n /\ Len(frames) = n + 1
    BY <1>2, <2>1
  <2>3. PICK more : more = [i \in 0..n |-> lines[i + 1]]
    OBVIOUS
  <2>4. more \in [0..n -> Feed!Screens] /\ \A i \in 0..n : more[i] = lines[i + 1]
    BY <2>2, <2>3
  <2>5. ASSUME NEW k \in Feed!Shows(g)' PROVE more[k] = Feed!Apply(more[k - 1], frames'[k])
    <3>1. /\ k \in 1..n /\ k + 1 \in Feed!Shows(g) /\ frames'[k] = frames[k + 1] /\ k - 1 \in 0..n /\ k \in 0..n
          /\ k - 1 + 1 = k /\ k + 1 - 1 = k
      BY <1>2, <2>2, <2>5
    <3>2. lines[k + 1] = Feed!Apply(lines[k], frames[k + 1])
      <4>1. PICK q \in Feed!Shows(g) : q = k + 1 /\ q - 1 = k
        BY <3>1
      <4>2. lines[q] = Feed!Apply(lines[q - 1], frames[q])
        BY <1>4 DEF Feed!Leads
      <4> QED BY <4>1, <4>2
    <3>3. more[k] = lines[k + 1] /\ more[k - 1] = lines[k]
      BY <2>4, <3>1
    <3> QED BY <3>1, <3>2, <3>3
  <2>6. ASSUME NEW i \in 0..n, NEW k \in 0..n, i <= k, Feed!Shows(g)' \cap (i + 1)..k = {}
        PROVE  more[i] = more[k]
    <3>1. Feed!Shows(g) \cap (i + 1 + 1)..(k + 1) = {}
      <4>1. ASSUME NEW x \in Feed!Shows(g), x \in (i + 1 + 1)..(k + 1) PROVE FALSE
        <5>1. x - 1 \in 1..n /\ x - 1 + 1 = x /\ x - 1 \in (i + 1)..k
          BY <2>2, <4>1
        <5>2. x - 1 \in Feed!Shows(g)'
          BY <1>2, <2>2, <4>1, <5>1
        <5> QED BY <2>6, <5>1, <5>2
      <4> QED BY <4>1
    <3>2. i + 1 \in 0..Len(frames) /\ k + 1 \in 0..Len(frames) /\ i + 1 <= k + 1
      BY <2>2, <2>6
    <3>3. lines[i + 1] = lines[k + 1]
      BY <1>4, <3>1, <3>2 DEF Feed!Leads
    <3> QED BY <2>4, <3>3
  <2>7. more[n] = feed[g].previous
    BY <1>4, <2>2, <2>4 DEF Feed!Leads
  <2>8. ASSUME view'.gen = g PROVE more[0] = view'.lines
    <3>1. view.gen = g /\ lines[0] = view.lines
      BY <1>1, <1>4, <1>6, <2>8 DEF Feed!Leads
    <3>2. 1 \notin Feed!Opens(g)
      BY <3>1 DEF Feed!FeedInv, Feed!MessagesFit
    <3>3. more[0] = lines[1]
      BY <2>2, <2>4
    <3>4. CASE 1 \in Feed!Shows(g)
      <4>1. lines[1] = Feed!Apply(lines[1 - 1], frames[1])
        BY <1>4, <3>4 DEF Feed!Leads
      <4>2. view'.lines = Feed!Apply(view.lines, frames[1])
        BY <1>1, <1>2, <3>1, <3>4
      <4> QED BY <3>1, <3>3, <4>1, <4>2
    <3>5. CASE 1 \notin Feed!Shows(g)
      <4>1. view' = view
        BY <1>1, <1>2, <2>8, <3>1, <3>2, <3>5
      <4>2. Feed!Shows(g) \cap (0 + 1)..1 = {} /\ 0 \in 0..Len(frames) /\ 1 \in 0..Len(frames)
        BY <1>2, <3>5
      <4>3. lines[0] = lines[1]
        BY <1>4, <4>2 DEF Feed!Leads
      <4> QED BY <3>1, <3>3, <4>1, <4>3
    <3> QED BY <3>4, <3>5
  <2>9. Feed!Leads(g, more)'
    <3>1. \A k \in Feed!Shows(g)' : more[k] = Feed!Apply(more[k - 1], frames'[k])
      BY <2>5
    <3>2. \A i, k \in 0..Len(frames') : i <= k /\ Feed!Shows(g)' \cap (i + 1)..k = {} => more[i] = more[k]
      BY <2>2, <2>6
    <3>3. more[Len(frames')] = feed'[g].previous
      BY <1>1, <2>2, <2>7
    <3> QED BY <2>8, <3>1, <3>2, <3>3 DEF Feed!Leads
  <2> QED BY <2>2, <2>4, <2>9
<1> QED BY <1>5, <1>6

\* Nobody watches at first.
LEMMA FeedBegins ==
    ASSUME Feed!FeedAssumption, Feed!ScreenFeedInit
    PROVE  Feed!FeedInv
<1>1. /\ <<>> \in Feed!Screens /\ <<>> \in Seq(Feed!Requested) /\ <<>> \in Seq(Feed!Messages)
      /\ DOMAIN frames = {} /\ DOMAIN requests = {}
  BY ScreensAreSequences, EmptySeq, LenProperties DEF Feed!ScreenFeedInit
<1>2. MaxWatches \in Nat /\ 0 \in 0..MaxWatches
  BY DEF Feed!FeedAssumption
<1>3. PICK e : e = [state |-> "none", previous |-> <<>>, first |-> TRUE]
  OBVIOUS
<1>4. e \in Feeds /\ e.state = "none" /\ e.first /\ feed = [g \in Feed!Generations |-> e]
  BY <1>1, <1>3 DEF Feeds, Feed!ScreenFeedInit
<1>5. \A g \in Feed!Generations : feed[g] = e
  BY <1>4
<1>6. Feed!Made = 0
  <2>1. {h \in Feed!Generations : feed[h].state # "none"} = {}
    BY <1>4, <1>5
  <2> QED BY <2>1, FS_EmptySet, FeedSets DEF Feed!Made
<1>7. Feed!ScreenFeedTypeOK
  <2>1. view \in [id : 0..MaxWatches, gen : 0..MaxWatches, lines : Feed!Screens]
    BY <1>1, <1>2 DEF Feed!ScreenFeedInit
  <2> QED BY <1>1, <1>2, <1>4, <2>1 DEF Feed!ScreenFeedInit, Feed!ScreenFeedTypeOK, Feeds
<1>8. Feed!GenerationsFit
  <2>1. \A h \in Feed!Generations : ~ (h <= 0)
    BY <1>2 DEF Feed!Generations
  <2> QED BY <1>1, <1>4, <1>5, <1>6, <2>1 DEF Feed!ScreenFeedInit, Feed!GenerationsFit
<1>9. \A g : Feed!Opens(g) = {} /\ Feed!Shows(g) = {}
  BY <1>1 DEF Feed!Opens, Feed!Shows
<1>10. Feed!MessagesFit
  BY <1>1, <1>4, <1>5, <1>9 DEF Feed!MessagesFit
<1>11. Feed!LinesFit
  BY <1>4, <1>5 DEF Feed!LinesFit
<1> QED BY <1>7, <1>8, <1>10, <1>11 DEF Feed!FeedInv

\* Every step preserves the invariant.
LEMMA FeedStep ==
    ASSUME Feed!FeedAssumption, Feed!FeedInv, [Feed!ScreenFeedNext]_(Feed!feedVars)
    PROVE  Feed!FeedInv'
<1>1. CASE UNCHANGED Feed!feedVars
  <2>1. Feed!Made' = Feed!Made /\ \A g : Feed!Opens(g)' = Feed!Opens(g) /\ Feed!Shows(g)' = Feed!Shows(g)
    BY <1>1 DEF Feed!feedVars, Feed!Made, Feed!Opens, Feed!Shows
  <2>2. Feed!MessagesFit' /\ Feed!LinesFit'
    BY <1>1, <2>1, QuietKeeps DEF Feed!feedVars
  <2> QED BY <1>1, <2>1, <2>2 DEF Feed!feedVars, Feed!FeedInv, Feed!ScreenFeedTypeOK, Feed!GenerationsFit
<1>2. CASE Feed!UnwatchScreen \/ \E g \in Feed!Generations : Feed!FeedEnds(g)
  BY <1>2, UnwatchKeeps
<1>3. CASE Feed!WatchScreen
  BY <1>3, WatchKeeps
<1>4. CASE Feed!Look \/ Feed!LookAway
  BY <1>4, WindowLooks
<1>5. CASE Feed!Receive
  BY <1>5, ReceiveKeepsMessages, ReceiveKeepsLines DEF Feed!FeedInv
<1>6. ASSUME NEW g \in Feed!Generations, NEW next \in Feed!Screens, Feed!SendFrame(g, next) PROVE Feed!FeedInv'
  BY <1>6, SendKeeps
<1> QED BY <1>1, <1>2, <1>3, <1>4, <1>5, <1>6 DEF Feed!ScreenFeedNext

\* A window without frames on their way shows what was read last.
LEMMA LinesArrive ==
    ASSUME Feed!FeedAssumption, Feed!FeedInv
    PROVE  Feed!WindowShowsScreen
<1> SUFFICES ASSUME NEW g, g = view.gen, g # 0, feed[g].state = "runs", ~ feed[g].first,
                    \A i \in DOMAIN frames : frames[i].t = "screen" => frames[i].gen # g
             PROVE  view.lines = feed[g].previous
  BY DEF Feed!WindowShowsScreen
<1>1. g \in Feed!Generations /\ Len(frames) \in Nat
  BY FeedTypes DEF Feed!FeedInv, Feed!Generations
<1>2. PICK lines \in [0..Len(frames) -> Feed!Screens] : Feed!Leads(g, lines)
  BY <1>1 DEF Feed!FeedInv, Feed!LinesFit
<1>3. Feed!Shows(g) = {}
  BY DEF Feed!Shows
<1>4. lines[0] = lines[Len(frames)]
  BY <1>1, <1>2, <1>3 DEF Feed!Leads
<1> QED BY <1>2, <1>4 DEF Feed!Leads

\* A window that has received the frames of its watch shows what was read
\* last: the invariant of the feeds, and what a window shows.
THEOREM FeedInvariance ==
    ASSUME Feed!FeedAssumption
    PROVE  Feed!ScreenFeedSpec => [](Feed!FeedInv /\ Feed!WindowShowsScreen)
<1>1. Feed!ScreenFeedInit => Feed!FeedInv
  BY FeedBegins
<1>2. Feed!FeedInv /\ [Feed!ScreenFeedNext]_(Feed!feedVars) => Feed!FeedInv'
  BY FeedStep
<1>3. Feed!FeedInv => Feed!WindowShowsScreen
  BY LinesArrive
<1> QED BY <1>1, <1>2, <1>3, PTL DEF Feed!ScreenFeedSpec

----------------------------------------------------------------------------
(* What holds of the three parts holds of the behaviours of the host.      *)

\* A step of the host is a step of each part of a pane's screen, or leaves it
\* alone.
LEMMA HostScreenStep ==
    [PartsNext]_<<part, vars, serviceVars, agentVars, paneVars>> =>
        /\ [Reads!ScreenNext]_(Reads!screenVars)
        /\ [Signal!SignalNext]_(Signal!signalVars)
        /\ [Feed!ScreenFeedNext]_(Feed!feedVars)
<1>1. UNCHANGED readsVars => UNCHANGED (Reads!screenVars)
  BY DEF readsVars, Reads!screenVars, Reads!watchVars, Reads!readVars
<1>2. UNCHANGED signalVars => UNCHANGED (Signal!signalVars)
  BY DEF signalVars, Signal!signalVars
<1>3. UNCHANGED feedVars => UNCHANGED (Feed!feedVars)
  BY DEF feedVars, Feed!feedVars
<1>4. UNCHANGED paneVars => UNCHANGED readsVars /\ UNCHANGED signalVars /\ UNCHANGED feedVars
  BY DEF paneVars
<1>5. CASE UNCHANGED paneVars
  BY <1>1, <1>2, <1>3, <1>4, <1>5
<1>6. CASE PaneNext
  BY <1>1, <1>2, <1>3, <1>6 DEF PaneNext
<1> QED BY <1>5, <1>6 DEF PartsNext

\* The specification of the host implies those of a pane's screen.
LEMMA HostHasScreens ==
    PartsSpec => Reads!ScreenSpec /\ Signal!SignalSpec /\ Feed!ScreenFeedSpec
<1>1. PartsInit => Reads!ScreenInit /\ Signal!SignalInit /\ Feed!ScreenFeedInit
  BY DEF PartsInit
<1> QED
  BY <1>1, HostScreenStep, PTL DEF PartsSpec, Reads!ScreenSpec, Signal!SignalSpec, Feed!ScreenFeedSpec

\* The windows of a pane share one observer, a read that an input asked for
\* began after it, and a window that has received its frames shows the lines
\* that were read last (subscribeSignal, screenReads.read, diffScreenLines).
THEOREM HostShowsScreens == PartsSpec => ScreensAreTrue
<1>1. Reads!ScreenAssumption /\ Signal!SignalAssumption /\ Feed!FeedAssumption
  BY PartsAssumption
<1>2. Signal!SignalInv' => [part = "signal" => Signal!OneObserver']_signalVars
  BY DEF Signal!SignalInv
<1>3. Feed!WindowShowsScreen' => [part = "feed" => Feed!WindowShowsScreen']_feedVars
  OBVIOUS
<1> QED
  BY <1>1, <1>2, <1>3, HostHasScreens, ReadsInvariance, SignalInvariance, FeedInvariance, PTL
     DEF ScreensAreTrue
==============================================================================
