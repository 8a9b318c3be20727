----------------------------- MODULE ScreenFeed -----------------------------
(***************************************************************************)
(* How the lines of one pane travel to a browser window as differences:    *)
(* internal/httpapi/screen.go (watchScreen, unwatchScreen, runScreen,      *)
(* diffScreenLines) and its reader in web/src (applyScreenFrame).          *)
(*                                                                         *)
(* Every watch has a generation.  A watch that was replaced may still send *)
(* frames; the window drops what does not carry its generation.            *)
(***************************************************************************)
EXTENDS Integers, Sequences, FiniteSets, FiniteSetsExt

CONSTANTS
    Line,           \* what a line may hold; Blank is the empty line
    Blank,
    MaxLines,       \* bound: lines of the screen
    MaxCandidates,  \* shifts that are tried, 64 in the code
    MaxWatches,     \* bound: requests of the window
    MaxFrames       \* bound: messages on their way to the window

\* What the constants have to be: an instance assumes it.
FeedAssumption ==
    Blank \in Line /\ {MaxLines, MaxCandidates, MaxWatches, MaxFrames} \subseteq Nat

VARIABLES
    current,    \* session.screens[pane]: the generation of its watch, 0 for none
    feed,       \* the goroutine of each generation and the lines it sent last
    requests,   \* messages to the workbench
    frames,     \* messages to the window
    asked,      \* requests the window has made
    view        \* the window: its request, its generation, its lines

feedVars == <<current, feed, requests, frames, asked, view>>

Screens == UNION {[1..n -> Line] : n \in 0..MaxLines}
Generations == 1..MaxWatches

\* Requests of the window, and what the workbench sends to it.
Requested == [t : {"watch"}, id : 1..MaxWatches] \cup [t : {"unwatch"}]
Messages ==
    [t : {"watching"}, id : 1..MaxWatches, gen : Generations]
    \cup [t : {"screen"}, gen : Generations, total : 0..MaxLines, full : BOOLEAN, changed : BOOLEAN,
          lines : Screens, drop : 0..MaxLines, set : UNION {[D -> Line] : D \in SUBSET (1..MaxLines)}]

\* The types of all variables.
ScreenFeedTypeOK ==
    /\ current \in 0..MaxWatches
    /\ feed \in [Generations -> [state : {"none", "runs", "canceled", "ended"},
                                 previous : Screens, first : BOOLEAN]]
    /\ requests \in Seq(Requested) /\ frames \in Seq(Messages) /\ asked \in 0..MaxWatches
    /\ view \in [id : 0..MaxWatches, gen : 0..MaxWatches, lines : Screens]

ScreenFeedInit ==
    /\ current = 0
    /\ feed = [g \in Generations |-> [state |-> "none", previous |-> <<>>, first |-> TRUE]]
    /\ requests = <<>> /\ frames = <<>> /\ asked = 0
    /\ view = [id |-> 0, gen |-> 0, lines |-> <<>>]

(***************************************************************************)
(* Differences                                                             *)
(***************************************************************************)
\* screenShiftCost: the lines that differ.
Cost(previous, next, shift) ==
    Cardinality({i \in DOMAIN next : shift + i > Len(previous) \/ previous[shift + i] # next[i]})

\* bestScreenShift: the first of the cheapest shifts.
Shift(previous, next) ==
    LET likely == {s \in 1..Len(previous) - 1 : previous[s + 1] = next[1]}
        tried == {0} \cup {s \in likely : Cardinality({r \in likely : r <= s}) <= MaxCandidates}
        best == Min({s \in tried : \A r \in tried : Cost(previous, next, s) <= Cost(previous, next, r)}) IN
    IF next = <<>> THEN 0
    ELSE IF Len(next) < Cost(previous, next, best) THEN Len(previous) ELSE best

\* Fault: what lies below the lines that were there is taken for blank.
DiffersAbove(base, next) == {i \in DOMAIN next : i <= Len(base) /\ base[i] # next[i]}

Differs(base, next) == {i \in DOMAIN next : i > Len(base) \/ base[i] # next[i]}

\* A frame: the lines, or what to drop and to set (diffScreenLines).
Frame(g, previous, next, first) ==
    LET drop == Shift(previous, next)
        base == SubSeq(previous, drop + 1, Len(previous))
        set == [i \in Differs(base, next) |-> next[i]]
        full == first \/ 5 * Cardinality(DOMAIN set) > 4 * Len(next) IN
    [t |-> "screen", gen |-> g, total |-> Len(next), full |-> full,
     changed |-> first \/ drop > 0 \/ DOMAIN set # {} \/ Len(base) # Len(next),
     lines |-> IF full THEN next ELSE <<>>,
     drop |-> IF full THEN 0 ELSE drop, set |-> IF full THEN <<>> ELSE set]

\* applyScreenFrame in the window.
Apply(lines, f) ==
    IF f.full THEN f.lines
    ELSE [i \in 1..f.total |->
            IF i \in DOMAIN f.set THEN f.set[i]
            ELSE IF f.drop + i <= Len(lines) THEN lines[f.drop + i] ELSE Blank]

(***************************************************************************)
(* The workbench                                                           *)
(***************************************************************************)
Ended == [state |-> "ended", previous |-> <<>>, first |-> TRUE]

Cancel(state) == IF state = "runs" THEN "canceled" ELSE state

\* watchScreen: the reply precedes the first frame of the generation.
WatchScreen ==
    LET g == 1 + Cardinality({h \in Generations : feed[h].state # "none"}) IN
    /\ requests # <<>> /\ Head(requests).t = "watch" /\ requests' = Tail(requests)
    /\ feed' = [h \in Generations |->
                  IF h = g THEN [feed[h] EXCEPT !.state = "runs"]
                  ELSE IF h = current THEN [feed[h] EXCEPT !.state = Cancel(@)] ELSE feed[h]]
    /\ current' = g
    /\ frames' = Append(frames, [t |-> "watching", id |-> Head(requests).id, gen |-> g])
    /\ UNCHANGED <<asked, view>>

\* unwatchScreen
UnwatchScreen ==
    /\ requests # <<>> /\ Head(requests).t = "unwatch" /\ requests' = Tail(requests)
    /\ feed' = [h \in Generations |->
                  IF h = current THEN [feed[h] EXCEPT !.state = Cancel(@)] ELSE feed[h]]
    /\ current' = 0
    /\ UNCHANGED <<frames, asked, view>>

\* runScreen has read the screen; a canceled one may still finish one read.
SendFrame(g, next) ==
    LET f == Frame(g, feed[g].previous, next, feed[g].first) IN
    /\ feed[g].state \in {"runs", "canceled"} /\ Len(frames) < MaxFrames
    /\ f.changed
    /\ frames' = Append(frames, f)
    /\ feed' = [feed EXCEPT ![g] = IF @.state = "canceled" THEN Ended
                                   ELSE [@ EXCEPT !.previous = next, !.first = FALSE]]
    /\ UNCHANGED <<current, requests, asked, view>>

\* A canceled goroutine ends.
FeedEnds(g) ==
    /\ feed[g].state = "canceled"
    /\ feed' = [feed EXCEPT ![g] = Ended]
    /\ UNCHANGED <<current, requests, frames, asked, view>>

(***************************************************************************)
(* The window                                                              *)
(***************************************************************************)
\* It looks, looks again with other lines, or stops looking.
Look ==
    /\ asked < MaxWatches /\ asked' = asked + 1
    /\ \E unwatches \in BOOLEAN :
        requests' = requests \o (IF unwatches /\ view.id # 0 THEN <<[t |-> "unwatch"]>> ELSE <<>>)
                             \o <<[t |-> "watch", id |-> asked + 1]>>
    /\ view' = [view EXCEPT !.id = asked + 1, !.gen = 0]
    /\ UNCHANGED <<current, feed, frames>>

LookAway ==
    /\ view.id # 0 /\ requests' = Append(requests, [t |-> "unwatch"])
    /\ view' = [view EXCEPT !.id = 0, !.gen = 0]
    /\ UNCHANGED <<current, feed, frames, asked>>

\* Fault: the window takes every frame of the pane.
MineAnyhow(f) == view.gen # 0

Mine(f) == view.gen # 0 /\ f.gen = view.gen

Receive ==
    LET f == Head(frames) IN
    /\ frames # <<>> /\ frames' = Tail(frames)
    /\ view' = IF f.t = "watching"
               THEN (IF f.id = view.id THEN [view EXCEPT !.gen = f.gen] ELSE view)
               ELSE IF Mine(f) THEN [view EXCEPT !.lines = Apply(@, f)] ELSE view
    /\ UNCHANGED <<current, feed, requests, asked>>

ScreenFeedNext ==
    \/ WatchScreen \/ UnwatchScreen \/ Look \/ LookAway \/ Receive
    \/ \E g \in Generations : FeedEnds(g) \/ \E next \in Screens : SendFrame(g, next)

ScreenFeedSpec == ScreenFeedInit /\ [][ScreenFeedNext]_feedVars

-----------------------------------------------------------------------------
\* A window that has received all frames of its watch shows exactly the
\* lines the workbench read last, whatever was dropped, set or replaced on the
\* way (diffScreenLines, applyScreenFrame, the generations of watchScreen).
WindowShowsScreen ==
    LET g == view.gen IN
    (g # 0 /\ feed[g].state = "runs" /\ ~feed[g].first
       /\ \A i \in DOMAIN frames : frames[i].t = "screen" => frames[i].gen # g)
    => view.lines = feed[g].previous

-----------------------------------------------------------------------------
\* The generations that were given away, one for each watch so far.
Made == Cardinality({h \in Generations : feed[h].state # "none"})

\* Every request of the window to watch finds a generation.
GenerationsFit ==
    /\ \A h \in Generations : feed[h].state # "none" <=> h <= Made
    /\ \A h \in Generations : feed[h].state = "none" => feed[h].first
    /\ Made <= asked /\ view.gen <= Made
    /\ \A i \in DOMAIN requests : requests[i].t = "watch" => Made < requests[i].id /\ requests[i].id <= asked
    /\ \A i, j \in DOMAIN requests :
        i < j /\ requests[i].t = "watch" /\ requests[j].t = "watch" => requests[i].id < requests[j].id

\* The messages of a generation on their way.
Opens(g) == {i \in DOMAIN frames : frames[i].t = "watching" /\ frames[i].gen = g}
Shows(g) == {i \in DOMAIN frames : frames[i].t = "screen" /\ frames[i].gen = g}

\* The reply to a watch is sent once, and before its frames; the first frame
\* of a feed that runs is full.
MessagesFit ==
    /\ \A i \in DOMAIN frames : frames[i].gen <= Made
    /\ \A g \in Generations :
        /\ view.gen = g => Opens(g) = {}
        /\ \A i, j \in Opens(g) : i = j
        /\ \A i \in Opens(g), j \in Shows(g) : i < j
        /\ feed[g].state = "runs" /\ feed[g].first => Shows(g) = {}
        /\ feed[g].state = "runs" /\ ~ feed[g].first /\ Opens(g) # {} =>
            \E j \in Shows(g) : frames[j].full /\ \A k \in Shows(g) : j <= k

\* What the window shows after each of the messages on their way, if it is or
\* will be told of the generation: in the end what was read last.
Leads(g, lines) ==
    /\ \A k \in Shows(g) : lines[k] = Apply(lines[k - 1], frames[k])
    /\ \A i, k \in 0..Len(frames) : i <= k /\ Shows(g) \cap (i + 1)..k = {} => lines[i] = lines[k]
    /\ lines[Len(frames)] = feed[g].previous
    /\ view.gen = g => lines[0] = view.lines

LinesFit ==
    \A g \in Generations :
        feed[g].state = "runs" /\ ~ feed[g].first /\ (view.gen = g \/ Opens(g) # {}) =>
            \E lines \in [0..Len(frames) -> Screens] : Leads(g, lines)

\* The inductive invariant.
FeedInv == ScreenFeedTypeOK /\ GenerationsFit /\ MessagesFit /\ LinesFit
=============================================================================
