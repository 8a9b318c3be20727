------------------------------- MODULE Scroll -------------------------------
(***************************************************************************)
(* The scroll controller of one terminal (herdr/scroll.go) and its         *)
(* connection to Herdr (herdr/native_scroll.go).                           *)
(*                                                                         *)
(* A gesture opens a controlling connection, writes its commands and arms  *)
(* a timer; the timer of the last gesture gives control up again.  Send,   *)
(* the timers and Close share one mutex; a timer that fired may wait for   *)
(* it while a newer gesture is written.                                    *)
(***************************************************************************)
EXTENDS Naturals, Sequences, FiniteSets

CONSTANTS
    Senders,        \* callers of Send
    None,
    MaxGestures,    \* bound: gestures that are sent
    MaxConns        \* bound: connections that are opened

VARIABLES
    over,       \* the controller's context has ended
    closing,    \* Close: "no", "locks", "waits" or "returned"
    mu,         \* who holds the mutex
    current,    \* ScrollController.connection, 0 for none
    generation,
    idle,       \* the timer that is armed, None for none
    fired,      \* timers that wait for the mutex
    conns,      \* the connections that were opened
    sender,     \* where each Send stands
    gestures,   \* gestures begun
    quiet       \* ghost: the idle timeout passed since the last gesture

scrollVars == <<over, closing, mu, current, generation, idle, fired, conns, sender, gestures, quiet>>

Waiting == [at |-> "idle", gesture |-> 0, conn |-> 0, canceled |-> FALSE]
Timers == [conn : 1..MaxConns, generation : 1..MaxGestures]
Stages == {"idle", "locks", "open", "ready", "write", "wrote"}
Connections == [at : {"opening", "up", "done"}, cut : BOOLEAN, sent : Seq(0..MaxGestures), read : Nat,
                freed : {"no", "idle", "done"}]

ScrollAssumption ==
    /\ MaxGestures \in Nat /\ MaxConns \in Nat
    /\ None \notin Senders \cup Timers \cup {"timer", "close"} /\ {"timer", "close"} \cap Senders = {}

\* The types of all variables.
ScrollTypeOK ==
    /\ over \in BOOLEAN /\ quiet \in BOOLEAN /\ generation \in 0..MaxGestures /\ gestures \in 0..MaxGestures
    /\ mu \in Senders \cup {None, "timer", "close"} /\ closing \in {"no", "locks", "waits", "returned"}
    /\ conns \in Seq(Connections) /\ Len(conns) <= MaxConns /\ \A c \in DOMAIN conns : conns[c].read <= Len(conns[c].sent)
    /\ current \in 0..Len(conns) /\ idle \in Timers \cup {None} /\ fired \subseteq Timers
    /\ sender \in [Senders -> [at : Stages, gesture : 0..MaxGestures, conn : 0..MaxConns, canceled : BOOLEAN]]

ScrollInit ==
    /\ over = FALSE /\ closing = "no" /\ mu = None /\ current = 0 /\ generation = 0
    /\ idle = None /\ fired = {} /\ conns = <<>> /\ gestures = 0 /\ quiet = TRUE
    /\ sender = [s \in Senders |-> Waiting]

\* cancel: the context of the connection ends and its socket closes.
Cancel(c) == conns' = [conns EXCEPT ![c].cut = TRUE]
Returns(s) == sender' = [sender EXCEPT ![s] = Waiting] /\ mu' = None

(***************************************************************************)
(* Send                                                                    *)
(***************************************************************************)
Call(s) ==
    /\ sender[s].at = "idle" /\ gestures < MaxGestures /\ gestures' = gestures + 1
    /\ sender' = [sender EXCEPT ![s] = [@ EXCEPT !.at = "locks", !.gesture = gestures + 1]]
    /\ UNCHANGED <<over, closing, mu, current, generation, idle, fired, conns, quiet>>

\* The context of the caller ends; while it opens or writes, AfterFunc cancels
\* the connection it uses.
CallerGone(s) ==
    /\ sender[s].at # "idle" /\ ~sender[s].canceled
    /\ sender' = [sender EXCEPT ![s].canceled = TRUE]
    /\ IF sender[s].at \in {"ready", "write", "wrote"} THEN Cancel(sender[s].conn) ELSE UNCHANGED conns
    /\ UNCHANGED <<over, closing, mu, current, generation, idle, fired, gestures, quiet>>

Refused(s) ==
    /\ sender[s].at = "locks" /\ mu = None /\ (sender[s].canceled \/ over)
    /\ Returns(s)
    /\ UNCHANGED <<over, closing, current, generation, idle, fired, conns, gestures, quiet>>

\* A connection that has ended is forgotten.
Usable == current # 0 /\ conns[current].at # "done"

Lock(s) ==
    /\ sender[s].at = "locks" /\ mu = None /\ ~sender[s].canceled /\ ~over
    /\ mu' = s
    /\ current' = IF Usable THEN current ELSE 0
    /\ sender' = [sender EXCEPT ![s].at = IF Usable THEN "write" ELSE "open", ![s].conn = IF Usable THEN current ELSE 0]
    /\ UNCHANGED <<over, closing, generation, idle, fired, conns, gestures, quiet>>

\* open: the snapshot, the pane, the protocol or the geometry fails.
CannotOpen(s) ==
    /\ sender[s].at = "open" /\ Returns(s)
    /\ UNCHANGED <<over, closing, current, generation, idle, fired, conns, gestures, quiet>>

\* openNativeScroll wrote the handshake and asked for control.
OpenSocket(s) ==
    /\ sender[s].at = "open" /\ Len(conns) < MaxConns
    /\ conns' = Append(conns, [at |-> "opening", cut |-> sender[s].canceled \/ over, sent |-> <<>>, read |-> 0, freed |-> "no"])
    /\ sender' = [sender EXCEPT ![s].at = "ready", ![s].conn = Len(conns) + 1]
    /\ UNCHANGED <<over, closing, mu, current, generation, idle, fired, gestures, quiet>>

Opened(s) ==
    LET c == sender[s].conn
    IN /\ sender[s].at = "ready"
       /\ IF conns[c].at = "up" /\ ~sender[s].canceled /\ ~over
          THEN /\ current' = c /\ sender' = [sender EXCEPT ![s].at = "write"]
               /\ UNCHANGED <<mu, conns>>
          ELSE /\ conns[c].at # "opening" \/ sender[s].canceled \/ over
               /\ Cancel(c) /\ Returns(s) /\ UNCHANGED current
       /\ UNCHANGED <<over, closing, generation, idle, fired, gestures, quiet>>

\* The write of the gesture's commands; one that fails may have been sent.
Write(s) ==
    LET c == sender[s].conn
        sends == [conns EXCEPT ![c].sent = Append(@, sender[s].gesture)]
    IN /\ sender[s].at = "write"
       /\ \/ /\ conns[c].at # "done" /\ ~conns[c].cut
             /\ conns' = sends
             /\ sender' = [sender EXCEPT ![s].at = "wrote"]
             /\ UNCHANGED <<mu, current>>
          \/ /\ conns' \in {[conns EXCEPT ![c].cut = TRUE], [sends EXCEPT ![c].cut = TRUE]}
             /\ current' = 0 /\ Returns(s)
       /\ UNCHANGED <<over, closing, generation, idle, fired, gestures, quiet>>

WriteVoid(s) ==
    /\ sender[s].at = "wrote" /\ (sender[s].canceled \/ over)
    /\ Cancel(sender[s].conn) /\ current' = 0 /\ Returns(s)
    /\ UNCHANGED <<over, closing, generation, idle, fired, gestures, quiet>>

\* Fault: the timer of the first gesture goes on.
KeepsTimer(s) == IF idle = None THEN [conn |-> sender[s].conn, generation |-> generation + 1] ELSE idle
\* time.AfterFunc for this gesture; the armed one is stopped.
NewTimer(s) == [conn |-> sender[s].conn, generation |-> generation + 1]

Sent(s) ==
    /\ sender[s].at = "wrote" /\ ~sender[s].canceled /\ ~over
    /\ generation' = generation + 1 /\ idle' = NewTimer(s) /\ quiet' = FALSE
    /\ Returns(s)
    /\ UNCHANGED <<over, closing, current, fired, conns, gestures>>

(***************************************************************************)
(* The idle timer                                                          *)
(***************************************************************************)
Fire ==
    /\ idle # None /\ fired' = fired \cup {idle} /\ idle' = None /\ quiet' = TRUE
    /\ UNCHANGED <<over, closing, mu, current, generation, conns, sender, gestures>>

\* Fault: a timer knows its connection only.
OfConnection(t) == current = t.conn
\* s.connection == connection && s.generation == generation
Newest(t) == current = t.conn /\ generation = t.generation

\* Fault: the socket is closed without a release.
Hangup(c) == conns' = [conns EXCEPT ![c].freed = "idle", ![c].at = "done"]
\* releaseLocked writes the release after the last gesture.
Release(c) == conns' = [conns EXCEPT ![c].freed = "idle", ![c].sent = IF conns[c].cut THEN @ ELSE Append(@, 0)]

Expire(t) ==
    /\ t \in fired /\ mu = None /\ fired' = fired \ {t}
    /\ IF Newest(t)
       THEN current' = 0 /\ mu' = "timer" /\ Release(t.conn)
       ELSE UNCHANGED <<current, mu, conns>>
    /\ UNCHANGED <<over, closing, generation, idle, sender, gestures, quiet>>

\* It waits for the end of the connection, at most a second.
Releasing(c) == conns[c].freed = "idle" /\ mu = "timer"

Released ==
    /\ \E c \in DOMAIN conns : Releasing(c) /\ conns[c].at = "done" /\ conns' = [conns EXCEPT ![c].freed = "done"]
    /\ mu' = None
    /\ UNCHANGED <<over, closing, current, generation, idle, fired, sender, gestures, quiet>>

ReleaseLate ==
    /\ \E c \in DOMAIN conns : Releasing(c) /\ conns[c].at # "done" /\ ~conns[c].cut /\ Cancel(c)
    /\ UNCHANGED <<over, closing, mu, current, generation, idle, fired, sender, gestures, quiet>>

(***************************************************************************)
(* Close                                                                   *)
(***************************************************************************)
\* s.cancel reaches every connection.
Close ==
    /\ closing = "no" /\ closing' = "locks" /\ over' = TRUE
    /\ conns' = [c \in DOMAIN conns |-> [conns[c] EXCEPT !.cut = TRUE]]
    /\ UNCHANGED <<mu, current, generation, idle, fired, sender, gestures, quiet>>

CloseLocks ==
    /\ closing = "locks" /\ mu = None /\ idle' = None
    /\ IF current = 0 THEN closing' = "returned" /\ UNCHANGED mu
                      ELSE closing' = "waits" /\ mu' = "close"
    /\ UNCHANGED <<over, current, generation, fired, conns, sender, gestures, quiet>>

CloseWaits ==
    /\ closing = "waits" /\ conns[current].at = "done"
    /\ closing' = "returned" /\ mu' = None /\ current' = 0
    /\ UNCHANGED <<over, generation, idle, fired, conns, sender, gestures, quiet>>

(***************************************************************************)
(* The connection and Herdr                                                *)
(***************************************************************************)
\* Herdr sends the first frame: control was given (takeover=false: to one).
Accepts(c) ==
    /\ conns[c].at = "opening" /\ ~conns[c].cut
    /\ \A d \in DOMAIN conns : d < c => conns[d].at = "done"
    /\ conns' = [conns EXCEPT ![c].at = "up"]

\* Herdr takes the next command; a release ends the connection.
Takes(c) ==
    /\ conns[c].at = "up" /\ conns[c].read < Len(conns[c].sent)
    /\ conns' = [conns EXCEPT ![c].read = @ + 1, ![c].at = IF conns[c].sent[conns[c].read + 1] = 0 THEN "done" ELSE "up"]

\* drain ends: the socket was closed here, or Herdr refused or went away.
Drained(c) == conns[c].at # "done" /\ conns' = [conns EXCEPT ![c].at = "done", ![c].cut = TRUE]

Connection ==
    /\ \E c \in DOMAIN conns : Accepts(c) \/ Takes(c) \/ Drained(c)
    /\ UNCHANGED <<over, closing, mu, current, generation, idle, fired, sender, gestures, quiet>>

ScrollNext ==
    \/ \E s \in Senders : Call(s) \/ CallerGone(s) \/ Refused(s) \/ Lock(s) \/ CannotOpen(s) \/ OpenSocket(s)
                            \/ Opened(s) \/ Write(s) \/ WriteVoid(s) \/ Sent(s)
    \/ Fire \/ (\E t \in fired : Expire(t)) \/ Released \/ ReleaseLate
    \/ Close \/ CloseLocks \/ CloseWaits \/ Connection

ScrollSpec == ScrollInit /\ [][ScrollNext]_scrollVars

(***************************************************************************)
(* What must hold                                                          *)
(***************************************************************************)
\* Control that is held is given up by someone: while the mutex is free, a
\* connection in use is ended, closing, or watched by the timer of the last
\* gesture; once Close has returned no connection is in use.
HeldIsWatched ==
    /\ mu = None /\ current # 0 /\ ~conns[current].cut =>
        [conn |-> current, generation |-> generation] \in fired \cup {idle}
    /\ closing = "returned" /\ mu = None => current = 0

\* The release follows the last gesture: if the connection of an idle
\* controller ended by itself, Herdr took every gesture that was sent on it.
LastGestureArrives ==
    \A c \in DOMAIN conns : conns[c].freed = "done" /\ ~conns[c].cut
        => conns[c].read = Len(conns[c].sent)

\* A timer that waited for the mutex does not close the controller a newer
\* gesture uses: control is released only when the idle timeout passed since
\* the last gesture.
ReleasesWhenQuiet ==
    [][\A c \in DOMAIN conns : conns[c].freed = "no" /\ conns'[c].freed = "idle" => quiet]_scrollVars

\* A connection that is released is nobody's; nothing follows the release, and
\* a connection that was not cut ends with it.
ConnFits(c) ==
    /\ over => conns[c].cut
    /\ conns[c].freed = "idle" => mu = "timer"
    /\ conns[c].freed # "no" => c # current
    /\ \A i \in DOMAIN conns[c].sent : conns[c].sent[i] = 0 => i = Len(conns[c].sent) /\ conns[c].freed # "no"
    /\ conns[c].at = "done" /\ ~conns[c].cut => conns[c].read = Len(conns[c].sent) /\ conns[c].freed # "no"

\* Who opens or writes holds the mutex, and the connection it writes to is in use.
SenderFits(s) ==
    /\ sender[s].at \in {"open", "ready", "write", "wrote"} <=> mu = s
    /\ sender[s].at # "idle" => sender[s].gesture # 0
    /\ sender[s].at \in {"open", "ready"} => current = 0
    /\ sender[s].at = "ready" => sender[s].conn \in DOMAIN conns /\ conns[sender[s].conn].freed = "no"
    /\ sender[s].at \in {"write", "wrote"} => sender[s].conn = current /\ current # 0

\* A timer of the last gesture fired only when the controller was quiet.
TimersFit ==
    /\ idle # None => idle.generation <= generation
    /\ \A t \in fired : t.generation <= generation /\ (t.generation = generation => quiet)

\* Each gesture is counted once, so generation keeps its bound.
Active == {s \in Senders : sender[s].at # "idle"}
GesturesCounted == IsFiniteSet(Active) /\ generation + Cardinality(Active) <= gestures

\* The inductive invariant.
ScrollInv ==
    /\ ScrollTypeOK /\ TimersFit /\ GesturesCounted /\ HeldIsWatched /\ LastGestureArrives
    /\ (over <=> closing # "no") /\ (mu = "close" <=> closing = "waits")
    /\ (closing = "waits" => current # 0) /\ (closing = "returned" \/ mu = "timer" => current = 0)
    /\ \A c \in DOMAIN conns : ConnFits(c)
    /\ \A c, d \in DOMAIN conns : conns[c].freed = "idle" /\ conns[d].freed = "idle" => c = d
    /\ \A s \in Senders : SenderFits(s)
=============================================================================
