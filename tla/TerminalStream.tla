--------------------------- MODULE TerminalStream ---------------------------
(***************************************************************************)
(* One observed terminal of a workbench: internal/httpapi/workbench.go     *)
(* (forwardTerminal, the credit, the ends of a stream) and the input queue *)
(* of internal/herdr/input.go.                                             *)
(*                                                                         *)
(* Five goroutines meet here: the read loop of the socket (Ack, Type,      *)
(* Finish), the output loop, the queue's runner, the goroutine that waits  *)
(* for a finished queue and the closer of the session.  Output frames are  *)
(* numbered by Herdr; each is a full screen or continues the one before.   *)
(* A frame counts one unit of credit for each of Herdr's frames in it.     *)
(***************************************************************************)
EXTENDS Integers, Sequences, SequencesExt, FiniteSets

CONSTANTS
    Credit,         \* maxInFlight
    MergeLimit,     \* terminalMergedLimit
    QueueLimit,     \* maxQueuedInput
    Chunk,          \* bytes of one pane.send_text
    MaxFrames,      \* bound: frames that Herdr sends
    MaxInput        \* bound: keys that the user types

\* What the constants have to be: an instance assumes it.
StreamAssumption ==
    {Credit, MergeLimit, QueueLimit, Chunk, MaxFrames, MaxInput} \subseteq Nat \ {0}

VARIABLES
    frames,     \* what Herdr sent, for each frame whether it is full
    pending,    \* the frame that the gate holds
    held,       \* the frame being sent
    loop,       \* where the output loop stands
    sourceOpen, \* Herdr's observer has not ended
    image,      \* what the browser shows: the frames that make it up, the last one named
    credits,    \* stream.pending: frames that were not acknowledged
    creditCh,   \* a wake is in the channel
    acking,     \* the acknowledgement that the read loop handles
    accepted,   \* keys that Enqueue took
    typed,      \* keys that reached the terminal
    queue,      \* InputQueue
    runner,     \* where its goroutine stands
    flight,     \* the pane.send_text that Herdr may still execute
    alive,      \* the session's context
    closing, streamClosed,
    how,        \* who closed the stream
    owed, told  \* terminal.closed: to be written, written

outputVars == <<frames, pending, held, loop, sourceOpen, image>>
creditVars == <<credits, creditCh, acking>>
inputVars == <<accepted, typed, queue, runner, flight>>
endVars == <<alive, closing, streamClosed, how, owed, told>>
streamVars == <<outputVars, creditVars, inputVars, endVars>>

Nothing == [seq |-> 0, full |-> FALSE, body |-> <<>>]
Blank == [seq |-> 0, body |-> <<>>]
NoAck == 0
SizeOf(frame) == Len(frame.body)
SumOf(list) == FoldSeq(LAMBDA c, sum : c.size + sum, 0, list)

\* The types of all variables.
StreamTypeOK ==
    /\ frames \in BoundedSeq(BOOLEAN, MaxFrames)
    /\ pending.seq \in 0..MaxFrames /\ held.seq \in 0..MaxFrames
    /\ loop \in {"read", "reserve", "wait", "write", "close", "cas", "remove", "done"}
    /\ image.seq \in 0..MaxFrames
    /\ \A i \in DOMAIN credits : credits[i].seq \in 1..MaxFrames
    /\ acking \in [seq : 0..MaxFrames, step : 1..2]
    /\ queue.wake \in BOOLEAN /\ queue.stopped \in BOOLEAN /\ queue.sealed \in BOOLEAN
    /\ runner \in {"wait", "take", "call", "fail", "done"}
    /\ {sourceOpen, creditCh, alive, closing, streamClosed, owed, told} \subseteq BOOLEAN
    /\ how \in {"open", "finish", "input", "output", "session"}

StreamInit ==
    /\ frames = <<>> /\ pending = Nothing /\ held = Nothing /\ loop = "read"
    /\ sourceOpen = TRUE /\ image = Blank
    /\ credits = <<>> /\ creditCh = FALSE /\ acking = [seq |-> NoAck, step |-> 1]
    /\ accepted = <<>> /\ typed = <<>> /\ runner = "wait" /\ flight = <<>>
    /\ queue = [pending |-> <<>>, stopped |-> FALSE, sealed |-> FALSE, wake |-> FALSE]
    /\ alive = TRUE /\ closing = FALSE /\ streamClosed = FALSE /\ how = "open"
    /\ owed = FALSE /\ told = FALSE

(***************************************************************************)
(* The ends of a stream                                                    *)
(***************************************************************************)
\* InputQueue.Close
Stopped(q) == [q EXCEPT !.stopped = TRUE, !.pending = <<>>]

\* Fault: the observer's process is left to itself.
CloseWithoutDetach(who) ==
    streamClosed' = TRUE /\ how' = who /\ UNCHANGED sourceOpen

\* closeStream and removeStream: the first one to close it ends the queue
\* and the observer.
CloseStream(who) ==
    /\ streamClosed' = TRUE /\ how' = who
    /\ sourceOpen' = FALSE

\* failInput closes the stream and tells the browser, if nobody closed it.
FailInput ==
    IF streamClosed THEN UNCHANGED <<streamClosed, how, sourceOpen, owed>>
    ELSE CloseStream("input") /\ owed' = TRUE

\* The browser hears of an end that it did not ask for.
Tell ==
    /\ owed /\ owed' = FALSE /\ told' = (told \/ alive)
    /\ UNCHANGED <<outputVars, creditVars, inputVars, alive, closing, streamClosed, how>>

\* terminal.close: what was accepted is still sent.
Finish ==
    /\ alive /\ ~closing /\ ~streamClosed /\ acking.seq = NoAck
    /\ closing' = TRUE
    /\ queue' = [queue EXCEPT !.sealed = TRUE, !.wake = TRUE]
    /\ UNCHANGED <<outputVars, creditVars, accepted, typed, runner, flight,
                   alive, streamClosed, how, owed, told>>

FinishClose ==
    /\ closing /\ ~streamClosed /\ (runner = "done" \/ ~alive)
    /\ CloseStream("finish") /\ queue' = Stopped(queue)
    /\ UNCHANGED <<frames, pending, held, loop, image, creditVars, accepted, typed,
                   runner, flight, alive, closing, owed, told>>

\* The socket ended or access was revoked; closeStreams runs when the read
\* loop has returned.
EndSession ==
    /\ alive /\ alive' = FALSE
    /\ UNCHANGED <<outputVars, creditVars, inputVars, closing, streamClosed, how, owed, told>>

CloseStreams ==
    /\ ~alive /\ ~streamClosed /\ acking.seq = NoAck
    /\ CloseStream("session") /\ queue' = Stopped(queue)
    /\ UNCHANGED <<frames, pending, held, loop, image, creditVars, accepted, typed,
                   runner, flight, alive, closing, owed, told>>

(***************************************************************************)
(* The output loop                                                         *)
(***************************************************************************)
\* Fault: a full frame is appended like the others.
MergeAppends(old, new) ==
    [new EXCEPT !.full = old.full, !.body = old.body \o new.body]

\* terminalOutput.merge
Merge(old, new) ==
    IF new.full THEN new
    ELSE [new EXCEPT !.full = old.full, !.body = old.body \o new.body]

SendNow(frame) == held' = frame /\ pending' = Nothing /\ loop' = "reserve"
Hold(frame) == pending' = frame /\ UNCHANGED <<held, loop>>

\* readTerminalSource hands over one frame; those before the first full one
\* are skipped.  Whether the last frame was sent within the gap is up to the
\* clock.
Take(full) ==
    LET frame == [seq |-> Len(frames) + 1, full |-> full, body |-> <<Len(frames) + 1>>]
        merged == Merge(pending, frame) IN
    /\ loop = "read" /\ sourceOpen /\ Len(frames) < MaxFrames
    /\ frames' = Append(frames, full)
    /\ IF \A i \in DOMAIN frames' : ~frames'[i] THEN UNCHANGED <<pending, held, loop>>
       ELSE IF pending # Nothing
       THEN IF SizeOf(merged) >= MergeLimit THEN SendNow(merged) ELSE Hold(merged)
       ELSE Hold(frame) \/ SendNow(frame)
    /\ UNCHANGED <<sourceOpen, image, creditVars, inputVars, endVars>>

Gate ==
    /\ loop = "read" /\ pending # Nothing /\ SendNow(pending)
    /\ UNCHANGED <<frames, sourceOpen, image, creditVars, inputVars, endVars>>

\* The observer exits on its own.
SourceEnds ==
    /\ sourceOpen /\ sourceOpen' = FALSE
    /\ UNCHANGED <<frames, pending, held, loop, image, creditVars, inputVars, endVars>>

\* What the gate holds goes out before the close notice.
SourceClosed ==
    /\ loop = "read" /\ ~sourceOpen
    /\ IF pending # Nothing THEN SendNow(pending)
       ELSE loop' = "close" /\ UNCHANGED <<pending, held>>
    /\ UNCHANGED <<frames, sourceOpen, image, creditVars, inputVars, endVars>>

\* A frame larger than the credit goes when nothing else is under way.
Room == SumOf(credits) + SizeOf(held) <= Credit \/ SumOf(credits) = 0

\* reserveCredit under the lock: room, or a wait.
Reserve ==
    /\ loop = "reserve"
    /\ IF Room
       THEN /\ credits' = Append(credits, [seq |-> held.seq, size |-> SizeOf(held)])
            /\ loop' = "write"
       ELSE loop' = "wait" /\ UNCHANGED credits
    /\ UNCHANGED <<frames, pending, held, sourceOpen, image, creditCh, acking,
                   inputVars, endVars>>

Woken ==
    /\ loop = "wait" /\ creditCh /\ creditCh' = FALSE /\ loop' = "reserve"
    /\ UNCHANGED <<frames, pending, held, sourceOpen, image, credits, acking,
                   inputVars, endVars>>

\* The deadline of ten seconds or the end of the session.
GiveUp ==
    /\ loop = "wait" /\ loop' = "close" /\ held' = Nothing
    /\ UNCHANGED <<frames, pending, sourceOpen, image, creditVars, inputVars, endVars>>

\* The browser applies what it gets: a full frame is its image, another one
\* continues it.
Shows(frame) ==
    [seq |-> frame.seq, body |-> IF frame.full THEN frame.body ELSE image.body \o frame.body]

\* socketWriter: nothing is written once access ended; a socket may fail.
Write ==
    /\ loop = "write" /\ held' = Nothing
    /\ \/ alive /\ image' = Shows(held) /\ loop' = "read"
       \/ UNCHANGED image /\ loop' = "close"
    /\ UNCHANGED <<frames, pending, sourceOpen, creditVars, inputVars, endVars>>

\* The observer is detached before anything waits for it.
Detach ==
    /\ loop = "close" /\ loop' = "cas"
    /\ queue' = Stopped(queue) /\ sourceOpen' = FALSE
    /\ UNCHANGED <<frames, pending, held, image, creditVars, accepted, typed, runner,
                   flight, endVars>>

OutputEnds ==
    /\ loop = "cas" /\ loop' = "done"
    /\ IF streamClosed THEN UNCHANGED <<streamClosed, how, sourceOpen, owed>>
       ELSE CloseStream("output") /\ owed' = alive
    /\ UNCHANGED <<frames, pending, held, image, creditVars, inputVars, alive, closing, told>>

(***************************************************************************)
(* Acknowledgements, handled by the read loop in two steps                 *)
(***************************************************************************)
\* Any frame that reached the browser may be acknowledged, also late or
\* twice.  One that was merged into another counts as the one before it.
BeginAck(i) ==
    /\ alive /\ ~streamClosed /\ acking.seq = NoAck /\ i \in 1..image.seq
    /\ acking' = [seq |-> i, step |-> 1]
    /\ UNCHANGED <<outputVars, credits, creditCh, inputVars, endVars>>

FreeCredit == credits' = SelectSeq(credits, LAMBDA c : c.seq > acking.seq) /\ UNCHANGED creditCh
WakeLoop == creditCh' = TRUE /\ UNCHANGED credits

\* Fault: the loop is woken before the credit is given back.
WakesFirst(step) == IF step = 1 THEN WakeLoop ELSE FreeCredit

\* acknowledge gives the credit back under the lock, then wakes the loop.
Acknowledge(step) == IF step = 1 THEN FreeCredit ELSE WakeLoop

AckStep ==
    /\ acking.seq # NoAck
    /\ Acknowledge(acking.step)
    /\ acking' = IF acking.step = 1 THEN [acking EXCEPT !.step = 2]
                 ELSE [seq |-> NoAck, step |-> 1]
    /\ UNCHANGED <<outputVars, inputVars, endVars>>

(***************************************************************************)
(* Input                                                                   *)
(***************************************************************************)
\* handleBinary with one key.  A feature that the host lost, a queue that is
\* full and one that has stopped fail the stream.
Type ==
    LET key == Len(accepted) + 1 IN
    /\ alive /\ ~closing /\ ~streamClosed /\ acking.seq = NoAck /\ key <= MaxInput
    /\ \/ /\ ~queue.stopped /\ Len(queue.pending) < QueueLimit
          /\ queue' = [queue EXCEPT !.pending = Append(@, key), !.wake = TRUE]
          /\ accepted' = Append(accepted, key)
          /\ UNCHANGED <<streamClosed, how, sourceOpen, owed>>
       \/ FailInput /\ queue' = Stopped(queue) /\ UNCHANGED accepted
    /\ UNCHANGED <<frames, pending, held, loop, image, creditVars, typed, runner, flight,
                   alive, closing, told>>

Runs(to) ==
    /\ runner' = to
    /\ UNCHANGED <<outputVars, creditVars, accepted, typed, endVars>>

RunnerWakes ==
    /\ runner = "wait" /\ queue.wake /\ Runs("take")
    /\ queue' = [queue EXCEPT !.wake = FALSE] /\ UNCHANGED flight

\* The queue's context ended: Close, the output loop, the session.
RunnerStops ==
    /\ runner \in {"wait", "take"} /\ (queue.stopped \/ ~alive) /\ Runs("done")
    /\ queue' = Stopped(queue) /\ UNCHANGED flight

Rest(q, n) == SubSeq(q.pending, n + 1, Len(q.pending))

\* Nothing to send ends a sealed queue; otherwise one call takes a chunk out.
TakeChunk ==
    LET n == IF Len(queue.pending) < Chunk THEN Len(queue.pending) ELSE Chunk IN
    /\ runner = "take" /\ ~queue.stopped /\ alive
    /\ IF n = 0 THEN /\ Runs(IF queue.sealed THEN "done" ELSE "wait")
                     /\ queue' = IF queue.sealed THEN Stopped(queue) ELSE queue
                     /\ UNCHANGED flight
       ELSE /\ Runs("call")
            /\ flight' = SubSeq(queue.pending, 1, n)
            /\ queue' = [queue EXCEPT !.pending = Rest(queue, n)]

\* Herdr writes the text, perhaps after the call has failed.
Deliver ==
    /\ flight # <<>> /\ typed' = typed \o flight /\ flight' = <<>>
    /\ UNCHANGED <<outputVars, creditVars, accepted, queue, runner, endVars>>

CallReturns ==
    /\ runner = "call" /\ flight = <<>> /\ Runs("take") /\ UNCHANGED <<queue, flight>>

\* Fault: a call that failed is followed by the next chunk.
CallFailsOn ==
    /\ runner = "call" /\ Runs("take") /\ UNCHANGED <<queue, flight>>

\* An error, or five seconds: nothing is sent again, nothing after it.
CallFails ==
    /\ runner = "call" /\ UNCHANGED flight
    /\ queue' = Stopped(queue)
    /\ Runs(IF queue.stopped \/ ~alive THEN "done" ELSE "fail")

RunnerFails ==
    /\ runner = "fail" /\ runner' = "done"
    /\ FailInput
    /\ UNCHANGED <<frames, pending, held, loop, image, creditVars, accepted, typed,
                   queue, flight, alive, closing, told>>

ReadLoop == Type \/ Finish \/ AckStep \/ \E i \in 1..MaxFrames : BeginAck(i)
OutputLoop ==
    \/ \E full \in BOOLEAN : Take(full)
    \/ Gate \/ SourceClosed \/ Reserve \/ Woken \/ GiveUp \/ Write \/ Detach \/ OutputEnds
Runner == RunnerWakes \/ RunnerStops \/ TakeChunk \/ CallReturns \/ CallFails \/ RunnerFails
Ends == Tell \/ FinishClose \/ CloseStreams

StreamNext == ReadLoop \/ OutputLoop \/ Runner \/ Ends \/ Deliver \/ SourceEnds \/ EndSession

\* Goroutines run on and every wait has a deadline: ten seconds for credit,
\* five for a call, the gate for a held frame.  Users, Herdr and the network
\* are free to do nothing.
StreamSpec ==
    /\ StreamInit /\ [][StreamNext]_streamVars
    /\ WF_streamVars(AckStep) /\ WF_streamVars(OutputLoop)
    /\ WF_streamVars(Runner) /\ WF_streamVars(Ends)

-----------------------------------------------------------------------------
\* The numbers from a to b, in order.
Between(a, b) == [i \in 1..(b - a + 1) |-> a + i - 1]

\* f is the last full one among the first n frames.
LastFull(f, n) == f \in 1..n /\ frames[f] /\ \A g \in (f + 1)..n : ~ frames[g]

\* The screen of Herdr after frame n, as the frames that make it up.
ScreenAfter(n) == Between(CHOOSE f \in 1..n : LastFull(f, n), n)

\* Whatever was merged, held or dropped on the way, after each message the
\* browser shows exactly what the terminal showed at the frame it names:
\* no difference is lost, repeated or applied to another base (terminalOutput,
\* readTerminalSource, forwardTerminal).
OutputIsWhole == image # Blank => image.body = ScreenAfter(image.seq)

\* A loop that waits for credit although there is room has a wake in its
\* channel or is about to get one: an acknowledgement that arrives between
\* the check and the wait is not lost (reserveCredit and acknowledge).
NoLostWake ==
    loop = "wait" /\ Room => creditCh \/ acking.seq # NoAck

\* What reaches the terminal is what was accepted, in order and once, with
\* nothing left out in the middle: after a call that may have failed nothing
\* else is sent.  A window that asked for the end and got it in peace had all
\* of its accepted input executed (InputQueue, finishStream).
InputOnceInOrder ==
    /\ IsPrefix(typed, accepted)
    /\ (how = "finish" /\ alive /\ loop \in {"read", "reserve", "wait", "write"} /\ ~owed
        /\ queue.sealed /\ runner = "done" /\ flight = <<>>)
       => typed = accepted

\* What the browser shows is a screen that Herdr had.
ImageFits ==
    image # Blank => \E f \in 1..Len(frames) : /\ image.seq \in 1..Len(frames) /\ LastFull(f, image.seq)
                                              /\ image = [seq |-> image.seq, body |-> Between(f, image.seq)]

\* A frame on its way holds what the browser lacks, up to the last one read:
\* all of a screen, or what follows the browser's image.
Carries(frame) ==
    \E a \in 1..Len(frames) :
        /\ frame = [seq |-> Len(frames), full |-> frame.full, body |-> Between(a, Len(frames))]
        /\ frame.full \in BOOLEAN
        /\ frame.full => LastFull(a, Len(frames))
        /\ ~ frame.full => image # Blank /\ a = image.seq + 1 /\ \A g \in a..Len(frames) : ~ frames[g]

\* One frame at most is under way, held by the gate or being sent; without
\* one the browser is up to date, or Herdr has sent no full frame yet.
OutputFits ==
    /\ frames \in Seq(BOOLEAN) /\ ImageFits
    /\ loop = "read" =>
        /\ held = Nothing
        /\ pending # Nothing => Carries(pending)
        /\ pending = Nothing /\ image # Blank => image.seq = Len(frames)
        /\ pending = Nothing /\ image = Blank => \A g \in 1..Len(frames) : ~ frames[g]
    /\ loop \in {"reserve", "wait", "write"} => pending = Nothing /\ Carries(held)

\* Keys are numbered.  What was typed, what a call may still type and what
\* waits follow each other; a queue that stopped has dropped the rest.
InputFits ==
    /\ {Len(accepted), Len(typed), Len(flight)} \subseteq Nat
    /\ accepted = Between(1, Len(accepted)) /\ typed = Between(1, Len(typed))
    /\ flight = Between(Len(typed) + 1, Len(typed) + Len(flight))
    /\ Len(typed) + Len(flight) <= Len(accepted)
    /\ queue = [pending |-> IF queue.stopped THEN <<>> ELSE Between(Len(typed) + Len(flight) + 1, Len(accepted)),
                stopped |-> queue.stopped, sealed |-> queue.sealed, wake |-> queue.wake]
    /\ runner \in {"wait", "take"} => flight = <<>>
    /\ runner \in {"fail", "done"} => queue.stopped

\* While nothing else ends a stream, its queue stops when a call failed or
\* all was typed, and a stream that ended in peace had all of it typed.
EndFits ==
    /\ ~ streamClosed => how = "open"
    /\ alive /\ loop \in {"read", "reserve", "wait", "write", "close"} =>
        /\ ~ streamClosed /\ queue.stopped => runner = "fail" \/ (runner = "done" /\ flight = <<>> /\ typed = accepted)
        /\ how = "finish" => runner = "done" /\ flight = <<>> /\ typed = accepted

\* The invariant that every step preserves.
StreamInv ==
    /\ OutputFits /\ NoLostWake /\ InputFits /\ EndFits
    /\ acking \in [seq : Nat, step : {1, 2}]

\* However a stream ends, everybody leaves: the output loop, the runner of
\* its queue and the observer; a browser that is still connected and did not
\* ask for the end is told of it.
StreamEnds ==
    streamClosed ~> /\ loop = "done" /\ runner = "done" /\ ~sourceOpen
              /\ (how \in {"input", "output"} => told \/ ~alive)
=============================================================================
