--------------------------- MODULE MCWorkbenchLive ---------------------------
(***************************************************************************)
(* TLC instance of what must happen in the end in the workbench: a stream  *)
(* that ends leaves, the snapshots catch up with Herdr, a voice session    *)
(* gives back what it holds.  They share no state here, so a behaviour     *)
(* runs one of them and leaves the others where they begin; each is fair   *)
(* as its module says.                                                     *)
(***************************************************************************)
EXTENDS Naturals

CONSTANT None

VARIABLES
    part,                                                       \* which of them runs
    frames, pending, held, loop, sourceOpen, image, credits, creditCh, acking, accepted, typed,
    queue, runner, sending, alive, closing, streamClosed, how, owed, heard, \* TerminalStream
    world, news, connected, snapshot, shown, sender, poller, attempts, ticks, live, kick, watch,
    panes, resub, quick,                                        \* WorkbenchFeed
    tickets, minted, issues, epoch, shut, perUser, active, hooks, stopping, over, call, voice \* VoiceGateway

Stream == INSTANCE TerminalStream WITH
    Credit <- 1, MergeLimit <- 2, QueueLimit <- 2, Chunk <- 1, MaxFrames <- 2, MaxInput <- 2,
    flight <- sending, told <- heard
Feed == INSTANCE WorkbenchFeed WITH
    MaxFailures <- 1, QuickRetries <- 0, MaxChanges <- 1, failures <- attempts, timer <- ticks
Voice == INSTANCE VoiceGateway WITH
    Requests <- {"r1", "r2"}, Logins <- {"login"}, Users <- {"user"},
    UserOf <- [l \in {"login"} |-> "user"],
    MaxPerUser <- 1, MaxSessions <- 1, MaxTickets <- 1, MaxMinted <- 2, MaxEpoch <- 0,
    asks <- issues, closers <- hooks, closed <- shut, ended <- over, request <- call, session <- voice

\* The parts get the constants they assume.
ASSUME PartsAssumption ==
    /\ Stream!StreamAssumption
    /\ Feed!FeedAssumption
    /\ Voice!VoiceAssumption

streamVars ==
    <<frames, pending, held, loop, sourceOpen, image, credits, creditCh, acking, accepted, typed,
      queue, runner, sending, alive, closing, streamClosed, how, owed, heard>>
feedVars ==
    <<world, news, connected, snapshot, shown, sender, poller, attempts, ticks, live, kick, watch,
      panes, resub, quick>>
voiceVars ==
    <<tickets, minted, issues, epoch, shut, perUser, active, hooks, stopping, over, call, voice>>

LiveInit ==
    /\ part \in {"stream", "feed", "voice"}
    /\ Stream!StreamInit /\ Feed!FeedInit /\ Voice!VoiceInit

LiveNext ==
    \/ part = "stream" /\ Stream!StreamNext /\ UNCHANGED <<part, feedVars, voiceVars>>
    \/ part = "feed" /\ Feed!FeedNext /\ UNCHANGED <<part, streamVars, voiceVars>>
    \/ part = "voice" /\ Voice!VoiceNext /\ UNCHANGED <<part, streamVars, feedVars>>

\* The fairness that each module states, for the part that runs.
LiveFairness ==
    /\ WF_streamVars(part = "stream" /\ Stream!AckStep)
    /\ WF_streamVars(part = "stream" /\ Stream!OutputLoop)
    /\ WF_streamVars(part = "stream" /\ Stream!Runner)
    /\ WF_streamVars(part = "stream" /\ Stream!Ends)
    /\ WF_feedVars(part = "feed" /\ Feed!Poller)
    /\ WF_feedVars(part = "feed" /\ Feed!Watcher)
    /\ WF_feedVars(part = "feed" /\ watch = "subscribe" /\ (Feed!Subscribed \/ Feed!StreamEnds))
    /\ \A s \in Feed!Senders : WF_feedVars(part = "feed" /\ (Feed!Sends(s) \/ Feed!Fails(s)))
    /\ \A r \in {"r1", "r2"} :
          /\ WF_voiceVars(part = "voice" /\ Voice!RequestStep(r))
          /\ WF_voiceVars(part = "voice" /\ Voice!shutdown(r))
          /\ WF_voiceVars(part = "voice" /\ voice[r].ctx # "live" /\ Voice!pumpBrowser(r))
          /\ WF_voiceVars(/\ part = "voice" /\ (voice[r].ctx # "live" \/ voice[r].up = "closed")
                         /\ Voice!pumpUpstream(r))

LiveSpec == LiveInit /\ [][LiveNext]_<<part, streamVars, feedVars, voiceVars>> /\ LiveFairness

\* A stream that ends leaves nothing behind, and what was typed arrived in
\* order and once: StreamEnds, and after every step InputOnceInOrder.
StreamEndsWhole == Stream!StreamEnds /\ [][Stream!InputOnceInOrder']_streamVars

\* FeedCatchesUp of the workbench's snapshots.
FeedCatchesUp == part = "feed" => Feed!FeedCatchesUp

\* VoiceEnds of the voice sessions.
VoiceEnds == Voice!VoiceEnds
=============================================================================
