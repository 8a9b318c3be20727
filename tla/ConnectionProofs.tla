-------------------------- MODULE ConnectionProofs --------------------------
(***************************************************************************)
(* Proofs about the connections to hosts: a dial over ssh (SshDial), the   *)
(* sessions on a connection (SshSession), what a transport knows about the *)
(* service it reaches (CapabilityCache) and the stream of a terminal       *)
(* (TerminalStream), put together by Connections.  Each has an inductive   *)
(* invariant beside its properties: DialInv, SshSessionInv, CapabilityInv  *)
(* and StreamInv.                                                          *)
(***************************************************************************)
EXTENDS Connections, TLAPS

-----------------------------------------------------------------------------
(***************************************************************************)
(* A dial                                                                  *)
(***************************************************************************)
\* Every step of a dial opens and closes what the next one may have open.
LEMMA DialInvStep ==
    ASSUME Dial!DialAssumption, Dial!DialInv, [Dial!DialNext]_(Dial!dialVars)
    PROVE  Dial!DialInv'
<1> USE DEF Dial!DialAssumption, Dial!DialInv, Dial!DialTypeOK, Dial!MayBeOpen, Dial!WayOf, Dial!Paths,
            Dial!Resources, Dial!DialSteps
<1>1. ASSUME NEW p \in Dial!Paths, Dial!Dial(p) PROVE Dial!DialInv'
  BY <1>1 DEF Dial!Dial
<1>2. ASSUME NEW p \in Dial!Paths, Dial!RefusedBefore(p) PROVE Dial!DialInv'
  BY <1>2 DEF Dial!RefusedBefore
<1>3. CASE Dial!Cancel
  BY <1>3 DEF Dial!Cancel
<1>4. CASE Dial!DialTarget
  BY <1>4 DEF Dial!DialTarget, Dial!Enter
<1>5. CASE Dial!DialJump
  BY <1>5 DEF Dial!DialJump, Dial!Enter
<1>6. CASE Dial!JumpAuth
  BY <1>6 DEF Dial!JumpAuth, Dial!Enter
<1>7. CASE Dial!JumpHandshake
  BY <1>7 DEF Dial!JumpHandshake, Dial!Enter
<1>8. CASE Dial!DialThrough
  BY <1>8 DEF Dial!DialThrough, Dial!Enter
<1>9. CASE Dial!PingTailcat
  BY <1>9 DEF Dial!PingTailcat, Dial!Enter
<1>10. CASE Dial!DialChannel
  BY <1>10 DEF Dial!DialChannel, Dial!Enter
<1>11. CASE Dial!TailcatFails
  BY <1>11 DEF Dial!TailcatFails
<1>12. CASE Dial!TryAgain
  BY <1>12 DEF Dial!TryAgain, Dial!Enter
<1>13. CASE Dial!GiveUp
  BY <1>13 DEF Dial!GiveUp
<1>14. CASE Dial!Auth
  BY <1>14 DEF Dial!Auth, Dial!Enter
<1>15. CASE Dial!Handshake
  BY <1>15 DEF Dial!Handshake, Dial!Enter
<1>16. CASE Dial!Args
  BY <1>16 DEF Dial!Args, Dial!Enter
<1>17. CASE Dial!StartMaster
  BY <1>17 DEF Dial!StartMaster, Dial!Enter
<1>18. CASE Dial!ControlUp
  BY <1>18 DEF Dial!ControlUp, Dial!Enter
<1>19. CASE Dial!MasterEnds
  BY <1>19 DEF Dial!MasterEnds
<1>20. CASE Dial!Locate
  BY <1>20 DEF Dial!Locate, Dial!Enter
<1>21. CASE Dial!StepFails
  BY <1>21 DEF Dial!StepFails, Dial!Closes
<1>22. CASE Dial!CloseEndpoint
  BY <1>22 DEF Dial!CloseEndpoint
<1>23. CASE Dial!Returned
  BY <1>23 DEF Dial!Returned
<1>24. CASE UNCHANGED Dial!dialVars
  BY <1>24 DEF Dial!dialVars
<1> QED
  BY <1>1, <1>2, <1>3, <1>4, <1>5, <1>6, <1>7, <1>8, <1>9, <1>10, <1>11, <1>12, <1>13, <1>14, <1>15,
     <1>16, <1>17, <1>18, <1>19, <1>20, <1>21, <1>22, <1>23, <1>24 DEF Dial!DialNext

\* A dial begins with nothing open.
LEMMA DialInvInit == ASSUME Dial!DialAssumption, Dial!DialInit PROVE Dial!DialInv
<1>1. open = {} /\ at = "idle" /\ path = "direct" /\ ended = FALSE /\ attempt = 0
  BY DEF Dial!DialInit
<1>2. path \in Dial!Paths /\ at \in Dial!DialSteps /\ open \subseteq Dial!Resources
  BY <1>1 DEF Dial!Paths, Dial!DialSteps
<1>3. ended \in BOOLEAN
  BY <1>1
<1>4. attempt \in 0..MaxAttempts
  BY <1>1 DEF Dial!DialAssumption
<1> QED
  BY <1>1, <1>2, <1>3, <1>4 DEF Dial!DialInv, Dial!DialTypeOK

\* The types and the inductive invariant of a dial hold always.
THEOREM DialInvariance == ASSUME Dial!DialAssumption PROVE Dial!DialSpec => []Dial!DialInv
<1>1. Dial!DialInit => Dial!DialInv
  BY DialInvInit
<1>2. Dial!DialInv /\ [Dial!DialNext]_(Dial!dialVars) => Dial!DialInv'
  BY DialInvStep
<1> QED
  BY <1>1, <1>2, PTL DEF Dial!DialSpec

\* A dial that failed or was closed leaves nothing open, and one that was
\* made owns what its way to the host is made of (the error paths of
\* DialSSHOnConn, dialSSHViaProxyJump, dialTailcatSSH, DialOpenSSHEndpoint).
THEOREM DialIsReleased == ASSUME Dial!DialAssumption PROVE Dial!DialSpec => []Dial!DialLeavesNothing
<1>1. Dial!DialInv => Dial!DialLeavesNothing
  BY DEF Dial!DialInv, Dial!DialTypeOK, Dial!MayBeOpen, Dial!DialLeavesNothing, Dial!Paths
<1> QED
  BY <1>1, DialInvariance, PTL

-----------------------------------------------------------------------------
(***************************************************************************)
(* The sessions on a connection                                            *)
(***************************************************************************)
\* What SshSessionInv says of one session and who has it: where its caller,
\* its opener and its closer stand, whether its context has ended, and what
\* it is.
Fits(at1, at2, at3, late, s) ==
    /\ at1 \in Session!CallerSteps /\ at2 \in {"off", "opening", "offers"} /\ at3 \in Session!CloserSteps
    /\ s \in Session!Sessions /\ Session!SessionFits(s)
    /\ at1 \in {"idle", "opening", "left"} => Session!Over(s)
    /\ at1 \in {"idle", "opening"} => at3 = "off"
    /\ at1 = "opening" => ~ s.started /\ (at2 = "off" => late)
    /\ at1 = "start" => ~ s.started
    /\ at1 \in {"use", "terminal", "reap", "waiting"} => s.started
    /\ at1 = "waiting" => s.closed
    /\ at1 \in {"close", "closing"} /\ ~ s.started => s.closed
    /\ at2 # "off" => at1 \in {"opening", "left"} /\ at3 = "off" /\ ~ s.started /\ ~ s.closed
    /\ at3 \in {"reap", "waiting"} => s.started
    /\ s.started /\ s.closed /\ ~ s.done <=> at1 = "reap" \/ at3 = "reap"
    /\ ~ (at1 = "reap" /\ at3 = "reap")

\* The invariant, session by session.
LEMMA SessionInvMeans ==
    Session!SshSessionInv <=>
        /\ master \in BOOLEAN /\ gone \subseteq Openers
        /\ caller \in [Openers -> Session!CallerSteps] /\ opener \in [Openers -> {"off", "opening", "offers"}]
        /\ closer \in [Openers -> Session!CloserSteps] /\ session \in [Openers -> Session!Sessions]
        /\ \A c \in Openers : Fits(caller[c], opener[c], closer[c], c \in gone, session[c])
BY DEF Session!SshSessionInv, Session!SshSessionTypeOK, Session!CallerFits, Session!HoldersFit, Fits,
       Session!Sessions

\* The parts have their types.
Shaped ==
    /\ master \in BOOLEAN /\ gone \subseteq Openers
    /\ caller \in [Openers -> Session!CallerSteps] /\ opener \in [Openers -> {"off", "opening", "offers"}]
    /\ closer \in [Openers -> Session!CloserSteps] /\ session \in [Openers -> Session!Sessions]

Here(c) == Fits(caller[c], opener[c], closer[c], c \in gone, session[c])

\* A step of one session leaves the others as they are.
LEMMA OneSession ==
    ASSUME Session!SshSessionInv, NEW c \in Openers, Shaped', Here(c)',
           \A o \in Openers \ {c} :
               /\ caller'[o] = caller[o] /\ opener'[o] = opener[o] /\ closer'[o] = closer[o]
               /\ session'[o] = session[o] /\ (o \in gone' <=> o \in gone)
    PROVE  Session!SshSessionInv'
<1>1. ASSUME NEW o \in Openers PROVE Here(o)'
  <2>1. CASE o = c
    BY <2>1
  <2>2. CASE o # c
    BY <2>2, SessionInvMeans DEF Fits, Here
  <2> QED
    BY <2>1, <2>2
<1>2. /\ Session!SshSessionTypeOK'
      /\ \A o \in Openers : (Session!SessionFits(session[o]) /\ Session!CallerFits(o) /\ Session!HoldersFit(o))'
  BY <1>1 DEF Here, Shaped, Fits, Session!SshSessionTypeOK, Session!CallerFits, Session!HoldersFit, Session!Sessions
<1> QED
  BY <1>2 DEF Session!SshSessionInv, Shaped

\* The steps of newSession and its opener.
LEMMA OpenerSteps ==
    ASSUME Session!SshSessionInv, NEW c \in Openers,
           \/ Session!Ask(c) \/ Session!Cancel(c) \/ Session!Opened(c) \/ Session!NotOpened(c)
           \/ Session!Handed(c) \/ Session!Leave(c) \/ Session!Late(c) \/ Session!Gone(c)
    PROVE  Session!SshSessionInv'
<1> USE DEF Session!CallerGoes, Session!CloserGoes, Session!CallerSteps, Session!CloserSteps
<1>0. Shaped /\ Here(c)
  BY SessionInvMeans DEF Shaped, Here
<1>1. CASE Session!Ask(c)
  <2>1. Session!NoSession \in Session!Sessions
    BY DEF Session!NoSession, Session!Sessions
  <2>2. Shaped'
    BY <1>0, <1>1, <2>1 DEF Shaped, Session!Ask
  <2>3. Here(c)'
    BY <1>0, <1>1, <2>1 DEF Shaped, Session!Ask, Here, Fits, Session!NoSession, Session!SessionFits, Session!Over
  <2> QED
    BY <1>0, <1>1, <2>2, <2>3, OneSession DEF Session!Ask, Shaped
<1>2. CASE Session!Cancel(c)
  <2>1. Shaped' /\ Here(c)'
    BY <1>0, <1>2 DEF Shaped, Session!Cancel, Here, Fits
  <2> QED
    BY <1>0, <1>2, <2>1, OneSession DEF Session!Cancel
<1>3. CASE Session!Opened(c)
  <2>1. Shaped' /\ Here(c)'
    BY <1>0, <1>3 DEF Shaped, Session!Opened, Here, Fits
  <2> QED
    BY <1>0, <1>3, <2>1, OneSession DEF Session!Opened, Shaped
<1>4. CASE Session!NotOpened(c)
  <2>1. Shaped' /\ Here(c)'
    BY <1>0, <1>4 DEF Shaped, Session!NotOpened, Here, Fits
  <2> QED
    BY <1>0, <1>4, <2>1, OneSession DEF Session!NotOpened, Shaped
<1>5. CASE Session!Handed(c)
  <2>1. Shaped' /\ Here(c)'
    BY <1>0, <1>5 DEF Shaped, Session!Handed, Here, Fits
  <2> QED
    BY <1>0, <1>5, <2>1, OneSession DEF Session!Handed, Shaped
<1>6. CASE Session!Leave(c)
  <2>1. Shaped' /\ Here(c)'
    BY <1>0, <1>6 DEF Shaped, Session!Leave, Here, Fits
  <2> QED
    BY <1>0, <1>6, <2>1, OneSession DEF Session!Leave, Shaped
<1>7. CASE Session!Late(c)
  <2>1. Shaped' /\ Here(c)'
    BY <1>0, <1>7 DEF Shaped, Session!Late, Here, Fits, Session!Close, Session!Killed, Session!Sessions,
       Session!SessionFits, Session!Over
  <2> QED
    BY <1>0, <1>7, <2>1, OneSession DEF Session!Late, Shaped
<1>8. CASE Session!Gone(c)
  <2>1. Shaped' /\ Here(c)'
    BY <1>0, <1>8 DEF Shaped, Session!Gone, Here, Fits
  <2> QED
    BY <1>0, <1>8, <2>1, OneSession DEF Session!Gone, Shaped
<1> QED
  BY <1>1, <1>2, <1>3, <1>4, <1>5, <1>6, <1>7, <1>8

\* One who claims a session that runs is the only one who waits for it.
LEMMA Claimed ==
    ASSUME NEW s \in Session!Sessions, Session!SessionFits(s), s.started, ~ s.closed
    PROVE  /\ Session!Claim(s) \in Session!Sessions /\ Session!SessionFits(Session!Claim(s))
           /\ Session!Claim(s).started /\ Session!Claim(s).closed /\ Session!Claim(s).done = s.done /\ ~ s.done
<1>1. s.waits = 0 /\ ~ s.done
  BY DEF Session!SessionFits
<1>2. PICK t : t = [s EXCEPT !.closed = TRUE, !.waits = 1]
  OBVIOUS
<1>5. Session!Claim(s) = t
  BY <1>1, <1>2 DEF Session!Claim, Session!Sessions
<1>3. /\ t \in Session!Sessions /\ t.started /\ t.closed /\ t.waits = 1
      /\ t.done = s.done /\ t.process = s.process /\ t.pipes = s.pipes
  <2>1. t \in Session!Sessions
    <3>1. t = [pipes |-> s.pipes, started |-> s.started, closed |-> TRUE, done |-> s.done,
               process |-> s.process, waits |-> 1]
      BY <1>2 DEF Session!Sessions
    <3> QED
      BY <3>1 DEF Session!Sessions
  <2>2. t.started = s.started
    BY <1>2 DEF Session!Sessions
  <2>3. t.closed
    BY <1>2 DEF Session!Sessions
  <2>4. t.waits = 1
    BY <1>2 DEF Session!Sessions
  <2>5. t.done = s.done
    BY <1>2 DEF Session!Sessions
  <2>6. t.process = s.process /\ t.pipes = s.pipes
    BY <1>2 DEF Session!Sessions
  <2> QED
    BY <2>1, <2>2, <2>3, <2>4, <2>5, <2>6
<1>4. Session!SessionFits(t)
  BY <1>1, <1>3 DEF Session!SessionFits
<1> QED
  BY <1>1, <1>3, <1>4, <1>5

\* A session that is started, or could not be.
LEMMA Started ==
    ASSUME NEW s \in Session!Sessions, Session!SessionFits(s), Session!MayStart(s),
           NEW t, t = [s EXCEPT !.started = TRUE, !.process = "runs"],
           NEW u, u = [s EXCEPT !.closed = TRUE, !.pipes = FALSE]
    PROVE  /\ t \in Session!Sessions /\ Session!SessionFits(t) /\ t.started /\ ~ t.closed /\ ~ t.done
           /\ u \in Session!Sessions /\ Session!SessionFits(u) /\ ~ u.started /\ u.closed /\ ~ u.done
BY DEF Session!Sessions, Session!SessionFits, Session!MayStart

\* The steps of the caller.
LEMMA CallerSteps ==
    ASSUME Session!SshSessionInv, NEW c \in Openers,
           \/ Session!MakePipes(c) \/ Session!Start(c) \/ Session!Terminal(c) \/ Session!Wait(c)
           \/ Session!CloseSession(c) \/ Session!CloseWaits(c) \/ Session!Reap(c) \/ Session!Waited(c)
           \/ Session!Disarm(c)
    PROVE  Session!SshSessionInv'
<1> USE DEF Session!CallerGoes, Session!CloserGoes, Session!CallerSteps, Session!CloserSteps
<1>0. Shaped /\ Here(c)
  BY SessionInvMeans DEF Shaped, Here
<1>1. CASE Session!MakePipes(c)
  <2>1. Shaped' /\ Here(c)'
    BY <1>0, <1>1 DEF Shaped, Session!MakePipes, Here, Fits, Session!Sessions, Session!SessionFits, Session!Over
  <2> QED
    BY <1>0, <1>1, <2>1, OneSession DEF Session!MakePipes, Shaped
<1>2. CASE Session!Start(c)
  <2> DEFINE s == session[c]
             t == [s EXCEPT !.started = TRUE, !.process = "runs"]
             u == [s EXCEPT !.closed = TRUE, !.pipes = FALSE]
  <2>1. s \in Session!Sessions /\ Session!SessionFits(s) /\ caller[c] = "start"
    BY <1>0, <1>2 DEF Shaped, Here, Fits, Session!Start
  <2>2. /\ Session!MayStart(s) => t \in Session!Sessions /\ Session!SessionFits(t) /\ t.started /\ ~ t.closed /\ ~ t.done
        /\ Session!MayStart(s) => u \in Session!Sessions /\ Session!SessionFits(u) /\ ~ u.started /\ u.closed /\ ~ u.done
    BY <2>1, Started
  <2>3. \/ Session!MayStart(s) /\ caller' = [caller EXCEPT ![c] = "use"] /\ session' = [session EXCEPT ![c] = t]
        \/ Session!MayStart(s) /\ caller' = [caller EXCEPT ![c] = "close"] /\ session' = [session EXCEPT ![c] = u]
        \/ ~ Session!MayStart(s) /\ caller' = [caller EXCEPT ![c] = "close"] /\ session' = session
    BY <1>0, <1>2 DEF Shaped, Session!Start
  <2>4. UNCHANGED <<opener, closer, gone, master>>
    BY <1>2 DEF Session!Start
  <2> HIDE DEF t, u
  <2>5. Shaped'
    BY <1>0, <2>2, <2>3, <2>4 DEF Shaped
  <2>6. Here(c)'
    BY <1>0, <2>1, <2>2, <2>3, <2>4 DEF Shaped, Here, Fits, Session!MayStart
  <2> QED
    BY <1>0, <2>3, <2>4, <2>5, <2>6, OneSession DEF Shaped
<1>3. CASE Session!Terminal(c)
  <2>1. Shaped' /\ Here(c)'
    BY <1>0, <1>3 DEF Shaped, Session!Terminal, Here, Fits
  <2> QED
    BY <1>0, <1>3, <2>1, OneSession DEF Session!Terminal, Shaped
<1>4. CASE Session!Wait(c)
  <2>1. session[c] \in Session!Sessions /\ Session!SessionFits(session[c])
    BY <1>0 DEF Shaped, Here, Fits
  <2>2. Shaped'
    BY <1>0, <1>4, <2>1, Claimed DEF Shaped, Session!Wait, Here, Fits
  <2>3. Here(c)'
    BY <1>0, <1>4, <2>1, Claimed DEF Shaped, Session!Wait, Here, Fits, Session!SessionFits, Session!Over
  <2> QED
    BY <1>0, <1>4, <2>2, <2>3, OneSession DEF Session!Wait, Shaped
<1>5. CASE Session!CloseSession(c)
  <2>1. Shaped' /\ Here(c)'
    BY <1>0, <1>5 DEF Shaped, Session!CloseSession, Here, Fits, Session!Close, Session!Killed, Session!Sessions,
       Session!SessionFits, Session!Over
  <2> QED
    BY <1>0, <1>5, <2>1, OneSession DEF Session!CloseSession, Shaped
<1>6. CASE Session!CloseWaits(c)
  <2>1. session[c] \in Session!Sessions /\ Session!SessionFits(session[c])
    BY <1>0 DEF Shaped, Here, Fits
  <2>2. Shaped'
    BY <1>0, <1>6, <2>1, Claimed DEF Shaped, Session!CloseWaits, Here, Fits
  <2>3. Here(c)'
    BY <1>0, <1>6, <2>1, Claimed DEF Shaped, Session!CloseWaits, Here, Fits, Session!SessionFits, Session!Over
  <2> QED
    BY <1>0, <1>6, <2>2, <2>3, OneSession DEF Session!CloseWaits, Shaped
<1>7. CASE Session!Reap(c)
  <2>1. Shaped' /\ Here(c)'
    BY <1>0, <1>7 DEF Shaped, Session!Reap, Here, Fits, Session!Reaped, Session!Sessions, Session!SessionFits,
       Session!Over
  <2> QED
    BY <1>0, <1>7, <2>1, OneSession DEF Session!Reap, Shaped
<1>8. CASE Session!Waited(c)
  <2>1. Shaped' /\ Here(c)'
    BY <1>0, <1>8 DEF Shaped, Session!Waited, Here, Fits, Session!Sessions, Session!SessionFits, Session!Over
  <2> QED
    BY <1>0, <1>8, <2>1, OneSession DEF Session!Waited, Shaped
<1>9. CASE Session!Disarm(c)
  <2>1. Shaped' /\ Here(c)'
    BY <1>0, <1>9 DEF Shaped, Session!Disarm, Here, Fits
  <2> QED
    BY <1>0, <1>9, <2>1, OneSession DEF Session!Disarm, Shaped
<1> QED
  BY <1>1, <1>2, <1>3, <1>4, <1>5, <1>6, <1>7, <1>8, <1>9

\* The end of a process, and the steps of the context's end.
LEMMA CloserSteps ==
    ASSUME Session!SshSessionInv, NEW c \in Openers,
           \/ Session!Exit(c) \/ Session!Fire(c) \/ Session!CloserWaits(c) \/ Session!CloserReaps(c)
           \/ Session!CloserWaited(c)
    PROVE  Session!SshSessionInv'
<1> USE DEF Session!CallerGoes, Session!CloserGoes, Session!CallerSteps, Session!CloserSteps
<1>0. Shaped /\ Here(c)
  BY SessionInvMeans DEF Shaped, Here
<1>1. CASE Session!Exit(c)
  <2>1. Shaped' /\ Here(c)'
    BY <1>0, <1>1 DEF Shaped, Session!Exit, Here, Fits, Session!Sessions, Session!SessionFits, Session!Over
  <2> QED
    BY <1>0, <1>1, <2>1, OneSession DEF Session!Exit, Shaped
<1>2. CASE Session!Fire(c)
  <2>1. Shaped' /\ Here(c)'
    BY <1>0, <1>2 DEF Shaped, Session!Fire, Here, Fits, Session!Close, Session!Killed, Session!Sessions,
       Session!SessionFits, Session!Over
  <2> QED
    BY <1>0, <1>2, <2>1, OneSession DEF Session!Fire, Shaped
<1>3. CASE Session!CloserWaits(c)
  <2>1. session[c] \in Session!Sessions /\ Session!SessionFits(session[c])
    BY <1>0 DEF Shaped, Here, Fits
  <2>2. Shaped'
    BY <1>0, <1>3, <2>1, Claimed DEF Shaped, Session!CloserWaits, Here, Fits
  <2>3. Here(c)'
    BY <1>0, <1>3, <2>1, Claimed DEF Shaped, Session!CloserWaits, Here, Fits, Session!SessionFits, Session!Over
  <2> QED
    BY <1>0, <1>3, <2>2, <2>3, OneSession DEF Session!CloserWaits, Shaped
<1>4. CASE Session!CloserReaps(c)
  <2>1. Shaped' /\ Here(c)'
    BY <1>0, <1>4 DEF Shaped, Session!CloserReaps, Here, Fits, Session!Reaped, Session!Sessions, Session!SessionFits,
       Session!Over
  <2> QED
    BY <1>0, <1>4, <2>1, OneSession DEF Session!CloserReaps, Shaped
<1>5. CASE Session!CloserWaited(c)
  <2>1. Shaped' /\ Here(c)'
    BY <1>0, <1>5 DEF Shaped, Session!CloserWaited, Here, Fits, Session!Sessions, Session!SessionFits, Session!Over
  <2> QED
    BY <1>0, <1>5, <2>1, OneSession DEF Session!CloserWaited, Shaped
<1> QED
  BY <1>1, <1>2, <1>3, <1>4, <1>5

\* Every step keeps what is known of each session and its holders.
LEMMA SshSessionInvStep ==
    ASSUME Session!SshSessionInv, [Session!SshSessionNext]_(Session!sessionVars)
    PROVE  Session!SshSessionInv'
<1>0. Shaped /\ \A c \in Openers : Here(c)
  BY SessionInvMeans DEF Shaped, Here
<1>1. CASE Session!MasterEnds
  <2>1. /\ UNCHANGED <<caller, opener, closer, gone>> /\ master' = FALSE
        /\ session' = [c \in Openers |-> Session!Killed(session[c])]
    BY <1>1 DEF Session!MasterEnds
  <2>2. ASSUME NEW s \in Session!Sessions, Session!SessionFits(s)
        PROVE  /\ Session!Killed(s) \in Session!Sessions /\ Session!SessionFits(Session!Killed(s))
               /\ Session!Over(Session!Killed(s)) <=> Session!Over(s)
               /\ Session!Killed(s).started = s.started /\ Session!Killed(s).closed = s.closed
               /\ Session!Killed(s).done = s.done
    BY <2>2 DEF Session!Killed, Session!Sessions, Session!SessionFits, Session!Over
  <2>3. ASSUME NEW c \in Openers PROVE Here(c)'
    <3>1. session'[c] = Session!Killed(session[c]) /\ session[c] \in Session!Sessions
          /\ Session!SessionFits(session[c])
      BY <1>0, <2>1 DEF Shaped, Here, Fits
    <3> QED
      BY <1>0, <2>1, <2>2, <3>1 DEF Here, Fits
  <2>4. Shaped'
    BY <1>0, <2>1, <2>2 DEF Shaped, Here, Fits
  <2> QED
    BY <2>3, <2>4, SessionInvMeans DEF Session!SshSessionInv, Session!SshSessionTypeOK, Session!CallerFits,
       Session!HoldersFit, Here, Shaped, Fits, Session!Sessions
<1>2. CASE Session!Reconnect \/ UNCHANGED Session!sessionVars
  <2>1. UNCHANGED <<caller, opener, closer, gone, session>> /\ master' \in BOOLEAN
    BY <1>0, <1>2 DEF Session!Reconnect, Session!sessionVars, Shaped
  <2> QED
    BY <2>1 DEF Session!SshSessionInv, Session!SshSessionTypeOK, Session!CallerFits, Session!HoldersFit
<1>3. ASSUME NEW c \in Openers,
             \/ Session!Ask(c) \/ Session!Cancel(c) \/ Session!MakePipes(c) \/ Session!Terminal(c)
             \/ Session!Wait(c) \/ Session!CloseSession(c) \/ Session!Exit(c) \/ Session!Proceeds(c)
      PROVE  Session!SshSessionInv'
  BY <1>3, OpenerSteps, CallerSteps, CloserSteps DEF Session!Proceeds
<1> QED
  BY <1>1, <1>2, <1>3 DEF Session!SshSessionNext

\* What is known of each session and who has it holds always.
THEOREM SshSessionInvariance == Session!SshSessionSpec => []Session!SshSessionInv
<1>1. Session!SshSessionInit => Session!SshSessionInv
  BY DEF Session!SshSessionInit, Session!SshSessionInv, Session!SshSessionTypeOK, Session!CallerFits,
         Session!HoldersFit, Session!SessionFits, Session!Over, Session!Sessions, Session!NoSession,
         Session!CallerSteps, Session!CloserSteps
<1>2. Session!SshSessionInv /\ [Session!SshSessionNext]_(Session!sessionVars) => Session!SshSessionInv'
  BY SshSessionInvStep
<1> QED
  BY <1>1, <1>2, PTL DEF Session!SshSessionSpec

\* The types of the variables hold always (openSSHSession, newSession).
THEOREM SshSessionTypeCorrect == Session!SshSessionSpec => []Session!SshSessionTypeOK
<1>1. Session!SshSessionInv => Session!SshSessionTypeOK
  BY DEF Session!SshSessionInv
<1> QED
  BY <1>1, SshSessionInvariance, PTL

\* A session is waited for once at most, and nothing of it is left when
\* nobody has it any more (newSession, openSSHSession).
THEOREM SessionsReleased == Session!SshSessionSpec => []Session!SessionsAreReleased
<1>1. Session!SshSessionInv => Session!SessionsAreReleased
  BY SessionInvMeans DEF Fits, Session!SessionFits, Session!Over, Session!SessionsAreReleased, Session!Sessions
<1> QED
  BY <1>1, SshSessionInvariance, PTL

-----------------------------------------------------------------------------
\* However its dials and its sessions end, a connection leaves nothing.
THEOREM NothingIsLeft ==
    ASSUME Dial!DialAssumption
    PROVE  Dial!DialSpec /\ Session!SshSessionSpec => []ConnectionsLeaveNothing
BY DialIsReleased, SessionsReleased, PTL DEF ConnectionsLeaveNothing

-----------------------------------------------------------------------------
(***************************************************************************)
(* What a transport knows about the service it reaches                     *)
(***************************************************************************)
CacheTypes ==
    /\ daemon \in Capability!Versions /\ cli \in 1..MaxCli
    /\ revision \in Nat /\ live \in 0..MaxVersion /\ cliSeen \in 0..MaxCli
    /\ report # Nobody => report \in [about : Capability!Versions, observed : BOOLEAN, features : [Capability!Names -> Capability!States]]
    /\ unsupported \subseteq [name : Capability!Names, from : Capability!Versions, known : BOOLEAN]
    /\ probing \in Askers \cup {Nobody}

Probes(k) == k.at \in {"ping", "cli", "finish"}

\* A generation lasts as long as the service that is known; another service
\* or another executable begins the next one.
Advances ==
    /\ daemon' \in {daemon, daemon + 1}
    /\ \/ revision' = revision /\ (live' = live \/ live = 0)
       \/ revision' = revision + 1

\* What the invariant says, part by part.
LEMMA CapabilityInvMeans ==
    Capability!CapabilityInv <=>
        /\ CacheTypes /\ Capability!EvidenceFits
        /\ call \in [Askers -> Capability!Reading \cup Capability!Probing]
        /\ \A c \in Askers : Capability!CallFits(c)
<1>1. ASSUME call \in [Askers -> Capability!Reading \cup Capability!Probing]
      PROVE  \A c \in Askers : call[c].at \in {"idle", "call", "answered", "snapshot", "observe", "enter",
                                                "waits", "ping", "cli", "finish"}
  BY <1>1 DEF Capability!Reading, Capability!Probing
<1> QED
  BY <1>1 DEF Capability!CapabilityInv, Capability!CapabilityTypeOK, CacheTypes

\* What a caller has read fits the next generation as well.
LEMMA OthersFit ==
    ASSUME Capability!CapabilityAssumption, Capability!CapabilityInv, Advances, CacheTypes', NEW o \in Askers,
           call'[o] = call[o],
           Probes(call[o]) => probing' = probing
    PROVE  Capability!CallFits(o)'
<1> DEFINE k == call[o]
<1>1. /\ k \in Capability!Reading \cup Capability!Probing /\ Capability!ReadBefore(k) /\ Capability!SameGeneration(k)
      /\ Probes(k) => probing = o
  BY DEF Capability!CapabilityInv, Capability!CallFits, Probes
<1>2. k.revision \in Nat /\ daemon \in Nat /\ revision \in Nat
  BY <1>1, CapabilityInvMeans DEF Capability!Reading, Capability!Probing, CacheTypes, Capability!Versions
<1>3. /\ k.revision <= revision'
      /\ k.at \in {"answered", "snapshot", "observe", "enter"} => k.from \in 1..daemon'
      /\ Probes(k) => k.about \in 1..daemon'
  BY <1>1, <1>2 DEF Capability!ReadBefore, Advances, Probes
<1>4. k.revision = revision' =>
        /\ k.at \in {"call", "answered"} /\ k.known => live' # 0
        /\ k.at = "answered" /\ k.known => live' <= k.from
        /\ Probes(k) /\ k.observed => k.about = live'
  BY <1>1, <1>2 DEF Capability!ReadBefore, Capability!SameGeneration, Advances, Probes
<1> QED
  BY <1>1, <1>3, <1>4 DEF Capability!CallFits, Capability!ReadBefore, Capability!SameGeneration, Probes

\* A step of one caller.
LEMMA OneCall ==
    ASSUME Capability!CapabilityAssumption, Capability!CapabilityInv, Advances, CacheTypes',
           Capability!EvidenceFits', NEW c \in Askers,
           NEW x \in Capability!Reading \cup Capability!Probing, call' = [call EXCEPT ![c] = x],
           Capability!ReadBefore(x)', Capability!SameGeneration(x)', Probes(x) => probing' = c,
           \A o \in Askers \ {c} : Probes(call[o]) => probing' = probing
    PROVE  Capability!CapabilityInv'
<1>1. call' \in [Askers -> Capability!Reading \cup Capability!Probing] /\ call'[c] = x
  BY DEF Capability!CapabilityInv
<1>2. ASSUME NEW o \in Askers PROVE Capability!CallFits(o)'
  <2>1. CASE o = c
    BY <1>1, <2>1 DEF Capability!CallFits, Probes
  <2>2. CASE o # c
    BY <2>2, OthersFit DEF Capability!CapabilityInv
  <2> QED
    BY <2>1, <2>2
<1> QED
  BY <1>1, <1>2, CapabilityInvMeans DEF Capability!CapabilityInv, Capability!CapabilityTypeOK, CacheTypes,
     Capability!Reading, Capability!Probing

\* A snapshot of a service that ran keeps what is held true.
LEMMA ObserveKeeps ==
    ASSUME Capability!CapabilityAssumption, Capability!CapabilityInv, NEW version \in 1..daemon,
           Capability!Observe(version),
           UNCHANGED <<daemon, cli, cliSeen, probing>>
    PROVE  /\ Advances /\ CacheTypes' /\ Capability!EvidenceFits' /\ live' = version
           /\ revision' \in {revision, revision + 1}
<1>1. CacheTypes /\ Capability!EvidenceFits /\ daemon \in Nat /\ MaxVersion \in Nat /\ daemon <= MaxVersion
  BY CapabilityInvMeans DEF CacheTypes, Capability!Versions, Capability!CapabilityAssumption
<1>2. Advances
  BY <1>1 DEF Advances, Capability!Observe, CacheTypes
<1>3. CacheTypes'
  BY <1>1 DEF CacheTypes, Capability!Observe, Capability!Versions
<1>4. Capability!EvidenceFits'
  BY <1>1 DEF CacheTypes, Capability!Observe, Capability!EvidenceFits, Capability!Versions
<1> QED
  BY <1>2, <1>3, <1>4 DEF Capability!Observe

\* What is cached does not move.
LEMMA CacheStays ==
    ASSUME Capability!CapabilityAssumption, Capability!CapabilityInv, UNCHANGED <<Capability!serviceVars,
           Capability!cacheVars>>
    PROVE  Advances /\ CacheTypes' /\ Capability!EvidenceFits' /\ UNCHANGED <<daemon, revision, live, probing>>
BY CapabilityInvMeans DEF Advances, CacheTypes, Capability!EvidenceFits, Capability!serviceVars, Capability!cacheVars

\* The record of a caller, outside a probe and in one.
LEMMA CallTypes ==
    ASSUME Capability!CapabilityAssumption, Capability!CapabilityInv, NEW c \in Askers
    PROVE  /\ Probes(call[c]) => call[c] \in Capability!Probing /\ probing = c
           /\ ~ Probes(call[c]) => call[c] \in Capability!Reading
           /\ Capability!ReadBefore(call[c]) /\ Capability!SameGeneration(call[c]) /\ CacheTypes /\ Capability!EvidenceFits
           /\ daemon \in 1..MaxVersion /\ MaxVersion \in Nat /\ revision \in Nat /\ live \in 0..MaxVersion
BY CapabilityInvMeans DEF Probes, Capability!Probing, Capability!Reading, Capability!CallFits, CacheTypes,
   Capability!Versions, Capability!CapabilityAssumption

\* The record of a caller that has read a version.
Has(at1, version) ==
    [at |-> at1, revision |-> 0, known |-> FALSE, method |-> "none", from |-> version, outcome |-> "none"]

\* A caller that reads one of the versions, or leaves.
LEMMA Goes ==
    ASSUME Capability!CapabilityAssumption, Capability!CapabilityInv, NEW c \in Askers, Advances, CacheTypes',
           Capability!EvidenceFits',
           NEW at1 \in {"idle", "snapshot", "observe", "enter"}, NEW from1 \in 0..daemon,
           at1 = "idle" \/ from1 > 0, call' = [call EXCEPT ![c] = Has(at1, from1)],
           \A o \in Askers \ {c} : Probes(call[o]) => probing' = probing
    PROVE  Capability!CapabilityInv'
<1>1. /\ daemon \in 1..MaxVersion /\ daemon' \in {daemon, daemon + 1} /\ revision' \in Nat /\ MaxVersion \in Nat
  BY CallTypes DEF Advances, CacheTypes
<1>2. PICK x : x = Has(at1, from1)
  OBVIOUS
<1>3. from1 \in 0..MaxVersion
  BY <1>1
<1>4. x \in Capability!Reading /\ x.at = at1 /\ x.revision = 0 /\ x.from = from1
  BY <1>2, <1>3 DEF Has, Capability!Reading
<1>5. Capability!ReadBefore(x)'
  BY <1>1, <1>4 DEF Capability!ReadBefore
<1>6. Capability!SameGeneration(x)' /\ ~ Probes(x)
  BY <1>4 DEF Capability!SameGeneration, Probes
<1> QED
  BY <1>2, <1>4, <1>5, <1>6, OneCall

\* A caller that leaves.
LEMMA IdleGoes ==
    ASSUME Capability!CapabilityAssumption, Capability!CapabilityInv, NEW c \in Askers, Advances, CacheTypes',
           Capability!EvidenceFits',
           call' = [call EXCEPT ![c] = Capability!Idle],
           \A o \in Askers \ {c} : Probes(call[o]) => probing' = probing
    PROVE  Capability!CapabilityInv'
<1>1. 0 \in 0..daemon
  BY CallTypes
<1>2. Capability!Idle = Has("idle", 0)
  BY DEF Capability!Idle, Has
<1> QED
  BY <1>1, <1>2, Goes

\* A call of the handle, and what its answer says.
LEMMA CallSteps ==
    ASSUME Capability!CapabilityAssumption, Capability!CapabilityInv, NEW c \in Askers,
           \/ Capability!BeginCall(c) \/ Capability!Answer(c) \/ Capability!EndCall(c) \/ Capability!Snapshot(c) \/ Capability!EndSnapshot(c)
    PROVE  Capability!CapabilityInv'
<1> USE DEF Capability!Goes, Capability!At
<1> DEFINE k == call[c]
<1>0. /\ Probes(k) => k \in Capability!Probing /\ probing = c
      /\ ~ Probes(k) => k \in Capability!Reading
      /\ Capability!ReadBefore(k) /\ Capability!SameGeneration(k) /\ CacheTypes /\ Capability!EvidenceFits
      /\ daemon \in 1..MaxVersion /\ MaxVersion \in Nat /\ revision \in Nat /\ live \in 0..MaxVersion
  BY CallTypes
<1>1. CASE Capability!BeginCall(c)
  <2>1. PICK method \in Capability!Methods :
            call' = [call EXCEPT ![c] = [Capability!Idle EXCEPT !.at = "call", !.method = method,
                                                                !.revision = revision, !.known = live # 0]]
    BY <1>1 DEF Capability!BeginCall
  <2>2. PICK x : x = [Capability!Idle EXCEPT !.at = "call", !.method = method, !.revision = revision,
                                             !.known = live # 0]
    OBVIOUS
  <2>3. x \in Capability!Reading /\ x.at = "call" /\ x.revision = revision /\ (x.known => live # 0)
    <3>1. x = [at |-> "call", revision |-> revision, known |-> live # 0, method |-> method,
               from |-> 0, outcome |-> "none"]
      BY <2>2 DEF Capability!Idle
    <3>2. CASE live = 0
      <4>1. x = [at |-> "call", revision |-> revision, known |-> FALSE, method |-> method,
                 from |-> 0, outcome |-> "none"]
        BY <3>1, <3>2
      <4> QED
        BY <1>0, <4>1 DEF Capability!Reading
    <3>3. CASE live # 0
      <4>1. x = [at |-> "call", revision |-> revision, known |-> TRUE, method |-> method,
                 from |-> 0, outcome |-> "none"]
        BY <3>1, <3>3
      <4> QED
        BY <1>0, <3>3, <4>1 DEF Capability!Reading
    <3> QED
      BY <3>2, <3>3
  <2>4. Advances /\ CacheTypes' /\ Capability!EvidenceFits' /\ UNCHANGED <<daemon, revision, live, probing>>
    BY <1>1, CacheStays DEF Capability!BeginCall
  <2>5. Capability!ReadBefore(x)' /\ Capability!SameGeneration(x)' /\ ~ Probes(x)
    BY <1>0, <2>3, <2>4 DEF Capability!ReadBefore, Capability!SameGeneration, Probes
  <2> QED
    BY <2>1, <2>2, <2>3, <2>4, <2>5, OneCall
<1>2. CASE Capability!Answer(c)
  <2>3. k \in Capability!Reading /\ k.at = "call"
    BY <1>0, <1>2 DEF Capability!Answer, Probes
  <2>1. PICK outcome \in Capability!Outcomes :
            call' = [call EXCEPT ![c] = [call[c] EXCEPT !.at = "answered", !.from = daemon, !.outcome = outcome]]
    BY <1>2 DEF Capability!Answer
  <2>2. PICK x : x = [k EXCEPT !.at = "answered", !.from = daemon, !.outcome = outcome]
    OBVIOUS
  <2>4. /\ x \in Capability!Reading /\ x.at = "answered" /\ x.revision = k.revision /\ x.known = k.known
        /\ x.from = daemon
    <3>1. x = [at |-> "answered", revision |-> k.revision, known |-> k.known, method |-> k.method,
               from |-> daemon, outcome |-> outcome]
      BY <2>2, <2>3 DEF Capability!Reading
    <3> QED
      BY <1>0, <2>3, <3>1 DEF Capability!Reading
  <2>5. Advances /\ CacheTypes' /\ Capability!EvidenceFits' /\ UNCHANGED <<daemon, revision, live, probing>>
    BY <1>2, CacheStays DEF Capability!Answer
  <2>6. Capability!ReadBefore(x)' /\ Capability!SameGeneration(x)' /\ ~ Probes(x)
    BY <1>0, <2>3, <2>4, <2>5 DEF Capability!ReadBefore, Capability!SameGeneration, Probes, Capability!EvidenceFits
  <2> QED
    BY <2>1, <2>2, <2>4, <2>5, <2>6, OneCall
<1>3. CASE Capability!EndCall(c)
  <2>1. /\ k \in Capability!Reading /\ k.at = "answered" /\ Capability!RecordFailure(k) /\ call' = [call EXCEPT ![c] = Capability!Idle]
        /\ UNCHANGED <<daemon, cli, revision, live, cliSeen, probing>>
    BY <1>0, <1>3 DEF Capability!EndCall, Capability!serviceVars, Probes
  <2>2. k.from \in 1..daemon /\ k.known \in BOOLEAN
    BY <1>0, <2>1 DEF Capability!ReadBefore, Capability!Reading
  <2>3. CASE UNCHANGED <<unsupported, report>>
    <3>1. Advances /\ CacheTypes' /\ Capability!EvidenceFits'
      BY <1>0, <2>1, <2>3 DEF Advances, CacheTypes, Capability!EvidenceFits
    <3> QED
      BY <1>0, <2>1, <3>1, IdleGoes
  <2>4. CASE /\ k.revision = revision
             /\ unsupported' = unsupported \cup [name : Capability!NamesOf(k.method), from : {k.from}, known : {k.known}]
             /\ report' = IF report = Nobody THEN Nobody
                          ELSE [report EXCEPT !.features = Capability!Refuse(@, Capability!NamesOf(k.method))]
    <3>0. PICK names : names = Capability!NamesOf(k.method)
      OBVIOUS
    <3>1. names \subseteq Capability!Names
      BY <3>0 DEF Capability!NamesOf, Capability!Names
    <3>2. /\ unsupported' \subseteq [name : Capability!Names, from : Capability!Versions, known : BOOLEAN]
          /\ \A e \in unsupported' : e \in unsupported \/ (e.from = k.from /\ e.known = k.known)
      BY <1>0, <2>2, <2>4, <3>0, <3>1 DEF CacheTypes, Capability!Versions
    <3>3. \A e \in unsupported' : e.known => live # 0 /\ live <= e.from /\ e.from <= daemon
      BY <1>0, <2>1, <2>2, <2>4, <3>2 DEF Capability!EvidenceFits, Capability!SameGeneration
    <3>4. ASSUME report # Nobody
          PROVE  /\ report' \in [about : Capability!Versions, observed : BOOLEAN, features : [Capability!Names -> Capability!States]]
                 /\ report'.about = report.about /\ report'.observed = report.observed
      <4>1. PICK f : f = Capability!Refuse(report.features, names)
        OBVIOUS
      <4>2. report' = [report EXCEPT !.features = f]
        BY <2>4, <3>0, <3>4, <4>1
      <4>3. report \in [about : Capability!Versions, observed : BOOLEAN, features : [Capability!Names -> Capability!States]]
        BY <1>0, <3>4 DEF CacheTypes
      <4>4. f \in [Capability!Names -> Capability!States]
        BY <4>1, <4>3 DEF Capability!Refuse, Capability!States
      <4> QED
        BY <4>2, <4>3, <4>4
    <3>5. Advances /\ CacheTypes' /\ Capability!EvidenceFits'
      <4>1. report = Nobody => report' = Nobody
        BY <2>4
      <4>2. Advances
        BY <2>1 DEF Advances
      <4>3. CacheTypes'
        BY <1>0, <2>1, <3>2, <3>4, <4>1 DEF CacheTypes
      <4>4. Capability!EvidenceFits'
        BY <1>0, <2>1, <3>3, <3>4, <4>1 DEF Capability!EvidenceFits
      <4> QED
        BY <4>2, <4>3, <4>4
    <3> QED
      BY <2>1, <3>5, IdleGoes
  <2> QED
    BY <2>1, <2>3, <2>4 DEF Capability!RecordFailure, Capability!Counts
<1>4. CASE Capability!Snapshot(c)
  <2>0. PICK x : x = [Capability!Idle EXCEPT !.at = "snapshot", !.from = daemon]
    OBVIOUS
  <2>1. call' = [call EXCEPT ![c] = Has("snapshot", daemon)] /\ daemon \in 0..daemon /\ daemon > 0
    <3>1. x = Has("snapshot", daemon)
      BY <2>0 DEF Capability!Idle, Has
    <3>2. call' = [call EXCEPT ![c] = x]
      BY <1>4, <2>0 DEF Capability!Snapshot
    <3> QED
      BY <1>0, <3>1, <3>2
  <2>2. Advances /\ CacheTypes' /\ Capability!EvidenceFits' /\ UNCHANGED probing
    BY <1>4, CacheStays DEF Capability!Snapshot
  <2> QED
    BY <2>1, <2>2, Goes
<1>5. CASE Capability!EndSnapshot(c)
  <2>1. /\ k.at = "snapshot" /\ Capability!Observe(k.from) /\ call' = [call EXCEPT ![c] = Capability!Idle]
        /\ UNCHANGED <<daemon, cli, cliSeen, probing>>
    BY <1>5 DEF Capability!EndSnapshot, Capability!serviceVars
  <2>2. k.from \in 1..daemon
    BY <1>0, <2>1 DEF Capability!ReadBefore
  <2>3. Advances /\ CacheTypes' /\ Capability!EvidenceFits'
    BY <2>1, <2>2, ObserveKeeps
  <2> QED
    BY <2>1, <2>3, IdleGoes
<1> QED
  BY <1>1, <1>2, <1>3, <1>4, <1>5

\* The record of a caller that looks at the service.
LEMMA LookGoes ==
    ASSUME Capability!CapabilityAssumption, Capability!CapabilityInv, NEW c \in Askers, Capability!Looks(c)
    PROVE  Capability!CapabilityInv'
<1>1. Advances /\ CacheTypes' /\ Capability!EvidenceFits' /\ UNCHANGED <<daemon, revision, live, probing>>
  BY CacheStays DEF Capability!Looks
<1>2. CASE call' = [call EXCEPT ![c] = Capability!Idle]
  BY <1>1, <1>2, IdleGoes
<1>3. CASE call' = [call EXCEPT ![c] = [Capability!Idle EXCEPT !.at = "observe", !.from = daemon]]
  <2>1. PICK x : x = [Capability!Idle EXCEPT !.at = "observe", !.from = daemon]
    OBVIOUS
  <2>2. x = Has("observe", daemon)
    BY <2>1 DEF Capability!Idle, Has
  <2>3. call' = [call EXCEPT ![c] = x]
    BY <1>3, <2>1
  <2>4. daemon \in 0..daemon /\ daemon > 0
    BY CallTypes
  <2> QED
    BY <1>1, <2>2, <2>3, <2>4, Goes
<1> QED
  BY <1>2, <1>3 DEF Capability!Looks, Capability!Goes

\* The steps of a report before its probe, and its probe's questions.
LEMMA ReportSteps ==
    ASSUME Capability!CapabilityAssumption, Capability!CapabilityInv, NEW c \in Askers,
           Capability!Report(c) \/ Capability!Woken(c) \/ Capability!ObserveFirst(c) \/ Capability!Enter(c) \/ Capability!Ping(c) \/ Capability!ReadCli(c)
    PROVE  Capability!CapabilityInv'
<1> USE DEF Capability!Goes, Capability!At
<1> DEFINE k == call[c]
<1>0. /\ Probes(k) => k \in Capability!Probing /\ probing = c
      /\ ~ Probes(k) => k \in Capability!Reading
      /\ Capability!ReadBefore(k) /\ Capability!SameGeneration(k) /\ CacheTypes /\ Capability!EvidenceFits
      /\ daemon \in 1..MaxVersion /\ MaxVersion \in Nat /\ revision \in Nat /\ live \in 0..MaxVersion
  BY CallTypes
<1>1. CASE Capability!Report(c) \/ Capability!Woken(c)
  BY <1>1, LookGoes DEF Capability!Report, Capability!Woken
<1>2. CASE Capability!ObserveFirst(c)
  <2>1. /\ k.at = "observe" /\ Capability!Observe(k.from) /\ call' = [call EXCEPT ![c] = [k EXCEPT !.at = "enter"]]
        /\ UNCHANGED <<daemon, cli, cliSeen, probing>>
    BY <1>2 DEF Capability!ObserveFirst, Capability!serviceVars
  <2>2. k.from \in 1..daemon /\ k \in Capability!Reading
    BY <1>0, <2>1 DEF Capability!ReadBefore, Probes
  <2>3. Advances /\ CacheTypes' /\ Capability!EvidenceFits' /\ revision' \in {revision, revision + 1}
    BY <2>1, <2>2, ObserveKeeps
  <2>4. PICK x : x = [k EXCEPT !.at = "enter"]
    OBVIOUS
  <2>5. x \in Capability!Reading /\ x.at = "enter" /\ x.revision = k.revision /\ x.from = k.from
    BY <2>2, <2>4 DEF Capability!Reading
  <2>6. Capability!ReadBefore(x)' /\ Capability!SameGeneration(x)' /\ ~ Probes(x)
    BY <1>0, <2>1, <2>2, <2>3, <2>5 DEF Capability!ReadBefore, Capability!SameGeneration, Probes, Capability!Reading
  <2> QED
    BY <2>1, <2>3, <2>4, <2>5, <2>6, OneCall
<1>3. CASE Capability!Enter(c)
  <2>1. /\ k.at = "enter" /\ k \in Capability!Reading /\ k.from \in 1..daemon
        /\ UNCHANGED <<Capability!serviceVars, revision, live, cliSeen, report, unsupported>>
    BY <1>0, <1>3 DEF Capability!Enter, Capability!ReadBefore, Probes
  <2>2. Advances /\ Capability!EvidenceFits'
    BY <1>0, <2>1 DEF Advances, Capability!EvidenceFits, Capability!serviceVars
  <2>3. CASE call' = [call EXCEPT ![c] = Capability!Idle] /\ UNCHANGED probing
    <3>1. CacheTypes'
      BY <1>0, <2>1, <2>3 DEF CacheTypes, Capability!serviceVars
    <3> QED
      BY <2>2, <2>3, <3>1, IdleGoes
  <2>4. CASE /\ probing # Nobody /\ UNCHANGED probing
             /\ call' = [call EXCEPT ![c] = [Capability!Idle EXCEPT !.at = "waits", !.from = probing]]
    <3>1. CacheTypes'
      BY <1>0, <2>1, <2>4 DEF CacheTypes, Capability!serviceVars
    <3>2. PICK x : x = [Capability!Idle EXCEPT !.at = "waits", !.from = probing]
      OBVIOUS
    <3>3. x = Has("waits", probing)
      BY <3>2 DEF Capability!Idle, Has
    <3>4. probing \in 0..MaxVersion \cup Askers
      BY <1>0, <2>4 DEF CacheTypes
    <3>5. x \in Capability!Reading /\ x.at = "waits" /\ x.revision = 0
      BY <3>3, <3>4 DEF Has, Capability!Reading
    <3>6. Capability!ReadBefore(x)' /\ Capability!SameGeneration(x)' /\ ~ Probes(x)
      BY <1>0, <2>1, <3>5 DEF Capability!ReadBefore, Capability!SameGeneration, Probes
    <3> QED
      BY <2>2, <2>4, <3>1, <3>2, <3>5, <3>6, OneCall
  <2>5. CASE /\ probing = Nobody /\ probing' = c
             /\ call' = [call EXCEPT ![c] = [Capability!Probe EXCEPT !.revision = revision, !.about = k.from,
                                                           !.observed = (live = k.from)]]
    <3>1. CacheTypes'
      BY <1>0, <2>1, <2>5 DEF CacheTypes, Capability!serviceVars
    <3>2. PICK x : x = [Capability!Probe EXCEPT !.revision = revision, !.about = k.from, !.observed = (live = k.from)]
      OBVIOUS
    <3>3. x = [at |-> "ping", revision |-> revision, about |-> k.from, observed |-> (live = k.from),
               changed |-> FALSE, cli |-> 0]
      BY <3>2 DEF Capability!Probe
    <3>4. k.from \in Capability!Versions /\ 0 \in 0..MaxCli
      BY <1>0, <2>1 DEF Capability!Versions, Capability!CapabilityAssumption
    <3>5. /\ x \in Capability!Probing /\ x.at = "ping" /\ x.revision = revision /\ x.about = k.from
          /\ x.observed => live = k.from
      <4>1. CASE live = k.from
        <5>1. x = [at |-> "ping", revision |-> revision, about |-> k.from, observed |-> TRUE,
                   changed |-> FALSE, cli |-> 0]
          BY <3>3, <4>1
        <5> QED
          BY <1>0, <3>4, <4>1, <5>1 DEF Capability!Probing
      <4>2. CASE live # k.from
        <5>1. x = [at |-> "ping", revision |-> revision, about |-> k.from, observed |-> FALSE,
                   changed |-> FALSE, cli |-> 0]
          BY <3>3, <4>2
        <5> QED
          BY <1>0, <3>4, <4>2, <5>1 DEF Capability!Probing
      <4> QED
        BY <4>1, <4>2
    <3>6. Capability!ReadBefore(x)' /\ Capability!SameGeneration(x)'
      BY <1>0, <2>1, <3>5 DEF Capability!ReadBefore, Capability!SameGeneration, Capability!serviceVars
    <3>7. \A o \in Askers \ {c} : ~ Probes(call[o])
      BY <2>5, CallTypes DEF Capability!CapabilityAssumption
    <3> QED
      BY <2>2, <2>5, <3>1, <3>2, <3>5, <3>6, <3>7, OneCall
  <2> QED
    BY <1>3, <2>3, <2>4, <2>5 DEF Capability!Enter
<1>4. CASE Capability!Ping(c)
  <2>1. PICK b \in {FALSE, daemon # k.about} :
            call' = [call EXCEPT ![c] = [k EXCEPT !.at = "cli", !.changed = b]]
    BY <1>4 DEF Capability!Ping
  <2>2. k \in Capability!Probing /\ probing = c /\ k.at = "ping"
    BY <1>0, <1>4 DEF Capability!Ping, Probes
  <2>3. PICK x : x = [k EXCEPT !.at = "cli", !.changed = b]
    OBVIOUS
  <2>4. b \in BOOLEAN
    BY <2>1
  <2>5. x = [at |-> "cli", revision |-> k.revision, about |-> k.about, observed |-> k.observed,
             changed |-> b, cli |-> k.cli]
    BY <2>2, <2>3 DEF Capability!Probing
  <2>6. /\ x \in Capability!Probing /\ x.at = "cli" /\ x.revision = k.revision /\ x.about = k.about
        /\ x.observed = k.observed
    BY <2>2, <2>4, <2>5 DEF Capability!Probing
  <2>7. Advances /\ CacheTypes' /\ Capability!EvidenceFits' /\ UNCHANGED <<daemon, revision, live, probing>>
    BY <1>4, CacheStays DEF Capability!Ping
  <2>8. Capability!ReadBefore(x)' /\ Capability!SameGeneration(x)'
    BY <1>0, <2>2, <2>6, <2>7 DEF Capability!ReadBefore, Capability!SameGeneration
  <2> QED
    BY <2>1, <2>2, <2>3, <2>6, <2>7, <2>8, OneCall
<1>5. CASE Capability!ReadCli(c)
  <2>1. PICK seen \in {0, cli} : call' = [call EXCEPT ![c] = [k EXCEPT !.at = "finish", !.cli = seen]]
    BY <1>5 DEF Capability!ReadCli
  <2>2. k \in Capability!Probing /\ probing = c /\ k.at = "cli"
    BY <1>0, <1>5 DEF Capability!ReadCli, Probes
  <2>3. PICK x : x = [k EXCEPT !.at = "finish", !.cli = seen]
    OBVIOUS
  <2>4. seen \in 0..MaxCli
    BY <1>0, <2>1 DEF CacheTypes, Capability!CapabilityAssumption
  <2>5. x = [at |-> "finish", revision |-> k.revision, about |-> k.about, observed |-> k.observed,
             changed |-> k.changed, cli |-> seen]
    BY <2>2, <2>3 DEF Capability!Probing
  <2>6. /\ x \in Capability!Probing /\ x.at = "finish" /\ x.revision = k.revision /\ x.about = k.about
        /\ x.observed = k.observed
    BY <2>2, <2>4, <2>5 DEF Capability!Probing
  <2>7. Advances /\ CacheTypes' /\ Capability!EvidenceFits' /\ UNCHANGED <<daemon, revision, live, probing>>
    BY <1>5, CacheStays DEF Capability!ReadCli
  <2>8. Capability!ReadBefore(x)' /\ Capability!SameGeneration(x)'
    BY <1>0, <2>2, <2>6, <2>7 DEF Capability!ReadBefore, Capability!SameGeneration
  <2> QED
    BY <2>1, <2>2, <2>3, <2>6, <2>7, <2>8, OneCall
<1> QED
  BY <1>1, <1>2, <1>3, <1>4, <1>5

\* What a probe says of each feature.
LEMMA FeaturesTyped ==
    ASSUME NEW p, NEW sameProtocol, NEW history, NEW geometry
    PROVE  Capability!Features(p, sameProtocol, history, geometry) \in [Capability!Names -> Capability!States]
<1> DEFINE reviewed == IF p.about \in Reviewed THEN "available" ELSE "unknown"
           terminal == IF p.about \notin Reviewed THEN "unavailable"
                       ELSE IF p.cli = 0 THEN "unknown"
                       ELSE IF sameProtocol THEN "available" ELSE "unavailable"
           scroll == IF p.about \in Reviewed THEN "available" ELSE "unavailable"
           sized == IF geometry = "unsupported" THEN "unavailable" ELSE "unknown"
           lost == p.about \in Reviewed /\ geometry \in {"unsupported", "failed"}
           of(n) == IF p.changed THEN "unknown"
                    ELSE CASE n = "input" -> reviewed
                         []   n = "history" -> IF history = "none" THEN reviewed ELSE Capability!FromOutcome(history)
                         []   n = "preserve_scroll" -> IF lost THEN sized ELSE scroll
                         []   n = "resize" -> IF lost /\ terminal # "unavailable" THEN sized ELSE terminal
                         []   n = "observe" -> IF ~lost THEN IF p.about \in Reviewed THEN "available" ELSE terminal
                                               ELSE IF terminal # "available" /\ sized = "unknown" THEN sized
                                               ELSE terminal
<1>1. Capability!FromOutcome(history) \in Capability!States
  BY DEF Capability!FromOutcome, Capability!States
<1>2. {reviewed, terminal, scroll, sized} \subseteq Capability!States
  BY DEF Capability!States
<1>3. ASSUME NEW n \in Capability!Names PROVE of(n) \in Capability!States
  <2> HIDE DEF reviewed, terminal, scroll, sized, lost
  <2> QED
    BY <1>1, <1>2, <1>3 DEF Capability!Names, Capability!States
<1>4. Capability!Features(p, sameProtocol, history, geometry) = [n \in Capability!Names |-> of(n)]
  BY DEF Capability!Features
<1> HIDE DEF of
<1> QED
  BY <1>3, <1>4

\* The end of a probe.
LEMMA FinishStep ==
    ASSUME Capability!CapabilityAssumption, Capability!CapabilityInv, NEW c \in Askers, Capability!Finish(c)
    PROVE  Capability!CapabilityInv'
<1> USE DEF Capability!Goes, Capability!At
<1> DEFINE p == call[c]
           newCli == p.cli # 0 /\ cliSeen # 0 /\ p.cli # cliSeen
<1>0. /\ p \in Capability!Probing /\ p.at = "finish" /\ probing = c
      /\ Capability!ReadBefore(p) /\ Capability!SameGeneration(p) /\ CacheTypes /\ Capability!EvidenceFits
      /\ daemon \in 1..MaxVersion /\ MaxVersion \in Nat /\ revision \in Nat /\ live \in 0..MaxVersion
  BY CallTypes DEF Capability!Finish, Probes
<1>1. \A o \in Askers \ {c} : ~ Probes(call[o])
  BY <1>0, CallTypes
<1>2. probing' = Nobody /\ UNCHANGED <<daemon, cli>>
  BY DEF Capability!Finish, Capability!serviceVars
<1>3. CASE /\ call' = [call EXCEPT ![c] = [Capability!Idle EXCEPT !.at = "observe", !.from = daemon]]
           /\ UNCHANGED <<revision, live, cliSeen, report, unsupported>>
  <2>1. PICK x : x = [Capability!Idle EXCEPT !.at = "observe", !.from = daemon]
    OBVIOUS
  <2>2. x = Has("observe", daemon)
    BY <2>1 DEF Capability!Idle, Has
  <2>3. call' = [call EXCEPT ![c] = x]
    BY <1>3, <2>1
  <2>4. daemon \in 0..daemon /\ daemon > 0
    BY <1>0
  <2>5. Advances /\ CacheTypes' /\ Capability!EvidenceFits'
    BY <1>0, <1>2, <1>3 DEF Advances, CacheTypes, Capability!EvidenceFits
  <2> QED
    BY <1>1, <2>2, <2>3, <2>4, <2>5, Goes
<1>4. CASE /\ p.revision = revision
           /\ revision' = IF newCli THEN revision + 1 ELSE revision
           /\ unsupported' = IF newCli THEN {} ELSE unsupported
           /\ cliSeen' = IF p.cli # 0 THEN p.cli ELSE cliSeen
           /\ \/ UNCHANGED report
              \/ \E features : /\ features \in [Capability!Names -> Capability!States]
                               /\ report' = [about |-> p.about, observed |-> p.observed, features |-> features]
           /\ call' = [call EXCEPT ![c] = Capability!Idle] /\ UNCHANGED live
  <2>1. p.about \in Capability!Versions /\ p.observed \in BOOLEAN /\ p.cli \in 0..MaxCli /\ (p.observed => p.about = live)
    BY <1>0, <1>4 DEF Capability!Probing, Capability!SameGeneration
  <2>2. Advances
    BY <1>2, <1>4 DEF Advances
  <2>3. report' # Nobody => \/ report' = report
                          \/ /\ report' \in [about : Capability!Versions, observed : BOOLEAN, features : [Capability!Names -> Capability!States]]
                             /\ report'.observed => report'.about = live
    <3>1. CASE UNCHANGED report
      BY <3>1
    <3>2. ASSUME NEW features \in [Capability!Names -> Capability!States],
                 report' = [about |-> p.about, observed |-> p.observed, features |-> features]
          PROVE  /\ report' \in [about : Capability!Versions, observed : BOOLEAN, features : [Capability!Names -> Capability!States]]
                 /\ report'.observed => report'.about = live
      BY <2>1, <3>2
    <3> QED
      BY <1>4, <3>1, <3>2
  <2>4. CacheTypes'
    BY <1>0, <1>2, <1>4, <2>1, <2>3 DEF CacheTypes
  <2>5. Capability!EvidenceFits'
    BY <1>0, <1>2, <1>4, <2>3 DEF Capability!EvidenceFits
  <2> QED
    BY <1>1, <1>4, <2>2, <2>4, <2>5, IdleGoes
<1>5. ASSUME NEW known \in [Capability!Names -> Capability!States], NEW names
      PROVE  Capability!Refuse(known, names) \in [Capability!Names -> Capability!States]
  BY <1>5 DEF Capability!Refuse, Capability!States
<1>6. ASSUME NEW sameProtocol \in BOOLEAN, NEW history \in Capability!Outcomes, NEW geometry \in Capability!Outcomes, NEW pane \in BOOLEAN
      PROVE  (IF pane THEN Capability!Features(p, sameProtocol, history, geometry)
              ELSE Capability!Features(p, sameProtocol, "none", "none")) \in [Capability!Names -> Capability!States]
  BY FeaturesTyped
<1>7. CASE /\ ~ Capability!Overtaken(p)
           /\ revision' = IF newCli THEN revision + 1 ELSE revision
           /\ unsupported' = IF newCli THEN {} ELSE unsupported
           /\ cliSeen' = IF p.cli # 0 THEN p.cli ELSE cliSeen
           /\ \/ UNCHANGED report
              \/ \E sameProtocol \in BOOLEAN, history \in Capability!Outcomes, geometry \in Capability!Outcomes, pane \in BOOLEAN :
                    report' = [about |-> p.about, observed |-> p.observed,
                               features |-> Capability!Refuse(IF pane THEN Capability!Features(p, sameProtocol, history, geometry)
                                                    ELSE Capability!Features(p, sameProtocol, "none", "none"),
                                                    {e.name : e \in unsupported'})]
           /\ call' = [call EXCEPT ![c] = Capability!Idle] /\ UNCHANGED live
  <2>1. p.revision = revision
    BY <1>7 DEF Capability!Overtaken
  <2>2. \/ UNCHANGED report
        \/ \E features : /\ features \in [Capability!Names -> Capability!States]
                         /\ report' = [about |-> p.about, observed |-> p.observed, features |-> features]
    BY <1>5, <1>6, <1>7
  <2> QED
    BY <1>4, <1>7, <2>1, <2>2
<1>8. Capability!Overtaken(p) => /\ call' = [call EXCEPT ![c] = [Capability!Idle EXCEPT !.at = "observe", !.from = daemon]]
                       /\ UNCHANGED <<revision, live, cliSeen, report, unsupported>>
  BY DEF Capability!Finish
<1> QED
  BY <1>3, <1>7, <1>8 DEF Capability!Finish

\* Every step keeps what is known of the callers and of the evidence.
LEMMA CapabilityInvStep ==
    ASSUME Capability!CapabilityAssumption, Capability!CapabilityInv,
           [Capability!CapabilityNext]_(Capability!capabilityVars)
    PROVE  Capability!CapabilityInv'
<1>1. ASSUME NEW c \in Askers,
             \/ Capability!BeginCall(c) \/ Capability!Answer(c) \/ Capability!EndCall(c) \/ Capability!Snapshot(c) \/ Capability!EndSnapshot(c)
             \/ Capability!Report(c) \/ Capability!Woken(c) \/ Capability!ObserveFirst(c) \/ Capability!Enter(c) \/ Capability!Ping(c) \/ Capability!ReadCli(c) \/ Capability!Finish(c)
      PROVE  Capability!CapabilityInv'
  BY <1>1, CallSteps, ReportSteps, FinishStep
<1>2. CASE Capability!Replace \/ Capability!Install \/ Capability!Expire \/ UNCHANGED Capability!capabilityVars
  <2>1. /\ CacheTypes /\ Capability!EvidenceFits /\ call' = call /\ UNCHANGED <<revision, live, probing>>
        /\ daemon' \in {daemon, daemon + 1} /\ UNCHANGED <<cliSeen, unsupported>> /\ report' \in {report, Nobody}
    BY <1>2, CapabilityInvMeans DEF Capability!Replace, Capability!Install, Capability!Expire,
       Capability!capabilityVars, Capability!cacheVars, Capability!serviceVars
  <2>2. daemon' \in Capability!Versions /\ cli' \in 1..MaxCli
    BY <1>2, <2>1 DEF Capability!Replace, Capability!Install, Capability!Expire, Capability!capabilityVars,
       Capability!cacheVars, Capability!serviceVars, CacheTypes,
       Capability!Versions, Capability!CapabilityAssumption
  <2>3. Advances
    BY <2>1 DEF Advances
  <2>4. CacheTypes'
    BY <2>1, <2>2 DEF CacheTypes
  <2>5. Capability!EvidenceFits'
    BY <2>1, <2>2 DEF Capability!EvidenceFits, CacheTypes, Capability!Versions
  <2>6. \A o \in Askers : Capability!CallFits(o)'
    BY <2>1, <2>3, <2>4, OthersFit
  <2> QED
    BY <2>1, <2>4, <2>5, <2>6, CapabilityInvMeans DEF Capability!CapabilityInv, Capability!CapabilityTypeOK, CacheTypes
<1> QED
  BY <1>1, <1>2 DEF Capability!CapabilityNext

\* What callers have read fits what is cached, always.
THEOREM CapabilityInvariance == ASSUME Capability!CapabilityAssumption PROVE Capability!CapabilitySpec => []Capability!CapabilityInv
<1>1. Capability!CapabilityInit => Capability!CapabilityInv
  <2> SUFFICES ASSUME Capability!CapabilityInit PROVE Capability!CapabilityInv
    OBVIOUS
  <2>1. CacheTypes /\ Capability!EvidenceFits
    BY DEF Capability!CapabilityInit, CacheTypes, Capability!EvidenceFits, Capability!Versions,
       Capability!CapabilityAssumption
  <2>2. PICK x : x = Has("idle", 0)
    OBVIOUS
  <2>3. call = [c \in Askers |-> x]
    BY <2>2 DEF Capability!CapabilityInit, Capability!Idle, Has
  <2>4. x \in Capability!Reading /\ x.at = "idle" /\ x.revision = 0
    BY <2>2 DEF Has, Capability!Reading, Capability!CapabilityAssumption
  <2>5. Capability!ReadBefore(x) /\ Capability!SameGeneration(x)
    BY <2>1, <2>4 DEF Capability!ReadBefore, Capability!SameGeneration, CacheTypes
  <2>6. \A c \in Askers : Capability!CallFits(c)
    BY <2>3, <2>4, <2>5 DEF Capability!CallFits
  <2> QED
    BY <2>1, <2>3, <2>4, <2>6, CapabilityInvMeans
<1>2. Capability!CapabilityInv /\ [Capability!CapabilityNext]_(Capability!capabilityVars) => Capability!CapabilityInv'
  BY CapabilityInvStep
<1> QED
  BY <1>1, <1>2, PTL DEF Capability!CapabilitySpec

\* The types of the variables hold always (CapabilityCache).
THEOREM CapabilityTypeCorrect == ASSUME Capability!CapabilityAssumption PROVE Capability!CapabilitySpec => []Capability!CapabilityTypeOK
<1>1. Capability!CapabilityInv => Capability!CapabilityTypeOK
  BY DEF Capability!CapabilityInv
<1> QED
  BY <1>1, CapabilityInvariance, PTL

\* Late answers leave nothing of another service in the cache.
THEOREM EvidenceStaysCurrent == ASSUME Capability!CapabilityAssumption PROVE Capability!CapabilitySpec => []EvidenceIsCurrent
<1>1. Capability!CapabilityInv => EvidenceIsCurrent
  <2> SUFFICES ASSUME Capability!CapabilityInv PROVE EvidenceIsCurrent
    OBVIOUS
  <2>1. CacheTypes /\ Capability!EvidenceFits
    BY CapabilityInvMeans
  <2> QED
    BY <2>1 DEF EvidenceIsCurrent, Capability!EvidenceIsCurrent, Capability!EvidenceFits, CacheTypes,
       Capability!Versions
<1> QED
  BY <1>1, CapabilityInvariance, PTL

(***************************************************************************)
(* Terminal stream: sequences of numbers                                   *)
(***************************************************************************)
\* The numbers from a to b are a sequence.
LEMMA BetweenSeq ==
    ASSUME NEW a \in Nat, NEW b \in Int, b + 1 >= a
    PROVE  /\ Between(a, b) \in Seq(Nat) /\ Len(Between(a, b)) = b - a + 1
           /\ \A i \in 1..(b - a + 1) : Between(a, b)[i] = a + i - 1
<1>1. b - a + 1 \in Nat
  OBVIOUS
<1>2. \A i \in 1..(b - a + 1) : a + i - 1 \in Nat
  OBVIOUS
<1> QED
  BY <1>1, <1>2 DEF Between

\* There are none from a to the one before it.
LEMMA BetweenEmpty == ASSUME NEW a \in Nat, NEW b \in Int, b + 1 = a PROVE Between(a, b) = <<>>
BY BetweenSeq

\* There is one from a to a.
LEMMA BetweenOne == ASSUME NEW a \in Nat PROVE Between(a, a) = <<a>>
<1>1. Between(a, a) \in Seq(Nat) /\ Len(Between(a, a)) = 1 /\ Between(a, a)[1] = a
  <2>1. a \in Int /\ a + 1 >= a /\ a - a + 1 = 1 /\ 1 \in 1..1 /\ a + 1 - 1 = a
    OBVIOUS
  <2>2. /\ Between(a, a) \in Seq(Nat) /\ Len(Between(a, a)) = a - a + 1
        /\ \A i \in 1..(a - a + 1) : Between(a, a)[i] = a + i - 1
    BY <2>1, BetweenSeq
  <2> QED
    BY <2>1, <2>2
<1> QED
  BY <1>1

\* Those up to b and those after it.
LEMMA BetweenJoin ==
    ASSUME NEW a \in Nat, NEW b \in Int, NEW c \in Int, b + 1 >= a, c >= b
    PROVE  Between(a, b) \o Between(b + 1, c) = Between(a, c)
<1> DEFINE s == Between(a, b)  t == Between(b + 1, c)  u == Between(a, c)
<1>1. /\ s \in Seq(Nat) /\ Len(s) = b - a + 1 /\ \A i \in 1..(b - a + 1) : s[i] = a + i - 1
      /\ t \in Seq(Nat) /\ Len(t) = c - b /\ \A i \in 1..(c - b) : t[i] = b + i
      /\ u \in Seq(Nat) /\ Len(u) = c - a + 1 /\ \A i \in 1..(c - a + 1) : u[i] = a + i - 1
  <2>1. b + 1 \in Nat /\ c + 1 >= b + 1 /\ c + 1 >= a
    OBVIOUS
  <2>2. /\ t \in Seq(Nat) /\ Len(t) = c - (b + 1) + 1
        /\ \A i \in 1..(c - (b + 1) + 1) : t[i] = (b + 1) + i - 1
    BY <2>1, BetweenSeq
  <2>3. c - (b + 1) + 1 = c - b /\ \A i \in Int : (b + 1) + i - 1 = b + i
    OBVIOUS
  <2>4. t \in Seq(Nat) /\ Len(t) = c - b /\ \A i \in 1..(c - b) : t[i] = b + i
    BY <2>2, <2>3
  <2> QED
    BY <2>1, <2>4, BetweenSeq
<1> HIDE DEF s, t, u
<1>2. PICK v : v = s \o t
  OBVIOUS
<1>3. v \in Seq(Nat) /\ Len(v) = c - a + 1
  BY <1>1, <1>2
<1>4. ASSUME NEW i \in 1..(c - a + 1) PROVE v[i] = u[i]
  <2>1. i \in Int /\ b - a + 1 \in Int
    BY <1>4
  <2>2. CASE i <= b - a + 1
    BY <1>1, <1>2, <1>4, <2>2
  <2>3. CASE ~ (i <= b - a + 1)
    <3>1. v[i] = t[i - Len(s)] /\ i - Len(s) \in 1..(c - b)
      BY <1>1, <1>2, <1>4, <2>1, <2>3
    <3> QED
      BY <1>1, <1>4, <3>1
  <2> QED
    BY <2>2, <2>3
<1>5. v = u
  <2>1. \A i \in 1..(c - a + 1) : v[i] = u[i]
    BY <1>4
  <2>2. Len(v) = Len(u) /\ \A i \in 1..Len(v) : v[i] = u[i]
    BY <1>1, <1>3, <2>1
  <2>3. u \in Seq(Nat)
    BY <1>1
  <2> QED
    BY <1>3, <2>2, <2>3
<1> QED
  BY <1>2, <1>5 DEF s, t, u

\* The first k of them, and the others.
LEMMA BetweenCut ==
    ASSUME NEW a \in Nat, NEW b \in Int, NEW k \in Nat, k <= b - a + 1
    PROVE  /\ SubSeq(Between(a, b), 1, k) = Between(a, a + k - 1)
           /\ SubSeq(Between(a, b), k + 1, Len(Between(a, b))) = Between(a + k, b)
<1> DEFINE s == Between(a, b)  t == Between(a, a + k - 1)  u == Between(a + k, b)
<1>1. /\ s \in Seq(Nat) /\ Len(s) = b - a + 1 /\ \A i \in 1..(b - a + 1) : s[i] = a + i - 1
      /\ t \in Seq(Nat) /\ Len(t) = k /\ \A i \in 1..k : t[i] = a + i - 1
      /\ u \in Seq(Nat) /\ Len(u) = b - a - k + 1 /\ \A i \in 1..(b - a - k + 1) : u[i] = a + k + i - 1
  <2>1. a + k \in Nat /\ a + k - 1 \in Int /\ (a + k - 1) + 1 >= a /\ b + 1 >= a + k /\ b + 1 >= a
    OBVIOUS
  <2>2. /\ t \in Seq(Nat) /\ Len(t) = (a + k - 1) - a + 1
        /\ \A i \in 1..((a + k - 1) - a + 1) : t[i] = a + i - 1
    BY <2>1, BetweenSeq
  <2>3. /\ u \in Seq(Nat) /\ Len(u) = b - (a + k) + 1
        /\ \A i \in 1..(b - (a + k) + 1) : u[i] = (a + k) + i - 1
    BY <2>1, BetweenSeq
  <2>4. (a + k - 1) - a + 1 = k /\ b - (a + k) + 1 = b - a - k + 1
    OBVIOUS
  <2> QED
    BY <2>1, <2>2, <2>3, <2>4, BetweenSeq
<1> HIDE DEF s, t, u
<1>2. SubSeq(s, 1, k) = t
  BY <1>1
<1>3. SubSeq(s, k + 1, Len(s)) = u
  BY <1>1
<1> QED
  BY <1>2, <1>3 DEF s, t, u

(***************************************************************************)
(* What the browser shows                                                  *)
(***************************************************************************)
outVars == <<frames, pending, held, loop, image>>

\* Steps that touch no frame.
LEMMA OutputStays == ASSUME OutputFits, UNCHANGED outVars PROVE OutputFits'
BY DEF OutputFits, outVars, ImageFits, Carries, LastFull

\* One more frame changes nothing of the earlier ones.
LEMMA FramesGrow ==
    ASSUME frames \in Seq(BOOLEAN), NEW full \in BOOLEAN, frames' = Append(frames, full)
    PROVE  /\ Len(frames) \in Nat /\ Len(frames') = Len(frames) + 1 /\ frames' \in Seq(BOOLEAN)
           /\ frames'[Len(frames) + 1] = full
           /\ \A i \in 1..Len(frames) : frames'[i] = frames[i]
           /\ \A n \in 1..Len(frames), f \in 1..Len(frames) : LastFull(f, n) => LastFull(f, n)'
<1>1. /\ Len(frames) \in Nat /\ Len(frames') = Len(frames) + 1 /\ frames' \in Seq(BOOLEAN)
      /\ frames'[Len(frames) + 1] = full
      /\ \A i \in 1..Len(frames) : frames'[i] = frames[i]
  OBVIOUS
<1>2. ASSUME NEW n \in 1..Len(frames), NEW f \in 1..Len(frames), LastFull(f, n) PROVE LastFull(f, n)'
  <2>1. ASSUME NEW g \in (f + 1)..n PROVE ~ frames'[g]
    BY <1>1, <1>2, <2>1 DEF LastFull
  <2> QED
    BY <1>1, <1>2, <2>1 DEF LastFull
<1> QED
  BY <1>1, <1>2

\* A full frame carries all of a screen.
LEMMA FullCarries ==
    ASSUME frames \in Seq(BOOLEAN), frames' = Append(frames, TRUE),
           NEW x, x = [seq |-> Len(frames) + 1, full |-> TRUE, body |-> <<Len(frames) + 1>>]
    PROVE  Carries(x)'
<1>1. PICK n \in Nat : n = Len(frames) + 1 /\ n >= 1
  BY FramesGrow
<1>2. Len(frames') = n /\ frames'[n] = TRUE
  BY <1>1, FramesGrow
<1>3. Between(n, n) = <<n>>
  BY <1>1, BetweenOne
<1>4. x = [seq |-> n, full |-> TRUE, body |-> <<n>>]
  BY <1>1
<1>5. x.full = TRUE /\ x = [seq |-> n, full |-> x.full, body |-> Between(n, n)]
  <2>1. x.full = TRUE
    BY <1>4
  <2>2. x = [seq |-> n, full |-> TRUE, body |-> Between(n, n)]
    BY <1>3, <1>4, Zenon
  <2> QED
    BY <2>1, <2>2
<1>6. LastFull(n, n)'
  <2>1. n \in 1..n /\ (n + 1)..n = {}
    BY <1>1
  <2> QED
    BY <1>2, <2>1 DEF LastFull
<1>7. n \in 1..Len(frames')
  BY <1>1, <1>2
<1>8. \E a \in 1..n : /\ x = [seq |-> n, full |-> x.full, body |-> Between(a, n)]
                      /\ x.full \in BOOLEAN
                      /\ x.full => LastFull(a, n)'
                      /\ ~ x.full => image' # Blank /\ a = image'.seq + 1 /\ \A g \in a..n : ~ frames'[g]
  BY <1>2, <1>5, <1>6, <1>7
<1> QED
  BY <1>2, <1>8 DEF Carries, LastFull

\* A frame that follows another one carries what that one does and itself.
LEMMA MergedCarries ==
    ASSUME frames \in Seq(BOOLEAN), frames' = Append(frames, FALSE), NEW old, Carries(old), UNCHANGED image,
           NEW x, x = [seq |-> Len(frames) + 1, full |-> old.full, body |-> old.body \o <<Len(frames) + 1>>]
    PROVE  Carries(x)'
<1>0. PICK n \in Nat : n = Len(frames)
  BY FramesGrow
<1>1. /\ Len(frames') = n + 1 /\ frames'[n + 1] = FALSE
      /\ \A i \in 1..n : frames'[i] = frames[i]
  BY <1>0, FramesGrow
<1>2. PICK a \in 1..n : /\ old = [seq |-> n, full |-> old.full, body |-> Between(a, n)]
                        /\ old.full \in BOOLEAN
                        /\ old.full => LastFull(a, n)
                        /\ ~ old.full => image # Blank /\ a = image.seq + 1 /\ \A g \in a..n : ~ frames[g]
  BY <1>0 DEF Carries
<1>3. old.body = Between(a, n)
  BY <1>2
<1>4. Between(a, n) \o <<n + 1>> = Between(a, n + 1)
  <2>1. a \in Nat /\ n \in Int /\ n + 1 \in Int /\ n + 1 >= a /\ n + 1 >= n /\ n + 1 \in Nat
    BY <1>0, <1>2
  <2> QED
    BY <2>1, BetweenJoin, BetweenOne
<1>5. x = [seq |-> n + 1, full |-> old.full, body |-> Between(a, n + 1)] /\ x.full = old.full
  BY <1>0, <1>3, <1>4
<1>6. ASSUME NEW g \in 1..(n + 1), g \in 1..n => ~ frames[g] PROVE ~ frames'[g]
  <2>1. CASE g = n + 1
    BY <1>1, <2>1
  <2>2. CASE g # n + 1
    <3>1. g \in 1..n
      BY <2>2, SMT
    <3>2. frames'[g] = frames[g] /\ ~ frames[g]
      BY <1>0, <1>1, <1>6, <3>1
    <3> QED
      BY <3>2
  <2> QED
    BY <2>1, <2>2
<1>7. ASSUME old.full PROVE LastFull(a, n + 1)'
  <2>1. frames'[a] /\ a \in 1..(n + 1)
    BY <1>0, <1>1, <1>2, <1>7 DEF LastFull
  <2>2. ASSUME NEW g \in (a + 1)..(n + 1) PROVE ~ frames'[g]
    BY <1>0, <1>2, <1>6, <1>7, <2>2 DEF LastFull
  <2> QED
    BY <2>1, <2>2 DEF LastFull
<1>8. ASSUME ~ old.full PROVE image' # Blank /\ a = image'.seq + 1 /\ \A g \in a..(n + 1) : ~ frames'[g]
  <2>1. ASSUME NEW g \in a..(n + 1) PROVE ~ frames'[g]
    BY <1>0, <1>2, <1>6, <1>8, <2>1
  <2> QED
    BY <1>2, <1>8, <2>1
<1>9. a \in 1..(n + 1)
  BY <1>0, <1>2
<1>10. \E b \in 1..(n + 1) : /\ x = [seq |-> n + 1, full |-> x.full, body |-> Between(b, n + 1)]
                             /\ x.full \in BOOLEAN
                             /\ x.full => LastFull(b, n + 1)'
                             /\ ~ x.full => image' # Blank /\ b = image'.seq + 1 /\ \A g \in b..(n + 1) : ~ frames'[g]
  BY <1>2, <1>5, <1>7, <1>8, <1>9
<1> QED
  BY <1>1, <1>10 DEF Carries, LastFull

\* A frame that follows the browser's image carries itself.
LEMMA NextCarries ==
    ASSUME frames \in Seq(BOOLEAN), frames' = Append(frames, FALSE), UNCHANGED image,
           image # Blank, image.seq = Len(frames),
           NEW x, x = [seq |-> Len(frames) + 1, full |-> FALSE, body |-> <<Len(frames) + 1>>]
    PROVE  Carries(x)'
<1>1. PICK n \in Nat : n = Len(frames) + 1 /\ n >= 1
  BY FramesGrow
<1>2. Len(frames') = n /\ frames'[n] = FALSE
  BY <1>1, FramesGrow
<1>3. Between(n, n) = <<n>>
  BY <1>1, BetweenOne
<1>4. x = [seq |-> n, full |-> FALSE, body |-> <<n>>]
  BY <1>1
<1>5. x.full = FALSE /\ x = [seq |-> n, full |-> x.full, body |-> Between(n, n)]
  <2>1. x.full = FALSE
    BY <1>4
  <2>2. x = [seq |-> n, full |-> FALSE, body |-> Between(n, n)]
    BY <1>3, <1>4, Zenon
  <2> QED
    BY <2>1, <2>2
<1>6. n = image'.seq + 1 /\ image' # Blank /\ \A g \in n..n : ~ frames'[g]
  BY <1>1, <1>2 DEF Blank
<1>7. n \in 1..n
  BY <1>1
<1>8. \E a \in 1..n : /\ x = [seq |-> n, full |-> x.full, body |-> Between(a, n)]
                      /\ x.full \in BOOLEAN
                      /\ x.full => LastFull(a, n)'
                      /\ ~ x.full => image' # Blank /\ a = image'.seq + 1 /\ \A g \in a..n : ~ frames'[g]
  BY <1>5, <1>6, <1>7
<1> QED
  BY <1>2, <1>8 DEF Carries, LastFull

\* What Carries says of a frame is said of the variable that holds it.
LEMMA Carried ==
    ASSUME NEW x, Carries(x)'
    PROVE  /\ pending' = x => Carries(pending)'
           /\ held' = x => Carries(held)'
BY DEF Carries, LastFull

\* Herdr's next frame, merged with the one that waits, is one on its way.
LEMMA TakeCarries ==
    ASSUME OutputFits, loop = "read", NEW full \in BOOLEAN, frames' = Append(frames, full), UNCHANGED image,
           ~ \A i \in DOMAIN frames' : ~ frames'[i],
           NEW frame, frame = [seq |-> Len(frames) + 1, full |-> full, body |-> <<Len(frames) + 1>>],
           NEW x, x = IF pending # Nothing THEN Merge(pending, frame) ELSE frame
    PROVE  Carries(x)'
<1>1. frames \in Seq(BOOLEAN)
  BY DEF OutputFits
<1>2. CASE full
  <2>1. full = TRUE /\ frame.full = TRUE
    BY <1>2
  <2>2. Merge(pending, frame) = frame
    BY <2>1 DEF Merge
  <2>3. x = frame
    BY <2>2
  <2>4. x = [seq |-> Len(frames) + 1, full |-> TRUE, body |-> <<Len(frames) + 1>>]
    BY <2>1, <2>3
  <2> QED
    BY <1>1, <2>1, <2>4, FullCarries
<1>3. CASE ~ full /\ pending # Nothing
  <2>1. full = FALSE /\ Carries(pending)
    BY <1>3 DEF OutputFits
  <2>2. PICK old : old = pending
    OBVIOUS
  <2>3. PICK m : m = [frame EXCEPT !.full = old.full, !.body = old.body \o frame.body]
    OBVIOUS
  <2>4. Merge(pending, frame) = m
    <3>1. frame.full = FALSE
      BY <2>1
    <3> QED
      BY <2>2, <2>3, <3>1, Zenon DEF Merge
  <2>5. m = [seq |-> Len(frames) + 1, full |-> old.full, body |-> old.body \o <<Len(frames) + 1>>]
    BY <2>3
  <2>6. x = m
    BY <1>3, <2>4
  <2>7. Carries(old)
    BY <2>1, <2>2
  <2>8. x = [seq |-> Len(frames) + 1, full |-> old.full, body |-> old.body \o <<Len(frames) + 1>>]
    BY <2>5, <2>6
  <2> QED
    BY <1>1, <2>1, <2>7, <2>8, MergedCarries
<1>4. CASE ~ full /\ pending = Nothing
  <2>1. full = FALSE
    BY <1>4
  <2>2. image # Blank /\ image.seq = Len(frames)
    <3>1. PICK i \in DOMAIN frames' : frames'[i]
      OBVIOUS
    <3>2. i \in 1..(Len(frames) + 1) /\ i # Len(frames) + 1
      BY <1>1, <2>1, <3>1, FramesGrow
    <3>3. i \in 1..Len(frames)
      BY <1>1, <3>2
    <3>4. frames[i]
      BY <1>1, <3>1, <3>3, FramesGrow
    <3> QED
      BY <1>4, <3>3, <3>4 DEF OutputFits
  <2>3. x = [seq |-> Len(frames) + 1, full |-> FALSE, body |-> <<Len(frames) + 1>>]
    BY <1>4, <2>1
  <2> QED
    BY <1>1, <2>1, <2>2, <2>3, NextCarries
<1> QED
  BY <1>2, <1>3, <1>4

\* The browser's image stays one of Herdr's screens.
LEMMA ImageStays ==
    ASSUME frames \in Seq(BOOLEAN), ImageFits, UNCHANGED image, NEW full \in BOOLEAN, frames' = Append(frames, full)
    PROVE  ImageFits'
<1> SUFFICES ASSUME image # Blank PROVE ImageFits'
  BY DEF ImageFits, Blank
<1>1. PICK f \in 1..Len(frames) : /\ image.seq \in 1..Len(frames) /\ LastFull(f, image.seq)
                                 /\ image = [seq |-> image.seq, body |-> Between(f, image.seq)]
  BY DEF ImageFits
<1>2. PICK n : n = image.seq
  OBVIOUS
<1>3. LastFull(f, n)'
  BY <1>1, <1>2, FramesGrow
<1>4. f \in 1..Len(frames') /\ n \in 1..Len(frames')
  <2>1. Len(frames) \in Nat /\ Len(frames') = Len(frames) + 1
    BY FramesGrow
  <2> QED
    BY <1>1, <1>2, <2>1
<1>5. image' = [seq |-> n, body |-> Between(f, n)] /\ image'.seq = n
  BY <1>1, <1>2
<1> QED
  BY <1>3, <1>4, <1>5 DEF ImageFits, LastFull

\* A frame of Herdr is skipped, held, merged or sent.
LEMMA TakeFits ==
    ASSUME OutputFits, NEW full \in BOOLEAN, Take(full) PROVE OutputFits'
<1> PICK frame : frame = [seq |-> Len(frames) + 1, full |-> full, body |-> <<Len(frames) + 1>>]
  OBVIOUS
<1>1. /\ loop = "read" /\ frames' = Append(frames, full) /\ UNCHANGED image
      /\ IF \A i \in DOMAIN frames' : ~frames'[i] THEN UNCHANGED <<pending, held, loop>>
         ELSE IF pending # Nothing
         THEN IF SizeOf(Merge(pending, frame)) >= MergeLimit THEN SendNow(Merge(pending, frame)) ELSE Hold(Merge(pending, frame))
         ELSE Hold(frame) \/ SendNow(frame)
  BY Zenon DEF Take
<1>2. frames \in Seq(BOOLEAN) /\ ImageFits /\ held = Nothing
  BY <1>1 DEF OutputFits
<1>3. frames' \in Seq(BOOLEAN) /\ ImageFits'
  BY <1>1, <1>2, FramesGrow, ImageStays
<1>4. CASE \A i \in DOMAIN frames' : ~ frames'[i]
  <2>1. \A g \in 1..Len(frames) : ~ frames[g]
    <3> SUFFICES ASSUME NEW g \in 1..Len(frames) PROVE ~ frames[g]
      OBVIOUS
    <3>1. Len(frames) \in Nat /\ Len(frames') = Len(frames) + 1 /\ frames'[g] = frames[g] /\ frames' \in Seq(BOOLEAN)
      BY <1>1, <1>2, FramesGrow
    <3>2. g \in DOMAIN frames'
      BY <3>1
    <3> QED
      BY <1>4, <3>1, <3>2
  <2>2. \A f, n : ~ (f \in 1..Len(frames) /\ LastFull(f, n))
    BY <2>1 DEF LastFull
  <2>3. image = Blank
    BY <1>2, <2>2 DEF ImageFits
  <2>4. pending = Nothing
    <3> SUFFICES ASSUME Carries(pending) PROVE FALSE
      BY <1>1 DEF OutputFits
    <3> QED
      BY <2>2, <2>3 DEF Carries
  <2>5. \A g \in 1..Len(frames') : ~ frames'[g]
    BY <1>3, <1>4
  <2>6. UNCHANGED <<pending, held, loop>>
    BY <1>1, <1>4
  <2> QED
    BY <1>1, <1>2, <1>3, <2>3, <2>4, <2>5, <2>6 DEF OutputFits
<1>5. CASE ~ \A i \in DOMAIN frames' : ~ frames'[i]
  <2>1. PICK x : x = IF pending # Nothing THEN Merge(pending, frame) ELSE frame
    OBVIOUS
  <2>2. Carries(x)'
    BY <1>1, <1>5, <2>1, TakeCarries
  <2>3. x # Nothing
    <3>1. PICK n \in Nat : n = Len(frames') /\ n >= 1
      BY <1>1, <1>2, FramesGrow
    <3>2. x.seq = n
      BY <2>2, <3>1 DEF Carries
    <3>3. Nothing.seq = 0
      BY DEF Nothing
    <3> QED
      BY <3>1, <3>2, <3>3
  <2>4. \/ pending' = x /\ UNCHANGED <<held, loop>>
        \/ held' = x /\ pending' = Nothing /\ loop' = "reserve"
    BY <1>1, <1>5, <2>1, Zenon DEF SendNow, Hold
  <2>5. CASE pending' = x /\ UNCHANGED <<held, loop>>
    <3>1. Carries(pending)' /\ pending' # Nothing /\ held' = Nothing /\ loop' = "read"
      BY <1>1, <1>2, <2>2, <2>3, <2>5, Carried
    <3> QED
      BY <1>3, <3>1 DEF OutputFits, Nothing
  <2>6. CASE held' = x /\ pending' = Nothing /\ loop' = "reserve"
    <3>1. Carries(held)'
      BY <2>2, <2>6, Carried
    <3> QED
      BY <1>3, <2>6, <3>1 DEF OutputFits, Nothing
  <2> QED
    BY <2>4, <2>5, <2>6
<1> QED
  BY <1>4, <1>5

\* A frame that leaves the gate carries the same.
LEMMA MovesOn ==
    ASSUME UNCHANGED <<frames, image>>
    PROVE  /\ ImageFits => ImageFits'
           /\ Carries(pending) /\ held' = pending => Carries(held)'
           /\ Carries(held) /\ UNCHANGED held => Carries(held)'
           /\ Carries(pending) /\ UNCHANGED pending => Carries(pending)'
BY DEF ImageFits, Carries, LastFull

\* What the browser shows after a frame is the screen of that frame.
LEMMA WriteFits ==
    ASSUME OutputFits, Write PROVE OutputFits'
<1>1. /\ loop = "write" /\ held' = Nothing /\ UNCHANGED <<frames, pending>>
      /\ (image' = Shows(held) /\ loop' = "read") \/ (UNCHANGED image /\ loop' = "close")
  BY DEF Write
<1>2. frames \in Seq(BOOLEAN) /\ ImageFits /\ pending = Nothing /\ Carries(held)
  BY <1>1 DEF OutputFits
<1>3. CASE UNCHANGED image /\ loop' = "close"
  <2>1. ImageFits'
    BY <1>1, <1>2, <1>3, MovesOn
  <2> QED
    BY <1>1, <1>2, <1>3, <2>1 DEF OutputFits
<1>4. CASE image' = Shows(held) /\ loop' = "read"
  <2>0. PICK n \in Nat : n = Len(frames)
    BY <1>2
  <2>1. PICK a \in 1..n : /\ held = [seq |-> n, full |-> held.full, body |-> Between(a, n)]
                          /\ held.full \in BOOLEAN
                          /\ held.full => LastFull(a, n)
                          /\ ~ held.full => image # Blank /\ a = image.seq + 1 /\ \A g \in a..n : ~ frames[g]
    BY <1>2, <2>0 DEF Carries
  <2>2. held.seq = n /\ held.body = Between(a, n)
    BY <2>1
  <2>3. \E f \in 1..n : LastFull(f, n) /\ image' = [seq |-> n, body |-> Between(f, n)]
    <3>1. CASE held.full
      BY <1>4, <2>1, <2>2, <3>1 DEF Shows
    <3>2. CASE ~ held.full
      <4>1. PICK f \in 1..n : /\ image.seq \in 1..n /\ LastFull(f, image.seq)
                              /\ image = [seq |-> image.seq, body |-> Between(f, image.seq)]
        BY <1>2, <2>0, <2>1, <3>2 DEF ImageFits
      <4>2. PICK b \in 1..n : b = image.seq /\ a = b + 1 /\ image.body = Between(f, b) /\ LastFull(f, b)
        BY <2>1, <3>2, <4>1
      <4>3. Between(f, b) \o Between(a, n) = Between(f, n)
        <5>1. f \in Nat /\ b \in Int /\ n \in Int /\ b + 1 >= f /\ n >= b
          BY <4>2 DEF LastFull
        <5> QED
          BY <4>2, <5>1, BetweenJoin
      <4>4. LastFull(f, n)
        <5>1. ASSUME NEW g \in (f + 1)..n PROVE ~ frames[g]
          <6>1. CASE g \in (f + 1)..b
            BY <4>2, <6>1 DEF LastFull
          <6>2. CASE g \in a..n
            BY <2>1, <3>2, <6>2
          <6>3. g \in (f + 1)..b \/ g \in a..n
            BY <4>2, <5>1
          <6> QED
            BY <6>1, <6>2, <6>3
        <5> QED
          BY <4>2, <5>1 DEF LastFull
      <4>5. image' = [seq |-> n, body |-> Between(f, n)]
        BY <1>4, <2>2, <3>2, <4>2, <4>3 DEF Shows
      <4> QED
        BY <4>4, <4>5
    <3> QED
      BY <3>1, <3>2
  <2>4. PICK f \in 1..n : LastFull(f, n) /\ image' = [seq |-> n, body |-> Between(f, n)]
    BY <2>3
  <2>5. image'.seq = n /\ n \in 1..n /\ Len(frames') = n /\ n # 0
    BY <1>1, <2>0, <2>4
  <2>6. image' # Blank
    BY <2>5 DEF Blank
  <2>7. ImageFits'
    BY <1>1, <2>4, <2>5 DEF ImageFits, LastFull
  <2> QED
    BY <1>1, <1>2, <1>4, <2>5, <2>6, <2>7 DEF OutputFits, Blank
<1> QED
  BY <1>1, <1>3, <1>4

\* Every other step of the output loop.
LEMMA OutputMoves ==
    ASSUME OutputFits, Gate \/ SourceClosed \/ Reserve \/ Woken \/ GiveUp \/ Detach \/ OutputEnds PROVE OutputFits'
<1>1. frames \in Seq(BOOLEAN) /\ ImageFits /\ UNCHANGED <<frames, image>>
  BY DEF OutputFits, Gate, SourceClosed, Reserve, Woken, GiveUp, Detach, OutputEnds
<1>2. ImageFits' /\ frames' \in Seq(BOOLEAN)
  BY <1>1, MovesOn
<1>3. CASE loop = "read" /\ pending # Nothing /\ SendNow(pending)
  <2>1. Carries(held)' /\ pending' = Nothing /\ loop' = "reserve"
    BY <1>1, <1>3, MovesOn DEF OutputFits, SendNow
  <2> QED
    BY <1>2, <2>1 DEF OutputFits, Nothing
<1>4. CASE UNCHANGED <<pending, held>> /\ {loop, loop'} \subseteq {"reserve", "wait", "write"}
  <2>1. Carries(held)' /\ pending' = Nothing
    BY <1>1, <1>4, MovesOn DEF OutputFits
  <2> QED
    BY <1>2, <1>4, <2>1 DEF OutputFits, Nothing
<1>5. CASE loop' \in {"close", "cas", "done"}
  BY <1>2, <1>5 DEF OutputFits
<1> QED
  BY <1>3, <1>4, <1>5 DEF Gate, SourceClosed, Reserve, Woken, GiveUp, Detach, OutputEnds

\* Every step keeps what is known of the frames.
LEMMA OutputFitsStep ==
    ASSUME OutputFits, [StreamNext]_streamVars PROVE OutputFits'
<1>1. CASE UNCHANGED outVars
  BY <1>1, OutputStays
<1>2. CASE \E full \in BOOLEAN : Take(full)
  BY <1>2, TakeFits
<1>3. CASE Write
  BY <1>3, WriteFits
<1>4. CASE Gate \/ SourceClosed \/ Reserve \/ Woken \/ GiveUp \/ Detach \/ OutputEnds
  BY <1>4, OutputMoves
<1>5. CASE Runner \/ Ends \/ Deliver \/ SourceEnds \/ EndSession \/ ReadLoop
  <2>1. UNCHANGED outVars
    BY <1>5 DEF Runner, Ends, Deliver, SourceEnds, EndSession, ReadLoop, outVars, outputVars, Type, Finish, AckStep,
       BeginAck, RunnerWakes, RunnerStops, TakeChunk, Runs, CallReturns, CallFails, RunnerFails, Tell, FinishClose,
       CloseStreams
  <2> QED
    BY <2>1, OutputStays
<1>6. CASE UNCHANGED streamVars
  BY <1>6, OutputStays DEF streamVars, outputVars, outVars
<1> QED
  BY <1>2, <1>3, <1>4, <1>5, <1>6 DEF StreamNext, OutputLoop

(***************************************************************************)
(* The credit                                                              *)
(***************************************************************************)
\* An acknowledgement is under way until the loop is woken.
LEMMA AckStays ==
    ASSUME acking \in [seq : Nat, step : {1, 2}], [StreamNext]_streamVars
    PROVE  /\ acking' \in [seq : Nat, step : {1, 2}]
           /\ acking.seq # NoAck => acking'.seq # NoAck \/ creditCh'
<1>1. CASE AckStep
  <2>1. CASE acking.step = 1
    BY <1>1, <2>1 DEF AckStep
  <2>2. CASE acking.step # 1
    BY <1>1, <2>2 DEF AckStep, Acknowledge, WakeLoop, NoAck
  <2> QED
    BY <2>1, <2>2
<1>2. CASE \E i \in 1..MaxFrames : BeginAck(i)
  <2>1. PICK i \in 1..image.seq : acking' = [seq |-> i, step |-> 1] /\ acking.seq = NoAck
    BY <1>2 DEF BeginAck
  <2>2. i \in Nat /\ i # 0
    BY <2>1
  <2> QED
    BY <2>1, <2>2 DEF NoAck
<1>3. CASE UNCHANGED acking
  BY <1>3
<1>4. CASE OutputLoop \/ Runner \/ Ends \/ Deliver \/ SourceEnds \/ EndSession \/ Type \/ Finish
  BY <1>3, <1>4 DEF OutputLoop, Runner, Ends, Deliver, SourceEnds, EndSession, creditVars, Type, Finish, RunnerWakes,
     RunnerStops, TakeChunk, Runs, CallReturns, CallFails, RunnerFails, Tell, FinishClose, CloseStreams, Take, Gate,
     SourceClosed, Reserve, Woken, GiveUp, Write, Detach, OutputEnds
<1>5. CASE UNCHANGED streamVars
  BY <1>3, <1>5 DEF streamVars, creditVars
<1> QED
  BY <1>1, <1>2, <1>4, <1>5 DEF StreamNext, ReadLoop

\* Credit that comes back is seen by the loop that waits for it.
LEMMA NoLostWakeStep ==
    ASSUME NoLostWake, acking \in [seq : Nat, step : {1, 2}], [StreamNext]_streamVars
    PROVE  NoLostWake'
<1> SUFFICES ASSUME loop' = "wait", Room' PROVE creditCh' \/ acking'.seq # NoAck
  BY DEF NoLostWake
<1>1. acking.seq # NoAck => acking'.seq # NoAck \/ creditCh'
  BY AckStays
<1>2. CASE Reserve
  <2>1. ~ Room /\ UNCHANGED <<credits, held>>
    BY <1>2 DEF Reserve
  <2>2. Room' = Room
    BY <2>1 DEF Room
  <2> QED
    BY <2>1, <2>2
<1>3. CASE AckStep
  <2>1. acking.seq # NoAck
    BY <1>3 DEF AckStep
  <2> QED
    BY <1>1, <2>1
<1>4. CASE \E i \in 1..MaxFrames : BeginAck(i)
  <2>1. PICK i \in 1..image.seq : acking' = [seq |-> i, step |-> 1]
    BY <1>4 DEF BeginAck
  <2> QED
    BY <2>1 DEF NoAck
<1>5. CASE UNCHANGED <<loop, held, credits, creditCh>>
  <2>1. Room' = Room
    BY <1>5 DEF Room
  <2> QED
    BY <1>1, <1>5, <2>1 DEF NoLostWake
<1>6. CASE \E full \in BOOLEAN : Take(full)
  <2>1. PICK full \in BOOLEAN : Take(full)
    BY <1>6
  <2>2. loop = "read" /\ loop' \in {"read", "reserve"}
    BY <2>1 DEF Take, SendNow, Hold
  <2> QED
    BY <2>2
<1>7. CASE Gate \/ SourceClosed \/ Woken \/ GiveUp \/ Write \/ Detach \/ OutputEnds
  BY <1>7 DEF Gate, SourceClosed, Woken, GiveUp, Write, Detach, OutputEnds, SendNow
<1>8. CASE Runner \/ Ends \/ Deliver \/ SourceEnds \/ EndSession \/ Type \/ Finish
  <2>1. UNCHANGED <<loop, held, credits, creditCh>>
    BY <1>8 DEF Runner, Ends, Deliver, SourceEnds, EndSession, creditVars, outputVars, Type, Finish, RunnerWakes,
       RunnerStops, TakeChunk, Runs, CallReturns, CallFails, RunnerFails, Tell, FinishClose, CloseStreams
  <2> QED
    BY <1>5, <2>1
<1>9. CASE UNCHANGED streamVars
  BY <1>5, <1>9 DEF streamVars, creditVars, outputVars
<1> QED
  BY <1>2, <1>3, <1>4, <1>6, <1>7, <1>8, <1>9 DEF StreamNext, ReadLoop, OutputLoop

(***************************************************************************)
(* Input                                                                   *)
(***************************************************************************)
\* One more number.
LEMMA BetweenAppend ==
    ASSUME NEW a \in Nat, NEW b \in Int, b + 1 >= a PROVE Append(Between(a, b), b + 1) = Between(a, b + 1)
<1> DEFINE s == Between(a, b)  u == Between(a, b + 1)
<1>1. /\ s \in Seq(Nat) /\ Len(s) = b - a + 1 /\ \A i \in 1..(b - a + 1) : s[i] = a + i - 1
  BY BetweenSeq
<1>2. u \in Seq(Nat) /\ Len(u) = b - a + 2 /\ \A i \in 1..(b - a + 2) : u[i] = a + i - 1
  <2>1. b + 1 \in Int /\ (b + 1) + 1 >= a /\ (b + 1) - a + 1 = b - a + 2
    OBVIOUS
  <2> QED
    BY <2>1, BetweenSeq
<1> HIDE DEF s, u
<1>3. PICK v : v = Append(s, b + 1)
  OBVIOUS
<1>4. b + 1 \in Nat
  OBVIOUS
<1>5. v \in Seq(Nat) /\ Len(v) = Len(u) /\ \A i \in 1..Len(v) : v[i] = u[i]
  <2>1. v \in Seq(Nat) /\ Len(v) = b - a + 2
    BY <1>1, <1>3, <1>4
  <2>2. ASSUME NEW i \in 1..(b - a + 2) PROVE v[i] = u[i]
    <3>1. CASE i = b - a + 2
      <4>1. v[i] = b + 1
        BY <1>1, <1>3, <3>1
      <4>2. u[i] = a + (b - a + 2) - 1
        BY <1>2, <3>1
      <4> QED
        BY <4>1, <4>2
    <3>2. CASE i # b - a + 2
      <4>1. i \in 1..(b - a + 1)
        BY <3>2
      <4>2. v[i] = s[i]
        BY <1>1, <1>3, <4>1
      <4> QED
        BY <1>1, <1>2, <4>1, <4>2
    <3> QED
      BY <3>1, <3>2
  <2> QED
    BY <1>2, <2>1, <2>2
<1>6. v = u
  BY <1>2, <1>5
<1> QED
  BY <1>3, <1>6 DEF s, u

\* A queue that was stopped.
LEMMA StoppedIs ==
    ASSUME NEW q,
           q = [pending |-> q.pending, stopped |-> q.stopped, sealed |-> q.sealed, wake |-> q.wake]
    PROVE  Stopped(q) = [pending |-> <<>>, stopped |-> TRUE, sealed |-> q.sealed, wake |-> q.wake]
<1>1. PICK r : r = [q EXCEPT !.stopped = TRUE, !.pending = <<>>]
  OBVIOUS
<1>2. r = [pending |-> <<>>, stopped |-> TRUE, sealed |-> q.sealed, wake |-> q.wake]
  BY <1>1
<1>3. Stopped(q) = r
  BY <1>1, Zenon DEF Stopped
<1> QED
  BY <1>2, <1>3

\* Where the keys are.
Keys(l, t, f, stop) ==
    /\ l \in Nat /\ t \in Nat /\ f \in Nat /\ t + f <= l
    /\ accepted = Between(1, l) /\ typed = Between(1, t) /\ flight = Between(t + 1, t + f)
    /\ Len(accepted) = l /\ Len(typed) = t /\ Len(flight) = f
    /\ queue = [pending |-> IF stop THEN <<>> ELSE Between(t + f + 1, l),
                stopped |-> stop, sealed |-> queue.sealed, wake |-> queue.wake]
    /\ runner \in {"wait", "take"} => f = 0
    /\ runner \in {"fail", "done"} => stop

\* Both ways to say where the keys are.
LEMMA InputFitsMeans ==
    /\ InputFits => Keys(Len(accepted), Len(typed), Len(flight), queue.stopped)
    /\ \A l, t, f, stop : Keys(l, t, f, stop) => InputFits
<1>1. ASSUME InputFits PROVE Keys(Len(accepted), Len(typed), Len(flight), queue.stopped)
  <2>1. Len(<<>>) = 0
    OBVIOUS
  <2> QED
    BY <1>1, <2>1, Zenon DEF InputFits, Keys
<1>2. ASSUME NEW l, NEW t, NEW f, NEW stop, Keys(l, t, f, stop) PROVE InputFits
  <2>1. queue.stopped = stop
    BY <1>2 DEF Keys
  <2>2. f = 0 => flight = <<>>
    <3>1. l \in Nat /\ t \in Nat /\ f \in Nat /\ flight = Between(t + 1, t + f)
      BY <1>2 DEF Keys
    <3>2. f = 0 => t + f = t /\ t + 1 \in Nat /\ t \in Int
      BY <3>1
    <3> QED
      BY <3>1, <3>2, BetweenEmpty
  <2>3. {Len(accepted), Len(typed), Len(flight)} \subseteq Nat /\ Len(typed) + Len(flight) <= Len(accepted)
    BY <1>2 DEF Keys
  <2> QED
    BY <1>2, <2>1, <2>2, <2>3, Zenon DEF InputFits, Keys
<1> QED
  BY <1>1, <1>2

\* After a step too.
LEMMA KeysNext ==
    ASSUME NEW l, NEW t, NEW f, NEW stop, Keys(l, t, f, stop)' PROVE InputFits'
<1>1. queue'.stopped = stop
  BY DEF Keys
<1>2. f = 0 => flight' = <<>>
  <2>1. l \in Nat /\ t \in Nat /\ f \in Nat /\ flight' = Between(t + 1, t + f)
    BY DEF Keys
  <2>2. f = 0 => t + f = t /\ t + 1 \in Nat /\ t \in Int
    BY <2>1
  <2> QED
    BY <2>1, <2>2, BetweenEmpty
<1>3. {Len(accepted'), Len(typed'), Len(flight')} \subseteq Nat /\ Len(typed') + Len(flight') <= Len(accepted')
  BY DEF Keys
<1> QED
  BY <1>1, <1>2, <1>3, Zenon DEF InputFits, Keys

\* Steps that leave the keys where they are.
LEMMA KeysStay ==
    ASSUME NEW l, NEW t, NEW f, NEW stop, Keys(l, t, f, stop),
           UNCHANGED <<accepted, typed, flight>>,
           runner' = runner \/ (runner' \in {"wait", "take"} /\ f = 0) \/ runner' = "call" \/ (runner' \in {"fail", "done"} /\ stop),
           NEW z, NEW w, queue' = [pending |-> queue.pending, stopped |-> queue.stopped, sealed |-> z, wake |-> w]
    PROVE  InputFits'
<1>1. queue.stopped = stop /\ queue.pending = IF stop THEN <<>> ELSE Between(t + f + 1, l)
  BY DEF Keys
<1>2. queue' = [pending |-> IF stop THEN <<>> ELSE Between(t + f + 1, l), stopped |-> stop,
                sealed |-> queue'.sealed, wake |-> queue'.wake]
  <2>1. queue'.sealed = z /\ queue'.wake = w
    OBVIOUS
  <2> QED
    BY <1>1, <2>1
<1>3. Keys(l, t, f, stop)'
  BY <1>2 DEF Keys
<1> QED
  BY <1>3, KeysNext

\* Steps that end the queue: what waited in it is dropped.
LEMMA KeysDropped ==
    ASSUME NEW l, NEW t, NEW f, NEW stop, Keys(l, t, f, stop),
           UNCHANGED <<accepted, typed, flight>>,
           runner' = runner \/ runner' \in {"fail", "done"},
           queue' = Stopped(queue)
    PROVE  InputFits'
<1>1. PICK q : q = queue /\ q = [pending |-> q.pending, stopped |-> q.stopped, sealed |-> q.sealed, wake |-> q.wake]
  BY DEF Keys
<1>2. queue' = [pending |-> <<>>, stopped |-> TRUE, sealed |-> q.sealed, wake |-> q.wake]
  <2>1. Stopped(q) = [pending |-> <<>>, stopped |-> TRUE, sealed |-> q.sealed, wake |-> q.wake]
    BY <1>1, StoppedIs
  <2> QED
    BY <1>1, <2>1
<1>3. queue' = [pending |-> <<>>, stopped |-> TRUE, sealed |-> queue'.sealed, wake |-> queue'.wake]
  BY <1>2
<1>4. Keys(l, t, f, TRUE)'
  BY <1>3 DEF Keys
<1> QED
  BY <1>4, KeysNext

\* A key that the queue takes is the next one.
LEMMA KeyAccepted ==
    ASSUME NEW l, NEW t, NEW f, NEW stop, Keys(l, t, f, stop), ~ stop,
           accepted' = Append(accepted, Len(accepted) + 1), UNCHANGED <<typed, flight, runner>>,
           NEW x, x = Append(queue.pending, Len(accepted) + 1),
           queue' = [pending |-> x, stopped |-> queue.stopped, sealed |-> queue.sealed, wake |-> TRUE]
    PROVE  InputFits'
<1>1. /\ l \in Nat /\ t \in Nat /\ f \in Nat /\ t + f <= l
      /\ accepted = Between(1, l) /\ Len(accepted) = l
      /\ queue.pending = Between(t + f + 1, l) /\ queue.stopped = stop
  BY DEF Keys
<1>2. x = Between(t + f + 1, l + 1)
  <2>1. t + f + 1 \in Nat /\ l \in Int /\ l + 1 >= t + f + 1
    BY <1>1
  <2>2. Append(Between(t + f + 1, l), l + 1) = Between(t + f + 1, l + 1)
    BY <2>1, BetweenAppend
  <2> QED
    BY <1>1, <2>2
<1>3. accepted' = Between(1, l + 1) /\ Len(accepted') = l + 1
  <2>1. 1 \in Nat /\ l \in Int /\ l + 1 >= 1 /\ l + 1 \in Int /\ (l + 1) + 1 >= 1 /\ (l + 1) - 1 + 1 = l + 1
    BY <1>1
  <2>2. Append(Between(1, l), l + 1) = Between(1, l + 1) /\ Len(Between(1, l + 1)) = (l + 1) - 1 + 1
    BY <2>1, BetweenAppend, BetweenSeq
  <2> QED
    BY <1>1, <2>1, <2>2
<1>4. l + 1 \in Nat /\ t + f <= l + 1
  BY <1>1
<1>5. queue' = [pending |-> IF stop THEN <<>> ELSE Between(t + f + 1, l + 1), stopped |-> stop,
                sealed |-> queue'.sealed, wake |-> queue'.wake]
  <2>1. queue'.sealed = queue.sealed /\ queue'.wake = TRUE
    OBVIOUS
  <2> QED
    BY <1>1, <1>2, <2>1
<1>6. Keys(l + 1, t, f, stop)'
  BY <1>3, <1>4, <1>5 DEF Keys
<1> QED
  BY <1>6, KeysNext

\* A call takes the first keys out.
LEMMA KeysTaken ==
    ASSUME NEW l, NEW t, NEW stop, Keys(l, t, 0, stop), ~ stop,
           NEW n \in Nat, n <= Len(queue.pending),
           UNCHANGED <<accepted, typed>>, runner' = "call",
           flight' = SubSeq(queue.pending, 1, n),
           NEW x, x = SubSeq(queue.pending, n + 1, Len(queue.pending)),
           queue' = [pending |-> x, stopped |-> queue.stopped, sealed |-> queue.sealed, wake |-> queue.wake]
    PROVE  InputFits'
<1>1. /\ l \in Nat /\ t \in Nat /\ t <= l /\ queue.stopped = stop
      /\ queue.pending = Between(t + 0 + 1, l)
  BY DEF Keys
<1>2. queue.pending = Between(t + 1, l)
  <2>1. t + 0 + 1 = t + 1
    BY <1>1
  <2> QED
    BY <1>1, <2>1
<1>3. t + 1 \in Nat /\ l \in Int /\ l + 1 >= t + 1
  BY <1>1
<1>4. Len(queue.pending) = l - (t + 1) + 1
  BY <1>2, <1>3, BetweenSeq
<1>5. n <= l - (t + 1) + 1 /\ t + n <= l
  BY <1>1, <1>4
<1>6. flight' = Between(t + 1, t + 1 + n - 1) /\ x = Between(t + 1 + n, l)
  <2>1. /\ SubSeq(Between(t + 1, l), 1, n) = Between(t + 1, t + 1 + n - 1)
        /\ SubSeq(Between(t + 1, l), n + 1, Len(Between(t + 1, l))) = Between(t + 1 + n, l)
    BY <1>3, <1>5, BetweenCut
  <2> QED
    BY <1>2, <2>1
<1>7. t + 1 + n - 1 = t + n /\ t + 1 + n = t + n + 1 /\ t + n \in Int /\ t + n + 1 >= t + 1 /\ t + n - (t + 1) + 1 = n
  BY <1>1
<1>8. flight' = Between(t + 1, t + n) /\ x = Between(t + n + 1, l) /\ Len(flight') = n
  <2>1. flight' = Between(t + 1, t + n) /\ x = Between(t + n + 1, l)
    BY <1>6, <1>7
  <2>2. PICK a \in Nat, b \in Int : a = t + 1 /\ b = t + n /\ b + 1 >= a /\ b - a + 1 = n
    BY <1>3, <1>7
  <2>3. Len(Between(a, b)) = b - a + 1
    BY <2>2, BetweenSeq
  <2> QED
    BY <2>1, <2>2, <2>3
<1>9. queue' = [pending |-> IF stop THEN <<>> ELSE Between(t + n + 1, l), stopped |-> stop,
                sealed |-> queue'.sealed, wake |-> queue'.wake]
  <2>1. queue'.sealed = queue.sealed /\ queue'.wake = queue.wake
    OBVIOUS
  <2> QED
    BY <1>1, <1>8, <2>1
<1>10. Keys(l, t, n, stop)'
  BY <1>5, <1>8, <1>9 DEF Keys
<1> QED
  BY <1>10, KeysNext

\* Herdr writes what a call holds.
LEMMA KeysTyped ==
    ASSUME NEW l, NEW t, NEW f, NEW stop, Keys(l, t, f, stop),
           typed' = typed \o flight, flight' = <<>>, UNCHANGED <<accepted, queue, runner>>
    PROVE  InputFits'
<1>1. /\ l \in Nat /\ t \in Nat /\ f \in Nat /\ t + f <= l
      /\ typed = Between(1, t) /\ flight = Between(t + 1, t + f)
  BY DEF Keys
<1>2. typed' = Between(1, t + f) /\ Len(typed') = t + f
  <2>1. 1 \in Nat /\ t \in Int /\ t + f \in Int /\ t + 1 >= 1 /\ t + f >= t /\ t + f + 1 >= 1 /\ t + f - 1 + 1 = t + f
    BY <1>1
  <2>2. PICK b \in Int : b = t + f
    BY <2>1
  <2>3. Between(1, t) \o Between(t + 1, b) = Between(1, b)
    BY <2>1, <2>2, BetweenJoin
  <2>4. Len(Between(1, b)) = b
    <3>1. b + 1 >= 1 /\ b - 1 + 1 = b
      BY <2>1, <2>2
    <3>2. Len(Between(1, b)) = b - 1 + 1
      BY <2>1, <3>1, BetweenSeq
    <3> QED
      BY <3>1, <3>2
  <2> QED
    BY <1>1, <2>2, <2>3, <2>4
<1>3. t + f + 0 = t + f /\ t + f \in Nat /\ t + f + 1 \in Nat /\ t + f \in Int
  BY <1>1
<1>4. flight' = Between(t + f + 1, t + f + 0) /\ Len(flight') = 0
  <2>1. Between(t + f + 1, t + f) = <<>>
    BY <1>3, BetweenEmpty
  <2> QED
    BY <1>3, <2>1
<1>5. Keys(l, t + f, 0, stop)'
  BY <1>1, <1>2, <1>3, <1>4 DEF Keys
<1> QED
  BY <1>5, KeysNext

\* Every step keeps the keys in order.
LEMMA InputFitsStep ==
    ASSUME InputFits, StreamAssumption, [StreamNext]_streamVars PROVE InputFits'
<1>1. PICK l, t, f, stop : Keys(l, t, f, stop) /\ (runner \in {"wait", "take"} => f = 0) /\ stop = queue.stopped
  BY InputFitsMeans DEF Keys
<1>2. queue = [pending |-> queue.pending, stopped |-> queue.stopped, sealed |-> queue.sealed, wake |-> queue.wake]
  BY <1>1 DEF Keys
<1>3. CASE UNCHANGED <<accepted, typed, queue, runner, flight>>
  BY <1>1, <1>2, <1>3, KeysStay
<1>4. CASE UNCHANGED <<accepted, typed, flight>> /\ queue' = Stopped(queue) /\ (runner' = runner \/ runner' \in {"fail", "done"})
  BY <1>1, <1>4, KeysDropped
<1>5. CASE Finish
  <2>1. PICK q : q = [queue EXCEPT !.sealed = TRUE, !.wake = TRUE]
    OBVIOUS
  <2>2. q = [pending |-> queue.pending, stopped |-> queue.stopped, sealed |-> TRUE, wake |-> TRUE]
    BY <1>2, <2>1
  <2>3. queue' = q /\ UNCHANGED <<accepted, typed, flight, runner>>
    BY <1>5, <2>1, Zenon DEF Finish
  <2> QED
    BY <1>1, <2>2, <2>3, KeysStay
<1>6. CASE Type
  <2>1. PICK x : x = Append(queue.pending, Len(accepted) + 1)
    OBVIOUS
  <2>2. PICK q : q = [queue EXCEPT !.pending = Append(@, Len(accepted) + 1), !.wake = TRUE]
    OBVIOUS
  <2>3. q = [pending |-> x, stopped |-> queue.stopped, sealed |-> queue.sealed, wake |-> TRUE]
    BY <1>2, <2>1, <2>2
  <2>4. /\ UNCHANGED <<typed, flight, runner>>
        /\ \/ ~ queue.stopped /\ queue' = q /\ accepted' = Append(accepted, Len(accepted) + 1)
           \/ queue' = Stopped(queue) /\ UNCHANGED accepted
    BY <1>6, <2>2, Zenon DEF Type
  <2>5. CASE ~ queue.stopped /\ queue' = q /\ accepted' = Append(accepted, Len(accepted) + 1)
    BY <1>1, <2>1, <2>3, <2>4, <2>5, KeyAccepted
  <2> QED
    BY <1>4, <2>4, <2>5
<1>7. CASE RunnerWakes
  <2>1. queue' = [pending |-> queue.pending, stopped |-> queue.stopped, sealed |-> queue.sealed, wake |-> FALSE]
    BY <1>2, <1>7 DEF RunnerWakes
  <2>2. UNCHANGED <<accepted, typed, flight>> /\ runner = "wait" /\ runner' = "take"
    BY <1>7 DEF RunnerWakes, Runs
  <2> QED
    BY <1>1, <2>1, <2>2, KeysStay
<1>8. CASE TakeChunk
  <2>1. PICK n : n = IF Len(queue.pending) < Chunk THEN Len(queue.pending) ELSE Chunk
    OBVIOUS
  <2>2. /\ runner = "take" /\ ~ queue.stopped
        /\ IF n = 0 THEN /\ Runs(IF queue.sealed THEN "done" ELSE "wait")
                         /\ queue' = IF queue.sealed THEN Stopped(queue) ELSE queue
                         /\ UNCHANGED flight
           ELSE /\ Runs("call")
                /\ flight' = SubSeq(queue.pending, 1, n)
                /\ queue' = [queue EXCEPT !.pending = Rest(queue, n)]
    BY <1>8, <2>1, Zenon DEF TakeChunk
  <2>3. f = 0 /\ stop = FALSE
    <3>1. queue.stopped = stop /\ f = 0
      BY <1>1, <2>2
    <3> QED
      BY <2>2, <3>1 DEF Keys
  <2>4. CASE n = 0 /\ queue.sealed
    <3>1. UNCHANGED <<accepted, typed, flight>> /\ queue' = Stopped(queue) /\ runner' = "done"
      BY <2>2, <2>4 DEF Runs
    <3> QED
      BY <1>4, <3>1
  <2>5. CASE n = 0 /\ ~ queue.sealed
    <3>1. UNCHANGED <<accepted, typed, flight, queue>> /\ runner' = "wait"
      BY <2>2, <2>5 DEF Runs
    <3> QED
      BY <1>1, <1>2, <2>3, <3>1, KeysStay
  <2>6. CASE n # 0
    <3>1. n \in Nat /\ n <= Len(queue.pending)
      <4>1. l \in Nat /\ t \in Nat /\ queue.pending = Between(t + 0 + 1, l) /\ t + 0 <= l
        BY <1>1, <2>3 DEF Keys
      <4>2. t + 0 + 1 \in Nat /\ l \in Int /\ l + 1 >= t + 0 + 1 /\ l - (t + 0 + 1) + 1 \in Nat
        BY <4>1
      <4>3. Len(queue.pending) \in Nat
        BY <4>1, <4>2, BetweenSeq
      <4> QED
        BY <2>1, <4>3 DEF StreamAssumption
    <3>2. PICK x : x = SubSeq(queue.pending, n + 1, Len(queue.pending))
      OBVIOUS
    <3>3. UNCHANGED <<accepted, typed>> /\ runner' = "call" /\ flight' = SubSeq(queue.pending, 1, n)
      BY <2>2, <2>6 DEF Runs
    <3>4. queue' = [queue EXCEPT !.pending = x]
      BY <2>2, <2>6, <3>2, Zenon DEF Rest
    <3>5. queue' = [pending |-> x, stopped |-> queue.stopped, sealed |-> queue.sealed, wake |-> queue.wake]
      BY <1>2, <3>4
    <3> QED
      BY <1>1, <2>3, <3>1, <3>2, <3>3, <3>5, KeysTaken
  <2> QED
    BY <2>4, <2>5, <2>6
<1>9. CASE Deliver
  BY <1>1, <1>9, KeysTyped DEF Deliver
<1>10. CASE CallReturns
  <2>1. UNCHANGED <<accepted, typed, queue, flight>> /\ runner' = "take" /\ flight = <<>>
    BY <1>10 DEF CallReturns, Runs
  <2>2. f = 0
    BY <1>1, <2>1 DEF Keys
  <2> QED
    BY <1>1, <1>2, <2>1, <2>2, KeysStay
<1>11. CASE CallFails
  <2>1. UNCHANGED <<accepted, typed, flight>> /\ queue' = Stopped(queue) /\ runner' \in {"done", "fail"}
    BY <1>11 DEF CallFails, Runs
  <2> QED
    BY <1>4, <2>1
<1>12. CASE RunnerFails
  <2>1. UNCHANGED <<accepted, typed, queue, flight>> /\ runner' = "done" /\ runner = "fail"
    BY <1>12 DEF RunnerFails
  <2>2. stop
    BY <1>1, <2>1 DEF Keys
  <2> QED
    BY <1>1, <1>2, <2>1, <2>2, KeysStay
<1>13. CASE RunnerStops
  <2>1. UNCHANGED <<accepted, typed, flight>> /\ queue' = Stopped(queue) /\ runner' = "done"
    BY <1>13 DEF RunnerStops, Runs
  <2> QED
    BY <1>4, <2>1
<1>14. CASE FinishClose \/ CloseStreams \/ Detach
  BY <1>4, <1>14 DEF FinishClose, CloseStreams, Detach
<1>15. CASE AckStep \/ (\E i \in 1..MaxFrames : BeginAck(i)) \/ Tell \/ SourceEnds \/ EndSession
  BY <1>3, <1>15 DEF AckStep, BeginAck, Tell, SourceEnds, EndSession, inputVars
<1>16. CASE OutputLoop /\ ~ Detach
  BY <1>3, <1>16 DEF OutputLoop, Take, Gate, SourceClosed, Reserve, Woken, GiveUp, Write, OutputEnds, inputVars
<1>17. CASE UNCHANGED streamVars
  BY <1>3, <1>17 DEF streamVars, inputVars
<1> QED
  BY <1>5, <1>6, <1>7, <1>8, <1>9, <1>10, <1>11, <1>12, <1>13, <1>14, <1>15, <1>16, <1>17
     DEF StreamNext, ReadLoop, Runner, Ends

(***************************************************************************)
(* The ends of a stream                                                    *)
(***************************************************************************)
\* What matters of the state to the end of a stream.
endingVars == <<alive, streamClosed, how, loop, queue, runner, flight, typed, accepted>>

\* Steps that have nothing to do with the end.
LEMMA EndStays == ASSUME EndFits, UNCHANGED endingVars PROVE EndFits'
BY DEF EndFits, endingVars

\* A queue that is empty and has nothing in flight has typed everything.
LEMMA AllTyped ==
    ASSUME InputFits, flight = <<>>, ~ queue.stopped, Len(queue.pending) = 0 PROVE typed = accepted
<1>1. PICK l, t, f, stop : Keys(l, t, f, stop) /\ f = 0 /\ ~ stop
  <2>1. Keys(Len(accepted), Len(typed), Len(flight), queue.stopped)
    BY InputFitsMeans
  <2>2. Len(flight) = 0
    OBVIOUS
  <2> QED
    BY <2>1, <2>2
<1>2. /\ l \in Nat /\ t \in Nat /\ t + 0 <= l /\ queue.pending = Between(t + 0 + 1, l)
      /\ accepted = Between(1, l) /\ typed = Between(1, t)
  BY <1>1 DEF Keys
<1>3. PICK a \in Nat : a = t + 0 + 1 /\ l + 1 >= a /\ l \in Int
  BY <1>2
<1>4. Len(queue.pending) = l - a + 1
  <2>1. queue.pending = Between(a, l)
    BY <1>2, <1>3
  <2>2. Len(Between(a, l)) = l - a + 1
    BY <1>3, BetweenSeq
  <2> QED
    BY <2>1, <2>2
<1>5. l = t
  BY <1>2, <1>3, <1>4
<1> QED
  BY <1>2, <1>5

\* Every step keeps what is known of the end.
LEMMA EndFitsStep ==
    ASSUME EndFits, InputFits, StreamAssumption, [StreamNext]_streamVars PROVE EndFits'
<1>1. queue = [pending |-> queue.pending, stopped |-> queue.stopped, sealed |-> queue.sealed, wake |-> queue.wake]
  BY Zenon DEF InputFits
<1>2. CASE UNCHANGED endingVars
  BY <1>2, EndStays
<1>3. CASE streamClosed' /\ how' # "finish"
  BY <1>3 DEF EndFits
<1>4. CASE UNCHANGED <<alive, streamClosed, how, typed, accepted, flight, queue, runner>> /\ loop' \in {"cas", "done"}
  BY <1>4 DEF EndFits
<1>5. CASE Finish
  <2>1. PICK q : q = [queue EXCEPT !.sealed = TRUE, !.wake = TRUE]
    OBVIOUS
  <2>2. q.stopped = queue.stopped
    BY <1>1, <2>1
  <2>3. queue' = q /\ UNCHANGED <<alive, streamClosed, how, loop, runner, flight, typed, accepted>>
    BY <1>5, <2>1, Zenon DEF Finish, outputVars
  <2> QED
    BY <2>2, <2>3 DEF EndFits
<1>6. CASE Type
  <2>1. PICK q : q = [queue EXCEPT !.pending = Append(@, Len(accepted) + 1), !.wake = TRUE]
    OBVIOUS
  <2>2. q.stopped = queue.stopped
    BY <1>1, <2>1
  <2>3. /\ UNCHANGED <<alive, loop, runner, flight, typed>> /\ ~ streamClosed
        /\ \/ ~ queue.stopped /\ queue' = q /\ UNCHANGED <<streamClosed, how>>
           \/ FailInput
    BY <1>6, <2>1, Zenon DEF Type
  <2>4. CASE FailInput
    BY <1>3, <2>3, <2>4 DEF FailInput, CloseStream
  <2>5. CASE ~ queue.stopped /\ queue' = q /\ UNCHANGED <<streamClosed, how>>
    BY <2>2, <2>3, <2>5 DEF EndFits
  <2> QED
    BY <2>3, <2>4, <2>5
<1>7. CASE RunnerWakes
  <2>1. queue' = [pending |-> queue.pending, stopped |-> queue.stopped, sealed |-> queue.sealed, wake |-> FALSE]
    BY <1>1, <1>7 DEF RunnerWakes
  <2>2. UNCHANGED <<alive, streamClosed, how, loop, flight, typed, accepted>> /\ runner = "wait" /\ runner' = "take"
    BY <1>7 DEF RunnerWakes, Runs, outputVars, endVars
  <2>3. queue'.stopped = queue.stopped
    BY <2>1
  <2> QED
    BY <2>2, <2>3 DEF EndFits
<1>8. CASE TakeChunk
  <2>1. PICK n : n = IF Len(queue.pending) < Chunk THEN Len(queue.pending) ELSE Chunk
    OBVIOUS
  <2>2. /\ runner = "take" /\ ~ queue.stopped
        /\ IF n = 0 THEN /\ Runs(IF queue.sealed THEN "done" ELSE "wait")
                         /\ queue' = IF queue.sealed THEN Stopped(queue) ELSE queue
                         /\ UNCHANGED flight
           ELSE /\ Runs("call")
                /\ queue' = [queue EXCEPT !.pending = Rest(queue, n)]
    BY <1>8, <2>1, Zenon DEF TakeChunk
  <2>3. UNCHANGED <<alive, streamClosed, how, loop, typed, accepted>>
    BY <2>2 DEF Runs, outputVars, endVars
  <2>4. flight = <<>>
    BY <2>2 DEF InputFits
  <2>5. CASE n = 0
    <3>1. Len(queue.pending) = 0
      BY <2>1, <2>5 DEF StreamAssumption
    <3>2. typed = accepted
      BY <2>2, <2>4, <3>1, AllTyped
    <3>3. runner' = (IF queue.sealed THEN "done" ELSE "wait") /\ flight' = <<>>
      BY <2>2, <2>4, <2>5 DEF Runs
    <3>4. ~ queue.sealed => queue' = queue
      BY <2>2, <2>5
    <3> QED
      BY <2>2, <2>3, <3>2, <3>3, <3>4 DEF EndFits
  <2>6. CASE n # 0
    <3>1. PICK x : x = Rest(queue, n)
      OBVIOUS
    <3>2. queue' = [queue EXCEPT !.pending = x]
      BY <2>2, <2>6, <3>1, Zenon
    <3>3. queue'.stopped = queue.stopped
      BY <1>1, <3>2
    <3> QED
      BY <2>2, <2>3, <3>3 DEF EndFits
  <2> QED
    BY <2>5, <2>6
<1>9. CASE Deliver
  BY <1>9 DEF Deliver, EndFits, outputVars, endVars
<1>10. CASE CallReturns
  BY <1>10 DEF CallReturns, Runs, EndFits, outputVars, endVars
<1>11. CASE CallFails
  <2>1. /\ runner = "call" /\ runner' = (IF queue.stopped \/ ~ alive THEN "done" ELSE "fail")
        /\ UNCHANGED <<alive, streamClosed, how, loop, flight, typed, accepted>>
    BY <1>11 DEF CallFails, Runs, outputVars, endVars
  <2> QED
    BY <2>1 DEF EndFits
<1>12. CASE RunnerFails
  <2>1. /\ UNCHANGED <<alive, loop, queue, flight, typed, accepted>> /\ runner = "fail" /\ runner' = "done" /\ FailInput
    BY <1>12 DEF RunnerFails
  <2>2. CASE ~ streamClosed
    BY <1>3, <2>1, <2>2 DEF FailInput, CloseStream
  <2>3. CASE streamClosed
    BY <2>1, <2>3 DEF FailInput, EndFits
  <2> QED
    BY <2>2, <2>3
<1>13. CASE RunnerStops
  <2>1. /\ UNCHANGED <<alive, streamClosed, how, loop, flight, typed, accepted>> /\ runner' = "done"
        /\ runner \in {"wait", "take"} /\ (queue.stopped \/ ~ alive)
    BY <1>13 DEF RunnerStops, Runs, outputVars, endVars
  <2> QED
    BY <2>1 DEF EndFits
<1>14. CASE FinishClose
  <2>1. /\ UNCHANGED <<alive, loop, runner, flight, typed, accepted>> /\ streamClosed' = TRUE /\ how' = "finish"
        /\ ~ streamClosed /\ (runner = "done" \/ ~ alive)
    BY <1>14 DEF FinishClose, CloseStream
  <2>2. runner = "done" => queue.stopped
    BY DEF InputFits
  <2> QED
    BY <2>1, <2>2 DEF EndFits
<1>15. CASE CloseStreams
  BY <1>3, <1>15 DEF CloseStreams, CloseStream
<1>16. CASE Detach
  BY <1>16 DEF Detach, EndFits, endVars
<1>17. CASE OutputEnds
  <2>1. CASE streamClosed
    BY <1>4, <1>17, <2>1 DEF OutputEnds, inputVars
  <2>2. CASE ~ streamClosed
    BY <1>3, <1>17, <2>2 DEF OutputEnds, CloseStream
  <2> QED
    BY <2>1, <2>2
<1>18. CASE EndSession
  BY <1>18 DEF EndSession, EndFits, outputVars, inputVars
<1>19. CASE AckStep \/ (\E i \in 1..MaxFrames : BeginAck(i)) \/ Tell \/ SourceEnds
  BY <1>2, <1>19 DEF AckStep, BeginAck, Tell, SourceEnds, outputVars, inputVars, endVars, endingVars
<1>20. CASE OutputLoop /\ ~ Detach /\ ~ OutputEnds
  <2>1. UNCHANGED <<alive, streamClosed, how, queue, runner, flight, typed, accepted>>
    BY <1>20 DEF OutputLoop, Take, Gate, SourceClosed, Reserve, Woken, GiveUp, Write, inputVars, endVars
  <2>2. loop \in {"read", "reserve", "wait", "write", "close"}
    BY <1>20 DEF OutputLoop, Take, Gate, SourceClosed, Reserve, Woken, GiveUp, Write
  <2> QED
    BY <2>1, <2>2 DEF EndFits
<1>21. CASE UNCHANGED streamVars
  BY <1>2, <1>21 DEF streamVars, outputVars, inputVars, endVars, endingVars
<1> QED
  BY <1>5, <1>6, <1>7, <1>8, <1>9, <1>10, <1>11, <1>12, <1>13, <1>14, <1>15, <1>16, <1>17, <1>18, <1>19, <1>20, <1>21
     DEF StreamNext, ReadLoop, Runner, Ends

\* Every step keeps the invariant.
LEMMA StreamInvStep == ASSUME StreamAssumption, StreamInv, [StreamNext]_streamVars PROVE StreamInv'
BY OutputFitsStep, NoLostWakeStep, AckStays, InputFitsStep, EndFitsStep DEF StreamInv

\* A stream begins with no frame and no key.
LEMMA StreamInvInit == StreamInit => StreamInv
<1> SUFFICES ASSUME StreamInit PROVE StreamInv
  OBVIOUS
<1>1. frames = <<>> /\ Len(frames) = 0 /\ image = Blank /\ pending = Nothing /\ held = Nothing /\ loop = "read"
  BY DEF StreamInit
<1>2. OutputFits /\ NoLostWake
  BY <1>1 DEF OutputFits, ImageFits, NoLostWake
<1>3. InputFits
  <2>1. Between(1, 0) = <<>>
    BY BetweenEmpty
  <2>2. Len(accepted) = 0 /\ Len(typed) = 0 /\ Len(flight) = 0 /\ runner = "wait" /\ flight = <<>>
        /\ accepted = <<>> /\ typed = <<>> /\ queue = [pending |-> <<>>, stopped |-> FALSE, sealed |-> FALSE, wake |-> FALSE]
    BY DEF StreamInit
  <2>3. 0 + 0 = 0 /\ 0 + 1 = 1 /\ 0 + 0 + 1 = 1
    OBVIOUS
  <2>4. queue.sealed = FALSE /\ queue.wake = FALSE
    BY <2>2
  <2>5. queue = [pending |-> IF FALSE THEN <<>> ELSE Between(1, 0), stopped |-> FALSE, sealed |-> queue.sealed, wake |-> queue.wake]
    BY <2>1, <2>2, <2>4
  <2>6. Keys(0, 0, 0, FALSE)
    BY <2>1, <2>2, <2>3, <2>5 DEF Keys
  <2> QED
    BY <2>6, InputFitsMeans
<1>4. EndFits
  BY DEF StreamInit, EndFits
<1>5. acking \in [seq : Nat, step : {1, 2}]
  BY DEF StreamInit, NoAck
<1> QED
  BY <1>2, <1>3, <1>4, <1>5 DEF StreamInv

\* In every behaviour a frame on its way carries what the browser lacks, the
\* keys follow each other and an end leaves nothing out (workbench.go and
\* input.go).
THEOREM StreamInvariance == ASSUME StreamAssumption PROVE StreamSpec => []StreamInv
<1>1. StreamInv /\ [StreamNext]_streamVars => StreamInv'
  BY StreamInvStep
<1> QED
  BY <1>1, StreamInvInit, PTL DEF StreamSpec

\* After each message the browser shows what the terminal showed at the
\* frame it names, and a loop that waits for credit is not forgotten
\* (readTerminalSource, terminalOutput, reserveCredit, acknowledge).
THEOREM OutputIsNotLost == ASSUME StreamAssumption PROVE StreamSpec => []OutputArrives
<1>1. StreamInv => OutputArrives
  <2> SUFFICES ASSUME StreamInv, image # Blank PROVE image.body = ScreenAfter(image.seq)
    BY DEF StreamInv, OutputArrives, OutputIsWhole
  <2>1. PICK f \in 1..Len(frames) : /\ image.seq \in 1..Len(frames) /\ LastFull(f, image.seq)
                                   /\ image = [seq |-> image.seq, body |-> Between(f, image.seq)]
    BY DEF StreamInv, OutputFits, ImageFits
  <2>2. PICK n \in Nat : n = image.seq /\ image.body = Between(f, n) /\ LastFull(f, n)
    BY <2>1
  <2>3. PICK c : c = CHOOSE g \in 1..n : LastFull(g, n)
    OBVIOUS
  <2>4. f \in 1..n
    BY <2>2 DEF LastFull
  <2>5. LastFull(c, n) /\ c \in 1..n
    BY <2>2, <2>3, <2>4
  <2>6. c = f
    <3>1. ~ (c \in (f + 1)..n) /\ ~ (f \in (c + 1)..n)
      BY <2>2, <2>5 DEF LastFull
    <3> QED
      BY <2>4, <2>5, <3>1
  <2> QED
    BY <2>2, <2>3, <2>6 DEF ScreenAfter
<1> QED
  BY <1>1, StreamInvariance, PTL

\* What reaches the terminal is what was accepted, in order and once, and a
\* stream that ended in peace had all of it typed (InputQueue, finishStream).
THEOREM InputIsTypedOnce == ASSUME StreamAssumption PROVE StreamSpec => []InputOnceInOrder
<1>1. StreamInv => InputOnceInOrder
  <2> SUFFICES ASSUME StreamInv PROVE InputOnceInOrder
    OBVIOUS
  <2>1. PICK l, t, f, stop : Keys(l, t, f, stop)
    BY InputFitsMeans DEF StreamInv
  <2>2. /\ l \in Nat /\ t \in Nat /\ t <= l /\ accepted = Between(1, l) /\ typed = Between(1, t)
        /\ Len(accepted) = l /\ Len(typed) = t
    BY <2>1 DEF Keys
  <2>3. 1 \in Nat /\ l \in Int /\ t \in Int /\ l + 1 >= 1 /\ t + 1 >= 1 /\ t <= l - 1 + 1 /\ t <= t - 1 + 1
    BY <2>2
  <2>4. SubSeq(Between(1, l), 1, t) = Between(1, 1 + t - 1) /\ SubSeq(Between(1, t), 1, t) = Between(1, 1 + t - 1)
    BY <2>2, <2>3, BetweenCut
  <2>5. SubSeq(accepted, 1, Len(typed)) = SubSeq(typed, 1, Len(typed)) /\ Len(typed) <= Len(accepted)
    BY <2>2, <2>4
  <2>6. IsPrefix(typed, accepted)
    BY <2>5 DEF IsPrefix
  <2> QED
    BY <2>6 DEF StreamInv, EndFits, InputOnceInOrder
<1> QED
  BY <1>1, StreamInvariance, PTL
=============================================================================
