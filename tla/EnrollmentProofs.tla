-------------------------- MODULE EnrollmentProofs --------------------------
(***************************************************************************)
(* Theorems about AgentBinding and Enrollment for every number of tasks,   *)
(* websites, controllers, requests, connections and enrollments.           *)
(*                                                                         *)
(* IInv of the agent is inductive: each action keeps it, by a lemma of its *)
(* own with one step per part of IInv.  The safety properties follow from  *)
(* IInv; the action properties and the refinement hold of a step from a    *)
(* state of it.                                                            *)
(*                                                                         *)
(* Every step of the whole system is a step of the agent or leaves the     *)
(* agent alone, so that what is proved of AgentBinding holds there too.  A *)
(* request to commit that a worker sends carries the binding ID the agent  *)
(* answered: that needs SystemInv, which in turn needs the agent's IInv.   *)
(***************************************************************************)
EXTENDS Enrollment, TLAPS

----------------------------------------------------------------------------
(* The agent.                                                              *)

\* The constants of the agent.
LEMMA Bounds ==
    /\ None \notin Controllers
    /\ MaxIssued \in Nat /\ MaxEpoch \in Nat /\ MaxUnpairs \in Nat
BY AgentBindingAssumption

USE Bounds DEF Enrollments, Statuses, Reserved, Revoked, bindingVars, configVars,
    endpointVars, daemonVars, connVars, requestVars, historyVars

\* The invariant holds initially.
LEMMA InitKeeps == Init => IInv
<1> SUFFICES ASSUME Init PROVE IInv
  OBVIOUS
<1>1. TypeOK
  <2>1. StateTypeOK
    BY DEF Init, StateTypeOK
  <2>2. CountTypeOK
    BY DEF Init, CountTypeOK
  <2>3. ConnTypeOK
    BY DEF Init, ConnTypeOK
  <2>4. RequestTypeOK
    BY DEF Init, RequestTypeOK
  <2> QED BY <2>1, <2>2, <2>3, <2>4 DEF TypeOK
<1>2. CountsFit /\ RecordFits /\ RequestsFit /\ EndpointsFit
  BY DEF Init, CountsFit, RecordFits, RequestsFit, EndpointsFit
<1>3. StreamsAuthorized /\ OneController /\ BindingServed
  BY DEF Init, StreamsAuthorized, OneController, BindingServed
<1> QED BY <1>1, <1>2, <1>3 DEF IInv

\* An unexpired connection string is served again.
LEMMA ConnectReuseKeeps ==
    ASSUME IInv, ConnectReuse
    PROVE  IInv'
<1>1. StateTypeOK'
  BY DEF IInv, TypeOK, StateTypeOK, ConnectReuse
<1>2. CountTypeOK'
  BY DEF IInv, TypeOK, CountTypeOK, ConnectReuse
<1>3. ConnTypeOK'
  BY DEF IInv, TypeOK, ConnTypeOK, ConnectReuse
<1>4. RequestTypeOK'
  BY DEF IInv, TypeOK, RequestTypeOK, ConnectReuse
<1>5. CountsFit'
  BY DEF IInv, CountsFit, ConnectReuse
<1>6. RecordFits'
  BY DEF IInv, RecordFits, ConnectReuse
<1>7. RequestsFit'
  BY DEF IInv, RequestsFit, ConnectReuse
<1>8. EndpointsFit'
  BY DEF IInv, EndpointsFit, ConnectReuse, MayConnect, ShouldRestore
<1>9. StreamsAuthorized'
  BY DEF IInv, StreamsAuthorized, ConnectReuse
<1>10. OneController'
  BY DEF IInv, OneController, ConnectReuse
<1>11. BindingServed'
  BY DEF IInv, BindingServed, ConnectReuse
<1> QED BY <1>1, <1>2, <1>3, <1>4, <1>5, <1>6, <1>7, <1>8, <1>9, <1>10, <1>11
   DEF IInv, TypeOK

\* A new connection string, whatever of its write was saved or reported.
LEMMA ConnectIssueKeeps ==
    ASSUME IInv, NEW renew \in BOOLEAN, NEW saved \in BOOLEAN, NEW told \in BOOLEAN,
               ConnectIssue(renew, saved, told)
    PROVE  IInv'
<1>1. StateTypeOK'
  BY DEF IInv, TypeOK, StateTypeOK, ConnectIssue, MayConnect, IssueConfig, Install,
      CutAll
<1>2. CountTypeOK'
  BY DEF IInv, TypeOK, CountTypeOK, ConnectIssue, MayConnect, IssueConfig, Install,
      CutAll
<1>3. ConnTypeOK'
  BY DEF IInv, TypeOK, ConnTypeOK, ConnectIssue, MayConnect, IssueConfig, Install,
      CutAll
<1>4. RequestTypeOK'
  BY DEF IInv, TypeOK, RequestTypeOK, ConnectIssue
<1>5. CountsFit'
  <2>1. /\ issued \in Nat /\ fence \in Nat /\ epoch \in Nat /\ bid \in Nat
        /\ \A n \in Conns : at[n] \in Nat
        /\ \A c \in Controllers : holds[c] \in Nat
    BY DEF IInv, TypeOK, CountTypeOK, ConnTypeOK, RequestTypeOK
  <2>2. issued' = issued + 1 /\ fence' = fence /\ holds' = holds /\ won' = won
    BY DEF ConnectIssue
  <2>4. epoch' \in Nat /\ epoch <= epoch' /\ bid' <= epoch'
    <3>1. CASE saved
      BY <2>1, <3>1 DEF ConnectIssue, IssueConfig
    <3>2. CASE ~saved
      BY <2>1, <3>2 DEF IInv, CountsFit, ConnectIssue
    <3> QED BY <3>1, <3>2
  <2>3. \A n \in Conns : at'[n] \in {0, at[n]}
    BY DEF ConnectIssue, CutAll
  <2>5. \A n \in Conns : at'[n] <= epoch'
    BY <2>1, <2>3, <2>4 DEF IInv, CountsFit
  <2> QED BY <2>1, <2>2, <2>4, <2>5 DEF IInv, CountsFit
<1>6. RecordFits'
  <2>1. /\ issued \in Nat /\ fence \in Nat /\ enrollment \in Nat
        /\ issued + 1 \in Enrollments
    BY DEF IInv, TypeOK, CountTypeOK, ConnectIssue
  <2>2. issued' = issued + 1 /\ fence' = fence /\ won' = won
    BY DEF ConnectIssue
  <2>3. CASE saved
    <3>1. /\ revoked' = FALSE /\ enrollment' = issued + 1 /\ status' = "none"
          /\ paired' = paired
      BY <2>3 DEF ConnectIssue, IssueConfig
    <3>2. ~paired
      BY DEF IInv, RecordFits, ConnectIssue, MayConnect
    <3>3. won[issued + 1] = None /\ fence < issued + 1
      BY <2>1 DEF IInv, CountsFit
    <3> QED BY <2>1, <2>2, <3>1, <3>2, <3>3 DEF RecordFits
  <2>4. CASE ~saved
    <3>1. UNCHANGED configVars
      BY <2>4 DEF ConnectIssue
    <3> QED BY <2>1, <2>2, <3>1 DEF IInv, RecordFits
  <2> QED BY <2>3, <2>4
<1>7. RequestsFit'
  BY DEF IInv, TypeOK, StateTypeOK, CountTypeOK, ConnTypeOK, RequestTypeOK,
      CountsFit, RecordFits, RequestsFit, ConnectIssue, MayConnect, IssueConfig,
      Install, CutAll
<1>8. EndpointsFit'
  BY DEF IInv, TypeOK, StateTypeOK, CountTypeOK, ConnTypeOK, RequestTypeOK,
      CountsFit, RecordFits, EndpointsFit, ConnectIssue, MayConnect, IssueConfig,
      Install, CutAll
<1>9. StreamsAuthorized'
  BY DEF IInv, StreamsAuthorized, ConnectIssue, MayConnect, IssueConfig, Install,
      CutAll
<1>10. OneController'
  BY DEF IInv, OneController, ConnectIssue
<1>11. BindingServed'
  BY DEF IInv, BindingServed, ConnectIssue, MayConnect, IssueConfig, Install, CutAll
<1> QED BY <1>1, <1>2, <1>3, <1>4, <1>5, <1>6, <1>7, <1>8, <1>9, <1>10, <1>11
   DEF IInv, TypeOK

\* A website gets a connection string.
LEMMA PasteKeeps ==
    ASSUME IInv, NEW c \in Controllers, Paste(c)
    PROVE  IInv'
<1>1. StateTypeOK'
  BY DEF IInv, TypeOK, StateTypeOK, Paste
<1>2. CountTypeOK'
  BY DEF IInv, TypeOK, CountTypeOK, Paste
<1>3. ConnTypeOK'
  BY DEF IInv, TypeOK, ConnTypeOK, Paste
<1>4. RequestTypeOK'
  BY DEF IInv, TypeOK, StateTypeOK, CountTypeOK, RequestTypeOK, Paste
<1>5. CountsFit'
  <2>1. holds' = [holds EXCEPT ![c] = enrollment] /\ enrollment <= issued
    BY DEF IInv, RecordFits, Paste
  <2>2. \A d \in Controllers : holds'[d] <= issued'
    BY <2>1 DEF IInv, CountsFit, TypeOK, RequestTypeOK, Paste
  <2> QED BY <2>2 DEF IInv, CountsFit, Paste
<1>6. RecordFits'
  BY DEF IInv, RecordFits, Paste
<1>7. RequestsFit'
  BY DEF IInv, TypeOK, StateTypeOK, CountTypeOK, ConnTypeOK, RequestTypeOK,
      CountsFit, RecordFits, RequestsFit, Paste
<1>8. EndpointsFit'
  BY DEF IInv, EndpointsFit, Paste
<1>9. StreamsAuthorized'
  BY DEF IInv, StreamsAuthorized, Paste
<1>10. OneController'
  BY DEF IInv, TypeOK, StateTypeOK, CountTypeOK, ConnTypeOK, RequestTypeOK,
      RequestsFit, RecordFits, CountsFit, OneController, Paste
<1>11. BindingServed'
  BY DEF IInv, BindingServed, Paste
<1> QED BY <1>1, <1>2, <1>3, <1>4, <1>5, <1>6, <1>7, <1>8, <1>9, <1>10, <1>11
   DEF IInv, TypeOK

\* A prepare request arrives.
LEMMA SendPrepareKeeps ==
    ASSUME IInv, NEW c \in Controllers, SendPrepare(c)
    PROVE  IInv'
<1>1. StateTypeOK'
  BY DEF IInv, TypeOK, StateTypeOK, SendPrepare
<1>2. CountTypeOK'
  BY DEF IInv, TypeOK, CountTypeOK, SendPrepare
<1>3. ConnTypeOK'
  BY DEF IInv, TypeOK, ConnTypeOK, SendPrepare
<1>4. RequestTypeOK'
  <2>1. ephem \in Enrollments
    BY DEF IInv, EndpointsFit, TypeOK, CountTypeOK, SendPrepare
  <2> QED BY <2>1 DEF IInv, TypeOK, RequestTypeOK, SendPrepare
<1>5. CountsFit'
  BY DEF IInv, CountsFit, SendPrepare
<1>6. RecordFits'
  BY DEF IInv, RecordFits, SendPrepare
<1>7. RequestsFit'
  BY DEF IInv, RequestsFit, SendPrepare
<1>8. EndpointsFit'
  BY DEF IInv, EndpointsFit, SendPrepare
<1>9. StreamsAuthorized'
  BY DEF IInv, StreamsAuthorized, SendPrepare
<1>10. OneController'
  BY DEF IInv, OneController, SendPrepare
<1>11. BindingServed'
  BY DEF IInv, BindingServed, SendPrepare
<1> QED BY <1>1, <1>2, <1>3, <1>4, <1>5, <1>6, <1>7, <1>8, <1>9, <1>10, <1>11
   DEF IInv, TypeOK

\* An enrollment is reserved, or the write for it fails.
LEMMA PrepareNewKeeps ==
    ASSUME IInv, NEW e \in Enrollments, NEW c \in Controllers, NEW ok \in BOOLEAN,
               NEW started \in BOOLEAN, NEW saved \in BOOLEAN, Prepare(e, c, ok),
               PrepareNew(e, c, started, saved, ok)
    PROVE  IInv'
<1>0. /\ <<e, c>> \in prepares /\ prepares' = prepares \ {<<e, c>>} /\ up
      /\ UNCHANGED <<up, ephem, ephemOpen, closing, unpairing, holds, commits,
          historyVars>>
  BY DEF Prepare
<1>1. StateTypeOK'
  BY <1>0 DEF IInv, TypeOK, StateTypeOK, PrepareNew, Available, StartFormal,
      PrepareConfig, Answered, CutAll
<1>2. CountTypeOK'
  BY <1>0 DEF IInv, TypeOK, CountTypeOK, PrepareNew, Available, StartFormal,
      PrepareConfig, Answered, CutAll
<1>3. ConnTypeOK'
  BY <1>0 DEF IInv, TypeOK, ConnTypeOK, PrepareNew, Available, StartFormal,
      PrepareConfig, Answered, CutAll
<1>4. RequestTypeOK'
  <2>1. epoch + 1 \in 0..MaxEpoch
    BY DEF IInv, TypeOK, CountTypeOK, PrepareNew
  <2>2. answer' = answer \/ answer' = [answer EXCEPT ![c] = epoch + 1]
    BY DEF PrepareNew, Answered
  <2> QED BY <1>0, <2>1, <2>2 DEF IInv, TypeOK, RequestTypeOK
<1>5. CountsFit'
  <2>1. /\ epoch \in Nat /\ bid \in Nat
        /\ \A n \in Conns : at[n] \in Nat
    BY DEF IInv, TypeOK, CountTypeOK, ConnTypeOK
  <2>2. UNCHANGED <<issued, fence, holds, won>>
    BY <1>0
  <2>4. epoch' \in Nat /\ epoch <= epoch' /\ bid' <= epoch'
    <3>1. CASE saved
      BY <2>1, <3>1 DEF PrepareNew, PrepareConfig
    <3>2. CASE ~saved
      BY <2>1, <3>2 DEF IInv, CountsFit, PrepareNew
    <3> QED BY <3>1, <3>2
  <2>3. \A n \in Conns : at'[n] \in {0, at[n]}
    BY DEF PrepareNew, StartFormal, CutAll
  <2>5. \A n \in Conns : at'[n] <= epoch'
    BY <2>1, <2>3, <2>4 DEF IInv, CountsFit
  <2> QED BY <2>1, <2>2, <2>4, <2>5 DEF IInv, CountsFit
<1>6. RecordFits'
  <2>1. UNCHANGED <<issued, fence, won, enrollment, paired, revoked>>
    BY <1>0 DEF PrepareNew, PrepareConfig
  <2>2. CASE saved
    <3>1. status' = "prepared" /\ owner' = c /\ bound' = e /\ bid' = epoch + 1
      BY <2>2 DEF PrepareNew, PrepareConfig
    <3>2. ~paired /\ ~revoked /\ enrollment = e /\ epoch \in Nat
      BY DEF IInv, TypeOK, CountTypeOK, PrepareNew, Available
    <3>3. enrollment # 0 /\ fence < enrollment
      BY <3>2 DEF IInv, RecordFits
    <3> QED BY <2>1, <3>1, <3>2, <3>3 DEF IInv, RecordFits
  <2>3. CASE ~saved
    <3>1. UNCHANGED configVars
      BY <2>3 DEF PrepareNew
    <3> QED BY <2>1, <3>1 DEF IInv, RecordFits
  <2> QED BY <2>2, <2>3
<1>7. RequestsFit'
  BY <1>0 DEF IInv, RequestsFit, PrepareNew, Available, StartFormal, PrepareConfig,
      Answered, CutAll
<1>8. EndpointsFit'
  <2>1. UNCHANGED <<up, ephem, ephemOpen, unpairing, enrollment>> /\ up
    BY <1>0 DEF PrepareNew, PrepareConfig
  <2>2. ephemOpen => ephem # 0 /\ ephem = enrollment
    BY DEF IInv, EndpointsFit, PrepareNew, Available
  <2>3. \A n \in Conns :
           IF peer'[n] = None THEN stream'[n] = "none" ELSE formal' = peer'[n]
    BY DEF IInv, EndpointsFit, PrepareNew, StartFormal, CutAll
  <2>4. ASSUME NEW n \in Conns, peer'[n] # None, at'[n] = epoch'
        PROVE  owner' = peer'[n]
    <3>1. at'[n] = at[n] /\ peer'[n] = peer[n] /\ at[n] <= epoch
      BY <2>4 DEF IInv, CountsFit, PrepareNew, StartFormal, CutAll
    <3>2. epoch \in Nat /\ at[n] \in Nat
      BY DEF IInv, TypeOK, CountTypeOK, ConnTypeOK
    <3>3. epoch' # epoch + 1
      BY <2>4, <3>1, <3>2
    <3>4. UNCHANGED configVars
      BY <3>3 DEF PrepareNew, PrepareConfig
    <3> QED BY <2>4, <3>1, <3>4 DEF IInv, EndpointsFit
  <2> QED BY <2>1, <2>2, <2>3, <2>4 DEF EndpointsFit
<1>9. StreamsAuthorized'
  BY <1>0 DEF IInv, StreamsAuthorized, PrepareNew, Available, StartFormal,
      PrepareConfig, Answered, CutAll
<1>10. OneController'
  BY <1>0 DEF IInv, TypeOK, StateTypeOK, CountTypeOK, ConnTypeOK, RequestTypeOK,
      RequestsFit, RecordFits, CountsFit, OneController, PrepareNew, Available,
      StartFormal, PrepareConfig, Answered, CutAll
<1>11. BindingServed'
  BY <1>0 DEF IInv, BindingServed, PrepareNew, Available, StartFormal,
      PrepareConfig, Answered, CutAll
<1> QED BY <1>1, <1>2, <1>3, <1>4, <1>5, <1>6, <1>7, <1>8, <1>9, <1>10, <1>11
   DEF IInv, TypeOK

\* A prepare is repeated.
LEMMA PrepareAgainKeeps ==
    ASSUME IInv, NEW e \in Enrollments, NEW c \in Controllers, NEW ok \in BOOLEAN,
               Prepare(e, c, ok), PrepareAgain(e, c)
    PROVE  IInv'
<1>0. /\ <<e, c>> \in prepares /\ prepares' = prepares \ {<<e, c>>} /\ up
      /\ UNCHANGED <<up, ephem, ephemOpen, closing, unpairing, holds, commits,
          historyVars>>
  BY DEF Prepare
<1>1. StateTypeOK'
  BY <1>0 DEF IInv, TypeOK, StateTypeOK, PrepareAgain
<1>2. CountTypeOK'
  BY <1>0 DEF IInv, TypeOK, CountTypeOK, PrepareAgain
<1>3. ConnTypeOK'
  BY <1>0 DEF IInv, TypeOK, ConnTypeOK, PrepareAgain
<1>4. RequestTypeOK'
  BY <1>0 DEF IInv, TypeOK, StateTypeOK, CountTypeOK, RequestTypeOK, PrepareAgain,
      Repeats, Answered
<1>5. CountsFit'
  BY <1>0 DEF IInv, CountsFit, PrepareAgain
<1>6. RecordFits'
  BY <1>0 DEF IInv, RecordFits, PrepareAgain
<1>7. RequestsFit'
  BY <1>0 DEF IInv, TypeOK, StateTypeOK, CountTypeOK, ConnTypeOK, RequestTypeOK,
      CountsFit, RecordFits, RequestsFit, PrepareAgain, Repeats, Answered
<1>8. EndpointsFit'
  BY <1>0 DEF IInv, EndpointsFit, PrepareAgain
<1>9. StreamsAuthorized'
  BY <1>0 DEF IInv, StreamsAuthorized, PrepareAgain
<1>10. OneController'
  BY <1>0 DEF IInv, TypeOK, StateTypeOK, CountTypeOK, ConnTypeOK, RequestTypeOK,
      RequestsFit, RecordFits, CountsFit, OneController, PrepareAgain, Repeats,
      Answered
<1>11. BindingServed'
  BY <1>0 DEF IInv, BindingServed, PrepareAgain
<1> QED BY <1>1, <1>2, <1>3, <1>4, <1>5, <1>6, <1>7, <1>8, <1>9, <1>10, <1>11
   DEF IInv, TypeOK

\* A prepare is refused.
LEMMA PrepareRefusedKeeps ==
    ASSUME IInv, NEW e \in Enrollments, NEW c \in Controllers, NEW ok \in BOOLEAN,
               Prepare(e, c, ok), PrepareRefused(e, c)
    PROVE  IInv'
<1>0. /\ <<e, c>> \in prepares /\ prepares' = prepares \ {<<e, c>>} /\ up
      /\ UNCHANGED <<up, ephem, ephemOpen, closing, unpairing, holds, commits,
          historyVars>>
  BY DEF Prepare
<1>1. StateTypeOK'
  BY <1>0 DEF IInv, TypeOK, StateTypeOK, PrepareRefused
<1>2. CountTypeOK'
  BY <1>0 DEF IInv, TypeOK, CountTypeOK, PrepareRefused
<1>3. ConnTypeOK'
  BY <1>0 DEF IInv, TypeOK, ConnTypeOK, PrepareRefused
<1>4. RequestTypeOK'
  BY <1>0 DEF IInv, TypeOK, RequestTypeOK, PrepareRefused
<1>5. CountsFit'
  BY <1>0 DEF IInv, CountsFit, PrepareRefused
<1>6. RecordFits'
  BY <1>0 DEF IInv, RecordFits, PrepareRefused
<1>7. RequestsFit'
  BY <1>0 DEF IInv, RequestsFit, PrepareRefused
<1>8. EndpointsFit'
  BY <1>0 DEF IInv, EndpointsFit, PrepareRefused
<1>9. StreamsAuthorized'
  BY <1>0 DEF IInv, StreamsAuthorized, PrepareRefused
<1>10. OneController'
  BY <1>0 DEF IInv, OneController, PrepareRefused
<1>11. BindingServed'
  BY <1>0 DEF IInv, BindingServed, PrepareRefused
<1> QED BY <1>1, <1>2, <1>3, <1>4, <1>5, <1>6, <1>7, <1>8, <1>9, <1>10, <1>11
   DEF IInv, TypeOK

\* A connection authenticates.
LEMMA DialKeeps ==
    ASSUME IInv, NEW n \in Conns, NEW c \in Controllers, Dial(n, c)
    PROVE  IInv'
<1>1. StateTypeOK'
  BY DEF IInv, TypeOK, StateTypeOK, Dial
<1>2. CountTypeOK'
  BY DEF IInv, TypeOK, CountTypeOK, Dial
<1>3. ConnTypeOK'
  BY DEF IInv, TypeOK, StateTypeOK, CountTypeOK, ConnTypeOK, Dial, Authorized,
      AuthRole
<1>4. RequestTypeOK'
  BY DEF IInv, TypeOK, RequestTypeOK, Dial
<1>5. CountsFit'
  BY DEF IInv, TypeOK, StateTypeOK, CountTypeOK, ConnTypeOK, CountsFit, Dial,
      Authorized, AuthRole
<1>6. RecordFits'
  BY DEF IInv, RecordFits, Dial
<1>7. RequestsFit'
  BY DEF IInv, RequestsFit, Dial
<1>8. EndpointsFit'
  BY DEF IInv, EndpointsFit, Dial, Authorized, AuthRole
<1>9. StreamsAuthorized'
  BY DEF IInv, StreamsAuthorized, Dial, Authorized, AuthRole
<1>10. OneController'
  BY DEF IInv, OneController, Dial
<1>11. BindingServed'
  BY DEF IInv, BindingServed, Dial
<1> QED BY <1>1, <1>2, <1>3, <1>4, <1>5, <1>6, <1>7, <1>8, <1>9, <1>10, <1>11
   DEF IInv, TypeOK

\* A stream is granted.
LEMMA GrantKeeps ==
    ASSUME IInv, NEW n \in Conns, Grant(n)
    PROVE  IInv'
<1>1. StateTypeOK'
  BY DEF IInv, TypeOK, StateTypeOK, Grant
<1>2. CountTypeOK'
  BY DEF IInv, TypeOK, CountTypeOK, Grant
<1>3. ConnTypeOK'
  BY DEF IInv, TypeOK, ConnTypeOK, Grant
<1>4. RequestTypeOK'
  BY DEF IInv, TypeOK, RequestTypeOK, Grant
<1>5. CountsFit'
  BY DEF IInv, CountsFit, Grant
<1>6. RecordFits'
  BY DEF IInv, RecordFits, Grant
<1>7. RequestsFit'
  BY DEF IInv, RequestsFit, Grant
<1>8. EndpointsFit'
  BY DEF IInv, EndpointsFit, Grant
<1>9. StreamsAuthorized'
  BY DEF IInv, TypeOK, StateTypeOK, CountTypeOK, ConnTypeOK, RequestTypeOK,
      RecordFits, EndpointsFit, StreamsAuthorized, Grant, Permits
<1>10. OneController'
  BY DEF IInv, OneController, Grant
<1>11. BindingServed'
  BY DEF IInv, BindingServed, Grant
<1> QED BY <1>1, <1>2, <1>3, <1>4, <1>5, <1>6, <1>7, <1>8, <1>9, <1>10, <1>11
   DEF IInv, TypeOK

\* A granted stream opens.
LEMMA OpenStreamKeeps ==
    ASSUME IInv, NEW n \in Conns, OpenStream(n)
    PROVE  IInv'
<1>1. StateTypeOK'
  BY DEF IInv, TypeOK, StateTypeOK, OpenStream
<1>2. CountTypeOK'
  BY DEF IInv, TypeOK, CountTypeOK, OpenStream
<1>3. ConnTypeOK'
  BY DEF IInv, TypeOK, ConnTypeOK, OpenStream
<1>4. RequestTypeOK'
  BY DEF IInv, TypeOK, RequestTypeOK, OpenStream
<1>5. CountsFit'
  BY DEF IInv, CountsFit, OpenStream
<1>6. RecordFits'
  BY DEF IInv, RecordFits, OpenStream
<1>7. RequestsFit'
  BY DEF IInv, RequestsFit, OpenStream
<1>8. EndpointsFit'
  BY DEF IInv, EndpointsFit, OpenStream
<1>9. StreamsAuthorized'
  BY DEF IInv, StreamsAuthorized, OpenStream
<1>10. OneController'
  BY DEF IInv, OneController, OpenStream
<1>11. BindingServed'
  BY DEF IInv, BindingServed, OpenStream
<1> QED BY <1>1, <1>2, <1>3, <1>4, <1>5, <1>6, <1>7, <1>8, <1>9, <1>10, <1>11
   DEF IInv, TypeOK

\* A connection ends.
LEMMA HangupKeeps ==
    ASSUME IInv, NEW n \in Conns, Hangup(n)
    PROVE  IInv'
<1>1. StateTypeOK'
  BY DEF IInv, TypeOK, StateTypeOK, Hangup
<1>2. CountTypeOK'
  BY DEF IInv, TypeOK, CountTypeOK, Hangup
<1>3. ConnTypeOK'
  BY DEF IInv, TypeOK, ConnTypeOK, Hangup
<1>4. RequestTypeOK'
  BY DEF IInv, TypeOK, RequestTypeOK, Hangup
<1>5. CountsFit'
  BY DEF IInv, TypeOK, StateTypeOK, CountTypeOK, ConnTypeOK, CountsFit, Hangup
<1>6. RecordFits'
  BY DEF IInv, RecordFits, Hangup
<1>7. RequestsFit'
  BY DEF IInv, RequestsFit, Hangup
<1>8. EndpointsFit'
  BY DEF IInv, TypeOK, StateTypeOK, CountTypeOK, ConnTypeOK, EndpointsFit, Hangup
<1>9. StreamsAuthorized'
  BY DEF IInv, TypeOK, StateTypeOK, CountTypeOK, ConnTypeOK, StreamsAuthorized,
      Hangup
<1>10. OneController'
  BY DEF IInv, OneController, Hangup
<1>11. BindingServed'
  BY DEF IInv, BindingServed, Hangup
<1> QED BY <1>1, <1>2, <1>3, <1>4, <1>5, <1>6, <1>7, <1>8, <1>9, <1>10, <1>11
   DEF IInv, TypeOK

\* A commit request arrives.
LEMMA SendCommitKeeps ==
    ASSUME IInv, NEW n \in Conns, NEW b \in 1..MaxEpoch, SendCommit(n, b)
    PROVE  IInv'
<1>1. StateTypeOK'
  BY DEF IInv, TypeOK, StateTypeOK, SendCommit
<1>2. CountTypeOK'
  BY DEF IInv, TypeOK, CountTypeOK, SendCommit
<1>3. ConnTypeOK'
  BY DEF IInv, TypeOK, ConnTypeOK, SendCommit
<1>4. RequestTypeOK'
  BY DEF IInv, TypeOK, RequestTypeOK, StateTypeOK, CountTypeOK, ConnTypeOK,
      SendCommit
<1>5. CountsFit'
  BY DEF IInv, CountsFit, SendCommit
<1>6. RecordFits'
  BY DEF IInv, RecordFits, SendCommit
<1>7. RequestsFit'
  BY DEF IInv, RequestsFit, SendCommit
<1>8. EndpointsFit'
  BY DEF IInv, EndpointsFit, SendCommit
<1>9. StreamsAuthorized'
  BY DEF IInv, StreamsAuthorized, SendCommit
<1>10. OneController'
  BY DEF IInv, OneController, SendCommit
<1>11. BindingServed'
  BY DEF IInv, BindingServed, SendCommit
<1> QED BY <1>1, <1>2, <1>3, <1>4, <1>5, <1>6, <1>7, <1>8, <1>9, <1>10, <1>11
   DEF IInv, TypeOK

\* A commit is served.
LEMMA CommitKeeps ==
    ASSUME IInv, NEW c \in Controllers, NEW b \in 1..MaxEpoch, NEW ok \in BOOLEAN,
               Commit(c, b, ok)
    PROVE  IInv'
<1>1. StateTypeOK'
  BY DEF IInv, TypeOK, StateTypeOK, Commit, CommitNew, CommitSame, CommitConfig,
      Activates, Proves
<1>2. CountTypeOK'
  BY DEF IInv, TypeOK, CountTypeOK, Commit, CommitNew, CommitSame, CommitConfig,
      Activates, Proves
<1>3. ConnTypeOK'
  BY DEF IInv, TypeOK, ConnTypeOK, Commit
<1>4. RequestTypeOK'
  BY DEF IInv, TypeOK, RequestTypeOK, Commit, CommitNew, CommitSame, CommitConfig,
      Activates, Proves
<1>5. CountsFit'
  <2>1. /\ epoch \in Nat /\ bid \in Nat /\ bound \in Nat
        /\ \A n \in Conns : at[n] \in Nat
    BY DEF IInv, TypeOK, CountTypeOK, ConnTypeOK
  <2>2. /\ UNCHANGED <<issued, fence, holds, bid, at>>
        /\ epoch' = epoch \/ epoch' = epoch + 1
    BY DEF Commit, CommitNew, CommitSame, CommitConfig
  <2>3. \A x \in Enrollments : won'[x] # None => x <= issued'
    <3>1. CASE won' = won
      BY <2>2, <3>1 DEF IInv, CountsFit
    <3>2. CASE won' = [won EXCEPT ![bound] = c] /\ status = "prepared"
      <4>1. bound = 0 \/ bound <= issued
        BY <3>2 DEF IInv, RecordFits
      <4>2. won \in [Enrollments -> Controllers \cup {None}]
        BY DEF IInv, TypeOK, RequestTypeOK
      <4> QED BY <2>2, <3>2, <4>1, <4>2 DEF IInv, CountsFit
    <3> QED BY <3>1, <3>2 DEF Commit, CommitNew, CommitSame, Activates
  <2> QED BY <2>1, <2>2, <2>3 DEF IInv, CountsFit
<1>6. RecordFits'
  <2>1. UNCHANGED <<issued, fence>>
    BY DEF Commit
  <2>2. ASSUME NEW saved \in BOOLEAN, CommitNew(c, b, saved, ok), saved
        PROVE  RecordFits'
    <3>1. /\ status' = "active" /\ paired' /\ ~revoked' /\ enrollment' = 0
          /\ UNCHANGED <<owner, bound, bid, lapsed>>
          /\ won' = [won EXCEPT ![bound] = c]
      BY <2>2 DEF CommitNew, CommitConfig
    <3>2. status = "prepared" /\ ~lapsed /\ owner = c
      BY <2>2 DEF CommitNew, Activates, Proves
    <3>3. bound \in Enrollments
      BY <3>2 DEF IInv, RecordFits, TypeOK, CountTypeOK
    <3>4. won'[bound] = c
      BY <3>1, <3>3 DEF IInv, TypeOK, RequestTypeOK
    <3> QED BY <2>1, <3>1, <3>2, <3>4 DEF IInv, RecordFits
  <2>3. CASE UNCHANGED <<configVars, won>>
    BY <2>1, <2>3 DEF IInv, RecordFits
  <2> QED BY <2>2, <2>3 DEF Commit, CommitNew, CommitSame
<1>7. RequestsFit'
  BY DEF IInv, RequestsFit, Commit, CommitNew, CommitSame, CommitConfig, Activates,
      Proves
<1>8. EndpointsFit'
  BY DEF IInv, TypeOK, StateTypeOK, CountTypeOK, ConnTypeOK, RequestTypeOK,
      CountsFit, RecordFits, EndpointsFit, Commit, CommitNew, CommitSame,
      CommitConfig, Activates, Proves
<1>9. StreamsAuthorized'
  BY DEF IInv, StreamsAuthorized, Commit, CommitNew, CommitSame, CommitConfig,
      Activates, Proves
<1>10. OneController'
  BY DEF IInv, OneController, Commit
<1>11. BindingServed'
  BY DEF IInv, BindingServed, Commit, CommitNew, CommitSame, CommitConfig,
      Activates, Proves
<1> QED BY <1>1, <1>2, <1>3, <1>4, <1>5, <1>6, <1>7, <1>8, <1>9, <1>10, <1>11
   DEF IInv, TypeOK

\* The goroutine of a commit closes the ephemeral server.
LEMMA CloseEphemeralKeeps ==
    ASSUME IInv, CloseEphemeral
    PROVE  IInv'
<1>1. StateTypeOK'
  BY DEF IInv, TypeOK, StateTypeOK, CloseEphemeral
<1>2. CountTypeOK'
  BY DEF IInv, TypeOK, CountTypeOK, CloseEphemeral
<1>3. ConnTypeOK'
  BY DEF IInv, TypeOK, ConnTypeOK, CloseEphemeral
<1>4. RequestTypeOK'
  BY DEF IInv, TypeOK, RequestTypeOK, CloseEphemeral
<1>5. CountsFit'
  BY DEF IInv, CountsFit, CloseEphemeral
<1>6. RecordFits'
  BY DEF IInv, RecordFits, CloseEphemeral
<1>7. RequestsFit'
  BY DEF IInv, RequestsFit, CloseEphemeral
<1>8. EndpointsFit'
  BY DEF IInv, EndpointsFit, CloseEphemeral
<1>9. StreamsAuthorized'
  BY DEF IInv, StreamsAuthorized, CloseEphemeral
<1>10. OneController'
  BY DEF IInv, OneController, CloseEphemeral
<1>11. BindingServed'
  BY DEF IInv, BindingServed, CloseEphemeral
<1> QED BY <1>1, <1>2, <1>3, <1>4, <1>5, <1>6, <1>7, <1>8, <1>9, <1>10, <1>11
   DEF IInv, TypeOK

\* The watchdog closes an overdue server.
LEMMA WatchdogKeeps ==
    ASSUME IInv, Watchdog
    PROVE  IInv'
<1>1. StateTypeOK'
  BY DEF IInv, TypeOK, StateTypeOK, Watchdog
<1>2. CountTypeOK'
  BY DEF IInv, TypeOK, CountTypeOK, Watchdog
<1>3. ConnTypeOK'
  BY DEF IInv, TypeOK, ConnTypeOK, Watchdog
<1>4. RequestTypeOK'
  BY DEF IInv, TypeOK, RequestTypeOK, Watchdog
<1>5. CountsFit'
  BY DEF IInv, CountsFit, Watchdog
<1>6. RecordFits'
  BY DEF IInv, RecordFits, Watchdog
<1>7. RequestsFit'
  BY DEF IInv, RequestsFit, Watchdog
<1>8. EndpointsFit'
  BY DEF IInv, EndpointsFit, Watchdog
<1>9. StreamsAuthorized'
  BY DEF IInv, StreamsAuthorized, Watchdog
<1>10. OneController'
  BY DEF IInv, OneController, Watchdog
<1>11. BindingServed'
  BY DEF IInv, BindingServed, Watchdog
<1> QED BY <1>1, <1>2, <1>3, <1>4, <1>5, <1>6, <1>7, <1>8, <1>9, <1>10, <1>11
   DEF IInv, TypeOK

\* Access is revoked.
LEMMA UnpairKeeps ==
    ASSUME IInv, Unpair
    PROVE  IInv'
<1>1. StateTypeOK'
  BY DEF IInv, TypeOK, StateTypeOK, Unpair, RevokeConfig
<1>2. CountTypeOK'
  BY DEF IInv, TypeOK, CountTypeOK, Unpair, RevokeConfig
<1>3. ConnTypeOK'
  BY DEF IInv, TypeOK, ConnTypeOK, Unpair
<1>4. RequestTypeOK'
  BY DEF IInv, TypeOK, RequestTypeOK, Unpair
<1>5. CountsFit'
  BY DEF IInv, TypeOK, StateTypeOK, CountTypeOK, ConnTypeOK, CountsFit, Unpair,
      RevokeConfig
<1>6. RecordFits'
  BY DEF IInv, RecordFits, Unpair, RevokeConfig
<1>7. RequestsFit'
  BY DEF IInv, RequestsFit, Unpair, RevokeConfig
<1>8. EndpointsFit'
  BY DEF IInv, TypeOK, StateTypeOK, CountTypeOK, ConnTypeOK, RequestTypeOK,
      CountsFit, RecordFits, EndpointsFit, Unpair, RevokeConfig
<1>9. StreamsAuthorized'
  BY DEF IInv, TypeOK, StateTypeOK, CountTypeOK, ConnTypeOK, StreamsAuthorized,
      Unpair, RevokeConfig
<1>10. OneController'
  BY DEF IInv, OneController, Unpair
<1>11. BindingServed'
  BY DEF IInv, TypeOK, StateTypeOK, CountTypeOK, ConnTypeOK, BindingServed, Unpair,
      RevokeConfig
<1> QED BY <1>1, <1>2, <1>3, <1>4, <1>5, <1>6, <1>7, <1>8, <1>9, <1>10, <1>11
   DEF IInv, TypeOK

\* The endpoints of an unpair are closed.
LEMMA TearDownKeeps ==
    ASSUME IInv, TearDown
    PROVE  IInv'
<1>1. StateTypeOK'
  BY DEF IInv, TypeOK, StateTypeOK, TearDown
<1>2. CountTypeOK'
  BY DEF IInv, TypeOK, CountTypeOK, TearDown
<1>3. ConnTypeOK'
  BY DEF IInv, TypeOK, ConnTypeOK, TearDown, CutAll
<1>4. RequestTypeOK'
  BY DEF IInv, TypeOK, RequestTypeOK, TearDown
<1>5. CountsFit'
  BY DEF IInv, TypeOK, StateTypeOK, CountTypeOK, ConnTypeOK, CountsFit, TearDown,
      CutAll
<1>6. RecordFits'
  BY DEF IInv, RecordFits, TearDown
<1>7. RequestsFit'
  BY DEF IInv, RequestsFit, TearDown
<1>8. EndpointsFit'
  BY DEF IInv, EndpointsFit, TearDown, CutAll
<1>9. StreamsAuthorized'
  BY DEF IInv, StreamsAuthorized, TearDown, CutAll
<1>10. OneController'
  BY DEF IInv, OneController, TearDown
<1>11. BindingServed'
  BY DEF IInv, BindingServed, TearDown
<1> QED BY <1>1, <1>2, <1>3, <1>4, <1>5, <1>6, <1>7, <1>8, <1>9, <1>10, <1>11
   DEF IInv, TypeOK

\* Access is revoked without a daemon.
LEMMA OfflineUnpairKeeps ==
    ASSUME IInv, OfflineUnpair
    PROVE  IInv'
<1>1. StateTypeOK'
  BY DEF IInv, TypeOK, StateTypeOK, OfflineUnpair, RevokeConfig
<1>2. CountTypeOK'
  BY DEF IInv, TypeOK, CountTypeOK, OfflineUnpair, RevokeConfig
<1>3. ConnTypeOK'
  BY DEF IInv, TypeOK, ConnTypeOK, OfflineUnpair
<1>4. RequestTypeOK'
  BY DEF IInv, TypeOK, RequestTypeOK, OfflineUnpair
<1>5. CountsFit'
  BY DEF IInv, TypeOK, StateTypeOK, CountTypeOK, ConnTypeOK, CountsFit,
      OfflineUnpair, RevokeConfig
<1>6. RecordFits'
  BY DEF IInv, RecordFits, OfflineUnpair, RevokeConfig
<1>7. RequestsFit'
  BY DEF IInv, RequestsFit, OfflineUnpair, RevokeConfig
<1>8. EndpointsFit'
  BY DEF IInv, EndpointsFit, OfflineUnpair
<1>9. StreamsAuthorized'
  BY DEF IInv, TypeOK, StateTypeOK, CountTypeOK, ConnTypeOK, RequestTypeOK,
      RecordFits, EndpointsFit, StreamsAuthorized, OfflineUnpair, RevokeConfig
<1>10. OneController'
  BY DEF IInv, OneController, OfflineUnpair
<1>11. BindingServed'
  BY DEF IInv, BindingServed, OfflineUnpair
<1> QED BY <1>1, <1>2, <1>3, <1>4, <1>5, <1>6, <1>7, <1>8, <1>9, <1>10, <1>11
   DEF IInv, TypeOK

\* The legacy pairing handler clears Paired.
LEMMA LegacyPairKeeps ==
    ASSUME IInv, LegacyPair
    PROVE  IInv'
<1>1. StateTypeOK'
  BY DEF IInv, TypeOK, StateTypeOK, LegacyPair
<1>2. CountTypeOK'
  BY DEF IInv, TypeOK, CountTypeOK, LegacyPair
<1>3. ConnTypeOK'
  BY DEF IInv, TypeOK, ConnTypeOK, LegacyPair
<1>4. RequestTypeOK'
  BY DEF IInv, TypeOK, RequestTypeOK, LegacyPair
<1>5. CountsFit'
  BY DEF IInv, CountsFit, LegacyPair
<1>6. RecordFits'
  BY DEF IInv, RecordFits, LegacyPair
<1>7. RequestsFit'
  BY DEF IInv, RequestsFit, LegacyPair
<1>8. EndpointsFit'
  BY DEF IInv, EndpointsFit, LegacyPair
<1>9. StreamsAuthorized'
  BY DEF IInv, StreamsAuthorized, LegacyPair
<1>10. OneController'
  BY DEF IInv, OneController, LegacyPair
<1>11. BindingServed'
  BY DEF IInv, BindingServed, LegacyPair
<1> QED BY <1>1, <1>2, <1>3, <1>4, <1>5, <1>6, <1>7, <1>8, <1>9, <1>10, <1>11
   DEF IInv, TypeOK

\* The formal endpoint gets a new address.
LEMMA RefreshEndpointKeeps ==
    ASSUME IInv, RefreshEndpoint
    PROVE  IInv'
<1>1. StateTypeOK'
  BY DEF IInv, TypeOK, StateTypeOK, RefreshEndpoint
<1>2. CountTypeOK'
  BY DEF IInv, TypeOK, CountTypeOK, RefreshEndpoint
<1>3. ConnTypeOK'
  BY DEF IInv, TypeOK, ConnTypeOK, RefreshEndpoint, CutAll
<1>4. RequestTypeOK'
  BY DEF IInv, TypeOK, RequestTypeOK, RefreshEndpoint
<1>5. CountsFit'
  BY DEF IInv, TypeOK, StateTypeOK, CountTypeOK, ConnTypeOK, CountsFit,
      RefreshEndpoint, CutAll
<1>6. RecordFits'
  BY DEF IInv, RecordFits, RefreshEndpoint
<1>7. RequestsFit'
  BY DEF IInv, RequestsFit, RefreshEndpoint
<1>8. EndpointsFit'
  BY DEF IInv, EndpointsFit, RefreshEndpoint, CutAll
<1>9. StreamsAuthorized'
  BY DEF IInv, StreamsAuthorized, RefreshEndpoint, CutAll
<1>10. OneController'
  BY DEF IInv, OneController, RefreshEndpoint
<1>11. BindingServed'
  BY DEF IInv, BindingServed, RefreshEndpoint
<1> QED BY <1>1, <1>2, <1>3, <1>4, <1>5, <1>6, <1>7, <1>8, <1>9, <1>10, <1>11
   DEF IInv, TypeOK

\* The daemon stops.
LEMMA CrashKeeps ==
    ASSUME IInv, Crash
    PROVE  IInv'
<1>1. StateTypeOK'
  BY DEF IInv, TypeOK, StateTypeOK, Crash
<1>2. CountTypeOK'
  BY DEF IInv, TypeOK, CountTypeOK, Crash
<1>3. ConnTypeOK'
  BY DEF IInv, TypeOK, ConnTypeOK, Crash, CutAll
<1>4. RequestTypeOK'
  BY DEF IInv, TypeOK, RequestTypeOK, Crash
<1>5. CountsFit'
  BY DEF IInv, TypeOK, StateTypeOK, CountTypeOK, ConnTypeOK, CountsFit, Crash,
      CutAll
<1>6. RecordFits'
  BY DEF IInv, RecordFits, Crash
<1>7. RequestsFit'
  BY DEF IInv, RequestsFit, Crash
<1>8. EndpointsFit'
  BY DEF IInv, EndpointsFit, Crash, CutAll
<1>9. StreamsAuthorized'
  BY DEF IInv, StreamsAuthorized, Crash, CutAll
<1>10. OneController'
  BY DEF IInv, OneController, Crash
<1>11. BindingServed'
  BY DEF IInv, BindingServed, Crash
<1> QED BY <1>1, <1>2, <1>3, <1>4, <1>5, <1>6, <1>7, <1>8, <1>9, <1>10, <1>11
   DEF IInv, TypeOK

\* The daemon starts from the saved configuration.
LEMMA RestartKeeps ==
    ASSUME IInv, Restart
    PROVE  IInv'
<1>1. StateTypeOK'
  BY DEF IInv, TypeOK, StateTypeOK, Restart
<1>2. CountTypeOK'
  BY DEF IInv, TypeOK, CountTypeOK, Restart
<1>3. ConnTypeOK'
  BY DEF IInv, TypeOK, ConnTypeOK, Restart
<1>4. RequestTypeOK'
  BY DEF IInv, TypeOK, RequestTypeOK, Restart
<1>5. CountsFit'
  BY DEF IInv, CountsFit, Restart
<1>6. RecordFits'
  BY DEF IInv, RecordFits, Restart
<1>7. RequestsFit'
  BY DEF IInv, RequestsFit, Restart
<1>8. EndpointsFit'
  BY DEF IInv, EndpointsFit, Restart, ShouldRestore, NeedsFormal
<1>9. StreamsAuthorized'
  BY DEF IInv, StreamsAuthorized, Restart
<1>10. OneController'
  BY DEF IInv, OneController, Restart
<1>11. BindingServed'
  BY DEF IInv, TypeOK, StateTypeOK, CountTypeOK, ConnTypeOK, RequestTypeOK,
      RecordFits, EndpointsFit, BindingServed, Restart, ShouldRestore, NeedsFormal
<1> QED BY <1>1, <1>2, <1>3, <1>4, <1>5, <1>6, <1>7, <1>8, <1>9, <1>10, <1>11
   DEF IInv, TypeOK

\* The enrollment expires.
LEMMA ExpireKeeps ==
    ASSUME IInv, Expire
    PROVE  IInv'
<1>1. StateTypeOK'
  BY DEF IInv, TypeOK, StateTypeOK, Expire
<1>2. CountTypeOK'
  BY DEF IInv, TypeOK, CountTypeOK, Expire
<1>3. ConnTypeOK'
  BY DEF IInv, TypeOK, ConnTypeOK, Expire
<1>4. RequestTypeOK'
  BY DEF IInv, TypeOK, RequestTypeOK, Expire
<1>5. CountsFit'
  BY DEF IInv, CountsFit, Expire
<1>6. RecordFits'
  BY DEF IInv, RecordFits, Expire
<1>7. RequestsFit'
  BY DEF IInv, RequestsFit, Expire
<1>8. EndpointsFit'
  BY DEF IInv, EndpointsFit, Expire
<1>9. StreamsAuthorized'
  BY DEF IInv, StreamsAuthorized, Expire
<1>10. OneController'
  BY DEF IInv, OneController, Expire
<1>11. BindingServed'
  BY DEF IInv, BindingServed, Expire
<1> QED BY <1>1, <1>2, <1>3, <1>4, <1>5, <1>6, <1>7, <1>8, <1>9, <1>10, <1>11
   DEF IInv, TypeOK

\* The prepared binding expires.
LEMMA LapseKeeps ==
    ASSUME IInv, Lapse
    PROVE  IInv'
<1>1. StateTypeOK'
  BY DEF IInv, TypeOK, StateTypeOK, Lapse
<1>2. CountTypeOK'
  BY DEF IInv, TypeOK, CountTypeOK, Lapse
<1>3. ConnTypeOK'
  BY DEF IInv, TypeOK, ConnTypeOK, Lapse
<1>4. RequestTypeOK'
  BY DEF IInv, TypeOK, RequestTypeOK, Lapse
<1>5. CountsFit'
  BY DEF IInv, CountsFit, Lapse
<1>6. RecordFits'
  BY DEF IInv, RecordFits, Lapse
<1>7. RequestsFit'
  BY DEF IInv, RequestsFit, Lapse
<1>8. EndpointsFit'
  BY DEF IInv, EndpointsFit, Lapse
<1>9. StreamsAuthorized'
  BY DEF IInv, StreamsAuthorized, Lapse
<1>10. OneController'
  BY DEF IInv, OneController, Lapse
<1>11. BindingServed'
  BY DEF IInv, BindingServed, Lapse
<1> QED BY <1>1, <1>2, <1>3, <1>4, <1>5, <1>6, <1>7, <1>8, <1>9, <1>10, <1>11
   DEF IInv, TypeOK

\* A prepare is served.
LEMMA PrepareKeeps ==
    ASSUME IInv, NEW e \in Enrollments, NEW c \in Controllers, NEW ok \in BOOLEAN,
           Prepare(e, c, ok)
    PROVE  IInv'
<1>1. ASSUME NEW started \in BOOLEAN, NEW saved \in BOOLEAN,
             PrepareNew(e, c, started, saved, ok)
      PROVE  IInv'
  BY <1>1, PrepareNewKeeps
<1>2. CASE PrepareAgain(e, c)
  BY <1>2, PrepareAgainKeeps
<1>3. CASE PrepareRefused(e, c)
  BY <1>3, PrepareRefusedKeeps
<1> QED BY <1>1, <1>2, <1>3 DEF Prepare

\* No step changes the invariant.
THEOREM IInvStep == IInv /\ [Next]_vars => IInv'
<1> SUFFICES ASSUME IInv, [Next]_vars PROVE IInv'
  OBVIOUS
<1>1. CASE Operate
  BY <1>1, ConnectReuseKeeps, ConnectIssueKeeps, UnpairKeeps, TearDownKeeps,
     OfflineUnpairKeeps, LegacyPairKeeps, RefreshEndpointKeeps, CloseEphemeralKeeps,
     WatchdogKeeps DEF Operate, Connect
<1>2. CASE Ask
  BY <1>2, PasteKeeps, SendPrepareKeeps, DialKeeps, GrantKeeps, OpenStreamKeeps,
     HangupKeeps, SendCommitKeeps DEF Ask
<1>3. CASE Serve
  BY <1>3, PrepareKeeps, CommitKeeps DEF Serve
<1>4. CASE Environment
  BY <1>4, CrashKeeps, RestartKeeps, ExpireKeeps, LapseKeeps DEF Environment
<1>5. CASE UNCHANGED vars
  BY <1>5 DEF vars, IInv, TypeOK, StateTypeOK, CountTypeOK, ConnTypeOK, RequestTypeOK,
     CountsFit, RecordFits, RequestsFit, EndpointsFit, StreamsAuthorized,
     OneController, BindingServed
<1> QED BY <1>1, <1>2, <1>3, <1>4, <1>5 DEF Next

\* The strengthened invariant holds in every state.
THEOREM Invariance == Spec => []IInv
BY InitKeeps, IInvStep, PTL DEF Spec

\* The variables have their types and the counters their bounds.
THEOREM TypeCorrect == Spec => []TypeOK
<1>1. IInv => TypeOK
  BY DEF IInv
<1> QED BY <1>1, Invariance, PTL

\* No stream outlives its authorization, but for an unpair between its halves.
THEOREM StreamsAreAuthorized == Spec => []StreamsAuthorized
<1>1. IInv => StreamsAuthorized
  BY DEF IInv
<1> QED BY <1>1, Invariance, PTL

\* An enrollment from before a revocation never holds a binding.
THEOREM NothingResurrected == Spec => []NoResurrection
<1>1. IInv => NoResurrection
  BY DEF IInv, RecordFits, NoResurrection
<1> QED BY <1>1, Invariance, PTL

\* A connection string is answered to one controller.
THEOREM OneControllerOnly == Spec => []OneController
<1>1. IInv => OneController
  BY DEF IInv
<1> QED BY <1>1, Invariance, PTL

\* The controller of a live binding has its endpoint.
THEOREM BindingIsServed == Spec => []BindingServed
<1>1. IInv => BindingServed
  BY DEF IInv
<1> QED BY <1>1, Invariance, PTL

\* A listening ephemeral server is current or overdue.
THEOREM EphemeralIsCurrent == Spec => []EphemeralCurrent
<1>1. IInv => EphemeralCurrent
  BY DEF IInv, EndpointsFit, EphemeralCurrent, Overdue
<1> QED BY <1>1, Invariance, PTL

\* What a step may do to the status: only these five change it.
LEMMA StatusSteps ==
    ASSUME IInv, [Next]_vars
    PROVE  \/ UNCHANGED <<status, owner, bid, epoch, won>>
           \/ /\ status # "active" /\ status' \in {"none", "prepared"}
              /\ epoch' = epoch + 1 /\ won' = won
           \/ /\ status' = "revoked" /\ epoch' = epoch + 1 /\ won' = won
           \/ /\ status = "prepared" /\ ~lapsed /\ status' = "active"
              /\ UNCHANGED <<owner, bid>> /\ epoch' = epoch + 1
              /\ won' = [won EXCEPT ![bound] = owner]
<1> DEFINE Safe == \/ UNCHANGED <<status, owner, bid, epoch, won>>
                   \/ /\ status # "active" /\ status' \in {"none", "prepared"}
                      /\ epoch' = epoch + 1 /\ won' = won
                   \/ /\ status' = "revoked" /\ epoch' = epoch + 1 /\ won' = won
                   \/ /\ status = "prepared" /\ ~lapsed /\ status' = "active"
                      /\ UNCHANGED <<owner, bid>> /\ epoch' = epoch + 1
                      /\ won' = [won EXCEPT ![bound] = owner]
<1>1. CASE Operate
  <2>1. ASSUME NEW renew \in BOOLEAN, NEW saved \in BOOLEAN, NEW told \in BOOLEAN,
               ConnectIssue(renew, saved, told)
        PROVE  Safe
    BY <2>1 DEF ConnectIssue, IssueConfig, MayConnect
  <2>2. CASE Unpair \/ OfflineUnpair
    BY <2>2 DEF Unpair, OfflineUnpair, RevokeConfig
  <2>3. CASE ConnectReuse \/ TearDown \/ LegacyPair \/ RefreshEndpoint \/ CloseEphemeral
             \/ Watchdog
    BY <2>3 DEF ConnectReuse, TearDown, LegacyPair, RefreshEndpoint, CloseEphemeral,
       Watchdog
  <2> QED BY <1>1, <2>1, <2>2, <2>3 DEF Operate, Connect
<1>2. CASE Ask
  BY <1>2 DEF Ask, Paste, SendPrepare, Dial, Grant, OpenStream, Hangup, SendCommit
<1>3. CASE Serve
  <2>1. ASSUME NEW e \in Enrollments, NEW c \in Controllers, NEW ok \in BOOLEAN,
               Prepare(e, c, ok)
        PROVE  Safe
    <3>1. won' = won
      BY <2>1 DEF Prepare
    <3>2. ASSUME NEW started \in BOOLEAN, NEW saved \in BOOLEAN,
                 PrepareNew(e, c, started, saved, ok)
          PROVE  Safe
      BY <3>1, <3>2 DEF PrepareNew, PrepareConfig, Available
    <3>3. CASE PrepareAgain(e, c) \/ PrepareRefused(e, c)
      BY <3>1, <3>3 DEF PrepareAgain, PrepareRefused
    <3> QED BY <2>1, <3>2, <3>3 DEF Prepare
  <2>2. ASSUME NEW c \in Controllers, NEW b \in 1..MaxEpoch, NEW ok \in BOOLEAN,
               Commit(c, b, ok)
        PROVE  Safe
    <3>1. ASSUME NEW saved \in BOOLEAN, CommitNew(c, b, saved, ok)
          PROVE  Safe
      BY <3>1 DEF CommitNew, CommitConfig, Activates, Proves
    <3>2. CASE CommitSame(c, b, ok)
      BY <3>2 DEF CommitSame
    <3> QED BY <2>2, <3>1, <3>2 DEF Commit
  <2> QED BY <1>3, <2>1, <2>2 DEF Serve
<1>4. CASE Environment
  BY <1>4 DEF Environment, Crash, Restart, Expire, Lapse
<1>5. CASE UNCHANGED vars
  BY <1>5 DEF vars
<1> QED BY <1>1, <1>2, <1>3, <1>4, <1>5 DEF Next

\* Every change of the binding has an epoch of its own.
THEOREM ChangesFenced == Spec => ChangesAreFenced
<1>1. IInv /\ [Next]_vars =>
         [ /\ epoch' >= epoch
           /\ <<status, owner, bid>>' # <<status, owner, bid>> => epoch' > epoch
         ]_vars
  <2> SUFFICES ASSUME IInv, [Next]_vars
               PROVE  /\ epoch' >= epoch
                      /\ <<status, owner, bid>>' # <<status, owner, bid>> =>
                             epoch' > epoch
    OBVIOUS
  <2>1. epoch \in Nat
    BY DEF IInv, TypeOK, CountTypeOK
  <2>2. UNCHANGED <<status, owner, bid, epoch>> \/ epoch' = epoch + 1
    BY StatusSteps
  <2> QED BY <2>1, <2>2
<1> QED BY <1>1, Invariance, PTL DEF Spec, ChangesAreFenced

\* Only the reservation in force is activated, by its controller.
THEOREM ActivationReserved == Spec => ActivatesReserved
<1>1. IInv /\ [Next]_vars =>
         [ status # "active" /\ status' = "active" =>
              /\ status = "prepared" /\ ~lapsed
              /\ owner' = owner /\ bid' = bid
              /\ answer[owner] \in {0, bid}
         ]_vars
  <2> SUFFICES ASSUME IInv, [Next]_vars, status # "active", status' = "active"
               PROVE  /\ status = "prepared" /\ ~lapsed
                      /\ owner' = owner /\ bid' = bid
                      /\ answer[owner] \in {0, bid}
    OBVIOUS
  <2>1. status = "prepared" /\ ~lapsed /\ owner' = owner /\ bid' = bid
    BY StatusSteps
  <2>2. answer[owner] \in {0, bid}
    BY <2>1 DEF IInv, RecordFits, RequestsFit
  <2> QED BY <2>1, <2>2
<1> QED BY <1>1, Invariance, PTL DEF Spec, ActivatesReserved

\* The binding state machine implements the promise of AccessGrant: a saved
\* commit grants, a revocation of an active binding releases, and every other
\* step leaves the abstract state alone.
THEOREM GrantImplemented == Spec => GrantSpec
<1> DEFINE Holder == IF status = "active" THEN owner ELSE None
           Spent  == {e \in Enrollments : won[e] # None}
<1>1. Init => Promise!Init
  BY DEF Init, Promise!Init
<1>2. IInv /\ [Next]_vars => [Promise!Next]_<<Holder, Spent>>
  <2> SUFFICES ASSUME IInv, [Next]_vars
               PROVE  Promise!Next \/ UNCHANGED <<Holder, Spent>>
    OBVIOUS
  <2>1. CASE UNCHANGED <<status, owner, won>>
    BY <2>1
  <2>2. CASE status # "active" /\ status' \in {"none", "prepared"} /\ won' = won
    BY <2>2
  <2>3. CASE status' = "revoked" /\ won' = won
    <3>1. CASE status = "active"
      <4>1. owner \in Controllers
        BY <3>1 DEF IInv, RecordFits
      <4> QED BY <2>3, <3>1, <4>1 DEF Promise!Next, Promise!Release
    <3>2. CASE status # "active"
      BY <2>3, <3>2
    <3> QED BY <3>1, <3>2
  <2>4. CASE /\ status = "prepared" /\ status' = "active" /\ owner' = owner
             /\ won' = [won EXCEPT ![bound] = owner]
    <3>1. /\ owner \in Controllers
          /\ bound \in Enrollments /\ won[bound] = None
      BY <2>4 DEF IInv, RecordFits, TypeOK, CountTypeOK
    <3>2. won \in [Enrollments -> Controllers \cup {None}]
      BY DEF IInv, TypeOK, RequestTypeOK
    <3>3. Spent' = Spent \cup {bound} /\ bound \notin Spent
      BY <2>4, <3>1, <3>2
    <3>4. Holder = None /\ Holder' = owner
      BY <2>4
    <3> QED BY <3>1, <3>3, <3>4 DEF Promise!Next, Promise!Grant
  <2> QED BY <2>1, <2>2, <2>3, <2>4, StatusSteps
<1> QED BY <1>1, <1>2, Invariance, PTL DEF Spec, GrantSpec, Promise!Spec

----------------------------------------------------------------------------
(* The website, its workers and the agent.                                 *)

USE EnrollmentAssumption

\* What the agent's steps keep of what it told a controller, and of whom an
\* enrollment bound.
LEMMA AgentKeepsWord ==
    ASSUME IInv, [Next]_vars
    PROVE  /\ \A c \in Controllers : answer[c] # 0 => answer'[c] = answer[c]
           /\ \A c \in Controllers : holds[c] # 0 => holds'[c] = holds[c]
           /\ \A e \in Enrollments : won[e] # None => won'[e] = won[e]
<1>0. /\ answer \in [Controllers -> 0..MaxEpoch]
      /\ holds \in [Controllers -> 0..MaxIssued]
      /\ won \in [Enrollments -> Controllers \cup {None}]
  BY DEF IInv, TypeOK, RequestTypeOK
<1>1. \A e \in Enrollments : won[e] # None => won'[e] = won[e]
  <2>1. CASE status = "prepared" /\ won' = [won EXCEPT ![bound] = owner]
    <3>1. bound \in Enrollments /\ won[bound] = None
      BY <2>1 DEF IInv, RecordFits, TypeOK, CountTypeOK
    <3> QED BY <1>0, <2>1, <3>1
  <2> QED BY <2>1, StatusSteps
<1> DEFINE Kept == /\ \A c \in Controllers : answer[c] # 0 => answer'[c] = answer[c]
                   /\ \A c \in Controllers : holds[c] # 0 => holds'[c] = holds[c]
<1>2. CASE Operate
  <2>1. UNCHANGED <<answer, holds>>
    BY <1>2 DEF Operate, Connect, ConnectReuse, ConnectIssue, Unpair, TearDown,
       OfflineUnpair, LegacyPair, RefreshEndpoint, CloseEphemeral, Watchdog
  <2> QED BY <1>1, <2>1
<1>3. CASE Ask
  <2>1. answer' = answer
    BY <1>3 DEF Ask, Paste, SendPrepare, Dial, Grant, OpenStream, Hangup, SendCommit
  <2>2. \/ holds' = holds
        \/ \E c \in Controllers : holds[c] = 0 /\ holds' = [holds EXCEPT ![c] = enrollment]
    BY <1>3 DEF Ask, Paste, SendPrepare, Dial, Grant, OpenStream, Hangup, SendCommit
  <2> QED BY <1>0, <1>1, <2>1, <2>2
<1>4. CASE Serve
  <2>0. holds' = holds
    BY <1>4 DEF Serve, Prepare, Commit
  <2>1. ASSUME NEW e \in Enrollments, NEW c \in Controllers, NEW ok \in BOOLEAN,
               Prepare(e, c, ok)
        PROVE  Kept
    <3>0. <<e, c>> \in prepares /\ holds[c] = e /\ e # 0
      BY <2>1 DEF Prepare, IInv, RequestsFit
    <3>1. ASSUME NEW started \in BOOLEAN, NEW saved \in BOOLEAN,
                 PrepareNew(e, c, started, saved, ok)
          PROVE  Kept
      <4>1. status # "prepared" /\ enrollment = e
        BY <3>1 DEF PrepareNew, Available
      <4>2. answer[c] = 0
        BY <3>0, <4>1 DEF IInv, RequestsFit
      <4>3. answer' = answer \/ answer' = [answer EXCEPT ![c] = epoch + 1]
        BY <3>1 DEF PrepareNew, Answered
      <4> QED BY <1>0, <2>0, <4>2, <4>3
    <3>2. CASE PrepareAgain(e, c)
      <4>1. answer' = [answer EXCEPT ![c] = bid]
        BY <3>2 DEF PrepareAgain, Answered
      <4>2. answer[c] # 0 => answer[c] = bid
        BY <3>0, <3>2 DEF PrepareAgain, Repeats, IInv, RequestsFit
      <4> QED BY <1>0, <2>0, <4>1, <4>2
    <3>3. CASE PrepareRefused(e, c)
      BY <2>0, <3>3 DEF PrepareRefused
    <3> QED BY <2>1, <3>1, <3>2, <3>3 DEF Prepare
  <2>2. ASSUME NEW c \in Controllers, NEW b \in 1..MaxEpoch, NEW ok \in BOOLEAN,
               Commit(c, b, ok)
        PROVE  Kept
    BY <2>2 DEF Commit
  <2>3. Kept
    BY <1>4, <2>1, <2>2 DEF Serve
  <2> QED BY <1>1, <2>3
<1>5. CASE Environment
  BY <1>1, <1>5 DEF Environment, Crash, Restart, Expire, Lapse
<1>6. CASE UNCHANGED vars
  BY <1>6 DEF vars
<1> QED BY <1>2, <1>3, <1>4, <1>5, <1>6 DEF Next

\* A binding ID stays that of the controller it was answered to.
LEMMA AgentKeepsBids ==
    ASSUME IInv, BidsFit, [Next]_vars
    PROVE  BidsFit'
<1>0. /\ answer \in [Controllers -> 0..MaxEpoch]
      /\ epoch \in Nat /\ bid \in Nat /\ bid <= epoch
      /\ \A c \in Controllers : answer[c] \in Nat /\ answer[c] <= epoch
  BY DEF IInv, TypeOK, CountTypeOK, RequestTypeOK, CountsFit, BidsFit
<1>1. epoch' = epoch \/ epoch' = epoch + 1
  BY StatusSteps
<1>2. CASE UNCHANGED <<answer, owner, bid>>
  BY <1>0, <1>1, <1>2 DEF BidsFit
<1>3. CASE Operate
  <2>1. ASSUME NEW renew \in BOOLEAN, NEW saved \in BOOLEAN, NEW told \in BOOLEAN,
               ConnectIssue(renew, saved, told)
        PROVE  BidsFit'
    <3>1. UNCHANGED <<answer, owner, bid>> \/ (answer' = answer /\ bid' = 0)
      BY <2>1 DEF ConnectIssue, IssueConfig
    <3> QED BY <1>0, <1>1, <1>2, <3>1 DEF BidsFit
  <2>2. CASE Unpair \/ OfflineUnpair
    BY <1>2, <2>2 DEF Unpair, OfflineUnpair, RevokeConfig
  <2>3. CASE ConnectReuse \/ TearDown \/ LegacyPair \/ RefreshEndpoint \/ CloseEphemeral
             \/ Watchdog
    BY <1>2, <2>3 DEF ConnectReuse, TearDown, LegacyPair, RefreshEndpoint,
       CloseEphemeral, Watchdog
  <2> QED BY <1>3, <2>1, <2>2, <2>3 DEF Operate, Connect
<1>4. CASE Ask
  BY <1>2, <1>4 DEF Ask, Paste, SendPrepare, Dial, Grant, OpenStream, Hangup, SendCommit
<1>5. CASE Serve
  <2>1. ASSUME NEW e \in Enrollments, NEW c \in Controllers, NEW ok \in BOOLEAN,
               Prepare(e, c, ok)
        PROVE  BidsFit'
    <3>1. ASSUME NEW started \in BOOLEAN, NEW saved \in BOOLEAN,
                 PrepareNew(e, c, started, saved, ok)
          PROVE  BidsFit'
      <4>1. CASE saved
        <5>1. owner' = c /\ bid' = epoch + 1 /\ epoch' = epoch + 1
          BY <3>1, <4>1 DEF PrepareNew, PrepareConfig
        <5>2. answer' = answer \/ answer' = [answer EXCEPT ![c] = epoch + 1]
          BY <3>1 DEF PrepareNew, Answered
        <5>3. \A d \in Controllers : answer'[d] = answer[d] \/ (d = c /\ answer'[d] = epoch + 1)
          BY <1>0, <5>2
        <5> QED BY <1>0, <5>1, <5>3 DEF BidsFit
      <4>2. CASE ~saved
        BY <1>2, <3>1, <4>2 DEF PrepareNew, Answered
      <4> QED BY <4>1, <4>2
    <3>2. CASE PrepareAgain(e, c)
      <4>1. owner = c /\ UNCHANGED <<owner, bid, epoch>>
        BY <3>2 DEF PrepareAgain, Repeats
      <4>2. answer' = [answer EXCEPT ![c] = bid]
        BY <3>2 DEF PrepareAgain, Answered
      <4>3. \A d \in Controllers : answer'[d] = answer[d] \/ (d = c /\ answer'[d] = bid)
        BY <1>0, <4>2
      <4> QED BY <1>0, <4>1, <4>3 DEF BidsFit
    <3>3. CASE PrepareRefused(e, c)
      BY <1>2, <3>3 DEF PrepareRefused
    <3> QED BY <2>1, <3>1, <3>2, <3>3 DEF Prepare
  <2>2. ASSUME NEW c \in Controllers, NEW b \in 1..MaxEpoch, NEW ok \in BOOLEAN,
               Commit(c, b, ok)
        PROVE  BidsFit'
    BY <1>2, <2>2 DEF Commit, CommitNew, CommitConfig, CommitSame
  <2> QED BY <1>5, <2>1, <2>2 DEF Serve
<1>6. CASE Environment
  BY <1>2, <1>6 DEF Environment, Crash, Restart, Expire, Lapse
<1>7. CASE UNCHANGED vars
  BY <1>2, <1>7 DEF vars
<1> QED BY <1>3, <1>4, <1>5, <1>6, <1>7 DEF Next

\* An activation answers a request of the controller that gets access.
LEMMA ActivationAsked ==
    ASSUME IInv, [Next]_vars, status' = "active"
    PROVE  \/ status = "active" /\ owner' = owner
           \/ \E r \in commits : r[1] = owner'
<1> DEFINE Safe == \/ status = "active" /\ owner' = owner
                   \/ \E r \in commits : r[1] = owner'
<1>1. CASE UNCHANGED <<status, owner>>
  BY <1>1
<1>2. ASSUME NEW c \in Controllers, NEW b \in 1..MaxEpoch, NEW ok \in BOOLEAN,
             Commit(c, b, ok)
      PROVE  Safe
  <2>1. <<c, b>> \in commits /\ <<c, b>>[1] = c
    BY <1>2 DEF Commit
  <2>2. ASSUME NEW saved \in BOOLEAN, CommitNew(c, b, saved, ok)
        PROVE  Safe
    BY <1>1, <2>1, <2>2 DEF CommitNew, CommitConfig, Activates, Proves
  <2>3. CASE CommitSame(c, b, ok)
    BY <1>1, <2>3 DEF CommitSame
  <2> QED BY <1>2, <2>2, <2>3 DEF Commit
<1>3. CASE Serve
  <2>1. ASSUME NEW e \in Enrollments, NEW c \in Controllers, NEW ok \in BOOLEAN,
               Prepare(e, c, ok)
        PROVE  Safe
    <3>1. ASSUME NEW started \in BOOLEAN, NEW saved \in BOOLEAN,
                 PrepareNew(e, c, started, saved, ok)
          PROVE  Safe
      BY <1>1, <3>1 DEF PrepareNew, PrepareConfig
    <3>2. CASE PrepareAgain(e, c) \/ PrepareRefused(e, c)
      BY <1>1, <3>2 DEF PrepareAgain, PrepareRefused
    <3> QED BY <2>1, <3>1, <3>2 DEF Prepare
  <2> QED BY <1>2, <1>3, <2>1 DEF Serve
<1>4. CASE Operate
  <2>1. ASSUME NEW renew \in BOOLEAN, NEW saved \in BOOLEAN, NEW told \in BOOLEAN,
               ConnectIssue(renew, saved, told)
        PROVE  Safe
    BY <1>1, <2>1 DEF ConnectIssue, IssueConfig
  <2>2. CASE ~Connect \/ ConnectReuse
    BY <1>1, <1>4, <2>2 DEF Operate, ConnectReuse, Unpair, TearDown, OfflineUnpair,
       RevokeConfig, LegacyPair, RefreshEndpoint, CloseEphemeral, Watchdog
  <2> QED BY <1>4, <2>1, <2>2 DEF Connect
<1>5. CASE Ask
  BY <1>1, <1>5 DEF Ask, Paste, SendPrepare, Dial, Grant, OpenStream, Hangup, SendCommit
<1>6. CASE Environment
  BY <1>1, <1>6 DEF Environment, Crash, Restart, Expire, Lapse
<1>7. CASE UNCHANGED vars
  BY <1>1, <1>7 DEF vars
<1> QED BY <1>3, <1>4, <1>5, <1>6, <1>7 DEF Next

\* A request to commit enters the agent only when it is sent.
LEMMA CommitsEnter ==
    ASSUME [Next]_vars, NEW r \in commits' \ commits
    PROVE  \E n \in Conns : peer[n] # None /\ r[1] = peer[n]
<1>1. CASE Operate
  BY <1>1 DEF Operate, Connect, ConnectReuse, ConnectIssue, Unpair, TearDown,
     OfflineUnpair, LegacyPair, RefreshEndpoint, CloseEphemeral, Watchdog
<1>2. CASE Ask
  BY <1>2 DEF Ask, Paste, SendPrepare, Dial, Grant, OpenStream, Hangup, SendCommit
<1>3. CASE Serve
  BY <1>3 DEF Serve, Prepare, Commit
<1>4. CASE Environment
  BY <1>4 DEF Environment, Crash, Restart, Expire, Lapse
<1>5. CASE UNCHANGED vars
  BY <1>5 DEF vars
<1> QED BY <1>1, <1>2, <1>3, <1>4, <1>5 DEF Next

(***************************************************************************)
(* Steps of the system are steps of the agent                              *)
(***************************************************************************)
\* A worker's steps: three of them ask the agent for something.
LEMMA WorkerSteps ==
    ASSUME SystemInv, NEW t \in Tasks, Worker(t)
    PROVE  [Next]_vars
<1>1. CASE CheckCreate(t) \/ Create(t) \/ Start(t) \/ StartFails(t)
  BY <1>1 DEF CheckCreate, Create, Start, StartFails
<1>2. CASE RequestPrepare(t)
  BY <1>2 DEF RequestPrepare, Next, Ask
<1>3. CASE SavePrepared(t) \/ PrepareFails(t) \/ FailEnrollment(t) \/ MarkCommitting(t)
  BY <1>3 DEF SavePrepared, PrepareFails, FailEnrollment, MarkCommitting
<1>4. ASSUME NEW n \in Conns, DialFormal(t, n)
      PROVE  [Next]_vars
  BY <1>4 DEF DialFormal, Next, Ask
<1>5. ASSUME NEW n \in Conns, ReadStatus(t, n)
      PROVE  [Next]_vars
  BY <1>5 DEF ReadStatus
<1>6. ASSUME NEW n \in Conns, RequestCommit(t, n)
      PROVE  [Next]_vars
  <2>1. phase[t] = "committing"
    BY <1>6 DEF RequestCommit, SystemInv, TaskFits, CommitWork
  <2>2. taskBid[t] = answer[t] /\ answer[t] # 0
    BY <2>1 DEF SystemInv, TaskFits
  <2>3. peer[n] = t /\ SendCommit(n, answer[peer[n]]) /\ peer[n] # None
    BY <1>6, <2>2 DEF RequestCommit, SendCommit
  <2>4. answer[t] \in 1..MaxEpoch
    BY <2>2 DEF SystemInv, IInv, TypeOK, RequestTypeOK
  <2>5. Ask
    BY <2>3, <2>4 DEF Ask
  <2> QED BY <2>5 DEF Next
<1>7. CASE AbandonCommit(t) \/ FinalizeActive(t) \/ Vanish(t)
  BY <1>7 DEF AbandonCommit, FinalizeActive, Vanish
<1> QED BY <1>1, <1>2, <1>3, <1>4, <1>5, <1>6, <1>7 DEF Worker

\* So are those of other websites, which send the ID they were answered.
LEMMA StrangerSteps ==
    ASSUME SystemInv, NEW c \in Controllers, Stranger(c)
    PROVE  [Next]_vars
<1>1. CASE SendPrepare(c) \/ \E n \in Conns : Dial(n, c)
  BY <1>1 DEF Next, Ask
<1>2. ASSUME NEW n \in Conns, peer[n] = c, answer[c] # 0, SendCommit(n, answer[c])
      PROVE  [Next]_vars
  <2>1. answer[c] \in 1..MaxEpoch /\ peer[n] # None
    BY <1>2 DEF SystemInv, IInv, TypeOK, RequestTypeOK
  <2> QED BY <1>2, <2>1 DEF Next, Ask
<1>3. CASE \/ \E e \in Enrollments, ok \in BOOLEAN : Prepare(e, c, ok)
           \/ \E b \in 1..MaxEpoch, ok \in BOOLEAN : Commit(c, b, ok)
  BY <1>3 DEF Next, Serve
<1> QED BY <1>1, <1>2, <1>3 DEF Stranger

\* Whatever the system does, the agent takes one of its own steps or none.
LEMMA AgentSteps ==
    ASSUME SystemInv, [SystemNext]_allVars
    PROVE  [Next]_vars
<1>1. CASE Agent
  BY <1>1 DEF Agent, Next, Ask
<1>2. CASE AgentServes
  BY <1>2 DEF AgentServes, PrepareServed, CommitServed, Next, Serve
<1>3. CASE DeleteHost
  BY <1>3 DEF DeleteHost
<1>4. CASE UNCHANGED allVars
  BY <1>4 DEF allVars
<1> QED BY <1>1, <1>2, <1>3, <1>4, WorkerSteps, StrangerSteps DEF SystemNext

(***************************************************************************)
(* What the store has of a task                                            *)
(***************************************************************************)
\* Web variables that stay as they are.
Stays(t) == phase'[t] = phase[t] /\ taskBid'[t] = taskBid[t] /\ work'[t] = work[t]

\* A step of the agent leaves a task as it is, unless it has its request to
\* commit sent.
LEMMA TaskKept ==
    ASSUME SystemInv, [Next]_vars, NEW t \in Tasks, Stays(t),
           \A r \in commits' \ commits : r[1] # t
    PROVE  TaskFits(t)'
<1>0. TaskFits(t) /\ t \in Controllers
  BY DEF SystemInv
<1>1. phase[t] \in {"absent", "pending"} => taskBid'[t] = 0
  BY <1>0 DEF TaskFits, Stays
<1>2. answer[t] # 0 => answer'[t] = answer[t]
  BY AgentKeepsWord, <1>0 DEF SystemInv
<1>3. work[t] = "finalize" \/ phase[t] = "active" =>
          holds'[t] # 0 /\ won'[holds'[t]] = t
  <2> SUFFICES ASSUME work[t] = "finalize" \/ phase[t] = "active"
               PROVE  holds'[t] # 0 /\ won'[holds'[t]] = t
    OBVIOUS
  <2>1. holds[t] # 0 /\ won[holds[t]] = t
    BY <1>0 DEF TaskFits
  <2>2. holds[t] \in Enrollments /\ t # None
    BY <2>1, <1>0 DEF SystemInv, IInv, TypeOK, RequestTypeOK
  <2>3. holds'[t] = holds[t] /\ won'[holds[t]] = won[holds[t]]
    BY <1>0, <2>1, <2>2, AgentKeepsWord DEF SystemInv
  <2> QED BY <2>1, <2>3
<1>4. \A r \in commits' : r[1] = t => phase[t] \in {"committing", "active"}
  BY <1>0 DEF TaskFits
<1> QED BY <1>0, <1>1, <1>2, <1>3, <1>4 DEF TaskFits, Stays

\* A task that may have been bound is not given up, and only a task that
\* finds none in flight takes off.
Progress(t) ==
    /\ phase[t] \in {"committing", "active"} => phase'[t] \in {"committing", "active"}
    /\ t \in InFlight' => t \in InFlight \/ InFlight = {}

USE DEF Phases, PrepareWork, CommitWork, Works, Goes

\* The types, as facts about each task.
LEMMA TaskTypes ==
    ASSUME SystemInv, NEW t \in Tasks
    PROVE  /\ phase \in [Tasks -> Phases] /\ taskBid \in [Tasks -> 0..MaxEpoch]
           /\ work \in [Tasks -> Works] /\ host \in Tasks \cup {None}
           /\ work[t] = "checking" => phase[t] = "absent"
           /\ work[t] \in PrepareWork => phase[t] = "pending" /\ taskBid[t] = 0
           /\ work[t] \in CommitWork => phase[t] \in {"prepared", "committing"}
           /\ TaskFits(t)
BY DEF SystemInv, WebTypeOK

\* The request for a task finds none in flight.
LEMMA CheckCreateKeeps ==
    ASSUME SystemInv, NEW t \in Tasks, CheckCreate(t)
    PROVE  WebTypeOK' /\ TaskFits(t)' /\ Progress(t)
<1>1. UNCHANGED <<answer, commits, holds, won>>
  BY DEF CheckCreate, vars
<1>2. WebTypeOK'
  BY TaskTypes DEF CheckCreate, SystemInv, WebTypeOK
<1>3. TaskFits(t)'
  BY <1>1, TaskTypes DEF CheckCreate, TaskFits
<1>4. Progress(t)
  BY TaskTypes DEF CheckCreate, Progress, InFlight
<1> QED BY <1>2, <1>3, <1>4

\* The task is inserted, or the index refuses it.
LEMMA CreateKeeps ==
    ASSUME SystemInv, NEW t \in Tasks, Create(t)
    PROVE  WebTypeOK' /\ TaskFits(t)' /\ Progress(t)
<1>1. UNCHANGED <<answer, commits, holds, won>>
  BY DEF Create, vars
<1>2. WebTypeOK'
  BY TaskTypes DEF Create, SystemInv, WebTypeOK
<1>3. TaskFits(t)'
  BY <1>1, TaskTypes DEF Create, TaskFits
<1>4. Progress(t)
  BY TaskTypes DEF Create, Progress, InFlight
<1> QED BY <1>2, <1>3, <1>4

\* A poll starts a worker.
LEMMA StartKeeps ==
    ASSUME SystemInv, NEW t \in Tasks, Start(t)
    PROVE  WebTypeOK' /\ TaskFits(t)' /\ Progress(t)
<1>1. UNCHANGED <<answer, commits, holds, won>>
  BY DEF Start, vars
<1>2. WebTypeOK'
  <2>1. CASE phase[t] = "pending"
    BY <2>1, TaskTypes DEF Start, SystemInv, WebTypeOK, TaskFits
  <2>2. CASE phase[t] \in {"prepared", "committing"}
    <3>1. taskBid[t] # 0
      BY <2>2, TaskTypes DEF TaskFits
    <3> QED BY <2>2, <3>1, TaskTypes DEF Start, SystemInv, WebTypeOK
  <2> QED BY <2>1, <2>2, TaskTypes DEF Start, InFlight
<1>3. TaskFits(t)'
  BY <1>1, TaskTypes DEF Start, TaskFits
<1>4. Progress(t)
  BY TaskTypes DEF Start, Progress, InFlight
<1> QED BY <1>2, <1>3, <1>4

\* The answer to the prepare is saved.
LEMMA SavePreparedKeeps ==
    ASSUME SystemInv, NEW t \in Tasks, SavePrepared(t)
    PROVE  WebTypeOK' /\ TaskFits(t)' /\ Progress(t)
<1>1. UNCHANGED <<answer, commits, holds, won>>
  BY DEF SavePrepared, vars
<1>2. WebTypeOK'
  <2>1. answer[t] \in 0..MaxEpoch
    BY DEF SystemInv, IInv, TypeOK, RequestTypeOK
  <2> QED BY <2>1, TaskTypes DEF SavePrepared, SystemInv, WebTypeOK
<1>3. TaskFits(t)'
  BY <1>1, TaskTypes DEF SavePrepared, TaskFits
<1>4. Progress(t)
  BY TaskTypes DEF SavePrepared, Progress, InFlight
<1> QED BY <1>2, <1>3, <1>4

\* The prepare fails.
LEMMA PrepareFailsKeeps ==
    ASSUME SystemInv, NEW t \in Tasks, PrepareFails(t)
    PROVE  WebTypeOK' /\ TaskFits(t)' /\ Progress(t)
<1>1. UNCHANGED <<answer, commits, holds, won>>
  BY DEF PrepareFails, vars
<1>2. WebTypeOK'
  BY TaskTypes DEF PrepareFails, SystemInv, WebTypeOK
<1>3. TaskFits(t)'
  BY <1>1, TaskTypes DEF PrepareFails, TaskFits
<1>4. Progress(t)
  BY TaskTypes DEF PrepareFails, Progress, InFlight
<1> QED BY <1>2, <1>3, <1>4

\* A worker that cannot begin fails its task, unless the task is committing.
LEMMA StartFailsKeeps ==
    ASSUME SystemInv, NEW t \in Tasks, StartFails(t)
    PROVE  WebTypeOK' /\ TaskFits(t)' /\ Progress(t)
<1>1. UNCHANGED <<answer, commits, holds, won>>
  BY DEF StartFails, vars
<1>2. WebTypeOK'
  BY TaskTypes DEF StartFails, SystemInv, WebTypeOK
<1>3. TaskFits(t)'
  <2>1. CASE phase[t] = "committing"
    BY <1>1, <2>1, TaskTypes DEF StartFails, TaskFits, vars
  <2>2. CASE phase[t] # "committing"
    <3>1. phase' = [phase EXCEPT ![t] = "failed"] /\ phase[t] # "active" /\ UNCHANGED <<commits, work>> /\ work[t] = "idle"
      BY <2>2 DEF StartFails, vars, InFlight
    <3>2. phase'[t] = "failed" /\ work'[t] = "idle"
      BY <3>1, TaskTypes
    <3>3. \A r \in commits' : r[1] # t
      BY <2>2, <3>1, TaskTypes DEF TaskFits
    <3> QED BY <3>2, <3>3 DEF TaskFits, CommitWork
  <2> QED BY <2>1, <2>2
<1>4. Progress(t)
  BY TaskTypes DEF StartFails, Progress, InFlight
<1> QED BY <1>2, <1>3, <1>4

\* The failure is recorded.
LEMMA FailEnrollmentKeeps ==
    ASSUME SystemInv, NEW t \in Tasks, FailEnrollment(t)
    PROVE  WebTypeOK' /\ TaskFits(t)' /\ Progress(t)
<1>1. UNCHANGED <<answer, commits, holds, won>>
  BY DEF FailEnrollment, vars
<1>2. WebTypeOK'
  BY TaskTypes DEF FailEnrollment, SystemInv, WebTypeOK
<1>3. TaskFits(t)'
  BY <1>1, TaskTypes DEF FailEnrollment, TaskFits
<1>4. Progress(t)
  BY TaskTypes DEF FailEnrollment, Progress, InFlight
<1> QED BY <1>2, <1>3, <1>4

\* The task is marked before the agent is asked to commit.
LEMMA MarkCommittingKeeps ==
    ASSUME SystemInv, NEW t \in Tasks, MarkCommitting(t)
    PROVE  WebTypeOK' /\ TaskFits(t)' /\ Progress(t)
<1>1. UNCHANGED <<answer, commits, holds, won>>
  BY DEF MarkCommitting, vars
<1>2. WebTypeOK'
  BY TaskTypes DEF MarkCommitting, SystemInv, WebTypeOK
<1>3. TaskFits(t)'
  BY <1>1, TaskTypes DEF MarkCommitting, TaskFits
<1>4. Progress(t)
  BY TaskTypes DEF MarkCommitting, Progress, InFlight
<1> QED BY <1>2, <1>3, <1>4

\* The commit is left to the next worker.
LEMMA AbandonCommitKeeps ==
    ASSUME SystemInv, NEW t \in Tasks, AbandonCommit(t)
    PROVE  WebTypeOK' /\ TaskFits(t)' /\ Progress(t)
<1>1. UNCHANGED <<answer, commits, holds, won>>
  BY DEF AbandonCommit, vars
<1>2. WebTypeOK'
  BY TaskTypes DEF AbandonCommit, SystemInv, WebTypeOK
<1>3. TaskFits(t)'
  BY <1>1, TaskTypes DEF AbandonCommit, TaskFits
<1>4. Progress(t)
  BY TaskTypes DEF AbandonCommit, Progress, InFlight
<1> QED BY <1>2, <1>3, <1>4

\* The host is written.
LEMMA FinalizeActiveKeeps ==
    ASSUME SystemInv, NEW t \in Tasks, FinalizeActive(t)
    PROVE  WebTypeOK' /\ TaskFits(t)' /\ Progress(t)
<1>1. UNCHANGED <<answer, commits, holds, won>>
  BY DEF FinalizeActive, vars
<1>2. WebTypeOK'
  BY TaskTypes DEF FinalizeActive, SystemInv, WebTypeOK
<1>3. TaskFits(t)'
  BY <1>1, TaskTypes DEF FinalizeActive, TaskFits
<1>4. Progress(t)
  BY TaskTypes DEF FinalizeActive, Progress, InFlight
<1> QED BY <1>2, <1>3, <1>4

\* The worker is gone.
LEMMA VanishKeeps ==
    ASSUME SystemInv, NEW t \in Tasks, Vanish(t)
    PROVE  WebTypeOK' /\ TaskFits(t)' /\ Progress(t)
<1>1. UNCHANGED <<answer, commits, holds, won>>
  BY DEF Vanish, vars
<1>2. WebTypeOK'
  BY TaskTypes DEF Vanish, SystemInv, WebTypeOK
<1>3. TaskFits(t)'
  BY <1>1, TaskTypes DEF Vanish, TaskFits
<1>4. Progress(t)
  BY TaskTypes DEF Vanish, Progress, InFlight
<1> QED BY <1>2, <1>3, <1>4

\* The agent is asked to prepare.
LEMMA RequestPrepareKeeps ==
    ASSUME SystemInv, NEW t \in Tasks, RequestPrepare(t)
    PROVE  WebTypeOK' /\ TaskFits(t)' /\ Progress(t)
<1>1. UNCHANGED <<answer, commits, holds, won>>
  BY DEF RequestPrepare, SendPrepare
<1>2. WebTypeOK'
  BY TaskTypes DEF RequestPrepare, SystemInv, WebTypeOK
<1>3. TaskFits(t)'
  BY <1>1, TaskTypes DEF RequestPrepare, TaskFits
<1>4. Progress(t)
  BY TaskTypes DEF RequestPrepare, Progress, InFlight
<1> QED BY <1>2, <1>3, <1>4

\* The worker connects to the formal endpoint.
LEMMA DialFormalKeeps ==
    ASSUME SystemInv, NEW t \in Tasks, NEW n \in Conns, DialFormal(t, n)
    PROVE  WebTypeOK' /\ TaskFits(t)' /\ Progress(t)
<1>1. UNCHANGED <<answer, commits, holds, won>>
  BY DEF DialFormal, Dial
<1>2. WebTypeOK'
  BY TaskTypes DEF DialFormal, SystemInv, WebTypeOK
<1>3. TaskFits(t)'
  BY <1>1, TaskTypes DEF DialFormal, TaskFits
<1>4. Progress(t)
  BY TaskTypes DEF DialFormal, Progress, InFlight
<1> QED BY <1>2, <1>3, <1>4

\* An active binding belongs to the controller with its ID, by the
\* enrollment that controller holds.
LEMMA ActiveIsWon ==
    ASSUME SystemInv, status = "active", NEW c \in Controllers, owner = c
    PROVE  holds[c] # 0 /\ won[holds[c]] = c
BY DEF SystemInv, IInv, TypeOK, CountTypeOK, RecordFits, RequestsFit

\* The worker asks whether the binding is active already: then it is that of
\* its task.
LEMMA ReadStatusKeeps ==
    ASSUME SystemInv, NEW t \in Tasks, NEW n \in Conns, ReadStatus(t, n)
    PROVE  WebTypeOK' /\ TaskFits(t)' /\ Progress(t)
<1>1. UNCHANGED <<answer, commits, holds, won>>
  BY DEF ReadStatus, vars
<1>2. WebTypeOK'
  BY TaskTypes DEF ReadStatus, SystemInv, WebTypeOK
<1>3. TaskFits(t)'
  <2>1. phase[t] = "committing"
    BY TaskTypes DEF ReadStatus, TaskFits
  <2>2. CASE AlreadyActive(t, n)
    <3>1. status = "active" /\ bid = answer[t] /\ answer[t] # 0
      BY <2>1, <2>2, TaskTypes DEF AlreadyActive, TaskFits
    <3>2. owner = t
      BY <3>1 DEF SystemInv, BidsFit
    <3>3. holds[t] # 0 /\ won[holds[t]] = t
      BY <3>1, <3>2, ActiveIsWon
    <3> QED BY <1>1, <2>1, <2>2, <3>3, TaskTypes DEF ReadStatus, TaskFits
  <2>3. CASE ~AlreadyActive(t, n)
    BY <1>1, <2>1, <2>3, TaskTypes DEF ReadStatus, TaskFits
  <2> QED BY <2>2, <2>3
<1>4. Progress(t)
  BY TaskTypes DEF ReadStatus, Progress, InFlight
<1> QED BY <1>2, <1>3, <1>4

\* The worker asks the agent to commit: its task is marked.
LEMMA RequestCommitKeeps ==
    ASSUME SystemInv, NEW t \in Tasks, NEW n \in Conns, RequestCommit(t, n)
    PROVE  WebTypeOK' /\ TaskFits(t)' /\ Progress(t)
<1>1. UNCHANGED <<answer, holds, won>>
  BY DEF RequestCommit, SendCommit
<1>2. WebTypeOK'
  BY TaskTypes DEF RequestCommit, SystemInv, WebTypeOK
<1>3. TaskFits(t)'
  <2>1. phase[t] = "committing"
    BY TaskTypes DEF RequestCommit, TaskFits
  <2> QED BY <1>1, <2>1, TaskTypes DEF RequestCommit, TaskFits
<1>4. Progress(t)
  BY TaskTypes DEF RequestCommit, Progress, InFlight
<1> QED BY <1>2, <1>3, <1>4

\* An answer with the exit status of success carries a binding ID.
LEMMA PrepareAnswers ==
    ASSUME IInv, NEW e \in Enrollments, NEW c \in Controllers, Prepare(e, c, TRUE)
    PROVE  answer'[c] # 0
<1>0. answer \in [Controllers -> 0..MaxEpoch] /\ epoch \in Nat
  BY DEF IInv, TypeOK, CountTypeOK, RequestTypeOK
<1>1. ASSUME NEW started \in BOOLEAN, NEW saved \in BOOLEAN,
             PrepareNew(e, c, started, saved, TRUE)
      PROVE  answer'[c] # 0
  BY <1>0, <1>1 DEF PrepareNew, Answered
<1>2. CASE PrepareAgain(e, c)
  <2>1. bid > 0 /\ bid \in Nat
    BY <1>2 DEF PrepareAgain, Repeats, IInv, RecordFits, TypeOK, CountTypeOK
  <2> QED BY <1>0, <1>2, <2>1 DEF PrepareAgain, Answered
<1> QED BY <1>1, <1>2 DEF Prepare

\* The agent serves a prepare; the worker gets the answer or not.
LEMMA PrepareServedKeeps ==
    ASSUME SystemInv, [Next]_vars, NEW t \in Tasks, NEW ok \in BOOLEAN,
           PrepareServed(t, ok)
    PROVE  WebTypeOK' /\ TaskFits(t)' /\ Progress(t)
<1>1. commits' = commits
  BY DEF PrepareServed, Prepare
<1>2. WebTypeOK'
  BY TaskTypes DEF PrepareServed, SystemInv, WebTypeOK
<1>3. TaskFits(t)'
  <2>1. CASE work' = work
    BY <1>1, <2>1, TaskKept DEF Stays, PrepareServed
  <2>2. CASE work' # work
    <3>1. work[t] = "preparing" /\ phase[t] = "pending" /\ taskBid[t] = 0
      BY <2>2, TaskTypes DEF PrepareServed
    <3>2. work'[t] = "failing" \/ (ok /\ work'[t] = "saving")
      BY <2>2, TaskTypes DEF PrepareServed
    <3>3. ok => answer'[t] # 0
      BY PrepareAnswers DEF PrepareServed, SystemInv
    <3>4. \A r \in commits : r[1] # t
      BY <3>1, TaskTypes DEF TaskFits
    <3> QED BY <1>1, <3>1, <3>2, <3>3, <3>4, TaskTypes DEF PrepareServed, TaskFits
  <2> QED BY <2>1, <2>2
<1>4. Progress(t)
  BY TaskTypes DEF PrepareServed, Progress, InFlight
<1> QED BY <1>2, <1>3, <1>4

\* A commit that succeeds, for the first time or again, won the enrollment.
LEMMA CommitWins ==
    ASSUME IInv, NEW c \in Controllers, NEW b \in 1..MaxEpoch, Commit(c, b, TRUE)
    PROVE  holds'[c] # 0 /\ won'[holds'[c]] = c
<1>0. /\ won \in [Enrollments -> Controllers \cup {None}] /\ holds' = holds
      /\ bound \in 0..MaxIssued /\ fence \in 0..MaxIssued
  BY DEF IInv, TypeOK, CountTypeOK, RequestTypeOK, Commit
<1>1. ASSUME NEW saved \in BOOLEAN, CommitNew(c, b, saved, TRUE)
      PROVE  holds[c] # 0 /\ won'[holds[c]] = c
  <2>1. owner = c /\ status = "prepared" /\ won' = [won EXCEPT ![bound] = c]
    BY <1>1 DEF CommitNew, Activates, Proves
  <2>2. holds[c] = bound /\ bound \in Enrollments
    BY <1>0, <2>1 DEF IInv, RecordFits, RequestsFit
  <2> QED BY <1>0, <2>1, <2>2
<1>2. CASE CommitSame(c, b, TRUE)
  <2>1. owner = c /\ status = "active" /\ won' = won
    BY <1>2 DEF CommitSame, Proves
  <2>2. holds[c] = bound /\ bound \in Enrollments /\ won[bound] = c
    BY <1>0, <2>1 DEF IInv, RecordFits, RequestsFit
  <2> QED BY <1>0, <2>1, <2>2
<1> QED BY <1>0, <1>1, <1>2 DEF Commit

\* The agent serves a commit; the worker gets the answer or not.
LEMMA CommitServedKeeps ==
    ASSUME SystemInv, [Next]_vars, NEW t \in Tasks, NEW ok \in BOOLEAN,
           CommitServed(t, ok)
    PROVE  WebTypeOK' /\ TaskFits(t)' /\ Progress(t)
<1>1. commits' \subseteq commits
  BY DEF CommitServed, Commit
<1>2. WebTypeOK'
  <2>1. work' # work => phase[t] = "committing"
    BY TaskTypes DEF CommitServed, TaskFits
  <2> QED BY <2>1, TaskTypes DEF CommitServed, SystemInv, WebTypeOK
<1>3. TaskFits(t)'
  <2>1. CASE work' = work
    BY <1>1, <2>1, TaskKept DEF Stays, CommitServed
  <2>2. CASE work' # work
    <3>1. phase[t] = "committing" /\ taskBid[t] = answer[t] /\ answer[t] # 0
      BY <2>2, TaskTypes DEF CommitServed, TaskFits
    <3>2. work'[t] = "idle" \/ (ok /\ work'[t] = "finalize")
      BY <2>2, TaskTypes DEF CommitServed
    <3>3. ok => holds'[t] # 0 /\ won'[holds'[t]] = t
      BY CommitWins DEF CommitServed, SystemInv
    <3>4. answer' = answer /\ UNCHANGED <<phase, taskBid>>
      BY DEF CommitServed, Commit
    <3> QED BY <1>1, <3>1, <3>2, <3>3, <3>4 DEF TaskFits
  <2> QED BY <2>1, <2>2
<1>4. Progress(t)
  BY TaskTypes DEF CommitServed, Progress, InFlight
<1> QED BY <1>2, <1>3, <1>4

(***************************************************************************)
(* The invariant                                                           *)
(***************************************************************************)
\* A worker's step, and what the agent does for it, keeps its task.
LEMMA TaskStep ==
    ASSUME SystemInv, NEW t \in Tasks,
           Worker(t) \/ \E ok \in BOOLEAN : PrepareServed(t, ok) \/ CommitServed(t, ok)
    PROVE  WebTypeOK' /\ TaskFits(t)' /\ Progress(t)
<1>1. [Next]_vars
  BY WorkerSteps DEF PrepareServed, CommitServed, Next, Serve
<1>2. CASE Worker(t)
  BY <1>2, CheckCreateKeeps, CreateKeeps, StartKeeps, StartFailsKeeps, RequestPrepareKeeps,
     SavePreparedKeeps, PrepareFailsKeeps, FailEnrollmentKeeps, MarkCommittingKeeps,
     DialFormalKeeps, ReadStatusKeeps, RequestCommitKeeps, AbandonCommitKeeps,
     FinalizeActiveKeeps, VanishKeeps DEF Worker
<1>3. CASE \E ok \in BOOLEAN : PrepareServed(t, ok) \/ CommitServed(t, ok)
  BY <1>1, <1>3, PrepareServedKeeps, CommitServedKeeps
<1> QED BY <1>2, <1>3

\* It leaves the other tasks alone.
LEMMA OthersStay ==
    ASSUME SystemInv, NEW t \in Tasks,
           Worker(t) \/ \E ok \in BOOLEAN : PrepareServed(t, ok) \/ CommitServed(t, ok),
           NEW u \in Tasks, u # t
    PROVE  Stays(u) /\ \A r \in commits' \ commits : r[1] # u
<1>0. /\ phase \in [Tasks -> Phases] /\ taskBid \in [Tasks -> 0..MaxEpoch]
      /\ work \in [Tasks -> Works]
  BY TaskTypes
<1>1. CASE CheckCreate(t) \/ Create(t) \/ Start(t) \/ StartFails(t)
  BY <1>0, <1>1 DEF CheckCreate, Create, Start, StartFails, Stays, vars
<1>2. CASE RequestPrepare(t)
  BY <1>0, <1>2 DEF RequestPrepare, SendPrepare, Stays
<1>3. CASE SavePrepared(t) \/ PrepareFails(t) \/ FailEnrollment(t) \/ MarkCommitting(t)
  BY <1>0, <1>3 DEF SavePrepared, PrepareFails, FailEnrollment, MarkCommitting, Stays,
     vars
<1>4. ASSUME NEW n \in Conns, DialFormal(t, n)
      PROVE  Stays(u) /\ commits' = commits
  BY <1>0, <1>4 DEF DialFormal, Dial, Stays
<1>5. ASSUME NEW n \in Conns, ReadStatus(t, n)
      PROVE  Stays(u) /\ commits' = commits
  BY <1>0, <1>5 DEF ReadStatus, Stays, vars
<1>6. ASSUME NEW n \in Conns, RequestCommit(t, n)
      PROVE  Stays(u) /\ \A r \in commits' \ commits : r[1] # u
  BY <1>0, <1>6 DEF RequestCommit, SendCommit, Stays
<1>7. CASE AbandonCommit(t) \/ FinalizeActive(t) \/ Vanish(t)
  BY <1>0, <1>7 DEF AbandonCommit, FinalizeActive, Vanish, Stays, vars
<1>8. ASSUME NEW ok \in BOOLEAN, PrepareServed(t, ok) \/ CommitServed(t, ok)
      PROVE  Stays(u) /\ commits' \subseteq commits
  <2>1. CASE PrepareServed(t, ok)
    BY <1>0, <2>1 DEF PrepareServed, Prepare, Stays
  <2>2. CASE CommitServed(t, ok)
    BY <1>0, <2>2 DEF CommitServed, Commit, Stays
  <2> QED BY <1>8, <2>1, <2>2
<1> QED BY <1>1, <1>2, <1>3, <1>4, <1>5, <1>6, <1>7, <1>8 DEF Worker

\* Every other step leaves all tasks alone.
LEMMA TasksStay ==
    ASSUME SystemInv, \/ Agent \/ DeleteHost \/ UNCHANGED allVars
                      \/ \E c \in Controllers \ Tasks : Stranger(c)
    PROVE  /\ WebTypeOK'
           /\ \A u \in Tasks : Stays(u) /\ \A r \in commits' \ commits : r[1] # u
<1>1. WebTypeOK' /\ \A u \in Tasks : Stays(u)
  BY DEF Agent, DeleteHost, allVars, webVars, Stranger, SystemInv, WebTypeOK, Stays
<1>2. CASE Agent
  BY <1>1, <1>2 DEF Agent, Operate, Connect, ConnectReuse, ConnectIssue, Unpair,
     TearDown, OfflineUnpair, LegacyPair, RefreshEndpoint, CloseEphemeral, Watchdog,
     Environment, Crash, Restart, Expire, Lapse, Paste, Hangup
<1>3. CASE DeleteHost \/ UNCHANGED allVars
  BY <1>1, <1>3 DEF DeleteHost, allVars, vars
<1>4. ASSUME NEW c \in Controllers \ Tasks, Stranger(c)
      PROVE  \A r \in commits' \ commits : r[1] = c
  <2>1. ASSUME NEW n \in Conns, peer[n] = c, SendCommit(n, answer[c])
        PROVE  commits' = commits \cup {<<c, answer[c]>>}
    BY <2>1 DEF SendCommit
  <2>2. CASE \/ SendPrepare(c)
             \/ \E n \in Conns : Dial(n, c)
             \/ \E e \in Enrollments, ok \in BOOLEAN : Prepare(e, c, ok)
             \/ \E b \in 1..MaxEpoch, ok \in BOOLEAN : Commit(c, b, ok)
    BY <2>2 DEF SendPrepare, Dial, Prepare, Commit
  <2> QED BY <1>4, <2>1, <2>2 DEF Stranger
<1> QED BY <1>1, <1>2, <1>3, <1>4

\* No step lets a task run into one that is in flight, or gives up one that
\* may be bound; what the store has of each task stays right.
LEMMA TasksStep ==
    ASSUME SystemInv, [SystemNext]_allVars
    PROVE  /\ WebTypeOK' /\ \A u \in Tasks : TaskFits(u)'
           /\ OneInFlight'
           /\ \A u \in Tasks : Progress(u)
<1>0. [Next]_vars
  BY AgentSteps
<1>1. ASSUME NEW u \in Tasks, Stays(u), \A r \in commits' \ commits : r[1] # u
      PROVE  TaskFits(u)' /\ Progress(u) /\ (u \in InFlight' <=> u \in InFlight)
  <2>1. TaskFits(u)'
    BY <1>0, <1>1, TaskKept
  <2>2. u \in InFlight' <=> u \in InFlight
    BY <1>1 DEF Stays, InFlight
  <2> QED BY <1>1, <2>1, <2>2 DEF Stays, Progress
<1>2. CASE \/ Agent \/ DeleteHost \/ UNCHANGED allVars
           \/ \E c \in Controllers \ Tasks : Stranger(c)
  <2>1. \A u \in Tasks : TaskFits(u)' /\ Progress(u) /\ (u \in InFlight' <=> u \in InFlight)
    BY <1>1, <1>2, TasksStay
  <2>2. OneInFlight'
    BY <2>1 DEF OneInFlight, InFlight, SystemInv
  <2> QED BY <1>2, <2>1, <2>2, TasksStay
<1>3. ASSUME NEW t \in Tasks,
             Worker(t) \/ \E ok \in BOOLEAN : PrepareServed(t, ok) \/ CommitServed(t, ok)
      PROVE  /\ WebTypeOK' /\ \A u \in Tasks : TaskFits(u)' /\ Progress(u)
             /\ OneInFlight'
  <2>1. WebTypeOK' /\ TaskFits(t)' /\ Progress(t)
    BY <1>3, TaskStep
  <2>2. ASSUME NEW u \in Tasks, u # t
        PROVE  TaskFits(u)' /\ Progress(u) /\ (u \in InFlight' <=> u \in InFlight)
    BY <1>1, <1>3, <2>2, OthersStay
  <2>3. t \in InFlight' => t \in InFlight \/ InFlight = {}
    BY <2>1 DEF Progress
  <2>4. OneInFlight'
    BY <2>2, <2>3 DEF OneInFlight, InFlight, SystemInv
  <2> QED BY <2>1, <2>2, <2>4
<1> QED BY <1>2, <1>3 DEF SystemNext, AgentServes

\* The agent is bound to a task that asked for it, and the task knows.
LEMMA BoundStep ==
    ASSUME SystemInv, [SystemNext]_allVars
    PROVE  BoundIsRemembered'
<1> SUFFICES ASSUME status' = "active", owner' \in Tasks
             PROVE  phase'[owner'] \in {"committing", "active"}
  BY DEF BoundIsRemembered
<1>1. phase[owner'] \in {"committing", "active"}
  <2>1. CASE status = "active" /\ owner' = owner
    BY <2>1 DEF SystemInv, BoundIsRemembered
  <2>2. CASE \E r \in commits : r[1] = owner'
    BY <2>2 DEF SystemInv, TaskFits
  <2> QED BY <2>1, <2>2, AgentSteps, ActivationAsked DEF SystemInv
<1> QED BY <1>1, TasksStep DEF Progress

\* The strengthened invariant of the system holds in every state.
THEOREM SystemInvariance == SystemSpec => []SystemInv
<1>1. Init /\ WebInit => SystemInv
  <2> SUFFICES ASSUME Init, WebInit PROVE SystemInv
    OBVIOUS
  <2>1. WebTypeOK /\ OneInFlight
    BY DEF WebInit, WebTypeOK, OneInFlight, InFlight
  <2>2. BidsFit /\ BoundIsRemembered
    BY DEF Init, BidsFit, BoundIsRemembered
  <2>3. \A t \in Tasks : TaskFits(t)
    BY DEF Init, WebInit, TaskFits
  <2> QED BY <2>1, <2>2, <2>3, InitKeeps DEF SystemInv
<1>2. SystemInv /\ [SystemNext]_allVars => SystemInv'
  <2> SUFFICES ASSUME SystemInv, [SystemNext]_allVars PROVE SystemInv'
    OBVIOUS
  <2>1. [Next]_vars
    BY AgentSteps
  <2>2. IInv' /\ BidsFit'
    BY <2>1, IInvStep, AgentKeepsBids DEF SystemInv
  <2>3. /\ WebTypeOK' /\ OneInFlight' /\ BoundIsRemembered'
        /\ \A t \in Tasks : TaskFits(t)'
    BY TasksStep, BoundStep
  <2> QED BY <2>2, <2>3 DEF SystemInv
<1> QED BY <1>1, <1>2, PTL DEF SystemSpec

\* The variables of the store and the workers have their types.
THEOREM WebTypeCorrect == SystemSpec => []WebTypeOK
<1>1. SystemInv => WebTypeOK
  BY DEF SystemInv
<1> QED BY <1>1, SystemInvariance, PTL

\* Everything the websites do, the agent's specification allows: whatever is
\* proved of the agent alone holds in the system.
THEOREM AgentIsKept == SystemSpec => Spec
<1>1. SystemInv /\ [SystemNext]_allVars => [Next]_vars
  BY AgentSteps
<1> QED BY <1>1, SystemInvariance, PTL DEF SystemSpec, Spec

\* A task is not given up while the agent may be bound to it, a host was
\* bound, and one task at a time is in flight.
THEOREM KeepsTrack == SystemSpec => []EnrollmentKeepsTrack
<1>1. SystemInv => EnrollmentKeepsTrack
  BY DEF SystemInv, EnrollmentKeepsTrack, HostWasBound, TaskFits
<1> QED BY <1>1, SystemInvariance, PTL
=============================================================================
