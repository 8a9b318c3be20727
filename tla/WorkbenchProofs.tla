--------------------------- MODULE WorkbenchProofs ---------------------------
(***************************************************************************)
(* Proofs about what a window of the workbench holds, for every value of   *)
(* the constants: the position that a user left it at (WorkbenchPosition), *)
(* the canvases of observers (ViewportFollow), voice sessions              *)
(* (VoiceGateway) and connections for scrolling (Scroll).  The last        *)
(* section states what follows for MCTerminals.                            *)
(***************************************************************************)
EXTENDS MCTerminals, GeometryControlProofs, Sequences, FiniteSetTheorems, TLAPS

(***************************************************************************)
(* The position of the workbench                                           *)
(***************************************************************************)

\* No row has the time of a row that was put.
LEMMA NoRowIsNone ==
    ASSUME NEW x \in Rows
    PROVE  x # NoRow /\ x.updated \in 1..MaxPuts /\ x.host \in Hosts
BY DEF Rows, NoRow

\* A position that a page sends is on its way with the others.
LEMMA SendKeeps ==
    ASSUME PositionAssumption, PositionInv, NEW p \in Pages, NEW h \in Hosts, Send(p, h)
    PROVE  PositionInv'
<1> DEFINE ofPage == {m \in messages : m.page = p}
           m1 == [page |-> p, sequence |-> 1 + Cardinality(ofPage), host |-> h]
<1>1. Cardinality(ofPage) \in Nat
  BY FS_Subset, FS_CardinalityType DEF PositionInv
<1>2. /\ messages' = messages \cup {m1} /\ 1 + Cardinality(ofPage) <= MaxSequence
      /\ UNCHANGED <<hosts, watermark, position, reading, latest, last>>
  BY DEF Send
<1>3. m1 \in Puts
  BY <1>1, <1>2 DEF Puts, PositionAssumption
<1>4. IsFiniteSet(messages') /\ messages' \subseteq Puts
  BY <1>2, <1>3, FS_AddElement DEF PositionInv
<1> HIDE DEF m1, ofPage
<1> QED
  BY <1>2, <1>4 DEF PositionInv, ReadingFits

\* A put that is accepted is the newest row, and no reader has seen it.
LEMMA PutKeeps ==
    ASSUME PositionAssumption, PositionInv, NEW m \in messages, Put(m)
    PROVE  PositionInv'
<1> DEFINE row == [page |-> m.page, sequence |-> m.sequence, host |-> m.host, updated |-> last.updated + 1]
<1>1. m.page \in Pages /\ m.sequence \in 1..MaxSequence /\ m.host \in Hosts
  BY DEF PositionInv, Puts
<1>2. last.updated \in Nat /\ last.updated < MaxPuts
  BY DEF Put, PositionInv, Rows, NoRow, PositionAssumption
<1>3. row \in Rows /\ row.updated = last.updated + 1 /\ row.page = m.page /\ row.sequence = m.sequence
  BY <1>1, <1>2 DEF Rows, PositionAssumption
<1>4. /\ position' = row /\ last' = row /\ watermark[m.page] < m.sequence
      /\ watermark' = [watermark EXCEPT ![m.page] = m.sequence]
      /\ latest' = [latest EXCEPT ![m.page] = IF latest[m.page] > m.sequence THEN latest[m.page] ELSE m.sequence]
      /\ UNCHANGED <<hosts, messages, reading>>
  BY DEF Put, Advances
<1>5. latest' = [latest EXCEPT ![m.page] = m.sequence] /\ watermark' = latest'
  <2>1. watermark = latest /\ latest[m.page] \in 0..MaxSequence
    BY <1>1 DEF PositionInv
  <2>2. ~ latest[m.page] > m.sequence
    BY <1>1, <1>4, <2>1 DEF PositionAssumption
  <2> QED
    BY <1>4, <2>1, <2>2
<1>6. latest' \in [Pages -> 0..MaxSequence] /\ latest'[m.page] = m.sequence
  BY <1>1, <1>5 DEF PositionInv, PositionAssumption
<1>7. row # NoRow
  BY <1>3, NoRowIsNone
<1> HIDE DEF row
<1>8. ASSUME NEW r \in Readers, reading'[r] # NoRow PROVE ReadingFits(reading[r])'
  <2>1. reading' = reading /\ hosts' = hosts
    BY <1>4
  <2>2. ReadingFits(reading[r])
    BY <1>8, <2>1 DEF PositionInv
  <2>3. reading[r].updated < last'.updated /\ reading[r].updated \in Nat
    BY <1>2, <1>3, <1>4, <2>2 DEF ReadingFits, Rows
  <2> QED
    BY <2>1, <2>2, <2>3, <1>2, <1>3, <1>4 DEF ReadingFits
<1> QED
  BY <1>3, <1>4, <1>5, <1>6, <1>7, <1>8 DEF PositionInv

\* A host that is deleted leaves a row that stands.
LEMMA DeleteHostKeeps ==
    ASSUME PositionInv, NEW h \in Hosts, DeleteHost(h)
    PROVE  PositionInv'
BY DEF DeleteHost, PositionInv, ReadingFits

\* A reader sees the row of a host that is gone, and such a row is the last one.
LEMMA ReadKeeps ==
    ASSUME PositionAssumption, PositionInv, NEW r \in Readers, Read(r)
    PROVE  PositionInv'
<1>1. /\ reading' = [reading EXCEPT ![r] = position] /\ position # NoRow /\ position.host \notin hosts
      /\ UNCHANGED <<hosts, messages, watermark, position, latest, last>>
  BY DEF Read
<1>2. position = last /\ last \in Rows
  BY <1>1 DEF PositionInv
<1>3. ReadingFits(position)
  BY <1>1, <1>2, NoRowIsNone DEF ReadingFits, PositionAssumption
<1>4. DOMAIN reading' = Readers
  BY <1>1 DEF PositionInv
<1>5. ASSUME NEW q \in Readers, reading'[q] # NoRow PROVE ReadingFits(reading[q])'
  <2>1. reading'[q] = position \/ (reading'[q] = reading[q] /\ reading[q] # NoRow)
    BY <1>1, <1>5 DEF PositionInv
  <2>2. ReadingFits(reading'[q])
    BY <1>3, <2>1 DEF PositionInv
  <2> QED
    BY <1>1, <2>2 DEF ReadingFits
<1> QED
  BY <1>1, <1>4, <1>5 DEF PositionInv

\* The row that a reader deletes is the one it saw, or no row: a row that was
\* put since is of a later time.
LEMMA ForgetKeeps ==
    ASSUME PositionAssumption, PositionInv, NEW r \in Readers, Forget(r)
    PROVE  PositionInv'
<1>1. /\ reading' = [reading EXCEPT ![r] = NoRow] /\ reading[r] # NoRow
      /\ position' = IF SameRow(position, reading[r]) THEN NoRow ELSE position
      /\ UNCHANGED <<hosts, messages, watermark, latest, last>>
  BY DEF Forget
<1>2. ReadingFits(reading[r])
  BY <1>1 DEF PositionInv
<1>3. position' \in {NoRow, last}
  BY <1>1 DEF PositionInv
<1>4. ASSUME position' = NoRow, last # NoRow PROVE last.host \notin hosts
  <2>1. CASE position = NoRow
    BY <1>4, <2>1 DEF PositionInv
  <2>2. CASE position # NoRow
    <3>1. position = last /\ SameRow(last, reading[r])
      BY <1>1, <1>4, <2>2 DEF PositionInv
    <3>2. reading[r] = last
      BY <3>1, <1>2 DEF SameRow, ReadingFits
    <3> QED
      BY <3>2, <1>2 DEF ReadingFits
  <2> QED
    BY <2>1, <2>2
<1>5. ASSUME NEW q \in Readers, reading'[q] # NoRow PROVE ReadingFits(reading[q])'
  <2>1. reading'[q] = reading[q]
    BY <1>1, <1>5 DEF PositionInv
  <2> QED
    BY <1>1, <1>5, <2>1 DEF PositionInv, ReadingFits
<1> QED
  BY <1>1, <1>3, <1>4, <1>5 DEF PositionInv

\* A login that ends takes the positions of its page with it.
LEMMA EndLoginKeeps ==
    ASSUME PositionAssumption, PositionInv, NEW p \in Pages, EndLogin(p)
    PROVE  PositionInv'
<1>1. /\ messages' \subseteq messages /\ watermark' = [watermark EXCEPT ![p] = 0] /\ latest' = [latest EXCEPT ![p] = 0]
      /\ UNCHANGED <<hosts, position, reading, last>>
  BY DEF EndLogin
<1>2. IsFiniteSet(messages')
  BY <1>1, FS_Subset DEF PositionInv
<1>3. latest' \in [Pages -> 0..MaxSequence] /\ watermark' = latest'
  BY <1>1 DEF PositionInv, PositionAssumption
<1>4. last # NoRow => latest'[last.page] \in {0, last.sequence}
  BY <1>1 DEF PositionInv, Rows
<1> QED
  BY <1>1, <1>2, <1>3, <1>4 DEF PositionInv, ReadingFits

\* A row that stands is the last that was put, whatever order the requests
\* of the pages arrive in (internal/store/workbench_session.go).
THEOREM PositionInvariance == ASSUME PositionAssumption PROVE PositionSpec => []PositionInv
<1>1. PositionInit => PositionInv
  BY FS_EmptySet DEF PositionInit, PositionInv, PositionAssumption
<1>2. PositionInv /\ [PositionNext]_positionVars => PositionInv'
  <2> SUFFICES ASSUME PositionInv, [PositionNext]_positionVars PROVE PositionInv'
    OBVIOUS
  <2>1. CASE UNCHANGED positionVars
    BY <2>1 DEF positionVars, PositionInv, ReadingFits
  <2> QED
    BY <2>1, SendKeeps, PutKeeps, DeleteHostKeeps, ReadKeeps, ForgetKeeps, EndLoginKeeps DEF PositionNext
<1> QED
  BY <1>1, <1>2, PTL DEF PositionSpec

\* The row that another device restores is the newest position of the page that
\* wrote last, and is missing only when the host of that position is gone
\* (PutWorkbenchSession, WorkbenchSession).
THEOREM PositionStays == ASSUME PositionAssumption PROVE PositionSpec => []PositionIsKept
<1>1. PositionInv => PositionIsKept
  BY DEF PositionInv, PositionIsKept, PositionAssumption, Rows, NoRow
<1> QED
  BY <1>1, PositionInvariance, PTL

\* The variables keep their types.
THEOREM PositionTypeCorrect == ASSUME PositionAssumption PROVE PositionSpec => []PositionTypeOK
<1>1. PositionInv => PositionTypeOK
  BY DEF PositionInv, PositionTypeOK, PositionAssumption, Rows, NoRow
<1> QED
  BY <1>1, PositionInvariance, PTL

(***************************************************************************)
(* The canvases of observers                                               *)
(***************************************************************************)

\* The numbers and the readings.
LEMMA ViewportTypes ==
    ASSUME Viewport!ViewportAssumption, Viewport!ViewportInv
    PROVE  /\ given \in 0..MaxLeases /\ lease \in {0, given} /\ MaxLeases \in Nat /\ revision \in Nat
           /\ size \in Sizes /\ Viewport!ReadNow(size) \in Viewport!Reading /\ Viewport!ReadNow(size).when = given
           /\ \A s \in Streams : /\ canvas[s] # NoStream => canvas[s] \in Viewport!Reading /\ canvas[s].when \in Nat
                                 /\ asks[s] # NoStream => asks[s] \in Viewport!Reading /\ asks[s].when \in Nat
           /\ NoStream \notin Viewport!Reading
BY DEF Viewport!ViewportAssumption, Viewport!ViewportInv, Viewport!ViewportTypeOK, Viewport!Reading,
   Viewport!ReadNow

\* What canvases show, and what waits for them, stays in order.
CanvasStep ==
    /\ \A s \in Streams : Viewport!CanvasFits(s)'
    /\ \A s \in Streams : canvas[s] # NoStream => canvas'[s] # NoStream /\ canvas'[s].when >= canvas[s].when

\* A reading of now goes to every watcher, or to none.
LEMMA QueueKeeps ==
    ASSUME Viewport!ViewportAssumption, Viewport!ViewportInv, NEW fresh \in Viewport!Reading,
           fresh.when = given,
           Viewport!QueueAll(fresh), UNCHANGED <<given, watcher, canvas>>
    PROVE  CanvasStep /\ asks' \in [Streams -> Viewport!Reading \cup {NoStream}]
<1>1. asks' = [s \in Streams |-> IF watcher[s] = "watching" THEN fresh ELSE asks[s]]
  BY DEF Viewport!QueueAll
<1>2. asks' \in [Streams -> Viewport!Reading \cup {NoStream}]
  BY <1>1 DEF Viewport!ViewportInv, Viewport!ViewportTypeOK
<1>3. ASSUME NEW s \in Streams
      PROVE  /\ Viewport!CanvasFits(s)'
             /\ canvas[s] # NoStream => canvas'[s] # NoStream /\ canvas'[s].when >= canvas[s].when
  <2>1. (watcher[s] = "watching" /\ asks'[s] = fresh) \/ asks'[s] = asks[s]
    BY <1>1
  <2>2. Viewport!CanvasFits(s) /\ canvas'[s] = canvas[s]
    BY DEF Viewport!ViewportInv
  <2>3. canvas[s] # NoStream => canvas[s].when \in Nat
    BY ViewportTypes
  <2>4. given \in Nat /\ given' = given
    BY ViewportTypes
  <2>5. CASE watcher[s] = "watching" /\ asks'[s] = fresh
    BY <2>2, <2>3, <2>4, <2>5 DEF Viewport!CanvasFits
  <2>6. CASE asks'[s] = asks[s]
    BY <2>2, <2>3, <2>4, <2>6 DEF Viewport!CanvasFits
  <2> QED BY <2>1, <2>5, <2>6
<1> QED BY <1>2, <1>3 DEF CanvasStep

\* Nothing of a canvas changes, and leases are only added.
LEMMA CanvasesStay ==
    ASSUME Viewport!ViewportAssumption, Viewport!ViewportInv, UNCHANGED <<watcher, canvas, asks>>,
           given' \in Nat, given' >= given
    PROVE  CanvasStep
<1>1. ASSUME NEW s \in Streams
      PROVE  /\ Viewport!CanvasFits(s)'
             /\ canvas[s] # NoStream => canvas'[s] # NoStream /\ canvas'[s].when >= canvas[s].when
  <2>1. Viewport!CanvasFits(s) /\ canvas'[s] = canvas[s] /\ asks'[s] = asks[s] /\ watcher'[s] = watcher[s]
    BY DEF Viewport!ViewportInv
  <2>2. /\ canvas[s] # NoStream => canvas[s].when \in Nat
        /\ asks[s] # NoStream => asks[s].when \in Nat
        /\ given \in Nat
    BY ViewportTypes
  <2> QED BY <2>1, <2>2 DEF Viewport!CanvasFits
<1> QED BY <1>1 DEF CanvasStep

\* An observer opens its canvas at the size of now.
LEMMA OpenKeeps ==
    ASSUME Viewport!ViewportAssumption, Viewport!ViewportInv, NEW q \in Streams, Viewport!Open(q)
    PROVE  Viewport!ViewportInv' /\ CanvasStep
<1>1. PICK fresh : fresh = Viewport!ReadNow(size)
  OBVIOUS
<1>2. fresh \in Viewport!Reading /\ fresh.when = given /\ given \in Nat /\ fresh # NoStream
  BY <1>1, ViewportTypes
<1>3. /\ watcher[q] = "absent" /\ watcher' = [watcher EXCEPT ![q] = "opened"]
      /\ canvas' = [canvas EXCEPT ![q] = fresh]
      /\ UNCHANGED <<size, given, lease, controllerSize, revision, rendered, probe, asks>>
  BY <1>1 DEF Viewport!Open, Viewport!SetCanvas, Viewport!entry
<1>4. Viewport!ViewportTypeOK'
  BY <1>2, <1>3 DEF Viewport!ViewportInv, Viewport!ViewportTypeOK
<1>5. ASSUME NEW s \in Streams
      PROVE  /\ Viewport!CanvasFits(s)'
             /\ canvas[s] # NoStream => canvas'[s] # NoStream /\ canvas'[s].when >= canvas[s].when
  <2>1. Viewport!CanvasFits(s) /\ asks'[s] = asks[s] /\ given' = given
    BY <1>3 DEF Viewport!ViewportInv
  <2>2. CASE s = q
    <3>1. canvas'[s] = fresh /\ watcher'[s] = "opened" /\ canvas[s] = NoStream
      BY <1>3, <2>1, <2>2 DEF Viewport!ViewportInv, Viewport!ViewportTypeOK, Viewport!CanvasFits
    <3>2. asks[s] = NoStream
      BY <1>3, <2>2 DEF Viewport!ViewportInv, Viewport!CanvasFits
    <3> QED BY <1>2, <2>1, <3>1, <3>2 DEF Viewport!CanvasFits
  <2>3. CASE s # q
    <3>1. canvas'[s] = canvas[s] /\ watcher'[s] = watcher[s]
      BY <1>3, <2>3 DEF Viewport!ViewportInv, Viewport!ViewportTypeOK
    <3>2. canvas[s] # NoStream => canvas[s].when \in Nat
      BY ViewportTypes
    <3> QED BY <2>1, <3>1, <3>2 DEF Viewport!CanvasFits
  <2> QED BY <2>2, <2>3
<1>6. Viewport!ProbeFits'
  BY <1>3 DEF Viewport!ViewportInv, Viewport!ProbeFits
<1> QED BY <1>3, <1>4, <1>5, <1>6 DEF Viewport!ViewportInv, CanvasStep

\* An observer waits for sizes from now on.
LEMMA WatchKeeps ==
    ASSUME Viewport!ViewportAssumption, Viewport!ViewportInv, NEW q \in Streams, Viewport!Watch(q)
    PROVE  Viewport!ViewportInv' /\ CanvasStep
<1>1. /\ watcher[q] = "opened" /\ watcher' = [watcher EXCEPT ![q] = "watching"]
      /\ UNCHANGED <<size, given, lease, controllerSize, revision, rendered, probe, canvas>>
  BY DEF Viewport!Watch, Viewport!entry
<1>2. PICK fresh : fresh = Viewport!ReadNow(controllerSize)
  OBVIOUS
<1>3. \/ asks' = asks
      \/ asks' = [asks EXCEPT ![q] = fresh] /\ controllerSize # NoStream
  BY <1>2 DEF Viewport!Watch
<1>4. controllerSize # NoStream => fresh \in Viewport!Reading /\ fresh.when = given
  BY <1>2 DEF Viewport!ReadNow, Viewport!Reading, Viewport!ViewportInv, Viewport!ViewportTypeOK
<1>5. asks' \in [Streams -> Viewport!Reading \cup {NoStream}]
  BY <1>3, <1>4 DEF Viewport!ViewportInv, Viewport!ViewportTypeOK
<1>6. Viewport!ViewportTypeOK'
  BY <1>1, <1>5 DEF Viewport!ViewportInv, Viewport!ViewportTypeOK
<1>7. ASSUME NEW s \in Streams
      PROVE  /\ Viewport!CanvasFits(s)'
             /\ canvas[s] # NoStream => canvas'[s] # NoStream /\ canvas'[s].when >= canvas[s].when
  <2>1. Viewport!CanvasFits(s) /\ canvas'[s] = canvas[s] /\ given' = given
    BY <1>1 DEF Viewport!ViewportInv
  <2>2. canvas[s] # NoStream => canvas[s].when \in Nat
    BY ViewportTypes
  <2>3. watcher'[s] = "absent" <=> watcher[s] = "absent"
    BY <1>1 DEF Viewport!ViewportInv, Viewport!ViewportTypeOK
  <2>4. asks'[s] = asks[s] \/ (asks'[s] = fresh /\ controllerSize # NoStream /\ watcher[s] = "opened")
    BY <1>1, <1>3 DEF Viewport!ViewportInv, Viewport!ViewportTypeOK
  <2>5. given \in Nat
    BY ViewportTypes
  <2>6. CASE asks'[s] = asks[s]
    BY <2>1, <2>2, <2>3, <2>6 DEF Viewport!CanvasFits
  <2>7. CASE asks'[s] = fresh /\ controllerSize # NoStream /\ watcher[s] = "opened"
    BY <1>4, <2>1, <2>2, <2>3, <2>5, <2>7 DEF Viewport!CanvasFits
  <2> QED BY <2>4, <2>6, <2>7
<1>8. Viewport!ProbeFits'
  BY <1>1 DEF Viewport!ViewportInv, Viewport!ProbeFits
<1> QED BY <1>1, <1>6, <1>7, <1>8 DEF Viewport!ViewportInv, CanvasStep

\* An observer is closed and waits for nothing; or it follows what waits.
LEMMA FollowKeeps ==
    ASSUME Viewport!ViewportAssumption, Viewport!ViewportInv, NEW q \in Streams,
           Viewport!Close(q) \/ Viewport!Follow(q)
    PROVE  Viewport!ViewportInv' /\ CanvasStep
<1>1. /\ asks' = [asks EXCEPT ![q] = NoStream]
      /\ UNCHANGED <<size, given, lease, controllerSize, revision, rendered, probe>>
  BY DEF Viewport!Close, Viewport!Follow, Viewport!entry
<1>2. \/ watcher[q] # "absent" /\ watcher' = [watcher EXCEPT ![q] = "closed"] /\ canvas' = canvas
      \/ watcher' = watcher /\ asks[q] # NoStream /\ canvas' = [canvas EXCEPT ![q] = asks[q]]
  BY DEF Viewport!Close, Viewport!Follow, Viewport!SetCanvas
<1>3. /\ watcher' \in [Streams -> {"absent", "opened", "watching", "closed"}]
      /\ asks' \in [Streams -> Viewport!Reading \cup {NoStream}] /\ canvas' \in [Streams -> Viewport!Reading \cup {NoStream}]
  BY <1>1, <1>2 DEF Viewport!ViewportInv, Viewport!ViewportTypeOK
<1>4. Viewport!ViewportTypeOK'
  BY <1>1, <1>3 DEF Viewport!ViewportInv, Viewport!ViewportTypeOK
<1>5. ASSUME NEW s \in Streams
      PROVE  /\ Viewport!CanvasFits(s)'
             /\ canvas[s] # NoStream => canvas'[s] # NoStream /\ canvas'[s].when >= canvas[s].when
  <2>1. Viewport!CanvasFits(s) /\ given' = given /\ given \in Nat
    BY <1>1, ViewportTypes DEF Viewport!ViewportInv
  <2>2. /\ canvas[s] # NoStream => canvas[s].when \in Nat
        /\ asks[s] # NoStream => asks[s].when \in Nat
    BY ViewportTypes
  <2>3. asks'[s] = NoStream \/ (s # q /\ asks'[s] = asks[s])
    BY <1>1 DEF Viewport!ViewportInv, Viewport!ViewportTypeOK
  <2>4. CASE watcher[q] # "absent" /\ watcher' = [watcher EXCEPT ![q] = "closed"] /\ canvas' = canvas
    <3>1. watcher'[s] = "absent" <=> watcher[s] = "absent"
      BY <2>4 DEF Viewport!ViewportInv, Viewport!ViewportTypeOK
    <3> QED BY <2>1, <2>2, <2>3, <2>4, <3>1 DEF Viewport!CanvasFits
  <2>5. CASE watcher' = watcher /\ asks[q] # NoStream /\ canvas' = [canvas EXCEPT ![q] = asks[q]]
    <3>1. CASE s = q
      <4>1. canvas'[s] = asks[s] /\ asks'[s] = NoStream /\ asks[s] # NoStream
        BY <1>1, <2>5, <3>1 DEF Viewport!ViewportInv, Viewport!ViewportTypeOK
      <4>2. watcher[s] # "absent"
        BY <2>1, <4>1 DEF Viewport!CanvasFits
      <4> QED BY <2>1, <2>2, <2>5, <4>1, <4>2 DEF Viewport!CanvasFits
    <3>2. CASE s # q
      <4>1. canvas'[s] = canvas[s] /\ asks'[s] = asks[s]
        BY <1>1, <2>5, <3>2 DEF Viewport!ViewportInv, Viewport!ViewportTypeOK
      <4> QED BY <2>1, <2>2, <2>5, <4>1 DEF Viewport!CanvasFits
    <3> QED BY <3>1, <3>2
  <2> QED BY <1>2, <2>4, <2>5
<1>6. Viewport!ProbeFits'
  BY <1>1 DEF Viewport!ViewportInv, Viewport!ProbeFits
<1> QED BY <1>1, <1>4, <1>5, <1>6 DEF Viewport!ViewportInv, CanvasStep

\* A lease is given or ends: what a probe reads or has read is not of now.
LEMMA LeaseKeeps ==
    ASSUME Viewport!ViewportAssumption, Viewport!ViewportInv, Viewport!Acquire \/ Viewport!Release
    PROVE  Viewport!ViewportInv' /\ CanvasStep
<1>0. /\ given \in 0..MaxLeases /\ lease \in {0, given} /\ MaxLeases \in Nat
      /\ revision = 2 * given - (IF lease = 0 THEN 0 ELSE 1)
      /\ Viewport!ViewportTypeOK /\ Viewport!ProbeFits
  BY ViewportTypes DEF Viewport!ViewportInv
<1>1. UNCHANGED <<size, rendered, probe, watcher, asks, canvas>> /\ revision' = revision + 1
  BY DEF Viewport!Acquire, Viewport!Release
<1>2. /\ given' \in 0..MaxLeases /\ given' >= given /\ lease' \in {0, given'} /\ lease' \in 0..given'
      /\ revision' = 2 * given' - (IF lease' = 0 THEN 0 ELSE 1)
      /\ revision' \in 0..2 * MaxLeases
  <2>1. CASE Viewport!Acquire
    BY <1>0, <1>1, <2>1 DEF Viewport!Acquire
  <2>2. CASE Viewport!Release
    BY <1>0, <1>1, <2>2 DEF Viewport!Release
  <2> QED BY <2>1, <2>2
<1>3. controllerSize' \in Sizes \cup {NoStream}
  BY <1>0 DEF Viewport!Acquire, Viewport!Release, Viewport!ViewportTypeOK
<1>4. Viewport!ViewportTypeOK'
  BY <1>0, <1>1, <1>2, <1>3 DEF Viewport!ViewportTypeOK
<1>5. Viewport!ProbeFits'
  <2>1. revision \in Nat /\ revision' = revision + 1
    BY <1>1, ViewportTypes
  <2> QED BY <1>0, <1>1, <2>1 DEF Viewport!ProbeFits
<1>6. CanvasStep
  BY <1>1, <1>2, CanvasesStay
<1> QED BY <1>1, <1>2, <1>4, <1>5, <1>6 DEF Viewport!ViewportInv, CanvasStep

\* The terminal is resized, in the lease or out of it.
LEMMA ResizeKeeps ==
    ASSUME Viewport!ViewportAssumption, Viewport!ViewportInv, NEW x \in Sizes,
           Viewport!NativeResize(x) \/ Viewport!ControllerResize(x)
    PROVE  Viewport!ViewportInv' /\ CanvasStep
<1>1. /\ size' = x /\ UNCHANGED <<given, lease, controllerSize, revision, probe, watcher, asks, canvas>>
      /\ rendered' = rendered \/ rendered' = [lease |-> lease, size |-> x]
  BY DEF Viewport!NativeResize, Viewport!ControllerResize, Viewport!entry
<1>2. rendered' \in [lease : 0..MaxLeases, size : Sizes \cup {NoStream}]
  <2>1. lease \in 0..MaxLeases
    BY ViewportTypes DEF Viewport!ViewportInv, Viewport!ViewportTypeOK
  <2> QED BY <1>1, <2>1 DEF Viewport!ViewportInv, Viewport!ViewportTypeOK
<1>3. Viewport!ViewportTypeOK'
  BY <1>1, <1>2 DEF Viewport!ViewportInv, Viewport!ViewportTypeOK
<1>4. Viewport!ProbeFits'
  BY <1>1 DEF Viewport!ViewportInv, Viewport!ProbeFits
<1>5. CanvasStep
  BY <1>1, ViewportTypes, CanvasesStay
<1>6. x # NoStream /\ (rendered' = rendered \/ rendered'.size = x)
  BY <1>1 DEF Viewport!ViewportAssumption
<1> QED BY <1>1, <1>3, <1>4, <1>5, <1>6 DEF Viewport!ViewportInv, CanvasStep

\* The controller tells what it rendered.
LEMMA ReportKeeps ==
    ASSUME Viewport!ViewportAssumption, Viewport!ViewportInv, Viewport!ControllerViewport
    PROVE  Viewport!ViewportInv' /\ CanvasStep
<1>1. /\ rendered # Viewport!NotRendered /\ rendered' = Viewport!NotRendered
      /\ UNCHANGED <<size, given, lease, revision, probe, watcher, canvas>>
  BY DEF Viewport!ControllerViewport
<1>2. rendered' \in [lease : 0..MaxLeases, size : Sizes \cup {NoStream}]
  BY <1>1, ViewportTypes DEF Viewport!NotRendered
<1>3. Viewport!ProbeFits'
  BY <1>1 DEF Viewport!ViewportInv, Viewport!ProbeFits
<1>4. \/ UNCHANGED <<controllerSize, asks>>
      \/ controllerSize' = rendered.size /\ Viewport!QueueAll(Viewport!ReadNow(rendered.size))
  BY DEF Viewport!ControllerViewport
<1>5. CASE UNCHANGED <<controllerSize, asks>>
  <2>1. CanvasStep
    BY <1>1, <1>5, ViewportTypes, CanvasesStay
  <2>2. Viewport!ViewportTypeOK'
    BY <1>1, <1>2, <1>5 DEF Viewport!ViewportInv, Viewport!ViewportTypeOK
  <2> QED BY <1>1, <1>3, <2>1, <2>2 DEF Viewport!ViewportInv, CanvasStep
<1>6. CASE controllerSize' = rendered.size /\ Viewport!QueueAll(Viewport!ReadNow(rendered.size))
  <2>1. PICK fresh : fresh = Viewport!ReadNow(rendered.size)
    OBVIOUS
  <2>2. rendered.size \in Sizes
    BY <1>1 DEF Viewport!ViewportInv, Viewport!ViewportTypeOK
  <2>3. fresh \in Viewport!Reading /\ fresh.when = given
    BY <2>1, <2>2, ViewportTypes DEF Viewport!ReadNow, Viewport!Reading
  <2>4. CanvasStep /\ asks' \in [Streams -> Viewport!Reading \cup {NoStream}]
    BY <1>1, <1>6, <2>1, <2>3, QueueKeeps
  <2>5. Viewport!ViewportTypeOK'
    BY <1>1, <1>2, <1>6, <2>2, <2>4 DEF Viewport!ViewportInv, Viewport!ViewportTypeOK
  <2> QED BY <1>1, <1>3, <2>4, <2>5 DEF Viewport!ViewportInv, CanvasStep
<1> QED BY <1>4, <1>5, <1>6

\* A probe starts, reads the size or gives up.
LEMMA ProbeKeeps ==
    ASSUME Viewport!ViewportAssumption, Viewport!ViewportInv, Viewport!ReadSize \/ Viewport!ProbeFails \/ \E s \in Streams : Viewport!StartProbe(s)
    PROVE  Viewport!ViewportInv' /\ CanvasStep
<1>1. UNCHANGED <<size, given, lease, controllerSize, revision, rendered, watcher, asks, canvas>>
  BY DEF Viewport!ReadSize, Viewport!ProbeFails, Viewport!StartProbe, Viewport!entry
<1>2. PICK fresh : fresh = Viewport!ReadNow(size)
  OBVIOUS
<1>3. fresh \in Viewport!Reading /\ fresh.when = given /\ revision \in Nat
  BY <1>2, ViewportTypes
<1>4. Viewport!ProbeFits /\ probe.at \in {"none", "started", "read"}
  BY DEF Viewport!ViewportInv, Viewport!ViewportTypeOK
<1>5. probe'.at \in {"none", "started", "read"} /\ Viewport!ProbeFits'
  <2>1. CASE Viewport!ReadSize
    <3>1. probe.at = "started" /\ probe' = [at |-> "read", stream |-> probe.stream, revision |-> probe.revision,
                                            reading |-> fresh]
      BY <1>2, <2>1 DEF Viewport!ReadSize
    <3>2. probe'.at = "read" /\ probe'.revision = probe.revision /\ probe'.reading = fresh
      BY <3>1
    <3> QED BY <1>1, <1>3, <1>4, <3>1, <3>2 DEF Viewport!ProbeFits
  <2>2. CASE Viewport!ProbeFails
    BY <2>2 DEF Viewport!ProbeFails, Viewport!NoProbe, Viewport!ProbeFits
  <2>3. ASSUME NEW s \in Streams, Viewport!StartProbe(s)
        PROVE  probe'.at \in {"none", "started", "read"} /\ Viewport!ProbeFits'
    <3>1. probe'.at = "started" /\ probe'.revision = revision
      BY <2>3 DEF Viewport!StartProbe
    <3> QED BY <1>1, <1>3, <3>1 DEF Viewport!ProbeFits
  <2> QED BY <2>1, <2>2, <2>3
<1>6. CanvasStep
  BY <1>1, ViewportTypes, CanvasesStay
<1> QED BY <1>1, <1>5, <1>6 DEF Viewport!ViewportInv, Viewport!ViewportTypeOK, CanvasStep

\* A probe answers, and is heard while no lease came or went.
LEMMA AnswerKeeps ==
    ASSUME Viewport!ViewportAssumption, Viewport!ViewportInv, Viewport!AnswerProbe
    PROVE  Viewport!ViewportInv' /\ CanvasStep
<1>1. /\ probe.at = "read" /\ probe' = Viewport!NoProbe
      /\ UNCHANGED <<size, given, lease, controllerSize, revision, rendered, watcher, canvas>>
  BY DEF Viewport!AnswerProbe, Viewport!entry
<1>2. probe'.at = "none" /\ Viewport!ProbeFits'
  BY <1>1 DEF Viewport!NoProbe, Viewport!ProbeFits
<1>3. CASE Viewport!StillValid(probe)
  <2>1. probe.reading \in Viewport!Reading /\ probe.reading.when = given
    BY <1>1, <1>3 DEF Viewport!StillValid, Viewport!ViewportInv, Viewport!ProbeFits
  <2>2. Viewport!QueueAll(probe.reading)
    BY <1>3 DEF Viewport!AnswerProbe
  <2>3. CanvasStep /\ asks' \in [Streams -> Viewport!Reading \cup {NoStream}]
    BY <1>1, <2>1, <2>2, QueueKeeps
  <2> QED BY <1>1, <1>2, <2>3 DEF Viewport!ViewportInv, Viewport!ViewportTypeOK, CanvasStep
<1>4. CASE ~Viewport!StillValid(probe)
  <2>1. asks' = asks
    BY <1>4 DEF Viewport!AnswerProbe
  <2>2. CanvasStep
    BY <1>1, <2>1, ViewportTypes, CanvasesStay
  <2> QED BY <1>1, <1>2, <2>1, <2>2 DEF Viewport!ViewportInv, Viewport!ViewportTypeOK, CanvasStep
<1> QED BY <1>3, <1>4

\* Every step keeps the invariant and takes no canvas back.
LEMMA ViewportStep ==
    ASSUME Viewport!ViewportAssumption, Viewport!ViewportInv, [Viewport!ViewportNext]_(Viewport!viewportVars)
    PROVE  Viewport!ViewportInv' /\ CanvasStep
<1>1. CASE UNCHANGED Viewport!viewportVars
  <2>1. UNCHANGED <<size, given, lease, controllerSize, revision, rendered, probe, watcher, asks, canvas>>
    BY <1>1 DEF Viewport!viewportVars
  <2>2. CanvasStep
    BY <2>1, ViewportTypes, CanvasesStay
  <2> QED BY <2>1, <2>2 DEF Viewport!ViewportInv, Viewport!ViewportTypeOK, Viewport!ProbeFits, CanvasStep
<1> QED
  BY <1>1, OpenKeeps, WatchKeeps, FollowKeeps, LeaseKeeps, ResizeKeeps, ReportKeeps, ProbeKeeps, AnswerKeeps
     DEF Viewport!ViewportNext

\* No canvas is open at first.
LEMMA ViewportBegins ==
    ASSUME Viewport!ViewportAssumption, Viewport!ViewportInit PROVE Viewport!ViewportInv
<1>1. Viewport!NoProbe.at = "none" /\ Viewport!NotRendered \in [lease : 0..MaxLeases, size : Sizes \cup {NoStream}]
  BY DEF Viewport!NoProbe, Viewport!NotRendered, Viewport!ViewportAssumption
<1>2. Viewport!ViewportTypeOK
  BY <1>1 DEF Viewport!ViewportInit, Viewport!ViewportTypeOK, Viewport!ViewportAssumption
<1>3. \A s \in Streams : Viewport!CanvasFits(s)
  BY DEF Viewport!ViewportInit, Viewport!CanvasFits
<1> QED BY <1>1, <1>2, <1>3 DEF Viewport!ViewportInit, Viewport!ViewportInv, Viewport!ProbeFits

\* A canvas never goes back (controllerViewport, refreshViewports).
THEOREM CanvasesGoForward ==
    ASSUME Viewport!ViewportAssumption
    PROVE  Viewport!ViewportSpec => []Viewport!ViewportInv /\ Viewport!ViewportNeverGoesBack
<1>1. Viewport!ViewportInit => Viewport!ViewportInv
  BY ViewportBegins
<1>2. Viewport!ViewportInv /\ [Viewport!ViewportNext]_(Viewport!viewportVars) => Viewport!ViewportInv'
  BY ViewportStep
<1>3. Viewport!ViewportInv /\ [Viewport!ViewportNext]_(Viewport!viewportVars) =>
        [\A s \in Streams : canvas[s] # NoStream =>
            canvas'[s] # NoStream /\ canvas'[s].when >= canvas[s].when]_(Viewport!viewportVars)
  BY ViewportStep DEF CanvasStep
<1> QED BY <1>1, <1>2, <1>3, PTL DEF Viewport!ViewportSpec, Viewport!ViewportNeverGoesBack

(***************************************************************************)
(* Voice sessions                                                          *)
(***************************************************************************)

\* The operators of FiniteSets that VoiceGateway takes.
LEMMA VoiceSets ==
    /\ \A S : Voice!Cardinality(S) = Cardinality(S)
    /\ \A S : Voice!IsFiniteSet(S) <=> IsFiniteSet(S)
<1>1. \A S : Voice!Cardinality(S) = Cardinality(S)
  BY Zenon DEF Voice!Cardinality, Cardinality
<1>2. \A S : Voice!IsFiniteSet(S) <=> IsFiniteSet(S)
  BY Zenon DEF Voice!IsFiniteSet, IsFiniteSet
<1> QED BY <1>1, <1>2

\* A request at q with the session s holds a slot.
HoldsAs(q, s) ==
    /\ q.at \in {"claimed", "accepted", "dialing", "opened", "refused", "dialed", "relay", "closing", "joining"}
    /\ ~s.released

\* A request at q with the session s fits when Close knows of it or not.
FitsAs(q, s, known) ==
    /\ q.at \notin {"idle", "over"} => q.login \in Logins
    /\ q.at \in Voice!Unregistered => ~s.released /\ ~known
    /\ q.at \in Voice!Unregistered \cup {"dialed"} => s.ctx = "none"
    /\ q.at \in {"relay", "closing", "joining"} => s.ctx # "none"
    /\ known /\ q.at = "over" => s.ctx # "none"
    /\ s.up = "open" => q.at \in {"opened", "dialed", "relay", "closing", "joining"} /\ HoldsAs(q, s)

\* What is said of a request is said of its record and its session.
LEMMA FitsIs ==
    ASSUME NEW r \in Streams
    PROVE  /\ Voice!RequestFits(r) <=> FitsAs(request[r], session[r], r \in closers \cup stopping)
           /\ Voice!Holds(r) <=> HoldsAs(request[r], session[r])
           /\ Voice!RequestFits(r)' <=> FitsAs(request'[r], session'[r], r \in closers' \cup stopping')
           /\ Voice!Holds(r)' <=> HoldsAs(request'[r], session'[r])
           /\ Voice!Owner(r) = UserOf[request[r].login] /\ Voice!Owner(r)' = UserOf[request'[r].login]
BY DEF Voice!RequestFits, FitsAs, Voice!Holds, HoldsAs, Voice!Owner

\* The requests that hold a slot.
Holders == {r \in Streams : Voice!Holds(r)}
HoldersOf(u) == {r \in Streams : Voice!Holds(r) /\ Voice!Owner(r) = u}

\* The slots in use are those.
Slots == active = Cardinality(Holders) /\ \A u \in Users : perUser[u] = Cardinality(HoldersOf(u))

\* The sets of requests are finite.
LEMMA HoldersFinite ==
    ASSUME Voice!VoiceAssumption
    PROVE  \A S \in SUBSET Streams : IsFiniteSet(S) /\ Cardinality(S) \in Nat
BY VoiceSets, FS_Subset, FS_CardinalityType DEF Voice!VoiceAssumption

\* The same requests hold slots of the same users.
LEMMA SlotsStay ==
    ASSUME Slots, active' = active, perUser' = perUser,
           \A r \in Streams : (Voice!Holds(r)' <=> Voice!Holds(r)) /\ (Voice!Holds(r) => Voice!Owner(r)' = Voice!Owner(r))
    PROVE  Slots'
<1>1. Holders' = Holders
  BY DEF Holders
<1>2. \A u \in Users : HoldersOf(u)' = HoldersOf(u)
  BY DEF HoldersOf
<1> QED BY <1>1, <1>2 DEF Slots

\* A request takes a slot.
LEMMA SlotTaken ==
    ASSUME Voice!VoiceAssumption, Slots, NEW r \in Streams, ~Voice!Holds(r), Voice!Holds(r)',
           Voice!Owner(r)' \in Users,
           perUser \in [Users -> Nat], active' = active + 1,
           perUser' = [perUser EXCEPT ![Voice!Owner(r)'] = @ + 1],
           \A x \in Streams \ {r} : (Voice!Holds(x)' <=> Voice!Holds(x)) /\ (Voice!Holds(x) => Voice!Owner(x)' = Voice!Owner(x))
    PROVE  Slots'
<1>1. Holders' = Holders \cup {r} /\ r \notin Holders /\ Holders \in SUBSET Streams
  BY DEF Holders
<1>2. Cardinality(Holders') = Cardinality(Holders) + 1
  BY <1>1, HoldersFinite, FS_AddElement
<1>3. ASSUME NEW u \in Users
      PROVE  perUser'[u] = Cardinality(HoldersOf(u)')
  <2>1. r \notin HoldersOf(u) /\ HoldersOf(u) \in SUBSET Streams
    BY DEF HoldersOf
  <2>2. CASE u = Voice!Owner(r)'
    <3>1. HoldersOf(u)' = HoldersOf(u) \cup {r}
      BY <2>2 DEF HoldersOf
    <3>2. Cardinality(HoldersOf(u)') = Cardinality(HoldersOf(u)) + 1
      BY <2>1, <3>1, HoldersFinite, FS_AddElement
    <3> QED BY <2>2, <3>2 DEF Slots
  <2>3. CASE u # Voice!Owner(r)'
    <3>1. HoldersOf(u)' = HoldersOf(u)
      BY <2>3 DEF HoldersOf
    <3> QED BY <2>3, <3>1 DEF Slots
  <2> QED BY <2>2, <2>3
<1> QED BY <1>2, <1>3 DEF Slots

\* A request gives its slot back.
LEMMA SlotFreed ==
    ASSUME Voice!VoiceAssumption, Slots, NEW r \in Streams, Voice!Holds(r), ~Voice!Holds(r)',
           Voice!Owner(r) \in Users,
           perUser \in [Users -> Nat], active \in Nat, Voice!Frees(Voice!Owner(r)),
           \A x \in Streams \ {r} : (Voice!Holds(x)' <=> Voice!Holds(x)) /\ (Voice!Holds(x) => Voice!Owner(x)' = Voice!Owner(x))
    PROVE  Slots'
<1>1. Holders' = Holders \ {r} /\ r \in Holders /\ Holders \in SUBSET Streams
  BY DEF Holders
<1>2. Cardinality(Holders') = Cardinality(Holders) - 1 /\ Cardinality(Holders) # 0
  BY <1>1, HoldersFinite, FS_RemoveElement, FS_EmptySet
<1>3. active' = Cardinality(Holders')
  BY <1>2 DEF Voice!Frees, Slots
<1>4. ASSUME NEW u \in Users
      PROVE  perUser'[u] = Cardinality(HoldersOf(u)')
  <2>1. HoldersOf(u) \in SUBSET Streams
    BY DEF HoldersOf
  <2>2. CASE u = Voice!Owner(r)
    <3>1. HoldersOf(u)' = HoldersOf(u) \ {r} /\ r \in HoldersOf(u)
      BY <2>2 DEF HoldersOf
    <3>2. Cardinality(HoldersOf(u)') = Cardinality(HoldersOf(u)) - 1 /\ Cardinality(HoldersOf(u)) # 0
      <4>1. IsFiniteSet(HoldersOf(u))
        BY <2>1, HoldersFinite
      <4>2. Cardinality(HoldersOf(u)') = Cardinality(HoldersOf(u)) - 1
        BY <3>1, <4>1, FS_RemoveElement
      <4>3. Cardinality(HoldersOf(u)) # 0
        BY <3>1, <4>1, FS_EmptySet
      <4> QED BY <4>2, <4>3
    <3>3. perUser[u] # 0 /\ perUser[u] \in Nat /\ perUser'[u] = IF perUser[u] > 0 THEN perUser[u] - 1 ELSE perUser[u]
      BY <2>2, <3>2 DEF Slots, Voice!Frees
    <3>4. perUser'[u] = perUser[u] - 1 /\ perUser[u] = Cardinality(HoldersOf(u))
      BY <3>3 DEF Slots
    <3> QED BY <3>2, <3>4
  <2>3. CASE u # Voice!Owner(r)
    <3>1. HoldersOf(u)' = HoldersOf(u)
      BY <2>3 DEF HoldersOf
    <3>2. perUser'[u] = perUser[u]
      BY <2>3 DEF Voice!Frees
    <3> QED BY <3>1, <3>2 DEF Slots
  <2> QED BY <2>2, <2>3
<1> QED BY <1>3, <1>4 DEF Slots

\* The exact slots are the slots in use and what an open upstream holds.
LEMMA SlotsAre ==
    ASSUME Voice!VoiceInv PROVE Slots
BY VoiceSets DEF Voice!VoiceInv, Voice!SlotsExact, Slots, Holders, HoldersOf

\* The slots are exact when they are those in use and every request fits.
LEMMA SlotsSuffice ==
    ASSUME Slots', \A r \in Streams : Voice!RequestFits(r)'
    PROVE  Voice!SlotsExact'
BY VoiceSets DEF Voice!SlotsExact, Slots, Holders, HoldersOf, Voice!RequestFits

\* The types of a request.
LEMMA VoiceTypes ==
    ASSUME Voice!VoiceAssumption, Voice!VoiceInv
    PROVE  /\ perUser \in [Users -> Nat] /\ active \in Nat /\ MaxPerUser \in Nat /\ MaxSessions \in Nat
           /\ minted \in 0..MaxMinted /\ MaxMinted \in Nat /\ epoch \in 1..(MaxEpoch + 1) /\ MaxEpoch \in Nat
           /\ \A r \in Streams : /\ request[r] \in Voice!Asked /\ session[r] \in Voice!Sessions
                                 /\ FitsAs(request[r], session[r], r \in closers \cup stopping)
                                 /\ request[r].at \notin {"idle", "over"} => Voice!Owner(r) \in Users
<1>1. /\ MaxPerUser \in Nat /\ MaxSessions \in Nat /\ MaxMinted \in Nat /\ MaxEpoch \in Nat
      /\ UserOf \in [Logins -> Users]
  BY DEF Voice!VoiceAssumption, Voice!Validated
<1>2. perUser \in [Users -> Nat] /\ active \in Nat
  BY <1>1 DEF Voice!VoiceInv, Voice!VoiceTypeOK
<1>3. ASSUME NEW r \in Streams
      PROVE  /\ FitsAs(request[r], session[r], r \in closers \cup stopping)
             /\ request[r].at \notin {"idle", "over"} => Voice!Owner(r) \in Users
  <2>1. Voice!RequestFits(r)
    BY DEF Voice!VoiceInv
  <2> QED BY <1>1, <2>1, FitsIs DEF FitsAs
<1> QED BY <1>1, <1>2, <1>3 DEF Voice!VoiceInv, Voice!VoiceTypeOK

\* The slots stay, one is taken or one is given back.
SlotStep(r, q, s) ==
    \/ /\ active' = active /\ perUser' = perUser /\ (HoldsAs(q, s) <=> Voice!Holds(r))
       /\ Voice!Holds(r) => q.login = request[r].login
    \/ /\ ~Voice!Holds(r) /\ HoldsAs(q, s) /\ q.login \in Logins /\ ~Voice!Full(UserOf[q.login])
       /\ active' = active + 1 /\ perUser' = [perUser EXCEPT ![UserOf[q.login]] = @ + 1]
    \/ Voice!Holds(r) /\ ~HoldsAs(q, s) /\ Voice!Frees(Voice!Owner(r))

\* The slots are in use as before, apart from those of one request.
LEMMA SlotsFollow ==
    ASSUME Voice!VoiceAssumption, Voice!VoiceInv, NEW r \in Streams, SlotStep(r, request'[r], session'[r]),
           \A x \in Streams \ {r} : request'[x] = request[x] /\ session'[x] = session[x]
    PROVE  Slots' /\ perUser' \in [Users -> 0..MaxPerUser] /\ active' \in 0..MaxSessions
<1>1. \A x \in Streams \ {r} : (Voice!Holds(x)' <=> Voice!Holds(x)) /\ (Voice!Holds(x) => Voice!Owner(x)' = Voice!Owner(x))
  BY FitsIs
<1>2. Slots /\ perUser \in [Users -> 0..MaxPerUser] /\ active \in 0..MaxSessions
  BY SlotsAre DEF Voice!VoiceInv, Voice!VoiceTypeOK
<1>3. /\ perUser \in [Users -> Nat] /\ active \in Nat /\ MaxPerUser \in Nat /\ MaxSessions \in Nat
      /\ UserOf \in [Logins -> Users]
  BY VoiceTypes DEF Voice!VoiceAssumption
<1>4. CASE /\ active' = active /\ perUser' = perUser /\ (HoldsAs(request'[r], session'[r]) <=> Voice!Holds(r))
           /\ Voice!Holds(r) => request'[r].login = request[r].login
  <2>1. (Voice!Holds(r)' <=> Voice!Holds(r)) /\ (Voice!Holds(r) => Voice!Owner(r)' = Voice!Owner(r))
    BY <1>4, FitsIs
  <2> QED BY <1>1, <1>2, <1>4, <2>1, SlotsStay
<1>5. CASE /\ ~Voice!Holds(r) /\ HoldsAs(request'[r], session'[r]) /\ request'[r].login \in Logins
           /\ ~Voice!Full(UserOf[request'[r].login])
           /\ active' = active + 1 /\ perUser' = [perUser EXCEPT ![UserOf[request'[r].login]] = @ + 1]
  <2>1. Voice!Holds(r)' /\ Voice!Owner(r)' = UserOf[request'[r].login] /\ Voice!Owner(r)' \in Users
    BY <1>3, <1>5, FitsIs
  <2>2. Slots'
    BY <1>1, <1>2, <1>3, <1>5, <2>1, SlotTaken
  <2>3. active' \in 0..MaxSessions
    BY <1>2, <1>3, <1>5 DEF Voice!Full
  <2>4. PICK u \in Users : u = UserOf[request'[r].login]
    BY <1>3, <1>5
  <2>5. perUser[u] + 1 \in 0..MaxPerUser
    BY <1>2, <1>3, <1>5, <2>4 DEF Voice!Full
  <2>6. perUser' \in [Users -> 0..MaxPerUser]
    BY <1>2, <1>5, <2>4, <2>5
  <2> QED BY <2>2, <2>3, <2>6
<1>6. CASE Voice!Holds(r) /\ ~HoldsAs(request'[r], session'[r]) /\ Voice!Frees(Voice!Owner(r))
  <2>1. ~Voice!Holds(r)' /\ Voice!Owner(r) \in Users
    BY <1>6, FitsIs, VoiceTypes DEF Voice!Holds
  <2>2. Slots'
    BY <1>1, <1>2, <1>3, <1>6, <2>1, SlotFreed
  <2>3. active' \in 0..MaxSessions
    BY <1>2, <1>3, <1>6 DEF Voice!Frees
  <2>4. \A n \in 0..MaxPerUser : (IF n > 0 THEN n - 1 ELSE n) \in 0..MaxPerUser
    BY <1>3
  <2>5. perUser' \in [Users -> 0..MaxPerUser]
    BY <1>2, <1>6, <2>4 DEF Voice!Frees
  <2> QED BY <2>2, <2>3, <2>5
<1> QED BY <1>4, <1>5, <1>6 DEF SlotStep

\* The step of one request.
LEMMA OneRequest ==
    ASSUME Voice!VoiceAssumption, Voice!VoiceInv, NEW r \in Streams, NEW q \in Voice!Asked,
           NEW s \in Voice!Sessions,
           request' = [request EXCEPT ![r] = q], session' = [session EXCEPT ![r] = s],
           q.value = request[r].value,
           UNCHANGED <<tickets, minted, issues, epoch, shut, ended>>,
           closers' \subseteq closers \cup {r}, stopping' \subseteq stopping,
           FitsAs(q, s, r \in closers' \cup stopping'), SlotStep(r, q, s)
    PROVE  Voice!VoiceInv'
<1>1. /\ request'[r] = q /\ session'[r] = s
      /\ \A x \in Streams \ {r} : request'[x] = request[x] /\ session'[x] = session[x]
      /\ request' \in [Streams -> Voice!Asked] /\ session' \in [Streams -> Voice!Sessions]
  BY DEF Voice!VoiceInv, Voice!VoiceTypeOK
<1>2. Slots' /\ perUser' \in [Users -> 0..MaxPerUser] /\ active' \in 0..MaxSessions
  BY <1>1, SlotsFollow
<1>3. ASSUME NEW x \in Streams PROVE Voice!RequestFits(x)'
  <2>1. CASE x = r
    BY <1>1, <2>1, FitsIs
  <2>2. CASE x # r
    <3>1. x \in closers' \cup stopping' => x \in closers \cup stopping
      BY <2>2
    <3>2. FitsAs(request[x], session[x], x \in closers \cup stopping)
      BY VoiceTypes
    <3>3. FitsAs(request'[x], session'[x], x \in closers' \cup stopping')
      BY <1>1, <2>2, <3>1, <3>2 DEF FitsAs
    <3> QED BY <3>3, FitsIs
  <2> QED BY <2>1, <2>2
<1>4. Voice!SlotsExact'
  BY <1>2, <1>3, SlotsSuffice
<1>5. \A x \in Streams : request'[x].value = request[x].value
  BY <1>1
<1>6. Voice!TicketsFit'
  BY <1>5 DEF Voice!VoiceInv, Voice!TicketsFit
<1>7. Voice!VoiceTypeOK'
  BY <1>1, <1>2 DEF Voice!VoiceInv, Voice!VoiceTypeOK
<1> QED BY <1>3, <1>4, <1>6, <1>7 DEF Voice!VoiceInv

\* The step of one request that has no other session then.
LEMMA OneAsked ==
    ASSUME Voice!VoiceAssumption, Voice!VoiceInv, NEW r \in Streams, NEW q \in Voice!Asked,
           request' = [request EXCEPT ![r] = q], session' = session,
           q.value = request[r].value,
           UNCHANGED <<tickets, minted, issues, epoch, shut, ended>>,
           closers' \subseteq closers \cup {r}, stopping' \subseteq stopping,
           FitsAs(q, session[r], r \in closers' \cup stopping'), SlotStep(r, q, session[r])
    PROVE  Voice!VoiceInv'
<1>1. session' = [session EXCEPT ![r] = session[r]] /\ session[r] \in Voice!Sessions
  BY DEF Voice!VoiceInv, Voice!VoiceTypeOK
<1> QED BY <1>1, OneRequest

\* The step of one session, of a request that stays where it is.
LEMMA OneSession ==
    ASSUME Voice!VoiceAssumption, Voice!VoiceInv, NEW r \in Streams, NEW s \in Voice!Sessions,
           session' = [session EXCEPT ![r] = s], request' = request,
           UNCHANGED <<tickets, minted, issues, epoch, shut, ended>>,
           closers' \subseteq closers, stopping' \subseteq stopping,
           FitsAs(request[r], s, r \in closers' \cup stopping'), SlotStep(r, request[r], s)
    PROVE  Voice!VoiceInv'
<1>1. request' = [request EXCEPT ![r] = request[r]] /\ request[r] \in Voice!Asked
  BY DEF Voice!VoiceInv, Voice!VoiceTypeOK
<1> QED BY <1>1, OneRequest

\* A request that goes on, or is over.
LEMMA Moves ==
    ASSUME Voice!VoiceAssumption, Voice!VoiceInv, NEW r \in Streams, NEW step \in Voice!Steps
    PROVE  /\ \E q \in Voice!Asked : /\ q = [request[r] EXCEPT !.at = step]
                                     /\ q.at = step /\ q.login = request[r].login /\ q.value = request[r].value
           /\ \E q \in Voice!Asked : /\ q = [request[r] EXCEPT !.at = "over", !.login = NoStream]
                                     /\ q.at = "over" /\ q.value = request[r].value
<1>1. PICK old : old = request[r]
  OBVIOUS
<1>2. old \in Voice!Asked
  BY <1>1, VoiceTypes
<1>3. PICK q : q = [old EXCEPT !.at = step]
  OBVIOUS
<1>4. q \in Voice!Asked /\ q.at = step /\ q.login = old.login /\ q.value = old.value
  BY <1>2, <1>3 DEF Voice!Asked
<1>5. PICK p : p = [old EXCEPT !.at = "over", !.login = NoStream]
  OBVIOUS
<1>6. p \in Voice!Asked /\ p.at = "over" /\ p.value = old.value
  BY <1>2, <1>5 DEF Voice!Asked, Voice!Steps
<1> QED BY <1>1, <1>3, <1>4, <1>5, <1>6

\* A request goes on without a word to anybody.
LEMMA GoesKeeps ==
    ASSUME Voice!VoiceAssumption, Voice!VoiceInv, NEW r \in Streams, Voice!Accept(r) \/ Voice!StartDial(r)
    PROVE  Voice!VoiceInv'
<1>1. PICK step \in {"accepted", "dialing"} :
        /\ request[r].at \in {"claimed", "accepted"} /\ request' = [request EXCEPT ![r].at = step]
        /\ UNCHANGED <<tickets, minted, issues, epoch, shut, perUser, active, closers, stopping, ended, session>>
  BY DEF Voice!Accept, Voice!StartDial, Voice!At, Voice!Goes, Voice!gatewayVars, Voice!slotVars
<1>2. PICK q \in Voice!Asked : /\ q = [request[r] EXCEPT !.at = step]
                               /\ q.at = step /\ q.login = request[r].login /\ q.value = request[r].value
  <2>1. step \in Voice!Steps
    BY DEF Voice!Steps
  <2> QED BY <2>1, Moves
<1>3. request' = [request EXCEPT ![r] = q]
  BY <1>1, <1>2
<1>4. FitsAs(request[r], session[r], r \in closers \cup stopping)
  BY VoiceTypes
<1>5. FitsAs(q, session[r], r \in closers' \cup stopping')
  BY <1>1, <1>2, <1>4 DEF FitsAs, HoldsAs, Voice!Unregistered
<1>6. SlotStep(r, q, session[r])
  BY <1>1, <1>2, FitsIs DEF SlotStep, HoldsAs
<1> QED BY <1>1, <1>2, <1>3, <1>5, <1>6, OneAsked

\* A slot is taken, or the request is over.
LEMMA ReserveKeeps ==
    ASSUME Voice!VoiceAssumption, Voice!VoiceInv, NEW r \in Streams, Voice!Reserve(r)
    PROVE  Voice!VoiceInv'
<1>0. /\ request[r].at = "consumed"
      /\ UNCHANGED <<tickets, minted, issues, epoch, shut, closers, stopping, ended, session>>
  BY DEF Voice!Reserve, Voice!At, Voice!gatewayVars
<1>1. FitsAs(request[r], session[r], r \in closers \cup stopping)
  BY VoiceTypes
<1>2. CASE shut \/ Voice!Full(Voice!Owner(r))
  <2>1. PICK q \in Voice!Asked : /\ q = [request[r] EXCEPT !.at = "over", !.login = NoStream]
                                 /\ q.at = "over" /\ q.value = request[r].value
    BY Moves DEF Voice!Steps
  <2>2. request' = [request EXCEPT ![r] = q] /\ active' = active /\ perUser' = perUser
    BY <1>2, <2>1 DEF Voice!Reserve, Voice!Over, Voice!slotVars
  <2>3. FitsAs(q, session[r], r \in closers' \cup stopping')
    BY <1>0, <1>1, <2>1 DEF FitsAs, HoldsAs, Voice!Unregistered
  <2>4. SlotStep(r, q, session[r])
    BY <1>0, <2>1, <2>2, FitsIs DEF SlotStep, HoldsAs
  <2> QED BY <1>0, <2>1, <2>2, <2>3, <2>4, OneAsked
<1>3. CASE ~(shut \/ Voice!Full(Voice!Owner(r)))
  <2>1. PICK q \in Voice!Asked : /\ q = [request[r] EXCEPT !.at = "claimed"]
                                 /\ q.at = "claimed" /\ q.login = request[r].login /\ q.value = request[r].value
    BY Moves DEF Voice!Steps
  <2>2. /\ request' = [request EXCEPT ![r] = q] /\ active' = active + 1
        /\ perUser' = [perUser EXCEPT ![Voice!Owner(r)] = @ + 1]
    BY <1>3, <2>1 DEF Voice!Reserve, Voice!Goes
  <2>3. FitsAs(q, session[r], r \in closers' \cup stopping')
    BY <1>0, <1>1, <2>1 DEF FitsAs, HoldsAs, Voice!Unregistered
  <2>4. ~Voice!Holds(r) /\ HoldsAs(q, session[r]) /\ q.login \in Logins /\ Voice!Owner(r) = UserOf[q.login]
    BY <1>0, <1>1, <2>1 DEF FitsAs, Voice!Holds, HoldsAs, Voice!Unregistered, Voice!Owner
  <2>5. SlotStep(r, q, session[r])
    BY <1>3, <2>2, <2>4 DEF SlotStep
  <2> QED BY <1>0, <2>1, <2>2, <2>3, <2>5, OneAsked
<1> QED BY <1>2, <1>3

\* A request that did not get as far as a session gives its slot back.
LEMMA ReleaseKeeps ==
    ASSUME Voice!VoiceAssumption, Voice!VoiceInv, NEW r \in Streams,
           Voice!Release(r) \/ Voice!DialFails(r) \/ Voice!DialRefused(r)
    PROVE  Voice!VoiceInv'
<1>1. /\ request[r].at \in {"claimed", "accepted", "dialing", "refused"}
      /\ request' = [request EXCEPT ![r].at = "over", ![r].login = NoStream] /\ Voice!Frees(Voice!Owner(r))
      /\ UNCHANGED <<tickets, minted, issues, epoch, shut, closers, stopping, ended, session>>
  BY DEF Voice!Release, Voice!DialFails, Voice!DialRefused, Voice!At, Voice!Over, Voice!gatewayVars
<1>2. PICK q \in Voice!Asked : /\ q = [request[r] EXCEPT !.at = "over", !.login = NoStream]
                               /\ q.at = "over" /\ q.value = request[r].value
  BY Moves DEF Voice!Steps
<1>3. request' = [request EXCEPT ![r] = q]
  BY <1>1, <1>2
<1>4. FitsAs(request[r], session[r], r \in closers \cup stopping)
  BY VoiceTypes
<1>5. FitsAs(q, session[r], r \in closers' \cup stopping')
  BY <1>1, <1>2, <1>4 DEF FitsAs, HoldsAs, Voice!Unregistered
<1>6. Voice!Holds(r) /\ ~HoldsAs(q, session[r])
  BY <1>1, <1>2, <1>4 DEF Voice!Holds, HoldsAs, FitsAs, Voice!Unregistered
<1>7. SlotStep(r, q, session[r])
  BY <1>1, <1>6 DEF SlotStep
<1> QED BY <1>1, <1>2, <1>3, <1>5, <1>7, OneAsked

\* The upstream is open and the session is registered, or it is closed again.
LEMMA OpensKeep ==
    ASSUME Voice!VoiceAssumption, Voice!VoiceInv, NEW r \in Streams, Voice!DialOpens(r) \/ Voice!Register(r)
    PROVE  Voice!VoiceInv'
<1>0. UNCHANGED <<tickets, minted, issues, epoch, shut, perUser, active, stopping, ended>>
  BY DEF Voice!DialOpens, Voice!Register, Voice!gatewayVars, Voice!slotVars
<1>1. PICK old : old = session[r]
  OBVIOUS
<1>2. old \in Voice!Sessions /\ FitsAs(request[r], old, r \in closers \cup stopping)
  BY <1>1, VoiceTypes
<1>3. CASE Voice!DialOpens(r) \/ (Voice!Register(r) /\ shut)
  <2>1. PICK step \in {"opened", "refused"}, up \in {"open", "closed"} :
          /\ request[r].at \in {"dialing", "opened"} /\ request' = [request EXCEPT ![r].at = step]
          /\ session' = [session EXCEPT ![r].up = up] /\ closers' = closers
          /\ up = "open" => step = "opened"
    BY <1>3 DEF Voice!DialOpens, Voice!Register, Voice!At, Voice!Goes
  <2>2. PICK q \in Voice!Asked : /\ q = [request[r] EXCEPT !.at = step]
                                 /\ q.at = step /\ q.login = request[r].login /\ q.value = request[r].value
    <3>1. step \in Voice!Steps
      BY DEF Voice!Steps
    <3> QED BY <3>1, Moves
  <2>3. PICK s : s = [old EXCEPT !.up = up]
    OBVIOUS
  <2>4. s \in Voice!Sessions /\ s.up = up /\ s.ctx = old.ctx /\ s.released = old.released
    BY <1>2, <2>3 DEF Voice!Sessions
  <2>5. request' = [request EXCEPT ![r] = q] /\ session' = [session EXCEPT ![r] = s]
    BY <1>1, <2>1, <2>2, <2>3
  <2>6. FitsAs(q, s, r \in closers' \cup stopping')
    BY <1>0, <1>2, <2>1, <2>2, <2>4 DEF FitsAs, HoldsAs, Voice!Unregistered
  <2>7. SlotStep(r, q, s)
    BY <1>0, <1>1, <2>1, <2>2, <2>4, FitsIs DEF SlotStep, HoldsAs
  <2> QED BY <1>0, <2>1, <2>2, <2>4, <2>5, <2>6, <2>7, OneRequest
<1>4. CASE Voice!Register(r) /\ ~shut
  <2>1. /\ request[r].at = "opened" /\ request' = [request EXCEPT ![r].at = "dialed"]
        /\ session' = session /\ closers' = closers \cup {r}
    BY <1>4 DEF Voice!Register, Voice!At, Voice!Goes
  <2>2. PICK q \in Voice!Asked : /\ q = [request[r] EXCEPT !.at = "dialed"]
                                 /\ q.at = "dialed" /\ q.login = request[r].login /\ q.value = request[r].value
    BY Moves DEF Voice!Steps
  <2>3. request' = [request EXCEPT ![r] = q]
    BY <2>1, <2>2
  <2>4. FitsAs(q, session[r], r \in closers' \cup stopping')
    BY <1>1, <1>2, <2>1, <2>2 DEF FitsAs, HoldsAs, Voice!Unregistered
  <2>5. SlotStep(r, q, session[r])
    BY <1>0, <2>1, <2>2, FitsIs DEF SlotStep, HoldsAs
  <2> QED BY <1>0, <2>1, <2>2, <2>3, <2>4, <2>5, OneAsked
<1> QED BY <1>3, <1>4

\* The relay begins, reports and closes its legs.
LEMMA RelayKeeps ==
    ASSUME Voice!VoiceAssumption, Voice!VoiceInv, NEW r \in Streams,
           Voice!Relay(r) \/ Voice!First(r) \/ Voice!CloseLegs(r)
    PROVE  Voice!VoiceInv'
<1>0. UNCHANGED <<tickets, minted, issues, epoch, shut, perUser, active, closers, stopping, ended>>
  BY DEF Voice!Relay, Voice!First, Voice!CloseLegs, Voice!gatewayVars, Voice!slotVars
<1>1. PICK old : old = session[r]
  OBVIOUS
<1>2. old \in Voice!Sessions /\ FitsAs(request[r], old, r \in closers \cup stopping)
  BY <1>1, VoiceTypes
<1>3. ASSUME NEW step \in {"relay", "closing", "joining"}, NEW s \in Voice!Sessions,
             request[r].at \in {"dialed", "relay", "closing"}, request' = [request EXCEPT ![r].at = step],
             session' = [session EXCEPT ![r] = s], s.ctx # "none", s.released = old.released,
             s.up \in {old.up, "closed"}
      PROVE  Voice!VoiceInv'
  <2>1. PICK q \in Voice!Asked : /\ q = [request[r] EXCEPT !.at = step]
                                 /\ q.at = step /\ q.login = request[r].login /\ q.value = request[r].value
    <3>1. step \in Voice!Steps
      BY DEF Voice!Steps
    <3> QED BY <3>1, Moves
  <2>2. request' = [request EXCEPT ![r] = q]
    BY <1>3, <2>1
  <2>3. FitsAs(q, s, r \in closers' \cup stopping')
    BY <1>0, <1>2, <1>3, <2>1 DEF FitsAs, HoldsAs, Voice!Unregistered
  <2>4. SlotStep(r, q, s)
    BY <1>0, <1>1, <1>3, <2>1, FitsIs DEF SlotStep, HoldsAs
  <2> QED BY <1>0, <1>3, <2>1, <2>2, <2>3, <2>4, OneRequest
<1>4. CASE Voice!Relay(r)
  <2>1. PICK ctx \in {"login", "live"} :
          session' = [session EXCEPT ![r].pumps = {"browser", "upstream"}, ![r].ctx = ctx]
    BY <1>4 DEF Voice!Relay
  <2>2. PICK s : s = [old EXCEPT !.pumps = {"browser", "upstream"}, !.ctx = ctx]
    OBVIOUS
  <2>3. s \in Voice!Sessions /\ s.ctx # "none" /\ s.released = old.released /\ s.up = old.up
    BY <1>2, <2>2 DEF Voice!Sessions, Voice!Causes
  <2>4. session' = [session EXCEPT ![r] = s]
    BY <1>1, <2>1, <2>2
  <2> QED BY <1>3, <1>4, <2>3, <2>4 DEF Voice!Relay, Voice!At, Voice!Goes
<1>5. CASE Voice!First(r)
  <2>1. PICK s : s = [old EXCEPT !.ctx = "canceled", !.first = "none"]
    OBVIOUS
  <2>2. s \in Voice!Sessions /\ s.ctx # "none" /\ s.released = old.released /\ s.up = old.up
    BY <1>2, <2>1 DEF Voice!Sessions, Voice!Causes
  <2>3. session' = [session EXCEPT ![r] = s]
    BY <1>1, <1>5, <2>1 DEF Voice!First
  <2> QED BY <1>3, <1>5, <2>2, <2>3 DEF Voice!First, Voice!At, Voice!Goes
<1>6. CASE Voice!CloseLegs(r)
  <2>1. PICK s : s = [old EXCEPT !.up = "closed"]
    OBVIOUS
  <2>2. s \in Voice!Sessions /\ s.ctx = old.ctx /\ s.released = old.released /\ s.up = "closed"
    BY <1>2, <2>1 DEF Voice!Sessions
  <2>3. session' = [session EXCEPT ![r] = s]
    BY <1>1, <1>6, <2>1 DEF Voice!CloseLegs
  <2>4. s.ctx # "none"
    BY <1>2, <1>6, <2>2 DEF FitsAs, Voice!CloseLegs, Voice!At
  <2> QED BY <1>3, <1>6, <2>2, <2>3, <2>4 DEF Voice!CloseLegs, Voice!At, Voice!Goes
<1> QED BY <1>4, <1>5, <1>6

\* A session that is gone.
LEMMA GoneTypes ==
    ASSUME NEW s \in Voice!Sessions
    PROVE  Voice!Gone(s) \in Voice!Sessions /\ Voice!Gone(s).up = "closed" /\ Voice!Gone(s).released /\ Voice!Gone(s).ctx = s.ctx
BY DEF Voice!Gone, Voice!Sessions

\* A session that is canceled.
LEMMA CancelTypes ==
    ASSUME NEW s \in Voice!Sessions, NEW cause \in Voice!Causes
    PROVE  /\ Voice!Cancel(s, cause) \in Voice!Sessions /\ Voice!Cancel(s, cause).up = s.up /\ Voice!Cancel(s, cause).released = s.released
           /\ Voice!Cancel(s, cause).ctx = "none" <=> s.ctx = "none"
BY DEF Voice!Cancel, Voice!Sessions, Voice!Causes

\* The relay is over: the slot is given back once.
LEMMA JoinKeeps ==
    ASSUME Voice!VoiceAssumption, Voice!VoiceInv, NEW r \in Streams, Voice!Join(r)
    PROVE  Voice!VoiceInv'
<1>0. /\ request[r].at = "joining" /\ request' = [request EXCEPT ![r].at = "over", ![r].login = NoStream]
      /\ Voice!ReleasesOnce(r) /\ closers' = closers \ {r}
      /\ UNCHANGED <<tickets, minted, issues, epoch, shut, stopping, ended>>
  BY DEF Voice!Join, Voice!At, Voice!Over, Voice!gatewayVars
<1>1. session[r] \in Voice!Sessions /\ FitsAs(request[r], session[r], r \in closers \cup stopping)
  BY VoiceTypes
<1>2. PICK s : s = Voice!Gone(session[r])
  OBVIOUS
<1>3. s \in Voice!Sessions /\ s.up = "closed" /\ s.released /\ s.ctx = session[r].ctx
  BY <1>1, <1>2, GoneTypes
<1>4. session' = [session EXCEPT ![r] = s]
  BY <1>2 DEF Voice!Join
<1>5. PICK q \in Voice!Asked : /\ q = [request[r] EXCEPT !.at = "over", !.login = NoStream]
                               /\ q.at = "over" /\ q.value = request[r].value
  BY Moves DEF Voice!Steps
<1>6. request' = [request EXCEPT ![r] = q]
  BY <1>0, <1>5
<1>7. FitsAs(q, s, r \in closers' \cup stopping')
  BY <1>0, <1>1, <1>3, <1>5 DEF FitsAs, HoldsAs, Voice!Unregistered
<1>8. SlotStep(r, q, s)
  BY <1>0, <1>3, <1>5 DEF SlotStep, HoldsAs, Voice!Holds, Voice!ReleasesOnce, Voice!slotVars
<1> QED BY <1>0, <1>3, <1>4, <1>5, <1>6, <1>7, <1>8, OneRequest

\* A pump ends, or a timer ends the session.
LEMMA PumpKeeps ==
    ASSUME Voice!VoiceAssumption, Voice!VoiceInv, NEW r \in Streams,
           Voice!pumpBrowser(r) \/ Voice!pumpUpstream(r) \/ Voice!RunsOut(r)
    PROVE  Voice!VoiceInv'
<1>0. UNCHANGED <<tickets, minted, issues, epoch, shut, perUser, active, closers, stopping, ended, request>>
  BY DEF Voice!pumpBrowser, Voice!pumpUpstream, Voice!PumpEnds, Voice!RunsOut, Voice!gatewayVars,
     Voice!slotVars
<1>1. session[r] \in Voice!Sessions /\ FitsAs(request[r], session[r], r \in closers \cup stopping)
  BY VoiceTypes
<1>2. ASSUME NEW s \in Voice!Sessions, session' = [session EXCEPT ![r] = s], s.up = session[r].up,
             s.released = session[r].released, s.ctx = "none" <=> session[r].ctx = "none"
      PROVE  Voice!VoiceInv'
  <2>1. FitsAs(request[r], s, r \in closers' \cup stopping')
    BY <1>0, <1>1, <1>2 DEF FitsAs, HoldsAs
  <2>2. SlotStep(r, request[r], s)
    BY <1>0, <1>2, FitsIs DEF SlotStep, HoldsAs
  <2> QED BY <1>0, <1>2, <2>1, <2>2, OneSession
<1>3. CASE Voice!RunsOut(r)
  BY <1>1, <1>2, <1>3, CancelTypes DEF Voice!RunsOut, Voice!Causes
<1>4. ASSUME NEW pump \in {"browser", "upstream"}, Voice!PumpEnds(r, pump) PROVE Voice!VoiceInv'
  <2>1. PICK old : old = session[r]
    OBVIOUS
  <2>2. PICK result \in {pump} \cup (IF old.ctx = "live" THEN {} ELSE {old.ctx, "canceled"}) :
          /\ pump \in old.pumps
          /\ session' = [session EXCEPT ![r] = [old EXCEPT !.pumps = @ \ {pump},
                                                           !.first = IF @ = "none" /\ Voice!At(r, "relay") THEN result ELSE @]]
    BY <1>4, <2>1 DEF Voice!PumpEnds
  <2>3. result \in Voice!Causes \cup {"none"}
    BY <1>1, <2>1 DEF Voice!Sessions, Voice!Causes
  <2>4. PICK first : first = IF old.first = "none" /\ Voice!At(r, "relay") THEN result ELSE old.first
    OBVIOUS
  <2>5. first \in Voice!Causes \cup {"none"}
    BY <1>1, <2>1, <2>3, <2>4 DEF Voice!Sessions
  <2>6. PICK s : s = [old EXCEPT !.pumps = @ \ {pump}, !.first = first]
    OBVIOUS
  <2>7. s \in Voice!Sessions /\ s.up = old.up /\ s.released = old.released /\ s.ctx = old.ctx
    BY <1>1, <2>1, <2>5, <2>6 DEF Voice!Sessions
  <2>8. session' = [session EXCEPT ![r] = s]
    BY <2>2, <2>4, <2>6
  <2> QED BY <1>2, <2>1, <2>7, <2>8
<1> QED BY <1>3, <1>4 DEF Voice!pumpBrowser, Voice!pumpUpstream

\* Close ends a session, also one whose relay has not begun.
LEMMA ShutdownKeeps ==
    ASSUME Voice!VoiceAssumption, Voice!VoiceInv, NEW r \in Streams, Voice!shutdown(r)
    PROVE  Voice!VoiceInv'
<1>0. /\ r \in stopping /\ stopping' = stopping \ {r}
      /\ UNCHANGED <<tickets, minted, issues, epoch, shut, closers, ended, request>>
  BY DEF Voice!shutdown, Voice!gatewayVars
<1>1. session[r] \in Voice!Sessions /\ FitsAs(request[r], session[r], r \in closers \cup stopping)
  BY VoiceTypes
<1>2. CASE session[r].ctx = "none"
  <2>1. PICK s : s = Voice!Gone(session[r])
    OBVIOUS
  <2>2. s \in Voice!Sessions /\ s.up = "closed" /\ s.released /\ s.ctx = session[r].ctx
    BY <1>1, <2>1, GoneTypes
  <2>3. session' = [session EXCEPT ![r] = s] /\ Voice!ReleasesOnce(r)
    BY <1>2, <2>1 DEF Voice!shutdown, Voice!EndsUnstarted
  <2>4. request[r].at = "dialed"
    BY <1>0, <1>1, <1>2 DEF FitsAs, Voice!Unregistered, Voice!VoiceInv, Voice!VoiceTypeOK, Voice!Asked,
       Voice!Steps
  <2>5. FitsAs(request[r], s, r \in closers' \cup stopping')
    BY <1>0, <1>1, <2>2, <2>4 DEF FitsAs, HoldsAs, Voice!Unregistered
  <2>6. SlotStep(r, request[r], s)
    BY <2>2, <2>3, <2>4 DEF SlotStep, HoldsAs, Voice!Holds, Voice!ReleasesOnce, Voice!slotVars
  <2> QED BY <1>0, <2>2, <2>3, <2>5, <2>6, OneSession
<1>3. CASE session[r].ctx # "none"
  <2>1. PICK s : s = Voice!Cancel(session[r], "stopped")
    OBVIOUS
  <2>2. s \in Voice!Sessions /\ s.up = session[r].up /\ s.released = session[r].released /\ s.ctx # "none"
    BY <1>1, <1>3, <2>1, CancelTypes DEF Voice!Causes
  <2>3. session' = [session EXCEPT ![r] = s] /\ active' = active /\ perUser' = perUser
    BY <1>3, <2>1 DEF Voice!shutdown, Voice!slotVars
  <2>4. FitsAs(request[r], s, r \in closers' \cup stopping')
    BY <1>0, <1>1, <1>3, <2>2 DEF FitsAs, HoldsAs, Voice!Unregistered
  <2>5. SlotStep(r, request[r], s)
    BY <2>2, <2>3, FitsIs DEF SlotStep, HoldsAs
  <2> QED BY <1>0, <2>2, <2>3, <2>4, <2>5, OneSession
<1> QED BY <1>2, <1>3

\* Nothing of the slots and the sessions changes.
LEMMA SlotsUnchanged ==
    ASSUME Voice!VoiceAssumption, Voice!VoiceInv, UNCHANGED <<perUser, active, session>>,
           \A r \in Streams : /\ Voice!RequestFits(r)'
                              /\ (Voice!Holds(r)' <=> Voice!Holds(r)) /\ (Voice!Holds(r) => Voice!Owner(r)' = Voice!Owner(r))
    PROVE  Voice!SlotsExact'
BY SlotsAre, SlotsStay, SlotsSuffice

\* A login ends, and the sessions of its requests with it.
LEMMA LoginEndsKeeps ==
    ASSUME Voice!VoiceAssumption, Voice!VoiceInv, NEW l \in Logins, Voice!EndLogin(l)
    PROVE  Voice!VoiceInv'
<1>0. /\ ended' = ended \cup {l}
      /\ session' = [r \in Streams |-> IF request[r].login = l THEN Voice!Cancel(session[r], "login") ELSE session[r]]
      /\ UNCHANGED <<tickets, minted, issues, epoch, shut, perUser, active, closers, stopping, request>>
  BY DEF Voice!EndLogin, Voice!gatewayVars, Voice!slotVars
<1>1. ASSUME NEW r \in Streams
      PROVE  /\ session'[r] \in Voice!Sessions /\ session'[r].up = session[r].up
             /\ session'[r].released = session[r].released
             /\ session'[r].ctx = "none" <=> session[r].ctx = "none"
             /\ FitsAs(request[r], session[r], r \in closers \cup stopping)
  BY <1>0, VoiceTypes, CancelTypes DEF Voice!Causes
<1>2. session' \in [Streams -> Voice!Sessions]
  BY <1>0, <1>1
<1>3. ASSUME NEW r \in Streams
      PROVE  /\ Voice!RequestFits(r)'
             /\ (Voice!Holds(r)' <=> Voice!Holds(r)) /\ (Voice!Holds(r) => Voice!Owner(r)' = Voice!Owner(r))
  <2>1. FitsAs(request'[r], session'[r], r \in closers' \cup stopping')
    BY <1>0, <1>1 DEF FitsAs, HoldsAs
  <2>2. HoldsAs(request'[r], session'[r]) <=> HoldsAs(request[r], session[r])
    BY <1>0, <1>1 DEF HoldsAs
  <2> QED BY <1>0, <2>1, <2>2, FitsIs
<1>4. Voice!SlotsExact'
  BY <1>0, <1>3, SlotsAre, SlotsStay, SlotsSuffice
<1>5. Voice!VoiceTypeOK' /\ Voice!TicketsFit'
  BY <1>0, <1>2 DEF Voice!VoiceInv, Voice!VoiceTypeOK, Voice!TicketsFit
<1> QED BY <1>3, <1>4, <1>5 DEF Voice!VoiceInv

\* The gateway closes: what it knows of is to be shut down.
LEMMA CloseKeeps ==
    ASSUME Voice!VoiceAssumption, Voice!VoiceInv, Voice!Close
    PROVE  Voice!VoiceInv'
<1>0. /\ shut' = TRUE /\ tickets' = {} /\ stopping' = closers /\ closers' = {}
      /\ UNCHANGED <<minted, issues, epoch, perUser, active, ended, request, session>>
  BY DEF Voice!Close, Voice!slotVars
<1>1. ASSUME NEW r \in Streams
      PROVE  /\ Voice!RequestFits(r)'
             /\ (Voice!Holds(r)' <=> Voice!Holds(r)) /\ (Voice!Holds(r) => Voice!Owner(r)' = Voice!Owner(r))
  <2>1. FitsAs(request[r], session[r], r \in closers \cup stopping)
    BY VoiceTypes
  <2>2. FitsAs(request'[r], session'[r], r \in closers' \cup stopping')
    BY <1>0, <2>1 DEF FitsAs
  <2> QED BY <1>0, <2>2, FitsIs
<1>2. Voice!SlotsExact'
  BY <1>0, <1>1, SlotsUnchanged
<1>3. Voice!VoiceTypeOK' /\ Voice!TicketsFit'
  BY <1>0 DEF Voice!VoiceInv, Voice!VoiceTypeOK, Voice!TicketsFit
<1> QED BY <1>1, <1>2, <1>3 DEF Voice!VoiceInv

\* Tickets come and go, and no request with them.
LEMMA TicketsKeep ==
    ASSUME Voice!VoiceAssumption, Voice!VoiceInv,
           UNCHANGED <<shut, perUser, active, closers, stopping, ended, request, session>>,
           Voice!VoiceTypeOK', Voice!TicketsFit'
    PROVE  Voice!VoiceInv'
<1>1. ASSUME NEW r \in Streams
      PROVE  /\ Voice!RequestFits(r)'
             /\ (Voice!Holds(r)' <=> Voice!Holds(r)) /\ (Voice!Holds(r) => Voice!Owner(r)' = Voice!Owner(r))
  BY VoiceTypes, FitsIs
<1> QED BY <1>1, SlotsUnchanged DEF Voice!VoiceInv

\* A ticket is asked for, or not to be had.
LEMMA AskKeeps ==
    ASSUME Voice!VoiceAssumption, Voice!VoiceInv, NEW l \in Logins, Voice!Ask(l) \/ Voice!AskFails(l)
    PROVE  Voice!VoiceInv'
<1>1. /\ issues' = [issues EXCEPT ![l] = epoch] \/ issues' = [issues EXCEPT ![l] = 0]
      /\ UNCHANGED <<tickets, minted, epoch, shut, perUser, active, closers, stopping, ended, request, session>>
  BY DEF Voice!Ask, Voice!AskFails, Voice!slotVars
<1>2. issues' \in [Logins -> 0..epoch]
  <2>1. epoch \in 0..epoch /\ 0 \in 0..epoch
    BY VoiceTypes
  <2> QED BY <1>1, <2>1 DEF Voice!VoiceInv, Voice!VoiceTypeOK
<1>3. Voice!VoiceTypeOK' /\ Voice!TicketsFit'
  BY <1>1, <1>2 DEF Voice!VoiceInv, Voice!VoiceTypeOK, Voice!TicketsFit
<1> QED BY <1>1, <1>3, TicketsKeep

\* A ticket has a value that no other has.
LEMMA MintKeeps ==
    ASSUME Voice!VoiceAssumption, Voice!VoiceInv, NEW l \in Logins, Voice!Mint(l)
    PROVE  Voice!VoiceInv'
<1>1. /\ issues[l] # 0 /\ minted < MaxMinted /\ minted' = minted + 1
      /\ tickets' = tickets \cup {[value |-> minted + 1, login |-> l, epoch |-> issues[l], asked |-> issues[l]]}
      /\ issues' = [issues EXCEPT ![l] = 0]
      /\ UNCHANGED <<epoch, shut, perUser, active, closers, stopping, ended, request, session>>
  BY DEF Voice!Mint, Voice!Stamp, Voice!slotVars
<1>2. PICK new : new = [value |-> minted + 1, login |-> l, epoch |-> issues[l], asked |-> issues[l]]
  OBVIOUS
<1>3. /\ minted \in 0..MaxMinted /\ MaxMinted \in Nat /\ epoch \in 1..(MaxEpoch + 1) /\ MaxEpoch \in Nat
      /\ issues \in [Logins -> 0..epoch] /\ issues[l] \in 1..(MaxEpoch + 1)
  <2>1. /\ minted \in 0..MaxMinted /\ MaxMinted \in Nat /\ epoch \in 1..(MaxEpoch + 1) /\ MaxEpoch \in Nat
    BY VoiceTypes
  <2>2. issues \in [Logins -> 0..epoch] /\ issues[l] \in 0..epoch
    BY DEF Voice!VoiceInv, Voice!VoiceTypeOK
  <2> QED BY <1>1, <2>1, <2>2
<1>4. new \in Voice!Tickets /\ new.value = minted + 1 /\ new.epoch = new.asked
  BY <1>1, <1>2, <1>3 DEF Voice!Tickets
<1>5. tickets' = tickets \cup {new}
  BY <1>1, <1>2
<1>6. issues' \in [Logins -> 0..epoch] /\ minted' \in 0..MaxMinted
  BY <1>1, <1>3
<1>7. Voice!VoiceTypeOK'
  BY <1>1, <1>4, <1>5, <1>6 DEF Voice!VoiceInv, Voice!VoiceTypeOK
<1>8. \A t \in tickets : t.value \in Nat /\ t.value <= minted /\ t.value # new.value
  BY <1>3, <1>4 DEF Voice!VoiceInv, Voice!VoiceTypeOK, Voice!TicketsFit, Voice!Tickets
<1>9. \A r \in Streams : request[r].value \in Nat /\ request[r].value <= minted /\ request[r].value # new.value
  BY <1>3, <1>4 DEF Voice!VoiceInv, Voice!VoiceTypeOK, Voice!TicketsFit, Voice!Asked
<1>10. Voice!TicketsFit'
  <2>1. Voice!TicketsFit
    BY DEF Voice!VoiceInv
  <2>2. \A t \in tickets' : /\ t.value <= minted' /\ t.epoch = t.asked
                            /\ \A r \in Streams : request[r].value # t.value
    BY <1>1, <1>3, <1>4, <1>5, <1>8, <1>9, <2>1 DEF Voice!TicketsFit
  <2>3. \A t, u \in tickets' : t.value = u.value => t = u
    BY <1>5, <1>8, <2>1 DEF Voice!TicketsFit
  <2>4. \A r \in Streams : request[r].value <= minted'
    BY <1>1, <1>3, <1>9
  <2> QED BY <1>1, <2>2, <2>3, <2>4 DEF Voice!TicketsFit
<1> QED BY <1>1, <1>7, <1>10, TicketsKeep

\* Tickets are gone.
LEMMA ExpireKeeps ==
    ASSUME Voice!VoiceAssumption, Voice!VoiceInv, Voice!InvalidateTickets \/ \E t \in tickets : Voice!Expire(t)
    PROVE  Voice!VoiceInv'
<1>1. /\ tickets' \subseteq tickets
      /\ epoch' = epoch \/ (epoch <= MaxEpoch /\ epoch' = epoch + 1)
      /\ UNCHANGED <<minted, issues, shut, perUser, active, closers, stopping, ended, request, session>>
  BY DEF Voice!InvalidateTickets, Voice!Expire, Voice!slotVars
<1>2. epoch' \in 1..(MaxEpoch + 1) /\ epoch <= epoch' /\ epoch \in Nat
  BY <1>1, VoiceTypes
<1>3. issues' \in [Logins -> 0..epoch']
  <2>1. 0..epoch \subseteq 0..epoch'
    BY <1>2
  <2> QED BY <1>1, <2>1 DEF Voice!VoiceInv, Voice!VoiceTypeOK
<1>4. Voice!VoiceTypeOK' /\ Voice!TicketsFit'
  BY <1>1, <1>2, <1>3 DEF Voice!VoiceInv, Voice!VoiceTypeOK, Voice!TicketsFit
<1> QED BY <1>1, <1>4, TicketsKeep

\* A request goes on with the ticket it spends, or is over.
LEMMA ConsumeKeeps ==
    ASSUME Voice!VoiceAssumption, Voice!VoiceInv, NEW r \in Streams, NEW l \in Logins, NEW t \in tickets,
           Voice!Consume(r, l, t)
    PROVE  /\ Voice!VoiceInv'
           /\ \A x \in Streams \ {r} : request'[x] = request[x]
           /\ request'[r].at = "consumed" =>
                /\ \A other \in Streams \ {r} : request[other].value # request'[r].value
                /\ t.value = request'[r].value /\ t.login = request'[r].login /\ t.asked = epoch
<1>0. /\ request[r].at = "idle" /\ tickets' = tickets \ {t}
      /\ UNCHANGED <<minted, issues, epoch, shut, perUser, active, closers, stopping, ended, session>>
  BY DEF Voice!Consume, Voice!Spent, Voice!At, Voice!slotVars
<1>1. PICK old : old = request[r]
  OBVIOUS
<1>2. old \in Voice!Asked /\ old.at = "idle"
  BY <1>0, <1>1, VoiceTypes
<1>3. /\ t \in Voice!Tickets /\ t.value \in 0..MaxMinted /\ t.value <= minted /\ t.epoch = t.asked
      /\ \A x \in Streams : request[x].value # t.value
  BY VoiceTypes DEF Voice!VoiceInv, Voice!VoiceTypeOK, Voice!TicketsFit, Voice!Tickets
<1>4. PICK q : /\ request' = [request EXCEPT ![r] = q]
               /\ \/ q = [at |-> "consumed", login |-> l, value |-> t.value] /\ t.epoch = epoch /\ t.login = l
                  \/ q = [old EXCEPT !.at = "over"]
  BY <1>1 DEF Voice!Consume
<1>5. /\ q \in Voice!Asked /\ q.at \in {"consumed", "over"} /\ q.value \in {old.value, t.value}
      /\ q.at = "consumed" =>
            /\ q.login = l /\ q.value = t.value /\ t.epoch = epoch /\ t.login = l
  <2>1. CASE q = [at |-> "consumed", login |-> l, value |-> t.value] /\ t.epoch = epoch /\ t.login = l
    BY <1>3, <2>1 DEF Voice!Asked, Voice!Steps
  <2>2. CASE q = [old EXCEPT !.at = "over"]
    BY <1>2, <2>2 DEF Voice!Asked, Voice!Steps
  <2> QED BY <1>4, <2>1, <2>2
<1>6. /\ request'[r] = q /\ request' \in [Streams -> Voice!Asked]
      /\ \A x \in Streams \ {r} : request'[x] = request[x]
  BY <1>4, <1>5 DEF Voice!VoiceInv, Voice!VoiceTypeOK
<1>7. ASSUME NEW x \in Streams
      PROVE  /\ Voice!RequestFits(x)'
             /\ (Voice!Holds(x)' <=> Voice!Holds(x)) /\ (Voice!Holds(x) => Voice!Owner(x)' = Voice!Owner(x))
  <2>1. FitsAs(request[x], session[x], x \in closers \cup stopping)
    BY VoiceTypes
  <2>2. CASE x = r
    <3>1. FitsAs(q, session[r], r \in closers' \cup stopping')
      BY <1>0, <1>5, <2>1, <2>2 DEF FitsAs, HoldsAs, Voice!Unregistered
    <3>2. ~HoldsAs(q, session[r]) /\ ~HoldsAs(request[r], session[r])
      BY <1>0, <1>5 DEF HoldsAs
    <3> QED BY <1>0, <1>6, <2>2, <3>1, <3>2, FitsIs
  <2>3. CASE x # r
    <3>1. request'[x] = request[x] /\ session'[x] = session[x]
      BY <1>0, <1>6, <2>3
    <3> QED BY <1>0, <2>1, <3>1, FitsIs
  <2> QED BY <2>2, <2>3
<1>8. Voice!SlotsExact'
  BY <1>0, <1>7, SlotsUnchanged
<1>9. Voice!TicketsFit'
  <2>1. Voice!TicketsFit
    BY DEF Voice!VoiceInv
  <2>2. \A x \in Streams : request'[x].value = t.value \/ request'[x].value = request[x].value
    BY <1>1, <1>5, <1>6
  <2>3. \A u \in tickets' : u.value # t.value
    BY <1>0, <2>1 DEF Voice!TicketsFit
  <2>4. \A u \in tickets' : \A x \in Streams : request'[x].value # u.value
    BY <1>0, <2>1, <2>2, <2>3 DEF Voice!TicketsFit
  <2>5. \A x \in Streams : request'[x].value <= minted
    BY <1>3, <2>1, <2>2 DEF Voice!TicketsFit
  <2> QED BY <1>0, <2>1, <2>4, <2>5 DEF Voice!TicketsFit
<1>10. Voice!VoiceTypeOK'
  BY <1>0, <1>6 DEF Voice!VoiceInv, Voice!VoiceTypeOK
<1> QED BY <1>3, <1>5, <1>6, <1>7, <1>8, <1>9, <1>10 DEF Voice!VoiceInv

\* Every step keeps the invariant.
LEMMA VoiceStep ==
    ASSUME Voice!VoiceAssumption, Voice!VoiceInv, [Voice!VoiceNext]_(Voice!voiceVars)
    PROVE  Voice!VoiceInv'
<1>1. CASE UNCHANGED Voice!voiceVars
  <2>1. UNCHANGED <<tickets, minted, issues, epoch, shut, perUser, active, closers, stopping, ended, request, session>>
    BY <1>1 DEF Voice!voiceVars, Voice!gatewayVars, Voice!slotVars
  <2>2. Voice!VoiceTypeOK' /\ Voice!TicketsFit'
    BY <2>1 DEF Voice!VoiceInv, Voice!VoiceTypeOK, Voice!TicketsFit
  <2> QED BY <2>1, <2>2, TicketsKeep
<1>2. ASSUME NEW r \in Streams, Voice!RequestStep(r) PROVE Voice!VoiceInv'
  BY <1>2, ReserveKeeps, ReleaseKeeps, GoesKeeps, OpensKeep, RelayKeeps, JoinKeeps DEF Voice!RequestStep
<1> QED
  BY <1>1, <1>2, AskKeeps, MintKeeps, LoginEndsKeeps, ExpireKeeps, ConsumeKeeps, ShutdownKeeps,
     PumpKeeps, CloseKeeps
     DEF Voice!VoiceNext

\* A request begins to be served with a ticket of its own.
GrantsOnce ==
    \A r \in Streams : request[r].at = "idle" /\ request'[r].at = "consumed" =>
        /\ \A other \in Streams \ {r} : request[other].value # request'[r].value
        /\ \E t \in tickets : /\ t.value = request'[r].value /\ t.login = request'[r].login
                              /\ t.asked = epoch

\* No other step than consume begins to serve a request.
LEMMA OnlyConsume ==
    ASSUME Voice!VoiceAssumption, Voice!VoiceInv, [Voice!VoiceNext]_(Voice!voiceVars), NEW r \in Streams,
           request[r].at = "idle", request'[r].at = "consumed"
    PROVE  \E l \in Logins, t \in tickets : Voice!Consume(r, l, t)
<1>1. request \in [Streams -> Voice!Asked]
  BY DEF Voice!VoiceInv, Voice!VoiceTypeOK
<1>2. CASE request' = request
  BY <1>2
<1>3. ASSUME NEW q \in Streams, Voice!RequestStep(q) PROVE FALSE
  <2>1. request[q].at \notin {"idle"}
    BY <1>3 DEF Voice!RequestStep, Voice!Reserve, Voice!Release, Voice!Accept, Voice!StartDial,
       Voice!DialFails, Voice!DialOpens, Voice!Register, Voice!DialRefused, Voice!Relay,
       Voice!First, Voice!CloseLegs, Voice!Join, Voice!At
  <2>2. \A x \in Streams \ {q} : request'[x] = request[x]
    BY <1>1, <1>3 DEF Voice!RequestStep, Voice!Reserve, Voice!Release, Voice!Accept, Voice!StartDial,
       Voice!DialFails, Voice!DialOpens, Voice!Register, Voice!DialRefused, Voice!Relay,
       Voice!First, Voice!CloseLegs, Voice!Join, Voice!Goes, Voice!Over
  <2> QED BY <2>1, <2>2
<1>4. ASSUME NEW q \in Streams, NEW l \in Logins, NEW t \in tickets, Voice!Consume(q, l, t)
      PROVE  q = r
  BY <1>4, ConsumeKeeps
<1>5. \/ \E q \in Streams : Voice!RequestStep(q)
      \/ \E q \in Streams, l \in Logins, t \in tickets : Voice!Consume(q, l, t)
      \/ request' = request
  BY DEF Voice!VoiceNext, Voice!voiceVars, Voice!Ask, Voice!AskFails, Voice!Mint, Voice!EndLogin,
     Voice!Expire, Voice!shutdown, Voice!pumpBrowser, Voice!pumpUpstream, Voice!PumpEnds,
     Voice!RunsOut, Voice!InvalidateTickets, Voice!Close
<1> QED BY <1>2, <1>3, <1>4, <1>5

\* A ticket admits one request of its login, that asked after the last
\* invalidation.
LEMMA GrantStep ==
    ASSUME Voice!VoiceAssumption, Voice!VoiceInv, [Voice!VoiceNext]_(Voice!voiceVars)
    PROVE  GrantsOnce
<1> SUFFICES ASSUME NEW r \in Streams, request[r].at = "idle", request'[r].at = "consumed"
             PROVE  /\ \A other \in Streams \ {r} : request[other].value # request'[r].value
                    /\ \E t \in tickets : /\ t.value = request'[r].value /\ t.login = request'[r].login
                                          /\ t.asked = epoch
  BY DEF GrantsOnce
<1>1. PICK l \in Logins, t \in tickets : Voice!Consume(r, l, t)
  BY OnlyConsume
<1> QED BY <1>1, ConsumeKeeps

\* Nobody has asked for anything at first.
LEMMA VoiceBegins ==
    ASSUME Voice!VoiceAssumption, Voice!VoiceInit PROVE Voice!VoiceInv
<1>1. PICK q : q = [at |-> "idle", login |-> NoStream, value |-> 0]
  OBVIOUS
<1>2. PICK s : s = Voice!NoSession
  OBVIOUS
<1>3. MaxMinted \in Nat /\ MaxEpoch \in Nat /\ MaxPerUser \in Nat /\ MaxSessions \in Nat
  BY DEF Voice!VoiceAssumption, Voice!Validated
<1>4. q \in Voice!Asked /\ q.at = "idle" /\ q.value = 0
  BY <1>1, <1>3 DEF Voice!Asked, Voice!Steps
<1>5. s \in Voice!Sessions /\ s.ctx = "none" /\ s.released = FALSE /\ s.up = "none"
  BY <1>2 DEF Voice!NoSession, Voice!Sessions
<1>6. \A r \in Streams : request[r] = q /\ session[r] = s
  BY <1>1, <1>2 DEF Voice!VoiceInit
<1>7. Voice!VoiceTypeOK
  <2>1. request = [r \in Streams |-> q] /\ session = [r \in Streams |-> s]
    BY <1>1, <1>2 DEF Voice!VoiceInit
  <2>2. request \in [Streams -> Voice!Asked] /\ session \in [Streams -> Voice!Sessions]
    BY <1>4, <1>5, <2>1
  <2>3. epoch \in 1..(MaxEpoch + 1) /\ issues \in [Logins -> 0..epoch] /\ minted \in 0..MaxMinted
    BY <1>3 DEF Voice!VoiceInit
  <2>4. perUser \in [Users -> 0..MaxPerUser] /\ active \in 0..MaxSessions
    BY <1>3 DEF Voice!VoiceInit
  <2>5. tickets = {} /\ shut = FALSE /\ closers = {} /\ stopping = {} /\ ended = {}
    BY DEF Voice!VoiceInit
  <2> QED BY <2>2, <2>3, <2>4, <2>5 DEF Voice!VoiceTypeOK
<1>8. Voice!TicketsFit
  BY <1>4, <1>6 DEF Voice!VoiceInit, Voice!TicketsFit
<1>9. \A r \in Streams : Voice!RequestFits(r) /\ ~Voice!Holds(r)
  BY <1>4, <1>5, <1>6 DEF Voice!VoiceInit, Voice!RequestFits, Voice!Holds
<1>10. Voice!SlotsExact
  <2>1. {r \in Streams : Voice!Holds(r)} = {} /\ \A u \in Users : {r \in Streams : Voice!Holds(r) /\ Voice!Owner(r) = u} = {}
    BY <1>9
  <2>2. \A r \in Streams : session[r].up # "open"
    BY <1>5, <1>6
  <2> QED BY <2>1, <2>2, VoiceSets, FS_EmptySet DEF Voice!VoiceInit, Voice!SlotsExact
<1> QED BY <1>7, <1>8, <1>9, <1>10 DEF Voice!VoiceInv

\* The slots in use are those of the requests that hold one, and a ticket
\* admits one request (reserve, Session.release, consume).
THEOREM VoiceInvariance ==
    ASSUME Voice!VoiceAssumption
    PROVE  Voice!VoiceSpec => []Voice!VoiceInv /\ Voice!TicketGrantsOnce
<1>1. Voice!VoiceInit => Voice!VoiceInv
  BY VoiceBegins
<1>2. Voice!VoiceInv /\ [Voice!VoiceNext]_(Voice!voiceVars) => Voice!VoiceInv'
  BY VoiceStep
<1>3. Voice!VoiceInv /\ [Voice!VoiceNext]_(Voice!voiceVars) =>
        [\A r \in Streams : Voice!At(r, "idle") /\ request'[r].at = "consumed" =>
            /\ \A other \in Streams \ {r} : request[other].value # request'[r].value
            /\ \E t \in tickets : /\ t.value = request'[r].value /\ t.login = request'[r].login
                                  /\ t.asked = epoch]_(Voice!voiceVars)
  BY GrantStep DEF GrantsOnce, Voice!At
<1> QED BY <1>1, <1>2, <1>3, PTL DEF Voice!VoiceSpec, Voice!TicketGrantsOnce

(***************************************************************************)
(* Scrolling                                                               *)
(***************************************************************************)

\* The operators of FiniteSets that Scroll takes.
LEMMA ScrollSets ==
    /\ \A S : Scrolling!Cardinality(S) = Cardinality(S)
    /\ \A S : Scrolling!IsFiniteSet(S) <=> IsFiniteSet(S)
<1>1. \A S : Scrolling!Cardinality(S) = Cardinality(S)
  BY Zenon DEF Scrolling!Cardinality, Cardinality
<1>2. \A S : Scrolling!IsFiniteSet(S) <=> IsFiniteSet(S)
  BY Zenon DEF Scrolling!IsFiniteSet, IsFiniteSet
<1> QED BY <1>1, <1>2

\* The records of senders.
Sending == [at : Scrolling!Stages, gesture : 0..MaxGestures, conn : 0..MaxConns, canceled : BOOLEAN]

\* One connection changes and stays a connection.
ConnChanges(c, x) ==
    /\ conns' \in Seq(Scrolling!Connections) /\ Len(conns') = Len(conns) /\ DOMAIN conns' = DOMAIN conns
    /\ conns'[c] = x /\ \A d \in DOMAIN conns \ {c} : conns'[d] = conns[d]

\* One sender changes and stays a sender.
SenderMoves(s, x) ==
    /\ sender' \in [Streams -> Sending] /\ sender'[s] = x
    /\ \A q \in Streams \ {s} : sender'[q] = sender[q]

\* What an assignment to an element of conns does.
LEMMA OneChanges ==
    ASSUME Scrolling!ScrollTypeOK, NEW c \in DOMAIN conns, NEW x \in Scrolling!Connections,
           conns' = [conns EXCEPT ![c] = x]
    PROVE  ConnChanges(c, x)
BY DEF Scrolling!ScrollTypeOK, ConnChanges

\* What an assignment to an element of sender does.
LEMMA OneMoves ==
    ASSUME Scrolling!ScrollTypeOK, NEW s \in Streams, NEW x \in Sending, sender' = [sender EXCEPT ![s] = x]
    PROVE  SenderMoves(s, x)
BY DEF Scrolling!ScrollTypeOK, SenderMoves, Sending

\* A connection has the fields of one.
LEMMA ConnTypes ==
    ASSUME Scrolling!ScrollTypeOK, NEW c \in DOMAIN conns
    PROVE  /\ conns[c] \in Scrolling!Connections /\ c \in 1..Len(conns) /\ c # 0
           /\ conns[c].sent \in Seq(0..MaxGestures) /\ conns[c].read \in Nat
           /\ Len(conns[c].sent) \in Nat /\ conns[c].read <= Len(conns[c].sent)
<1>1. conns[c] \in Scrolling!Connections /\ c \in 1..Len(conns) /\ conns[c].read <= Len(conns[c].sent)
  BY DEF Scrolling!ScrollTypeOK
<1>2. conns[c].sent \in Seq(0..MaxGestures) /\ conns[c].read \in Nat
  BY <1>1 DEF Scrolling!Connections
<1> QED BY <1>1, <1>2

\* A sender has the fields of one.
LEMMA SenderTypes ==
    ASSUME Scrolling!ScrollTypeOK, NEW s \in Streams
    PROVE  /\ sender[s] \in Sending /\ sender[s].at \in Scrolling!Stages /\ sender[s].gesture \in 0..MaxGestures
           /\ sender[s].conn \in 0..MaxConns /\ sender[s].canceled \in BOOLEAN
BY DEF Scrolling!ScrollTypeOK, Sending

\* The context of a connection ends.
LEMMA CutChanges ==
    ASSUME Scrolling!ScrollTypeOK, NEW c \in DOMAIN conns, Scrolling!Cancel(c)
    PROVE  \E x \in Scrolling!Connections : /\ ConnChanges(c, x) /\ x.cut /\ x.at = conns[c].at /\ x.sent = conns[c].sent
                                            /\ x.read = conns[c].read /\ x.freed = conns[c].freed
<1>1. PICK x : x = [conns[c] EXCEPT !.cut = TRUE]
  OBVIOUS
<1>2. /\ x \in Scrolling!Connections /\ x.cut /\ x.at = conns[c].at /\ x.sent = conns[c].sent
      /\ x.read = conns[c].read /\ x.freed = conns[c].freed
  BY <1>1, ConnTypes DEF Scrolling!Connections
<1>3. conns' = [conns EXCEPT ![c] = x]
  BY <1>1 DEF Scrolling!Cancel
<1> QED BY <1>2, <1>3, OneChanges

\* A Send returns.
LEMMA ReturnMoves ==
    ASSUME Scrolling!ScrollAssumption, Scrolling!ScrollTypeOK, NEW s \in Streams, Scrolling!Returns(s)
    PROVE  SenderMoves(s, Scrolling!Waiting) /\ Scrolling!Waiting.at = "idle" /\ mu' = NoStream
<1>1. Scrolling!Waiting \in Sending /\ Scrolling!Waiting.at = "idle"
  BY DEF Scrolling!Waiting, Sending, Scrolling!Stages, Scrolling!ScrollAssumption
<1> QED BY <1>1, OneMoves DEF Scrolling!Returns

\* Who moves on without coming or going is counted as before.
LEMMA StaysActive ==
    ASSUME Scrolling!GesturesCounted, NEW s \in Streams, NEW x, SenderMoves(s, x),
           x.at = "idle" <=> sender[s].at = "idle",
           generation' = generation, gestures' = gestures
    PROVE  Scrolling!GesturesCounted'
<1>1. Scrolling!Active' = Scrolling!Active
  BY DEF Scrolling!Active, SenderMoves
<1> QED BY <1>1 DEF Scrolling!GesturesCounted

\* Who returns is no longer counted.
LEMMA ActiveEnds ==
    ASSUME Scrolling!ScrollTypeOK, Scrolling!GesturesCounted, NEW s \in Streams, NEW x, SenderMoves(s, x),
           x.at = "idle", sender[s].at # "idle"
    PROVE  /\ IsFiniteSet(Scrolling!Active') /\ Cardinality(Scrolling!Active') + 1 = Cardinality(Scrolling!Active)
           /\ Cardinality(Scrolling!Active) \in Nat /\ Cardinality(Scrolling!Active') \in Nat
<1>1. Scrolling!Active' = Scrolling!Active \ {s} /\ s \in Scrolling!Active
  BY DEF Scrolling!Active, SenderMoves
<1>2. IsFiniteSet(Scrolling!Active') /\ Cardinality(Scrolling!Active') = Cardinality(Scrolling!Active) - 1
  BY <1>1, ScrollSets, FS_RemoveElement DEF Scrolling!GesturesCounted
<1>3. Cardinality(Scrolling!Active) \in Nat /\ Cardinality(Scrolling!Active') \in Nat
  BY <1>2, ScrollSets, FS_CardinalityType DEF Scrolling!GesturesCounted
<1> QED BY <1>2, <1>3

\* A context that ends leaves the release in its place.
LEMMA CutFits ==
    ASSUME Scrolling!ScrollTypeOK, Scrolling!LastGestureArrives, \A d \in DOMAIN conns : Scrolling!ConnFits(d),
           NEW c \in DOMAIN conns, NEW y \in Scrolling!Connections, ConnChanges(c, y), y.cut,
           y.at = conns[c].at,
           y.sent = conns[c].sent, y.read = conns[c].read, y.freed = conns[c].freed,
           over' = over, current' \in {current, 0}, mu = "timer" => mu' = "timer"
    PROVE  Scrolling!LastGestureArrives' /\ \A d \in DOMAIN conns' : Scrolling!ConnFits(d)'
<1>1. \A d \in DOMAIN conns : d # 0
  BY ConnTypes
<1> QED BY <1>1 DEF Scrolling!LastGestureArrives, Scrolling!ConnFits, ConnChanges

\* A gesture begins.
LEMMA CallKeeps ==
    ASSUME Scrolling!ScrollAssumption, Scrolling!ScrollInv, NEW s \in Streams, Scrolling!Call(s)
    PROVE  Scrolling!ScrollInv'
<1>1. PICK x : x = [sender[s] EXCEPT !.at = "locks", !.gesture = gestures + 1]
  OBVIOUS
<1>2. /\ sender[s].at = "idle" /\ gestures < MaxGestures /\ gestures' = gestures + 1
      /\ UNCHANGED <<over, stop, mu, current, generation, idle, fired, conns, quiet>>
      /\ gestures \in 0..MaxGestures /\ generation \in 0..MaxGestures /\ MaxGestures \in Nat
  BY DEF Scrolling!Call, Scrolling!ScrollInv, Scrolling!ScrollTypeOK, Scrolling!ScrollAssumption
<1>3. x \in Sending /\ x.at = "locks" /\ x.gesture # 0 /\ x.conn = sender[s].conn
  <2>1. sender[s] \in Sending /\ gestures + 1 \in 0..MaxGestures /\ gestures + 1 # 0
    BY <1>2, SenderTypes DEF Scrolling!ScrollInv
  <2> QED BY <1>1, <2>1 DEF Sending, Scrolling!Stages
<1>4. SenderMoves(s, x)
  <2>1. sender' = [sender EXCEPT ![s] = x]
    BY <1>1 DEF Scrolling!Call
  <2> QED BY <1>3, <2>1, OneMoves DEF Scrolling!ScrollInv
<1>5. Scrolling!ScrollTypeOK'
  <2>1. gestures' \in 0..MaxGestures
    BY <1>2
  <2>2. sender' \in [Streams -> Sending]
    BY <1>4 DEF SenderMoves
  <2> QED BY <1>2, <2>1, <2>2 DEF Scrolling!ScrollInv, Scrolling!ScrollTypeOK, Sending
<1>6. Scrolling!GesturesCounted'
  <2>1. Scrolling!Active' = Scrolling!Active \cup {s} /\ s \notin Scrolling!Active
    BY <1>2, <1>3, <1>4 DEF Scrolling!Active, SenderMoves
  <2>2. IsFiniteSet(Scrolling!Active')
        /\ Cardinality(Scrolling!Active') = Cardinality(Scrolling!Active) + 1
        /\ Cardinality(Scrolling!Active) \in Nat
    BY <2>1, ScrollSets, FS_AddElement, FS_CardinalityType DEF Scrolling!ScrollInv,
       Scrolling!GesturesCounted
  <2> QED BY <1>2, <2>2, ScrollSets DEF Scrolling!ScrollInv, Scrolling!GesturesCounted
<1>7. \A q \in Streams : Scrolling!SenderFits(q)'
  BY <1>2, <1>3, <1>4 DEF Scrolling!ScrollInv, Scrolling!SenderFits, SenderMoves
<1>8. /\ Scrolling!TimersFit' /\ Scrolling!HeldIsWatched' /\ Scrolling!LastGestureArrives'
      /\ \A c \in DOMAIN conns' : Scrolling!ConnFits(c)'
  BY <1>2 DEF Scrolling!ScrollInv, Scrolling!TimersFit, Scrolling!HeldIsWatched,
     Scrolling!LastGestureArrives, Scrolling!ConnFits
<1> QED BY <1>2, <1>5, <1>6, <1>7, <1>8 DEF Scrolling!ScrollInv

\* The context of a caller ends, and that of the connection it uses.
LEMMA CallerGoneKeeps ==
    ASSUME Scrolling!ScrollAssumption, Scrolling!ScrollInv, NEW s \in Streams, Scrolling!CallerGone(s)
    PROVE  Scrolling!ScrollInv'
<1>1. PICK x : x = [sender[s] EXCEPT !.canceled = TRUE]
  OBVIOUS
<1>2. /\ UNCHANGED <<over, stop, mu, current, generation, idle, fired, gestures, quiet>>
      /\ sender[s].at # "idle"
  BY DEF Scrolling!CallerGone
<1>3. x \in Sending /\ x.at = sender[s].at /\ x.gesture = sender[s].gesture /\ x.conn = sender[s].conn
  BY <1>1, SenderTypes DEF Sending, Scrolling!ScrollInv
<1>4. SenderMoves(s, x)
  <2>1. sender' = [sender EXCEPT ![s] = x]
    BY <1>1 DEF Scrolling!CallerGone
  <2> QED BY <1>3, <2>1, OneMoves DEF Scrolling!ScrollInv
<1>5. Scrolling!GesturesCounted'
  BY <1>2, <1>3, <1>4, StaysActive DEF Scrolling!ScrollInv
<1>6. Scrolling!TimersFit'
  BY <1>2 DEF Scrolling!ScrollInv, Scrolling!TimersFit
<1>7. CASE UNCHANGED conns
  <2>1. Scrolling!ScrollTypeOK'
    BY <1>2, <1>4, <1>7 DEF Scrolling!ScrollInv, Scrolling!ScrollTypeOK, SenderMoves, Sending
  <2>2. \A q \in Streams : Scrolling!SenderFits(q)'
    BY <1>2, <1>3, <1>4, <1>7 DEF Scrolling!ScrollInv, Scrolling!SenderFits, SenderMoves
  <2>3. Scrolling!HeldIsWatched' /\ Scrolling!LastGestureArrives' /\ \A c \in DOMAIN conns' : Scrolling!ConnFits(c)'
    BY <1>2, <1>7 DEF Scrolling!ScrollInv, Scrolling!HeldIsWatched, Scrolling!LastGestureArrives,
       Scrolling!ConnFits
  <2>4. \A d, e \in DOMAIN conns' : conns'[d].freed = "idle" /\ conns'[e].freed = "idle" => d = e
    BY <1>7 DEF Scrolling!ScrollInv
  <2> QED BY <2>4, <1>2, <1>5, <1>6, <2>1, <2>2, <2>3 DEF Scrolling!ScrollInv
<1>8. CASE sender[s].at \in {"ready", "write", "wrote"}
  <2>0. PICK c : c = sender[s].conn
    OBVIOUS
  <2>1. Scrolling!Cancel(c)
    BY <1>8, <2>0 DEF Scrolling!CallerGone
  <2>2. c \in DOMAIN conns
    BY <1>8, <2>0 DEF Scrolling!ScrollInv, Scrolling!SenderFits, Scrolling!ScrollTypeOK
  <2>3. PICK y \in Scrolling!Connections : /\ ConnChanges(c, y) /\ y.cut /\ y.at = conns[c].at /\ y.sent = conns[c].sent
                                           /\ y.read = conns[c].read /\ y.freed = conns[c].freed
    BY <2>1, <2>2, CutChanges DEF Scrolling!ScrollInv
  <2>4. Scrolling!ScrollTypeOK'
    BY <1>2, <1>4, <2>2, <2>3 DEF Scrolling!ScrollInv, Scrolling!ScrollTypeOK, SenderMoves, Sending,
       ConnChanges
  <2>5. \A q \in Streams : Scrolling!SenderFits(q)'
    BY <1>2, <1>3, <1>4, <2>2, <2>3 DEF Scrolling!ScrollInv, Scrolling!SenderFits, SenderMoves, ConnChanges
  <2>6. Scrolling!LastGestureArrives' /\ \A d \in DOMAIN conns' : Scrolling!ConnFits(d)'
    BY <1>2, <2>2, <2>3, CutFits DEF Scrolling!ScrollInv
  <2>7. Scrolling!HeldIsWatched'
    <3>0. current # 0 => current \in DOMAIN conns
      BY DEF Scrolling!ScrollInv, Scrolling!ScrollTypeOK
    <3>1. ~conns'[current].cut /\ current # 0 => ~conns[current].cut
      BY <2>2, <2>3, <3>0 DEF ConnChanges
    <3> QED BY <1>2, <3>1 DEF Scrolling!ScrollInv, Scrolling!HeldIsWatched
  <2>8. \A d, e \in DOMAIN conns' : conns'[d].freed = "idle" /\ conns'[e].freed = "idle" => d = e
    BY <2>2, <2>3 DEF Scrolling!ScrollInv, ConnChanges
  <2> QED BY <1>2, <1>5, <1>6, <2>4, <2>5, <2>6, <2>7, <2>8 DEF Scrolling!ScrollInv
<1> QED BY <1>7, <1>8 DEF Scrolling!CallerGone

\* A Send that finds its context ended leaves.
LEMMA RefusedKeeps ==
    ASSUME Scrolling!ScrollAssumption, Scrolling!ScrollInv, NEW s \in Streams,
           Scrolling!Refused(s) \/ Scrolling!CannotOpen(s)
    PROVE  Scrolling!ScrollInv'
<1>1. /\ UNCHANGED <<over, stop, current, generation, idle, fired, conns, gestures, quiet>>
      /\ sender[s].at \in {"locks", "open"} /\ Scrolling!Returns(s) /\ mu \in {NoStream, s}
  BY DEF Scrolling!Refused, Scrolling!CannotOpen, Scrolling!ScrollInv, Scrolling!SenderFits
<1>2. SenderMoves(s, Scrolling!Waiting) /\ Scrolling!Waiting.at = "idle" /\ mu' = NoStream
  BY <1>1, ReturnMoves DEF Scrolling!ScrollInv
<1>3. Scrolling!ScrollTypeOK'
  BY <1>1, <1>2 DEF Scrolling!ScrollInv, Scrolling!ScrollTypeOK, SenderMoves, Sending
<1>4. Scrolling!GesturesCounted'
  <2>1. /\ IsFiniteSet(Scrolling!Active') /\ Cardinality(Scrolling!Active') + 1 = Cardinality(Scrolling!Active)
        /\ Cardinality(Scrolling!Active) \in Nat /\ Cardinality(Scrolling!Active') \in Nat
    BY <1>1, <1>2, ActiveEnds DEF Scrolling!ScrollInv
  <2> QED BY <1>1, <2>1, ScrollSets DEF Scrolling!ScrollInv, Scrolling!GesturesCounted,
             Scrolling!ScrollTypeOK
<1>5. mu = s => current = 0
  <2>1. mu = s => sender[s].at = "open"
    BY <1>1 DEF Scrolling!ScrollInv, Scrolling!SenderFits
  <2> QED BY <2>1 DEF Scrolling!ScrollInv, Scrolling!SenderFits
<1>6. \A q \in Streams : Scrolling!SenderFits(q)'
  BY <1>1, <1>2 DEF Scrolling!ScrollInv, Scrolling!SenderFits, SenderMoves, Scrolling!ScrollAssumption
<1>7. \A c \in DOMAIN conns' : Scrolling!ConnFits(c)'
  BY <1>1, <1>2 DEF Scrolling!ScrollInv, Scrolling!ConnFits, Scrolling!ScrollAssumption
<1>8. Scrolling!TimersFit' /\ Scrolling!LastGestureArrives' /\ Scrolling!HeldIsWatched'
  BY <1>1, <1>2, <1>5 DEF Scrolling!ScrollInv, Scrolling!TimersFit, Scrolling!LastGestureArrives,
     Scrolling!HeldIsWatched
<1>9. s # "close" /\ NoStream # "close" /\ NoStream # "timer"
  BY DEF Scrolling!ScrollAssumption
<1> QED BY <1>1, <1>2, <1>3, <1>4, <1>6, <1>7, <1>8, <1>9 DEF Scrolling!ScrollInv

\* A Send gets the mutex.
LEMMA LockKeeps ==
    ASSUME Scrolling!ScrollAssumption, Scrolling!ScrollInv, NEW s \in Streams, Scrolling!Lock(s)
    PROVE  Scrolling!ScrollInv'
<1> DEFINE kept == IF Scrolling!Usable THEN current ELSE 0
<1>1. PICK x : x = [sender[s] EXCEPT !.at = IF Scrolling!Usable THEN "write" ELSE "open", !.conn = kept]
  OBVIOUS
<1>2. /\ UNCHANGED <<over, stop, generation, idle, fired, conns, gestures, quiet>>
      /\ sender[s].at = "locks" /\ mu = NoStream /\ ~over /\ mu' = s /\ current' = kept
  BY DEF Scrolling!Lock
<1>3. kept \in {0, current} /\ kept \in 0..MaxConns /\ kept \in 0..Len(conns)
  BY DEF Scrolling!ScrollInv, Scrolling!ScrollTypeOK, Scrolling!ScrollAssumption
<1>4. x \in Sending /\ x.gesture = sender[s].gesture /\ x.conn = kept
      /\ ((x.at = "write" /\ kept # 0) \/ (x.at = "open" /\ kept = 0))
  BY <1>1, <1>3, SenderTypes DEF Sending, Scrolling!Stages, Scrolling!ScrollInv, Scrolling!Usable
<1>5. SenderMoves(s, x)
  <2>1. sender' = [sender EXCEPT ![s] = x]
    BY <1>1 DEF Scrolling!Lock
  <2> QED BY <1>4, <2>1, OneMoves DEF Scrolling!ScrollInv
<1> HIDE DEF kept
<1>6. Scrolling!ScrollTypeOK'
  BY <1>2, <1>3, <1>5 DEF Scrolling!ScrollInv, Scrolling!ScrollTypeOK, SenderMoves, Sending
<1>7. Scrolling!GesturesCounted'
  BY <1>2, <1>4, <1>5, StaysActive DEF Scrolling!ScrollInv
<1>8. \A q \in Streams : Scrolling!SenderFits(q)'
  BY <1>2, <1>4, <1>5 DEF Scrolling!ScrollInv, Scrolling!SenderFits, SenderMoves, Scrolling!ScrollAssumption
<1>9. \A c \in DOMAIN conns' : Scrolling!ConnFits(c)'
  BY <1>2, <1>3, ConnTypes DEF Scrolling!ScrollInv, Scrolling!ConnFits, Scrolling!ScrollAssumption
<1>10. Scrolling!TimersFit' /\ Scrolling!LastGestureArrives' /\ Scrolling!HeldIsWatched'
  BY <1>2 DEF Scrolling!ScrollInv, Scrolling!TimersFit, Scrolling!LastGestureArrives,
     Scrolling!HeldIsWatched, Scrolling!ScrollAssumption
<1>11. s # "close" /\ NoStream # "close" /\ s # "timer"
  BY DEF Scrolling!ScrollAssumption
<1> QED BY <1>2, <1>6, <1>7, <1>8, <1>9, <1>10, <1>11 DEF Scrolling!ScrollInv

\* A connection is opened.
LEMMA OpenSocketKeeps ==
    ASSUME Scrolling!ScrollAssumption, Scrolling!ScrollInv, NEW s \in Streams, Scrolling!OpenSocket(s)
    PROVE  Scrolling!ScrollInv'
<1>1. PICK x : x = [sender[s] EXCEPT !.at = "ready", !.conn = Len(conns) + 1]
  OBVIOUS
<1>2. PICK y : y = [at |-> "opening", cut |-> sender[s].canceled \/ over, sent |-> <<>>, read |-> 0, freed |-> "no"]
  OBVIOUS
<1>3. /\ UNCHANGED <<over, stop, mu, current, generation, idle, fired, gestures, quiet>>
      /\ sender[s].at = "open" /\ Len(conns) < MaxConns /\ conns' = Append(conns, y)
  BY <1>2 DEF Scrolling!OpenSocket
<1>4. Len(conns) \in Nat /\ conns \in Seq(Scrolling!Connections) /\ MaxConns \in Nat /\ over \in BOOLEAN
  BY DEF Scrolling!ScrollInv, Scrolling!ScrollTypeOK, Scrolling!ScrollAssumption
<1>5. x \in Sending /\ x.gesture = sender[s].gesture /\ x.conn = Len(conns) + 1 /\ x.at = "ready"
  <2>1. sender[s] \in Sending /\ Len(conns) + 1 \in 0..MaxConns
    BY <1>3, <1>4, SenderTypes DEF Scrolling!ScrollInv
  <2> QED BY <1>1, <2>1 DEF Sending, Scrolling!Stages
<1>6. /\ y \in Scrolling!Connections /\ y.at = "opening" /\ (over => y.cut) /\ y.sent = <<>> /\ y.read = 0 /\ y.freed = "no"
  BY <1>2, <1>4, SenderTypes DEF Scrolling!Connections, Scrolling!ScrollInv
<1>7. SenderMoves(s, x)
  <2>1. sender' = [sender EXCEPT ![s] = x]
    BY <1>1 DEF Scrolling!OpenSocket
  <2> QED BY <1>5, <2>1, OneMoves DEF Scrolling!ScrollInv
<1>8. /\ conns' \in Seq(Scrolling!Connections) /\ Len(conns') = Len(conns) + 1 /\ DOMAIN conns' = DOMAIN conns \cup {Len(conns) + 1}
      /\ conns'[Len(conns) + 1] = y /\ \A c \in DOMAIN conns : conns'[c] = conns[c] /\ c # Len(conns) + 1
  BY <1>3, <1>4, <1>6
<1>9. Scrolling!ScrollTypeOK'
  BY <1>3, <1>4, <1>6, <1>7, <1>8 DEF Scrolling!ScrollInv, Scrolling!ScrollTypeOK, SenderMoves, Sending
<1>10. Scrolling!GesturesCounted'
  BY <1>3, <1>5, <1>7, StaysActive DEF Scrolling!ScrollInv
<1>11. current = 0 /\ mu = s
  BY <1>3 DEF Scrolling!ScrollInv, Scrolling!SenderFits
<1>12. \A q \in Streams : Scrolling!SenderFits(q)'
  BY <1>3, <1>5, <1>6, <1>7, <1>8, <1>11 DEF Scrolling!ScrollInv, Scrolling!SenderFits, SenderMoves
<1>13. \A c \in DOMAIN conns' : Scrolling!ConnFits(c)'
  BY <1>3, <1>4, <1>6, <1>8, <1>11 DEF Scrolling!ScrollInv, Scrolling!ConnFits
<1>14. Scrolling!TimersFit' /\ Scrolling!HeldIsWatched' /\ Scrolling!LastGestureArrives'
  BY <1>3, <1>6, <1>8, <1>11 DEF Scrolling!ScrollInv, Scrolling!TimersFit,
     Scrolling!LastGestureArrives, Scrolling!HeldIsWatched, Scrolling!ScrollAssumption
<1>15. \A d, e \in DOMAIN conns' : conns'[d].freed = "idle" /\ conns'[e].freed = "idle" => d = e
  BY <1>6, <1>8 DEF Scrolling!ScrollInv
<1> QED BY <1>3, <1>9, <1>10, <1>11, <1>12, <1>13, <1>14, <1>15 DEF Scrolling!ScrollInv

\* What a Send leaves behind when it cuts its connection and returns.
LEMMA CutReturns ==
    ASSUME Scrolling!ScrollAssumption, Scrolling!ScrollInv, NEW s \in Streams, NEW c \in DOMAIN conns,
           NEW y \in Scrolling!Connections,
           ConnChanges(c, y), y.cut, y.read <= Len(y.sent), y.freed = conns[c].freed,
           Scrolling!ConnFits(c)',
           y.freed = "done" => y.read = Len(y.sent) \/ y.cut,
           Scrolling!Returns(s), mu = s, sender[s].at # "idle", current' = 0,
           UNCHANGED <<over, stop, generation, idle, fired, gestures, quiet>>
    PROVE  Scrolling!ScrollInv'
<1>1. SenderMoves(s, Scrolling!Waiting) /\ Scrolling!Waiting.at = "idle" /\ mu' = NoStream
  BY ReturnMoves DEF Scrolling!ScrollInv
<1>2. Scrolling!ScrollTypeOK'
  <2>1. \A d \in DOMAIN conns' : conns'[d].read <= Len(conns'[d].sent)
    BY DEF Scrolling!ScrollInv, Scrolling!ScrollTypeOK, ConnChanges
  <2> QED BY <1>1, <2>1 DEF Scrolling!ScrollInv, Scrolling!ScrollTypeOK, SenderMoves, Sending, ConnChanges
<1>3. Scrolling!GesturesCounted'
  <2>1. /\ IsFiniteSet(Scrolling!Active') /\ Cardinality(Scrolling!Active') + 1 = Cardinality(Scrolling!Active)
        /\ Cardinality(Scrolling!Active) \in Nat /\ Cardinality(Scrolling!Active') \in Nat
    BY <1>1, ActiveEnds DEF Scrolling!ScrollInv
  <2> QED BY <2>1, ScrollSets DEF Scrolling!ScrollInv, Scrolling!GesturesCounted, Scrolling!ScrollTypeOK
<1>4. s # "close" /\ s # "timer" /\ NoStream # "close" /\ NoStream # "timer" /\ \A q \in Streams : q # NoStream
  BY DEF Scrolling!ScrollAssumption
<1>5. \A q \in Streams : Scrolling!SenderFits(q)'
  BY <1>1, <1>4 DEF Scrolling!ScrollInv, Scrolling!SenderFits, SenderMoves, ConnChanges
<1>6. \A d \in DOMAIN conns' : Scrolling!ConnFits(d)'
  <2> SUFFICES ASSUME NEW d \in DOMAIN conns, d # c PROVE Scrolling!ConnFits(d)'
    BY DEF ConnChanges
  <2>1. conns'[d] = conns[d] /\ d # 0
    BY ConnTypes DEF ConnChanges, Scrolling!ScrollInv
  <2> QED BY <1>1, <1>4, <2>1 DEF Scrolling!ScrollInv, Scrolling!ConnFits
<1>7. Scrolling!TimersFit' /\ Scrolling!HeldIsWatched' /\ Scrolling!LastGestureArrives'
  BY <1>1 DEF Scrolling!ScrollInv, Scrolling!TimersFit, Scrolling!LastGestureArrives,
     Scrolling!HeldIsWatched, ConnChanges
<1>8. \A d, e \in DOMAIN conns' : conns'[d].freed = "idle" /\ conns'[e].freed = "idle" => d = e
  BY DEF Scrolling!ScrollInv, ConnChanges
<1> QED BY <1>1, <1>2, <1>3, <1>4, <1>5, <1>6, <1>7, <1>8 DEF Scrolling!ScrollInv

\* A connection that was opened gave control, or is of no use.
LEMMA OpenedKeeps ==
    ASSUME Scrolling!ScrollAssumption, Scrolling!ScrollInv, NEW s \in Streams, Scrolling!Opened(s)
    PROVE  Scrolling!ScrollInv'
<1>0. PICK c : c = sender[s].conn
  OBVIOUS
<1>1. /\ UNCHANGED <<over, stop, generation, idle, fired, gestures, quiet>>
      /\ sender[s].at = "ready" /\ mu = s /\ current = 0 /\ c \in DOMAIN conns /\ conns[c].freed = "no"
  BY <1>0 DEF Scrolling!Opened, Scrolling!ScrollInv, Scrolling!SenderFits
<1>2. s # "close" /\ s # "timer" /\ s # NoStream
  BY DEF Scrolling!ScrollAssumption
<1>3. CASE /\ ~over /\ current' = c /\ sender' = [sender EXCEPT ![s].at = "write"] /\ UNCHANGED <<mu, conns>>
  <2>1. PICK x : x = [sender[s] EXCEPT !.at = "write"]
    OBVIOUS
  <2>2. x \in Sending /\ x.gesture = sender[s].gesture /\ x.conn = c /\ x.at = "write"
    BY <1>0, <2>1, SenderTypes DEF Sending, Scrolling!Stages, Scrolling!ScrollInv
  <2>3. SenderMoves(s, x)
    <3>1. sender' = [sender EXCEPT ![s] = x]
      BY <1>3, <2>1
    <3> QED BY <2>2, <3>1, OneMoves DEF Scrolling!ScrollInv
  <2>4. c \in 1..Len(conns) /\ c # 0
    BY <1>1, ConnTypes DEF Scrolling!ScrollInv
  <2>5. Scrolling!ScrollTypeOK'
    BY <1>1, <1>3, <2>3, <2>4 DEF Scrolling!ScrollInv, Scrolling!ScrollTypeOK, SenderMoves, Sending
  <2>6. Scrolling!GesturesCounted'
    BY <1>1, <2>2, <2>3, StaysActive DEF Scrolling!ScrollInv
  <2>7. \A q \in Streams : Scrolling!SenderFits(q)'
    BY <1>1, <1>3, <2>2, <2>3, <2>4 DEF Scrolling!ScrollInv, Scrolling!SenderFits, SenderMoves
  <2>8. \A d \in DOMAIN conns' : Scrolling!ConnFits(d)'
    BY <1>1, <1>3, <2>4 DEF Scrolling!ScrollInv, Scrolling!ConnFits
  <2>9. Scrolling!TimersFit' /\ Scrolling!LastGestureArrives' /\ Scrolling!HeldIsWatched'
    BY <1>1, <1>2, <1>3 DEF Scrolling!ScrollInv, Scrolling!TimersFit, Scrolling!LastGestureArrives,
       Scrolling!HeldIsWatched
  <2> QED BY <1>1, <1>2, <1>3, <2>4, <2>5, <2>6, <2>7, <2>8, <2>9 DEF Scrolling!ScrollInv
<1>4. CASE Scrolling!Cancel(c) /\ Scrolling!Returns(s) /\ UNCHANGED current
  <2>1. PICK y \in Scrolling!Connections : /\ ConnChanges(c, y) /\ y.cut /\ y.at = conns[c].at /\ y.sent = conns[c].sent
                                           /\ y.read = conns[c].read /\ y.freed = conns[c].freed
    BY <1>1, <1>4, CutChanges DEF Scrolling!ScrollInv
  <2>2. y.read <= Len(y.sent)
    BY <1>1, <2>1, ConnTypes DEF Scrolling!ScrollInv
  <2>3. Scrolling!ConnFits(c)'
    BY <1>1, <1>4, <2>1 DEF Scrolling!ScrollInv, Scrolling!ConnFits, ConnChanges
  <2> QED BY <1>1, <1>4, <2>1, <2>2, <2>3, CutReturns
<1> QED BY <1>0, <1>1, <1>3, <1>4 DEF Scrolling!Opened

\* The commands of a gesture are written, or the connection is given up.
LEMMA WriteKeeps ==
    ASSUME Scrolling!ScrollAssumption, Scrolling!ScrollInv, NEW s \in Streams, Scrolling!Write(s)
    PROVE  Scrolling!ScrollInv'
<1>0. PICK c : c = sender[s].conn
  OBVIOUS
<1> DEFINE more == Append(conns[c].sent, sender[s].gesture)
<1>1. /\ UNCHANGED <<over, stop, generation, idle, fired, gestures, quiet>>
      /\ sender[s].at = "write" /\ mu = s /\ current = c /\ current # 0 /\ sender[s].gesture # 0
  BY <1>0 DEF Scrolling!Write, Scrolling!ScrollInv, Scrolling!SenderFits
<1>2. c \in DOMAIN conns
  BY <1>1 DEF Scrolling!ScrollInv, Scrolling!ScrollTypeOK
<1>3. conns[c].freed = "no" /\ \A i \in DOMAIN conns[c].sent : conns[c].sent[i] # 0
  BY <1>1, <1>2, ConnTypes DEF Scrolling!ScrollInv, Scrolling!ConnFits, Scrolling!Connections
<1>4. /\ more \in Seq(0..MaxGestures) /\ conns[c].read <= Len(more) /\ Len(more) \in Nat
      /\ \A i \in DOMAIN more : more[i] # 0
  <2>1. conns[c].sent \in Seq(0..MaxGestures) /\ conns[c].read \in Nat /\ conns[c].read <= Len(conns[c].sent)
        /\ sender[s].gesture \in 0..MaxGestures
    BY <1>2, ConnTypes, SenderTypes DEF Scrolling!ScrollInv
  <2> QED BY <1>1, <1>3, <2>1
<1>5. s # "close" /\ s # "timer" /\ s # NoStream
  BY DEF Scrolling!ScrollAssumption
<1>6. CASE /\ conns[c].at # "done" /\ conns' = [conns EXCEPT ![c].sent = more]
           /\ sender' = [sender EXCEPT ![s].at = "wrote"] /\ UNCHANGED <<mu, current>>
  <2>1. PICK x : x = [sender[s] EXCEPT !.at = "wrote"]
    OBVIOUS
  <2>2. PICK y : y = [conns[c] EXCEPT !.sent = more]
    OBVIOUS
  <2>3. x \in Sending /\ x.gesture = sender[s].gesture /\ x.conn = c /\ x.at = "wrote"
    BY <1>0, <2>1, SenderTypes DEF Sending, Scrolling!Stages, Scrolling!ScrollInv
  <2>4. /\ y \in Scrolling!Connections /\ y.at = conns[c].at /\ y.cut = conns[c].cut /\ y.sent = more
        /\ y.read = conns[c].read /\ y.freed = conns[c].freed
    BY <1>2, <1>4, <2>2, ConnTypes DEF Scrolling!Connections, Scrolling!ScrollInv
  <2>5. SenderMoves(s, x)
    <3>1. sender' = [sender EXCEPT ![s] = x]
      BY <1>6, <2>1
    <3> QED BY <2>3, <3>1, OneMoves DEF Scrolling!ScrollInv
  <2>6. ConnChanges(c, y)
    <3>1. conns' = [conns EXCEPT ![c] = y]
      BY <1>6, <2>2
    <3> QED BY <1>2, <2>4, <3>1, OneChanges DEF Scrolling!ScrollInv
  <2> HIDE DEF more
  <2>7. Scrolling!ScrollTypeOK'
    BY <1>1, <1>2, <1>4, <1>6, <2>4, <2>5, <2>6 DEF Scrolling!ScrollInv, Scrolling!ScrollTypeOK,
       SenderMoves, Sending, ConnChanges
  <2>8. Scrolling!GesturesCounted'
    BY <1>1, <2>3, <2>5, StaysActive DEF Scrolling!ScrollInv
  <2>9. \A q \in Streams : Scrolling!SenderFits(q)'
    BY <1>1, <1>2, <1>6, <2>3, <2>4, <2>5, <2>6 DEF Scrolling!ScrollInv, Scrolling!SenderFits,
       SenderMoves, ConnChanges
  <2>10. \A d \in DOMAIN conns' : Scrolling!ConnFits(d)'
    <3>1. Scrolling!ConnFits(c)'
      <4>1. conns'[c] = y /\ Scrolling!ConnFits(c)
        BY <1>2, <2>6 DEF Scrolling!ScrollInv, ConnChanges
      <4>2. /\ over' => y.cut
            /\ y.freed = "no" /\ y.at # "done" /\ \A i \in DOMAIN y.sent : y.sent[i] # 0
        BY <1>1, <1>3, <1>4, <1>6, <2>4, <4>1 DEF Scrolling!ConnFits
      <4> QED BY <4>1, <4>2 DEF Scrolling!ConnFits
    <3>2. ASSUME NEW d \in DOMAIN conns, d # c PROVE Scrolling!ConnFits(d)'
      BY <1>1, <1>6, <2>6, <3>2 DEF Scrolling!ScrollInv, Scrolling!ConnFits, ConnChanges
    <3> QED BY <2>6, <3>1, <3>2 DEF ConnChanges
  <2>11. Scrolling!TimersFit' /\ Scrolling!LastGestureArrives' /\ Scrolling!HeldIsWatched'
    BY <1>1, <1>2, <1>3, <1>5, <1>6, <2>4, <2>6 DEF Scrolling!ScrollInv, Scrolling!TimersFit,
       Scrolling!LastGestureArrives, Scrolling!HeldIsWatched, ConnChanges
  <2>12. \A d, e \in DOMAIN conns' : conns'[d].freed = "idle" /\ conns'[e].freed = "idle" => d = e
    BY <1>2, <2>4, <2>6 DEF Scrolling!ScrollInv, ConnChanges
  <2> QED BY <1>1, <1>5, <1>6, <2>7, <2>8, <2>9, <2>10, <2>11, <2>12 DEF Scrolling!ScrollInv
<1>7. CASE /\ conns' = [conns EXCEPT ![c].cut = TRUE] \/ conns' = [[conns EXCEPT ![c].sent = more] EXCEPT ![c].cut = TRUE]
           /\ current' = 0 /\ Scrolling!Returns(s)
  <2>1. PICK y : /\ conns' = [conns EXCEPT ![c] = y]
                 /\ y = [conns[c] EXCEPT !.cut = TRUE] \/ y = [[conns[c] EXCEPT !.sent = more] EXCEPT !.cut = TRUE]
    <3>1. CASE conns' = [conns EXCEPT ![c].cut = TRUE]
      BY <3>1
    <3>2. CASE conns' = [[conns EXCEPT ![c].sent = more] EXCEPT ![c].cut = TRUE]
      <4>1. conns' = [conns EXCEPT ![c] = [[conns[c] EXCEPT !.sent = more] EXCEPT !.cut = TRUE]]
        BY <1>2, <3>2 DEF Scrolling!ScrollInv, Scrolling!ScrollTypeOK
      <4> QED BY <4>1
    <3> QED BY <1>7, <3>1, <3>2
  <2>2. /\ y \in Scrolling!Connections /\ y.at = conns[c].at /\ y.cut /\ (y.sent = conns[c].sent \/ y.sent = more)
        /\ y.read = conns[c].read /\ y.freed = conns[c].freed
    BY <1>2, <1>4, <2>1, ConnTypes DEF Scrolling!Connections, Scrolling!ScrollInv
  <2>3. ConnChanges(c, y)
    BY <1>2, <2>1, <2>2, OneChanges DEF Scrolling!ScrollInv
  <2> HIDE DEF more
  <2>4. y.read <= Len(y.sent) /\ y.freed = "no" /\ \A i \in DOMAIN y.sent : y.sent[i] # 0
    BY <1>2, <1>3, <1>4, <2>2, ConnTypes DEF Scrolling!ScrollInv
  <2>5. Scrolling!ConnFits(c)'
    BY <2>2, <2>3, <2>4 DEF Scrolling!ConnFits, ConnChanges
  <2> QED BY <1>1, <1>2, <1>7, <2>2, <2>3, <2>4, <2>5, CutReturns
<1> QED BY <1>0, <1>6, <1>7 DEF Scrolling!Write

\* A caller that is gone after its write takes the connection along.
LEMMA WriteVoidKeeps ==
    ASSUME Scrolling!ScrollAssumption, Scrolling!ScrollInv, NEW s \in Streams, Scrolling!WriteVoid(s)
    PROVE  Scrolling!ScrollInv'
<1>0. PICK c : c = sender[s].conn
  OBVIOUS
<1>1. /\ UNCHANGED <<over, stop, generation, idle, fired, gestures, quiet>>
      /\ sender[s].at = "wrote" /\ mu = s /\ current = c /\ current # 0
      /\ Scrolling!Cancel(c) /\ current' = 0 /\ Scrolling!Returns(s)
  BY <1>0 DEF Scrolling!WriteVoid, Scrolling!ScrollInv, Scrolling!SenderFits
<1>2. c \in DOMAIN conns
  BY <1>1 DEF Scrolling!ScrollInv, Scrolling!ScrollTypeOK
<1>3. PICK y \in Scrolling!Connections : /\ ConnChanges(c, y) /\ y.cut /\ y.at = conns[c].at /\ y.sent = conns[c].sent
                                         /\ y.read = conns[c].read /\ y.freed = conns[c].freed
  BY <1>1, <1>2, CutChanges DEF Scrolling!ScrollInv
<1>4. y.read <= Len(y.sent) /\ conns[c].freed = "no" /\ c # 0
  BY <1>1, <1>2, <1>3, ConnTypes DEF Scrolling!ScrollInv, Scrolling!ConnFits, Scrolling!Connections
<1>5. Scrolling!ConnFits(c)'
  BY <1>1, <1>2, <1>3, <1>4 DEF Scrolling!ScrollInv, Scrolling!ConnFits, ConnChanges
<1> QED BY <1>1, <1>2, <1>3, <1>4, <1>5, CutReturns

\* A gesture was sent; its timer is armed.
LEMMA SentKeeps ==
    ASSUME Scrolling!ScrollAssumption, Scrolling!ScrollInv, NEW s \in Streams, Scrolling!Sent(s)
    PROVE  Scrolling!ScrollInv'
<1>1. /\ UNCHANGED <<over, stop, current, fired, conns, gestures>> /\ generation' = generation + 1
      /\ sender[s].at = "wrote" /\ mu = s /\ current = sender[s].conn /\ current # 0 /\ quiet' = FALSE /\ Scrolling!Returns(s)
      /\ idle' = [conn |-> current, generation |-> generation + 1]
  BY DEF Scrolling!Sent, Scrolling!NewTimer, Scrolling!ScrollInv, Scrolling!SenderFits
<1>2. SenderMoves(s, Scrolling!Waiting) /\ Scrolling!Waiting.at = "idle" /\ mu' = NoStream
  BY <1>1, ReturnMoves DEF Scrolling!ScrollInv
<1>3. /\ generation \in Nat /\ gestures \in 0..MaxGestures /\ MaxGestures \in Nat
      /\ current \in 1..MaxConns /\ \A t \in Scrolling!Timers : t.generation \in Nat
  BY <1>1 DEF Scrolling!ScrollInv, Scrolling!ScrollTypeOK, Scrolling!ScrollAssumption, Scrolling!Timers
<1>4. Scrolling!GesturesCounted' /\ generation + 1 \in 1..MaxGestures
  <2>1. /\ IsFiniteSet(Scrolling!Active') /\ Cardinality(Scrolling!Active') + 1 = Cardinality(Scrolling!Active)
        /\ Cardinality(Scrolling!Active) \in Nat /\ Cardinality(Scrolling!Active') \in Nat
    BY <1>1, <1>2, ActiveEnds DEF Scrolling!ScrollInv
  <2> QED BY <1>1, <1>3, <2>1, ScrollSets DEF Scrolling!ScrollInv, Scrolling!GesturesCounted
<1>5. PICK t : t = [conn |-> current, generation |-> generation + 1]
  OBVIOUS
<1>6. t \in Scrolling!Timers /\ t.generation = generation + 1 /\ idle' = t
  BY <1>1, <1>3, <1>4, <1>5 DEF Scrolling!Timers
<1>7. Scrolling!ScrollTypeOK'
  <2>1. generation' \in 0..MaxGestures
    BY <1>1, <1>3, <1>4
  <2>2. quiet' \in BOOLEAN
    BY <1>1
  <2> QED BY <1>1, <1>2, <1>6, <2>1, <2>2 DEF Scrolling!ScrollInv, Scrolling!ScrollTypeOK, SenderMoves,
             Sending
<1>8. Scrolling!TimersFit'
  <2>1. \A x \in fired : x.generation \in Nat /\ x.generation <= generation
    BY <1>3 DEF Scrolling!ScrollInv, Scrolling!TimersFit, Scrolling!ScrollTypeOK
  <2> QED BY <1>1, <1>3, <1>6, <2>1 DEF Scrolling!TimersFit
<1>9. Scrolling!HeldIsWatched'
  BY <1>1 DEF Scrolling!ScrollInv, Scrolling!HeldIsWatched
<1>10. s # "close" /\ s # "timer" /\ NoStream # "close" /\ NoStream # "timer" /\ \A q \in Streams : q # NoStream
  BY DEF Scrolling!ScrollAssumption
<1>11. \A q \in Streams : Scrolling!SenderFits(q)'
  BY <1>1, <1>2, <1>10 DEF Scrolling!ScrollInv, Scrolling!SenderFits, SenderMoves
<1>12. Scrolling!LastGestureArrives' /\ \A c \in DOMAIN conns' : Scrolling!ConnFits(c)'
  BY <1>1, <1>2, <1>10 DEF Scrolling!ScrollInv, Scrolling!ConnFits, Scrolling!LastGestureArrives
<1> QED BY <1>1, <1>2, <1>4, <1>7, <1>8, <1>9, <1>10, <1>11, <1>12 DEF Scrolling!ScrollInv

\* The timer that is armed fires.
LEMMA FireKeeps ==
    ASSUME Scrolling!ScrollAssumption, Scrolling!ScrollInv, Scrolling!Fire
    PROVE  Scrolling!ScrollInv'
<1>1. /\ idle # NoStream /\ fired' = fired \cup {idle} /\ idle' = NoStream /\ quiet' = TRUE
      /\ UNCHANGED <<over, stop, mu, current, generation, conns, sender, gestures>>
  BY DEF Scrolling!Fire
<1>2. Scrolling!ScrollTypeOK' /\ Scrolling!TimersFit' /\ Scrolling!HeldIsWatched'
  BY <1>1 DEF Scrolling!ScrollInv, Scrolling!ScrollTypeOK, Scrolling!TimersFit, Scrolling!HeldIsWatched
<1>3. Scrolling!LastGestureArrives' /\ (\A c \in DOMAIN conns' : Scrolling!ConnFits(c)')
         /\ \A q \in Streams : Scrolling!SenderFits(q)'
  BY <1>1 DEF Scrolling!ScrollInv, Scrolling!ConnFits, Scrolling!LastGestureArrives, Scrolling!SenderFits
<1>4. Scrolling!GesturesCounted'
  BY <1>1, ScrollSets DEF Scrolling!ScrollInv, Scrolling!GesturesCounted, Scrolling!Active
<1> QED BY <1>1, <1>2, <1>3, <1>4 DEF Scrolling!ScrollInv

\* A timer that fired gets the mutex.
LEMMA IdleTimerKeeps ==
    ASSUME Scrolling!ScrollAssumption, Scrolling!ScrollInv, NEW t \in fired, Scrolling!Expire(t)
    PROVE  Scrolling!ScrollInv'
<1>1. /\ mu = NoStream /\ fired' = fired \ {t} /\ t \in Scrolling!Timers
      /\ UNCHANGED <<over, stop, generation, idle, sender, gestures, quiet>>
  BY DEF Scrolling!Expire, Scrolling!ScrollInv, Scrolling!ScrollTypeOK
<1>2. Scrolling!GesturesCounted' /\ Scrolling!TimersFit'
  BY <1>1, ScrollSets DEF Scrolling!ScrollInv, Scrolling!GesturesCounted, Scrolling!Active,
     Scrolling!TimersFit
<1>3. NoStream # "close" /\ NoStream # "timer" /\ \A q \in Streams : q # "timer" /\ q # NoStream
  BY DEF Scrolling!ScrollAssumption
<1>4. CASE ~Scrolling!Newest(t)
  <2>1. UNCHANGED <<current, mu, conns>>
    BY <1>4 DEF Scrolling!Expire
  <2>2. t # [conn |-> current, generation |-> generation]
    BY <1>4 DEF Scrolling!Newest
  <2>3. Scrolling!HeldIsWatched'
    BY <1>1, <2>1, <2>2 DEF Scrolling!ScrollInv, Scrolling!HeldIsWatched
  <2>4. Scrolling!ScrollTypeOK'
    BY <1>1, <2>1 DEF Scrolling!ScrollInv, Scrolling!ScrollTypeOK
  <2>5. Scrolling!LastGestureArrives' /\ (\A c \in DOMAIN conns' : Scrolling!ConnFits(c)')
         /\ \A q \in Streams : Scrolling!SenderFits(q)'
    BY <1>1, <2>1 DEF Scrolling!ScrollInv, Scrolling!ConnFits, Scrolling!LastGestureArrives,
       Scrolling!SenderFits
  <2> QED BY <1>1, <1>2, <2>1, <2>3, <2>4, <2>5 DEF Scrolling!ScrollInv
<1>5. CASE Scrolling!Newest(t)
  <2>0. PICK c : c = t.conn
    OBVIOUS
  <2> DEFINE released == IF conns[c].cut THEN conns[c].sent ELSE Append(conns[c].sent, 0)
  <2>1. c = current /\ c \in DOMAIN conns /\ c # 0 /\ current' = 0 /\ mu' = "timer"
    BY <1>1, <1>5, <2>0 DEF Scrolling!Expire, Scrolling!Newest, Scrolling!ScrollInv,
       Scrolling!ScrollTypeOK, Scrolling!Timers, Scrolling!ScrollAssumption
  <2>2. conns[c].freed = "no" /\ (\A i \in DOMAIN conns[c].sent : conns[c].sent[i] # 0)
        /\ (conns[c].at = "done" => conns[c].cut) /\ (over => conns[c].cut)
    BY <1>1, <2>1, ConnTypes DEF Scrolling!ScrollInv, Scrolling!ConnFits, Scrolling!Connections
  <2>3. /\ released \in Seq(0..MaxGestures) /\ Len(released) \in Nat /\ conns[c].read <= Len(released)
        /\ \A i \in DOMAIN released : released[i] = 0 => i = Len(released)
    <3>1. conns[c].sent \in Seq(0..MaxGestures) /\ conns[c].read \in Nat /\ conns[c].read <= Len(conns[c].sent)
          /\ 0 \in 0..MaxGestures
      BY <2>1, ConnTypes DEF Scrolling!ScrollInv, Scrolling!ScrollAssumption
    <3>2. CASE conns[c].cut
      BY <2>2, <3>1, <3>2
    <3>3. CASE ~conns[c].cut
      <4>1. released = Append(conns[c].sent, 0)
        BY <3>3
      <4> HIDE DEF released
      <4>2. released \in Seq(0..MaxGestures) /\ Len(released) = Len(conns[c].sent) + 1 /\ Len(conns[c].sent) \in Nat
        BY <3>1, <4>1
      <4>3. \A i \in DOMAIN conns[c].sent : released[i] = conns[c].sent[i]
        BY <3>1, <4>1
      <4>4. \A i \in DOMAIN released : i \in DOMAIN conns[c].sent \/ i = Len(released)
        BY <3>1, <4>1, <4>2
      <4> QED BY <2>2, <3>1, <4>2, <4>3, <4>4
    <3> QED BY <3>2, <3>3
  <2>4. PICK y : y = [conns[c] EXCEPT !.freed = "idle", !.sent = released]
    OBVIOUS
  <2>5. /\ y \in Scrolling!Connections /\ y.at = conns[c].at /\ y.cut = conns[c].cut /\ y.sent = released
        /\ y.read = conns[c].read /\ y.freed = "idle"
    BY <2>1, <2>3, <2>4, ConnTypes DEF Scrolling!Connections, Scrolling!ScrollInv
  <2>6. ConnChanges(c, y)
    <3>1. conns' = [conns EXCEPT ![c].freed = "idle", ![c].sent = IF conns[c].cut THEN @ ELSE Append(@, 0)]
      BY <1>5, <2>0 DEF Scrolling!Expire, Scrolling!Release
    <3>2. conns' = [conns EXCEPT ![c] = y]
      BY <2>1, <2>4, <3>1 DEF Scrolling!ScrollInv, Scrolling!ScrollTypeOK, Scrolling!Connections
    <3> QED BY <2>1, <2>5, <3>2, OneChanges DEF Scrolling!ScrollInv
  <2> HIDE DEF released
  <2>7. Scrolling!ScrollTypeOK'
    <3>1. \A d \in DOMAIN conns' : conns'[d].read <= Len(conns'[d].sent)
      BY <2>1, <2>3, <2>5, <2>6 DEF Scrolling!ScrollInv, Scrolling!ScrollTypeOK, ConnChanges
    <3> QED BY <1>1, <2>1, <2>6, <3>1 DEF Scrolling!ScrollInv, Scrolling!ScrollTypeOK, ConnChanges
  <2>8. \A q \in Streams : Scrolling!SenderFits(q)'
    <3>1. \A q \in Streams : sender[q].at \notin {"open", "ready", "write", "wrote"}
      BY <1>1, <1>3 DEF Scrolling!ScrollInv, Scrolling!SenderFits
    <3> QED BY <1>1, <1>3, <2>1, <3>1 DEF Scrolling!ScrollInv, Scrolling!SenderFits
  <2>9. \A d \in DOMAIN conns' : Scrolling!ConnFits(d)'
    <3>1. Scrolling!ConnFits(c)'
      BY <1>1, <2>1, <2>2, <2>3, <2>5, <2>6 DEF Scrolling!ConnFits, ConnChanges
    <3>2. ASSUME NEW d \in DOMAIN conns, d # c PROVE Scrolling!ConnFits(d)'
      <4>1. conns'[d] = conns[d] /\ d # 0
        BY <2>6, <3>2, ConnTypes DEF ConnChanges, Scrolling!ScrollInv
      <4> QED BY <1>1, <2>1, <4>1 DEF Scrolling!ScrollInv, Scrolling!ConnFits
    <3> QED BY <2>6, <3>1, <3>2 DEF ConnChanges
  <2>10. Scrolling!HeldIsWatched' /\ Scrolling!LastGestureArrives'
    BY <1>1, <1>3, <2>1, <2>5, <2>6 DEF Scrolling!ScrollInv, Scrolling!HeldIsWatched,
       Scrolling!LastGestureArrives, ConnChanges
  <2>11. \A d, e \in DOMAIN conns' : conns'[d].freed = "idle" /\ conns'[e].freed = "idle" => d = e
    <3>1. \A d \in DOMAIN conns : conns[d].freed # "idle"
      BY <1>1, <1>3 DEF Scrolling!ScrollInv, Scrolling!ConnFits
    <3> QED BY <2>6, <3>1 DEF ConnChanges
  <2>12. stop # "waits" /\ stop # "returned"
    BY <1>1, <1>3, <2>1 DEF Scrolling!ScrollInv
  <2> QED BY <1>1, <1>2, <2>1, <2>7, <2>8, <2>9, <2>10, <2>11, <2>12 DEF Scrolling!ScrollInv
<1> QED BY <1>4, <1>5

\* The connection of an idle controller ended.
LEMMA ReleasedKeeps ==
    ASSUME Scrolling!ScrollAssumption, Scrolling!ScrollInv, Scrolling!Released
    PROVE  Scrolling!ScrollInv'
<1>1. PICK c \in DOMAIN conns : Scrolling!Releasing(c) /\ conns[c].at = "done" /\ conns' = [conns EXCEPT ![c].freed = "done"]
  BY DEF Scrolling!Released
<1>2. /\ mu = "timer" /\ mu' = NoStream /\ conns[c].freed = "idle" /\ current = 0
      /\ UNCHANGED <<over, stop, current, generation, idle, fired, sender, gestures, quiet>>
  BY <1>1 DEF Scrolling!Released, Scrolling!Releasing, Scrolling!ScrollInv
<1>3. PICK y : y = [conns[c] EXCEPT !.freed = "done"]
  OBVIOUS
<1>4. /\ y \in Scrolling!Connections /\ y.at = conns[c].at /\ y.cut = conns[c].cut /\ y.sent = conns[c].sent
      /\ y.read = conns[c].read /\ y.freed = "done"
  BY <1>3, ConnTypes DEF Scrolling!Connections, Scrolling!ScrollInv
<1>5. ConnChanges(c, y)
  BY <1>1, <1>3, <1>4, OneChanges DEF Scrolling!ScrollInv
<1>6. Scrolling!ScrollTypeOK'
  <2>1. \A d \in DOMAIN conns' : conns'[d].read <= Len(conns'[d].sent)
    BY <1>4, <1>5 DEF Scrolling!ScrollInv, Scrolling!ScrollTypeOK, ConnChanges
  <2> QED BY <1>2, <1>5, <2>1 DEF Scrolling!ScrollInv, Scrolling!ScrollTypeOK, ConnChanges
<1>7. NoStream # "close" /\ NoStream # "timer" /\ "timer" # "close" /\ \A q \in Streams : q # "timer" /\ q # NoStream
  BY DEF Scrolling!ScrollAssumption
<1>8. \A q \in Streams : Scrolling!SenderFits(q)'
  <2>1. \A q \in Streams : sender[q].at \notin {"open", "ready", "write", "wrote"}
    BY <1>2, <1>7 DEF Scrolling!ScrollInv, Scrolling!SenderFits
  <2> QED BY <1>2, <1>7, <2>1 DEF Scrolling!ScrollInv, Scrolling!SenderFits
<1>9. \A d \in DOMAIN conns' : Scrolling!ConnFits(d)'
  <2>1. Scrolling!ConnFits(c) /\ c # 0
    BY ConnTypes DEF Scrolling!ScrollInv
  <2>2. Scrolling!ConnFits(c)'
    BY <1>2, <1>4, <1>5, <2>1 DEF Scrolling!ConnFits, ConnChanges
  <2>3. ASSUME NEW d \in DOMAIN conns, d # c PROVE Scrolling!ConnFits(d)'
    <3>1. conns'[d] = conns[d] /\ conns[d].freed # "idle"
      BY <1>2, <1>5, <2>3 DEF ConnChanges, Scrolling!ScrollInv
    <3> QED BY <1>2, <3>1 DEF Scrolling!ScrollInv, Scrolling!ConnFits
  <2> QED BY <1>5, <2>2, <2>3 DEF ConnChanges
<1>10. Scrolling!HeldIsWatched' /\ Scrolling!TimersFit' /\ Scrolling!GesturesCounted'
  BY <1>2 DEF Scrolling!ScrollInv, Scrolling!HeldIsWatched, Scrolling!TimersFit,
     Scrolling!GesturesCounted, Scrolling!Active
<1>11. Scrolling!LastGestureArrives'
  BY <1>1, <1>4, <1>5 DEF Scrolling!ScrollInv, Scrolling!LastGestureArrives, Scrolling!ConnFits, ConnChanges
<1>12. \A d, e \in DOMAIN conns' : conns'[d].freed = "idle" /\ conns'[e].freed = "idle" => d = e
  BY <1>4, <1>5 DEF Scrolling!ScrollInv, ConnChanges
<1> QED BY <1>2, <1>6, <1>7, <1>8, <1>9, <1>10, <1>11, <1>12 DEF Scrolling!ScrollInv

\* One connection goes on by itself, or is cut.
LEMMA ConnectionKeeps ==
    ASSUME Scrolling!ScrollAssumption, Scrolling!ScrollInv, NEW c \in DOMAIN conns,
           NEW y \in Scrolling!Connections, ConnChanges(c, y),
           y.freed = conns[c].freed, y.read <= Len(y.sent), conns[c].cut => y.cut, Scrolling!ConnFits(c)',
           y.freed = "done" /\ ~y.cut => y.read = Len(y.sent),
           UNCHANGED <<over, stop, mu, current, generation, idle, fired, sender, gestures, quiet>>
    PROVE  Scrolling!ScrollInv'
<1>1. Scrolling!ScrollTypeOK'
  <2>1. \A d \in DOMAIN conns' : conns'[d].read <= Len(conns'[d].sent)
    BY DEF Scrolling!ScrollInv, Scrolling!ScrollTypeOK, ConnChanges
  <2> QED BY <2>1 DEF Scrolling!ScrollInv, Scrolling!ScrollTypeOK, ConnChanges
<1>2. Scrolling!TimersFit' /\ Scrolling!GesturesCounted'
  BY DEF Scrolling!ScrollInv, Scrolling!TimersFit, Scrolling!GesturesCounted, Scrolling!Active
<1>3. Scrolling!HeldIsWatched'
  <2>1. current # 0 => current \in DOMAIN conns
    BY DEF Scrolling!ScrollInv, Scrolling!ScrollTypeOK
  <2>2. ~conns'[current].cut /\ current # 0 => ~conns[current].cut
    BY <2>1 DEF ConnChanges
  <2> QED BY <2>2 DEF Scrolling!ScrollInv, Scrolling!HeldIsWatched
<1>4. Scrolling!LastGestureArrives'
  BY DEF Scrolling!ScrollInv, Scrolling!LastGestureArrives, ConnChanges
<1>5. \A d \in DOMAIN conns' : Scrolling!ConnFits(d)'
  <2>1. ASSUME NEW d \in DOMAIN conns, d # c PROVE Scrolling!ConnFits(d)'
    BY <2>1 DEF Scrolling!ScrollInv, Scrolling!ConnFits, ConnChanges
  <2> QED BY <2>1 DEF ConnChanges
<1>6. \A q \in Streams : Scrolling!SenderFits(q)'
  BY DEF Scrolling!ScrollInv, Scrolling!SenderFits, ConnChanges
<1>7. \A d, e \in DOMAIN conns' : conns'[d].freed = "idle" /\ conns'[e].freed = "idle" => d = e
  BY DEF Scrolling!ScrollInv, ConnChanges
<1> QED BY <1>1, <1>2, <1>3, <1>4, <1>5, <1>6, <1>7 DEF Scrolling!ScrollInv

\* A connection that does not end in time is cut.
LEMMA ReleaseLateKeeps ==
    ASSUME Scrolling!ScrollAssumption, Scrolling!ScrollInv, Scrolling!ReleaseLate
    PROVE  Scrolling!ScrollInv'
<1>1. PICK c \in DOMAIN conns : Scrolling!Cancel(c) /\ Scrolling!Releasing(c)
  BY DEF Scrolling!ReleaseLate
<1>2. PICK y \in Scrolling!Connections : /\ ConnChanges(c, y) /\ y.cut /\ y.at = conns[c].at /\ y.sent = conns[c].sent
                                         /\ y.read = conns[c].read /\ y.freed = conns[c].freed
  BY <1>1, CutChanges DEF Scrolling!ScrollInv
<1>3. UNCHANGED <<over, stop, mu, current, generation, idle, fired, sender, gestures, quiet>>
  BY DEF Scrolling!ReleaseLate
<1>4. Scrolling!ConnFits(c)' /\ y.read <= Len(y.sent)
  BY <1>2, <1>3, ConnTypes DEF Scrolling!ScrollInv, Scrolling!ConnFits, ConnChanges
<1> QED BY <1>2, <1>3, <1>4, ConnectionKeeps

\* Herdr gives control, takes a command or goes away.
LEMMA HerdrKeeps ==
    ASSUME Scrolling!ScrollAssumption, Scrolling!ScrollInv, Scrolling!Connection
    PROVE  Scrolling!ScrollInv'
<1>1. UNCHANGED <<over, stop, mu, current, generation, idle, fired, sender, gestures, quiet>>
  BY DEF Scrolling!Connection
<1>2. ASSUME NEW c \in DOMAIN conns, Scrolling!Accepts(c) PROVE Scrolling!ScrollInv'
  <2>1. PICK y : y = [conns[c] EXCEPT !.at = "up"]
    OBVIOUS
  <2>2. /\ y \in Scrolling!Connections /\ y.at = "up" /\ y.cut = conns[c].cut /\ y.sent = conns[c].sent
        /\ y.read = conns[c].read /\ y.freed = conns[c].freed
    BY <2>1, ConnTypes DEF Scrolling!Connections, Scrolling!ScrollInv
  <2>3. ConnChanges(c, y)
    BY <1>2, <2>1, <2>2, OneChanges DEF Scrolling!Accepts, Scrolling!ScrollInv
  <2>4. Scrolling!ConnFits(c)' /\ y.read <= Len(y.sent)
    BY <1>1, <2>2, <2>3, ConnTypes DEF Scrolling!ScrollInv, Scrolling!ConnFits, ConnChanges
  <2> QED BY <1>1, <2>2, <2>3, <2>4, ConnectionKeeps DEF Scrolling!ScrollInv, Scrolling!LastGestureArrives
<1>3. ASSUME NEW c \in DOMAIN conns, Scrolling!Drained(c) PROVE Scrolling!ScrollInv'
  <2>1. PICK y : y = [conns[c] EXCEPT !.at = "done", !.cut = TRUE]
    OBVIOUS
  <2>2. /\ y \in Scrolling!Connections /\ y.at = "done" /\ y.cut /\ y.sent = conns[c].sent
        /\ y.read = conns[c].read /\ y.freed = conns[c].freed
    BY <2>1, ConnTypes DEF Scrolling!Connections, Scrolling!ScrollInv
  <2>3. ConnChanges(c, y)
    BY <1>3, <2>1, <2>2, OneChanges DEF Scrolling!Drained, Scrolling!ScrollInv
  <2>4. Scrolling!ConnFits(c)' /\ y.read <= Len(y.sent)
    BY <1>1, <2>2, <2>3, ConnTypes DEF Scrolling!ScrollInv, Scrolling!ConnFits, ConnChanges
  <2> QED BY <1>1, <2>2, <2>3, <2>4, ConnectionKeeps
<1>4. ASSUME NEW c \in DOMAIN conns, Scrolling!Takes(c) PROVE Scrolling!ScrollInv'
  <2> DEFINE next == IF conns[c].sent[conns[c].read + 1] = 0 THEN "done" ELSE "up"
  <2>0. conns[c].read \in Nat /\ Len(conns[c].sent) \in Nat /\ conns[c].read < Len(conns[c].sent)
        /\ conns[c].read + 1 \in DOMAIN conns[c].sent
    BY <1>4, ConnTypes DEF Scrolling!Takes, Scrolling!ScrollInv
  <2>1. PICK y : y = [conns[c] EXCEPT !.read = conns[c].read + 1, !.at = next]
    OBVIOUS
  <2>2. /\ y \in Scrolling!Connections /\ y.at = next /\ y.cut = conns[c].cut /\ y.sent = conns[c].sent
        /\ y.read = conns[c].read + 1 /\ y.freed = conns[c].freed
    <3>1. conns[c] \in Scrolling!Connections /\ conns[c].read + 1 \in Nat /\ next \in {"opening", "up", "done"}
      BY <2>0, ConnTypes DEF Scrolling!ScrollInv
    <3> HIDE DEF next
    <3> QED BY <2>1, <3>1 DEF Scrolling!Connections
  <2>3. ConnChanges(c, y)
    <3>1. conns' = [conns EXCEPT ![c] = y]
      BY <1>4, <2>1 DEF Scrolling!Takes, Scrolling!ScrollInv, Scrolling!ScrollTypeOK, Scrolling!Connections
    <3> QED BY <2>2, <3>1, OneChanges DEF Scrolling!ScrollInv
  <2>4. y.at = "done" => y.read = Len(y.sent) /\ y.freed # "no"
    BY <2>0, <2>2 DEF Scrolling!ScrollInv, Scrolling!ConnFits
  <2> HIDE DEF next
  <2>5. Scrolling!ConnFits(c)' /\ y.read <= Len(y.sent)
    <3>1. Scrolling!ConnFits(c)
      BY DEF Scrolling!ScrollInv
    <3> QED BY <1>1, <2>0, <2>2, <2>3, <2>4, <3>1 DEF Scrolling!ConnFits, ConnChanges
  <2>6. ~(y.freed = "done" /\ ~y.cut)
    BY <2>0, <2>2 DEF Scrolling!ScrollInv, Scrolling!LastGestureArrives
  <2> QED BY <1>1, <2>2, <2>3, <2>5, <2>6, ConnectionKeeps
<1> QED BY <1>2, <1>3, <1>4 DEF Scrolling!Connection

\* Close ends all contexts.
LEMMA CloseControlKeeps ==
    ASSUME Scrolling!ScrollAssumption, Scrolling!ScrollInv, Scrolling!Close
    PROVE  Scrolling!ScrollInv'
<1>1. /\ stop = "no" /\ stop' = "locks" /\ over' = TRUE
      /\ UNCHANGED <<mu, current, generation, idle, fired, sender, gestures, quiet>>
      /\ conns' = [c \in DOMAIN conns |-> [conns[c] EXCEPT !.cut = TRUE]]
  BY DEF Scrolling!Close
<1>2. DOMAIN conns' = DOMAIN conns /\ DOMAIN conns = 1..Len(conns) /\ Len(conns) \in Nat
  BY <1>1 DEF Scrolling!ScrollInv, Scrolling!ScrollTypeOK
<1>3. ASSUME NEW c \in DOMAIN conns
      PROVE  /\ conns'[c] \in Scrolling!Connections /\ conns'[c].cut /\ conns'[c].at = conns[c].at /\ conns'[c].freed = conns[c].freed
             /\ conns'[c].sent = conns[c].sent /\ conns'[c].read = conns[c].read
  <2>1. PICK y : y = [conns[c] EXCEPT !.cut = TRUE]
    OBVIOUS
  <2>2. conns'[c] = y
    BY <1>1, <2>1
  <2>3. /\ y \in Scrolling!Connections /\ y.cut /\ y.at = conns[c].at /\ y.freed = conns[c].freed
        /\ y.sent = conns[c].sent /\ y.read = conns[c].read
    BY <2>1, ConnTypes DEF Scrolling!Connections, Scrolling!ScrollInv
  <2> QED BY <2>2, <2>3
<1>4. conns' \in Seq(Scrolling!Connections) /\ Len(conns') = Len(conns)
  <2>1. conns' \in [1..Len(conns) -> Scrolling!Connections]
    BY <1>1, <1>2, <1>3
  <2> QED BY <1>2, <2>1
<1>5. Scrolling!ScrollTypeOK'
  BY <1>1, <1>2, <1>3, <1>4 DEF Scrolling!ScrollInv, Scrolling!ScrollTypeOK
<1>6. Scrolling!TimersFit' /\ Scrolling!GesturesCounted'
  BY <1>1 DEF Scrolling!ScrollInv, Scrolling!TimersFit, Scrolling!GesturesCounted, Scrolling!Active
<1>7. Scrolling!HeldIsWatched' /\ Scrolling!LastGestureArrives'
  BY <1>1, <1>2, <1>3 DEF Scrolling!ScrollInv, Scrolling!ScrollTypeOK, Scrolling!HeldIsWatched,
     Scrolling!LastGestureArrives
<1>8. \A c \in DOMAIN conns' : Scrolling!ConnFits(c)'
  BY <1>1, <1>2, <1>3 DEF Scrolling!ScrollInv, Scrolling!ConnFits
<1>9. \A q \in Streams : Scrolling!SenderFits(q)'
  BY <1>1, <1>2, <1>3 DEF Scrolling!ScrollInv, Scrolling!SenderFits
<1>10. \A d, e \in DOMAIN conns' : conns'[d].freed = "idle" /\ conns'[e].freed = "idle" => d = e
  BY <1>2, <1>3 DEF Scrolling!ScrollInv
<1> QED BY <1>1, <1>5, <1>6, <1>7, <1>8, <1>9, <1>10 DEF Scrolling!ScrollInv

\* Close stops the timer, and waits for the connection if there is one.
LEMMA CloseEndsKeeps ==
    ASSUME Scrolling!ScrollAssumption, Scrolling!ScrollInv, Scrolling!CloseLocks \/ Scrolling!CloseWaits
    PROVE  Scrolling!ScrollInv'
<1>1. UNCHANGED <<over, generation, fired, conns, sender, gestures, quiet>> /\ stop \in {"locks", "waits"} /\ over
  BY DEF Scrolling!CloseLocks, Scrolling!CloseWaits, Scrolling!ScrollInv
<1>2. idle' \in {idle, NoStream} /\ current' \in {current, 0}
  BY DEF Scrolling!CloseLocks, Scrolling!CloseWaits
<1>3. /\ (mu = NoStream /\ stop = "locks") \/ (mu = "close" /\ stop = "waits")
      /\ (mu' = NoStream /\ stop' = "returned" /\ current' = 0) \/ (mu' = "close" /\ stop' = "waits" /\ current' # 0)
  BY DEF Scrolling!CloseLocks, Scrolling!CloseWaits, Scrolling!ScrollInv
<1>4. NoStream # "close" /\ NoStream # "timer" /\ "timer" # "close" /\ \A q \in Streams : q # "close" /\ q # NoStream
  BY DEF Scrolling!ScrollAssumption
<1>5. Scrolling!ScrollTypeOK'
  <2>1. current' \in 0..Len(conns')
    BY <1>1, <1>2 DEF Scrolling!ScrollInv, Scrolling!ScrollTypeOK
  <2> QED BY <1>1, <1>2, <1>3, <2>1 DEF Scrolling!ScrollInv, Scrolling!ScrollTypeOK
<1>6. Scrolling!TimersFit' /\ Scrolling!GesturesCounted'
  BY <1>1, <1>2 DEF Scrolling!ScrollInv, Scrolling!TimersFit, Scrolling!GesturesCounted, Scrolling!Active
<1>7. Scrolling!HeldIsWatched' /\ Scrolling!LastGestureArrives'
  BY <1>1, <1>2, <1>3, <1>4 DEF Scrolling!ScrollInv, Scrolling!HeldIsWatched, Scrolling!LastGestureArrives
<1>8. \A c \in DOMAIN conns' : Scrolling!ConnFits(c)'
  BY <1>1, <1>2, <1>3, <1>4, ConnTypes DEF Scrolling!ScrollInv, Scrolling!ConnFits
<1>9. \A q \in Streams : Scrolling!SenderFits(q)'
  <2>1. \A q \in Streams : sender[q].at \notin {"open", "ready", "write", "wrote"}
    BY <1>3, <1>4 DEF Scrolling!ScrollInv, Scrolling!SenderFits
  <2> QED BY <1>1, <1>3, <1>4, <2>1 DEF Scrolling!ScrollInv, Scrolling!SenderFits
<1> QED BY <1>1, <1>3, <1>4, <1>5, <1>6, <1>7, <1>8, <1>9 DEF Scrolling!ScrollInv

\* Nothing has been sent.
LEMMA ScrollBegins ==
    ASSUME Scrolling!ScrollAssumption, Scrolling!ScrollInit PROVE Scrolling!ScrollInv
<1>1. Scrolling!Waiting.at = "idle" /\ Scrolling!Waiting \in Sending
  BY DEF Scrolling!Waiting, Sending, Scrolling!Stages, Scrolling!ScrollAssumption
<1>2. Scrolling!GesturesCounted
  <2>1. Scrolling!Active = {}
    BY <1>1 DEF Scrolling!ScrollInit, Scrolling!Active
  <2> QED BY <2>1, ScrollSets, FS_EmptySet DEF Scrolling!ScrollInit, Scrolling!GesturesCounted
<1>3. Scrolling!ScrollTypeOK
  <2>1. conns \in Seq(Scrolling!Connections) /\ Len(conns) = 0 /\ DOMAIN conns = {}
    BY DEF Scrolling!ScrollInit
  <2>2. sender \in [Streams -> Sending]
    BY <1>1 DEF Scrolling!ScrollInit
  <2>3. 0 \in 0..MaxGestures /\ 0 \in 0..Len(conns) /\ Len(conns) <= MaxConns
    BY <2>1 DEF Scrolling!ScrollAssumption
  <2>4. generation = 0 /\ gestures = 0 /\ current = 0 /\ idle = NoStream /\ fired = {} /\ mu = NoStream /\ stop = "no"
        /\ over = FALSE /\ quiet = TRUE
    BY DEF Scrolling!ScrollInit
  <2> QED BY <2>1, <2>2, <2>3, <2>4 DEF Scrolling!ScrollTypeOK, Sending
<1>4. NoStream # "close" /\ NoStream # "timer" /\ \A q \in Streams : q # NoStream
  BY DEF Scrolling!ScrollAssumption
<1>5. DOMAIN conns = {} /\ \A q \in Streams : sender[q] = Scrolling!Waiting
  BY DEF Scrolling!ScrollInit
<1> QED
  BY <1>1, <1>2, <1>3, <1>4, <1>5 DEF Scrolling!ScrollInit, Scrolling!ScrollInv, Scrolling!TimersFit,
     Scrolling!HeldIsWatched, Scrolling!LastGestureArrives, Scrolling!SenderFits

\* A step gives control up only when the controller was quiet.
QuietStep ==
    \A c \in DOMAIN conns : conns[c].freed = "no" /\ conns'[c].freed = "idle" => quiet

\* Only a timer that has expired releases a connection.
LEMMA OnlyTimersRelease ==
    ASSUME Scrolling!ScrollAssumption, Scrolling!ScrollInv, Scrolling!ScrollInv',
           [Scrolling!ScrollNext]_(Scrolling!scrollVars)
    PROVE  QuietStep
<1> SUFFICES ASSUME NEW c \in DOMAIN conns, conns[c].freed = "no", conns'[c].freed = "idle"
             PROVE  quiet
  BY DEF QuietStep
<1>1. c \in DOMAIN conns /\ conns[c] \in Scrolling!Connections /\ \A d \in DOMAIN conns : conns[d] \in Scrolling!Connections
  BY ConnTypes DEF Scrolling!ScrollInv
<1>2. conns' # conns
  OBVIOUS
<1>3. ASSUME NEW d, Scrolling!Cancel(d) PROVE FALSE
  BY <1>1, <1>3 DEF Scrolling!Cancel, Scrolling!Connections
<1>4. ASSUME NEW s \in Streams,
             Scrolling!Call(s) \/ Scrolling!CallerGone(s) \/ Scrolling!Refused(s) \/ Scrolling!Lock(s)
                                  \/ Scrolling!CannotOpen(s) \/ Scrolling!Opened(s)
                                  \/ Scrolling!WriteVoid(s) \/ Scrolling!Sent(s)
      PROVE  FALSE
  BY <1>2, <1>3, <1>4 DEF Scrolling!Call, Scrolling!CallerGone, Scrolling!Refused, Scrolling!Lock,
     Scrolling!CannotOpen, Scrolling!Opened, Scrolling!WriteVoid, Scrolling!Sent
<1>5. ASSUME NEW s \in Streams, Scrolling!OpenSocket(s) PROVE FALSE
  BY <1>1, <1>5 DEF Scrolling!OpenSocket, Scrolling!ScrollInv, Scrolling!ScrollTypeOK
<1>6. ASSUME NEW s \in Streams, Scrolling!Write(s) PROVE FALSE
  <2>1. mu' # "timer" /\ mu = s
    BY <1>6 DEF Scrolling!Write, Scrolling!ScrollInv, Scrolling!SenderFits, Scrolling!Returns,
       Scrolling!ScrollAssumption
  <2>2. DOMAIN conns' = DOMAIN conns
    BY <1>6 DEF Scrolling!Write
  <2> QED BY <2>1, <2>2 DEF Scrolling!ScrollInv, Scrolling!ConnFits
<1>7. ASSUME Scrolling!Fire \/ Scrolling!CloseLocks \/ Scrolling!CloseWaits PROVE FALSE
  BY <1>2, <1>7 DEF Scrolling!Fire, Scrolling!CloseLocks, Scrolling!CloseWaits
<1>8. ASSUME Scrolling!Released PROVE FALSE
  BY <1>1, <1>8 DEF Scrolling!Released, Scrolling!Connections
<1>9. ASSUME Scrolling!ReleaseLate PROVE FALSE
  BY <1>3, <1>9 DEF Scrolling!ReleaseLate
<1>10. ASSUME Scrolling!Close PROVE FALSE
  BY <1>1, <1>10 DEF Scrolling!Close, Scrolling!Connections
<1>11. ASSUME Scrolling!Connection PROVE FALSE
  BY <1>1, <1>11 DEF Scrolling!Connection, Scrolling!Accepts, Scrolling!Takes, Scrolling!Drained,
     Scrolling!Connections
<1>12. ASSUME NEW t \in fired, Scrolling!Expire(t) PROVE quiet
  BY <1>2, <1>12 DEF Scrolling!Expire, Scrolling!Newest, Scrolling!ScrollInv, Scrolling!TimersFit
<1>13. CASE UNCHANGED Scrolling!scrollVars
  BY <1>2, <1>13 DEF Scrolling!scrollVars
<1> QED BY <1>4, <1>5, <1>6, <1>7, <1>8, <1>9, <1>10, <1>11, <1>12, <1>13 DEF Scrolling!ScrollNext

\* One lemma for each action.
LEMMA ScrollInvStep ==
    ASSUME Scrolling!ScrollAssumption, Scrolling!ScrollInv, [Scrolling!ScrollNext]_(Scrolling!scrollVars)
    PROVE  Scrolling!ScrollInv'
<1>1. CASE UNCHANGED Scrolling!scrollVars
  BY <1>1 DEF Scrolling!scrollVars, Scrolling!ScrollInv, Scrolling!ScrollTypeOK, Scrolling!TimersFit,
     Scrolling!GesturesCounted, Scrolling!Active, Scrolling!HeldIsWatched, Scrolling!LastGestureArrives,
     Scrolling!ConnFits, Scrolling!SenderFits
<1>2. CASE Scrolling!ScrollNext
  BY <1>2, CallKeeps, CallerGoneKeeps, RefusedKeeps, LockKeeps, OpenSocketKeeps, OpenedKeeps, WriteKeeps,
     WriteVoidKeeps, SentKeeps, FireKeeps, IdleTimerKeeps, ReleasedKeeps, ReleaseLateKeeps,
     CloseControlKeeps, CloseEndsKeeps,
     HerdrKeeps DEF Scrolling!ScrollNext
<1> QED BY <1>1, <1>2

\* Control that is held is watched, a release follows the last gesture, and a
\* timer that waited for the mutex does not end a newer gesture
\* (ScrollController.Send, Close).
THEOREM ScrollInvariance ==
    ASSUME Scrolling!ScrollAssumption
    PROVE  Scrolling!ScrollSpec => []Scrolling!ScrollInv /\ Scrolling!ReleasesWhenQuiet
<1>1. Scrolling!ScrollInit => Scrolling!ScrollInv
  BY ScrollBegins
<1>2. Scrolling!ScrollInv /\ [Scrolling!ScrollNext]_(Scrolling!scrollVars) => Scrolling!ScrollInv'
  BY ScrollInvStep
<1>3. Scrolling!ScrollInv /\ Scrolling!ScrollInv' /\ [Scrolling!ScrollNext]_(Scrolling!scrollVars) => [QuietStep]_(Scrolling!scrollVars)
  BY OnlyTimersRelease
<1> QED BY <1>1, <1>2, <1>3, PTL DEF Scrolling!ScrollSpec, Scrolling!ReleasesWhenQuiet, QuietStep

(***************************************************************************)
(* A window of the workbench                                               *)
(***************************************************************************)

\* A step of the window is a step of each part, or leaves it alone.
LEMMA PartsStep ==
    [TerminalsNext]_<<part, vars, viewportVars, scrollVars, positionVars, voiceVars>> =>
        /\ [Next]_vars
        /\ [PositionNext]_positionVars
        /\ [Viewport!ViewportNext]_(Viewport!viewportVars)
        /\ [Voice!VoiceNext]_(Voice!voiceVars)
        /\ [Scrolling!ScrollNext]_(Scrolling!scrollVars)
<1>1. UNCHANGED viewportVars => UNCHANGED (Viewport!viewportVars)
  BY DEF viewportVars, Viewport!viewportVars, Viewport!entry
<1>2. UNCHANGED voiceVars => UNCHANGED (Voice!voiceVars)
  BY DEF voiceVars, Voice!voiceVars, Voice!gatewayVars, Voice!slotVars
<1>3. UNCHANGED scrollVars => UNCHANGED (Scrolling!scrollVars)
  BY DEF scrollVars, Scrolling!scrollVars
<1> QED BY <1>1, <1>2, <1>3 DEF TerminalsNext

\* The specification of a window implies those of its parts.
LEMMA WindowHasParts ==
    TerminalsSpec =>
        /\ Spec
        /\ PositionSpec
        /\ Viewport!ViewportSpec
        /\ Voice!VoiceSpec
        /\ Scrolling!ScrollInit /\ [][Scrolling!ScrollNext]_(Scrolling!scrollVars)
<1>1. TerminalsInit =>
        /\ Init /\ PositionInit /\ Viewport!ViewportInit
        /\ Voice!VoiceInit /\ Scrolling!ScrollInit
  BY DEF TerminalsInit
<1> QED
  BY <1>1, PartsStep, PTL DEF TerminalsSpec, Spec, PositionSpec, Viewport!ViewportSpec, Voice!VoiceSpec

\* The variables of every part of a window have their types, for every value
\* of the constants.
THEOREM WindowTypeCorrect == TerminalsSpec => []TerminalsTypeOK
<1>1. /\ Viewport!ViewportAssumption /\ Scrolling!ScrollAssumption
      /\ PositionAssumption /\ Voice!VoiceAssumption
  BY PartsAssumption
<1>2. /\ TypeOK /\ Viewport!ViewportInv /\ Scrolling!ScrollInv /\ PositionTypeOK /\ Voice!VoiceInv
      => TerminalsTypeOK
  BY DEF TerminalsTypeOK, Viewport!ViewportInv, Scrolling!ScrollInv, Voice!VoiceInv
<1>3. TerminalsSpec => Scrolling!ScrollSpec
  BY WindowHasParts DEF Scrolling!ScrollSpec
<1>4. TerminalsSpec => []Scrolling!ScrollInv
  BY <1>1, <1>3, ScrollInvariance
<1> QED
  BY <1>1, <1>2, <1>4, WindowHasParts, TypeCorrect, CanvasesGoForward, PositionTypeCorrect,
     VoiceInvariance, PTL

\* In every behaviour of a window the size of a terminal is controlled by one
\* lease at a time, and handed over in order (acquire, finishAcquire, release).
THEOREM WindowIsControlled == TerminalsSpec => []SizeIsControlled /\ HandoverInOrder
BY WindowHasParts, SizeIsAlwaysControlled, HandoverIsInOrder, PTL

\* No canvas of an observer goes back to a size of before a lease that it
\* showed, in whatever order a controller and a probe report
\* (controllerViewport, refreshViewports).
THEOREM WindowGoesForward == TerminalsSpec => ViewportNeverGoesBack
<1>1. Viewport!ViewportAssumption
  BY PartsAssumption
<1> QED
  BY <1>1, CanvasesGoForward, WindowHasParts, PTL DEF ViewportNeverGoesBack

\* A ticket admits one voice session, and the slots in use are those of the
\* sessions that have not given theirs back, whichever of Relay, shutdown and
\* the end of the login comes first (consume, reserve, Session.release).
THEOREM WindowCountsVoice == TerminalsSpec => VoiceIsCounted
<1>1. Voice!VoiceAssumption
  BY PartsAssumption
<1>2. Voice!VoiceInv => Voice!SlotsExact
  BY DEF Voice!VoiceInv
<1>3. Voice!VoiceInv' => [part = "voice" => Voice!SlotsExact']_voiceVars
  BY DEF Voice!VoiceInv
<1> QED
  BY <1>1, <1>3, VoiceInvariance, WindowHasParts, PTL DEF VoiceIsCounted

\* The position is kept in every behaviour of a window (PutWorkbenchSession).
THEOREM WindowKeepsPosition == TerminalsSpec => []PositionIsKept
<1>1. PositionAssumption
  BY PartsAssumption
<1> QED
  BY <1>1, PositionStays, WindowHasParts, PTL

\* A connection for scrolling is released when its gesture is over, no sooner
\* and at last: whoever holds control is ended or watched by a timer of its
\* last gesture, in whatever order Send, the timers, the caller and Close come
\* (ScrollController).
THEOREM WindowReleasesControl == TerminalsSpec => GesturesAreWhole
<1>1. Scrolling!ScrollAssumption
  BY PartsAssumption
<1>2. Scrolling!ScrollInv' => [part = "scroll" => (Scrolling!HeldIsWatched /\ Scrolling!LastGestureArrives)']_scrollVars
  BY DEF Scrolling!ScrollInv
<1>3. TerminalsSpec => Scrolling!ScrollSpec
  BY WindowHasParts DEF Scrolling!ScrollSpec
<1>4. TerminalsSpec => []Scrolling!ScrollInv /\ Scrolling!ReleasesWhenQuiet
  BY <1>1, <1>3, ScrollInvariance
<1> QED
  BY <1>2, <1>4, PTL DEF GesturesAreWhole
=============================================================================
