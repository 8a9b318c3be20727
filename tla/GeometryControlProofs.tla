------------------------ MODULE GeometryControlProofs ------------------------
(***************************************************************************)
(* Theorems about GeometryControl for every number of streams, leases,     *)
(* entries, runtime generations and sequence numbers.                      *)
(***************************************************************************)
EXTENDS GeometryControl, FiniteSetTheorems, TLAPS

(***************************************************************************)
(* The inductive invariant.                                                *)
(***************************************************************************)
AcqHolds(s) == acq[s] \notin {"none", "wait", "answer"}
ReaderHolds(s) == reader[s].stage \in {"writing", "written", "stopping"}
RelHolds(l, c) == rel[l][c] = "stop"
Taken(l) == leases[l].holder # NoStream

\* The mutex op of an entry has one holder at most.
OpExclusive ==
    /\ \A s, t \in Streams : EntryOf(s) = EntryOf(t) =>
          /\ AcqHolds(s) /\ AcqHolds(t) => s = t
          /\ ReaderHolds(s) /\ ReaderHolds(t) => s = t
          /\ ~(AcqHolds(s) /\ ReaderHolds(t))
    /\ \A s \in Streams, l \in Leases, c \in Sources :
          EntryOf(s) = leases[l].entry /\ RelHolds(l, c) => ~AcqHolds(s) /\ ~ReaderHolds(s)
    /\ \A l, m \in Leases, c, d \in Sources :
          leases[l].entry = leases[m].entry /\ RelHolds(l, c) /\ RelHolds(m, d) => l = m /\ c = d

\* A stream is listed from its registration to its removal.
StreamsFit ==
    \A s \in Streams :
        /\ streams[s].listed => streams[s].entry # 0 /\ streams[s].removal = "no"
        /\ streams[s].removal # "no" => streams[s].entry # 0

\* Leases are handed out in order, to a stream of their entry, and a lease
\* whose controller has not ended is the one of its entry.
LeaseFits(l) ==
    /\ ~Taken(l) =>
          /\ leases[l].entry = 0 /\ ~leases[l].revoked /\ ~leases[l].confirmed /\ ~leases[l].armed
          /\ leases[l].controller = "none"
          /\ \A m \in Leases : l <= m => ~Taken(m)
    /\ Taken(l) => leases[l].entry \in Entries /\ EntryOf(leases[l].holder) = leases[l].entry
    /\ leases[l].revoked => leases[l].cancelled
    /\ leases[l].confirmed => leases[l].controller # "none"
    /\ Attached(l) => entries[leases[l].entry].lease = l
LeasesFit == \A l \in Leases : LeaseFits(l)

\* The lease of an entry is the latest one handed out for it; until it is
\* confirmed or revoked, its acquisition holds op; there is no short controller.
EntryFits(e) ==
    LET l == entries[e].lease
    IN  l # None =>
          /\ leases[l].entry = e
          /\ \A m \in Leases : leases[m].entry = e => m <= l
          /\ ~leases[l].confirmed /\ ~leases[l].revoked
                => acq[leases[l].holder] \in {"opening", "waiting", "checked"}
          /\ ~entries[e].scroll
EntriesFit == \A e \in Entries : EntryFits(e)

\* What an acquisition found still holds at its next step: it holds op.
AcquiringFits(s) ==
    LET l == CurrentLease(s)
    IN  /\ acq[s] # "none" => EntryOf(s) \in Entries
        /\ acq[s] = "stopping" => l # None /\ leases[l].revoked /\ leases[l].controller # "live"
        /\ acq[s] = "clear" => l = None /\ ~entries[EntryOf(s)].scroll
        /\ acq[s] \in {"opening", "waiting", "checked", "failing"} =>
              l # None /\ leases[l].holder = s /\ ~leases[l].confirmed
        /\ acq[s] = "opening" => leases[l].controller = "none"
        /\ acq[s] \in {"waiting", "checked"} => leases[l].controller # "none"
        /\ acq[s] = "failing" => leases[l].revoked /\ leases[l].controller # "live"
AcquireFits == \A s \in Streams : AcquiringFits(s)

\* A resize that writes does so with the confirmed lease of the entry.
ResizingFits(s) ==
    LET l == reader[s].lease
    IN  /\ reader[s].stage # "idle" => l # None /\ leases[l].holder = s
        /\ reader[s].stage \in {"writing", "written"} => CurrentLease(s) = l /\ leases[l].confirmed
        /\ reader[s].stage = "stopping" => leases[l].revoked /\ leases[l].controller # "live"
ReaderFits == \A s \in Streams : ResizingFits(s)

\* A release is under way for a lease that is revoked; the one that stops it
\* finds it in the entry.
ReleasingFits(l) ==
    /\ \A c \in Sources :
          /\ rel[l][c] # "no" => Taken(l) /\ leases[l].revoked
          /\ rel[l][c] = "stop" => entries[leases[l].entry].lease = l /\ leases[l].controller # "live"
    /\ rel[l]["reader"] # "no" =>
          rel[l]["reader"] # "over" /\ reader[leases[l].holder] = [stage |-> "release", lease |-> l]
    /\ rel[l]["closer"] # "no" =>
          rel[l]["closer"] # "over" /\ streams[leases[l].holder].removal = "release"
    /\ \A m \in Leases : rel[l]["closer"] # "no" /\ rel[m]["closer"] # "no"
            /\ leases[l].holder = leases[m].holder => l = m
    /\ rel[l]["done"] # "no" => leases[l].controller = "done" /\ leases[l].confirmed
    /\ rel[l]["done"] \in {"publish", "over"} => entries[leases[l].entry].lease # l
ReleaseFits == \A l \in Leases : ReleasingFits(l)

\* What was reported of the requests of a lease, and what is about to be.
TargetFits(l) ==
    LET q == target[l].seq
    IN  /\ reports[l].submitted <= q
        /\ \A p \in 1..MaxSeq :
              /\ p > reports[l].submitted => reports[l].observed[p] = 0
              /\ reports[l].observed[p] <= 1
        /\ target[l].submitted => reports[l].submitted = q
        /\ q # 0 /\ (~target[l].observed \/ ~target[l].submitted) => reports[l].observed[q] = 0
ObserverFits(s) ==
    LET l == observer[s].lease
        p == observer[s].seq
    IN  l # None =>
          /\ leases[l].holder = s
          /\ p # 0 /\ p <= reports[l].submitted /\ reports[l].observed[p] = 0
          /\ p = target[l].seq => target[l].observed /\ target[l].submitted
WriterFits(s) ==
    LET l == reader[s].lease
    IN  /\ reader[s].stage \in {"writing", "written"} => ~target[l].submitted /\ target[l].seq # 0
        /\ reader[s].stage = "written" => reports[l].submitted = target[l].seq
ReportsFit ==
    /\ \A l \in Leases : TargetFits(l)
    /\ \A s \in Streams : ObserverFits(s) /\ WriterFits(s)

\* The last resize that reached the terminal is not later than the target of
\* its lease, and earlier than the one that is being written.
WireFitsAt(e) ==
    LET l == wire[e].lease
    IN  l # None =>
          /\ leases[l].entry = e /\ wire[e].seq <= target[l].seq
          /\ \A s \in Streams :
                reader[s].stage = "writing" /\ reader[s].lease = l => wire[e].seq < target[l].seq
WireFits == \A e \in Entries : WireFitsAt(e)

\* A watcher was told what there is to see, or somebody is about to tell it.
Running == {"wait", "stop", "publish"}
AboutToTell(s, l) ==
    \/ leases[l].confirmed /\ \E t \in Streams : EntryOf(t) = EntryOf(s) /\ acq[t] = "answer"
    \/ leases[l].revoked /\ acq[leases[l].holder] \in {"opening", "waiting", "checked", "failing"}
    \/ leases[l].revoked /\ \E c \in Sources : rel[l][c] \in Running
ToldFitsTo(s) ==
    LET l == CurrentLease(s)
    IN  streams[s].listed /\ l # None /\ (leases[l].confirmed <=> ~leases[l].revoked) =>
          told[s] = View(s) \/ AboutToTell(s, l)
ToldFits == \A s \in Streams : ToldFitsTo(s)

ControlFits ==
    OpExclusive /\ StreamsFit /\ LeasesFit /\ EntriesFit /\ AcquireFits /\ ReaderFits /\ ReleaseFits
IInv ==
    TypeOK /\ ControlFits /\ RegistryOwnsScroll /\ ReportsFit /\ WireFits /\ ToldFits

(***************************************************************************)
(* What the actions do, in terms of the invariant.                         *)
(***************************************************************************)
USE DEF None

LEMMA Bounds ==
    /\ NoStream \notin Streams /\ None \notin Leases /\ None \notin Entries
    /\ MaxLeases \in Nat \ {0} /\ MaxEntries \in Nat \ {0} /\ MaxRuntime \in Nat \ {0} /\ MaxSeq \in Nat
    /\ Leases \subseteq Nat /\ Entries \subseteq Nat
    /\ IsFiniteSet(Streams) /\ Cardinality(Streams) \in Nat
BY GeometryAssumption, FS_CardinalityType DEF None, Leases, Entries

\* What follows from the types alone, in the form the proofs below use.
LEMMA Typed ==
    ASSUME TypeOK
    PROVE  /\ \A s \in Streams : EntryOf(s) \in Entries \cup {None} /\ EntryOf(s) \in Nat
           /\ \A e \in Entries : entries[e].lease \in Leases \cup {None}
           /\ \A l \in Leases : /\ leases[l].holder \in Streams \cup {NoStream}
                                /\ leases[l].entry \in Entries \cup {None}
           /\ \A s \in Streams : reader[s].lease \in Leases \cup {None}
           /\ \A s \in Streams : observer[s].lease \in Leases \cup {None}
           /\ \A e \in Entries : wire[e].lease \in Leases \cup {None}
<1>1. 0..MaxLeases = Leases \cup {None} /\ 0..MaxEntries = Entries \cup {None}
  BY Bounds DEF Leases, Entries, None
<1>2. \A s \in Streams : EntryOf(s) \in Entries \cup {None} /\ EntryOf(s) \in Nat
  BY <1>1, Bounds DEF TypeOK, StreamType, EntryOf, None
<1>3. \A e \in Entries : entries[e].lease \in Leases \cup {None}
  BY <1>1 DEF TypeOK, EntryType
<1>4. \A l \in Leases : /\ leases[l].holder \in Streams \cup {NoStream}
                        /\ leases[l].entry \in Entries \cup {None}
  BY <1>1 DEF TypeOK, LeaseType
<1>5. \A s \in Streams : /\ reader[s].lease \in Leases \cup {None}
                         /\ observer[s].lease \in Leases \cup {None}
  BY <1>1 DEF TypeOK
<1>6. \A e \in Entries : wire[e].lease \in Leases \cup {None}
  BY <1>1 DEF TypeOK
<1> QED BY <1>2, <1>3, <1>4, <1>5, <1>6

\* Leases only fade here: nothing is handed out, opened or confirmed.
FadesAt(l) ==
    /\ leases'[l].holder = leases[l].holder /\ leases'[l].entry = leases[l].entry
    /\ leases'[l].confirmed = leases[l].confirmed
    /\ leases[l].revoked => leases'[l].revoked
    /\ leases[l].cancelled => leases'[l].cancelled
    /\ leases'[l].revoked => leases'[l].cancelled \/ (leases[l].revoked /\ ~leases[l].cancelled)
    /\ leases'[l].armed => leases[l].armed
    /\ \/ leases'[l].controller = leases[l].controller
       \/ leases[l].controller = "live" /\ leases'[l].controller \in {"closing", "done"}
       \/ leases[l].controller = "closing" /\ leases'[l].controller = "done"
    /\ ~Taken(l) => leases'[l].revoked = leases[l].revoked
Fades == \A l \in Leases : FadesAt(l)

\* An entry keeps its lease, or lets go of one whose controller has ended.
LetsGo ==
    \A e \in Entries :
        \/ entries'[e].lease = entries[e].lease
        \/ /\ entries'[e].lease = None
           /\ entries[e].lease # None => leases'[entries[e].lease].controller \in {"none", "done"}

\* The lease of an entry was handed out to one of its streams.
LEMMA InEntry ==
    ASSUME TypeOK, LeasesFit, EntriesFit,
           NEW e \in Entries, entries[e].lease # None
    PROVE  LET l == entries[e].lease
           IN  /\ l \in Leases /\ Taken(l) /\ leases[l].entry = e
               /\ leases[l].holder \in Streams /\ EntryOf(leases[l].holder) = e
<1> DEFINE l == entries[e].lease
<1>1. l \in Leases /\ leases[l].entry = e
  BY Typed DEF EntriesFit, EntryFits
<1>2. Taken(l) /\ EntryOf(leases[l].holder) = e
  BY <1>1, Bounds DEF LeasesFit, LeaseFits
<1>3. leases[l].holder \in Streams
  BY <1>1, <1>2, Typed DEF Taken
<1> QED BY <1>1, <1>2, <1>3

LEMMA RevokedFades ==
    ASSUME TypeOK, NEW l \in Leases, Taken(l), leases' = Revoked(l)
    PROVE  /\ Fades /\ leases' \in [Leases -> LeaseType]
           /\ leases'[l].revoked
           /\ \A m \in Leases \ {l} : leases'[m] = leases[m]
           /\ leases'[l].controller = leases[l].controller
<1>1. leases \in [Leases -> LeaseType]
  BY DEF TypeOK
<1>2. leases' = [leases EXCEPT ![l] = [leases[l] EXCEPT !.revoked = TRUE, !.cancelled = TRUE]]
  BY <1>1 DEF Revoked
<1>3. leases' \in [Leases -> LeaseType] /\ \A m \in Leases \ {l} : leases'[m] = leases[m]
  BY <1>1, <1>2 DEF LeaseType
<1>4. leases'[l] = [leases[l] EXCEPT !.revoked = TRUE, !.cancelled = TRUE]
  BY <1>1, <1>2
<1>5. /\ leases'[l].holder = leases[l].holder /\ leases'[l].entry = leases[l].entry
      /\ leases'[l].confirmed = leases[l].confirmed /\ leases'[l].armed = leases[l].armed
      /\ leases'[l].controller = leases[l].controller
      /\ leases'[l].revoked /\ leases'[l].cancelled
  BY <1>1, <1>4 DEF LeaseType
<1>6. Fades
  <2>1. FadesAt(l)
    BY <1>5 DEF FadesAt, Taken
  <2>2. \A m \in Leases \ {l} : FadesAt(m)
    BY <1>3 DEF FadesAt
  <2> QED BY <2>1, <2>2 DEF Fades
<1> QED BY <1>3, <1>5, <1>6

LEMMA StoppingFades ==
    ASSUME TypeOK, NEW l \in Leases, Taken(l), leases' = Stopping(l)
    PROVE  /\ Fades /\ leases' \in [Leases -> LeaseType]
           /\ leases'[l].revoked /\ leases'[l].controller # "live"
           /\ \A m \in Leases \ {l} : leases'[m] = leases[m]
<1> DEFINE left == IF leases[l].controller = "live" THEN "closing" ELSE leases[l].controller
<1>1. leases \in [Leases -> LeaseType]
  BY DEF TypeOK
<1>2. leases' = [leases EXCEPT ![l] = [leases[l] EXCEPT !.revoked = TRUE, !.cancelled = TRUE,
                                                         !.armed = FALSE, !.controller = left]]
  BY <1>1 DEF Stopping
<1>3. leases' \in [Leases -> LeaseType] /\ \A m \in Leases \ {l} : leases'[m] = leases[m]
  <2>1. leases[l] \in LeaseType
    BY <1>1
  <2>2. left \in {"none", "closing", "done"}
    BY <2>1 DEF LeaseType
  <2>3. [leases[l] EXCEPT !.revoked = TRUE, !.cancelled = TRUE, !.armed = FALSE, !.controller = left]
           \in LeaseType
    BY <2>1, <2>2 DEF LeaseType
  <2> HIDE DEF left
  <2> QED BY <1>1, <1>2, <2>3
<1>4. leases'[l] = [leases[l] EXCEPT !.revoked = TRUE, !.cancelled = TRUE,
                                     !.armed = FALSE, !.controller = left]
  BY <1>1, <1>2
<1>5. /\ leases'[l].holder = leases[l].holder /\ leases'[l].entry = leases[l].entry
      /\ leases'[l].confirmed = leases[l].confirmed /\ ~leases'[l].armed
      /\ leases'[l].controller = left /\ left # "live"
      /\ leases'[l].revoked /\ leases'[l].cancelled
  BY <1>1, <1>4 DEF LeaseType
<1>6. Fades
  <2>1. FadesAt(l)
    BY <1>5 DEF FadesAt, Taken
  <2>2. \A m \in Leases \ {l} : FadesAt(m)
    BY <1>3 DEF FadesAt
  <2> QED BY <2>1, <2>2 DEF Fades
<1> QED BY <1>3, <1>5, <1>6

LEMMA SameLeasesFade ==
    ASSUME TypeOK, leases' = leases
    PROVE  Fades /\ leases' \in [Leases -> LeaseType]
BY DEF TypeOK, Fades, FadesAt

LEMMA StoppedLetsGo ==
    ASSUME TypeOK, NEW l \in Leases, leases[l].entry \in Entries,
           leases' = leases, entries' = Stopped(l)
    PROVE  /\ LetsGo /\ entries' \in [Entries -> EntryType]
           /\ \A e \in Entries : /\ entries'[e].runtime = entries[e].runtime
                                 /\ entries'[e].refs = entries[e].refs
                                 /\ entries'[e].scroll = entries[e].scroll
           /\ \A e \in Entries \ {leases[l].entry} : entries'[e] = entries[e]
<1> DEFINE e == leases[l].entry
<1>1. entries \in [Entries -> EntryType] /\ None \in 0..MaxLeases
  BY Bounds DEF TypeOK, None
<1>2. CASE entries' = entries
  BY <1>1, <1>2 DEF LetsGo
<1>3. CASE /\ entries' = [entries EXCEPT ![e] = [entries[e] EXCEPT !.lease = None]]
           /\ entries[e].lease = l /\ leases[l].controller \in {"none", "done"}
  <2>1. entries' \in [Entries -> EntryType] /\ \A f \in Entries \ {e} : entries'[f] = entries[f]
    BY <1>1, <1>3 DEF EntryType
  <2>2. entries'[e] = [entries[e] EXCEPT !.lease = None]
    BY <1>1, <1>3
  <2>3. /\ entries'[e].runtime = entries[e].runtime /\ entries'[e].refs = entries[e].refs
        /\ entries'[e].scroll = entries[e].scroll /\ entries'[e].lease = None
    BY <1>1, <2>2 DEF EntryType
  <2> QED BY <2>1, <2>3, <1>3 DEF LetsGo
<1> QED BY <1>1, <1>2, <1>3 DEF Stopped
(***************************************************************************)
(* What each part of the invariant needs of a step that leaves it alone.   *)
(***************************************************************************)
LEMMA OpKept ==
    ASSUME OpExclusive,
           \A s \in Streams : AcqHolds(s)' => AcqHolds(s) /\ EntryOf(s)' = EntryOf(s),
           \A s \in Streams : ReaderHolds(s)' => ReaderHolds(s) /\ EntryOf(s)' = EntryOf(s),
           \A l \in Leases, c \in Sources :
              RelHolds(l, c)' => RelHolds(l, c) /\ leases'[l].entry = leases[l].entry
    PROVE  OpExclusive'
<1> USE DEF OpExclusive
<1> HIDE DEF EntryOf, AcqHolds, ReaderHolds, RelHolds
<1> QED OBVIOUS

LEMMA StreamsKept ==
    ASSUME StreamsFit,
           \A s \in Streams :
              /\ EntryOf(s)' = EntryOf(s)
              /\ streams'[s].listed => streams[s].listed /\ streams'[s].removal = streams[s].removal
              /\ streams'[s].removal # "no" => streams[s].removal # "no" \/ streams[s].listed
    PROVE  StreamsFit'
BY DEF StreamsFit, EntryOf

LEMMA LeasesKept ==
    ASSUME TypeOK, LeasesFit, Fades, LetsGo,
           \A s \in Streams : EntryOf(s) # 0 => EntryOf(s)' = EntryOf(s)
    PROVE  LeasesFit'
<1> SUFFICES ASSUME NEW l \in Leases PROVE LeaseFits(l)'
  BY DEF LeasesFit
<1>1. LeaseFits(l) /\ FadesAt(l)
  BY DEF LeasesFit, Fades
<1>2. Taken(l) <=> Taken(l)'
  BY <1>1 DEF FadesAt, Taken
<1>3. ~Taken(l)' => \A m \in Leases : l <= m => ~Taken(m)'
  BY <1>1, <1>2 DEF LeaseFits, Fades, FadesAt, Taken
<1>4. Taken(l)' => leases'[l].entry \in Entries /\ EntryOf(leases[l].holder)' = leases[l].entry
  BY <1>1, <1>2, Typed, Bounds DEF LeaseFits, FadesAt, Taken, EntryOf
<1>5. Attached(l)' => Attached(l)
  BY <1>1 DEF Attached, FadesAt
<1>6. Attached(l)' => entries'[leases[l].entry].lease = l
  BY <1>1, <1>5, Bounds DEF LeaseFits, LetsGo, Attached, Taken, FadesAt
<1> QED BY <1>1, <1>2, <1>3, <1>4, <1>6 DEF LeaseFits, FadesAt

\* Entries lose leases and short controllers only.
LEMMA EntriesKept ==
    ASSUME TypeOK, LeasesFit, EntriesFit, Fades, LetsGo,
           \A e \in Entries : entries'[e].scroll => entries[e].scroll \/ entries[e].lease = None,
           \A s \in Streams : acq[s] \in {"opening", "waiting", "checked"} =>
              \/ acq'[s] \in {"opening", "waiting", "checked"}
              \/ CurrentLease(s) # None => leases'[CurrentLease(s)].revoked
    PROVE  EntriesFit'
<1> SUFFICES ASSUME NEW e \in Entries PROVE EntryFits(e)'
  BY DEF EntriesFit
<1> DEFINE l == entries[e].lease
<1>1. entries'[e].lease = None \/ entries'[e].lease = l
  BY DEF LetsGo
<1> SUFFICES ASSUME entries'[e].lease = l, l # None PROVE EntryFits(e)'
  BY <1>1 DEF EntryFits
<1>2. l \in Leases /\ EntryFits(e) /\ LeaseFits(l) /\ FadesAt(l)
  BY Typed DEF EntriesFit, LeasesFit, Fades
<1>3. Taken(l) /\ leases[l].holder \in Streams /\ EntryOf(leases[l].holder) = e
  BY <1>2, Typed, Bounds DEF EntryFits, LeaseFits, Taken
<1>4. \A m \in Leases : leases'[m].entry = leases[m].entry
  BY DEF Fades, FadesAt
<1>5. ~leases[l].confirmed /\ ~leases'[l].revoked => acq'[leases[l].holder] \in {"opening", "waiting", "checked"}
  BY <1>2, <1>3 DEF EntryFits, FadesAt, CurrentLease
<1> QED BY <1>2, <1>4, <1>5 DEF EntryFits, FadesAt

\* An acquisition that holds op finds its entry as it left it.
LEMMA AcquiringKept ==
    ASSUME TypeOK, Fades, NEW s \in Streams, AcquiringFits(s),
           acq'[s] = acq[s] \/ acq'[s] = "none",
           acq[s] # "none" => EntryOf(s)' = EntryOf(s),
           AcqHolds(s) => entries'[EntryOf(s)].lease = entries[EntryOf(s)].lease,
           AcqHolds(s) /\ entries'[EntryOf(s)].scroll => entries[EntryOf(s)].scroll
    PROVE  AcquiringFits(s)'
<1> SUFFICES ASSUME acq'[s] = acq[s], acq[s] # "none" PROVE AcquiringFits(s)'
  BY DEF AcquiringFits
<1>1. CASE ~AcqHolds(s)
  BY <1>1 DEF AcquiringFits, AcqHolds
<1>2. CASE AcqHolds(s)
  <2>1. CurrentLease(s)' = CurrentLease(s)
    BY <1>2 DEF CurrentLease
  <2>2. CurrentLease(s) # None => FadesAt(CurrentLease(s))
    BY Typed DEF Fades, CurrentLease, AcquiringFits
  <2>3. AcquiringFits(s) /\ EntryOf(s)' = EntryOf(s)
    OBVIOUS
  <2> HIDE DEF CurrentLease, EntryOf
  <2> QED BY <1>2, <2>1, <2>2, <2>3 DEF AcquiringFits, FadesAt
<1> QED BY <1>1, <1>2

LEMMA ReadingKept ==
    ASSUME TypeOK, Fades, NEW s \in Streams, ResizingFits(s),
           reader'[s] = reader[s] \/ reader'[s].stage = "idle",
           ReaderHolds(s) => CurrentLease(s)' = CurrentLease(s)
    PROVE  ResizingFits(s)'
<1> SUFFICES ASSUME reader'[s] = reader[s], reader[s].stage # "idle" PROVE ResizingFits(s)'
  BY DEF ResizingFits
<1>1. FadesAt(reader[s].lease)
  BY Typed DEF Fades, ResizingFits
<1> HIDE DEF CurrentLease
<1> QED BY <1>1 DEF ResizingFits, FadesAt, ReaderHolds

LEMMA ReleasingKept ==
    ASSUME TypeOK, LeasesFit, Fades, LetsGo, NEW l \in Leases, ReleasingFits(l),
           rel'[l] = rel[l],
           \A m \in Leases : rel[l]["closer"] # "no" /\ rel'[m]["closer"] # "no"
                              /\ leases[m].holder = leases[l].holder => rel[m]["closer"] # "no",
           rel[l]["reader"] # "no" => reader'[leases[l].holder] = reader[leases[l].holder],
           rel[l]["closer"] # "no" =>
              streams'[leases[l].holder].removal = streams[leases[l].holder].removal,
           \A c \in Sources : RelHolds(l, c) =>
              entries'[leases[l].entry].lease = entries[leases[l].entry].lease
    PROVE  ReleasingFits(l)'
<1>1. FadesAt(l) /\ LeaseFits(l) /\ \A m \in Leases : leases'[m].holder = leases[m].holder
  BY DEF Fades, FadesAt, LeasesFit
<1>2. rel[l]["done"] \in {"publish", "over"} => entries'[leases[l].entry].lease # l
  <2>1. {"done"} \subseteq Sources
    BY DEF Sources
  <2> QED BY <1>1, <2>1, Bounds DEF ReleasingFits, LeaseFits, LetsGo
<1>3. \A c \in Sources : /\ rel[l][c] # "no" => Taken(l)' /\ leases'[l].revoked
                         /\ rel[l][c] = "stop" => entries'[leases[l].entry].lease = l
                                                  /\ leases'[l].controller # "live"
  BY <1>1 DEF ReleasingFits, FadesAt, Taken, RelHolds
<1> QED BY <1>1, <1>2, <1>3 DEF ReleasingFits, FadesAt

LEMMA RegistryKept ==
    ASSUME RegistryOwnsScroll,
           \A s \in Streams : /\ EntryOf(s)' = EntryOf(s)
                              /\ streams'[s].removal = "over" <=> streams[s].removal = "over",
           \A e \in Entries : /\ entries'[e].refs = entries[e].refs
                              /\ entries'[e].scroll => entries[e].scroll \/ entries[e].refs # 0
    PROVE  RegistryOwnsScroll'
<1>1. ASSUME NEW e \in Entries
      PROVE  {s \in Streams : EntryOf(s) = e /\ streams[s].removal # "over"}' =
             {s \in Streams : EntryOf(s) = e /\ streams[s].removal # "over"}
  BY DEF EntryOf
<1> QED BY <1>1 DEF RegistryOwnsScroll

LEMMA ReportsKept ==
    ASSUME TypeOK, ReportsFit, UNCHANGED <<target, observer, reports>>,
           \A l \in Leases : Taken(l) => leases'[l].holder = leases[l].holder,
           \A s \in Streams : reader'[s].stage \in {"writing", "written"} => reader'[s] = reader[s]
    PROVE  ReportsFit'
<1>1. \A l \in Leases : TargetFits(l)'
  BY DEF ReportsFit, TargetFits
<1>2. ASSUME NEW s \in Streams PROVE ObserverFits(s)'
  <2>1. ObserverFits(s) /\ observer[s].lease \in Leases \cup {None}
    BY Typed DEF ReportsFit
  <2>2. observer[s].lease # None => Taken(observer[s].lease)
    BY <2>1, Bounds DEF ObserverFits, Taken
  <2> QED BY <2>1, <2>2 DEF ObserverFits
<1>3. \A s \in Streams : WriterFits(s)'
  BY DEF ReportsFit, WriterFits
<1> QED BY <1>1, <1>2, <1>3 DEF ReportsFit

LEMMA WireKept ==
    ASSUME TypeOK, WireFits, LeasesFit, UNCHANGED <<target, wire>>,
           \A l \in Leases : Taken(l) => leases'[l].entry = leases[l].entry,
           \A s \in Streams : reader'[s].stage = "writing" => reader'[s] = reader[s]
    PROVE  WireFits'
<1> SUFFICES ASSUME NEW e \in Entries PROVE WireFitsAt(e)'
  BY DEF WireFits
<1>1. WireFitsAt(e) /\ wire[e].lease \in Leases \cup {None}
  BY Typed DEF WireFits
<1>2. wire[e].lease # None => Taken(wire[e].lease)
  BY <1>1, Bounds DEF WireFitsAt, LeasesFit, LeaseFits
<1> QED BY <1>1, <1>2 DEF WireFitsAt

LEMMA ToldKept ==
    ASSUME TypeOK, ToldFits, StreamsFit, LeasesFit, EntriesFit, UNCHANGED told,
           \A s \in Streams : streams'[s].listed => streams[s].listed,
           \A s \in Streams : EntryOf(s)' = EntryOf(s),
           \A e \in Entries : entries'[e].lease = entries[e].lease \/ entries'[e].lease = None,
           \A l \in Leases : /\ leases'[l].holder = leases[l].holder
                             /\ leases'[l].confirmed = leases[l].confirmed
                             /\ leases[l].revoked => leases'[l].revoked,
           \A s \in Streams : acq[s] = "answer" => acq'[s] = "answer",
           \A s \in Streams : acq[s] \in {"opening", "waiting", "checked", "failing"} =>
              acq'[s] \in {"opening", "waiting", "checked", "failing"},
           \A l \in Leases, c \in Sources : rel[l][c] \in Running =>
              rel'[l][c] \in Running \/ \A e \in Entries : entries'[e].lease # l
    PROVE  ToldFits'
<1> SUFFICES ASSUME NEW s \in Streams, streams'[s].listed, CurrentLease(s)' # None,
                    leases'[CurrentLease(s)'].confirmed <=> ~leases'[CurrentLease(s)'].revoked
             PROVE  (told[s] = View(s) \/ AboutToTell(s, CurrentLease(s)))'
  BY DEF ToldFits, ToldFitsTo
<1> DEFINE l == CurrentLease(s)
<1>1. streams[s].listed /\ EntryOf(s) \in Entries /\ CurrentLease(s)' = l /\ l \in Leases
  BY Typed DEF StreamsFit, EntryOf, CurrentLease
<1>2. leases[l].holder \in Streams
  BY <1>1, InEntry DEF CurrentLease
<1>3. CASE leases[l].revoked <=> leases'[l].revoked
  <2>1. View(s)' = View(s)
    BY <1>1, <1>3 DEF View
  <2>2. AboutToTell(s, l) => AboutToTell(s, CurrentLease(s))'
    <3> SUFFICES ASSUME AboutToTell(s, l) PROVE AboutToTell(s, CurrentLease(s))'
      OBVIOUS
    <3>1. \A t \in Streams : EntryOf(t)' = EntryOf(t)
      OBVIOUS
    <3>2. entries'[EntryOf(s)].lease = l
      BY <1>1 DEF CurrentLease
    <3> HIDE DEF l, EntryOf, CurrentLease
    <3> QED BY <1>1, <1>2, <1>3, <3>1, <3>2 DEF AboutToTell
  <2>3. leases[l].confirmed <=> ~leases[l].revoked
    BY <1>1, <1>3
  <2> QED BY <1>1, <2>1, <2>2, <2>3 DEF ToldFits, ToldFitsTo
<1>4. CASE ~leases[l].revoked /\ leases'[l].revoked
  <2>1. ~leases[l].confirmed
    BY <1>1, <1>4
  <2>2. acq[leases[l].holder] \in {"opening", "waiting", "checked"}
    BY <1>1, <1>4, <2>1 DEF EntriesFit, EntryFits, CurrentLease
  <2> QED BY <1>1, <1>2, <1>4, <2>2 DEF AboutToTell
<1> QED BY <1>1, <1>3, <1>4

\* The parts of the invariant that a step keeps which opens nothing and takes
\* no lease from an entry whose op another call holds.
LEMMA PartsKept ==
    ASSUME TypeOK, StreamsFit, LeasesFit, EntriesFit, AcquireFits, ReaderFits, Fades, LetsGo,
           \A s \in Streams :
              /\ EntryOf(s)' = EntryOf(s)
              /\ streams'[s].listed => streams[s].listed /\ streams'[s].removal = streams[s].removal
              /\ streams'[s].removal # "no" => streams[s].removal # "no" \/ streams[s].listed,
           \A e \in Entries : entries'[e].scroll => entries[e].scroll \/ entries[e].lease = None,
           \A s \in Streams : acq[s] \in {"opening", "waiting", "checked"} =>
              \/ acq'[s] \in {"opening", "waiting", "checked"}
              \/ CurrentLease(s) # None => leases'[CurrentLease(s)].revoked,
           \A s \in Streams : \/ AcquiringFits(s)'
                              \/ /\ acq'[s] = acq[s] \/ acq'[s] = "none"
                                 /\ AcqHolds(s) => CurrentLease(s)' = CurrentLease(s)
                                 /\ AcqHolds(s) /\ entries'[EntryOf(s)].scroll => entries[EntryOf(s)].scroll,
           \A s \in Streams : \/ ResizingFits(s)'
                              \/ /\ reader'[s] = reader[s] \/ reader'[s].stage = "idle"
                                 /\ ReaderHolds(s) => CurrentLease(s)' = CurrentLease(s)
    PROVE  StreamsFit' /\ LeasesFit' /\ EntriesFit' /\ AcquireFits' /\ ReaderFits'
<1>1. StreamsFit'
  BY StreamsKept
<1>2. LeasesFit'
  BY LeasesKept
<1>3. EntriesFit'
  BY EntriesKept
<1>4. ASSUME NEW s \in Streams, ~AcquiringFits(s)' PROVE AcquiringFits(s)'
  <2>1. AcquiringFits(s) /\ EntryOf(s)' = EntryOf(s)
    BY DEF AcquireFits
  <2>2. AcqHolds(s) => entries'[EntryOf(s)].lease = entries[EntryOf(s)].lease
    BY <1>4, <2>1 DEF CurrentLease
  <2>3. AcqHolds(s) /\ entries'[EntryOf(s)].scroll => entries[EntryOf(s)].scroll
    BY <1>4
  <2>4. acq'[s] = acq[s] \/ acq'[s] = "none"
    BY <1>4
  <2> QED BY <2>1, <2>2, <2>3, <2>4, AcquiringKept
<1>5. ASSUME NEW s \in Streams, ~ResizingFits(s)' PROVE ResizingFits(s)'
  <2>1. ResizingFits(s)
    BY DEF ReaderFits
  <2> QED BY <1>5, <2>1, ReadingKept
<1> QED BY <1>1, <1>2, <1>3, <1>4, <1>5 DEF AcquireFits, ReaderFits

LEMMA ReleaseKept ==
    ASSUME TypeOK, LeasesFit, ReleaseFits, Fades, LetsGo, rel' = rel,
           \A s \in Streams : /\ reader[s].stage = "release" => reader'[s] = reader[s]
                              /\ streams[s].removal = "release" => streams'[s].removal = "release",
           \A l \in Leases, c \in Sources : RelHolds(l, c) =>
              entries'[leases[l].entry].lease = entries[leases[l].entry].lease
    PROVE  ReleaseFits'
<1> SUFFICES ASSUME NEW l \in Leases PROVE ReleasingFits(l)'
  BY DEF ReleaseFits
<1>1. ReleasingFits(l) /\ LeaseFits(l)
  BY DEF ReleaseFits, LeasesFit
<1>2. \A c \in Sources : rel[l][c] # "no" => leases[l].holder \in Streams
  BY <1>1, Typed DEF ReleasingFits, Taken
<1>3. rel[l]["reader"] # "no" => reader'[leases[l].holder] = reader[leases[l].holder]
  BY <1>1, <1>2 DEF ReleasingFits, Sources
<1>4. rel[l]["closer"] # "no" =>
         streams'[leases[l].holder].removal = streams[leases[l].holder].removal
  BY <1>1, <1>2 DEF ReleasingFits, Sources
<1> QED BY <1>1, <1>3, <1>4, ReleasingKept

(***************************************************************************)
(* The steps.                                                              *)
(***************************************************************************)
\* A step that only lets leases fade.
LEMMA FadingKeeps ==
    ASSUME IInv, TypeOK', Fades,
           UNCHANGED <<entries, acq, reader, rel, target, observer, wire, reports, told>>,
           \A s \in Streams : /\ EntryOf(s)' = EntryOf(s)
                              /\ streams'[s].listed = streams[s].listed
                              /\ streams'[s].removal = streams[s].removal
    PROVE  IInv'
<1> USE DEF IInv, ControlFits
<1>1. LetsGo /\ \A s \in Streams : CurrentLease(s)' = CurrentLease(s)
  BY DEF LetsGo, CurrentLease
<1>2. \A l \in Leases : /\ leases'[l].holder = leases[l].holder /\ leases'[l].entry = leases[l].entry
                        /\ leases'[l].confirmed = leases[l].confirmed
                        /\ leases[l].revoked => leases'[l].revoked
  BY DEF Fades, FadesAt
<1>3. OpExclusive'
  BY <1>2, OpKept DEF AcqHolds, ReaderHolds, RelHolds
<1>4. StreamsFit' /\ LeasesFit' /\ EntriesFit' /\ AcquireFits' /\ ReaderFits'
  BY <1>1, PartsKept
<1>5. ReleaseFits'
  BY <1>1, ReleaseKept
<1>6. RegistryOwnsScroll' /\ ReportsFit' /\ WireFits'
  BY <1>2, RegistryKept, ReportsKept, WireKept
<1>7. ToldFits'
  BY <1>2, ToldKept
<1> QED BY <1>3, <1>4, <1>5, <1>6, <1>7

LEMMA CloseStreamKeeps ==
    ASSUME IInv, NEW s \in Streams, CloseStream(s)
    PROVE  IInv'
<1> DEFINE r == [streams[s] EXCEPT !.closed = TRUE]
<1>1. /\ UNCHANGED <<runtime, entries, leases, rel, acq, reader, target, observer, wire, reports, told>>
      /\ streams' = [streams EXCEPT ![s] = r]
  BY DEF CloseStream, registryVars, controlVars, resizeVars
<1>2. streams \in [Streams -> StreamType] /\ streams[s] \in StreamType
  BY DEF IInv, TypeOK
<1>3. /\ r \in StreamType /\ r.entry = streams[s].entry
      /\ r.listed = streams[s].listed /\ r.removal = streams[s].removal
  BY <1>2 DEF StreamType
<1> HIDE DEF r
<1>4. TypeOK'
  BY <1>1, <1>2, <1>3 DEF IInv, TypeOK
<1>5. \A t \in Streams : /\ EntryOf(t)' = EntryOf(t)
                         /\ streams'[t].listed = streams[t].listed
                         /\ streams'[t].removal = streams[t].removal
  BY <1>1, <1>2, <1>3 DEF EntryOf
<1>6. Fades
  BY <1>1, SameLeasesFade DEF IInv
<1> QED BY <1>1, <1>4, <1>5, <1>6, FadingKeeps

LEMMA SessionEndsKeeps ==
    ASSUME IInv, NEW s \in Streams, SessionEnds(s)
    PROVE  IInv'
<1> DEFINE r == [streams[s] EXCEPT !.up = FALSE]
<1>1. /\ UNCHANGED <<runtime, entries, rel, acq, reader, target, observer, wire, reports, told>>
      /\ streams' = [streams EXCEPT ![s] = r]
      /\ leases' = [l \in Leases |-> IF leases[l].holder = s
                                     THEN [leases[l] EXCEPT !.cancelled = TRUE] ELSE leases[l]]
  BY DEF SessionEnds, registryVars, controlVars, resizeVars
<1>2. /\ streams \in [Streams -> StreamType] /\ streams[s] \in StreamType
      /\ leases \in [Leases -> LeaseType]
  BY DEF IInv, TypeOK
<1>3. /\ r \in StreamType /\ r.entry = streams[s].entry
      /\ r.listed = streams[s].listed /\ r.removal = streams[s].removal
  BY <1>2 DEF StreamType
<1> HIDE DEF r
<1>4. ASSUME NEW l \in Leases
      PROVE  leases'[l] \in LeaseType /\ FadesAt(l)
  <2>1. leases[l] \in LeaseType
    BY <1>2
  <2>2. CASE leases[l].holder = s
    <3>1. leases'[l] = [leases[l] EXCEPT !.cancelled = TRUE]
      BY <1>1, <2>2
    <3> QED BY <2>1, <3>1 DEF LeaseType, FadesAt
  <2>3. CASE leases[l].holder # s
    BY <1>1, <2>1, <2>3 DEF FadesAt
  <2> QED BY <2>2, <2>3
<1>5. leases' \in [Leases -> LeaseType]
  BY <1>1, <1>4
<1>6. TypeOK'
  BY <1>1, <1>2, <1>3, <1>5 DEF IInv, TypeOK
<1>7. \A t \in Streams : /\ EntryOf(t)' = EntryOf(t)
                         /\ streams'[t].listed = streams[t].listed
                         /\ streams'[t].removal = streams[t].removal
  BY <1>1, <1>2, <1>3 DEF EntryOf
<1>8. Fades
  BY <1>4 DEF Fades
<1> QED BY <1>1, <1>6, <1>7, <1>8, FadingKeeps

LEMMA RuntimeChangesKeeps ==
    ASSUME IInv, RuntimeChanges
    PROVE  IInv'
<1>1. /\ UNCHANGED <<entries, leases, rel, acq, reader, streams, target, observer, wire, reports, told>>
      /\ runtime < MaxRuntime /\ runtime' = runtime + 1
  BY DEF RuntimeChanges, controlVars, resizeVars
<1>2. TypeOK'
  BY <1>1, Bounds DEF IInv, TypeOK
<1>3. Fades
  BY <1>1, SameLeasesFade DEF IInv
<1> QED BY <1>1, <1>2, <1>3, FadingKeeps DEF EntryOf

\* A step of one lease alone.
LEMMA LeaseFadesKeeps ==
    ASSUME IInv, NEW l \in Leases, NEW r \in LeaseType, leases' = [leases EXCEPT ![l] = r],
           FadesAt(l),
           UNCHANGED <<runtime, entries, acq, reader, rel, streams, target, observer, wire, reports, told>>
    PROVE  IInv'
<1>1. leases \in [Leases -> LeaseType]
  BY DEF IInv, TypeOK
<1>2. TypeOK'
  BY <1>1 DEF IInv, TypeOK
<1>3. Fades
  BY <1>1 DEF Fades, FadesAt
<1> QED BY <1>2, <1>3, FadingKeeps DEF EntryOf

LEMMA ContextStopsKeeps ==
    ASSUME IInv, NEW l \in Leases, ContextStops(l)
    PROVE  IInv'
<1> DEFINE r == [leases[l] EXCEPT !.controller = "closing"]
<1>1. /\ UNCHANGED <<runtime, entries, acq, reader, rel, streams, target, observer, wire, reports, told>>
      /\ leases' = [leases EXCEPT ![l] = r] /\ leases[l].controller = "live"
  BY DEF ContextStops, registryVars, resizeVars
<1>2. leases \in [Leases -> LeaseType] /\ leases[l] \in LeaseType
  BY DEF IInv, TypeOK
<1>3. r \in LeaseType /\ FadesAt(l)
  BY <1>1, <1>2 DEF LeaseType, FadesAt
<1> QED BY <1>1, <1>3, LeaseFadesKeeps

LEMMA ControllerEndsKeeps ==
    ASSUME IInv, NEW l \in Leases, ControllerEnds(l)
    PROVE  IInv'
<1> DEFINE r == [leases[l] EXCEPT !.controller = "done"]
<1>1. /\ UNCHANGED <<runtime, entries, acq, reader, rel, streams, target, observer, wire, reports, told>>
      /\ leases' = [leases EXCEPT ![l] = r] /\ leases[l].controller \in {"live", "closing"}
  BY DEF ControllerEnds, registryVars, resizeVars
<1>2. leases \in [Leases -> LeaseType] /\ leases[l] \in LeaseType
  BY DEF IInv, TypeOK
<1>3. r \in LeaseType /\ FadesAt(l)
  BY <1>1, <1>2 DEF LeaseType, FadesAt
<1> QED BY <1>1, <1>3, LeaseFadesKeeps

LEMMA AttachTimesOutKeeps ==
    ASSUME IInv, NEW s \in Streams, AttachTimesOut(s)
    PROVE  IInv'
<1> DEFINE l == CurrentLease(s)
           r == [leases[l] EXCEPT !.cancelled = TRUE]
<1>1. /\ UNCHANGED <<runtime, entries, acq, reader, rel, streams, target, observer, wire, reports, told>>
      /\ leases' = [leases EXCEPT ![l] = r] /\ acq[s] \in {"opening", "waiting"}
  BY DEF AttachTimesOut, registryVars, resizeVars
<1>2. leases \in [Leases -> LeaseType] /\ l \in Leases
  BY <1>1, Typed DEF IInv, ControlFits, AcquireFits, AcquiringFits, TypeOK, CurrentLease
<1> HIDE DEF l
<1>3. r \in LeaseType /\ FadesAt(l)
  BY <1>1, <1>2 DEF LeaseType, FadesAt
<1> QED BY <1>1, <1>2, <1>3, LeaseFadesKeeps

(***************************************************************************)
(* Acquisitions.                                                           *)
(***************************************************************************)
\* Whoever holds the op of an entry, or finds it free, is alone there.
LEMMA OthersWait ==
    ASSUME OpExclusive, NEW s \in Streams, AcqHolds(s) \/ ~Busy(EntryOf(s))
    PROVE  /\ \A t \in Streams \ {s} : EntryOf(t) = EntryOf(s) => ~AcqHolds(t)
           /\ \A t \in Streams : EntryOf(t) = EntryOf(s) => ~ReaderHolds(t)
           /\ \A l \in Leases, c \in Sources : leases[l].entry = EntryOf(s) => ~RelHolds(l, c)
<1>1. CASE AcqHolds(s)
  <2> HIDE DEF EntryOf, AcqHolds, ReaderHolds, RelHolds
  <2> QED BY <1>1 DEF OpExclusive
<1>2. CASE ~Busy(EntryOf(s))
  BY <1>2 DEF Busy, AcqHolds, ReaderHolds, RelHolds
<1> QED BY <1>1, <1>2

LEMMA OpTakenByAcquire ==
    ASSUME OpExclusive, NEW s \in Streams, AcqHolds(s) \/ ~Busy(EntryOf(s)),
           \A t \in Streams : /\ EntryOf(t)' = EntryOf(t)
                              /\ t # s => acq'[t] = acq[t],
           UNCHANGED <<reader, rel>>,
           \A l \in Leases : leases'[l].entry = leases[l].entry
    PROVE  OpExclusive'
<1>1. /\ \A t \in Streams \ {s} : EntryOf(t) = EntryOf(s) => ~AcqHolds(t)
      /\ \A t \in Streams : EntryOf(t) = EntryOf(s) => ~ReaderHolds(t)
      /\ \A l \in Leases, c \in Sources : leases[l].entry = EntryOf(s) => ~RelHolds(l, c)
  BY OthersWait
<1>2. \A t \in Streams : /\ t # s => (AcqHolds(t)' <=> AcqHolds(t))
                         /\ ReaderHolds(t)' <=> ReaderHolds(t)
  BY DEF AcqHolds, ReaderHolds
<1>3. \A l \in Leases, c \in Sources : RelHolds(l, c)' <=> RelHolds(l, c)
  BY DEF RelHolds
<1> HIDE DEF EntryOf, AcqHolds, ReaderHolds, RelHolds
<1> QED BY <1>1, <1>2, <1>3 DEF OpExclusive

\* A step of one acquisition, which may touch its entry only if it holds op.
LEMMA AcquisitionKeeps ==
    ASSUME IInv, TypeOK', NEW s \in Streams, Fades, LetsGo,
           UNCHANGED <<streams, reader, rel, target, observer, wire, reports>>,
           \A t \in Streams \ {s} : acq'[t] = acq[t],
           AcqHolds(s)' => AcqHolds(s) \/ ~Busy(EntryOf(s)),
           \A e \in Entries : /\ entries'[e].refs = entries[e].refs
                              /\ entries'[e].scroll => entries[e].scroll
                              /\ e # EntryOf(s) => entries'[e] = entries[e],
           AcqHolds(s) \/ ~Busy(EntryOf(s)) \/ UNCHANGED entries,
           acq[s] \in {"opening", "waiting", "checked"} =>
              \/ acq'[s] \in {"opening", "waiting", "checked"}
              \/ CurrentLease(s) # None => leases'[CurrentLease(s)].revoked,
           AcquiringFits(s)', ToldFits'
    PROVE  IInv'
<1> USE DEF IInv, ControlFits
<1>1. \A l \in Leases : /\ leases'[l].holder = leases[l].holder /\ leases'[l].entry = leases[l].entry
  BY DEF Fades, FadesAt
<1>2. \A t \in Streams : EntryOf(t)' = EntryOf(t) /\ EntryOf(t) \in Entries \cup {None}
  BY Typed DEF EntryOf
<1>3. OpExclusive'
  <2>1. CASE AcqHolds(s)'
    BY <1>1, <1>2, <2>1, OpTakenByAcquire
  <2>2. CASE ~AcqHolds(s)'
    <3>1. \A t \in Streams : AcqHolds(t)' => AcqHolds(t)
      BY <2>2 DEF AcqHolds
    <3> QED BY <1>1, <1>2, <3>1, OpKept DEF ReaderHolds, RelHolds
  <2> QED BY <2>1, <2>2
<1>4. \A t \in Streams \ {s} : AcqHolds(t) =>
         CurrentLease(t)' = CurrentLease(t) /\ (entries'[EntryOf(t)].scroll => entries[EntryOf(t)].scroll)
  <2> SUFFICES ASSUME NEW t \in Streams \ {s}, AcqHolds(t)
               PROVE  entries'[EntryOf(t)] = entries[EntryOf(t)]
    BY <1>2 DEF CurrentLease
  <2>1. EntryOf(t) \in Entries
    BY DEF AcquireFits, AcquiringFits, AcqHolds
  <2> QED BY <2>1, OthersWait
<1>5. \A t \in Streams : ReaderHolds(t) => CurrentLease(t)' = CurrentLease(t)
  <2> SUFFICES ASSUME NEW t \in Streams, ReaderHolds(t)
               PROVE  entries'[EntryOf(t)].lease = entries[EntryOf(t)].lease
    BY <1>2 DEF CurrentLease
  <2>1. EntryOf(t) \in Entries
    BY Typed, Bounds DEF ReaderFits, ResizingFits, ReaderHolds, LeasesFit, LeaseFits, Taken
  <2> QED BY <2>1, OthersWait
<1>6. \A l \in Leases, c \in Sources : RelHolds(l, c) =>
         entries'[leases[l].entry].lease = entries[leases[l].entry].lease
  <2> SUFFICES ASSUME NEW l \in Leases, NEW c \in Sources, RelHolds(l, c)
               PROVE  entries'[leases[l].entry] = entries[leases[l].entry]
    OBVIOUS
  <2>1. leases[l].entry \in Entries
    BY DEF ReleaseFits, ReleasingFits, RelHolds, LeasesFit, LeaseFits
  <2> QED BY <2>1, OthersWait
<1>7. StreamsFit' /\ LeasesFit' /\ EntriesFit' /\ AcquireFits' /\ ReaderFits'
  BY <1>2, <1>4, <1>5, PartsKept
<1>8. ReleaseFits'
  BY <1>6, ReleaseKept
<1>9. RegistryOwnsScroll' /\ ReportsFit' /\ WireFits'
  BY <1>1, <1>2, RegistryKept, ReportsKept, WireKept
<1> QED BY <1>3, <1>7, <1>8, <1>9

\* What the lease of the entry of an acquiring stream is.
LEMMA Acquiring ==
    ASSUME IInv, NEW s \in Streams, acq[s] # "none"
    PROVE  /\ EntryOf(s) \in Entries /\ CurrentLease(s) \in Leases \cup {None}
           /\ CurrentLease(s) # None =>
                 /\ Taken(CurrentLease(s)) /\ leases[CurrentLease(s)].entry = EntryOf(s)
                 /\ CurrentLease(s) \in Leases
           /\ leases \in [Leases -> LeaseType] /\ entries \in [Entries -> EntryType]
           /\ acq \in [Streams -> AcquireStages]
           /\ AcquiringFits(s)
<1> USE DEF IInv, ControlFits
<1>1. EntryOf(s) \in Entries /\ AcquiringFits(s)
  BY DEF AcquireFits, AcquiringFits
<1>2. CurrentLease(s) \in Leases \cup {None}
  BY <1>1, Typed DEF CurrentLease
<1>3. leases \in [Leases -> LeaseType] /\ entries \in [Entries -> EntryType]
      /\ acq \in [Streams -> AcquireStages]
  BY DEF TypeOK
<1> QED BY <1>1, <1>2, <1>3, InEntry DEF CurrentLease

\* The told part of a step of an acquisition that publishes nothing.
LEMMA AcquisitionTells ==
    ASSUME IInv, NEW s \in Streams, Fades, LetsGo, UNCHANGED <<streams, rel, told>>,
           \A t \in Streams \ {s} : acq'[t] = acq[t],
           acq[s] # "answer",
           acq[s] \in {"opening", "waiting", "checked", "failing"} =>
              acq'[s] \in {"opening", "waiting", "checked", "failing"}
    PROVE  ToldFits'
<1>1. \A l \in Leases : /\ leases'[l].holder = leases[l].holder
                        /\ leases'[l].confirmed = leases[l].confirmed
                        /\ leases[l].revoked => leases'[l].revoked
  BY DEF Fades, FadesAt
<1>2. \A t \in Streams : /\ acq[t] = "answer" => acq'[t] = "answer"
                         /\ acq[t] \in {"opening", "waiting", "checked", "failing"} =>
                               acq'[t] \in {"opening", "waiting", "checked", "failing"}
  OBVIOUS
<1>3. \A t \in Streams : EntryOf(t)' = EntryOf(t)
  BY DEF EntryOf
<1>4. \A e \in Entries : entries'[e].lease = entries[e].lease \/ entries'[e].lease = None
  BY DEF LetsGo
<1> QED BY <1>1, <1>2, <1>3, <1>4, ToldKept DEF IInv, ControlFits

LEMMA RequestAcquireKeeps ==
    ASSUME IInv, NEW s \in Streams, RequestAcquire(s)
    PROVE  IInv'
<1>1. /\ UNCHANGED <<runtime, entries, leases, streams, reader, rel, target, observer, wire, reports, told>>
      /\ acq[s] = "none" /\ acq' = [acq EXCEPT ![s] = "wait"] /\ streams[s].listed
  BY DEF RequestAcquire, SetAcq, registryVars, resizeVars
<1>2. acq \in [Streams -> AcquireStages] /\ EntryOf(s) \in Entries
  BY <1>1, Typed DEF IInv, TypeOK, ControlFits, StreamsFit, EntryOf
<1>3. TypeOK'
  BY <1>1, <1>2 DEF IInv, TypeOK, AcquireStages
<1>4. Fades /\ LetsGo
  BY <1>1, SameLeasesFade DEF IInv, LetsGo
<1>5. acq'[s] = "wait" /\ \A t \in Streams \ {s} : acq'[t] = acq[t]
  BY <1>1, <1>2
<1>6. AcquiringFits(s)'
  BY <1>1, <1>2, <1>5 DEF AcquiringFits, EntryOf
<1>7. ToldFits'
  BY <1>1, <1>4, <1>5, AcquisitionTells
<1> QED BY <1>1, <1>3, <1>4, <1>5, <1>6, <1>7, AcquisitionKeeps DEF AcqHolds

LEMMA StartAcquireKeeps ==
    ASSUME IInv, NEW s \in Streams, StartAcquire(s)
    PROVE  IInv'
<1> DEFINE l == CurrentLease(s)
           e == EntryOf(s)
<1>1. /\ UNCHANGED <<runtime, streams, reader, rel, target, observer, wire, reports, told>>
      /\ acq[s] = "wait" /\ ~Busy(e)
  BY DEF StartAcquire, resizeVars
<1>2. /\ e \in Entries /\ l \in Leases \cup {None}
      /\ l # None => Taken(l) /\ leases[l].entry = e /\ l \in Leases
      /\ leases \in [Leases -> LeaseType] /\ entries \in [Entries -> EntryType]
      /\ acq \in [Streams -> AcquireStages]
  BY <1>1, Acquiring
<1>3. SUFFICES ASSUME NEW stage \in {"none", "stopping", "clear"}, acq' = [acq EXCEPT ![s] = stage],
                      Fades, LetsGo, leases' \in [Leases -> LeaseType],
                      entries' \in [Entries -> EntryType],
                      \A f \in Entries : /\ entries'[f].refs = entries[f].refs
                                         /\ entries'[f].scroll => entries[f].scroll
                                         /\ f # e => entries'[f] = entries[f],
                      AcquiringFits(s)'
               PROVE  IInv'
  <2> SUFFICES \E stage \in {"none", "stopping", "clear"} :
                  /\ acq' = [acq EXCEPT ![s] = stage]
                  /\ Fades /\ LetsGo /\ leases' \in [Leases -> LeaseType]
                  /\ entries' \in [Entries -> EntryType]
                  /\ \A f \in Entries : /\ entries'[f].refs = entries[f].refs
                                        /\ entries'[f].scroll => entries[f].scroll
                                        /\ f # e => entries'[f] = entries[f]
                  /\ AcquiringFits(s)'
    OBVIOUS
  <2>1. CASE acq' = [acq EXCEPT ![s] = "none"] /\ UNCHANGED <<entries, leases>>
    <3>1. Fades /\ LetsGo
      BY <2>1, SameLeasesFade DEF IInv, LetsGo
    <3>2. AcquiringFits(s)'
      BY <1>2, <2>1 DEF AcquiringFits
    <3> QED BY <1>2, <2>1, <3>1, <3>2
  <2>2. CASE l # None /\ acq' = [acq EXCEPT ![s] = "stopping"] /\ leases' = Stopping(l) /\ UNCHANGED entries
    <3>1. /\ Fades /\ LetsGo /\ leases' \in [Leases -> LeaseType]
          /\ leases'[l].revoked /\ leases'[l].controller # "live"
      BY <1>2, <2>2, StoppingFades DEF IInv, LetsGo
    <3>2. CurrentLease(s)' = l /\ EntryOf(s)' = e
      BY <1>1, <2>2 DEF CurrentLease, EntryOf
    <3>3. AcquiringFits(s)'
      BY <1>2, <2>2, <3>1, <3>2 DEF AcquiringFits
    <3> QED BY <1>2, <2>2, <3>1, <3>3
  <2>3. CASE /\ l = None /\ acq' = [acq EXCEPT ![s] = "clear"] /\ UNCHANGED leases
             /\ entries' = [entries EXCEPT ![e].scroll = FALSE]
    <3>1. /\ entries' \in [Entries -> EntryType] /\ \A f \in Entries \ {e} : entries'[f] = entries[f]
          /\ entries'[e] = [entries[e] EXCEPT !.scroll = FALSE]
      BY <1>2, <2>3 DEF EntryType
    <3>2. /\ entries'[e].refs = entries[e].refs /\ entries'[e].lease = entries[e].lease
          /\ ~entries'[e].scroll
      BY <1>2, <3>1 DEF EntryType
    <3>3. Fades /\ LetsGo
      BY <2>3, <3>1, <3>2, SameLeasesFade DEF IInv, LetsGo
    <3>4. CurrentLease(s)' = l /\ EntryOf(s)' = e
      BY <1>1, <3>2 DEF CurrentLease, EntryOf
    <3>5. AcquiringFits(s)'
      BY <1>2, <2>3, <3>2, <3>4 DEF AcquiringFits
    <3> QED BY <1>2, <2>3, <3>1, <3>2, <3>3, <3>5
  <2> QED BY <2>1, <2>2, <2>3 DEF StartAcquire, SetAcq
<1>4. TypeOK'
  BY <1>1, <1>2, <1>3 DEF IInv, TypeOK, AcquireStages
<1>5. acq'[s] = stage /\ \A t \in Streams \ {s} : acq'[t] = acq[t]
  BY <1>2, <1>3
<1>6. ToldFits'
  BY <1>1, <1>3, <1>5, AcquisitionTells
<1> QED BY <1>1, <1>3, <1>4, <1>5, <1>6, AcquisitionKeeps

LEMMA OldLeaseStoppedKeeps ==
    ASSUME IInv, NEW s \in Streams, OldLeaseStopped(s)
    PROVE  IInv'
<1> DEFINE l == CurrentLease(s)
           e == EntryOf(s)
           ended == Stopped(l)
           freed == ended[e].lease = None
           stage == IF freed /\ Unchanged(s) THEN "clear" ELSE "none"
<1>1. /\ UNCHANGED <<runtime, leases, streams, reader, rel, target, observer, wire, reports, told>>
      /\ acq[s] = "stopping" /\ acq' = [acq EXCEPT ![s] = stage]
      /\ entries' = [ended EXCEPT ![e].scroll = @ /\ ~freed]
  BY DEF OldLeaseStopped, SetAcq, resizeVars
<1>2. /\ e \in Entries /\ l \in Leases /\ leases[l].entry = e /\ l # None
      /\ entries \in [Entries -> EntryType] /\ acq \in [Streams -> AcquireStages]
  BY <1>1, Acquiring, Bounds DEF AcquiringFits
<1>3. /\ ended \in [Entries -> EntryType]
      /\ \A f \in Entries : /\ ended[f].refs = entries[f].refs /\ ended[f].scroll = entries[f].scroll
                            /\ f # e => ended[f] = entries[f]
      /\ \/ ended[e].lease = entries[e].lease
         \/ ended[e].lease = None /\ leases[l].controller \in {"none", "done"}
  <2>1. CASE ended = entries
    BY <1>2, <2>1
  <2>2. CASE /\ ended = [entries EXCEPT ![e] = [entries[e] EXCEPT !.lease = None]]
             /\ leases[l].controller \in {"none", "done"}
    <3>1. [entries[e] EXCEPT !.lease = None] \in EntryType
      BY <1>2, Bounds DEF EntryType
    <3>2. ended[e] = [entries[e] EXCEPT !.lease = None] /\ \A f \in Entries \ {e} : ended[f] = entries[f]
      BY <1>2, <2>2
    <3>3. ended[e].lease = None /\ ended[e].refs = entries[e].refs /\ ended[e].scroll = entries[e].scroll
      BY <1>2, <3>2 DEF EntryType
    <3> QED BY <1>2, <2>2, <3>1, <3>2, <3>3
  <2> QED BY <1>2, <2>1, <2>2 DEF Stopped
<1> HIDE DEF ended
<1>4. /\ entries' \in [Entries -> EntryType]
      /\ \A f \in Entries \ {e} : entries'[f] = ended[f]
      /\ entries'[e].lease = ended[e].lease /\ entries'[e].refs = ended[e].refs
      /\ entries'[e].scroll => ended[e].scroll /\ ~freed
  <2> DEFINE b == ended[e].scroll /\ ~freed
             r == [ended[e] EXCEPT !.scroll = b]
  <2>1. entries' = [ended EXCEPT ![e] = r]
    BY <1>1, <1>2, <1>3
  <2>2. ended[e] \in EntryType /\ b \in BOOLEAN
    BY <1>2, <1>3
  <2>3. r \in EntryType /\ r.lease = ended[e].lease /\ r.refs = ended[e].refs /\ (r.scroll <=> b)
    BY <2>2 DEF EntryType
  <2> HIDE DEF r
  <2> QED BY <1>2, <1>3, <2>1, <2>3
<1>5. Fades /\ LetsGo
  <2>1. Fades
    BY <1>1, SameLeasesFade DEF IInv
  <2>2. entries[e].lease = l
    BY DEF CurrentLease
  <2> QED BY <1>1, <1>2, <1>3, <1>4, <2>1, <2>2 DEF LetsGo
<1>6. acq'[s] = stage /\ stage \in {"none", "clear"} /\ \A t \in Streams \ {s} : acq'[t] = acq[t]
  BY <1>1, <1>2
<1>7. TypeOK'
  BY <1>1, <1>2, <1>4, <1>6 DEF IInv, TypeOK, AcquireStages
<1>8. AcquiringFits(s)'
  <2>1. CurrentLease(s)' = ended[e].lease /\ EntryOf(s)' = e
    BY <1>1, <1>4 DEF CurrentLease, EntryOf
  <2> QED BY <1>1, <1>2, <1>4, <1>6, <2>1 DEF AcquiringFits
<1>9. ToldFits'
  BY <1>1, <1>5, <1>6, AcquisitionTells
<1>10. \A f \in Entries : /\ entries'[f].refs = entries[f].refs
                          /\ entries'[f].scroll => entries[f].scroll
                          /\ f # e => entries'[f] = entries[f]
  BY <1>3, <1>4
<1> QED BY <1>1, <1>5, <1>6, <1>7, <1>8, <1>9, <1>10, AcquisitionKeeps DEF AcqHolds

LEMMA ControllerReadyKeeps ==
    ASSUME IInv, NEW s \in Streams, ControllerReady(s)
    PROVE  IInv'
<1> DEFINE l == CurrentLease(s)
<1>1. /\ UNCHANGED <<runtime, entries, leases, streams, reader, rel, target, observer, wire, reports, told>>
      /\ acq[s] = "waiting" /\ acq' = [acq EXCEPT ![s] = "checked"]
  BY DEF ControllerReady, SetAcq, registryVars, resizeVars
<1>2. acq \in [Streams -> AcquireStages] /\ AcquiringFits(s)
  BY <1>1, Acquiring
<1>3. acq'[s] = "checked" /\ \A t \in Streams \ {s} : acq'[t] = acq[t]
  BY <1>1, <1>2
<1>4. TypeOK'
  BY <1>1, <1>2 DEF IInv, TypeOK, AcquireStages
<1>5. Fades /\ LetsGo
  BY <1>1, SameLeasesFade DEF IInv, LetsGo
<1>6. AcquiringFits(s)'
  BY <1>1, <1>2, <1>3 DEF AcquiringFits, CurrentLease, EntryOf
<1>7. ToldFits'
  BY <1>1, <1>3, <1>5, AcquisitionTells
<1> QED BY <1>1, <1>3, <1>4, <1>5, <1>6, <1>7, AcquisitionKeeps DEF AcqHolds

LEMMA AcquireFailsKeeps ==
    ASSUME IInv, NEW s \in Streams, AcquireFails(s)
    PROVE  IInv'
<1> DEFINE l == CurrentLease(s)
<1>1. /\ UNCHANGED <<runtime, entries, streams, reader, rel, target, observer, wire, reports, told>>
      /\ acq[s] \in {"opening", "waiting"} /\ acq' = [acq EXCEPT ![s] = "failing"]
      /\ leases' = Stopping(l)
  BY DEF AcquireFails, SetAcq, registryVars, resizeVars
<1>2. /\ acq \in [Streams -> AcquireStages] /\ AcquiringFits(s)
      /\ l \in Leases /\ Taken(l)
  BY <1>1, Acquiring DEF AcquiringFits
<1>3. acq'[s] = "failing" /\ \A t \in Streams \ {s} : acq'[t] = acq[t]
  BY <1>1, <1>2
<1>4. /\ Fades /\ leases' \in [Leases -> LeaseType]
      /\ leases'[l].revoked /\ leases'[l].controller # "live"
  BY <1>1, <1>2, StoppingFades DEF IInv
<1>5. TypeOK'
  BY <1>1, <1>2, <1>4 DEF IInv, TypeOK, AcquireStages
<1>6. LetsGo
  BY <1>1 DEF LetsGo
<1>7. AcquiringFits(s)'
  <2>1. CurrentLease(s)' = l /\ EntryOf(s)' = EntryOf(s)
    BY <1>1 DEF CurrentLease, EntryOf
  <2>2. leases'[l].holder = leases[l].holder /\ leases'[l].confirmed = leases[l].confirmed
    BY <1>2, <1>4 DEF Fades, FadesAt
  <2> QED BY <1>1, <1>2, <1>3, <1>4, <2>1, <2>2 DEF AcquiringFits
<1>8. ToldFits'
  BY <1>1, <1>3, <1>4, <1>6, AcquisitionTells
<1> QED BY <1>1, <1>3, <1>4, <1>5, <1>6, <1>7, <1>8, AcquisitionKeeps DEF AcqHolds

\* What a step tells that publishes the state of entry e and leaves the other
\* entries alone.
LEMMA ToldPublished ==
    ASSUME TypeOK, ToldFits, StreamsFit, LeasesFit, EntriesFit, NEW e \in Entries, Publish(e),
           \A s \in Streams : EntryOf(s) \notin {0, e} => EntryOf(s)' = EntryOf(s) /\ acq'[s] = acq[s],
           \A s \in Streams : streams'[s].listed /\ EntryOf(s)' # e =>
              streams[s].listed /\ EntryOf(s)' = EntryOf(s),
           \A f \in Entries \ {e} : entries'[f].lease = entries[f].lease,
           \A l \in Leases : leases[l].entry \notin {0, e} =>
              /\ leases'[l].holder = leases[l].holder
              /\ leases'[l].confirmed = leases[l].confirmed
              /\ leases'[l].revoked = leases[l].revoked
              /\ rel'[l] = rel[l]
    PROVE  ToldFits'
<1> SUFFICES ASSUME NEW s \in Streams, streams'[s].listed, CurrentLease(s)' # None,
                    leases'[CurrentLease(s)'].confirmed <=> ~leases'[CurrentLease(s)'].revoked
             PROVE  (told[s] = View(s) \/ AboutToTell(s, CurrentLease(s)))'
  BY DEF ToldFits, ToldFitsTo
<1>1. CASE EntryOf(s)' = e
  BY <1>1 DEF Publish, EntryOf
<1>2. CASE EntryOf(s)' # e
  <2> DEFINE l == CurrentLease(s)
  <2>1. /\ streams[s].listed /\ EntryOf(s)' = EntryOf(s) /\ EntryOf(s) \in Entries \ {e}
        /\ told'[s] = told[s]
    BY <1>2, Typed DEF StreamsFit, EntryOf, Publish
  <2>2. CurrentLease(s)' = l /\ l # None
    BY <2>1 DEF CurrentLease
  <2>3. /\ l \in Leases /\ leases[l].entry = EntryOf(s)
        /\ leases[l].holder \in Streams /\ EntryOf(leases[l].holder) = EntryOf(s)
    BY <2>1, <2>2, InEntry DEF CurrentLease
  <2>4. /\ leases'[l].holder = leases[l].holder
        /\ leases'[l].confirmed = leases[l].confirmed
        /\ leases'[l].revoked = leases[l].revoked
        /\ rel'[l] = rel[l] /\ acq'[leases[l].holder] = acq[leases[l].holder]
    <3>1. EntryOf(s) \notin {0, e}
      BY <2>1, Bounds
    <3>2. acq'[leases[l].holder] = acq[leases[l].holder]
      BY <2>3, <3>1
    <3>3. leases[l].entry \notin {0, e}
      BY <2>3, <3>1
    <3> HIDE DEF l
    <3> QED BY <2>3, <3>2, <3>3
  <2>5. View(s)' = View(s)
    BY <2>2, <2>4 DEF View
  <2>6. AboutToTell(s, l) => AboutToTell(s, CurrentLease(s))'
    <3>1. \A t \in Streams : EntryOf(t) = EntryOf(s) => EntryOf(t)' = EntryOf(s)' /\ acq'[t] = acq[t]
      BY <2>1, Bounds
    <3> HIDE DEF l, EntryOf, CurrentLease
    <3> QED BY <2>2, <2>4, <3>1 DEF AboutToTell
  <2> QED BY <2>1, <2>2, <2>4, <2>5, <2>6 DEF ToldFits, ToldFitsTo
<1> QED BY <1>1, <1>2

LEMMA PublishTypes ==
    ASSUME TypeOK, NEW e, Publish(e),
           \A s \in Streams : streams'[s].listed => View(s)' \in ControlStates
    PROVE  told' \in [Streams -> ControlStates]
BY DEF TypeOK, Publish

\* A view is one of the states, of whatever lease.
LEMMA ViewTypes ==
    ASSUME entries' \in [Entries -> EntryType], leases' \in [Leases -> LeaseType],
           NEW s \in Streams, CurrentLease(s)' \in Leases \cup {None}
    PROVE  View(s)' \in ControlStates
<1>1. CASE CurrentLease(s)' = None
  BY <1>1 DEF View, ControlStates
<1>2. CASE CurrentLease(s)' \in Leases /\ CurrentLease(s)' # None
  <2>1. leases'[CurrentLease(s)'].revoked \in BOOLEAN /\ leases'[CurrentLease(s)'].confirmed \in BOOLEAN
    BY <1>2 DEF LeaseType
  <2> QED BY <1>2, <2>1 DEF View, ControlStates
<1> QED BY <1>1, <1>2

\* The types after a step that publishes the state of an entry.
LEMMA PublishedTypes ==
    ASSUME TypeOK, NEW e \in Entries, Publish(e),
           entries' \in [Entries -> EntryType], leases' \in [Leases -> LeaseType],
           streams' \in [Streams -> StreamType],
           \A s \in Streams : streams'[s].listed => EntryOf(s)' # 0
    PROVE  told' \in [Streams -> ControlStates]
<1> SUFFICES ASSUME NEW s \in Streams, streams'[s].listed
             PROVE  CurrentLease(s)' \in Leases \cup {None}
  BY ViewTypes, PublishTypes
<1>1. EntryOf(s)' \in Entries
  BY Bounds DEF StreamType, EntryOf, Entries
<1>2. entries'[EntryOf(s)'].lease \in 0..MaxLeases
  BY <1>1 DEF EntryType
<1> QED BY <1>2, Bounds DEF CurrentLease, EntryOf, Leases

LEMMA FailedLeaseStoppedKeeps ==
    ASSUME IInv, NEW s \in Streams, FailedLeaseStopped(s)
    PROVE  IInv'
<1> DEFINE l == CurrentLease(s)
           e == EntryOf(s)
<1>1. /\ UNCHANGED <<runtime, leases, streams, reader, rel, target, observer, wire, reports>>
      /\ acq[s] = "failing" /\ acq' = [acq EXCEPT ![s] = "none"]
      /\ entries' = Stopped(l) /\ Publish(e)
  BY DEF FailedLeaseStopped, SetAcq, resizeVars
<1>2. /\ e \in Entries /\ l \in Leases /\ leases[l].entry = e /\ l # None
      /\ entries \in [Entries -> EntryType] /\ acq \in [Streams -> AcquireStages]
      /\ leases \in [Leases -> LeaseType]
  BY <1>1, Acquiring DEF AcquiringFits
<1>3. acq'[s] = "none" /\ \A t \in Streams \ {s} : acq'[t] = acq[t]
  BY <1>1, <1>2
<1>4. /\ LetsGo /\ entries' \in [Entries -> EntryType]
      /\ \A f \in Entries : /\ entries'[f].refs = entries[f].refs
                            /\ entries'[f].scroll = entries[f].scroll
      /\ \A f \in Entries \ {e} : entries'[f] = entries[f]
  BY <1>1, <1>2, StoppedLetsGo DEF IInv
<1>5. Fades
  BY <1>1, SameLeasesFade DEF IInv
<1>6. \A t \in Streams : streams[t].listed => EntryOf(t) # 0
  BY DEF IInv, ControlFits, StreamsFit, EntryOf
<1>7. TypeOK'
  <2>1. told' \in [Streams -> ControlStates]
    BY <1>1, <1>2, <1>4, <1>6, PublishedTypes DEF IInv, TypeOK, EntryOf
  <2> QED BY <1>1, <1>2, <1>4, <2>1 DEF IInv, TypeOK, AcquireStages
<1>8. AcquiringFits(s)'
  BY <1>3 DEF AcquiringFits
<1>9. ToldFits'
  <2>1. \A t \in Streams : EntryOf(t) # e => acq'[t] = acq[t]
    BY <1>3
  <2>2. \A t \in Streams : EntryOf(t)' = EntryOf(t)
    BY <1>1 DEF EntryOf
  <2> QED BY <1>1, <1>2, <1>4, <2>1, <2>2, ToldPublished DEF IInv, ControlFits
<1> QED BY <1>1, <1>2, <1>3, <1>4, <1>5, <1>7, <1>8, <1>9, AcquisitionKeeps DEF AcqHolds

LEMMA AnswerAcquireKeeps ==
    ASSUME IInv, NEW s \in Streams, AnswerAcquire(s)
    PROVE  IInv'
<1> DEFINE e == EntryOf(s)
<1>1. /\ UNCHANGED <<runtime, entries, leases, streams, reader, rel, target, observer, wire, reports>>
      /\ acq[s] = "answer" /\ acq' = [acq EXCEPT ![s] = "none"] /\ Publish(e)
  BY DEF AnswerAcquire, SetAcq, registryVars, resizeVars
<1>2. /\ e \in Entries /\ acq \in [Streams -> AcquireStages]
      /\ entries \in [Entries -> EntryType] /\ leases \in [Leases -> LeaseType]
  BY <1>1, Acquiring
<1>3. acq'[s] = "none" /\ \A t \in Streams \ {s} : acq'[t] = acq[t]
  BY <1>1, <1>2
<1>4. Fades /\ LetsGo
  BY <1>1, SameLeasesFade DEF IInv, LetsGo
<1>5. \A t \in Streams : streams[t].listed => EntryOf(t) # 0
  BY DEF IInv, ControlFits, StreamsFit, EntryOf
<1>6. TypeOK'
  <2>1. told' \in [Streams -> ControlStates]
    BY <1>1, <1>2, <1>5, PublishedTypes DEF IInv, TypeOK, EntryOf
  <2> QED BY <1>1, <1>2, <2>1 DEF IInv, TypeOK, AcquireStages
<1>7. AcquiringFits(s)'
  BY <1>3 DEF AcquiringFits
<1>8. ToldFits'
  <2>1. \A t \in Streams : EntryOf(t) # e => acq'[t] = acq[t]
    BY <1>3
  <2>2. \A t \in Streams : EntryOf(t)' = EntryOf(t)
    BY <1>1 DEF EntryOf
  <2> QED BY <1>1, <1>2, <2>1, <2>2, ToldPublished DEF IInv, ControlFits
<1> QED BY <1>1, <1>2, <1>3, <1>4, <1>6, <1>7, <1>8, AcquisitionKeeps DEF AcqHolds

\* A step of an acquisition that holds op with its own lease, which is not
\* confirmed yet.
LEMMA OwnLeaseKeeps ==
    ASSUME IInv, TypeOK', NEW s \in Streams, acq[s] \in {"opening", "waiting", "checked"},
           UNCHANGED <<entries, streams, reader, rel, target, observer, wire, reports>>,
           NEW r, leases' = [leases EXCEPT ![CurrentLease(s)] = r],
           LET l == CurrentLease(s)
           IN  /\ r.holder = leases[l].holder /\ r.entry = leases[l].entry
               /\ r.revoked = leases[l].revoked /\ r.cancelled = leases[l].cancelled
               /\ r.controller # "none",
           r.confirmed \/ acq'[s] \in {"opening", "waiting", "checked"},
           \A t \in Streams \ {s} : acq'[t] = acq[t],
           AcquiringFits(s)', ToldFits'
    PROVE  IInv'
<1> DEFINE l == CurrentLease(s)
<1> USE DEF IInv, ControlFits
<1>1. /\ EntryOf(s) \in Entries /\ l \in Leases /\ Taken(l) /\ leases[l].entry = EntryOf(s)
      /\ leases[l].holder = s /\ ~leases[l].confirmed /\ l # None
      /\ leases \in [Leases -> LeaseType]
  BY Acquiring DEF AcquiringFits
<1>2. /\ leases'[l] = r /\ \A m \in Leases \ {l} : leases'[m] = leases[m]
      /\ \A m \in Leases : /\ leases'[m].holder = leases[m].holder
                           /\ leases'[m].entry = leases[m].entry
                           /\ leases'[m].revoked = leases[m].revoked
                           /\ leases'[m].cancelled = leases[m].cancelled
  BY <1>1
<1>3. /\ \A t \in Streams \ {s} : EntryOf(t) = EntryOf(s) => ~AcqHolds(t)
      /\ ~ReaderHolds(s)
      /\ \A c \in Sources : ~RelHolds(l, c)
  BY <1>1, OthersWait DEF AcqHolds
<1>4. OpExclusive'
  BY <1>2, OpTakenByAcquire DEF EntryOf, AcqHolds
<1>5. StreamsFit'
  BY DEF StreamsFit
<1>6. LeasesFit'
  <2> SUFFICES ASSUME NEW m \in Leases PROVE LeaseFits(m)'
    BY DEF LeasesFit
  <2>1. LeaseFits(m) /\ (\A n \in Leases : Taken(n)' <=> Taken(n))
    BY <1>2 DEF LeasesFit, Taken
  <2>2. CASE m = l
    <3>1. entries'[leases'[l].entry].lease = l
      BY <1>1, <1>2 DEF CurrentLease
    <3> QED BY <1>1, <1>2, <2>1, <2>2, <3>1 DEF LeaseFits, EntryOf
  <2>3. CASE m # l
    BY <1>2, <2>1, <2>3 DEF LeaseFits, Attached, EntryOf
  <2> QED BY <2>2, <2>3
<1>7. EntriesFit'
  <2> SUFFICES ASSUME NEW f \in Entries, entries[f].lease # None PROVE EntryFits(f)'
    BY DEF EntriesFit, EntryFits
  <2> DEFINE m == entries[f].lease
  <2>1. EntryFits(f) /\ m \in Leases /\ leases[m].holder \in Streams /\ EntryOf(leases[m].holder) = f
    BY InEntry DEF EntriesFit
  <2>2. CASE m = l
    BY <1>1, <1>2, <2>1, <2>2 DEF EntryFits
  <2>3. CASE m # l
    <3>1. leases[m].holder # s
      BY <1>1, <2>1, <2>3 DEF CurrentLease
    <3> QED BY <1>1, <1>2, <2>1, <2>3, <3>1 DEF EntryFits
  <2> QED BY <2>2, <2>3
<1>8. AcquireFits'
  <2> SUFFICES ASSUME NEW t \in Streams \ {s} PROVE AcquiringFits(t)'
    BY DEF AcquireFits
  <2>1. AcquiringFits(t) /\ CurrentLease(t)' = CurrentLease(t) /\ EntryOf(t)' = EntryOf(t)
    BY DEF AcquireFits, CurrentLease, EntryOf
  <2>2. CASE ~AcqHolds(t)
    BY <2>1, <2>2 DEF AcquiringFits, AcqHolds
  <2>3. CASE AcqHolds(t)
    <3>1. EntryOf(t) # EntryOf(s) /\ EntryOf(t) \in Entries
      BY <1>3, <2>1, <2>3 DEF AcquiringFits, AcqHolds
    <3>2. CurrentLease(t) # None => CurrentLease(t) \in Leases /\ leases[CurrentLease(t)].entry = EntryOf(t)
      BY <3>1, InEntry DEF CurrentLease
    <3>3. CurrentLease(t) # None => leases'[CurrentLease(t)] = leases[CurrentLease(t)]
      BY <1>1, <1>2, <3>1, <3>2
    <3> HIDE DEF l, EntryOf, CurrentLease
    <3> QED BY <2>1, <3>3 DEF AcquiringFits
  <2> QED BY <2>2, <2>3
<1>9. ReaderFits'
  <2> SUFFICES ASSUME NEW t \in Streams, reader[t].stage # "idle" PROVE ResizingFits(t)'
    BY DEF ReaderFits, ResizingFits
  <2>1. ResizingFits(t) /\ CurrentLease(t)' = CurrentLease(t) /\ reader[t].lease \in Leases
    BY Typed DEF ReaderFits, ResizingFits, CurrentLease, EntryOf
  <2>2. CASE reader[t].lease = l
    <3>1. t = s
      BY <1>1, <2>1, <2>2 DEF ResizingFits
    <3> QED BY <1>1, <1>2, <1>3, <2>1, <2>2, <3>1 DEF ResizingFits, ReaderHolds
  <2>3. CASE reader[t].lease # l
    BY <1>2, <2>1, <2>3 DEF ResizingFits
  <2> QED BY <2>2, <2>3
<1>10. ReleaseFits'
  <2> SUFFICES ASSUME NEW m \in Leases PROVE ReleasingFits(m)'
    BY DEF ReleaseFits
  <2>1. ReleasingFits(m) /\ (Taken(m)' <=> Taken(m))
    BY <1>2 DEF ReleaseFits, Taken
  <2>2. CASE m = l
    BY <1>1, <1>2, <1>3, <2>1, <2>2 DEF ReleasingFits, RelHolds
  <2>3. CASE m # l
    BY <1>2, <2>1, <2>3 DEF ReleasingFits
  <2> QED BY <2>2, <2>3
<1>11. RegistryOwnsScroll' /\ ReportsFit' /\ WireFits'
  BY <1>2, RegistryKept, ReportsKept, WireKept DEF EntryOf
<1> QED BY <1>4, <1>5, <1>6, <1>7, <1>8, <1>9, <1>10, <1>11

LEMMA ProcessOpenedKeeps ==
    ASSUME IInv, NEW s \in Streams, ProcessOpened(s)
    PROVE  IInv'
<1> DEFINE l == CurrentLease(s)
           r == [leases[l] EXCEPT !.controller = "live"]
<1>1. /\ UNCHANGED <<runtime, entries, streams, reader, rel, target, observer, wire, reports, told>>
      /\ acq[s] = "opening" /\ acq' = [acq EXCEPT ![s] = "waiting"]
      /\ leases' = [leases EXCEPT ![l] = r]
  BY DEF ProcessOpened, SetAcq, registryVars, resizeVars
<1>2. /\ acq \in [Streams -> AcquireStages] /\ AcquiringFits(s) /\ l \in Leases /\ l # None
      /\ leases \in [Leases -> LeaseType] /\ leases[l] \in LeaseType
  BY <1>1, Acquiring DEF AcquiringFits
<1> HIDE DEF l
<1>3. /\ r \in LeaseType
      /\ r.holder = leases[l].holder /\ r.entry = leases[l].entry
      /\ r.revoked = leases[l].revoked /\ r.cancelled = leases[l].cancelled
      /\ r.confirmed = leases[l].confirmed /\ r.controller = "live"
  BY <1>2 DEF LeaseType
<1> HIDE DEF r
<1>4. acq'[s] = "waiting" /\ \A t \in Streams \ {s} : acq'[t] = acq[t]
  BY <1>1, <1>2
<1>5. TypeOK'
  BY <1>1, <1>2, <1>3 DEF IInv, TypeOK, AcquireStages
<1>6. /\ leases'[l] = r
      /\ \A m \in Leases : /\ leases'[m].holder = leases[m].holder
                           /\ leases'[m].confirmed = leases[m].confirmed
                           /\ leases'[m].revoked = leases[m].revoked
  BY <1>1, <1>2, <1>3
<1>7. CurrentLease(s)' = l /\ EntryOf(s)' = EntryOf(s)
  BY <1>1 DEF CurrentLease, EntryOf, l
<1>8. AcquiringFits(s)'
  BY <1>1, <1>2, <1>3, <1>4, <1>6, <1>7 DEF AcquiringFits, l
<1>9. ToldFits'
  <2>1. \A t \in Streams : /\ acq[t] = "answer" => acq'[t] = "answer"
                           /\ acq[t] \in {"opening", "waiting", "checked", "failing"} =>
                                 acq'[t] \in {"opening", "waiting", "checked", "failing"}
    BY <1>1, <1>4
  <2> QED BY <1>1, <1>6, <2>1, ToldKept DEF IInv, ControlFits, EntryOf
<1> QED BY <1>1, <1>3, <1>4, <1>5, <1>8, <1>9, OwnLeaseKeeps DEF l

LEMMA ConfirmKeeps ==
    ASSUME IInv, NEW s \in Streams, Confirm(s)
    PROVE  IInv'
<1> DEFINE l == CurrentLease(s)
           r == [leases[l] EXCEPT !.confirmed = TRUE]
<1>1. /\ UNCHANGED <<runtime, entries, streams, reader, rel, target, observer, wire, reports, told>>
      /\ acq[s] = "checked" /\ acq' = [acq EXCEPT ![s] = "answer"]
      /\ leases' = [leases EXCEPT ![l] = r]
  BY DEF Confirm, SetAcq, registryVars, resizeVars
<1>2. /\ acq \in [Streams -> AcquireStages] /\ AcquiringFits(s) /\ l \in Leases /\ l # None
      /\ leases \in [Leases -> LeaseType] /\ leases[l] \in LeaseType
      /\ EntryOf(s) \in Entries
  BY <1>1, Acquiring DEF AcquiringFits
<1> HIDE DEF l
<1>3. /\ r \in LeaseType
      /\ r.holder = leases[l].holder /\ r.entry = leases[l].entry
      /\ r.revoked = leases[l].revoked /\ r.cancelled = leases[l].cancelled
      /\ r.confirmed /\ r.controller = leases[l].controller /\ r.controller # "none"
  BY <1>1, <1>2 DEF LeaseType, AcquiringFits, l
<1> HIDE DEF r
<1>4. acq'[s] = "answer" /\ \A t \in Streams \ {s} : acq'[t] = acq[t]
  BY <1>1, <1>2
<1>5. TypeOK'
  BY <1>1, <1>2, <1>3 DEF IInv, TypeOK, AcquireStages
<1>6. leases'[l] = r /\ \A m \in Leases \ {l} : leases'[m] = leases[m]
  BY <1>1, <1>2
<1>7. AcquiringFits(s)'
  BY <1>1, <1>2, <1>4 DEF AcquiringFits, EntryOf
<1>8. ToldFits'
  <2> SUFFICES ASSUME NEW t \in Streams, streams[t].listed, CurrentLease(t) # None,
                      leases'[CurrentLease(t)].confirmed <=> ~leases'[CurrentLease(t)].revoked
               PROVE  (told[t] = View(t) \/ AboutToTell(t, CurrentLease(t)))'
    BY <1>1 DEF ToldFits, ToldFitsTo, CurrentLease, EntryOf
  <2>1. CurrentLease(t)' = CurrentLease(t) /\ EntryOf(t)' = EntryOf(t) /\ EntryOf(s)' = EntryOf(s)
    BY <1>1 DEF CurrentLease, EntryOf
  <2>2. EntryOf(t) \in Entries
    BY Typed DEF IInv, ControlFits, StreamsFit, EntryOf
  <2>3. CASE EntryOf(t) = EntryOf(s)
    <3>1. CurrentLease(t) = l
      BY <2>3 DEF CurrentLease, l
    <3> QED BY <1>3, <1>4, <1>6, <2>1, <2>3, <3>1 DEF AboutToTell
  <2>4. CASE EntryOf(t) # EntryOf(s)
    <3> DEFINE m == CurrentLease(t)
    <3>1. /\ m \in Leases /\ leases[m].entry = EntryOf(t)
          /\ leases[m].holder \in Streams /\ EntryOf(leases[m].holder) = EntryOf(t)
      BY <2>2, InEntry DEF IInv, ControlFits, CurrentLease
    <3>2. leases[l].entry = EntryOf(s)
      BY <1>1, <1>2, Acquiring DEF l
    <3>3. leases'[m] = leases[m] /\ acq'[leases[m].holder] = acq[leases[m].holder]
      BY <1>4, <1>6, <2>4, <3>1, <3>2
    <3>4. View(t)' = View(t)
      BY <2>1, <3>3 DEF View
    <3>5. AboutToTell(t, m) => AboutToTell(t, CurrentLease(t))'
      <4>1. \A u \in Streams : EntryOf(u)' = EntryOf(u) /\ (acq[u] = "answer" => acq'[u] = "answer")
        BY <1>1, <1>4 DEF EntryOf
      <4> HIDE DEF m, EntryOf, CurrentLease
      <4> QED BY <1>1, <2>1, <3>3, <4>1 DEF AboutToTell, m
    <3> QED BY <1>1, <2>1, <3>3, <3>4, <3>5 DEF IInv, ToldFits, ToldFitsTo
  <2> QED BY <2>3, <2>4
<1> QED BY <1>1, <1>3, <1>4, <1>5, <1>7, <1>8, OwnLeaseKeeps DEF l

LEMMA CreateLeaseKeeps ==
    ASSUME IInv, NEW s \in Streams, CreateLease(s)
    PROVE  IInv'
<1> USE DEF IInv, ControlFits
<1> DEFINE e == EntryOf(s)
<1>1. /\ UNCHANGED <<runtime, streams, reader, rel, target, observer, wire, reports>>
      /\ acq[s] = "clear" /\ acq' = [acq EXCEPT ![s] = "opening"] /\ Publish(e)
  BY DEF CreateLease, SetAcq, resizeVars
<1>2. PICK l \in Leases :
         /\ ~Taken(l) /\ \A m \in 1..(l - 1) : Taken(m)
         /\ leases' = [leases EXCEPT ![l] = [leases[l] EXCEPT !.holder = s, !.entry = e,
                                                       !.armed = TRUE, !.cancelled = ~streams[s].up]]
         /\ entries' = [entries EXCEPT ![e] = [entries[e] EXCEPT !.lease = l]]
  BY DEF CreateLease, Taken
<1>3. /\ e \in Entries /\ CurrentLease(s) = None /\ entries[e].lease = None /\ ~entries[e].scroll
      /\ entries \in [Entries -> EntryType] /\ acq \in [Streams -> AcquireStages]
      /\ leases \in [Leases -> LeaseType]
  BY <1>1, Acquiring DEF AcquiringFits, CurrentLease
<1>4. /\ leases' \in [Leases -> LeaseType] /\ \A m \in Leases \ {l} : leases'[m] = leases[m]
      /\ leases'[l].holder = s /\ leases'[l].entry = e
      /\ leases'[l].revoked = leases[l].revoked /\ leases'[l].confirmed = leases[l].confirmed
      /\ leases'[l].controller = leases[l].controller
  <2> DEFINE r == [leases[l] EXCEPT !.holder = s, !.entry = e, !.armed = TRUE, !.cancelled = ~streams[s].up]
  <2>1. leases[l] \in LeaseType /\ streams[s].up \in BOOLEAN /\ e \in 0..MaxEntries
    BY <1>3, Bounds DEF TypeOK, StreamType, Entries
  <2>2. /\ r \in LeaseType /\ r.holder = s /\ r.entry = e /\ r.revoked = leases[l].revoked
        /\ r.confirmed = leases[l].confirmed /\ r.controller = leases[l].controller
    BY <2>1 DEF LeaseType
  <2> HIDE DEF r
  <2>3. leases' = [leases EXCEPT ![l] = r]
    BY <1>2 DEF r
  <2> QED BY <1>3, <2>2, <2>3
<1>5. /\ entries' \in [Entries -> EntryType] /\ \A f \in Entries \ {e} : entries'[f] = entries[f]
      /\ entries'[e].lease = l /\ entries'[e].refs = entries[e].refs
      /\ entries'[e].scroll = entries[e].scroll
  <2> DEFINE r == [entries[e] EXCEPT !.lease = l]
  <2>1. entries[e] \in EntryType /\ l \in 0..MaxLeases
    <3>1. entries[e] \in EntryType
      BY <1>3
    <3>2. l \in 0..MaxLeases
      BY Bounds DEF Leases
    <3> QED BY <3>1, <3>2
  <2>2. r \in EntryType /\ r.lease = l /\ r.refs = entries[e].refs /\ r.scroll = entries[e].scroll
    BY <2>1 DEF EntryType
  <2> HIDE DEF r
  <2>3. entries' = [entries EXCEPT ![e] = r]
    BY <1>2 DEF r
  <2> QED BY <1>3, <2>2, <2>3
<1>6. acq'[s] = "opening" /\ \A t \in Streams \ {s} : acq'[t] = acq[t]
  BY <1>1, <1>3
<1>7. LeaseFits(l) /\ leases[l].entry = 0 /\ leases[l].controller = "none"
      /\ ~leases[l].revoked /\ ~leases[l].confirmed
  BY <1>2 DEF LeasesFit, LeaseFits
<1>8. \A m \in Leases : (m < l <=> Taken(m)) /\ (Taken(m)' <=> Taken(m) \/ m = l)
  <2>1. \A m \in Leases : m < l <=> Taken(m)
    BY <1>2, <1>7, Bounds DEF LeaseFits, Leases
  <2>2. \A m \in Leases : Taken(m)' <=> Taken(m) \/ m = l
    BY <1>4, Bounds DEF Taken
  <2> QED BY <2>1, <2>2
<1>9. \A t \in Streams : EntryOf(t)' = EntryOf(t)
  BY <1>1 DEF EntryOf
<1>10. /\ \A t \in Streams \ {s} : EntryOf(t) = e => ~AcqHolds(t)
       /\ \A t \in Streams : EntryOf(t) = e => ~ReaderHolds(t)
       /\ \A m \in Leases, c \in Sources : leases[m].entry = e => ~RelHolds(m, c)
  BY <1>1, OthersWait DEF AcqHolds
<1>11. \A m \in Leases, c \in Sources : rel[m][c] # "no" => Taken(m) /\ m # l
  <2> SUFFICES ASSUME NEW m \in Leases, NEW c \in Sources, rel[m][c] # "no"
               PROVE  Taken(m)
    BY <1>2
  <2> QED BY DEF ReleaseFits, ReleasingFits
<1>12. TypeOK'
  <2>1. \A t \in Streams : streams[t].listed => EntryOf(t) # 0
    BY DEF StreamsFit, EntryOf
  <2>2. told' \in [Streams -> ControlStates]
    BY <1>1, <1>3, <1>4, <1>5, <2>1, PublishedTypes DEF TypeOK, EntryOf
  <2> QED BY <1>1, <1>3, <1>4, <1>5, <2>2 DEF TypeOK, AcquireStages
<1>13. OpExclusive'
  BY <1>1, <1>4, <1>6, <1>9, <1>11, OpKept DEF AcqHolds, ReaderHolds, RelHolds
<1>14. StreamsFit'
  BY <1>1 DEF StreamsFit
<1>15. LeasesFit'
  <2> SUFFICES ASSUME NEW m \in Leases PROVE LeaseFits(m)'
    BY DEF LeasesFit
  <2>1. CASE m = l
    BY <1>3, <1>4, <1>7, <1>8, <1>9, <2>1 DEF LeaseFits, Attached, EntryOf
  <2>2. CASE m # l
    <3>1. LeaseFits(m) /\ leases'[m] = leases[m]
      BY <1>4, <2>2 DEF LeasesFit
    <3>2. ~Taken(m)' => \A n \in Leases : m <= n => ~Taken(n)'
      BY <1>8, <2>2, Bounds
    <3>3. Attached(m)' => entries'[leases[m].entry].lease = m
      BY <1>3, <1>5, <3>1, Bounds DEF LeaseFits, Attached, Taken
    <3>4. Taken(m)' => EntryOf(leases[m].holder)' = leases[m].entry
      BY <1>1, <1>8, <2>2, <3>1 DEF LeaseFits, EntryOf
    <3> QED BY <1>8, <2>2, <3>1, <3>2, <3>3, <3>4 DEF LeaseFits
  <2> QED BY <2>1, <2>2
<1>16. EntriesFit'
  <2> SUFFICES ASSUME NEW f \in Entries, entries'[f].lease # None PROVE EntryFits(f)'
    BY DEF EntriesFit, EntryFits
  <2>1. CASE f = e
    <3>1. \A m \in Leases : leases'[m].entry = e => m <= l
      <4> SUFFICES ASSUME NEW m \in Leases \ {l}, leases[m].entry = e PROVE m <= l
        BY <1>4, Bounds
      <4>1. Taken(m)
        BY <1>3, Bounds DEF LeasesFit, LeaseFits
      <4> QED BY <1>8, <4>1, Bounds
    <3> QED BY <1>3, <1>4, <1>5, <1>6, <2>1, <3>1 DEF EntryFits
  <2>2. CASE f # e
    <3> DEFINE m == entries[f].lease
    <3>1. /\ entries'[f] = entries[f] /\ m \in Leases /\ Taken(m)
          /\ leases[m].holder \in Streams \ {s} /\ EntryFits(f)
      BY <1>5, <2>2, InEntry DEF EntriesFit
    <3>2. leases'[m] = leases[m] /\ \A n \in Leases : leases'[n].entry = f => leases[n].entry = f
      BY <1>2, <1>4, <2>2, <3>1
    <3> QED BY <1>6, <3>1, <3>2 DEF EntryFits
  <2> QED BY <2>1, <2>2
<1>17. AcquireFits'
  <2> SUFFICES ASSUME NEW t \in Streams PROVE AcquiringFits(t)'
    BY DEF AcquireFits
  <2>1. CASE t = s
    <3>1. CurrentLease(s)' = l /\ EntryOf(s)' = e
      BY <1>5, <1>9 DEF CurrentLease, EntryOf
    <3> QED BY <1>3, <1>4, <1>6, <1>7, <2>1, <3>1, Bounds DEF AcquiringFits
  <2>2. CASE t # s
    <3>1. AcquiringFits(t) /\ EntryOf(t)' = EntryOf(t) /\ acq'[t] = acq[t]
      BY <1>6, <1>9, <2>2 DEF AcquireFits
    <3>2. CASE ~AcqHolds(t)
      BY <3>1, <3>2 DEF AcquiringFits, AcqHolds
    <3>3. CASE AcqHolds(t)
      <4>1. EntryOf(t) \in Entries \ {e}
        BY <1>10, <2>2, <3>1, <3>3 DEF AcquiringFits, AcqHolds
      <4>2. entries'[EntryOf(t)] = entries[EntryOf(t)] /\ CurrentLease(t)' = CurrentLease(t)
        BY <1>5, <3>1, <4>1 DEF CurrentLease
      <4>3. CurrentLease(t) # None => CurrentLease(t) \in Leases /\ Taken(CurrentLease(t))
        BY <4>1, InEntry DEF CurrentLease
      <4>4. CurrentLease(t) # None => leases'[CurrentLease(t)] = leases[CurrentLease(t)]
        BY <1>2, <1>4, <4>3
      <4> HIDE DEF e, EntryOf, CurrentLease
      <4> QED BY <3>1, <4>2, <4>4 DEF AcquiringFits
    <3> QED BY <3>2, <3>3
  <2> QED BY <2>1, <2>2
<1>18. ReaderFits'
  <2> SUFFICES ASSUME NEW t \in Streams, reader[t].stage # "idle" PROVE ResizingFits(t)'
    BY <1>1 DEF ReaderFits, ResizingFits
  <2>1. ResizingFits(t) /\ reader[t].lease \in Leases /\ Taken(reader[t].lease)
    BY Typed, Bounds DEF ReaderFits, ResizingFits, Taken
  <2>2. leases'[reader[t].lease] = leases[reader[t].lease]
    BY <1>2, <1>4, <2>1
  <2>3. EntryOf(t) \in Entries
    BY <2>1 DEF ResizingFits, LeasesFit, LeaseFits
  <2>4. ReaderHolds(t) => CurrentLease(t)' = CurrentLease(t)
    BY <1>5, <1>9, <1>10, <2>3 DEF CurrentLease
  <2> QED BY <1>1, <2>1, <2>2, <2>4 DEF ResizingFits, ReaderHolds
<1>19. ReleaseFits'
  <2> SUFFICES ASSUME NEW m \in Leases PROVE ReleasingFits(m)'
    BY DEF ReleaseFits
  <2>1. ReleasingFits(m)
    BY DEF ReleaseFits
  <2>2. CASE m = l
    BY <1>1, <1>11, <2>2 DEF ReleasingFits, Sources
  <2>3. CASE m # l
    <3>1. leases'[m] = leases[m] /\ (Taken(m) => Taken(m)' /\ leases[m].entry \in Entries)
      BY <1>4, <1>8, <2>3 DEF LeasesFit, LeaseFits
    <3>2. \A c \in Sources : rel[m][c] = "stop" => entries'[leases[m].entry].lease = m
      BY <1>5, <1>10, <2>1, <3>1 DEF ReleasingFits, RelHolds
    <3>3. rel[m]["done"] \in {"publish", "over"} => entries'[leases[m].entry].lease # m
      BY <1>5, <2>1, <2>3, <3>1 DEF ReleasingFits, Sources
    <3>4. \A n \in Leases : rel[n]["closer"] # "no" => leases'[n] = leases[n]
      BY <1>4, <1>11 DEF Sources
    <3> QED BY <1>1, <2>1, <3>1, <3>2, <3>3, <3>4 DEF ReleasingFits
  <2> QED BY <2>2, <2>3
<1>20. RegistryOwnsScroll'
  BY <1>1, <1>5, <1>9, RegistryKept
<1>21. ReportsFit' /\ WireFits'
  BY <1>1, <1>2, <1>4, ReportsKept, WireKept
<1>22. ToldFits'
  <2>1. \A t \in Streams : EntryOf(t) # e => acq'[t] = acq[t]
    BY <1>6
  <2>2. \A m \in Leases : leases[m].entry # 0 => leases'[m] = leases[m]
    BY <1>4, <1>7
  <2> QED BY <1>1, <1>3, <1>5, <1>9, <2>1, <2>2, ToldPublished
<1> QED BY <1>12, <1>13, <1>14, <1>15, <1>16, <1>17, <1>18, <1>19, <1>20, <1>21, <1>22

(***************************************************************************)
(* Resizes.                                                                *)
(***************************************************************************)
LEMMA OthersWaitForReader ==
    ASSUME OpExclusive, NEW s \in Streams, ReaderHolds(s) \/ ~Busy(EntryOf(s))
    PROVE  /\ \A t \in Streams \ {s} : EntryOf(t) = EntryOf(s) => ~ReaderHolds(t)
           /\ \A t \in Streams : EntryOf(t) = EntryOf(s) => ~AcqHolds(t)
           /\ \A l \in Leases, c \in Sources : leases[l].entry = EntryOf(s) => ~RelHolds(l, c)
<1>1. CASE ReaderHolds(s)
  <2> HIDE DEF EntryOf, AcqHolds, ReaderHolds, RelHolds
  <2> QED BY <1>1 DEF OpExclusive
<1>2. CASE ~Busy(EntryOf(s))
  BY <1>2 DEF Busy, AcqHolds, ReaderHolds, RelHolds
<1> QED BY <1>1, <1>2

\* A step of the read loop or the output loop of one stream.
LEMMA ReaderStepKeeps ==
    ASSUME IInv, TypeOK', NEW s \in Streams, Fades, LetsGo,
           UNCHANGED <<streams, acq, rel>>,
           \A t \in Streams \ {s} : reader'[t] = reader[t],
           reader[s].stage = "release" => reader'[s] = reader[s],
           ReaderHolds(s)' => ReaderHolds(s) \/ ~Busy(EntryOf(s)),
           \A e \in Entries : /\ entries'[e].refs = entries[e].refs
                              /\ entries'[e].scroll = entries[e].scroll
                              /\ e # EntryOf(s) => entries'[e] = entries[e],
           ReaderHolds(s) \/ UNCHANGED entries,
           ResizingFits(s)', ReportsFit', WireFits', ToldFits'
    PROVE  IInv'
<1> USE DEF IInv, ControlFits
<1>1. \A l \in Leases : leases'[l].holder = leases[l].holder /\ leases'[l].entry = leases[l].entry
  BY DEF Fades, FadesAt
<1>2. \A t \in Streams : EntryOf(t)' = EntryOf(t) /\ EntryOf(t) \in Entries \cup {None}
  BY Typed DEF EntryOf
<1>3. OpExclusive'
  <2>1. CASE ReaderHolds(s)'
    <3>1. /\ \A t \in Streams \ {s} : EntryOf(t) = EntryOf(s) => ~ReaderHolds(t)
          /\ \A t \in Streams : EntryOf(t) = EntryOf(s) => ~AcqHolds(t)
          /\ \A l \in Leases, c \in Sources : leases[l].entry = EntryOf(s) => ~RelHolds(l, c)
      BY <2>1, OthersWaitForReader
    <3>2. \A t \in Streams : /\ t # s => (ReaderHolds(t)' <=> ReaderHolds(t))
                             /\ AcqHolds(t)' <=> AcqHolds(t)
      BY DEF AcqHolds, ReaderHolds
    <3>3. \A l \in Leases, c \in Sources : RelHolds(l, c)' <=> RelHolds(l, c)
      BY DEF RelHolds
    <3> HIDE DEF EntryOf, AcqHolds, ReaderHolds, RelHolds
    <3> QED BY <1>1, <1>2, <3>1, <3>2, <3>3 DEF OpExclusive
  <2>2. CASE ~ReaderHolds(s)'
    <3>1. \A t \in Streams : ReaderHolds(t)' => ReaderHolds(t)
      BY <2>2 DEF ReaderHolds
    <3> QED BY <1>1, <1>2, <3>1, OpKept DEF AcqHolds, RelHolds
  <2> QED BY <2>1, <2>2
<1>4. \A t \in Streams : AcqHolds(t) =>
         CurrentLease(t)' = CurrentLease(t) /\ (entries'[EntryOf(t)].scroll => entries[EntryOf(t)].scroll)
  <2> SUFFICES ASSUME NEW t \in Streams, AcqHolds(t)
               PROVE  entries'[EntryOf(t)] = entries[EntryOf(t)]
    BY <1>2 DEF CurrentLease
  <2>1. EntryOf(t) \in Entries
    BY DEF AcquireFits, AcquiringFits, AcqHolds
  <2> QED BY <2>1, OthersWaitForReader
<1>5. \A t \in Streams \ {s} : ReaderHolds(t) => CurrentLease(t)' = CurrentLease(t)
  <2> SUFFICES ASSUME NEW t \in Streams \ {s}, ReaderHolds(t)
               PROVE  entries'[EntryOf(t)].lease = entries[EntryOf(t)].lease
    BY <1>2 DEF CurrentLease
  <2>1. EntryOf(t) \in Entries
    BY Typed, Bounds DEF ReaderFits, ResizingFits, ReaderHolds, LeasesFit, LeaseFits, Taken
  <2> QED BY <2>1, OthersWaitForReader
<1>6. \A l \in Leases, c \in Sources : RelHolds(l, c) =>
         entries'[leases[l].entry].lease = entries[leases[l].entry].lease
  <2> SUFFICES ASSUME NEW l \in Leases, NEW c \in Sources, RelHolds(l, c)
               PROVE  entries'[leases[l].entry] = entries[leases[l].entry]
    OBVIOUS
  <2>1. leases[l].entry \in Entries
    BY DEF ReleaseFits, ReleasingFits, RelHolds, LeasesFit, LeaseFits
  <2> QED BY <2>1, OthersWaitForReader
<1>7. StreamsFit' /\ LeasesFit' /\ EntriesFit' /\ AcquireFits' /\ ReaderFits'
  BY <1>2, <1>4, <1>5, PartsKept
<1>8. ReleaseFits'
  BY <1>6, ReleaseKept
<1>9. RegistryOwnsScroll'
  BY <1>2, RegistryKept
<1> QED BY <1>3, <1>7, <1>8, <1>9

\* The lease a read loop works with.
LEMMA Reading ==
    ASSUME IInv, NEW s \in Streams, reader[s].stage # "idle"
    PROVE  LET l == reader[s].lease
           IN  /\ l \in Leases /\ Taken(l) /\ leases[l].holder = s
               /\ leases[l].entry = EntryOf(s) /\ EntryOf(s) \in Entries
               /\ ResizingFits(s)
<1> USE DEF IInv, ControlFits
<1>1. ResizingFits(s)
  BY DEF ReaderFits
<1>2. reader[s].lease \in Leases /\ leases[reader[s].lease].holder = s
  BY <1>1, Typed DEF ResizingFits
<1> QED BY <1>1, <1>2, Bounds DEF LeasesFit, LeaseFits, Taken

\* The types a read loop deals with.
LEMMA ReadTypes ==
    ASSUME TypeOK
    PROVE  /\ entries \in [Entries -> EntryType] /\ leases \in [Leases -> LeaseType]
           /\ streams \in [Streams -> StreamType]
           /\ reader \in [Streams -> [stage : ReaderStages, lease : 0..MaxLeases]]
           /\ target \in [Leases -> TargetType] /\ reports \in [Leases -> ReportType]
           /\ observer \in [Streams -> [lease : 0..MaxLeases, seq : 0..MaxSeq]]
           /\ wire \in [Entries -> [lease : 0..MaxLeases, seq : 0..MaxSeq]]
BY DEF TypeOK

LEMMA RequestTypes ==
    ASSUME TypeOK, NEW l \in Leases
    PROVE  /\ target[l] \in TargetType /\ target[l].seq \in 0..MaxSeq /\ target[l].seq \in Nat
           /\ reports[l] \in ReportType /\ reports[l].submitted \in Nat
           /\ reports[l].observed \in [1..MaxSeq -> 0..2]
<1>1. target[l] \in TargetType /\ reports[l] \in ReportType
  BY ReadTypes
<1>2. target[l].seq \in 0..MaxSeq
  BY <1>1 DEF TargetType
<1>3. reports[l].submitted \in 0..MaxSeq /\ reports[l].observed \in [1..MaxSeq -> 0..2]
  BY <1>1 DEF ReportType
<1> QED BY <1>1, <1>2, <1>3, Bounds

\* The reader of s is at a stage, with its lease or none.
LEMMA ReaderSet ==
    ASSUME TypeOK, NEW s \in Streams, NEW stage \in ReaderStages
    PROVE  /\ reader' = [reader EXCEPT ![s].stage = stage] =>
                 /\ reader' \in [Streams -> [stage : ReaderStages, lease : 0..MaxLeases]]
                 /\ reader'[s].stage = stage /\ reader'[s].lease = reader[s].lease
                 /\ \A t \in Streams \ {s} : reader'[t] = reader[t]
           /\ \A l \in Leases \cup {None} : reader' = [reader EXCEPT ![s] = [stage |-> stage, lease |-> l]] =>
                 /\ reader' \in [Streams -> [stage : ReaderStages, lease : 0..MaxLeases]]
                 /\ reader'[s] = [stage |-> stage, lease |-> l]
                 /\ \A t \in Streams \ {s} : reader'[t] = reader[t]
<1>1. reader \in [Streams -> [stage : ReaderStages, lease : 0..MaxLeases]]
  BY ReadTypes
<1>2. reader[s] \in [stage : ReaderStages, lease : 0..MaxLeases]
  BY <1>1
<1>3. ASSUME reader' = [reader EXCEPT ![s].stage = stage]
      PROVE  /\ reader' \in [Streams -> [stage : ReaderStages, lease : 0..MaxLeases]]
             /\ reader'[s].stage = stage /\ reader'[s].lease = reader[s].lease
             /\ \A t \in Streams \ {s} : reader'[t] = reader[t]
  <2> DEFINE r == [reader[s] EXCEPT !.stage = stage]
  <2>1. r \in [stage : ReaderStages, lease : 0..MaxLeases] /\ r.stage = stage /\ r.lease = reader[s].lease
    BY <1>2
  <2>2. reader' = [reader EXCEPT ![s] = r]
    BY <1>3
  <2> HIDE DEF r
  <2> QED BY <1>1, <2>1, <2>2
<1>4. ASSUME NEW l \in Leases \cup {None}, reader' = [reader EXCEPT ![s] = [stage |-> stage, lease |-> l]]
      PROVE  /\ reader' \in [Streams -> [stage : ReaderStages, lease : 0..MaxLeases]]
             /\ reader'[s] = [stage |-> stage, lease |-> l]
             /\ \A t \in Streams \ {s} : reader'[t] = reader[t]
  <2>1. [stage |-> stage, lease |-> l] \in [stage : ReaderStages, lease : 0..MaxLeases]
    BY Bounds DEF Leases
  <2> QED BY <1>1, <1>4, <2>1
<1> QED BY <1>3, <1>4

\* What a step that publishes nothing tells, when leases fade.
LEMMA FadingTells ==
    ASSUME IInv, Fades, LetsGo, UNCHANGED <<streams, acq, rel, told>>
    PROVE  ToldFits'
<1>1. \A l \in Leases : /\ leases'[l].holder = leases[l].holder
                        /\ leases'[l].confirmed = leases[l].confirmed
                        /\ leases[l].revoked => leases'[l].revoked
  BY DEF Fades, FadesAt
<1>2. \A e \in Entries : entries'[e].lease = entries[e].lease \/ entries'[e].lease = None
  BY DEF LetsGo
<1> QED BY <1>1, <1>2, ToldKept DEF IInv, ControlFits, EntryOf

LEMMA RequestResizeKeeps ==
    ASSUME IInv, NEW s \in Streams, RequestResize(s)
    PROVE  IInv'
<1> DEFINE l == CurrentLease(s)
<1>1. /\ UNCHANGED <<runtime, entries, leases, streams, acq, rel, target, observer, wire, reports, told>>
      /\ reader[s].stage = "idle" /\ streams[s].listed /\ l # None /\ leases[l].holder = s
      /\ reader' = [reader EXCEPT ![s] = [stage |-> "resize", lease |-> l]]
  BY DEF RequestResize, Holds, registryVars, resizeVars
<1>2. l \in Leases
  <2>1. EntryOf(s) \in Entries
    BY <1>1, Typed DEF IInv, ControlFits, StreamsFit, EntryOf
  <2> QED BY <1>1, <2>1, Typed DEF IInv, CurrentLease
<1> HIDE DEF l
<1>3. /\ reader' \in [Streams -> [stage : ReaderStages, lease : 0..MaxLeases]]
      /\ reader'[s] = [stage |-> "resize", lease |-> l]
      /\ \A t \in Streams \ {s} : reader'[t] = reader[t]
  BY <1>1, <1>2, ReaderSet DEF IInv, ReaderStages
<1>4. TypeOK'
  BY <1>1, <1>3 DEF IInv, TypeOK
<1>5. Fades /\ LetsGo
  BY <1>1, SameLeasesFade DEF IInv, LetsGo
<1>6. ResizingFits(s)'
  BY <1>1, <1>3 DEF ResizingFits
<1>7. ReportsFit' /\ WireFits'
  <2>1. \A t \in Streams : reader'[t].stage \in {"writing", "written"} => reader'[t] = reader[t]
    BY <1>3
  <2> QED BY <1>1, <2>1, ReportsKept, WireKept DEF IInv, ControlFits
<1>8. ToldFits'
  BY <1>1, <1>5, FadingTells
<1> QED BY <1>1, <1>3, <1>4, <1>5, <1>6, <1>7, <1>8, ReaderStepKeeps DEF ReaderHolds

\* A lease is stopped by the read loop that found it unusable or failed to
\* write: the second half is ResizeLeaseStopped.
LEMMA ReaderStopsKeeps ==
    ASSUME IInv, NEW s \in Streams, reader[s].stage # "idle", reader[s].stage # "release",
           ReaderHolds(s) \/ ~Busy(EntryOf(s)),
           UNCHANGED <<runtime, entries, streams, acq, rel, target, observer, reports, told>>,
           leases' = Stopping(reader[s].lease),
           reader' = [reader EXCEPT ![s].stage = "stopping"],
           wire' \in [Entries -> [lease : 0..MaxLeases, seq : 0..MaxSeq]], WireFits'
    PROVE  IInv'
<1> DEFINE l == reader[s].lease
<1>1. l \in Leases /\ Taken(l) /\ leases[l].holder = s /\ l # None
  BY Reading, Bounds
<1>2. /\ reader' \in [Streams -> [stage : ReaderStages, lease : 0..MaxLeases]]
      /\ reader'[s].stage = "stopping" /\ reader'[s].lease = l
      /\ \A t \in Streams \ {s} : reader'[t] = reader[t]
  BY ReaderSet DEF IInv, ReaderStages
<1>3. /\ Fades /\ leases' \in [Leases -> LeaseType]
      /\ leases'[l].revoked /\ leases'[l].controller # "live"
  BY <1>1, StoppingFades DEF IInv
<1>4. LetsGo
  BY DEF LetsGo
<1>5. TypeOK'
  BY <1>2, <1>3 DEF IInv, TypeOK
<1>6. ResizingFits(s)'
  BY <1>1, <1>2, <1>3 DEF ResizingFits, Fades, FadesAt
<1>7. ReportsFit'
  <2>1. \A t \in Streams : reader'[t].stage \in {"writing", "written"} => reader'[t] = reader[t]
    BY <1>2
  <2>2. \A m \in Leases : leases'[m].holder = leases[m].holder
    BY <1>3 DEF Fades, FadesAt
  <2> QED BY <2>1, <2>2, ReportsKept DEF IInv
<1>8. ToldFits'
  BY <1>3, <1>4, FadingTells
<1> QED BY <1>2, <1>3, <1>4, <1>5, <1>6, <1>7, <1>8, ReaderStepKeeps

\* A read loop that goes back to its messages.
LEMMA ReaderReturnsKeeps ==
    ASSUME IInv, NEW s \in Streams, reader[s].stage # "release",
           UNCHANGED <<runtime, entries, leases, streams, acq, rel, observer, wire, told>>,
           reader' = [reader EXCEPT ![s] = [stage |-> "idle", lease |-> None]],
           target' \in [Leases -> TargetType], reports' \in [Leases -> ReportType],
           ReportsFit', WireFits'
    PROVE  IInv'
<1>1. /\ reader' \in [Streams -> [stage : ReaderStages, lease : 0..MaxLeases]]
      /\ reader'[s] = [stage |-> "idle", lease |-> None]
      /\ \A t \in Streams \ {s} : reader'[t] = reader[t]
  BY ReaderSet DEF IInv, ReaderStages
<1>2. TypeOK'
  BY <1>1 DEF IInv, TypeOK
<1>3. Fades /\ LetsGo
  BY SameLeasesFade DEF IInv, LetsGo
<1>4. ResizingFits(s)'
  BY <1>1 DEF ResizingFits
<1>5. ToldFits'
  BY <1>3, FadingTells
<1> QED BY <1>1, <1>2, <1>3, <1>4, <1>5, ReaderStepKeeps DEF ReaderHolds

\* A later request becomes the target of the lease of s.
LEMMA TargetKept ==
    ASSUME IInv, NEW s \in Streams, reader[s].stage = "resize", NEW q \in 1..MaxSeq,
           NEW l \in Leases, l = reader[s].lease, q > target[l].seq,
           UNCHANGED <<leases, observer, reports, wire>>,
           target' = [target EXCEPT ![l] = [seq |-> q, observed |-> FALSE, submitted |-> FALSE]],
           \A t \in Streams \ {s} : reader'[t] = reader[t],
           reader'[s].stage \in {"writing", "idle"},
           reader'[s].stage = "writing" => reader'[s].lease = l
    PROVE  target' \in [Leases -> TargetType] /\ ReportsFit' /\ WireFits'
<1> USE DEF IInv
<1>1. /\ leases[l].holder = s /\ target \in [Leases -> TargetType]
      /\ reports \in [Leases -> ReportType]
      /\ wire \in [Entries -> [lease : 0..MaxLeases, seq : 0..MaxSeq]]
      /\ q \in Nat
  BY Reading, ReadTypes, Bounds
<1>2. /\ target'[l] = [seq |-> q, observed |-> FALSE, submitted |-> FALSE]
      /\ \A m \in Leases \ {l} : target'[m] = target[m]
  BY <1>1
<1>3. target' \in [Leases -> TargetType]
  <2>1. [seq |-> q, observed |-> FALSE, submitted |-> FALSE] \in TargetType
    BY Bounds DEF TargetType
  <2> QED BY <1>1, <2>1
<1>4. target[l].seq \in Nat /\ target[l].seq < q
  BY <1>1, RequestTypes
<1>5. /\ reports[l].submitted \in Nat /\ reports[l].submitted <= target[l].seq
      /\ TargetFits(l)
  BY <1>1, RequestTypes DEF ReportsFit, TargetFits
<1>6. \A t \in Streams \ {s} : reader[t].stage # "idle" => reader[t].lease # l
  BY <1>1, Reading
<1>7. ReportsFit'
  <2>1. TargetFits(l)'
    <3>1. reports' = reports /\ reports[l].submitted < q
      BY <1>1, <1>4, <1>5
    <3>2. target'[l].seq = q /\ ~target'[l].observed /\ ~target'[l].submitted
      BY <1>2
    <3>3. reports[l].observed[q] = 0 /\ \A p \in 1..MaxSeq : /\ reports[l].observed[p] <= 1
              /\ p > reports[l].submitted => reports[l].observed[p] = 0
      BY <1>1, <1>5, <3>1 DEF TargetFits
    <3> QED BY <1>1, <1>5, <3>1, <3>2, <3>3 DEF TargetFits
  <2>2. \A m \in Leases \ {l} : TargetFits(m)'
    BY <1>2 DEF ReportsFit, TargetFits
  <2>3. ASSUME NEW t \in Streams PROVE ObserverFits(t)'
    <3>1. ObserverFits(t) /\ observer[t].lease \in Leases \cup {None} /\ observer[t].seq \in Nat
      BY ReadTypes, Typed, Bounds DEF ReportsFit
    <3>2. CASE observer[t].lease = l
      <4>1. l # None => observer[t].seq < q
        BY <1>4, <1>5, <3>1, <3>2 DEF ObserverFits
      <4> QED BY <1>2, <1>4, <3>1, <3>2, <4>1 DEF ObserverFits
    <3>3. CASE observer[t].lease # l
      BY <1>2, <3>1, <3>3 DEF ObserverFits
    <3> QED BY <3>2, <3>3
  <2>4. ASSUME NEW t \in Streams \ {s} PROVE WriterFits(t)'
    <3>1. WriterFits(t) /\ reader'[t] = reader[t]
      BY DEF ReportsFit
    <3>2. reader[t].stage # "idle" => reader[t].lease \in Leases \ {l}
      BY <1>6, Reading
    <3> QED BY <1>2, <3>1, <3>2 DEF WriterFits
  <2>5. WriterFits(s)'
    BY <1>2, <1>4 DEF WriterFits
  <2> QED BY <2>1, <2>2, <2>3, <2>4, <2>5 DEF ReportsFit
<1>8. WireFits'
  <2> SUFFICES ASSUME NEW e \in Entries PROVE WireFitsAt(e)'
    BY DEF WireFits
  <2>1. /\ WireFitsAt(e) /\ wire[e].lease \in Leases \cup {None} /\ wire[e].seq \in Nat
    BY <1>1, Typed, Bounds DEF WireFits
  <2>2. CASE wire[e].lease = l
    <3>1. \A t \in Streams : reader'[t].stage = "writing" /\ reader'[t].lease = l => t = s
      BY <1>6
    <3> QED BY <1>2, <1>4, <2>1, <2>2, <3>1 DEF WireFitsAt
  <2>3. CASE wire[e].lease # l
    <3>1. \A t \in Streams : reader'[t].stage = "writing" /\ reader'[t].lease = wire[e].lease
             => reader[t].stage = "writing" /\ reader[t].lease = wire[e].lease
      BY <2>3
    <3> QED BY <1>2, <2>1, <2>3, <3>1 DEF WireFitsAt
  <2> QED BY <2>2, <2>3
<1> QED BY <1>3, <1>7, <1>8

LEMMA StartResizeKeeps ==
    ASSUME IInv, NEW s \in Streams, StartResize(s)
    PROVE  IInv'
<1>1. /\ UNCHANGED <<runtime, entries, streams, acq, rel, observer, wire, reports, told>>
      /\ reader[s].stage = "resize" /\ ~Busy(EntryOf(s))
  BY DEF StartResize, registryVars
<1>2. PICK l \in Leases : l = reader[s].lease /\ leases[l].holder = s /\ l # None
  BY <1>1, Reading, Bounds
<1>3. /\ target \in [Leases -> TargetType] /\ reports \in [Leases -> ReportType]
      /\ wire \in [Entries -> [lease : 0..MaxLeases, seq : 0..MaxSeq]]
  BY ReadTypes DEF IInv
<1>4. CASE leases' = Stopping(l) /\ SetReader(s, "stopping") /\ UNCHANGED target
  <2>1. \A t \in Streams : reader'[t].stage = "writing" => reader'[t] = reader[t]
    BY <1>4, ReaderSet DEF IInv, SetReader, ReaderStages
  <2>2. \A m \in Leases : leases'[m].entry = leases[m].entry
    BY <1>1, <1>2, <1>4, StoppingFades, Reading DEF IInv, Fades, FadesAt
  <2>3. WireFits'
    BY <1>1, <1>4, <2>1, <2>2, WireKept DEF IInv, ControlFits
  <2> QED BY <1>1, <1>2, <1>3, <1>4, <2>3, ReaderStopsKeeps DEF SetReader
<1>5. CASE ReaderIdle(s) /\ UNCHANGED <<leases, target>>
  <2>1. \A t \in Streams : reader'[t].stage \in {"writing", "written"} => reader'[t] = reader[t]
    BY <1>5, ReaderSet DEF IInv, ReaderIdle, ReaderStages
  <2>2. ReportsFit' /\ WireFits'
    BY <1>1, <1>5, <2>1, ReportsKept, WireKept DEF IInv, ControlFits
  <2> QED BY <1>1, <1>3, <1>5, <2>2, ReaderReturnsKeeps DEF ReaderIdle
<1>6. ASSUME CurrentLease(s) = l, leases[l].confirmed, UNCHANGED leases, NEW q \in 1..MaxSeq, Newer(l, q),
             target' = [target EXCEPT ![l] = [seq |-> q, observed |-> FALSE, submitted |-> FALSE]],
             SetReader(s, "writing") \/ ReaderIdle(s)
      PROVE  IInv'
  <2>1. CASE SetReader(s, "writing")
    <3>1. /\ reader' \in [Streams -> [stage : ReaderStages, lease : 0..MaxLeases]]
          /\ reader'[s].stage = "writing" /\ reader'[s].lease = l
          /\ \A t \in Streams \ {s} : reader'[t] = reader[t]
      BY <1>2, <2>1, ReaderSet DEF IInv, SetReader, ReaderStages
    <3>2. target' \in [Leases -> TargetType] /\ ReportsFit' /\ WireFits'
      BY <1>1, <1>2, <1>6, <3>1, TargetKept DEF Newer
    <3>3. TypeOK'
      BY <1>1, <1>6, <3>1, <3>2 DEF IInv, TypeOK
    <3>4. Fades /\ LetsGo
      BY <1>1, <1>6, SameLeasesFade DEF IInv, LetsGo
    <3>5. ResizingFits(s)'
      BY <1>1, <1>2, <1>6, <3>1 DEF ResizingFits, CurrentLease, EntryOf
    <3>6. ToldFits'
      BY <1>1, <3>4, FadingTells
    <3> QED BY <1>1, <3>1, <3>2, <3>3, <3>4, <3>5, <3>6, ReaderStepKeeps
  <2>2. CASE ReaderIdle(s)
    <3>1. reader'[s].stage = "idle" /\ \A t \in Streams \ {s} : reader'[t] = reader[t]
      BY <2>2, ReaderSet DEF IInv, ReaderIdle, ReaderStages
    <3>2. target' \in [Leases -> TargetType] /\ ReportsFit' /\ WireFits'
      BY <1>1, <1>2, <1>6, <3>1, TargetKept DEF Newer
    <3> QED BY <1>1, <1>3, <1>6, <2>2, <3>2, ReaderReturnsKeeps DEF ReaderIdle
  <2> QED BY <1>6, <2>1, <2>2
<1> QED BY <1>2, <1>4, <1>5, <1>6 DEF StartResize

\* Only the read loop of its holder writes with a lease, and its output loop
\* alone reports what it observed.
LEMMA OwnRequests ==
    ASSUME IInv, NEW s \in Streams, NEW l \in Leases, leases[l].holder = s
    PROVE  /\ \A t \in Streams \ {s} : reader[t].stage # "idle" => reader[t].lease # l
           /\ \A t \in Streams \ {s} : observer[t].lease # l
           /\ TargetFits(l) /\ WriterFits(s) /\ ObserverFits(s)
<1>1. \A t \in Streams \ {s} : observer[t].lease # l
  <2> SUFFICES ASSUME NEW t \in Streams, observer[t].lease = l PROVE t = s
    OBVIOUS
  <2>1. ObserverFits(t) /\ l # None
    BY Bounds DEF IInv, ReportsFit
  <2> QED BY <2>1 DEF ObserverFits
<1> QED BY <1>1, Reading DEF IInv, ReportsFit

\* The wire gets the target of the lease that writes.
LEMMA WireSet ==
    ASSUME IInv, NEW s \in Streams, reader[s].stage = "writing",
           NEW l \in Leases, l = reader[s].lease,
           wire' = [wire EXCEPT ![EntryOf(s)] = [lease |-> l, seq |-> target[l].seq]],
           target' = target, \A m \in Leases : leases'[m].entry = leases[m].entry,
           \A t \in Streams \ {s} : reader'[t] = reader[t], reader'[s].stage # "writing"
    PROVE  wire' \in [Entries -> [lease : 0..MaxLeases, seq : 0..MaxSeq]] /\ WireFits'
<1> PICK e \in Entries : e = EntryOf(s)
  BY Reading
<1>1. /\ leases[l].holder = s /\ leases[l].entry = e
      /\ target[l].seq \in 0..MaxSeq /\ target[l].seq \in Nat
      /\ wire \in [Entries -> [lease : 0..MaxLeases, seq : 0..MaxSeq]]
  BY Reading, RequestTypes, ReadTypes DEF IInv
<1>2. [lease |-> l, seq |-> target[l].seq] \in [lease : 0..MaxLeases, seq : 0..MaxSeq]
  BY <1>1, Bounds DEF Leases
<1>3. /\ wire' \in [Entries -> [lease : 0..MaxLeases, seq : 0..MaxSeq]]
      /\ wire'[e] = [lease |-> l, seq |-> target[l].seq]
      /\ \A f \in Entries \ {e} : wire'[f] = wire[f]
  BY <1>1, <1>2
<1>4. \A t \in Streams : reader'[t].stage = "writing" => t # s /\ reader'[t] = reader[t] /\ reader[t].lease # l
  BY <1>1, OwnRequests
<1>5. WireFitsAt(e)'
  BY <1>1, <1>3, <1>4 DEF WireFitsAt
<1>6. ASSUME NEW f \in Entries \ {e} PROVE WireFitsAt(f)'
  <2>1. WireFitsAt(f) /\ wire[f].lease \in Leases \cup {None} /\ wire'[f] = wire[f]
    BY <1>3, Typed DEF IInv, WireFits
  <2> QED BY <1>4, <2>1 DEF WireFitsAt
<1> QED BY <1>3, <1>5, <1>6 DEF WireFits

LEMMA ResizeFailsKeeps ==
    ASSUME IInv, NEW s \in Streams, ResizeFails(s)
    PROVE  IInv'
<1>1. /\ UNCHANGED <<runtime, entries, streams, acq, rel, target, observer, reports, told>>
      /\ reader[s].stage = "writing"
      /\ reader' = [reader EXCEPT ![s].stage = "stopping"]
  BY DEF ResizeFails, SetReader, registryVars
<1>2. PICK l \in Leases : l = reader[s].lease /\ Taken(l)
  BY <1>1, Reading
<1>3. /\ leases' = Stopping(l)
      /\ wire' = wire \/ wire' = [wire EXCEPT ![EntryOf(s)] = [lease |-> l, seq |-> target[l].seq]]
  BY <1>2 DEF ResizeFails
<1>4. \A m \in Leases : leases'[m].entry = leases[m].entry
  BY <1>2, <1>3, StoppingFades DEF IInv, Fades, FadesAt
<1>5. reader'[s].stage = "stopping" /\ \A t \in Streams \ {s} : reader'[t] = reader[t]
  BY <1>1, ReaderSet DEF IInv, ReaderStages
<1>6. wire' \in [Entries -> [lease : 0..MaxLeases, seq : 0..MaxSeq]] /\ WireFits'
  <2>1. CASE wire' = wire
    <3>1. \A t \in Streams : reader'[t].stage = "writing" => reader'[t] = reader[t]
      BY <1>5
    <3> QED BY <1>1, <1>4, <2>1, <3>1, WireKept, ReadTypes DEF IInv, ControlFits
  <2>2. CASE wire' = [wire EXCEPT ![EntryOf(s)] = [lease |-> l, seq |-> target[l].seq]]
    BY <1>1, <1>2, <1>4, <1>5, <2>2, WireSet
  <2> QED BY <1>3, <2>1, <2>2
<1> QED BY <1>1, <1>2, <1>3, <1>6, ReaderStopsKeeps DEF ReaderHolds

LEMMA ResizeWrittenKeeps ==
    ASSUME IInv, NEW s \in Streams, ResizeWritten(s)
    PROVE  IInv'
<1>1. /\ UNCHANGED <<runtime, entries, leases, streams, acq, rel, target, observer, told>>
      /\ reader[s].stage = "writing"
      /\ reader' = [reader EXCEPT ![s].stage = "written"]
  BY DEF ResizeWritten, SetReader, registryVars
<1>2. PICK l \in Leases : l = reader[s].lease /\ leases[l].holder = s
  BY <1>1, Reading
<1>3. /\ wire' = [wire EXCEPT ![EntryOf(s)] = [lease |-> l, seq |-> target[l].seq]]
      /\ reports' = [reports EXCEPT ![l].submitted = target[l].seq]
  BY <1>2 DEF ResizeWritten
<1>4. /\ reader' \in [Streams -> [stage : ReaderStages, lease : 0..MaxLeases]]
      /\ reader'[s].stage = "written" /\ reader'[s].lease = l
      /\ \A t \in Streams \ {s} : reader'[t] = reader[t]
  BY <1>1, <1>2, ReaderSet DEF IInv, ReaderStages
<1>5. wire' \in [Entries -> [lease : 0..MaxLeases, seq : 0..MaxSeq]] /\ WireFits'
  BY <1>1, <1>2, <1>3, <1>4, WireSet
<1>6. /\ target[l].seq \in 0..MaxSeq /\ target[l].seq \in Nat /\ reports[l] \in ReportType
      /\ reports[l].submitted \in Nat /\ reports[l].observed \in [1..MaxSeq -> 0..2]
      /\ reports \in [Leases -> ReportType]
  BY RequestTypes, ReadTypes DEF IInv
<1>7. /\ reports' \in [Leases -> ReportType]
      /\ reports'[l].submitted = target[l].seq /\ reports'[l].observed = reports[l].observed
      /\ \A m \in Leases \ {l} : reports'[m] = reports[m]
  <2> DEFINE r == [reports[l] EXCEPT !.submitted = target[l].seq]
  <2>1. r \in ReportType /\ r.submitted = target[l].seq /\ r.observed = reports[l].observed
    BY <1>6 DEF ReportType
  <2>2. reports' = [reports EXCEPT ![l] = r]
    BY <1>3
  <2> HIDE DEF r
  <2> QED BY <1>6, <2>1, <2>2
<1>8. ReportsFit'
  <2>1. TargetFits(l) /\ ~target[l].submitted /\ target[l].seq # 0
    BY <1>1, <1>2, OwnRequests DEF WriterFits
  <2>2. TargetFits(l)'
    BY <1>1, <1>6, <1>7, <2>1 DEF TargetFits
  <2>3. \A m \in Leases \ {l} : TargetFits(m)'
    BY <1>1, <1>7 DEF IInv, ReportsFit, TargetFits
  <2>4. ASSUME NEW t \in Streams PROVE ObserverFits(t)'
    <3>1. ObserverFits(t) /\ observer[t].lease \in Leases \cup {None} /\ observer[t].seq \in Nat
      BY ReadTypes, Typed, Bounds DEF IInv, ReportsFit
    <3>2. CASE observer[t].lease = l
      <4>1. reports[l].submitted <= target[l].seq
        BY <2>1 DEF TargetFits
      <4> QED BY <1>1, <1>6, <1>7, <3>1, <3>2, <4>1 DEF ObserverFits
    <3>3. CASE observer[t].lease # l
      BY <1>1, <1>7, <3>1, <3>3 DEF ObserverFits
    <3> QED BY <3>2, <3>3
  <2>5. ASSUME NEW t \in Streams \ {s} PROVE WriterFits(t)'
    <3>1. WriterFits(t) /\ reader'[t] = reader[t]
      BY <1>4 DEF IInv, ReportsFit
    <3>2. reader[t].stage # "idle" => reader[t].lease \in Leases \ {l}
      BY <1>2, OwnRequests, Reading
    <3> QED BY <1>1, <1>7, <3>1, <3>2 DEF WriterFits
  <2>6. WriterFits(s)'
    BY <1>1, <1>4, <1>7, <2>1 DEF WriterFits
  <2> QED BY <2>2, <2>3, <2>4, <2>5, <2>6 DEF ReportsFit
<1>9. TypeOK'
  BY <1>1, <1>4, <1>5, <1>7 DEF IInv, TypeOK
<1>10. Fades /\ LetsGo
  BY <1>1, SameLeasesFade DEF IInv, LetsGo
<1>11. ResizingFits(s)'
  <2>1. CurrentLease(s) = l /\ leases[l].confirmed /\ l # None
    BY <1>1, <1>2, Reading, Bounds DEF ResizingFits
  <2> QED BY <1>1, <1>2, <1>4, <2>1 DEF ResizingFits, CurrentLease, EntryOf
<1>12. ToldFits'
  BY <1>1, <1>10, FadingTells
<1> QED BY <1>1, <1>4, <1>5, <1>8, <1>9, <1>10, <1>11, <1>12, ReaderStepKeeps DEF ReaderHolds

\* One more report of a request that was observed.
OneMoreReport(l, q) ==
    reports' = [reports EXCEPT ![l].observed[q] = IF @ = 2 THEN 2 ELSE @ + 1]

LEMMA ReportAdded ==
    ASSUME TypeOK, NEW l \in Leases, NEW q \in 1..MaxSeq, reports[l].observed[q] = 0,
           OneMoreReport(l, q)
    PROVE  /\ reports' \in [Leases -> ReportType]
           /\ reports'[l].submitted = reports[l].submitted
           /\ reports'[l].observed[q] = 1
           /\ \A p \in 1..MaxSeq \ {q} : reports'[l].observed[p] = reports[l].observed[p]
           /\ \A m \in Leases \ {l} : reports'[m] = reports[m]
<1> DEFINE o == [reports[l].observed EXCEPT ![q] = 1]
           r == [reports[l] EXCEPT !.observed = o]
<1>1. /\ reports \in [Leases -> ReportType] /\ reports[l] \in ReportType
      /\ reports[l].observed \in [1..MaxSeq -> 0..2]
  BY ReadTypes, RequestTypes
<1>2. reports' = [reports EXCEPT ![l] = r]
  <2> DEFINE x == IF reports[l].observed[q] = 2 THEN 2 ELSE reports[l].observed[q] + 1
  <2>1. x = 1
    OBVIOUS
  <2>2. reports' = [reports EXCEPT ![l] = [reports[l] EXCEPT !.observed = [reports[l].observed EXCEPT ![q] = x]]]
    BY DEF OneMoreReport
  <2> QED BY <2>1, <2>2
<1>3. /\ o \in [1..MaxSeq -> 0..2] /\ o[q] = 1
      /\ \A p \in 1..MaxSeq \ {q} : o[p] = reports[l].observed[p]
  <2>1. 1 \in 0..2 /\ reports[l].observed \in [1..MaxSeq -> 0..2] /\ q \in 1..MaxSeq
    BY <1>1
  <2> QED BY ONLY <2>1
<1> HIDE DEF o
<1>4. r \in ReportType /\ r.submitted = reports[l].submitted /\ r.observed = o
  BY <1>1, <1>3 DEF ReportType
<1> HIDE DEF r
<1> QED BY <1>1, <1>2, <1>3, <1>4

LEMMA ResizeSubmittedKeeps ==
    ASSUME IInv, NEW s \in Streams, ResizeSubmitted(s)
    PROVE  IInv'
<1>1. /\ UNCHANGED <<runtime, entries, leases, streams, acq, rel, observer, wire, told>>
      /\ reader[s].stage = "written"
      /\ reader' = [reader EXCEPT ![s] = [stage |-> "idle", lease |-> None]]
  BY DEF ResizeSubmitted, ReaderIdle, registryVars
<1>2. PICK l \in Leases : l = reader[s].lease /\ leases[l].holder = s
  BY <1>1, Reading
<1>3. PICK q : q = target[l].seq
  OBVIOUS
<1>4. /\ target' = [target EXCEPT ![l].submitted = TRUE]
      /\ reports' = IF ~target[l].observed THEN reports
                    ELSE [reports EXCEPT ![l].observed[q] = IF @ = 2 THEN 2 ELSE @ + 1]
  BY <1>2, <1>3 DEF ResizeSubmitted
<1>5. /\ TargetFits(l) /\ q # 0 /\ ~target[l].submitted /\ reports[l].submitted = q
  BY <1>1, <1>2, <1>3, OwnRequests DEF WriterFits
<1>6. /\ q \in 1..MaxSeq /\ reports \in [Leases -> ReportType] /\ target \in [Leases -> TargetType]
      /\ target[l] \in TargetType /\ reports[l].observed[q] = 0
  <2>1. q \in 0..MaxSeq /\ target[l] \in TargetType
    BY <1>3, RequestTypes DEF IInv
  <2>2. q \in 1..MaxSeq
    BY <1>5, <2>1, Bounds
  <2> QED BY <1>3, <1>5, <2>1, <2>2, ReadTypes DEF IInv, TargetFits
<1>7. /\ target' \in [Leases -> TargetType]
      /\ target'[l].seq = q /\ target'[l].observed = target[l].observed /\ target'[l].submitted
      /\ \A m \in Leases \ {l} : target'[m] = target[m]
  <2> DEFINE r == [target[l] EXCEPT !.submitted = TRUE]
  <2>1. r \in TargetType /\ r.seq = q /\ r.observed = target[l].observed /\ r.submitted
    BY <1>3, <1>6 DEF TargetType
  <2>2. target' = [target EXCEPT ![l] = r]
    BY <1>4
  <2> HIDE DEF r
  <2> QED BY <1>6, <2>1, <2>2
<1>8. /\ reports' \in [Leases -> ReportType]
      /\ reports'[l].submitted = q
      /\ reports'[l].observed[q] = IF target[l].observed THEN 1 ELSE 0
      /\ \A p \in 1..MaxSeq \ {q} : reports'[l].observed[p] = reports[l].observed[p]
      /\ \A m \in Leases \ {l} : reports'[m] = reports[m]
  <2>1. CASE target[l].observed
    <3>1. OneMoreReport(l, q)
      BY <1>4, <2>1 DEF OneMoreReport
    <3> QED BY <1>5, <1>6, <2>1, <3>1, ReportAdded DEF IInv
  <2>2. CASE ~target[l].observed
    BY <1>4, <1>5, <1>6, <2>2
  <2> QED BY <2>1, <2>2
<1>9. reader'[s].stage = "idle" /\ \A t \in Streams \ {s} : reader'[t] = reader[t]
  BY <1>1, ReaderSet DEF IInv, ReaderStages
<1>10. \A t \in Streams \ {s} : reader[t].stage # "idle" => reader[t].lease \in Leases \ {l}
  BY <1>2, OwnRequests, Reading
<1>11. ReportsFit'
  <2>1. TargetFits(l)'
    <3>1. \A p \in 1..MaxSeq : /\ p > q => reports'[l].observed[p] = 0
                               /\ reports'[l].observed[p] <= 1
      <4> SUFFICES ASSUME NEW p \in 1..MaxSeq
                   PROVE  /\ p > q => reports'[l].observed[p] = 0
                          /\ reports'[l].observed[p] <= 1
        OBVIOUS
      <4>1. CASE p = q
        BY <1>6, <1>8, <4>1
      <4>2. CASE p # q
        BY <1>5, <1>8, <4>2 DEF TargetFits
      <4> QED BY <4>1, <4>2
    <3> QED BY <1>6, <1>7, <1>8, <3>1 DEF TargetFits
  <2>2. \A m \in Leases \ {l} : TargetFits(m)'
    BY <1>7, <1>8 DEF IInv, ReportsFit, TargetFits
  <2>3. ASSUME NEW t \in Streams PROVE ObserverFits(t)'
    <3>1. ObserverFits(t) /\ observer[t].lease \in Leases \cup {None} /\ observer[t].seq \in 0..MaxSeq
      BY ReadTypes, Typed DEF IInv, ReportsFit
    <3>2. CASE observer[t].lease = l
      <4>1. (observer[t].seq # q /\ observer[t].seq \in 1..MaxSeq) \/ l = None
        BY <1>3, <1>5, <3>1, <3>2, Bounds DEF ObserverFits
      <4> QED BY <1>1, <1>5, <1>7, <1>8, <3>1, <3>2, <4>1, Bounds DEF ObserverFits
    <3>3. CASE observer[t].lease # l
      BY <1>1, <1>7, <1>8, <3>1, <3>3 DEF ObserverFits
    <3> QED BY <3>2, <3>3
  <2>4. ASSUME NEW t \in Streams PROVE WriterFits(t)'
    BY <1>7, <1>8, <1>9, <1>10 DEF WriterFits, IInv, ReportsFit
  <2> QED BY <2>1, <2>2, <2>3, <2>4 DEF ReportsFit
<1>12. WireFits'
  <2> SUFFICES ASSUME NEW e \in Entries PROVE WireFitsAt(e)'
    BY DEF WireFits
  <2>1. WireFitsAt(e) /\ wire[e].lease \in Leases \cup {None}
    BY Typed DEF IInv, WireFits
  <2>2. wire[e].lease # None => target'[wire[e].lease].seq = target[wire[e].lease].seq
    BY <1>3, <1>7, <2>1
  <2> QED BY <1>1, <1>9, <2>1, <2>2 DEF WireFitsAt
<1> QED BY <1>1, <1>7, <1>8, <1>11, <1>12, ReaderReturnsKeeps

\* A step of the output loop, which touches the requests of the lease of s only.
LEMMA OutputKeeps ==
    ASSUME IInv, TypeOK', NEW s \in Streams,
           UNCHANGED <<entries, leases, streams, acq, rel, reader, wire, told>>,
           \A m \in Leases : target'[m].seq = target[m].seq,
           ReportsFit'
    PROVE  IInv'
<1>1. Fades /\ LetsGo
  BY SameLeasesFade DEF IInv, LetsGo
<1>2. WireFits'
  <2> SUFFICES ASSUME NEW e \in Entries PROVE WireFitsAt(e)'
    BY DEF WireFits
  <2>1. WireFitsAt(e) /\ wire[e].lease \in Leases \cup {None}
    BY Typed DEF IInv, WireFits
  <2> QED BY <2>1 DEF WireFitsAt
<1>3. ResizingFits(s)'
  BY DEF IInv, ControlFits, ReaderFits, ResizingFits, CurrentLease, EntryOf
<1>4. ToldFits'
  BY <1>1, FadingTells
<1> QED BY <1>1, <1>2, <1>3, <1>4, ReaderStepKeeps DEF ReaderHolds

LEMMA ObserveKeeps ==
    ASSUME IInv, NEW s \in Streams, Observe(s)
    PROVE  IInv'
<1>1. /\ UNCHANGED <<runtime, entries, leases, streams, acq, rel, reader, wire, reports, told>>
      /\ EntryOf(s) # 0 /\ observer[s].lease = None
  BY DEF Observe, registryVars, controlVars, EntryOf
<1>2. PICK l \in Leases : l = CurrentLease(s) /\ leases[l].holder = s
  <2>1. EntryOf(s) \in Entries
    BY <1>1, Typed DEF IInv
  <2> QED BY <2>1, Typed DEF IInv, Observe, Holds, CurrentLease
<1>3. PICK q : q = target[l].seq
  OBVIOUS
<1>4. /\ q # 0 /\ ~target[l].observed
      /\ target' = [target EXCEPT ![l].observed = TRUE]
      /\ observer' = IF target[l].submitted THEN [observer EXCEPT ![s] = [lease |-> l, seq |-> q]]
                     ELSE observer
  BY <1>2, <1>3 DEF Observe
<1>5. /\ q \in 0..MaxSeq /\ q \in Nat /\ target \in [Leases -> TargetType] /\ target[l] \in TargetType
      /\ observer \in [Streams -> [lease : 0..MaxLeases, seq : 0..MaxSeq]]
  BY <1>3, RequestTypes, ReadTypes DEF IInv
<1>6. /\ target' \in [Leases -> TargetType]
      /\ target'[l].seq = q /\ target'[l].observed /\ target'[l].submitted = target[l].submitted
      /\ \A m \in Leases \ {l} : target'[m] = target[m]
  <2> DEFINE r == [target[l] EXCEPT !.observed = TRUE]
  <2>1. r \in TargetType /\ r.seq = q /\ r.observed /\ r.submitted = target[l].submitted
    BY <1>3, <1>5 DEF TargetType
  <2>2. target' = [target EXCEPT ![l] = r]
    BY <1>4
  <2> HIDE DEF r
  <2> QED BY <1>5, <2>1, <2>2
<1>7. /\ observer' \in [Streams -> [lease : 0..MaxLeases, seq : 0..MaxSeq]]
      /\ \A t \in Streams \ {s} : observer'[t] = observer[t]
      /\ IF target[l].submitted THEN observer'[s] = [lease |-> l, seq |-> q] ELSE observer'[s].lease = None
  <2>1. [lease |-> l, seq |-> q] \in [lease : 0..MaxLeases, seq : 0..MaxSeq]
    BY <1>5, Bounds DEF Leases
  <2> QED BY <1>1, <1>4, <1>5, <2>1
<1>8. TypeOK'
  BY <1>1, <1>6, <1>7 DEF IInv, TypeOK
<1>9. ReportsFit'
  <2>1. /\ \A t \in Streams \ {s} : observer[t].lease # l
        /\ TargetFits(l)
    BY <1>2, OwnRequests
  <2>2. TargetFits(l)'
    BY <1>1, <1>3, <1>6, <2>1 DEF TargetFits
  <2>3. \A m \in Leases \ {l} : TargetFits(m)'
    BY <1>1, <1>6 DEF IInv, ReportsFit, TargetFits
  <2>4. ASSUME NEW t \in Streams \ {s} PROVE ObserverFits(t)'
    <3>1. ObserverFits(t) /\ observer[t].lease \in Leases \cup {None} /\ observer[t].lease # l
      BY <2>1, Typed DEF IInv, ReportsFit
    <3> QED BY <1>1, <1>6, <1>7, <3>1 DEF ObserverFits
  <2>5. ObserverFits(s)'
    <3>1. CASE target[l].submitted
      BY <1>1, <1>2, <1>3, <1>4, <1>5, <1>6, <1>7, <2>1, <3>1 DEF ObserverFits, TargetFits
    <3>2. CASE ~target[l].submitted
      BY <1>7, <3>2 DEF ObserverFits
    <3> QED BY <3>1, <3>2
  <2>6. ASSUME NEW t \in Streams PROVE WriterFits(t)'
    <3>1. WriterFits(t) /\ (reader[t].stage # "idle" => reader[t].lease \in Leases)
      BY Reading DEF IInv, ReportsFit
    <3>2. reader[t].stage # "idle" =>
             /\ target'[reader[t].lease].seq = target[reader[t].lease].seq
             /\ target'[reader[t].lease].submitted = target[reader[t].lease].submitted
      BY <1>3, <1>6, <3>1
    <3> QED BY <1>1, <3>1, <3>2 DEF WriterFits
  <2> QED BY <2>2, <2>3, <2>4, <2>5, <2>6 DEF ReportsFit
<1>10. \A m \in Leases : target'[m].seq = target[m].seq
  BY <1>3, <1>6
<1> QED BY <1>1, <1>8, <1>9, <1>10, OutputKeeps

LEMMA ReportObservedKeeps ==
    ASSUME IInv, NEW s \in Streams, ReportObserved(s)
    PROVE  IInv'
<1>1. /\ UNCHANGED <<runtime, entries, leases, streams, acq, rel, reader, target, wire, told>>
      /\ observer' = [observer EXCEPT ![s] = [lease |-> None, seq |-> 0]]
      /\ observer[s].lease # None
  BY DEF ReportObserved, registryVars, controlVars
<1>2. PICK l \in Leases : l = observer[s].lease
  BY <1>1, Typed DEF IInv
<1>3. PICK p : p = observer[s].seq
  OBVIOUS
<1>4. /\ leases[l].holder = s /\ p # 0 /\ p <= reports[l].submitted /\ reports[l].observed[p] = 0
      /\ p = target[l].seq => target[l].observed /\ target[l].submitted
  BY <1>1, <1>2, <1>3 DEF IInv, ReportsFit, ObserverFits
<1>5. /\ observer \in [Streams -> [lease : 0..MaxLeases, seq : 0..MaxSeq]]
      /\ p \in 1..MaxSeq
  <2>1. observer \in [Streams -> [lease : 0..MaxLeases, seq : 0..MaxSeq]]
    BY ReadTypes DEF IInv
  <2>2. p \in 0..MaxSeq
    BY <1>3, <2>1
  <2> QED BY <1>4, <2>1, <2>2, Bounds
<1>6. /\ reports' \in [Leases -> ReportType]
      /\ reports'[l].submitted = reports[l].submitted /\ reports'[l].observed[p] = 1
      /\ \A x \in 1..MaxSeq \ {p} : reports'[l].observed[x] = reports[l].observed[x]
      /\ \A m \in Leases \ {l} : reports'[m] = reports[m]
  <2>1. OneMoreReport(l, p)
    BY <1>2, <1>3 DEF ReportObserved, OneMoreReport
  <2> QED BY <1>4, <1>5, <2>1, ReportAdded DEF IInv
<1>7. /\ observer' \in [Streams -> [lease : 0..MaxLeases, seq : 0..MaxSeq]]
      /\ observer'[s].lease = None /\ \A t \in Streams \ {s} : observer'[t] = observer[t]
  <2>1. [lease |-> None, seq |-> 0] \in [lease : 0..MaxLeases, seq : 0..MaxSeq]
    BY Bounds
  <2> QED BY <1>1, <1>5, <2>1
<1>8. TypeOK'
  BY <1>1, <1>6, <1>7 DEF IInv, TypeOK
<1>9. ReportsFit'
  <2>1. /\ \A t \in Streams \ {s} : observer[t].lease # l
        /\ TargetFits(l) /\ target[l].seq \in 0..MaxSeq /\ reports[l].submitted \in Nat
    BY <1>4, OwnRequests, RequestTypes DEF IInv
  <2>2. TargetFits(l)'
    <3>1. \A x \in 1..MaxSeq : /\ x > reports[l].submitted => reports'[l].observed[x] = 0
                               /\ reports'[l].observed[x] <= 1
      <4> SUFFICES ASSUME NEW x \in 1..MaxSeq
                   PROVE  /\ x > reports[l].submitted => reports'[l].observed[x] = 0
                          /\ reports'[l].observed[x] <= 1
        OBVIOUS
      <4>1. CASE x = p
        BY <1>4, <1>6, <2>1, <4>1, Bounds
      <4>2. CASE x # p
        BY <1>6, <2>1, <4>2 DEF TargetFits
      <4> QED BY <4>1, <4>2
    <3>2. target[l].seq # 0 /\ (~target[l].observed \/ ~target[l].submitted) =>
             reports'[l].observed[target[l].seq] = 0
      <4> SUFFICES ASSUME target[l].seq # 0, ~target[l].observed \/ ~target[l].submitted
                   PROVE  reports'[l].observed[target[l].seq] = 0
        OBVIOUS
      <4>1. target[l].seq \in 1..MaxSeq /\ target[l].seq # p
        BY <1>4, <2>1, Bounds
      <4> QED BY <1>6, <2>1, <4>1 DEF TargetFits
    <3> QED BY <1>1, <1>6, <2>1, <3>1, <3>2 DEF TargetFits
  <2>3. \A m \in Leases \ {l} : TargetFits(m)'
    BY <1>1, <1>6 DEF IInv, ReportsFit, TargetFits
  <2>4. ASSUME NEW t \in Streams \ {s} PROVE ObserverFits(t)'
    <3>1. ObserverFits(t) /\ observer[t].lease \in Leases \cup {None} /\ observer[t].lease # l
      BY <2>1, Typed DEF IInv, ReportsFit
    <3> QED BY <1>1, <1>6, <1>7, <3>1 DEF ObserverFits
  <2>5. ObserverFits(s)'
    BY <1>7 DEF ObserverFits
  <2>6. ASSUME NEW t \in Streams PROVE WriterFits(t)'
    <3>1. WriterFits(t) /\ (reader[t].stage # "idle" => reader[t].lease \in Leases)
      BY Reading DEF IInv, ReportsFit
    <3>2. reader[t].stage # "idle" => reports'[reader[t].lease].submitted = reports[reader[t].lease].submitted
      BY <1>6, <3>1
    <3> QED BY <1>1, <3>1, <3>2 DEF WriterFits
  <2> QED BY <2>2, <2>3, <2>4, <2>5, <2>6 DEF ReportsFit
<1> QED BY <1>1, <1>8, <1>9, OutputKeeps

LEMMA ResizeLeaseStoppedKeeps ==
    ASSUME IInv, NEW s \in Streams, ResizeLeaseStopped(s)
    PROVE  IInv'
<1>1. /\ UNCHANGED <<runtime, leases, streams, acq, rel, target, observer, wire, reports>>
      /\ reader[s].stage = "stopping" /\ entries' = Stopped(reader[s].lease)
      /\ reader' = [reader EXCEPT ![s] = [stage |-> "idle", lease |-> None]]
      /\ Publish(EntryOf(s))
  BY DEF ResizeLeaseStopped, ReaderIdle, resizeVars
<1>2. PICK l \in Leases : l = reader[s].lease /\ leases[l].holder = s /\ leases[l].entry = EntryOf(s)
  BY <1>1, Reading
<1>3. EntryOf(s) \in Entries /\ leases \in [Leases -> LeaseType] /\ streams \in [Streams -> StreamType]
  BY <1>1, Reading, ReadTypes DEF IInv
<1>4. /\ reader' \in [Streams -> [stage : ReaderStages, lease : 0..MaxLeases]]
      /\ reader'[s] = [stage |-> "idle", lease |-> None]
      /\ \A t \in Streams \ {s} : reader'[t] = reader[t]
  BY <1>1, ReaderSet DEF IInv, ReaderStages
<1>5. /\ LetsGo /\ entries' \in [Entries -> EntryType]
      /\ \A e \in Entries : /\ entries'[e].refs = entries[e].refs
                            /\ entries'[e].scroll = entries[e].scroll
      /\ \A e \in Entries \ {EntryOf(s)} : entries'[e] = entries[e]
  BY <1>1, <1>2, <1>3, StoppedLetsGo DEF IInv
<1>6. Fades
  BY <1>1, SameLeasesFade DEF IInv
<1>7. TypeOK'
  <2>1. \A t \in Streams : streams[t].listed => EntryOf(t) # 0
    BY DEF IInv, ControlFits, StreamsFit, EntryOf
  <2>2. told' \in [Streams -> ControlStates]
    BY <1>1, <1>3, <1>5, <2>1, PublishedTypes DEF IInv, EntryOf
  <2> QED BY <1>1, <1>4, <1>5, <2>2 DEF IInv, TypeOK
<1>8. ResizingFits(s)'
  BY <1>4 DEF ResizingFits
<1>9. ReportsFit' /\ WireFits'
  <2>1. \A t \in Streams : reader'[t].stage \in {"writing", "written"} => reader'[t] = reader[t]
    BY <1>4
  <2> QED BY <1>1, <2>1, ReportsKept, WireKept DEF IInv, ControlFits
<1>10. ToldFits'
  <2>1. \A t \in Streams : EntryOf(t)' = EntryOf(t)
    BY <1>1 DEF EntryOf
  <2> QED BY <1>1, <1>3, <1>5, <2>1, ToldPublished DEF IInv, ControlFits
<1> QED BY <1>1, <1>3, <1>4, <1>5, <1>6, <1>7, <1>8, <1>9, <1>10, ReaderStepKeeps DEF ReaderHolds

(***************************************************************************)
(* Streams, the registry and the short controller.                         *)
(***************************************************************************)
\* A step of the registry: no lease changes, and a short controller comes only
\* to an entry without a lease whose op is free.
LEMMA RegistryStepKeeps ==
    ASSUME IInv, TypeOK',
           UNCHANGED <<leases, acq, reader, rel, target, observer, wire, reports, told>>,
           \A e \in Entries :
              /\ entries'[e].lease = entries[e].lease
              /\ entries'[e].scroll => entries[e].scroll \/ (entries[e].lease = None /\ ~Busy(e)),
           \A s \in Streams :
              /\ EntryOf(s)' = EntryOf(s)
              /\ streams'[s].listed => streams[s].listed /\ streams'[s].removal = streams[s].removal
              /\ streams'[s].removal # "no" => streams[s].removal # "no" \/ streams[s].listed
              /\ streams[s].removal = "release" => streams'[s].removal = "release",
           RegistryOwnsScroll'
    PROVE  IInv'
<1> USE DEF IInv, ControlFits
<1>1. Fades /\ LetsGo
  BY SameLeasesFade DEF LetsGo
<1>2. \A s \in Streams : /\ EntryOf(s) \in Entries => CurrentLease(s)' = CurrentLease(s)
                         /\ EntryOf(s) \in Entries /\ AcqHolds(s) /\ entries'[EntryOf(s)].scroll
                               => entries[EntryOf(s)].scroll
  BY DEF CurrentLease, Busy, AcqHolds
<1>3. OpExclusive'
  BY OpKept DEF AcqHolds, ReaderHolds, RelHolds
<1>4. StreamsFit' /\ LeasesFit' /\ EntriesFit' /\ AcquireFits' /\ ReaderFits'
  <2>1. \A s \in Streams : /\ AcqHolds(s) => EntryOf(s) \in Entries
                           /\ ReaderHolds(s) => EntryOf(s) \in Entries
    BY Reading DEF AcquireFits, AcquiringFits, AcqHolds, ReaderHolds
  <2> QED BY <1>1, <1>2, <2>1, PartsKept
<1>5. ReleaseFits'
  <2>1. \A l \in Leases, c \in Sources : RelHolds(l, c) =>
           entries'[leases[l].entry].lease = entries[leases[l].entry].lease
    BY DEF ReleaseFits, ReleasingFits, RelHolds, LeasesFit, LeaseFits
  <2> QED BY <1>1, <2>1, ReleaseKept
<1>6. ReportsFit' /\ WireFits'
  BY ReportsKept, WireKept
<1>7. ToldFits'
  BY <1>1, ToldKept
<1> QED BY <1>3, <1>4, <1>5, <1>6, <1>7

\* An entry whose short controller changes, and perhaps its number of streams.
LEMMA EntryUpdated ==
    ASSUME TypeOK, NEW e \in Entries, NEW n \in 0..Cardinality(Streams), NEW b \in BOOLEAN,
           entries' = [entries EXCEPT ![e].refs = n, ![e].scroll = b]
    PROVE  /\ entries' \in [Entries -> EntryType]
           /\ entries'[e].refs = n /\ entries'[e].scroll = b
           /\ entries'[e].lease = entries[e].lease
           /\ \A f \in Entries \ {e} : entries'[f] = entries[f]
<1> DEFINE r == [entries[e] EXCEPT !.refs = n, !.scroll = b]
<1>1. entries \in [Entries -> EntryType] /\ entries[e] \in EntryType
  BY ReadTypes
<1>2. r \in EntryType /\ r.refs = n /\ r.scroll = b /\ r.lease = entries[e].lease
  BY <1>1 DEF EntryType
<1>3. entries' = [entries EXCEPT ![e] = r]
  OBVIOUS
<1> HIDE DEF r
<1> QED BY <1>1, <1>2, <1>3

LEMMA ScrollSet ==
    ASSUME TypeOK, NEW e \in Entries, NEW b \in BOOLEAN,
           entries' = [entries EXCEPT ![e].scroll = b]
    PROVE  /\ entries' \in [Entries -> EntryType]
           /\ entries'[e].refs = entries[e].refs /\ entries'[e].scroll = b
           /\ entries'[e].lease = entries[e].lease
           /\ \A f \in Entries \ {e} : entries'[f] = entries[f]
<1> DEFINE r == [entries[e] EXCEPT !.scroll = b]
<1>1. entries \in [Entries -> EntryType] /\ entries[e] \in EntryType
  BY ReadTypes
<1>2. r \in EntryType /\ r.refs = entries[e].refs /\ r.scroll = b /\ r.lease = entries[e].lease
  BY <1>1 DEF EntryType
<1>3. entries' = [entries EXCEPT ![e] = r]
  OBVIOUS
<1> HIDE DEF r
<1> QED BY <1>1, <1>2, <1>3

\* The streams of an entry, which its references count.
EntryUsers(e) == {s \in Streams : EntryOf(s) = e /\ streams[s].removal # "over"}

LEMMA UsersFinite ==
    ASSUME NEW e
    PROVE  /\ IsFiniteSet(EntryUsers(e)) /\ Cardinality(EntryUsers(e)) \in Nat
           /\ IsFiniteSet(EntryUsers(e)') /\ Cardinality(EntryUsers(e)') \in Nat
           /\ Cardinality(EntryUsers(e)') <= Cardinality(Streams)
<1>1. EntryUsers(e) \in SUBSET Streams /\ EntryUsers(e)' \in SUBSET Streams
  BY DEF EntryUsers
<1> QED BY <1>1, Bounds, FS_Subset, FS_CardinalityType

\* A stream that is registered is one more user of its entry, of no other.
LEMMA UsersJoin ==
    ASSUME NEW s \in Streams, NEW e, EntryOf(s) # e, EntryOf(s)' = e,
           streams'[s].removal # "over",
           \A t \in Streams \ {s} : EntryOf(t)' = EntryOf(t) /\ streams'[t].removal = streams[t].removal
    PROVE  /\ Cardinality(EntryUsers(e)') = Cardinality(EntryUsers(e)) + 1
           /\ \A f : f # e /\ f # EntryOf(s) => EntryUsers(f)' = EntryUsers(f)
<1>1. EntryUsers(e)' = EntryUsers(e) \cup {s} /\ s \notin EntryUsers(e)
  BY DEF EntryUsers, EntryOf
<1>2. ASSUME NEW f, f # e, f # EntryOf(s) PROVE EntryUsers(f)' = EntryUsers(f)
  BY <1>2 DEF EntryUsers, EntryOf
<1> QED BY <1>1, <1>2, UsersFinite, FS_AddElement

\* A stream that is removed is one user fewer of its entry, of no other.
LEMMA UsersLeave ==
    ASSUME NEW s \in Streams, streams[s].removal # "over", streams'[s].removal = "over",
           \A t \in Streams : EntryOf(t)' = EntryOf(t),
           \A t \in Streams \ {s} : streams'[t].removal = streams[t].removal
    PROVE  /\ Cardinality(EntryUsers(EntryOf(s))') = Cardinality(EntryUsers(EntryOf(s))) - 1
           /\ Cardinality(EntryUsers(EntryOf(s))) \in Nat \ {0}
           /\ \A f : f # EntryOf(s) => EntryUsers(f)' = EntryUsers(f)
<1> PICK e : e = EntryOf(s)
  OBVIOUS
<1>1. EntryUsers(e)' = EntryUsers(e) \ {s} /\ s \in EntryUsers(e)
  BY DEF EntryUsers, EntryOf
<1>2. ASSUME NEW f, f # e PROVE EntryUsers(f)' = EntryUsers(f)
  BY <1>2 DEF EntryUsers, EntryOf
<1>3. Cardinality(EntryUsers(e)') = Cardinality(EntryUsers(e)) - 1
  BY <1>1, UsersFinite, FS_RemoveElement
<1>4. Cardinality(EntryUsers(e)) # 0
  BY <1>1, UsersFinite, FS_EmptySet
<1> QED BY <1>2, <1>3, <1>4, UsersFinite

LEMMA ScrollKeeps ==
    ASSUME IInv, NEW s \in Streams, Scroll(s)
    PROVE  IInv'
<1>1. /\ UNCHANGED <<runtime, leases, streams, acq, reader, rel, target, observer, wire, reports, told>>
      /\ streams[s].listed /\ ~Busy(EntryOf(s)) /\ CurrentLease(s) = None
      /\ entries' = [entries EXCEPT ![EntryOf(s)].scroll = TRUE]
  BY DEF Scroll, controlVars, resizeVars
<1>2. EntryOf(s) \in Entries /\ streams[s].removal = "no"
  BY <1>1, Typed DEF IInv, ControlFits, StreamsFit, EntryOf
<1>3. PICK e \in Entries : e = EntryOf(s)
  BY <1>2
<1>4. /\ entries' \in [Entries -> EntryType]
      /\ entries'[e].refs = entries[e].refs /\ entries'[e].lease = entries[e].lease
      /\ \A f \in Entries \ {e} : entries'[f] = entries[f]
  BY <1>1, <1>3, ScrollSet DEF IInv
<1>5. TypeOK'
  BY <1>1, <1>4 DEF IInv, TypeOK
<1>6. entries[e].refs # 0
  <2>1. s \in EntryUsers(e) /\ entries[e].refs = Cardinality(EntryUsers(e))
    BY <1>2, <1>3 DEF EntryUsers, IInv, RegistryOwnsScroll
  <2> QED BY <2>1, UsersFinite, FS_EmptySet
<1>7. RegistryOwnsScroll'
  BY <1>1, <1>4, <1>6, RegistryKept DEF IInv, EntryOf
<1>8. entries[e].lease = None /\ ~Busy(e)
  BY <1>1, <1>3 DEF CurrentLease
<1> QED BY <1>1, <1>4, <1>5, <1>7, <1>8, RegistryStepKeeps DEF EntryOf

LEMMA ScrollEndsKeeps ==
    ASSUME IInv, NEW e \in Entries, ScrollEnds(e)
    PROVE  IInv'
<1>1. /\ UNCHANGED <<runtime, leases, streams, acq, reader, rel, target, observer, wire, reports, told>>
      /\ entries' = [entries EXCEPT ![e].scroll = FALSE]
  BY DEF ScrollEnds, controlVars, resizeVars
<1>2. /\ entries' \in [Entries -> EntryType]
      /\ entries'[e].refs = entries[e].refs /\ entries'[e].lease = entries[e].lease
      /\ ~entries'[e].scroll
      /\ \A f \in Entries \ {e} : entries'[f] = entries[f]
  BY <1>1, ScrollSet DEF IInv
<1>3. TypeOK'
  BY <1>1, <1>2 DEF IInv, TypeOK
<1>4. RegistryOwnsScroll'
  BY <1>1, <1>2, RegistryKept DEF IInv, EntryOf
<1> QED BY <1>1, <1>2, <1>3, <1>4, RegistryStepKeeps DEF EntryOf

LEMMA UnrefKeeps ==
    ASSUME IInv, NEW s \in Streams, Unref(s)
    PROVE  IInv'
<1> DEFINE r == [streams[s] EXCEPT !.removal = "over", !.closed = TRUE]
<1>1. /\ UNCHANGED <<runtime, leases, acq, reader, rel, target, observer, wire, reports, told>>
      /\ streams[s].removal = "unref" /\ streams' = [streams EXCEPT ![s] = r]
  BY DEF Unref, controlVars, resizeVars
<1>2. PICK e \in Entries : e = EntryOf(s)
  BY <1>1, Typed DEF IInv, ControlFits, StreamsFit, EntryOf
<1>3. streams \in [Streams -> StreamType] /\ streams[s] \in StreamType
  BY ReadTypes DEF IInv
<1>4. r \in StreamType /\ r.entry = streams[s].entry /\ r.listed = streams[s].listed /\ r.removal = "over"
  BY <1>3 DEF StreamType
<1> HIDE DEF r
<1>5. /\ streams' \in [Streams -> StreamType]
      /\ streams'[s].removal = "over" /\ ~streams'[s].listed
      /\ \A t \in Streams : EntryOf(t)' = EntryOf(t)
      /\ \A t \in Streams \ {s} : streams'[t] = streams[t]
  BY <1>1, <1>3, <1>4 DEF EntryOf, IInv, ControlFits, StreamsFit
<1>6. /\ Cardinality(EntryUsers(e)') = Cardinality(EntryUsers(e)) - 1
      /\ Cardinality(EntryUsers(e)) \in Nat \ {0} /\ entries[e].refs = Cardinality(EntryUsers(e))
      /\ \A f \in Entries \ {e} : EntryUsers(f)' = EntryUsers(f)
  BY <1>1, <1>2, <1>5, UsersLeave DEF IInv, RegistryOwnsScroll, EntryUsers
<1>7. PICK n : n = entries[e].refs - 1
  OBVIOUS
<1>8. PICK b \in BOOLEAN : b <=> entries[e].scroll /\ entries[e].refs > 1
  OBVIOUS
<1>9. n \in 0..Cardinality(Streams) /\ n = Cardinality(EntryUsers(e)')
  BY <1>6, <1>7, UsersFinite, Bounds
<1>10. /\ entries' \in [Entries -> EntryType]
       /\ entries'[e].refs = n /\ entries'[e].scroll = b
       /\ entries'[e].lease = entries[e].lease
       /\ \A f \in Entries \ {e} : entries'[f] = entries[f]
  <2>1. entries' = [entries EXCEPT ![e].refs = n, ![e].scroll = b]
    BY <1>2, <1>7, <1>8 DEF Unref
  <2> QED BY <1>9, <2>1, EntryUpdated DEF IInv
<1>11. TypeOK'
  BY <1>1, <1>5, <1>10 DEF IInv, TypeOK
<1>12. RegistryOwnsScroll'
  <2> SUFFICES ASSUME NEW f \in Entries
               PROVE  entries'[f].refs = Cardinality(EntryUsers(f)') /\ (entries'[f].refs = 0 => ~entries'[f].scroll)
    BY DEF RegistryOwnsScroll, EntryUsers
  <2>1. CASE f = e
    <3>1. n = 0 => ~b
      BY <1>6, <1>7, <1>8
    <3> QED BY <1>9, <1>10, <2>1, <3>1
  <2>2. CASE f # e
    BY <1>6, <1>10, <2>2 DEF IInv, RegistryOwnsScroll, EntryUsers
  <2> QED BY <2>1, <2>2
<1>13. \A f \in Entries : /\ entries'[f].lease = entries[f].lease
                          /\ entries'[f].scroll => entries[f].scroll
  BY <1>8, <1>10
<1> QED BY <1>1, <1>5, <1>11, <1>12, <1>13, RegistryStepKeeps
(***************************************************************************)
(* Releases.                                                               *)
(***************************************************************************)
LEMMA OthersWaitForRelease ==
    ASSUME OpExclusive, NEW l \in Leases, NEW c \in Sources, RelHolds(l, c) \/ ~Busy(leases[l].entry)
    PROVE  /\ \A t \in Streams : EntryOf(t) = leases[l].entry => ~AcqHolds(t) /\ ~ReaderHolds(t)
           /\ \A m \in Leases, d \in Sources :
                 leases[m].entry = leases[l].entry /\ RelHolds(m, d) => m = l /\ d = c
<1>1. CASE RelHolds(l, c)
  <2> HIDE DEF EntryOf, AcqHolds, ReaderHolds, RelHolds
  <2> QED BY <1>1 DEF OpExclusive
<1>2. CASE ~Busy(leases[l].entry)
  BY <1>2 DEF Busy, AcqHolds, ReaderHolds, RelHolds
<1> QED BY <1>1, <1>2

LEMMA RelSet ==
    ASSUME TypeOK, NEW l \in Leases, NEW c \in Sources, NEW v \in {"no", "wait", "stop", "publish", "over"},
           rel' = [rel EXCEPT ![l][c] = v]
    PROVE  /\ rel' \in [Leases -> [Sources -> {"no", "wait", "stop", "publish", "over"}]]
           /\ rel'[l][c] = v
           /\ \A d \in Sources \ {c} : rel'[l][d] = rel[l][d]
           /\ \A m \in Leases \ {l} : rel'[m] = rel[m]
<1> DEFINE r == [rel[l] EXCEPT ![c] = v]
<1>1. /\ rel \in [Leases -> [Sources -> {"no", "wait", "stop", "publish", "over"}]]
      /\ rel[l] \in [Sources -> {"no", "wait", "stop", "publish", "over"}]
  BY DEF TypeOK
<1>2. /\ r \in [Sources -> {"no", "wait", "stop", "publish", "over"}]
      /\ r[c] = v /\ \A d \in Sources \ {c} : r[d] = rel[l][d]
  BY <1>1
<1>3. rel' = [rel EXCEPT ![l] = r]
  BY <1>1
<1> HIDE DEF r
<1> QED BY <1>1, <1>2, <1>3

\* A step of the release of l by c, which may touch the entry of l only if it
\* holds op, and with its call the reader or the removal of the holder of l.
LEMMA ReleaseStepKeeps ==
    ASSUME IInv, TypeOK', NEW l \in Leases, NEW c \in Sources, Taken(l), Fades, LetsGo,
           UNCHANGED <<acq, target, observer, wire, reports>>,
           \A m \in Leases \ {l} : rel'[m] = rel[m],
           \A d \in Sources \ {c} : rel'[l][d] = rel[l][d],
           RelHolds(l, c)' => RelHolds(l, c) \/ ~Busy(leases[l].entry),
           RelHolds(l, c) \/ UNCHANGED entries,
           \A e \in Entries : /\ entries'[e].refs = entries[e].refs
                              /\ entries'[e].scroll = entries[e].scroll
                              /\ e # leases[l].entry => entries'[e] = entries[e],
           \A s \in Streams : \/ reader'[s] = reader[s]
                              \/ /\ c = "reader" /\ s = leases[l].holder
                                 /\ reader[s].stage = "idle" \/ rel[l]["reader"] # "no"
                                 /\ reader'[s] \in {[stage |-> "idle", lease |-> None],
                                                    [stage |-> "release", lease |-> l]},
           \A s \in Streams : \/ streams'[s].removal = streams[s].removal
                              \/ /\ c = "closer" /\ s = leases[l].holder
                                 /\ streams[s].listed \/ rel[l]["closer"] # "no"
                                 /\ streams'[s].removal \in {"release", "unref"},
           \A s \in Streams :
              /\ EntryOf(s)' = EntryOf(s)
              /\ streams'[s].listed => streams[s].listed /\ streams'[s].removal = streams[s].removal
              /\ streams'[s].removal # "no" => streams[s].removal # "no" \/ streams[s].listed,
           ReleasingFits(l)', ToldFits'
    PROVE  IInv'
<1> USE DEF IInv, ControlFits
<1>1. \A m \in Leases : leases'[m].holder = leases[m].holder /\ leases'[m].entry = leases[m].entry
  BY DEF Fades, FadesAt
<1>2. leases[l].holder \in Streams /\ leases[l].entry \in Entries
  BY Typed DEF Taken, LeasesFit, LeaseFits
<1>3. OpExclusive'
  <2>1. CASE RelHolds(l, c)'
    <3>1. /\ \A t \in Streams : EntryOf(t) = leases[l].entry => ~AcqHolds(t) /\ ~ReaderHolds(t)
          /\ \A m \in Leases, d \in Sources :
                leases[m].entry = leases[l].entry /\ RelHolds(m, d) => m = l /\ d = c
      BY <2>1, OthersWaitForRelease
    <3>2. \A t \in Streams : /\ ReaderHolds(t)' <=> ReaderHolds(t)
                             /\ AcqHolds(t)' <=> AcqHolds(t)
      <4>1. ASSUME NEW t \in Streams, reader'[t] # reader[t]
            PROVE  ~ReaderHolds(t)' /\ ~ReaderHolds(t)
        <5>1. reader[t].stage = "idle" \/ reader[t].stage = "release"
          BY <1>2, <4>1 DEF ReleaseFits, ReleasingFits
        <5> QED BY <4>1, <5>1 DEF ReaderHolds
      <4> QED BY <4>1 DEF ReaderHolds, AcqHolds
    <3>3. \A m \in Leases, d \in Sources : m # l \/ d # c => (RelHolds(m, d)' <=> RelHolds(m, d))
      BY DEF RelHolds
    <3> HIDE DEF EntryOf, AcqHolds, ReaderHolds, RelHolds
    <3> QED BY <1>1, <3>1, <3>2, <3>3 DEF OpExclusive
  <2>2. CASE ~RelHolds(l, c)'
    <3>1. \A m \in Leases, d \in Sources : RelHolds(m, d)' => RelHolds(m, d)
      BY <2>2 DEF RelHolds
    <3>2. \A t \in Streams : ReaderHolds(t)' => ReaderHolds(t)
      BY DEF ReaderHolds
    <3> QED BY <1>1, <3>1, <3>2, OpKept DEF AcqHolds
  <2> QED BY <2>1, <2>2
<1>4. \A t \in Streams : AcqHolds(t) \/ ReaderHolds(t) =>
         CurrentLease(t)' = CurrentLease(t) /\ (entries'[EntryOf(t)].scroll => entries[EntryOf(t)].scroll)
  <2> SUFFICES ASSUME NEW t \in Streams, AcqHolds(t) \/ ReaderHolds(t)
               PROVE  entries'[EntryOf(t)] = entries[EntryOf(t)]
    BY DEF CurrentLease
  <2>1. EntryOf(t) \in Entries
    BY Reading DEF AcquireFits, AcquiringFits, AcqHolds, ReaderHolds
  <2> QED BY <2>1, OthersWaitForRelease
<1>5. \A t \in Streams : \/ ResizingFits(t)'
                         \/ /\ reader'[t] = reader[t] \/ reader'[t].stage = "idle"
                            /\ ReaderHolds(t) => CurrentLease(t)' = CurrentLease(t)
  <2> SUFFICES ASSUME NEW t \in Streams, reader'[t] = [stage |-> "release", lease |-> l],
                      t = leases[l].holder
               PROVE  ResizingFits(t)'
    BY <1>4
  <2> QED BY <1>1, Bounds DEF ResizingFits
<1>6. StreamsFit' /\ LeasesFit' /\ EntriesFit' /\ AcquireFits' /\ ReaderFits'
  <2>1. \A s \in Streams : /\ acq'[s] = acq[s] \/ acq'[s] = "none"
                           /\ AcqHolds(s) => CurrentLease(s)' = CurrentLease(s)
                           /\ AcqHolds(s) /\ entries'[EntryOf(s)].scroll => entries[EntryOf(s)].scroll
    BY <1>4
  <2>2. \A s \in Streams : acq[s] \in {"opening", "waiting", "checked"} =>
              \/ acq'[s] \in {"opening", "waiting", "checked"}
              \/ CurrentLease(s) # None => leases'[CurrentLease(s)].revoked
    OBVIOUS
  <2>3. \A e \in Entries : entries'[e].scroll => entries[e].scroll \/ entries[e].lease = None
    OBVIOUS
  <2> HIDE DEF CurrentLease, EntryOf, AcqHolds, ReaderHolds, RelHolds
  <2> QED BY <1>5, <2>1, <2>2, <2>3, PartsKept
<1>7. ReleaseFits'
  <2> SUFFICES ASSUME NEW m \in Leases \ {l} PROVE ReleasingFits(m)'
    BY DEF ReleaseFits
  <2>1. ReleasingFits(m) /\ ReleasingFits(l) /\ LeaseFits(m)
    BY DEF ReleaseFits, LeasesFit
  <2>2. \A d \in Sources : rel[m][d] # "no" => leases[m].holder \in Streams
    BY <2>1, Typed DEF ReleasingFits, Taken
  <2>3. {"reader", "closer"} \subseteq Sources
    BY DEF Sources
  <2>4. rel[m]["reader"] # "no" => reader'[leases[m].holder] = reader[leases[m].holder]
    BY <2>1, <2>2, <2>3 DEF ReleasingFits
  <2>5. rel[m]["closer"] # "no" =>
           streams'[leases[m].holder].removal = streams[leases[m].holder].removal
    BY <2>1, <2>2, <2>3 DEF ReleasingFits, StreamsFit
  <2>6. \A n \in Leases : rel[m]["closer"] # "no" /\ rel'[n]["closer"] # "no"
                              /\ leases[n].holder = leases[m].holder => rel[n]["closer"] # "no"
    <3>1. CASE c # "closer"
      BY <2>3, <3>1
    <3>2. CASE c = "closer"
      <4> SUFFICES ASSUME rel[m]["closer"] # "no", rel'[l]["closer"] # "no",
                          leases[l].holder = leases[m].holder, rel[l]["closer"] = "no"
                   PROVE  FALSE
        OBVIOUS
      <4>1. streams[leases[l].holder].removal = "release"
        BY <2>1 DEF ReleasingFits
      <4>2. streams'[leases[l].holder].removal = "release"
        BY <1>2, <2>5, <4>1
      <4>3. streams'[leases'[l].holder].removal = "release" /\ rel'[m]["closer"] # "no"
        BY <1>1, <4>2
      <4> QED BY <1>1, <4>3 DEF ReleasingFits
    <3> QED BY <3>1, <3>2
  <2>7. \A d \in Sources : RelHolds(m, d) =>
              entries'[leases[m].entry].lease = entries[leases[m].entry].lease
    <3> SUFFICES ASSUME NEW d \in Sources, RelHolds(m, d)
                 PROVE  entries'[leases[m].entry] = entries[leases[m].entry]
      OBVIOUS
    <3>1. leases[m].entry \in Entries
      BY <2>1 DEF ReleasingFits, RelHolds, LeaseFits
    <3> QED BY <3>1, OthersWaitForRelease
  <2> QED BY <2>1, <2>4, <2>5, <2>6, <2>7, ReleasingKept
<1>8. RegistryOwnsScroll'
  <2>1. \A s \in Streams : streams'[s].removal = "over" <=> streams[s].removal = "over"
    <3> SUFFICES ASSUME NEW s \in Streams, streams'[s].removal # streams[s].removal
                 PROVE  streams'[s].removal # "over" /\ streams[s].removal # "over"
      OBVIOUS
    <3>1. streams[s].removal \in {"no", "release"}
      BY <1>2 DEF StreamsFit, ReleaseFits, ReleasingFits
    <3> QED BY <3>1
  <2> QED BY <2>1, RegistryKept
<1>9. ReportsFit' /\ WireFits'
  <2>1. \A s \in Streams : reader'[s].stage \in {"writing", "written"} => reader'[s] = reader[s]
    OBVIOUS
  <2> QED BY <1>1, <2>1, ReportsKept, WireKept
<1> QED BY <1>3, <1>6, <1>7, <1>8, <1>9
\* A call of release revokes its lease and goes on to wait for op.
LEMMA RevokeKeeps ==
    ASSUME IInv, NEW l \in Leases, NEW c \in Sources, Taken(l),
           leases' = Revoked(l), rel' = [rel EXCEPT ![l][c] = "wait"],
           UNCHANGED <<runtime, entries, acq, target, observer, wire, reports, told>>,
           streams' \in [Streams -> StreamType],
           reader' \in [Streams -> [stage : ReaderStages, lease : 0..MaxLeases]],
           \A s \in Streams : \/ reader'[s] = reader[s]
                              \/ c = "reader" /\ s = leases[l].holder /\ reader[s].stage = "idle",
           c = "reader" => reader'[leases[l].holder] = [stage |-> "release", lease |-> l],
           \A s \in Streams : /\ EntryOf(s)' = EntryOf(s)
                              /\ \/ /\ streams'[s].listed = streams[s].listed
                                    /\ streams'[s].removal = streams[s].removal
                                 \/ c = "closer" /\ s = leases[l].holder /\ streams[s].listed,
           c = "closer" => /\ streams[leases[l].holder].listed /\ ~streams'[leases[l].holder].listed
                           /\ streams'[leases[l].holder].removal = "release",
           c = "done" => leases[l].controller = "done" /\ leases[l].confirmed /\ rel[l]["done"] = "no"
    PROVE  IInv'
<1>1. /\ Fades /\ leases' \in [Leases -> LeaseType] /\ leases'[l].revoked
      /\ leases'[l].controller = leases[l].controller
  BY RevokedFades DEF IInv
<1>2. /\ rel' \in [Leases -> [Sources -> {"no", "wait", "stop", "publish", "over"}]]
      /\ rel'[l][c] = "wait"
      /\ \A d \in Sources \ {c} : rel'[l][d] = rel[l][d]
      /\ \A m \in Leases \ {l} : rel'[m] = rel[m]
  BY RelSet DEF IInv
<1>3. \A m \in Leases : /\ leases'[m].holder = leases[m].holder /\ leases'[m].entry = leases[m].entry
                        /\ leases'[m].confirmed = leases[m].confirmed
                        /\ leases[m].revoked => leases'[m].revoked
  BY <1>1 DEF Fades, FadesAt
<1>4. LetsGo
  BY DEF LetsGo
<1>5. TypeOK'
  BY <1>1, <1>2 DEF IInv, TypeOK
<1>6. leases[l].holder \in Streams
  BY Typed DEF Taken, IInv
<1>7. \A s \in Streams : streams[s].listed => streams[s].removal = "no"
  BY DEF IInv, ControlFits, StreamsFit
<1>8. ReleasingFits(l)'
  <2>1. ReleasingFits(l) /\ \A m \in Leases : ReleasingFits(m)
    BY DEF IInv, ControlFits, ReleaseFits
  <2>2. {"reader", "closer", "done"} \subseteq Sources
    BY DEF Sources
  <2>3. \A d \in Sources :
          /\ rel'[l][d] # "no" => Taken(l)' /\ leases'[l].revoked
          /\ rel'[l][d] = "stop" => entries[leases[l].entry].lease = l /\ leases[l].controller # "live"
    BY <1>1, <1>2, <1>3, <2>1 DEF ReleasingFits, Taken
  <2>4. rel'[l]["reader"] # "no" =>
          rel'[l]["reader"] # "over" /\ reader'[leases[l].holder] = [stage |-> "release", lease |-> l]
    <3>1. CASE c = "reader"
      BY <1>2, <3>1
    <3>2. CASE c # "reader"
      BY <1>2, <1>6, <2>1, <2>2, <3>2 DEF ReleasingFits
    <3> QED BY <3>1, <3>2
  <2>5. rel'[l]["closer"] # "no" =>
          rel'[l]["closer"] # "over" /\ streams'[leases[l].holder].removal = "release"
    <3>1. CASE c = "closer"
      BY <1>2, <3>1
    <3>2. CASE c # "closer"
      BY <1>2, <1>6, <2>1, <2>2, <3>2 DEF ReleasingFits
    <3> QED BY <3>1, <3>2
  <2>6. \A m \in Leases : rel'[l]["closer"] # "no" /\ rel'[m]["closer"] # "no"
            /\ leases[l].holder = leases[m].holder => l = m
    <3> SUFFICES ASSUME NEW m \in Leases \ {l}, rel'[l]["closer"] # "no", rel[m]["closer"] # "no",
                        leases[l].holder = leases[m].holder
                 PROVE  FALSE
      BY <1>2
    <3>1. ReleasingFits(m)
      BY <2>1
    <3>2. streams[leases[l].holder].removal = "release"
      BY <3>1 DEF ReleasingFits
    <3>3. rel[l]["closer"] # "no"
      BY <1>2, <1>6, <1>7, <2>2, <3>2
    <3> QED BY <2>1, <3>3 DEF ReleasingFits
  <2>7. /\ rel'[l]["done"] # "no" => leases[l].controller = "done" /\ leases[l].confirmed
        /\ rel'[l]["done"] \in {"publish", "over"} => entries[leases[l].entry].lease # l
    BY <1>2, <2>1, <2>2 DEF ReleasingFits
  <2> QED BY <1>1, <1>3, <2>3, <2>4, <2>5, <2>6, <2>7 DEF ReleasingFits
<1>9. ToldFits'
  <2>1. \A m \in Leases, d \in Sources : rel[m][d] \in Running => rel'[m][d] \in Running
    BY <1>2 DEF Running
  <2>2. \A s \in Streams : streams'[s].listed => streams[s].listed
    OBVIOUS
  <2> QED BY <1>3, <2>1, <2>2, ToldKept DEF IInv, ControlFits
<1>10. \A s \in Streams :
          /\ EntryOf(s)' = EntryOf(s)
          /\ streams'[s].listed => streams[s].listed /\ streams'[s].removal = streams[s].removal
          /\ streams'[s].removal # "no" => streams[s].removal # "no" \/ streams[s].listed
  OBVIOUS
<1> QED BY <1>1, <1>2, <1>4, <1>5, <1>8, <1>9, <1>10, ReleaseStepKeeps DEF RelHolds

\* The lease that a stream holds was handed out to it.
LEMMA Held ==
    ASSUME IInv, NEW s \in Streams, streams[s].listed, Holds(s, CurrentLease(s))
    PROVE  CurrentLease(s) \in Leases /\ Taken(CurrentLease(s)) /\ leases[CurrentLease(s)].holder = s
<1>1. EntryOf(s) \in Entries
  BY Typed DEF IInv, ControlFits, StreamsFit, EntryOf
<1> QED BY <1>1, Typed, Bounds DEF IInv, Holds, Taken, CurrentLease

LEMMA FinishStreamKeeps ==
    ASSUME IInv, NEW s \in Streams, FinishStream(s)
    PROVE  IInv'
<1> DEFINE r == [streams[s] EXCEPT !.closing = TRUE]
<1>1. /\ UNCHANGED <<runtime, entries, acq, target, observer, wire, reports, told>>
      /\ reader[s].stage = "idle" /\ streams[s].listed
      /\ streams' = [streams EXCEPT ![s] = r]
  BY DEF FinishStream, registryVars, resizeVars
<1>2. /\ streams \in [Streams -> StreamType] /\ streams[s] \in StreamType
      /\ reader \in [Streams -> [stage : ReaderStages, lease : 0..MaxLeases]]
  BY ReadTypes DEF IInv
<1>3. /\ r \in StreamType /\ r.entry = streams[s].entry
      /\ r.listed = streams[s].listed /\ r.removal = streams[s].removal
  BY <1>2 DEF StreamType
<1> HIDE DEF r
<1>4. /\ streams' \in [Streams -> StreamType]
      /\ \A t \in Streams : /\ EntryOf(t)' = EntryOf(t)
                            /\ streams'[t].listed = streams[t].listed
                            /\ streams'[t].removal = streams[t].removal
  BY <1>1, <1>2, <1>3 DEF EntryOf
<1>5. CASE Holds(s, CurrentLease(s))
  <2>1. PICK l \in Leases : l = CurrentLease(s) /\ Taken(l) /\ leases[l].holder = s
    BY <1>1, <1>5, Held
  <2>2. /\ leases' = Revoked(l) /\ rel' = [rel EXCEPT ![l]["reader"] = "wait"]
        /\ reader' = [reader EXCEPT ![s] = [stage |-> "release", lease |-> l]]
    BY <1>5, <2>1 DEF FinishStream
  <2>3. /\ reader' \in [Streams -> [stage : ReaderStages, lease : 0..MaxLeases]]
        /\ reader'[s] = [stage |-> "release", lease |-> l]
        /\ \A t \in Streams \ {s} : reader'[t] = reader[t]
    BY <2>2, ReaderSet DEF IInv, ReaderStages
  <2>4. "reader" \in Sources /\ "reader" # "closer" /\ "reader" # "done"
    BY DEF Sources
  <2>5. \A t \in Streams : reader'[t] = reader[t] \/ (t = leases[l].holder /\ reader[t].stage = "idle")
    BY <1>1, <2>1, <2>3
  <2>6. reader'[leases[l].holder] = [stage |-> "release", lease |-> l]
    BY <2>1, <2>3
  <2>7. PICK c \in Sources : c = "reader"
    BY <2>4
  <2>8. /\ c # "closer" /\ c # "done" /\ rel' = [rel EXCEPT ![l][c] = "wait"]
        /\ \A t \in Streams :
              reader'[t] = reader[t] \/ (c = "reader" /\ t = leases[l].holder /\ reader[t].stage = "idle")
        /\ c = "reader" => reader'[leases[l].holder] = [stage |-> "release", lease |-> l]
    BY <2>2, <2>5, <2>6, <2>7
  <2>9. /\ UNCHANGED <<runtime, entries, acq, target, observer, wire, reports, told>>
        /\ Taken(l) /\ leases' = Revoked(l)
    BY <1>1, <2>1, <2>2
  <2>10. \A t \in Streams :
            /\ EntryOf(t)' = EntryOf(t)
            /\ \/ streams'[t].listed = streams[t].listed /\ streams'[t].removal = streams[t].removal
               \/ c = "closer" /\ t = leases[l].holder /\ streams[t].listed
    BY <1>4
  <2>11. /\ streams' \in [Streams -> StreamType]
         /\ reader' \in [Streams -> [stage : ReaderStages, lease : 0..MaxLeases]]
    BY <1>4, <2>3
  <2> QED BY <2>8, <2>9, <2>10, <2>11, RevokeKeeps
<1>6. CASE ~Holds(s, CurrentLease(s))
  <2>1. UNCHANGED <<leases, rel, reader>>
    BY <1>6 DEF FinishStream
  <2>2. TypeOK' /\ Fades
    BY <1>1, <1>4, <2>1, SameLeasesFade DEF IInv, TypeOK
  <2> QED BY <1>1, <1>4, <2>1, <2>2, FadingKeeps
<1> QED BY <1>5, <1>6

LEMMA RemoveStreamKeeps ==
    ASSUME IInv, NEW s \in Streams, RemoveStream(s)
    PROVE  IInv'
<1>1. PICK v : v = IF Holds(s, CurrentLease(s)) THEN "release" ELSE "unref"
  OBVIOUS
<1> DEFINE r == [streams[s] EXCEPT !.listed = FALSE, !.removal = v]
<1>2. /\ UNCHANGED <<runtime, entries, acq, reader, target, observer, wire, reports, told>>
      /\ streams[s].listed /\ streams[s].removal = "no"
      /\ streams' = [streams EXCEPT ![s] = r]
  BY <1>1 DEF RemoveStream, registryVars, resizeVars, IInv, ControlFits, StreamsFit
<1>3. /\ streams \in [Streams -> StreamType] /\ streams[s] \in StreamType
      /\ reader \in [Streams -> [stage : ReaderStages, lease : 0..MaxLeases]]
  BY ReadTypes DEF IInv
<1>4. r \in StreamType /\ r.entry = streams[s].entry /\ ~r.listed /\ r.removal = v
  BY <1>1, <1>3 DEF StreamType
<1> HIDE DEF r
<1>5. /\ streams' \in [Streams -> StreamType]
      /\ \A t \in Streams : EntryOf(t)' = EntryOf(t)
      /\ ~streams'[s].listed /\ streams'[s].removal = v
      /\ \A t \in Streams \ {s} : streams'[t] = streams[t]
  BY <1>2, <1>3, <1>4 DEF EntryOf
<1>6. CASE Holds(s, CurrentLease(s))
  <2>1. PICK l \in Leases : l = CurrentLease(s) /\ Taken(l) /\ leases[l].holder = s
    BY <1>2, <1>6, Held
  <2>2. leases' = Revoked(l) /\ rel' = [rel EXCEPT ![l]["closer"] = "wait"]
    BY <1>6, <2>1 DEF RemoveStream
  <2> QED BY <1>1, <1>2, <1>3, <1>5, <1>6, <2>1, <2>2, RevokeKeeps DEF Sources
<1>7. CASE ~Holds(s, CurrentLease(s))
  <2>1. UNCHANGED <<leases, rel>> /\ v = "unref"
    BY <1>1, <1>7 DEF RemoveStream
  <2>2. TypeOK'
    BY <1>2, <1>5, <2>1 DEF IInv, TypeOK
  <2>3. RegistryOwnsScroll'
    BY <1>2, <1>5, <2>1, RegistryKept DEF IInv
  <2> QED BY <1>2, <1>5, <2>1, <2>2, <2>3, RegistryStepKeeps
<1> QED BY <1>6, <1>7

LEMMA ReleaseMessageKeeps ==
    ASSUME IInv, NEW s \in Streams, ReleaseMessage(s)
    PROVE  IInv'
<1>1. /\ UNCHANGED <<runtime, entries, acq, streams, target, observer, wire, reports, told>>
      /\ reader[s].stage = "idle" /\ streams[s].listed /\ Holds(s, CurrentLease(s))
  BY DEF ReleaseMessage, registryVars, resizeVars
<1>2. PICK l \in Leases : l = CurrentLease(s) /\ Taken(l) /\ leases[l].holder = s
  BY <1>1, Held
<1>3. /\ leases' = Revoked(l) /\ rel' = [rel EXCEPT ![l]["reader"] = "wait"]
      /\ reader' = [reader EXCEPT ![s] = [stage |-> "release", lease |-> l]]
  BY <1>2 DEF ReleaseMessage
<1>4. /\ reader' \in [Streams -> [stage : ReaderStages, lease : 0..MaxLeases]]
      /\ reader'[s] = [stage |-> "release", lease |-> l]
      /\ \A t \in Streams \ {s} : reader'[t] = reader[t]
  BY <1>3, ReaderSet DEF IInv, ReaderStages
<1>5. streams \in [Streams -> StreamType]
  BY ReadTypes DEF IInv
<1> QED BY <1>1, <1>2, <1>3, <1>4, <1>5, RevokeKeeps DEF Sources, EntryOf

LEMMA TimerFiresKeeps ==
    ASSUME IInv, NEW l \in Leases, TimerFires(l)
    PROVE  IInv'
<1>1. /\ UNCHANGED <<runtime, entries, acq, reader, streams, target, observer, wire, reports, told>>
      /\ leases[l].armed
      /\ leases' = Revoked(l) /\ rel' = [rel EXCEPT ![l]["timer"] = "wait"]
  BY DEF TimerFires, registryVars, resizeVars
<1>2. Taken(l)
  BY <1>1 DEF IInv, ControlFits, LeasesFit, LeaseFits
<1> QED BY <1>1, <1>2, RevokeKeeps, ReadTypes DEF Sources, EntryOf, IInv

LEMMA DoneFiresKeeps ==
    ASSUME IInv, NEW l \in Leases, DoneFires(l)
    PROVE  IInv'
<1>1. /\ UNCHANGED <<runtime, entries, acq, reader, streams, target, observer, wire, reports, told>>
      /\ leases[l].confirmed /\ leases[l].controller = "done" /\ rel[l]["done"] = "no"
      /\ leases' = Revoked(l) /\ rel' = [rel EXCEPT ![l]["done"] = "wait"]
  BY DEF DoneFires, registryVars, resizeVars
<1>2. Taken(l)
  BY <1>1 DEF IInv, ControlFits, LeasesFit, LeaseFits
<1> QED BY <1>1, <1>2, RevokeKeeps, ReadTypes DEF Sources, EntryOf, IInv
\* What the end of a call changes.
LEMMA ReturnChanges ==
    ASSUME IInv, NEW l \in Leases, NEW c \in Sources, Return(l, c), rel[l][c] \in {"wait", "publish"}
    PROVE  /\ leases[l].holder \in Streams /\ leases[l].entry \in Entries /\ Taken(l) /\ leases[l].revoked
           /\ rel' \in [Leases -> [Sources -> {"no", "wait", "stop", "publish", "over"}]]
           /\ rel'[l][c] = IF c \in {"timer", "done"} THEN "over" ELSE "no"
           /\ \A d \in Sources \ {c} : rel'[l][d] = rel[l][d]
           /\ \A m \in Leases \ {l} : rel'[m] = rel[m]
           /\ reader' \in [Streams -> [stage : ReaderStages, lease : 0..MaxLeases]]
           /\ c # "reader" => reader' = reader
           /\ c = "reader" => reader'[leases[l].holder] = [stage |-> "idle", lease |-> None]
           /\ \A t \in Streams \ {leases[l].holder} : reader'[t] = reader[t]
           /\ streams' \in [Streams -> StreamType]
           /\ c # "closer" => streams' = streams
           /\ c = "closer" => /\ streams'[leases[l].holder].removal = "unref"
                              /\ ~streams[leases[l].holder].listed
                              /\ streams[leases[l].holder].removal = "release"
           /\ \A t \in Streams : /\ EntryOf(t)' = EntryOf(t) /\ streams'[t].listed = streams[t].listed
                                 /\ t # leases[l].holder => streams'[t] = streams[t]
<1>1. ReleasingFits(l) /\ LeaseFits(l)
  BY DEF IInv, ControlFits, ReleaseFits, LeasesFit
<1>2. Taken(l) /\ leases[l].revoked
  BY <1>1 DEF ReleasingFits
<1>3. PICK s \in Streams : s = leases[l].holder
  BY <1>2, Typed DEF IInv, Taken
<1>4. leases[l].entry \in Entries
  BY <1>1, <1>2 DEF LeaseFits
<1>5. /\ rel' \in [Leases -> [Sources -> {"no", "wait", "stop", "publish", "over"}]]
      /\ rel'[l][c] = IF c \in {"timer", "done"} THEN "over" ELSE "no"
      /\ \A d \in Sources \ {c} : rel'[l][d] = rel[l][d]
      /\ \A m \in Leases \ {l} : rel'[m] = rel[m]
  <2>1. CASE c \in {"timer", "done"}
    <3>1. rel' = [rel EXCEPT ![l][c] = "over"]
      BY <2>1 DEF Return
    <3>2. /\ rel' \in [Leases -> [Sources -> {"no", "wait", "stop", "publish", "over"}]]
          /\ rel'[l][c] = "over"
          /\ \A d \in Sources \ {c} : rel'[l][d] = rel[l][d]
          /\ \A m \in Leases \ {l} : rel'[m] = rel[m]
      <4>1. TypeOK
        BY DEF IInv
      <4> QED BY <3>1, <4>1, RelSet
    <3> QED BY <2>1, <3>2
  <2>2. CASE c \notin {"timer", "done"}
    <3>1. rel' = [rel EXCEPT ![l][c] = "no"]
      BY <2>2 DEF Return
    <3>2. /\ rel' \in [Leases -> [Sources -> {"no", "wait", "stop", "publish", "over"}]]
          /\ rel'[l][c] = "no"
          /\ \A d \in Sources \ {c} : rel'[l][d] = rel[l][d]
          /\ \A m \in Leases \ {l} : rel'[m] = rel[m]
      <4>1. TypeOK
        BY DEF IInv
      <4> QED BY <3>1, <4>1, RelSet
    <3> QED BY <2>2, <3>2
  <2> QED BY <2>1, <2>2
<1>6. /\ reader' \in [Streams -> [stage : ReaderStages, lease : 0..MaxLeases]]
      /\ c # "reader" => reader' = reader
      /\ c = "reader" => reader'[s] = [stage |-> "idle", lease |-> None]
      /\ \A t \in Streams \ {s} : reader'[t] = reader[t]
  <2>1. CASE c = "reader"
    <3>1. reader' = [reader EXCEPT ![s] = [stage |-> "idle", lease |-> None]]
      BY <1>3, <2>1 DEF Return
    <3> QED BY <2>1, <3>1, ReaderSet DEF IInv, ReaderStages
  <2>2. CASE c # "reader"
    BY <2>2, ReadTypes DEF Return, IInv
  <2> QED BY <2>1, <2>2
<1>7. /\ streams \in [Streams -> StreamType] /\ streams[s] \in StreamType
      /\ streams[s].listed => streams[s].removal = "no"
  BY ReadTypes DEF IInv, ControlFits, StreamsFit
<1>8. CASE c = "closer"
  <2> DEFINE r == [streams[s] EXCEPT !.removal = "unref"]
  <2>1. streams' = [streams EXCEPT ![s] = r]
    BY <1>3, <1>8 DEF Return
  <2>2. streams[s].removal = "release"
    BY <1>1, <1>3, <1>8 DEF ReleasingFits
  <2>3. r \in StreamType /\ r.entry = streams[s].entry /\ r.listed = streams[s].listed /\ r.removal = "unref"
    BY <1>7 DEF StreamType
  <2> HIDE DEF r
  <2>4. /\ streams' \in [Streams -> StreamType] /\ streams'[s].removal = "unref"
        /\ ~streams[s].listed
        /\ \A t \in Streams : /\ EntryOf(t)' = EntryOf(t) /\ streams'[t].listed = streams[t].listed
                              /\ t # s => streams'[t] = streams[t]
    BY <1>7, <2>1, <2>2, <2>3 DEF EntryOf
  <2> QED BY <1>2, <1>3, <1>4, <1>5, <1>6, <1>8, <2>2, <2>4
<1>9. CASE c # "closer"
  BY <1>2, <1>3, <1>4, <1>5, <1>6, <1>7, <1>9 DEF Return, EntryOf
<1> QED BY <1>8, <1>9

\* The end of a call, without or with a publication.
LEMMA ReturnKeeps ==
    ASSUME IInv, NEW l \in Leases, NEW c \in Sources, Return(l, c), rel[l][c] \in {"wait", "publish"},
           UNCHANGED <<runtime, entries, leases, acq, target, observer, wire, reports>>,
           told' \in [Streams -> ControlStates],
           c = "done" => entries[leases[l].entry].lease # l,
           ToldFits'
    PROVE  IInv'
<1>1. /\ leases[l].holder \in Streams /\ Taken(l) /\ leases[l].revoked
      /\ rel' \in [Leases -> [Sources -> {"no", "wait", "stop", "publish", "over"}]]
      /\ rel'[l][c] = IF c \in {"timer", "done"} THEN "over" ELSE "no"
      /\ \A d \in Sources \ {c} : rel'[l][d] = rel[l][d]
      /\ \A m \in Leases \ {l} : rel'[m] = rel[m]
      /\ reader' \in [Streams -> [stage : ReaderStages, lease : 0..MaxLeases]]
      /\ streams' \in [Streams -> StreamType]
  BY ReturnChanges
<1>2. /\ c # "reader" => reader' = reader
      /\ c = "reader" => reader'[leases[l].holder] = [stage |-> "idle", lease |-> None]
      /\ \A t \in Streams \ {leases[l].holder} : reader'[t] = reader[t]
  BY ReturnChanges
<1>3. /\ c # "closer" => streams' = streams
      /\ c = "closer" => /\ streams'[leases[l].holder].removal = "unref"
                         /\ ~streams[leases[l].holder].listed
                         /\ streams[leases[l].holder].removal = "release"
      /\ \A t \in Streams : /\ EntryOf(t)' = EntryOf(t) /\ streams'[t].listed = streams[t].listed
                            /\ t # leases[l].holder => streams'[t] = streams[t]
  BY ReturnChanges
<1>4. TypeOK'
  BY <1>1 DEF IInv, TypeOK
<1>5. Fades /\ LetsGo
  BY SameLeasesFade DEF IInv, LetsGo
<1>6. ReleasingFits(l)'
  <2>1. ReleasingFits(l) /\ \A m \in Leases : ReleasingFits(m)
    BY DEF IInv, ControlFits, ReleaseFits
  <2>2. {"reader", "closer", "done"} \subseteq Sources
    BY DEF Sources
  <2>3. \A d \in Sources :
          /\ rel'[l][d] # "no" => Taken(l)' /\ leases[l].revoked
          /\ rel'[l][d] = "stop" => entries[leases[l].entry].lease = l /\ leases[l].controller # "live"
    BY <1>1, <2>1 DEF ReleasingFits, Taken
  <2>4. rel'[l]["reader"] # "no" =>
          rel'[l]["reader"] # "over" /\ reader'[leases[l].holder] = [stage |-> "release", lease |-> l]
    BY <1>1, <1>2, <2>1, <2>2 DEF ReleasingFits
  <2>5. rel'[l]["closer"] # "no" =>
          rel'[l]["closer"] # "over" /\ streams'[leases[l].holder].removal = "release"
    BY <1>1, <1>3, <2>1, <2>2 DEF ReleasingFits
  <2>6. \A m \in Leases : rel'[l]["closer"] # "no" /\ rel'[m]["closer"] # "no"
            /\ leases[l].holder = leases[m].holder => l = m
    BY <1>1, <2>1, <2>2 DEF ReleasingFits
  <2>7. /\ rel'[l]["done"] # "no" => leases[l].controller = "done" /\ leases[l].confirmed
        /\ rel'[l]["done"] \in {"publish", "over"} => entries[leases[l].entry].lease # l
    BY <1>1, <2>1, <2>2 DEF ReleasingFits
  <2> QED BY <2>3, <2>4, <2>5, <2>6, <2>7 DEF ReleasingFits
<1>7. rel[l]["reader"] # "no" \/ c # "reader"
  OBVIOUS
<1>8. \A s \in Streams : \/ reader'[s] = reader[s]
                         \/ /\ c = "reader" /\ s = leases[l].holder
                            /\ reader[s].stage = "idle" \/ rel[l]["reader"] # "no"
                            /\ reader'[s] \in {[stage |-> "idle", lease |-> None],
                                               [stage |-> "release", lease |-> l]}
  BY <1>2
<1>9. \A s \in Streams : \/ streams'[s].removal = streams[s].removal
                         \/ /\ c = "closer" /\ s = leases[l].holder
                            /\ streams[s].listed \/ rel[l]["closer"] # "no"
                            /\ streams'[s].removal \in {"release", "unref"}
  BY <1>3
<1>10. \A s \in Streams :
          /\ EntryOf(s)' = EntryOf(s)
          /\ streams'[s].listed => streams[s].listed /\ streams'[s].removal = streams[s].removal
          /\ streams'[s].removal # "no" => streams[s].removal # "no" \/ streams[s].listed
  BY <1>3
<1>11. ~RelHolds(l, c)'
  BY <1>1 DEF RelHolds
<1> QED BY <1>1, <1>4, <1>5, <1>6, <1>8, <1>9, <1>10, <1>11, ReleaseStepKeeps

\* A step of a call that goes on: the first or the second half of stopLocked.
LEMMA ReleaseGoesOnKeeps ==
    ASSUME IInv, TypeOK', NEW l \in Leases, NEW c \in Sources, NEW v \in {"stop", "publish"},
           rel[l][c] \in {"wait", "stop"}, rel' = [rel EXCEPT ![l][c] = v],
           UNCHANGED <<acq, reader, streams, target, observer, wire, reports, told>>,
           Fades, LetsGo, leases'[l].controller # "live",
           v = "stop" => UNCHANGED entries /\ ~Busy(leases[l].entry) /\ entries[leases[l].entry].lease = l,
           v = "publish" => RelHolds(l, c),
           \A e \in Entries : /\ entries'[e].refs = entries[e].refs
                              /\ entries'[e].scroll = entries[e].scroll
                              /\ e # leases[l].entry => entries'[e] = entries[e],
           v = "publish" /\ leases[l].controller = "done" => entries'[leases[l].entry].lease # l
    PROVE  IInv'
<1>1. /\ rel'[l][c] = v
      /\ \A d \in Sources \ {c} : rel'[l][d] = rel[l][d]
      /\ \A m \in Leases \ {l} : rel'[m] = rel[m]
  BY RelSet DEF IInv
<1>2. ReleasingFits(l) /\ LeaseFits(l)
  BY DEF IInv, ControlFits, ReleaseFits, LeasesFit
<1>3. Taken(l) /\ leases[l].revoked /\ leases[l].holder \in Streams /\ leases[l].entry \in Entries
  BY <1>2, Typed DEF ReleasingFits, LeaseFits, Taken, IInv
<1>4. FadesAt(l) /\ \A m \in Leases : /\ leases'[m].holder = leases[m].holder
                                      /\ leases'[m].confirmed = leases[m].confirmed
                                      /\ leases[m].revoked => leases'[m].revoked
  BY DEF Fades, FadesAt
<1>5. ReleasingFits(l)'
  <2>1. {"reader", "closer", "done"} \subseteq Sources
    BY DEF Sources
  <2>2. \A d \in Sources : RelHolds(l, d)' => v = "stop" /\ entries[leases[l].entry].lease = l
    <3>1. v = "stop" \/ \A d \in Sources \ {c} : ~RelHolds(l, d)
      BY DEF IInv, ControlFits, OpExclusive
    <3> QED BY <1>1, <1>2, <3>1 DEF RelHolds, ReleasingFits
  <2>3. \A d \in Sources :
          /\ rel'[l][d] # "no" => Taken(l)' /\ leases'[l].revoked
          /\ rel'[l][d] = "stop" => entries'[leases[l].entry].lease = l
    BY <1>1, <1>2, <1>3, <1>4, <2>2 DEF ReleasingFits, Taken, RelHolds
  <2>4. rel'[l]["reader"] # "no" =>
          rel'[l]["reader"] # "over" /\ reader[leases[l].holder] = [stage |-> "release", lease |-> l]
    BY <1>1, <1>2, <2>1 DEF ReleasingFits
  <2>5. rel'[l]["closer"] # "no" =>
          rel'[l]["closer"] # "over" /\ streams[leases[l].holder].removal = "release"
    BY <1>1, <1>2, <2>1 DEF ReleasingFits
  <2>6. \A m \in Leases : rel'[l]["closer"] # "no" /\ rel'[m]["closer"] # "no"
            /\ leases[l].holder = leases[m].holder => l = m
    BY <1>1, <1>2, <2>1 DEF ReleasingFits
  <2>7. rel'[l]["done"] # "no" => leases[l].controller = "done" /\ leases'[l].controller = "done"
                                  /\ leases[l].confirmed
    BY <1>1, <1>2, <1>4, <2>1 DEF ReleasingFits, FadesAt
  <2>8. rel'[l]["done"] \in {"publish", "over"} => entries'[leases[l].entry].lease # l
    <3>1. CASE c = "done"
      BY <1>1, <2>7, <3>1
    <3>2. CASE c # "done"
      BY <1>1, <1>2, <1>3, <2>1, <3>2, Bounds DEF ReleasingFits, LetsGo
    <3> QED BY <3>1, <3>2
  <2> QED BY <1>4, <2>3, <2>4, <2>5, <2>6, <2>7, <2>8 DEF ReleasingFits, FadesAt
<1>6. ToldFits'
  <2>1. \A m \in Leases, d \in Sources : rel[m][d] \in Running => rel'[m][d] \in Running
    BY <1>1 DEF Running
  <2>2. \A e \in Entries : entries'[e].lease = entries[e].lease \/ entries'[e].lease = None
    BY DEF LetsGo
  <2> QED BY <1>4, <2>1, <2>2, ToldKept DEF IInv, ControlFits, EntryOf
<1>7. \A s \in Streams : EntryOf(s)' = EntryOf(s)
  BY DEF EntryOf
<1>8. RelHolds(l, c) \/ UNCHANGED entries
  OBVIOUS
<1>9. RelHolds(l, c)' => RelHolds(l, c) \/ ~Busy(leases[l].entry)
  OBVIOUS
<1>10. Fades /\ LetsGo
  OBVIOUS
<1> QED BY <1>1, <1>3, <1>5, <1>6, <1>7, <1>8, <1>9, <1>10, ReleaseStepKeeps

LEMMA StartReleaseKeeps ==
    ASSUME IInv, NEW l \in Leases, NEW c \in Sources, StartRelease(l, c)
    PROVE  IInv'
<1>1. /\ UNCHANGED <<runtime, entries, acq, target, observer, wire, reports, told>>
      /\ rel[l][c] = "wait" /\ ~Busy(leases[l].entry)
  BY DEF StartRelease, registryVars, resizeVars
<1>2. ReleasingFits(l) /\ Taken(l)
  BY <1>1 DEF IInv, ControlFits, ReleaseFits, ReleasingFits
<1>3. CASE /\ entries[leases[l].entry].lease = l
           /\ leases' = Stopping(l)
           /\ rel' = [rel EXCEPT ![l][c] = "stop"]
           /\ UNCHANGED <<reader, streams>>
  <2>1. Fades /\ leases' \in [Leases -> LeaseType] /\ leases'[l].controller # "live" /\ LetsGo
    BY <1>1, <1>2, <1>3, StoppingFades DEF IInv, LetsGo
  <2>2. TypeOK'
    BY <1>1, <1>3, <2>1, RelSet DEF IInv, TypeOK
  <2> QED BY <1>1, <1>3, <2>1, <2>2, ReleaseGoesOnKeeps
<1>4. CASE entries[leases[l].entry].lease # l /\ Return(l, c) /\ UNCHANGED leases
  <2>1. /\ \A m \in Leases \ {l} : rel'[m] = rel[m]
        /\ \A d \in Sources \ {c} : rel'[l][d] = rel[l][d]
        /\ \A t \in Streams : EntryOf(t)' = EntryOf(t) /\ streams'[t].listed = streams[t].listed
    BY <1>1, <1>4, ReturnChanges
  <2>2. \A e \in Entries : entries[e].lease # l
    BY <1>4, Bounds DEF IInv, ControlFits, EntriesFit, EntryFits
  <2>3. \A m \in Leases, d \in Sources : rel[m][d] \in Running =>
           rel'[m][d] \in Running \/ \A e \in Entries : entries'[e].lease # m
    BY <1>1, <2>1, <2>2
  <2>4. ToldFits'
    BY <1>1, <1>4, <2>1, <2>3, ToldKept DEF IInv, ControlFits
  <2> QED BY <1>1, <1>4, <2>4, ReturnKeeps DEF IInv, TypeOK
<1> QED BY <1>3, <1>4 DEF StartRelease

LEMMA ReleasedLeaseStoppedKeeps ==
    ASSUME IInv, NEW l \in Leases, NEW c \in Sources, ReleasedLeaseStopped(l, c)
    PROVE  IInv'
<1>1. /\ UNCHANGED <<runtime, leases, acq, reader, streams, target, observer, wire, reports, told>>
      /\ rel[l][c] = "stop" /\ entries' = Stopped(l) /\ rel' = [rel EXCEPT ![l][c] = "publish"]
  BY DEF ReleasedLeaseStopped, resizeVars
<1>2. /\ ReleasingFits(l) /\ Taken(l) /\ leases[l].entry \in Entries
      /\ entries[leases[l].entry].lease = l /\ leases[l].controller # "live"
  BY <1>1 DEF IInv, ControlFits, ReleaseFits, ReleasingFits, LeasesFit, LeaseFits
<1>3. /\ LetsGo /\ entries' \in [Entries -> EntryType]
      /\ \A e \in Entries : /\ entries'[e].refs = entries[e].refs
                            /\ entries'[e].scroll = entries[e].scroll
      /\ \A e \in Entries \ {leases[l].entry} : entries'[e] = entries[e]
  BY <1>1, <1>2, StoppedLetsGo DEF IInv
<1>4. leases[l].controller = "done" => entries'[leases[l].entry].lease # l
  <2> SUFFICES ASSUME leases[l].controller = "done" PROVE entries'[leases[l].entry].lease # l
    OBVIOUS
  <2> DEFINE r == [entries[leases[l].entry] EXCEPT !.lease = None]
  <2>1. entries' = [entries EXCEPT ![leases[l].entry] = r]
    BY <1>1, <1>2 DEF Stopped
  <2>2. r.lease = None
    BY <1>2, ReadTypes DEF IInv, EntryType
  <2> HIDE DEF r
  <2> QED BY <1>2, <2>1, <2>2, ReadTypes, Bounds DEF IInv
<1>5. Fades
  BY <1>1, SameLeasesFade DEF IInv
<1>6. TypeOK'
  BY <1>1, <1>3, RelSet DEF IInv, TypeOK
<1> QED BY <1>1, <1>2, <1>3, <1>4, <1>5, <1>6, ReleaseGoesOnKeeps DEF RelHolds

LEMMA PublishReleaseKeeps ==
    ASSUME IInv, NEW l \in Leases, NEW c \in Sources, PublishRelease(l, c)
    PROVE  IInv'
<1>1. /\ UNCHANGED <<runtime, entries, leases, acq, target, observer, wire, reports>>
      /\ rel[l][c] = "publish" /\ Return(l, c) /\ Publish(leases[l].entry)
  BY DEF PublishRelease, registryVars, resizeVars
<1>2. /\ leases[l].entry \in Entries /\ Taken(l)
      /\ \A m \in Leases \ {l} : rel'[m] = rel[m]
      /\ streams' \in [Streams -> StreamType]
      /\ \A t \in Streams : EntryOf(t)' = EntryOf(t) /\ streams'[t].listed = streams[t].listed
  BY <1>1, ReturnChanges
<1>3. c = "done" => entries[leases[l].entry].lease # l
  <2>1. ReleasingFits(l)
    BY DEF IInv, ControlFits, ReleaseFits
  <2>2. rel[l]["done"] = "publish" => entries[leases[l].entry].lease # l
    BY <2>1 DEF ReleasingFits
  <2> QED BY <1>1, <2>2
<1>4. told' \in [Streams -> ControlStates]
  <2>1. \A t \in Streams : streams'[t].listed => EntryOf(t)' # 0
    BY <1>2 DEF IInv, ControlFits, StreamsFit, EntryOf
  <2>2. entries' \in [Entries -> EntryType] /\ leases' \in [Leases -> LeaseType]
    BY <1>1, ReadTypes DEF IInv
  <2> QED BY <1>1, <1>2, <2>1, <2>2, PublishedTypes DEF IInv
<1>5. ToldFits'
  <2>1. \A m \in Leases : leases[m].entry \notin {0, leases[l].entry} =>
              /\ leases'[m].holder = leases[m].holder
              /\ leases'[m].confirmed = leases[m].confirmed
              /\ leases'[m].revoked = leases[m].revoked
              /\ rel'[m] = rel[m]
    BY <1>1, <1>2
  <2>2. \A f \in Entries \ {leases[l].entry} : entries'[f].lease = entries[f].lease
    BY <1>1
  <2>3. \A s \in Streams : EntryOf(s) \notin {0, leases[l].entry} => EntryOf(s)' = EntryOf(s) /\ acq'[s] = acq[s]
    BY <1>1, <1>2
  <2>4. \A s \in Streams : streams'[s].listed /\ EntryOf(s)' # leases[l].entry =>
              streams[s].listed /\ EntryOf(s)' = EntryOf(s)
    BY <1>2
  <2> QED BY <1>1, <1>2, <2>1, <2>2, <2>3, <2>4, ToldPublished DEF IInv, ControlFits
<1> QED BY <1>1, <1>3, <1>4, <1>5, ReturnKeeps
LEMMA OpenStreamKeeps ==
    ASSUME IInv, NEW s \in Streams, OpenStream(s)
    PROVE  IInv'
<1> USE DEF IInv, ControlFits
<1>1. /\ UNCHANGED <<runtime, leases, acq, reader, rel, target, observer, wire, reports>>
      /\ EntryOf(s) = 0
  BY DEF OpenStream, Register, resizeVars
<1>2. PICK e \in Entries :
         /\ entries' = [entries EXCEPT ![e].runtime = runtime, ![e].refs = @ + 1]
         /\ streams' = [streams EXCEPT ![s].entry = e, ![s].listed = TRUE]
         /\ Publish(e)
  BY DEF OpenStream, Register
<1>3. /\ streams \in [Streams -> StreamType] /\ streams[s] \in StreamType
      /\ entries \in [Entries -> EntryType] /\ entries[e] \in EntryType
      /\ leases \in [Leases -> LeaseType] /\ e \in 0..MaxEntries
  BY ReadTypes, Bounds DEF Entries
<1>4. /\ ~streams[s].listed /\ streams[s].removal = "no" /\ acq[s] = "none" /\ reader[s].stage = "idle"
  BY <1>1, Reading, Bounds DEF StreamsFit, EntryOf, AcquireFits, AcquiringFits
<1>5. /\ streams' \in [Streams -> StreamType]
      /\ EntryOf(s)' = e /\ streams'[s].listed /\ streams'[s].removal = "no"
      /\ \A t \in Streams \ {s} : streams'[t] = streams[t] /\ EntryOf(t)' = EntryOf(t)
  <2> DEFINE r == [streams[s] EXCEPT !.entry = e, !.listed = TRUE]
  <2>1. r \in StreamType /\ r.entry = e /\ r.listed /\ r.removal = "no"
    BY <1>3, <1>4 DEF StreamType
  <2>2. streams' = [streams EXCEPT ![s] = r]
    BY <1>2
  <2> HIDE DEF r
  <2> QED BY <1>3, <2>1, <2>2 DEF EntryOf
<1>6. /\ entries[e].refs = Cardinality(EntryUsers(e)) /\ Cardinality(EntryUsers(e)') = Cardinality(EntryUsers(e)) + 1
      /\ \A f \in Entries \ {e} : EntryUsers(f)' = EntryUsers(f)
  <2>1. EntryOf(s) # e /\ streams'[s].removal # "over"
    BY <1>1, <1>5, Bounds
  <2>2. \A t \in Streams \ {s} : EntryOf(t)' = EntryOf(t) /\ streams'[t].removal = streams[t].removal
    BY <1>5
  <2>3. /\ Cardinality(EntryUsers(e)') = Cardinality(EntryUsers(e)) + 1
        /\ \A f : f # e /\ f # EntryOf(s) => EntryUsers(f)' = EntryUsers(f)
    BY <1>5, <2>1, <2>2, UsersJoin
  <2> QED BY <1>1, <2>3, Bounds DEF RegistryOwnsScroll, EntryUsers
<1>7. /\ entries' \in [Entries -> EntryType]
      /\ entries'[e].refs = Cardinality(EntryUsers(e)') /\ entries'[e].refs # 0
      /\ entries'[e].lease = entries[e].lease /\ entries'[e].scroll = entries[e].scroll
      /\ \A f \in Entries \ {e} : entries'[f] = entries[f]
  <2>1. PICK n : n = entries[e].refs + 1
    OBVIOUS
  <2>2. n \in 0..Cardinality(Streams) /\ n # 0 /\ n = Cardinality(EntryUsers(e)')
    BY <1>6, <2>1, UsersFinite, Bounds
  <2> DEFINE r == [entries[e] EXCEPT !.runtime = runtime, !.refs = n]
  <2>3. runtime \in 0..MaxRuntime
    BY Bounds DEF TypeOK
  <2>4. r \in EntryType /\ r.refs = n /\ r.lease = entries[e].lease /\ r.scroll = entries[e].scroll
    BY <1>3, <2>2, <2>3 DEF EntryType
  <2>5. entries' = [entries EXCEPT ![e] = r]
    BY <1>2, <2>1
  <2> HIDE DEF r
  <2> QED BY <1>3, <2>2, <2>4, <2>5
<1>8. \A f \in Entries : entries'[f].lease = entries[f].lease /\ entries'[f].scroll = entries[f].scroll
  BY <1>7
<1>9. TypeOK'
  <2>1. \A t \in Streams : streams'[t].listed => EntryOf(t)' # 0
    BY <1>5, Bounds DEF StreamsFit, EntryOf
  <2>2. told' \in [Streams -> ControlStates]
    BY <1>1, <1>2, <1>3, <1>5, <1>7, <2>1, PublishedTypes
  <2> QED BY <1>1, <1>5, <1>7, <2>2 DEF TypeOK
<1>10. Fades /\ LetsGo
  BY <1>1, <1>8, SameLeasesFade DEF LetsGo
<1>11. OpExclusive'
  BY <1>1, <1>4, <1>5, OpKept DEF AcqHolds, ReaderHolds, RelHolds
<1>12. StreamsFit'
  BY <1>5, Bounds DEF StreamsFit, EntryOf
<1>13. LeasesFit' /\ EntriesFit'
  BY <1>1, <1>5, <1>8, <1>10, LeasesKept, EntriesKept
<1>14. AcquireFits'
  <2> SUFFICES ASSUME NEW t \in Streams PROVE AcquiringFits(t)'
    BY DEF AcquireFits
  <2>1. AcquiringFits(t) /\ acq'[t] = acq[t]
    BY <1>1 DEF AcquireFits
  <2>2. acq[t] # "none" => EntryOf(t)' = EntryOf(t) /\ EntryOf(t) \in Entries
    BY <1>4, <1>5, <2>1 DEF AcquiringFits
  <2>3. AcqHolds(t) => acq[t] # "none"
    BY DEF AcqHolds
  <2> QED BY <1>8, <1>10, <2>1, <2>2, <2>3, AcquiringKept
<1>15. ReaderFits'
  <2> SUFFICES ASSUME NEW t \in Streams PROVE ResizingFits(t)'
    BY DEF ReaderFits
  <2>1. ResizingFits(t) /\ reader'[t] = reader[t]
    BY <1>1 DEF ReaderFits
  <2>2. ReaderHolds(t) => EntryOf(t)' = EntryOf(t) /\ EntryOf(t) \in Entries
    BY <1>4, <1>5, Reading DEF ReaderHolds
  <2>3. ReaderHolds(t) => CurrentLease(t)' = CurrentLease(t)
    BY <1>8, <2>2 DEF CurrentLease
  <2> QED BY <1>10, <2>1, <2>3, ReadingKept
<1>16. ReleaseFits'
  <2>1. \A l \in Leases, c \in Sources : RelHolds(l, c) => leases[l].entry \in Entries
    BY DEF ReleaseFits, ReleasingFits, RelHolds, LeasesFit, LeaseFits
  <2> QED BY <1>1, <1>4, <1>5, <1>8, <1>10, <2>1, ReleaseKept
<1>17. RegistryOwnsScroll'
  <2> SUFFICES ASSUME NEW f \in Entries
               PROVE  entries'[f].refs = Cardinality(EntryUsers(f)') /\ (entries'[f].refs = 0 => ~entries'[f].scroll)
    BY DEF RegistryOwnsScroll, EntryUsers
  <2>1. CASE f = e
    BY <1>7, <2>1
  <2>2. CASE f # e
    BY <1>6, <1>7, <2>2 DEF RegistryOwnsScroll, EntryUsers
  <2> QED BY <2>1, <2>2
<1>18. ReportsFit' /\ WireFits'
  BY <1>1, ReportsKept, WireKept
<1>19. ToldFits'
  <2>1. \A t \in Streams : EntryOf(t) \notin {0, e} => EntryOf(t)' = EntryOf(t) /\ acq'[t] = acq[t]
    BY <1>1, <1>5
  <2>2. \A t \in Streams : streams'[t].listed /\ EntryOf(t)' # e => streams[t].listed /\ EntryOf(t)' = EntryOf(t)
    BY <1>5
  <2> QED BY <1>1, <1>2, <1>8, <2>1, <2>2, ToldPublished
<1> QED BY <1>9, <1>11, <1>12, <1>13, <1>14, <1>15, <1>16, <1>17, <1>18, <1>19

(***************************************************************************)
(* The invariant.                                                          *)
(***************************************************************************)
LEMMA InitFits ==
    ASSUME Init
    PROVE  IInv
<1> USE DEF Init
<1>1. TypeOK
  <2>1. 1..MaxSeq \in SUBSET Nat /\ 0 \in 0..MaxSeq /\ 0 \in 0..MaxLeases /\ 0 \in 0..MaxEntries
    BY Bounds
  <2>2. runtime \in 1..MaxRuntime /\ 0 \in 0..MaxRuntime /\ 0 \in 0..Cardinality(Streams)
    BY Bounds
  <2>3. entries \in [Entries -> EntryType] /\ wire \in [Entries -> [lease : 0..MaxLeases, seq : 0..MaxSeq]]
    BY <2>1, <2>2 DEF EntryType
  <2>4. leases \in [Leases -> LeaseType] /\ target \in [Leases -> TargetType]
    BY <2>1 DEF LeaseType, TargetType
  <2>5. streams \in [Streams -> StreamType] /\ acq \in [Streams -> AcquireStages]
        /\ told \in [Streams -> ControlStates]
    BY <2>1 DEF StreamType, AcquireStages, ControlStates
  <2>6. /\ reader \in [Streams -> [stage : ReaderStages, lease : 0..MaxLeases]]
        /\ observer \in [Streams -> [lease : 0..MaxLeases, seq : 0..MaxSeq]]
    BY <2>1 DEF ReaderStages
  <2>7. rel \in [Leases -> [Sources -> {"no", "wait", "stop", "publish", "over"}]]
    OBVIOUS
  <2>8. reports \in [Leases -> ReportType]
    BY <2>1 DEF ReportType
  <2> QED BY <2>2, <2>3, <2>4, <2>5, <2>6, <2>7, <2>8 DEF TypeOK
<1>2. \A s \in Streams : ~AcqHolds(s) /\ ~ReaderHolds(s)
  BY DEF AcqHolds, ReaderHolds
<1>3. \A l \in Leases, c \in Sources : ~RelHolds(l, c)
  BY DEF RelHolds
<1>4. OpExclusive
  BY <1>2, <1>3 DEF OpExclusive
<1>5. StreamsFit /\ LeasesFit /\ EntriesFit
  BY DEF StreamsFit, LeasesFit, LeaseFits, EntriesFit, EntryFits, Taken, Attached
<1>6. AcquireFits /\ ReaderFits
  BY DEF AcquireFits, AcquiringFits, ReaderFits, ResizingFits
<1>7. ReleaseFits
  BY DEF ReleaseFits, ReleasingFits, Sources
<1>8. RegistryOwnsScroll
  <2> SUFFICES ASSUME NEW e \in Entries
               PROVE  entries[e].refs = Cardinality(EntryUsers(e)) /\ ~entries[e].scroll
    BY DEF RegistryOwnsScroll, EntryUsers
  <2>1. EntryUsers(e) = {}
    BY Bounds DEF EntryUsers, EntryOf
  <2> QED BY <2>1, FS_EmptySet
<1>9. ReportsFit
  <2>1. \A l \in Leases : TargetFits(l)
    BY Bounds DEF TargetFits
  <2>2. \A s \in Streams : ObserverFits(s) /\ WriterFits(s)
    BY DEF ObserverFits, WriterFits
  <2> QED BY <2>1, <2>2 DEF ReportsFit
<1>10. WireFits /\ ToldFits
  BY DEF WireFits, WireFitsAt, ToldFits, ToldFitsTo
<1> QED BY <1>1, <1>4, <1>5, <1>6, <1>7, <1>8, <1>9, <1>10 DEF IInv, ControlFits

LEMMA StutterKeeps ==
    ASSUME IInv, UNCHANGED vars
    PROVE  IInv'
<1>1. UNCHANGED <<runtime, entries, leases, rel, acq, reader, streams, target, observer, wire, reports, told>>
  BY DEF vars, moving, registryVars, controlVars, resizeVars
<1>2. TypeOK' /\ Fades
  BY <1>1, SameLeasesFade DEF IInv, TypeOK
<1> QED BY <1>1, <1>2, FadingKeeps DEF EntryOf

LEMMA StepKeeps ==
    ASSUME IInv, [Next]_vars
    PROVE  IInv'
<1>1. CASE RuntimeChanges
  BY <1>1, RuntimeChangesKeeps
<1>2. CASE \E e \in Entries : ScrollEnds(e)
  BY <1>2, ScrollEndsKeeps
<1>3. ASSUME NEW s \in Streams, StreamStep(s) PROVE IInv'
  BY <1>3, OpenStreamKeeps, FinishStreamKeeps, CloseStreamKeeps, RemoveStreamKeeps, UnrefKeeps,
     SessionEndsKeeps, ScrollKeeps DEF StreamStep
<1>4. ASSUME NEW s \in Streams, AcquireStep(s) PROVE IInv'
  BY <1>4, RequestAcquireKeeps, StartAcquireKeeps, OldLeaseStoppedKeeps, CreateLeaseKeeps,
     ProcessOpenedKeeps, AttachTimesOutKeeps, ControllerReadyKeeps, AcquireFailsKeeps,
     FailedLeaseStoppedKeeps, ConfirmKeeps, AnswerAcquireKeeps DEF AcquireStep
<1>5. ASSUME NEW s \in Streams, ReaderStep(s) PROVE IInv'
  BY <1>5, ReleaseMessageKeeps, RequestResizeKeeps, StartResizeKeeps, ResizeWrittenKeeps,
     ResizeFailsKeeps, ResizeSubmittedKeeps, ResizeLeaseStoppedKeeps, ObserveKeeps,
     ReportObservedKeeps DEF ReaderStep
<1>6. ASSUME NEW l \in Leases, LeaseStep(l) PROVE IInv'
  BY <1>6, TimerFiresKeeps, DoneFiresKeeps, ContextStopsKeeps, ControllerEndsKeeps DEF LeaseStep
<1>7. ASSUME NEW l \in Leases, NEW c \in Sources, ReleaseStep(l, c) PROVE IInv'
  BY <1>7, StartReleaseKeeps, ReleasedLeaseStoppedKeeps, PublishReleaseKeeps DEF ReleaseStep
<1>8. CASE UNCHANGED vars
  BY <1>8, StutterKeeps
<1> QED BY <1>1, <1>2, <1>3, <1>4, <1>5, <1>6, <1>7, <1>8 DEF Next

LEMMA Invariance == Spec => []IInv
<1>1. Init => IInv
  BY InitFits
<1>2. IInv /\ [Next]_vars => IInv'
  BY StepKeeps
<1> QED BY <1>1, <1>2, PTL DEF Spec
(***************************************************************************)
(* The theorems.                                                           *)
(***************************************************************************)
\* Every variable keeps its type.
THEOREM TypeCorrect == Spec => []TypeOK
<1>1. IInv => TypeOK
  BY DEF IInv
<1> QED BY <1>1, Invariance, PTL

\* OneAttachment: at no time do two connections to Herdr control one terminal,
\* of two leases or of a lease and a wheel gesture, even while one is closing.
THEOREM OneAttachmentHolds == Spec => []OneAttachment
<1>1. IInv => OneAttachment
  <2> SUFFICES ASSUME IInv, NEW e \in Entries
               PROVE  /\ \A l, m \in Leases :
                            leases[l].entry = e /\ leases[m].entry = e /\ Attached(l) /\ Attached(m) => l = m
                      /\ entries[e].scroll => \A l \in Leases : leases[l].entry = e => ~Attached(l)
    BY DEF OneAttachment
  <2>1. \A l \in Leases : leases[l].entry = e /\ Attached(l) => entries[e].lease = l
    BY DEF IInv, ControlFits, LeasesFit, LeaseFits
  <2>2. \A l \in Leases : entries[e].lease = l => ~entries[e].scroll
    BY Bounds DEF IInv, ControlFits, EntriesFit, EntryFits
  <2> QED BY <2>1, <2>2
<1> QED BY <1>1, Invariance, PTL

\* The lease of an entry whose op is free is revoked, or confirmed.
LEMMA FreeEntry ==
    ASSUME IInv, NEW e \in Entries, entries[e].lease # None,
           \A s \in Streams : EntryOf(s) = e => acq[s] \notin {"opening", "waiting", "checked"}
    PROVE  LET l == entries[e].lease
           IN  /\ l \in Leases /\ leases[l].entry = e
               /\ leases[l].confirmed \/ leases[l].revoked
               /\ leases[l].confirmed => leases[l].controller # "none"
<1>1. PICK l \in Leases : l = entries[e].lease
  BY Typed DEF IInv
<1>2. leases[l].entry = e /\ leases[l].holder \in Streams /\ EntryOf(leases[l].holder) = e
  BY <1>1, InEntry DEF IInv, ControlFits
<1>3. EntryFits(e) /\ LeaseFits(l)
  BY DEF IInv, ControlFits, EntriesFit, LeasesFit
<1> QED BY <1>1, <1>2, <1>3 DEF EntryFits, LeaseFits

\* RoutableLease: whoever gets op and finds a lease that was not revoked may
\* write to its controller, which exists.
THEOREM RoutableLeaseHolds == Spec => []RoutableLease
<1>1. IInv => RoutableLease
  <2> SUFFICES ASSUME IInv, NEW e \in Entries, ~Busy(e), entries[e].lease # None,
                      ~leases[entries[e].lease].revoked
               PROVE  /\ leases[entries[e].lease].confirmed
                      /\ leases[entries[e].lease].controller # "none"
    BY DEF RoutableLease
  <2>1. \A s \in Streams : EntryOf(s) = e => acq[s] \notin {"opening", "waiting", "checked"}
    BY DEF Busy
  <2> QED BY <2>1, FreeEntry
<1> QED BY <1>1, Invariance, PTL

\* HolderIsTold: when nothing of an entry with a lease is under way, every
\* window that shows it was told who has control.
THEOREM HolderIsToldHolds == Spec => []HolderIsTold
<1>1. IInv => HolderIsTold
  <2> SUFFICES ASSUME IInv, NEW s \in Streams, streams[s].listed, Settled(EntryOf(s)),
                      CurrentLease(s) # None
               PROVE  told[s] = View(s)
    BY DEF HolderIsTold
  <2>1. PICK e \in Entries : e = EntryOf(s)
    BY Typed DEF IInv, ControlFits, StreamsFit, EntryOf
  <2>2. PICK l \in Leases : l = CurrentLease(s)
    BY <2>1, Typed DEF IInv, CurrentLease
  <2>3. /\ entries[e].lease = l /\ leases[l].entry = e
        /\ leases[l].holder \in Streams /\ EntryOf(leases[l].holder) = e
    BY <2>1, <2>2, InEntry DEF IInv, ControlFits, CurrentLease
  <2>4. \A t \in Streams : EntryOf(t) = e => acq[t] = "none"
    BY <2>1 DEF Settled
  <2>5. /\ \A c \in Sources : rel[l][c] \in {"no", "over"}
        /\ leases[l].controller # "closing"
        /\ leases[l].controller = "live" => ~leases[l].cancelled
        /\ leases[l].confirmed /\ leases[l].controller = "done" => rel[l]["done"] = "over"
    BY <2>1, <2>3 DEF Settled
  <2>6. /\ leases[l].confirmed \/ leases[l].revoked
        /\ leases[l].confirmed => leases[l].controller # "none"
    BY <2>2, <2>3, <2>4, FreeEntry
  <2>7. ~(leases[l].confirmed /\ leases[l].revoked)
    <3> SUFFICES ASSUME leases[l].confirmed, leases[l].revoked PROVE FALSE
      OBVIOUS
    <3>1. leases[l].cancelled
      BY DEF IInv, ControlFits, LeasesFit, LeaseFits
    <3>2. leases[l].controller \in {"none", "live", "closing", "done"}
      BY ReadTypes DEF IInv, LeaseType
    <3>3. rel[l]["done"] = "over"
      BY <2>5, <2>6, <3>1, <3>2
    <3>4. ReleasingFits(l)
      BY DEF IInv, ControlFits, ReleaseFits
    <3> QED BY <2>3, <3>3, <3>4 DEF ReleasingFits
  <2>8. ~AboutToTell(s, l)
    <3>1. \A c \in Sources : rel[l][c] \notin Running
      BY <2>5 DEF Running
    <3>2. \A t \in Streams : EntryOf(t) = EntryOf(s) => acq[t] # "answer"
      BY <2>1, <2>4
    <3>3. acq[leases[l].holder] = "none"
      BY <2>3, <2>4
    <3> QED BY <3>1, <3>2, <3>3 DEF AboutToTell
  <2> QED BY <2>2, <2>6, <2>7, <2>8, Bounds DEF IInv, ToldFits, ToldFitsTo
<1> QED BY <1>1, Invariance, PTL

\* RegistryOwnsScroll: an entry is forgotten with its last stream, and leaves
\* no short controller behind.
THEOREM RegistryOwnsScrollHolds == Spec => []RegistryOwnsScroll
<1>1. IInv => RegistryOwnsScroll
  BY DEF IInv
<1> QED BY <1>1, Invariance, PTL

\* ReportedInOrder: a resize is reported as observed once at most, and only
\* after it was reported as submitted.
THEOREM ReportedInOrderHolds == Spec => []ReportedInOrder
<1>1. IInv => ReportedInOrder
  <2> SUFFICES ASSUME IInv, NEW l \in Leases, NEW q \in 1..MaxSeq
               PROVE  /\ reports[l].observed[q] > 0 => q <= reports[l].submitted
                      /\ reports[l].observed[q] <= 1
    BY DEF ReportedInOrder
  <2>1. TargetFits(l)
    BY DEF IInv, ReportsFit
  <2>2. reports[l].submitted \in Nat /\ q \in Nat
    BY RequestTypes, Bounds DEF IInv
  <2>3. q > reports[l].submitted => reports[l].observed[q] = 0
    BY <2>1 DEF TargetFits
  <2> QED BY <2>1, <2>2, <2>3 DEF TargetFits
<1> QED BY <1>1, Invariance, PTL

\* SizeIsControlled: the size of a terminal has one controller, which is told
\* what it holds and answered in order.
THEOREM SizeIsAlwaysControlled == Spec => []SizeIsControlled
<1>1. OneAttachment /\ RoutableLease /\ HolderIsTold /\ RegistryOwnsScroll /\ ReportedInOrder
         => SizeIsControlled
  BY DEF SizeIsControlled
<1> QED BY <1>1, OneAttachmentHolds, RoutableLeaseHolds, HolderIsToldHolds, RegistryOwnsScrollHolds,
           ReportedInOrderHolds, PTL

\* An entry that lets go of a lease does so after its end.
LetsGoOfEnded ==
    \A e \in Entries :
        LET l == entries[e].lease
        IN  l # None /\ entries'[e].lease # l
              => leases[l].revoked /\ leases[l].controller \in {"none", "done"}

LEMMA StoppedIsEnded ==
    ASSUME IInv, NEW l \in Leases, leases[l].entry \in Entries, leases[l].revoked, entries' = Stopped(l)
    PROVE  LetsGoOfEnded
<1> DEFINE r == [entries[leases[l].entry] EXCEPT !.lease = None]
<1>1. CASE entries' = entries
  BY <1>1 DEF LetsGoOfEnded
<1>2. CASE /\ entries' = [entries EXCEPT ![leases[l].entry] = r]
           /\ entries[leases[l].entry].lease = l /\ leases[l].controller \in {"none", "done"}
  <2> HIDE DEF r
  <2>1. \A e \in Entries \ {leases[l].entry} : entries'[e] = entries[e]
    BY <1>2, ReadTypes DEF IInv
  <2> QED BY <1>2, <2>1 DEF LetsGoOfEnded
<1> QED BY <1>1, <1>2 DEF Stopped

LEMMA HandedOverAfterEnd ==
    ASSUME IInv, [Next]_vars
    PROVE  LetsGoOfEnded
<1> USE DEF LetsGoOfEnded
<1>1. CASE UNCHANGED entries
  BY <1>1
<1>2. CASE \E e \in Entries : ScrollEnds(e)
  BY <1>2, ScrollSet DEF ScrollEnds, IInv
<1>3. ASSUME NEW s \in Streams, StreamStep(s) PROVE LetsGoOfEnded
  <2>1. CASE OpenStream(s)
    <3>1. PICK e \in Entries : entries' = [entries EXCEPT ![e].runtime = runtime, ![e].refs = @ + 1]
      BY <2>1 DEF OpenStream, Register
    <3> DEFINE r == [entries[e] EXCEPT !.runtime = runtime, !.refs = @ + 1]
    <3>2. entries' = [entries EXCEPT ![e] = r]
      BY <3>1
    <3>3. entries[e] \in EntryType /\ entries \in [Entries -> EntryType]
      BY ReadTypes DEF IInv
    <3>4. r.lease = entries[e].lease
      BY <3>3 DEF EntryType
    <3> HIDE DEF r
    <3> QED BY <3>2, <3>3, <3>4
  <2>2. CASE Unref(s)
    <3> DEFINE r == [entries[EntryOf(s)] EXCEPT
                        !.refs = @ - 1, !.scroll = @ /\ entries[EntryOf(s)].refs > 1]
    <3>1. EntryOf(s) \in Entries
      BY <2>2, Typed DEF IInv, ControlFits, StreamsFit, EntryOf, Unref
    <3>2. entries' = [entries EXCEPT ![EntryOf(s)] = r]
      BY <2>2 DEF Unref
    <3>3. entries[EntryOf(s)] \in EntryType /\ entries \in [Entries -> EntryType]
      BY <3>1, ReadTypes DEF IInv
    <3>4. r.lease = entries[EntryOf(s)].lease
      BY <3>3 DEF EntryType
    <3> HIDE DEF r
    <3> QED BY <3>1, <3>2, <3>3, <3>4
  <2>3. CASE Scroll(s)
    <3>1. EntryOf(s) \in Entries
      BY <2>3, Typed DEF IInv, ControlFits, StreamsFit, EntryOf, Scroll
    <3> QED BY <2>3, <3>1, ScrollSet DEF Scroll, IInv
  <2>4. CASE FinishStream(s) \/ CloseStream(s) \/ RemoveStream(s) \/ SessionEnds(s)
    BY <1>1, <2>4 DEF FinishStream, CloseStream, RemoveStream, SessionEnds, registryVars
  <2> QED BY <1>3, <2>1, <2>2, <2>3, <2>4 DEF StreamStep
<1>4. ASSUME NEW s \in Streams, AcquireStep(s) PROVE LetsGoOfEnded
  <2>1. CASE StartAcquire(s)
    <3>1. EntryOf(s) \in Entries
      BY <2>1, Acquiring DEF StartAcquire
    <3>2. CASE entries' = [entries EXCEPT ![EntryOf(s)].scroll = FALSE]
      BY <3>1, <3>2, ScrollSet DEF IInv
    <3> QED BY <1>1, <2>1, <3>2 DEF StartAcquire
  <2>2. CASE OldLeaseStopped(s)
    <3>1. PICK l \in Leases : l = CurrentLease(s) /\ leases[l].entry = EntryOf(s) /\ leases[l].revoked
      BY <2>2, Acquiring DEF OldLeaseStopped, AcquiringFits
    <3>2. EntryOf(s) \in Entries
      BY <2>2, Acquiring DEF OldLeaseStopped
    <3>3. PICK freed \in BOOLEAN :
             entries' = [Stopped(l) EXCEPT ![EntryOf(s)].scroll = @ /\ freed]
      <4>1. PICK freed \in BOOLEAN : freed <=> Stopped(l)[EntryOf(s)].lease # None
        OBVIOUS
      <4> QED BY <2>2, <3>1, <4>1 DEF OldLeaseStopped
    <3>4. CASE Stopped(l) = entries
      <4> DEFINE r == [entries[EntryOf(s)] EXCEPT !.scroll = @ /\ freed]
      <4>1. entries' = [entries EXCEPT ![EntryOf(s)] = r]
        BY <3>3, <3>4
      <4>2. entries[EntryOf(s)] \in EntryType /\ entries \in [Entries -> EntryType]
        BY <3>2, ReadTypes DEF IInv
      <4>3. r.lease = entries[EntryOf(s)].lease
        BY <4>2 DEF EntryType
      <4> HIDE DEF r
      <4> QED BY <4>1, <4>2, <4>3
    <3>5. CASE leases[l].controller \in {"none", "done"}
      <4> DEFINE r == [Stopped(l)[EntryOf(s)] EXCEPT !.scroll = @ /\ freed]
      <4>1. entries' = [Stopped(l) EXCEPT ![EntryOf(s)] = r]
        BY <3>3
      <4> HIDE DEF r
      <4>2. \A f \in Entries \ {EntryOf(s)} : entries'[f] = entries[f]
        BY <3>1, <4>1, ReadTypes DEF IInv, Stopped
      <4> QED BY <3>1, <3>5, <4>2 DEF CurrentLease
    <3> QED BY <3>4, <3>5 DEF Stopped
  <2>3. CASE CreateLease(s)
    <3>1. EntryOf(s) \in Entries /\ CurrentLease(s) = None
      BY <2>3, Acquiring DEF CreateLease, AcquiringFits
    <3>2. PICK l : entries' = [entries EXCEPT ![EntryOf(s)].lease = l]
      BY <2>3 DEF CreateLease
    <3>3. \A f \in Entries \ {EntryOf(s)} : entries'[f] = entries[f]
      BY <3>1, <3>2, ReadTypes DEF IInv
    <3> QED BY <3>1, <3>3 DEF CurrentLease
  <2>4. CASE FailedLeaseStopped(s)
    <3>1. PICK l \in Leases : l = CurrentLease(s) /\ leases[l].entry = EntryOf(s) /\ leases[l].revoked
      BY <2>4, Acquiring DEF FailedLeaseStopped, AcquiringFits
    <3>2. EntryOf(s) \in Entries
      BY <2>4, Acquiring DEF FailedLeaseStopped
    <3> QED BY <2>4, <3>1, <3>2, StoppedIsEnded DEF FailedLeaseStopped
  <2>5. CASE RequestAcquire(s) \/ ProcessOpened(s) \/ AttachTimesOut(s) \/ ControllerReady(s)
             \/ AcquireFails(s) \/ Confirm(s) \/ AnswerAcquire(s)
    BY <1>1, <2>5 DEF RequestAcquire, ProcessOpened, AttachTimesOut, ControllerReady, AcquireFails,
                      Confirm, AnswerAcquire, registryVars
  <2> QED BY <1>4, <2>1, <2>2, <2>3, <2>4, <2>5 DEF AcquireStep
<1>5. ASSUME NEW s \in Streams, ReaderStep(s) PROVE LetsGoOfEnded
  <2>1. CASE ResizeLeaseStopped(s)
    <3>1. PICK l \in Leases : l = reader[s].lease /\ leases[l].entry \in Entries /\ leases[l].revoked
      BY <2>1, Reading DEF ResizeLeaseStopped, ResizingFits
    <3> QED BY <2>1, <3>1, StoppedIsEnded DEF ResizeLeaseStopped
  <2>2. CASE ReleaseMessage(s) \/ RequestResize(s) \/ StartResize(s) \/ ResizeWritten(s)
             \/ ResizeFails(s) \/ ResizeSubmitted(s) \/ Observe(s) \/ ReportObserved(s)
    BY <1>1, <2>2 DEF ReleaseMessage, RequestResize, StartResize, ResizeWritten, ResizeFails,
                      ResizeSubmitted, Observe, ReportObserved, registryVars
  <2> QED BY <1>5, <2>1, <2>2 DEF ReaderStep
<1>6. ASSUME NEW l \in Leases, LeaseStep(l) PROVE LetsGoOfEnded
  BY <1>1, <1>6 DEF LeaseStep, TimerFires, DoneFires, ContextStops, ControllerEnds, registryVars
<1>7. ASSUME NEW l \in Leases, NEW c \in Sources, ReleaseStep(l, c) PROVE LetsGoOfEnded
  <2>1. CASE ReleasedLeaseStopped(l, c)
    <3>1. ReleasingFits(l) /\ LeaseFits(l)
      BY DEF IInv, ControlFits, ReleaseFits, LeasesFit
    <3>2. leases[l].revoked /\ leases[l].entry \in Entries
      BY <2>1, <3>1 DEF ReleasedLeaseStopped, ReleasingFits, LeaseFits
    <3> QED BY <2>1, <3>2, StoppedIsEnded DEF ReleasedLeaseStopped
  <2>2. CASE StartRelease(l, c) \/ PublishRelease(l, c)
    BY <1>1, <2>2 DEF StartRelease, PublishRelease, registryVars
  <2> QED BY <1>7, <2>1, <2>2 DEF ReleaseStep
<1>8. CASE RuntimeChanges \/ UNCHANGED vars
  BY <1>1, <1>8 DEF RuntimeChanges, vars, moving, registryVars
<1> QED BY <1>2, <1>3, <1>4, <1>5, <1>6, <1>7, <1>8 DEF Next

\* What reaches a terminal is a later request than what reached it before.
WireGoesOn ==
    \A e \in Entries :
        \/ wire'[e] = wire[e]
        \/ wire'[e].lease > wire[e].lease
        \/ wire'[e].lease = wire[e].lease /\ wire'[e].seq > wire[e].seq

LEMMA WriteGoesOn ==
    ASSUME IInv, NEW s \in Streams, reader[s].stage = "writing",
           wire' = [wire EXCEPT ![EntryOf(s)] =
                      [lease |-> reader[s].lease, seq |-> target[reader[s].lease].seq]]
    PROVE  WireGoesOn
<1>1. PICK l \in Leases : l = reader[s].lease
  BY Reading
<1>2. PICK e \in Entries : e = EntryOf(s)
  BY Reading
<1>3. entries[e].lease = l /\ wire[e].lease \in Leases \cup {None}
  BY <1>1, <1>2, Reading, Typed DEF ResizingFits, CurrentLease, IInv
<1>4. /\ wire \in [Entries -> [lease : 0..MaxLeases, seq : 0..MaxSeq]]
      /\ target[l].seq \in Nat
  BY ReadTypes, RequestTypes DEF IInv
<1>5. wire'[e] = [lease |-> l, seq |-> target[l].seq] /\ \A f \in Entries \ {e} : wire'[f] = wire[f]
  BY <1>1, <1>2, <1>4
<1>6. wire[e].seq \in Nat
  BY <1>4
<1>7. CASE wire[e].lease = None
  BY <1>5, <1>7, Bounds DEF WireGoesOn, Leases
<1>8. CASE wire[e].lease \in Leases
  <2>1. WireFitsAt(e) /\ EntryFits(e)
    BY DEF IInv, ControlFits, WireFits, EntriesFit
  <2>2. wire[e].lease <= l
    BY <1>3, <1>8, <2>1, Bounds DEF WireFitsAt, EntryFits
  <2>3. wire[e].lease = l => wire[e].seq < target[l].seq
    BY <1>1, <1>8, <2>1, Bounds DEF WireFitsAt
  <2> QED BY <1>4, <1>5, <1>6, <1>8, <2>2, <2>3, Bounds DEF WireGoesOn
<1> QED BY <1>3, <1>7, <1>8

LEMMA ResizedInOrder ==
    ASSUME IInv, [Next]_vars
    PROVE  WireGoesOn
<1>1. CASE UNCHANGED wire
  BY <1>1 DEF WireGoesOn
<1>2. ASSUME NEW s \in Streams, ReaderStep(s) PROVE WireGoesOn
  <2>1. CASE ResizeWritten(s)
    BY <2>1, WriteGoesOn DEF ResizeWritten
  <2>2. CASE ResizeFails(s)
    BY <1>1, <2>2, WriteGoesOn DEF ResizeFails
  <2>3. CASE ReleaseMessage(s) \/ RequestResize(s) \/ StartResize(s) \/ ResizeSubmitted(s)
             \/ ResizeLeaseStopped(s) \/ Observe(s) \/ ReportObserved(s)
    BY <1>1, <2>3 DEF ReleaseMessage, RequestResize, StartResize, ResizeSubmitted,
                      ResizeLeaseStopped, Observe, ReportObserved, resizeVars
  <2> QED BY <1>2, <2>1, <2>2, <2>3 DEF ReaderStep
<1>3. ASSUME NEW s \in Streams, StreamStep(s) PROVE WireGoesOn
  BY <1>1, <1>3 DEF StreamStep, OpenStream, Register, FinishStream, CloseStream, RemoveStream, Unref,
                    SessionEnds, Scroll, resizeVars
<1>4. ASSUME NEW s \in Streams, AcquireStep(s) PROVE WireGoesOn
  BY <1>1, <1>4 DEF AcquireStep, RequestAcquire, StartAcquire, OldLeaseStopped, CreateLease,
                    ProcessOpened, AttachTimesOut, ControllerReady, AcquireFails, FailedLeaseStopped,
                    Confirm, AnswerAcquire, resizeVars
<1>5. ASSUME NEW l \in Leases, LeaseStep(l) PROVE WireGoesOn
  BY <1>1, <1>5 DEF LeaseStep, TimerFires, DoneFires, ContextStops, ControllerEnds, resizeVars
<1>6. ASSUME NEW l \in Leases, NEW c \in Sources, ReleaseStep(l, c) PROVE WireGoesOn
  BY <1>1, <1>6 DEF ReleaseStep, StartRelease, ReleasedLeaseStopped, PublishRelease, resizeVars
<1>7. CASE RuntimeChanges \/ (\E e \in Entries : ScrollEnds(e)) \/ UNCHANGED vars
  BY <1>1, <1>7 DEF RuntimeChanges, ScrollEnds, vars, moving, resizeVars
<1> QED BY <1>2, <1>3, <1>4, <1>5, <1>6, <1>7 DEF Next

\* HandoverInOrder: an entry lets go of a lease only when it is revoked and its
\* controller has ended, and a resize of an earlier lease or with a lower
\* sequence number never reaches the terminal after a later one.
THEOREM HandoverIsInOrder == Spec => HandoverInOrder
<1>1. IInv /\ [Next]_vars => LetsGoOfEnded
  BY HandedOverAfterEnd
<1>2. IInv /\ [Next]_vars => [LetsGoOfEnded]_vars /\ [WireGoesOn]_wire
  BY HandedOverAfterEnd, ResizedInOrder
<1>3. Spec => [][LetsGoOfEnded]_vars /\ [][WireGoesOn]_wire
  BY <1>2, Invariance, PTL DEF Spec
<1>4. HandoverInOrder <=> [][LetsGoOfEnded]_vars /\ [][WireGoesOn]_wire
  BY DEF HandoverInOrder, HandoverAfterEnd, ResizeInOrder, LetsGoOfEnded, WireGoesOn
<1> QED BY <1>3, <1>4
=============================================================================
