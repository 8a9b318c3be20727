-------------------------- MODULE WorkbenchPosition --------------------------
(***************************************************************************)
(* Where a user left the workbench, the row that another device restores:  *)
(* internal/httpapi/workbench_session.go and                               *)
(* internal/store/workbench_session.go.                                    *)
(*                                                                         *)
(* Every page numbers its positions; its requests may arrive late, twice   *)
(* or in another order, from several pages of several logins.  A put is    *)
(* one transaction.  A read deletes the row of a host that is gone in a    *)
(* statement of its own, after it looked for the host.                     *)
(***************************************************************************)
EXTENDS Integers, FiniteSets

CONSTANTS
    Pages,      \* a login session and a writer_id
    Hosts,
    Readers,    \* requests that read the row
    Nowhere,    \* the page and the host of no row
    MaxSequence,\* bound: positions of a page
    MaxPuts     \* bound: puts that were accepted

\* What the constants have to be: an instance assumes it.
PositionAssumption ==
    /\ {MaxSequence, MaxPuts} \subseteq Nat
    /\ Nowhere \notin Pages /\ Nowhere \notin Hosts

VARIABLES
    hosts,      \* hosts that exist
    messages,   \* puts that pages have sent; each may arrive at any time, again too
    watermark,  \* user_workbench_writers
    position,   \* user_workbench_sessions; updated_at counts the puts
    reading,    \* the row that each reader saw
    latest,     \* the highest sequence of each page that was accepted
    last        \* the row as the last put left it

positionVars == <<hosts, messages, watermark, position, reading, latest, last>>

Puts == [page : Pages, sequence : 1..MaxSequence, host : Hosts]
NoRow == [page |-> Nowhere, sequence |-> 0, host |-> Nowhere, updated |-> 0]

\* The types of all variables.
PositionTypeOK ==
    /\ hosts \subseteq Hosts /\ messages \subseteq Puts
    /\ watermark \in [Pages -> 0..MaxSequence] /\ latest \in [Pages -> 0..MaxSequence]
    /\ position \in {NoRow, last} /\ last.updated \in 0..MaxPuts
    /\ DOMAIN reading = Readers

PositionInit ==
    /\ hosts = Hosts /\ messages = {} /\ position = NoRow /\ last = NoRow
    /\ watermark = [p \in Pages |-> 0] /\ latest = [p \in Pages |-> 0]
    /\ reading = [r \in Readers |-> NoRow]

\* A page sends its next position.
Send(p, h) ==
    LET next == 1 + Cardinality({m \in messages : m.page = p}) IN
    /\ next <= MaxSequence
    /\ messages' = messages \cup {[page |-> p, sequence |-> next, host |-> h]}
    /\ UNCHANGED <<hosts, watermark, position, reading, latest, last>>

\* Fault: a page is only compared with the row that stands.
NewerThanRow(m) == position.page = m.page => position.sequence < m.sequence

\* The upsert of the watermark changes a row: pages are not compared with
\* each other, and another page in between does not reset the watermark.
Advances(m) == watermark[m.page] < m.sequence

\* PutWorkbenchSession: otherwise it is not found, or stale.
Put(m) ==
    LET row == [page |-> m.page, sequence |-> m.sequence, host |-> m.host,
                updated |-> last.updated + 1] IN
    /\ m \in messages /\ m.host \in hosts /\ last.updated < MaxPuts /\ Advances(m)
    /\ watermark' = [watermark EXCEPT ![m.page] = m.sequence]
    /\ latest' = [latest EXCEPT ![m.page] = IF @ > m.sequence THEN @ ELSE m.sequence]
    /\ position' = row /\ last' = row
    /\ UNCHANGED <<hosts, messages, reading>>

DeleteHost(h) ==
    /\ h \in hosts /\ hosts' = hosts \ {h}
    /\ UNCHANGED <<messages, watermark, position, reading, latest, last>>

\* WorkbenchSession reads the row, and finds its host or looks for it in vain.
Read(r) ==
    /\ reading[r] = NoRow /\ position # NoRow /\ position.host \notin hosts
    /\ reading' = [reading EXCEPT ![r] = position]
    /\ UNCHANGED <<hosts, messages, watermark, position, latest, last>>

\* Fault: the row of the user is deleted, whatever it says by now.
AnyRow(row, seen) == TRUE

\* The DELETE names the host and the time of the row it means.
SameRow(row, seen) == row.host = seen.host /\ row.updated = seen.updated

Forget(r) ==
    /\ reading[r] # NoRow /\ reading' = [reading EXCEPT ![r] = NoRow]
    /\ position' = IF SameRow(position, reading[r]) THEN NoRow ELSE position
    /\ UNCHANGED <<hosts, messages, watermark, latest, last>>

\* RevokeUserSessions, a login that expired: its watermarks go with it, and
\* so does the page.
EndLogin(p) ==
    /\ messages' = {m \in messages : m.page # p} /\ watermark[p] > 0
    /\ watermark' = [watermark EXCEPT ![p] = 0] /\ latest' = [latest EXCEPT ![p] = 0]
    /\ UNCHANGED <<hosts, position, reading, last>>

PositionNext ==
    \/ \E p \in Pages : EndLogin(p) \/ \E h \in Hosts : Send(p, h)
    \/ \E m \in messages : Put(m)
    \/ \E h \in Hosts : DeleteHost(h)
    \/ \E r \in Readers : Read(r) \/ Forget(r)

PositionSpec == PositionInit /\ [][PositionNext]_positionVars

-----------------------------------------------------------------------------
\* The row that another device restores is the newest position of the page
\* that wrote last, however its requests were delayed, repeated or mixed with
\* those of other pages; and it is only missing when the host of the last
\* put is gone, whoever was reading meanwhile (PutWorkbenchSession,
\* WorkbenchSession).
PositionIsKept ==
    /\ position.page \in Pages => latest[position.page] \in {0, position.sequence}
    /\ (position = NoRow /\ last # NoRow) => last.host \notin hosts

Rows == [page : Pages, sequence : 1..MaxSequence, host : Hosts, updated : 1..MaxPuts]

\* A reader has seen a row whose host was gone, and a row of the same time is
\* the same row.
ReadingFits(seen) ==
    /\ seen \in Rows /\ seen.host \notin hosts /\ seen.updated <= last.updated
    /\ seen.updated = last.updated => seen = last

\* The invariant that every step preserves: a row that stands is the last that
\* was put, the highest sequence is the watermark, and both name the sequence of
\* that row while the login of its page goes on.
PositionInv ==
    /\ hosts \subseteq Hosts /\ messages \subseteq Puts /\ IsFiniteSet(messages)
    /\ latest \in [Pages -> 0..MaxSequence] /\ watermark = latest
    /\ last \in Rows \cup {NoRow} /\ position \in {NoRow, last}
    /\ last # NoRow => latest[last.page] \in {0, last.sequence}
    /\ position = NoRow /\ last # NoRow => last.host \notin hosts
    /\ DOMAIN reading = Readers
    /\ \A r \in Readers : reading[r] # NoRow => ReadingFits(reading[r])
=============================================================================
