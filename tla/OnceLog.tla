------------------------------ MODULE OnceLog ------------------------------
(***************************************************************************)
(* The table that lets a request with an id run once: promptLog of         *)
(* internal/httpapi/prompt.go and sessionStarts of sessions.go, for one    *)
(* user.  A log is the sequence of its entries, the oldest first; an entry *)
(* that still runs has the outcome "running".                              *)
(***************************************************************************)
EXTENDS Naturals, Sequences, SequencesExt

\* The entry of an id; a log has at most one.
Has(log, id) == \E i \in DOMAIN log : log[i].id = id
PlaceOf(log, id) == CHOOSE i \in DOMAIN log : log[i].id = id
EntryOf(log, id) == log[PlaceOf(log, id)]

Finished(log) == {i \in DOMAIN log : log[i].outcome # "running"}

\* begin: a full log forgets the oldest that has finished; if everything runs
\* there is no room.
HasRoom(log, capacity) == Len(log) < capacity \/ Finished(log) # {}

Begun(log, entry, capacity) ==
    Append(IF Len(log) < capacity THEN log ELSE RemoveAt(log, Min(Finished(log))), entry)

\* finish: the outcome, or nothing when nothing was done.
Without(log, id) == RemoveAt(log, PlaceOf(log, id))
Ended(log, id, outcome) ==
    IF outcome = "forgotten" THEN Without(log, id)
    ELSE [i \in DOMAIN log |-> IF log[i].id = id THEN [log[i] EXCEPT !.outcome = outcome] ELSE log[i]]
=============================================================================
