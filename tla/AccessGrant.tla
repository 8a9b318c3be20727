---------------------------- MODULE AccessGrant ----------------------------
(***************************************************************************)
(* What an agent promises its owner about remote control: at most one      *)
(* controller holds access at a time, it changes hands only through        *)
(* nobody, and an enrollment gives access once.  TwoPhaseState of          *)
(* internal/tunnel/server.go keeps this promise.                           *)
(***************************************************************************)
CONSTANTS Controllers, Enrollments, None

VARIABLES
    holder,  \* the controller with access, or None
    spent    \* the enrollments that gave access

Init == holder = None /\ spent = {}

Grant(c, e) ==
    /\ holder = None /\ e \notin spent
    /\ holder' = c
    /\ spent' = spent \cup {e}

Release ==
    /\ holder # None
    /\ holder' = None
    /\ UNCHANGED spent

Next ==
    \/ \E c \in Controllers, e \in Enrollments : Grant(c, e)
    \/ Release

Spec == Init /\ [][Next]_<<holder, spent>>
=============================================================================
