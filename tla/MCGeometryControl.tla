------------------------- MODULE MCGeometryControl -------------------------
(* TLC instances of GeometryControl: the sets of outside events whose         *)
(* interleavings a run explores.                                              *)
EXTENDS GeometryControl, TLC

CONSTANTS s1, s2

TwoStreams == {s1, s2}
Symmetry == Permutations(Streams)

\* Leases are handed over while timers fire, holders release, controllers end
\* and windows scroll; streams go; resizes are under way; sessions and the daemon
\* change.
Handovers == {{"timer", "release", "scroll", "end"}, {"scroll", "finish"}, {"resize"},
              {"runtime"}, {"session"}, {"close"}}
\* A stream that is finished while it acquires.
Finish == {{"finish"}}
=============================================================================
