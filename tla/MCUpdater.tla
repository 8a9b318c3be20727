---- MODULE MCUpdater ----
(* Three binaries; the last two claim the same version. *)
EXTENDS Updater
CONSTANTS b1, b2, b3
Binaries == {b1, b2, b3}
Reported == [b \in Binaries |-> IF b = b1 THEN 1 ELSE 2]
====
