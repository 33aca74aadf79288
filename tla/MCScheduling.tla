---------------------------- MODULE MCScheduling ----------------------------
(* AppScheduling on a small instance: a is due at once, b later in the day. *)
EXTENDS AppScheduling, TLC

CONSTANTS a, b, p1, p2

DueTimes  == [t \in Topics |-> IF t = a THEN 0 ELSE 1]
Refreshes == Permutations(Tasks)

=============================================================================
