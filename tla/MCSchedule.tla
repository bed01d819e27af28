----------------------------- MODULE MCSchedule -----------------------------
(* Two workers, and two patterns: on the same weekday and on another. *)
EXTENDS Schedule

TwoSettings == {[startsOn |-> 0, opensAt |-> 1], [startsOn |-> 1, opensAt |-> 0]}
============================================================================
