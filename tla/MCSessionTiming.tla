-------------------------- MODULE MCSessionTiming --------------------------
(* Small instances of SessionTiming for TLC. *)
EXTENDS SessionTiming

NewRow(opens, closes, delay, after) ==
  [status |-> "scheduled", opens |-> opens, closes |-> closes, grace |-> Null,
   delay |-> delay, after |-> after]

\* Both draw by themselves: one has yet to open, the other ends by itself as well.
SmallSessions == {NewRow(1, 2, 1, Null), NewRow(0, 1, 1, 4)}
============================================================================
