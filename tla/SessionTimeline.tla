--------------------------- MODULE SessionTimeline ---------------------------
(***************************************************************************)
(* When a session's steps happen, read off its row.                        *)
(***************************************************************************)
EXTENDS MarketRules, Integers

CONSTANT Grace  \* gracePeriodMs

ASSUME GraceAssumption == Grace \in Nat \ {0}

Null == -1

Row == [status : SessionStatuses, opens : Nat, closes : Nat, grace : Nat \cup {Null},
        delay : Nat \cup {Null}, after : Nat \cup {Null}]

GraceDeadline(row) == IF row.grace = Null THEN row.closes + Grace ELSE row.grace

LotteryDrawsAt(row) == IF row.delay = Null THEN Null ELSE GraceDeadline(row) + row.delay

AutoClosesAt(row) == IF row.after = Null THEN Null ELSE row.opens + row.after

ClosedStatusAt(row, now) ==
  IF GraceDeadline(row) <= now THEN "lottery_pending" ELSE "registration_closed"

\* Mutant: the close of the window is taken for the end of its grace period.
StatusWithoutGrace(row, now) ==
  CASE row.status = "scheduled" /\ row.opens <= now /\ row.closes > now -> "registration_open"
    [] row.status = "scheduled" /\ row.closes <= now -> "lottery_pending"
    [] row.status = "registration_open" /\ row.closes <= now -> "lottery_pending"
    [] row.status = "registration_closed" /\ row.closes <= now -> "lottery_pending"
    [] OTHER -> row.status

StatusAt(row, now) ==
  CASE row.status = "scheduled" /\ row.opens <= now /\ row.closes > now -> "registration_open"
    [] row.status = "scheduled" /\ row.opens <= now /\ row.closes <= now -> ClosedStatusAt(row, now)
    [] row.status = "registration_open" /\ row.closes <= now -> ClosedStatusAt(row, now)
    [] row.status = "registration_closed" /\ GraceDeadline(row) <= now -> "lottery_pending"
    [] OTHER -> row.status

\* Mutant: only timers end a session.
NeverOverdue(row, now) == FALSE

Overdue(row, now) ==
  /\ row.status # "ended"
  /\ AutoClosesAt(row) # Null
  /\ AutoClosesAt(row) <= now

TimerKinds == {"registration_close", "lottery_draw", "auto_close"}

TimerAt(row, kind) ==
  CASE kind = "registration_close" -> row.closes
    [] kind = "lottery_draw"       -> LotteryDrawsAt(row)
    [] kind = "auto_close"         -> AutoClosesAt(row)
============================================================================
