----------------------------- MODULE Recurrence -----------------------------
(***************************************************************************)
(* RecurrencePattern: a date every week from the first on.  Dates are      *)
(* numbers, and a date's instants follow the instants of the date before;  *)
(* a day has as many as the next, which a day of a changing clock has not. *)
(***************************************************************************)
EXTENDS Integers

CONSTANTS Week, \* daysPerWeek
          Day   \* the instants of a day

ASSUME CalendarAssumption == Week \in Nat \ {0} /\ Day \in Nat \ {0}

Patterns == [startsOn : Nat, opensAt : 0..(Day - 1)]

\* location.instantAt and location.localDateOf.
InstantAt(date, time) == date * Day + time

LocalDateOf(instant) == instant \div Day

OccursOn(pattern, date) ==
  date >= pattern.startsOn /\ (date - pattern.startsOn) % Week = 0

\* The first week that does not begin before date: Math.max(0, Math.ceil(days / 7)).
WeeksAhead(pattern, date) ==
  IF date <= pattern.startsOn THEN 0 ELSE (date - pattern.startsOn + Week - 1) \div Week

\* nextOccurrence: its date.
NextOccurrence(pattern, after) ==
  LET candidate == pattern.startsOn + WeeksAhead(pattern, LocalDateOf(after)) * Week
  IN  IF InstantAt(candidate, pattern.opensAt) > after THEN candidate ELSE candidate + Week

\* The earliest occurrence that opens strictly after the moment given.
IsNextOccurrence(pattern, after, date) ==
  /\ OccursOn(pattern, date)
  /\ InstantAt(date, pattern.opensAt) > after
  /\ \A earlier \in pattern.startsOn..(date - 1) :
       OccursOn(pattern, earlier) => InstantAt(earlier, pattern.opensAt) <= after
============================================================================
