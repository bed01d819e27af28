--------------------------- MODULE ScheduleProofs ---------------------------
(***************************************************************************)
(* That the next occurrence the code computes is the one it promises, and  *)
(* that a location's schedule keeps to it and never runs dry.              *)
(***************************************************************************)
EXTENDS Schedule, TLAPS

\* Rounding up: adding Week - 1 before dividing gives the fewest weeks that reach n.
LEMMA RoundsUp ==
  ASSUME NEW n \in Nat
  PROVE  LET weeks == (n + Week - 1) \div Week
         IN  weeks \in Nat /\ weeks * Week >= n /\ (weeks - 1) * Week < n
PROOF
  <1> DEFINE weeks == (n + Week - 1) \div Week
  <1>1. n + Week - 1 = Week * weeks + ((n + Week - 1) % Week)
    BY CalendarAssumption
  <1>2. (n + Week - 1) % Week \in 0..(Week - 1) /\ weeks \in Nat
    BY CalendarAssumption
  <1> QED
    BY <1>1, <1>2, CalendarAssumption

\* Whole weeks leave no remainder, and what leaves none is whole weeks.
LEMMA WholeWeeks ==
  ASSUME NEW days \in Nat
  PROVE  days % Week = 0 <=> \E weeks \in Nat : days = weeks * Week
PROOF
  <1>1. ASSUME days % Week = 0
        PROVE  \E weeks \in Nat : days = weeks * Week
    <2>1. days = Week * (days \div Week) + (days % Week) /\ days \div Week \in Nat
      BY CalendarAssumption
    <2>2. days = (days \div Week) * Week
      BY <1>1, <2>1, CalendarAssumption
    <2> QED
      BY <2>1, <2>2
  <1>2. ASSUME NEW weeks \in Nat, days = weeks * Week
        PROVE  days % Week = 0
    <2>1. /\ days = Week * (days \div Week) + (days % Week)
          /\ days \div Week \in Nat /\ days % Week \in 0..(Week - 1)
      BY CalendarAssumption
    <2>2. (weeks - (days \div Week)) * Week = days % Week
      BY <1>2, <2>1, CalendarAssumption
    <2> DEFINE more == weeks - (days \div Week)
    <2>3. more \in Int
      BY <2>1
    <2>4. ~(more >= 1) /\ ~(more <= -1)
      <3>1. more >= 1 => more * Week >= Week
        BY <2>3, CalendarAssumption
      <3>2. more <= -1 => more * Week <= -Week
        BY <2>3, CalendarAssumption
      <3> QED
        BY <2>1, <2>2, <3>1, <3>2, CalendarAssumption
    <2> QED
      BY <2>2, <2>3, <2>4, CalendarAssumption
  <1> QED
    BY <1>1, <1>2

\* The candidate is an occurrence, not before the local date, and the last one before it is.
LEMMA CandidateReachesDate ==
  ASSUME NEW weekly \in Patterns, NEW date \in Nat
  PROVE  LET weeks == WeeksAhead(weekly, date)
         IN  /\ weeks \in Nat
             /\ weekly.startsOn + weeks * Week >= date
             /\ weeks > 0 => weekly.startsOn + (weeks - 1) * Week < date
PROOF
  <1> weekly.startsOn \in Nat
    BY DEF Patterns
  <1>1. CASE date <= weekly.startsOn
    BY <1>1, CalendarAssumption DEF WeeksAhead
  <1>2. CASE date > weekly.startsOn
    <2>1. date - weekly.startsOn \in Nat
      BY <1>2
    <2> QED
      BY <1>2, <2>1, RoundsUp, CalendarAssumption DEF WeeksAhead
  <1> QED
    BY <1>1, <1>2

\* A moment lies within its local date.
LEMMA WithinItsDate ==
  ASSUME NEW after \in Nat
  PROVE  LET date == LocalDateOf(after)
         IN  date \in Nat /\ date * Day <= after /\ after < (date + 1) * Day
PROOF
  <1>1. after = Day * (after \div Day) + (after % Day)
    BY CalendarAssumption
  <1>2. after \div Day \in Nat /\ after % Day \in 0..(Day - 1)
    BY CalendarAssumption
  <1> QED
    BY <1>1, <1>2, CalendarAssumption DEF LocalDateOf

\* Later dates have later instants, at whatever times.
LEMMA LaterDates ==
  ASSUME NEW d \in Nat, NEW e \in Nat, d < e,
         NEW s \in 0..(Day - 1), NEW t \in 0..(Day - 1)
  PROVE  InstantAt(d, s) < InstantAt(e, t)
PROOF
  <1>1. d * Day + Day <= e * Day
    <2>1. (d + 1) * Day <= e * Day
      BY CalendarAssumption
    <2> QED
      BY <2>1, CalendarAssumption
  <1> QED
    BY <1>1, CalendarAssumption DEF InstantAt

\* nextOccurrence returns the earliest of the pattern's dates whose opening is still to come,
\* whatever its weekday, its time and the moment it is asked at: never one already open, and
\* none is skipped (createNextSession, saveSchedule).
THEOREM NextOccurrenceIsNext ==
  \A weekly \in Patterns, after \in Nat :
    IsNextOccurrence(weekly, after, NextOccurrence(weekly, after))
PROOF
  <1> SUFFICES ASSUME NEW weekly \in Patterns, NEW after \in Nat
               PROVE  IsNextOccurrence(weekly, after, NextOccurrence(weekly, after))
    OBVIOUS
  <1> DEFINE first == weekly.startsOn
             time  == weekly.opensAt
             today == LocalDateOf(after)
             weeks == WeeksAhead(weekly, today)
             Nth(k) == first + k * Week
  <1>1. first \in Nat /\ time \in 0..(Day - 1) /\ time \in Nat
    BY CalendarAssumption DEF Patterns
  <1>2. today \in Nat /\ today * Day <= after /\ after < (today + 1) * Day
    BY WithinItsDate
  <1>3. weeks \in Nat /\ Nth(weeks) >= today /\ (weeks > 0 => Nth(weeks - 1) < today)
    BY <1>2, CandidateReachesDate
  <1>4. \A k \in Nat : Nth(k) \in Nat
    BY <1>1, CalendarAssumption
  <1>5. ASSUME NEW k \in Nat PROVE OccursOn(weekly, Nth(k))
    <2>1. Nth(k) - first = k * Week /\ k * Week \in Nat
      BY <1>1, CalendarAssumption
    <2> QED
      BY <1>1, <2>1, WholeWeeks DEF OccursOn
  <1>6. ASSUME NEW earlier \in Nat, OccursOn(weekly, earlier)
        PROVE  \E k \in Nat : earlier = Nth(k)
    <2>1. earlier - first \in Nat /\ (earlier - first) % Week = 0
      BY <1>1, <1>6 DEF OccursOn
    <2>2. PICK k \in Nat : earlier - first = k * Week
      BY <2>1, WholeWeeks
    <2>3. earlier = Nth(k)
      BY <1>1, <2>2, CalendarAssumption
    <2> QED
      BY <2>3
  <1>7. ASSUME NEW j \in Nat, NEW k \in Nat, Nth(j) < Nth(k)
        PROVE  j + 1 <= k /\ Nth(j) + Week <= Nth(k)
    <2>1. ~(j >= k)
      <3>1. j >= k => j * Week >= k * Week
        BY CalendarAssumption
      <3> QED
        BY <1>1, <1>7, <3>1, CalendarAssumption
    <2>2. (j + 1) * Week <= k * Week
      BY <2>1, CalendarAssumption
    <2> QED
      BY <1>1, <2>1, <2>2, CalendarAssumption
  <1>8. NextOccurrence(weekly, after) =
          IF InstantAt(Nth(weeks), time) > after THEN Nth(weeks) ELSE Nth(weeks) + Week
    BY DEF NextOccurrence
  <1>9. \A k \in Nat : Nth(k + 1) = Nth(k) + Week
    BY <1>1, CalendarAssumption
  <1> HIDE DEF weeks, Nth, today
  <1>10. CASE InstantAt(Nth(weeks), time) > after
    <2>1. ASSUME NEW earlier \in first..(Nth(weeks) - 1), OccursOn(weekly, earlier)
          PROVE  InstantAt(earlier, time) <= after
      <3>1. earlier \in Nat /\ earlier < Nth(weeks)
        BY <1>1, <1>3, <1>4
      <3>2. PICK j \in Nat : earlier = Nth(j)
        BY <1>6, <2>1, <3>1
      <3>3. weeks > 0 /\ Nth(j) + Week <= Nth(weeks)
        BY <1>3, <1>7, <3>1, <3>2
      <3>4. Nth(weeks) = Nth(weeks - 1) + Week
        <4>1. weeks - 1 \in Nat /\ (weeks - 1) + 1 = weeks
          BY <1>3, <3>3
        <4> QED
          BY <1>9, <4>1
      <3>5. earlier < today
        BY <1>2, <1>3, <1>4, <3>1, <3>2, <3>3, <3>4, CalendarAssumption
      <3>6. InstantAt(earlier, time) < InstantAt(today, 0)
        BY <1>1, <1>2, <3>1, <3>5, LaterDates, CalendarAssumption
      <3>7. InstantAt(earlier, time) \in Nat /\ InstantAt(today, 0) <= after
        BY <1>1, <1>2, <3>1, CalendarAssumption DEF InstantAt
      <3> QED
        BY <1>2, <3>6, <3>7, CalendarAssumption DEF InstantAt
    <2> QED
      BY <1>3, <1>5, <1>8, <1>10, <2>1 DEF IsNextOccurrence
  <1>11. CASE ~(InstantAt(Nth(weeks), time) > after)
    <2>1. Nth(weeks) + Week = Nth(weeks + 1) /\ weeks + 1 \in Nat
      BY <1>3, <1>9
    <2>2. InstantAt(Nth(weeks) + Week, time) > after
      <3>1. Nth(weeks) + Week \in Nat /\ today < Nth(weeks) + Week
        BY <1>2, <1>3, <1>4, CalendarAssumption
      <3>2. (today + 1) * Day <= (Nth(weeks) + Week) * Day
        BY <1>2, <3>1, CalendarAssumption
      <3> QED
        BY <1>1, <1>2, <3>1, <3>2, CalendarAssumption DEF InstantAt
    <2>3. ASSUME NEW earlier \in first..((Nth(weeks) + Week) - 1), OccursOn(weekly, earlier)
          PROVE  InstantAt(earlier, time) <= after
      <3>1. earlier \in Nat /\ earlier < Nth(weeks) + Week
        BY <1>1, <1>3, <1>4, CalendarAssumption
      <3>2. PICK j \in Nat : earlier = Nth(j)
        BY <1>6, <2>3, <3>1
      <3>3. Nth(j) <= Nth(weeks)
        <4>1. Nth(j) \in Nat /\ Nth(weeks) \in Nat
          BY <1>3, <1>4
        <4> SUFFICES ASSUME Nth(weeks) < Nth(j) PROVE FALSE
          BY <4>1
        <4>2. Nth(weeks) + Week <= Nth(j)
          BY <1>3, <1>7
        <4> QED
          BY <3>1, <3>2, <4>1, <4>2, CalendarAssumption
      <3>4. earlier * Day <= Nth(weeks) * Day
        BY <1>3, <1>4, <3>2, <3>3, CalendarAssumption
      <3> QED
        BY <1>1, <1>3, <1>4, <1>11, <3>1, <3>4, CalendarAssumption DEF InstantAt
    <2>4. NextOccurrence(weekly, after) = Nth(weeks) + Week
      BY <1>8, <1>11
    <2>5. OccursOn(weekly, Nth(weeks) + Week)
      BY <1>5, <2>1
    <2>6. IsNextOccurrence(weekly, after, Nth(weeks) + Week)
      BY <2>2, <2>3, <2>5 DEF IsNextOccurrence
    <2> QED
      BY <2>4, <2>6
  <1> QED
    BY <1>10, <1>11
-----------------------------------------------------------------------------
(* The schedule.                                                            *)

Rows == PatternRow \cup {NoPattern}

Steps == {"pattern", "find", "session", "read", "write"}

Requests ==
  [op : Ops, step : Steps, now : 0..MaxTime, target : Nat,
   seen : {"none", "scheduled", "running"}, input : Settings \cup {NoPattern},
   holds : Nat, locks : BOOLEAN, copy : Rows]

\* What a transaction's step says of its locks and of the pattern it knows.
Follows(r) ==
  /\ r.holds \in {None, r.target}
  /\ r.step \in {"pattern", "find", "session"} => r.holds = None
  /\ r.op \in Endings => /\ ~r.locks /\ r.step \in {"session", "read", "write"}
                         /\ r.step \in {"read", "write"} => r.holds # None
  /\ r.op \notin Endings => r.step # "read"
  /\ r.op = "save_pattern" => /\ r.input \in Settings
                              /\ r.step # "pattern" => (r.copy # NoPattern => r.locks)
  /\ r.op = "delete_pattern" /\ r.step # "pattern" => r.locks
  /\ r.op = "create_next" => (r.locks <=> r.step = "write")
  /\ r.op = "add_one_off" => ~r.locks /\ r.step # "pattern"
  /\ r.step = "pattern" => ~r.locks
  /\ r.locks => r.copy # NoPattern

WellFormed(r) == r = Idle \/ (r \in Requests /\ Follows(r))

\* The session the pattern has no part in: there is none, or a worker's.
NotFromPattern == session = NoSession \/ session.from = None

\* What a transaction has read that is still so.  A save that has locked the pattern and not
\* the session has no session of the pattern beside it.
Current(r) ==
  /\ r.locks => r.copy = pattern
  /\ r.holds # None => r.holds = session.id
  /\ r.op = "save_pattern" /\ r.locks =>
       /\ r.step = "session" => NotFromPattern \/ session.id = r.target
       /\ r.step = "write" => NotFromPattern \/ r.holds # None
  /\ r.op \in Endings /\ r.step = "write" /\ ~overtaken => r.copy = pattern \/ pattern = NoPattern

\* A row's lock has one holder.
Apart(r, q) == ~(r.locks /\ q.locks) /\ (r.holds # None => r.holds # q.holds)

\* The session is its pattern's or nobody's.
FromThePattern == session # NoSession /\ session.from # None => session.from = pattern.id

RowsOK ==
  /\ clock \in 0..MaxTime
  /\ pattern \in Rows
  /\ session \in SessionRow \cup {NoSession}
  /\ lastId \in Nat /\ begun \in 0..MaxRequests
  /\ stopped \in BOOLEAN /\ overtaken \in BOOLEAN

RequestsOK ==
  /\ requests \in [Processes -> Requests \cup {Idle}]
  /\ \A x \in Processes : WellFormed(requests[x]) /\ Current(requests[x])
  /\ \A x, y \in Processes : x # y => Apart(requests[x], requests[y])

\* The inductive invariant.
ScheduleInv ==
  /\ RowsOK /\ RequestsOK
  /\ FromThePattern /\ ScheduleNeverRunsDry /\ PendingIsTheNextOccurrence

\* A date's instants are its own.
LEMMA DateOfInstant ==
  ASSUME NEW date \in Nat, NEW time \in 0..(Day - 1)
  PROVE  InstantAt(date, time) \in Nat /\ LocalDateOf(InstantAt(date, time)) = date
PROOF
  <1> DEFINE instant == InstantAt(date, time)
  <1>1. instant \in Nat /\ instant = date * Day + time /\ date * Day \in Nat
    BY CalendarAssumption DEF InstantAt
  <1>2. /\ LocalDateOf(instant) \in Nat /\ LocalDateOf(instant) * Day <= instant
        /\ instant < (LocalDateOf(instant) + 1) * Day
    BY <1>1, WithinItsDate
  <1>3. PICK found \in Nat : found = LocalDateOf(instant)
    BY <1>2
  <1>4. found * Day <= date * Day + time /\ date * Day + time < (found + 1) * Day
    BY <1>1, <1>2, <1>3
  <1>5. ~(found < date)
    <2>1. found < date => (found + 1) * Day <= date * Day
      BY CalendarAssumption
    <2> QED
      BY <1>1, <1>4, <2>1, CalendarAssumption
  <1>6. ~(date < found)
    <2>1. date < found => date * Day + Day <= found * Day
      <3>1. date < found => (date + 1) * Day <= found * Day
        BY CalendarAssumption
      <3> QED
        BY <3>1, CalendarAssumption
    <2> QED
      BY <1>1, <1>4, <2>1, CalendarAssumption
  <1> QED
    BY <1>1, <1>3, <1>5, <1>6

\* The next occurrence of a pattern saved under an id is that of the pattern.
LEMMA NextOfRow ==
  ASSUME NEW of \in PatternRow, NEW now \in Nat
  PROVE  NextOccurrence(of, now) \in Nat /\ IsNextOccurrence(of, now, NextOccurrence(of, now))
PROOF
  <1>1. PICK weekly \in Patterns : weekly.startsOn = of.startsOn /\ weekly.opensAt = of.opensAt
    <2>1. [startsOn |-> of.startsOn, opensAt |-> of.opensAt] \in Patterns
      BY DEF PatternRow, Patterns
    <2> QED
      BY <2>1
  <1>2. NextOccurrence(of, now) = NextOccurrence(weekly, now)
    BY <1>1 DEF NextOccurrence, WeeksAhead
  <1>3. PICK date : date = NextOccurrence(weekly, now)
    OBVIOUS
  <1>4. IsNextOccurrence(weekly, now, date)
    BY <1>3, NextOccurrenceIsNext
  <1>5. IsNextOccurrence(of, now, date)
    BY <1>1, <1>4 DEF IsNextOccurrence, OccursOn
  <1>6. date \in Nat
    <2>1. LocalDateOf(now) \in Nat
      BY WithinItsDate
    <2>2. WeeksAhead(weekly, LocalDateOf(now)) \in Nat /\ weekly.startsOn \in Nat
      BY <2>1, CandidateReachesDate DEF Patterns
    <2>3. \A weeks \in Nat : weekly.startsOn + weeks * Week \in Nat /\ weekly.startsOn + weeks * Week + Week \in Nat
      BY <2>2, CalendarAssumption
    <2> QED
      BY <1>3, <2>2, <2>3 DEF NextOccurrence
  <1> QED
    BY <1>2, <1>3, <1>5, <1>6

\* A session made of a pattern is on its next occurrence.
LEMMA MadeFrom ==
  ASSUME lastId \in Nat, NEW of \in PatternRow, NEW now \in Nat
  PROVE  LET made == FromPattern(of, now)
         IN  /\ made \in SessionRow /\ made # NoSession /\ made.from = of.id
             /\ made.opens = InstantAt(LocalDateOf(made.opens), of.opensAt)
             /\ IsNextOccurrence(of, made.madeAt, LocalDateOf(made.opens))
PROOF
  <1> DEFINE made == FromPattern(of, now)
  <1>1. PICK date \in Nat : date = NextOccurrence(of, now) /\ IsNextOccurrence(of, now, date)
    BY NextOfRow
  <1>2. of.opensAt \in 0..(Day - 1) /\ of.id \in Nat /\ lastId + 1 \in Nat \ {0}
    BY DEF PatternRow
  <1>3. PICK opens \in Nat : opens = InstantAt(date, of.opensAt) /\ LocalDateOf(opens) = date
    BY <1>2, DateOfInstant
  <1>4. made = [id |-> lastId + 1, status |-> "scheduled", from |-> of.id, opens |-> opens,
                madeAt |-> now, edited |-> FALSE, joined |-> FALSE]
    BY <1>1, <1>3 DEF FromPattern
  <1>5. made \in SessionRow
    BY <1>2, <1>4 DEF SessionRow
  <1>6. made.id # 0 /\ made.from = of.id /\ made.opens = opens /\ made.madeAt = now
    BY <1>2, <1>4
  <1>7. made # NoSession
    BY <1>6 DEF NoSession, None
  <1> HIDE DEF made
  <1> QED
    BY <1>1, <1>3, <1>5, <1>6, <1>7 DEF made

\* Rows and their absence.
LEMMA NoRow ==
  /\ NoSession \notin SessionRow /\ NoSession.id = None
  /\ NoPattern \notin PatternRow /\ NoPattern.id = None
  /\ \A row \in SessionRow : row.id \in Nat /\ row.id # None
  /\ \A row \in PatternRow : row.id \in Nat /\ row.id # None
PROOF
  BY DEF NoSession, NoPattern, SessionRow, PatternRow, None

\* The lock of the session's row has one holder, and without a session none.
LEMMA HolderIsAlone ==
  ASSUME ScheduleInv, NEW x \in Processes, requests[x].holds # None \/ session = NoSession
  PROVE  /\ \A y \in Processes \ {x} : requests[y].holds = None
         /\ requests[x].holds # None => session \in SessionRow /\ requests[x].holds = session.id
PROOF
  <1>1. \A y \in Processes : requests[y].holds # None => requests[y].holds = session.id
    BY DEF ScheduleInv, RequestsOK, Current
  <1>2. \A y \in Processes \ {x} : requests[x].holds # None => requests[x].holds # requests[y].holds
    BY DEF ScheduleInv, RequestsOK, Apart
  <1>3. session \in SessionRow \/ (session = NoSession /\ session.id = None)
    BY NoRow DEF ScheduleInv, RowsOK
  <1>4. CASE session = NoSession
    <2>1. \A y \in Processes : requests[y].holds = None
      BY <1>1, <1>4, NoRow
    <2> QED
      BY <2>1
  <1>5. CASE session \in SessionRow /\ requests[x].holds # None
    BY <1>1, <1>2, <1>5
  <1>6. CASE session \in SessionRow /\ requests[x].holds = None
    BY <1>4, <1>6
  <1> QED
    BY <1>3, <1>4, <1>5, <1>6

\* So has that of the pattern's.
LEMMA LockerIsAlone ==
  ASSUME ScheduleInv, NEW x \in Processes, requests[x].locks
  PROVE  \A y \in Processes \ {x} : ~requests[y].locks
PROOF
  BY DEF ScheduleInv, RequestsOK, Apart

\* A step that writes nothing but its request.
LEMMA ReadStep ==
  ASSUME ScheduleInv, NEW x \in Processes, NEW r, Goto(x, r), WellFormed(r), Current(r),
         r.locks => requests[x].locks \/ ~PatternLocked(x),
         r.holds # None => r.holds = requests[x].holds \/ ~RowLocked(x, r.holds),
         UNCHANGED <<clock, pattern, session, lastId, stopped, overtaken>>,
         begun' \in 0..MaxRequests
  PROVE  ScheduleInv'
PROOF
  <1>1. requests' = [requests EXCEPT ![x] = r] /\ requests \in [Processes -> Requests \cup {Idle}]
    BY DEF Goto, ScheduleInv, RequestsOK
  <1>2. requests'[x] = r /\ \A y \in Processes \ {x} : requests'[y] = requests[y]
    BY <1>1
  <1>3. requests' \in [Processes -> Requests \cup {Idle}]
    BY <1>1 DEF WellFormed
  <1>4. \A q : Current(q)' <=> Current(q)
    BY DEF Current, NotFromPattern
  <1>5. \A y \in Processes : WellFormed(requests'[y]) /\ Current(requests[y])'
    <2> SUFFICES ASSUME NEW y \in Processes
                 PROVE  WellFormed(requests'[y]) /\ \E q : q = requests'[y] /\ Current(q)'
      BY DEF Current, NotFromPattern
    <2>1. CASE y = x
      BY <1>2, <1>4, <2>1
    <2>2. CASE y # x
      BY <1>2, <1>4, <2>2 DEF ScheduleInv, RequestsOK
    <2> QED
      BY <2>1, <2>2
  <1>6. \A y, z \in Processes : y # z => Apart(requests'[y], requests'[z])
    <2>1. ASSUME NEW y \in Processes \ {x} PROVE Apart(r, requests[y]) /\ Apart(requests[y], r)
      <3>1. Apart(requests[x], requests[y]) /\ Apart(requests[y], requests[x])
        BY DEF ScheduleInv, RequestsOK
      <3> QED
        BY <3>1 DEF Apart, PatternLocked, RowLocked
    <2> QED
      BY <1>2, <2>1 DEF ScheduleInv, RequestsOK
  <1>7. RequestsOK'
    BY <1>3, <1>5, <1>6 DEF RequestsOK, WellFormed, Follows, Apart
  <1>8. RowsOK'
    BY DEF ScheduleInv, RowsOK
  <1>9. FromThePattern' /\ ScheduleNeverRunsDry' /\ PendingIsTheNextOccurrence'
    BY DEF ScheduleInv, FromThePattern, ScheduleNeverRunsDry, PendingIsTheNextOccurrence
  <1> QED
    BY <1>7, <1>8, <1>9 DEF ScheduleInv

\* A transaction that is over has nothing left to be so.
LEMMA IdleIsOK == WellFormed(Idle) /\ Current(Idle) /\ ~Idle.locks /\ Idle.holds = None
PROOF
  BY DEF WellFormed, Current, Idle, Endings, None

\* A transaction that writes nothing.
LEMMA RollsBack ==
  ASSUME ScheduleInv, NEW x \in Processes, Over(x), 
         UNCHANGED <<clock, pattern, session, lastId, stopped, overtaken, begun>>
  PROVE  ScheduleInv'
PROOF
  <1>1. begun' \in 0..MaxRequests
    BY DEF ScheduleInv, RowsOK
  <1> QED
    BY <1>1, IdleIsOK, ReadStep DEF Over

\* A transaction that commits: the others still know what they knew.
LEMMA Commits ==
  ASSUME ScheduleInv, NEW x \in Processes, Over(x), RowsOK',
         \A y \in Processes \ {x} : \A r \in Requests \cup {Idle} : r = requests[y] => Current(r)',
         FromThePattern', ScheduleNeverRunsDry', PendingIsTheNextOccurrence'
  PROVE  ScheduleInv'
PROOF
  <1>1. requests' = [requests EXCEPT ![x] = Idle] /\ requests \in [Processes -> Requests \cup {Idle}]
    BY DEF Over, Goto, ScheduleInv, RequestsOK
  <1>2. requests'[x] = Idle /\ \A y \in Processes \ {x} : requests'[y] = requests[y]
    BY <1>1
  <1>3. requests' \in [Processes -> Requests \cup {Idle}]
    BY <1>1
  <1>4. ASSUME NEW y \in Processes PROVE WellFormed(requests'[y]) /\ Current(requests[y])'
    <2> SUFFICES WellFormed(requests'[y]) /\ \E q : q = requests'[y] /\ Current(q)'
      BY DEF Current, NotFromPattern
    <2>1. CASE y = x
      <3>1. Current(Idle)'
        BY DEF Current, Idle, Endings, None
      <3> QED
        BY <1>2, <2>1, <3>1, IdleIsOK
    <2>2. CASE y # x
      BY <1>1, <1>2, <2>2 DEF ScheduleInv, RequestsOK
    <2> QED
      BY <2>1, <2>2
  <1>5. \A y, z \in Processes : y # z => Apart(requests'[y], requests'[z])
    <2>1. \A r : r.holds # None => Apart(Idle, r) /\ (~r.locks \/ r.locks) /\ Apart(r, Idle)
      BY IdleIsOK DEF Apart
    <2>2. \A r : Apart(Idle, r) /\ Apart(r, Idle)
      BY IdleIsOK DEF Apart
    <2> QED
      BY <1>2, <2>2 DEF ScheduleInv, RequestsOK
  <1>6. RequestsOK'
    BY <1>3, <1>4, <1>5 DEF RequestsOK, WellFormed, Follows, Apart
  <1> QED
    BY <1>6 DEF ScheduleInv


\* What is known of a transaction that has begun.
LEMMA Known ==
  ASSUME ScheduleInv, NEW x \in Processes, requests[x].step # "idle"
  PROVE  requests[x] \in Requests /\ Follows(requests[x]) /\ Current(requests[x])
PROOF
  BY DEF ScheduleInv, RequestsOK, WellFormed, Idle

\* A transaction begins with no lock.
LEMMA Begins ==
  ASSUME ScheduleInv, NEW x \in Processes,
         NEW op \in Ops, NEW step \in {"pattern", "find", "session"}, NEW target \in Nat,
         NEW seen \in {"none", "scheduled", "running"}, NEW input \in Settings \cup {NoPattern},
         op = "save_pattern" => step = "pattern" /\ input \in Settings,
         op = "delete_pattern" => step = "pattern",
         op \in Endings => step = "session", op = "add_one_off" => step # "pattern",
         Begin(x, op, step, target, seen, input)
  PROVE  ScheduleInv'
PROOF
  <1> DEFINE r == [op |-> op, step |-> step, now |-> clock, target |-> target, seen |-> seen,
                   input |-> input, holds |-> None, locks |-> FALSE, copy |-> NoPattern]
  <1>1. r \in Requests
    BY DEF ScheduleInv, RowsOK, Requests, Rows, Steps, None
  <1>2. Goto(x, r) /\ UNCHANGED <<clock, pattern, session, lastId, stopped, overtaken>>
    BY DEF Begin
  <1>3. begun' \in 0..MaxRequests
    BY ScheduleAssumption DEF Begin, ScheduleInv, RowsOK
  <1>4. /\ r.op = op /\ r.step = step /\ r.input = input /\ r.holds = None
        /\ ~r.locks /\ r.copy = NoPattern
    OBVIOUS
  <1> HIDE DEF r
  <1>5. Follows(r) /\ Current(r)
    BY <1>4 DEF Follows, Current
  <1> QED
    BY <1>1, <1>2, <1>3, <1>4, <1>5, ReadStep DEF WellFormed

\* The session's id and status are a target and what was seen of it.
LEMMA Seen ==
  ASSUME ScheduleInv
  PROVE  session.id \in Nat /\ (session # NoSession => session.status \in {"scheduled", "running"})
PROOF
  BY NoRow DEF ScheduleInv, RowsOK, SessionRow, None

LEMMA RequestKeeps ==
  ASSUME ScheduleInv, NEW x \in Processes,
         \/ SavePattern(x) \/ DeletePattern(x) \/ CreateNextSessionNow(x) \/ AddOneOffSession(x)
         \/ EndSession(x) \/ DeleteSession(x)
  PROVE  ScheduleInv'
PROOF
  <1>1. CASE SavePattern(x)
    <2>1. PICK input \in Settings : Begin(x, "save_pattern", "pattern", None, "none", input)
      BY <1>1 DEF SavePattern
    <2> QED
      BY <2>1, Begins DEF None, Ops, Endings
  <1>2. CASE DeletePattern(x)
    BY <1>2, Begins DEF DeletePattern, None, Ops, Endings
  <1>3. CASE CreateNextSessionNow(x)
    BY <1>3, Begins DEF CreateNextSessionNow, None, Ops, Endings
  <1>4. CASE AddOneOffSession(x)
    BY <1>4, Begins DEF AddOneOffSession, None, Ops, Endings
  <1>5. CASE EndSession(x)
    <2>1. PICK op \in {"close", "reset"} :
            Begin(x, op, "session", session.id, session.status, NoPattern)
      BY <1>5 DEF EndSession
    <2>2. session.status \in {"none", "scheduled", "running"}
      BY <1>5, Seen DEF EndSession
    <2> QED
      BY <2>1, <2>2, Begins, Seen DEF Ops, Endings
  <1>6. CASE DeleteSession(x)
    <2>1. session.status \in {"none", "scheduled", "running"}
      BY <1>6, Seen DEF DeleteSession
    <2> QED
      BY <1>6, <2>1, Begins, Seen DEF DeleteSession, Ops, Endings
  <1> QED
    BY <1>1, <1>2, <1>3, <1>4, <1>5, <1>6

LEMMA LockPatternKeeps ==
  ASSUME ScheduleInv, NEW x \in Processes, LockPattern(x)
  PROVE  ScheduleInv'
PROOF
  <1>1. requests[x].step = "pattern" /\ ~PatternLocked(x)
    BY DEF LockPattern
  <1>2. PICK request : request = requests[x]
    OBVIOUS
  <1>3. request \in Requests /\ Follows(request) /\ Current(request)
    BY <1>1, <1>2, Known
  <1>4. begun' \in 0..MaxRequests /\ UNCHANGED <<clock, pattern, session, lastId, stopped, overtaken, begun>>
    BY DEF LockPattern, ScheduleInv, RowsOK
  <1>5. CASE pattern = NoPattern /\ request.op # "save_pattern"
    BY <1>2, <1>4, <1>5, RollsBack DEF LockPattern
  <1>6. CASE ~(pattern = NoPattern /\ request.op # "save_pattern")
    <2>1. PICK r : r = [request EXCEPT !.locks = pattern # NoPattern, !.copy = pattern,
                          !.step = IF request.op = "create_next" THEN "write" ELSE "find"]
      OBVIOUS
    <2>2. Goto(x, r)
      BY <1>2, <1>6, <2>1 DEF LockPattern
    <2>3. /\ r.op = request.op /\ r.holds = request.holds /\ r.target = request.target
          /\ r.locks = (pattern # NoPattern) /\ r.copy = pattern /\ r.input = request.input
          /\ r.step = IF request.op = "create_next" THEN "write" ELSE "find"
      BY <1>3, <2>1 DEF Requests
    <2>4. r \in Requests
      <3>1. pattern \in Rows
        BY DEF ScheduleInv, RowsOK
      <3> QED
        BY <1>3, <2>1, <3>1 DEF Requests, Steps
    <2>5. Follows(r)
      BY <1>1, <1>2, <1>3, <1>6, <2>3 DEF Follows
    <2>6. Current(r)
      BY <1>1, <1>2, <1>3, <1>6, <2>3 DEF Current, Follows
    <2>7. r.holds = None
      BY <1>1, <1>2, <1>3, <2>3 DEF Follows
    <2> QED
      BY <1>1, <1>4, <2>2, <2>4, <2>5, <2>6, <2>7, ReadStep DEF WellFormed
  <1> QED
    BY <1>5, <1>6

LEMMA FindKeeps ==
  ASSUME ScheduleInv, NEW x \in Processes, Find(x)
  PROVE  ScheduleInv'
PROOF
  <1>1. PICK request : request = requests[x]
    OBVIOUS
  <1>2. request.step = "find"
    BY <1>1 DEF Find
  <1>3. request \in Requests /\ Follows(request) /\ Current(request)
    BY <1>1, <1>2, Known
  <1>4. begun' \in 0..MaxRequests /\ UNCHANGED <<clock, pattern, session, lastId, stopped, overtaken, begun>>
    BY DEF Find, ScheduleInv, RowsOK
  <1>5. PICK r : r = [request EXCEPT !.target = session.id, !.step = "session"]
    OBVIOUS
  <1>6. Goto(x, r)
    BY <1>1, <1>5 DEF Find
  <1>7. /\ r.op = request.op /\ r.holds = request.holds /\ r.target = session.id
        /\ r.locks = request.locks /\ r.copy = request.copy /\ r.input = request.input
        /\ r.step = "session"
    BY <1>3, <1>5 DEF Requests
  <1>8. r \in Requests
    BY <1>3, <1>5, Seen DEF Requests, Steps
  <1>9. Follows(r) /\ r.holds = None
    BY <1>2, <1>3, <1>7 DEF Follows
  <1>10. Current(r)
    BY <1>2, <1>3, <1>7, <1>9 DEF Current
  <1> QED
    BY <1>1, <1>4, <1>6, <1>7, <1>8, <1>9, <1>10, ReadStep DEF WellFormed

LEMMA ReadPatternKeeps ==
  ASSUME ScheduleInv, NEW x \in Processes, ReadPattern(x)
  PROVE  ScheduleInv'
PROOF
  <1>1. PICK request : request = requests[x]
    OBVIOUS
  <1>2. request.step = "read"
    BY <1>1 DEF ReadPattern
  <1>3. request \in Requests /\ Follows(request) /\ Current(request)
    BY <1>1, <1>2, Known
  <1>4. begun' \in 0..MaxRequests /\ UNCHANGED <<clock, pattern, session, lastId, stopped, overtaken, begun>>
    BY DEF ReadPattern, ScheduleInv, RowsOK
  <1>5. PICK r : r = [request EXCEPT !.copy = pattern, !.step = "write"]
    OBVIOUS
  <1>6. Goto(x, r)
    BY <1>1, <1>5 DEF ReadPattern
  <1>7. /\ r.op = request.op /\ r.holds = request.holds /\ r.target = request.target
        /\ r.locks = request.locks /\ r.copy = pattern /\ r.input = request.input
        /\ r.step = "write"
    BY <1>3, <1>5 DEF Requests
  <1>8. r \in Requests
    <2>1. pattern \in Rows
      BY DEF ScheduleInv, RowsOK
    <2> QED
      BY <1>3, <1>5, <2>1 DEF Requests, Steps
  <1>9. r.op \in Endings
    BY <1>2, <1>3, <1>7 DEF Follows
  <1>10. r.op \notin {"save_pattern", "delete_pattern", "create_next", "add_one_off"}
    BY <1>9 DEF Endings
  <1>11. Follows(r) /\ Current(r)
    BY <1>2, <1>3, <1>7, <1>9, <1>10 DEF Follows, Current
  <1> QED
    BY <1>1, <1>4, <1>6, <1>7, <1>8, <1>11, ReadStep DEF WellFormed

LEMMA LockSessionKeeps ==
  ASSUME ScheduleInv, NEW x \in Processes, LockSession(x)
  PROVE  ScheduleInv'
PROOF
  <1>1. PICK request : request = requests[x]
    OBVIOUS
  <1>2. request.step = "session" /\ ~RowLocked(x, request.target)
    BY <1>1 DEF LockSession, SessionFree
  <1>3. request \in Requests /\ Follows(request) /\ Current(request)
    BY <1>1, <1>2, Known
  <1>4. /\ begun' \in 0..MaxRequests
        /\ UNCHANGED <<clock, pattern, session, lastId, stopped, overtaken, begun>>
    BY DEF LockSession, ScheduleInv, RowsOK
  <1>5. request.op \in Ops /\ request.holds = None
    BY <1>2, <1>3 DEF Requests, Follows
  <1>6. PICK found \in BOOLEAN :
          found <=> (request.target # None /\ session.id = request.target)
    OBVIOUS
  <1>7. CASE found /\ StillAsked(request)
    <2>1. PICK r : r = Locked(request)
      OBVIOUS
    <2>2. Goto(x, r)
      BY <1>1, <1>6, <1>7, <2>1 DEF LockSession
    <2>3. /\ r.op = request.op /\ r.holds = request.target /\ r.target = request.target
          /\ r.locks = request.locks /\ r.copy = request.copy /\ r.input = request.input
          /\ r.step = IF request.op \in Endings THEN "read" ELSE "write"
      BY <1>3, <2>1 DEF Requests, Locked
    <2>4. r \in Requests
      BY <1>3, <2>1 DEF Requests, Steps, Locked
    <2>5. request.op # "create_next"
      BY <1>7 DEF StillAsked, Endings
    <2>6. Follows(r)
      BY <1>2, <1>3, <1>6, <1>7, <2>3, <2>5 DEF Follows
    <2>7. Current(r)
      BY <1>2, <1>3, <1>6, <1>7, <2>3 DEF Current
    <2> QED
      BY <1>1, <1>2, <1>4, <2>2, <2>3, <2>4, <2>6, <2>7, ReadStep DEF WellFormed
  <1>8. CASE ~found /\ request.op \in {"save_pattern", "delete_pattern", "add_one_off"}
    <2>1. PICK r : r = [request EXCEPT !.step = "write"]
      OBVIOUS
    <2>2. Goto(x, r)
      BY <1>1, <1>6, <1>8, <2>1 DEF LockSession
    <2>3. /\ r.op = request.op /\ r.holds = request.holds /\ r.target = request.target
          /\ r.locks = request.locks /\ r.copy = request.copy /\ r.input = request.input
          /\ r.step = "write"
      BY <1>3, <2>1 DEF Requests
    <2>4. r \in Requests
      BY <1>3, <2>1 DEF Requests, Steps
    <2>5. Follows(r)
      BY <1>2, <1>3, <1>5, <1>8, <2>3 DEF Follows, Endings
    <2>6. session.id = None => NotFromPattern
      BY NoRow DEF NotFromPattern, ScheduleInv, RowsOK
    <2>7. Current(r)
      BY <1>2, <1>3, <1>5, <1>6, <1>8, <2>3, <2>6 DEF Current, Endings
    <2> QED
      BY <1>1, <1>4, <1>5, <2>2, <2>3, <2>4, <2>5, <2>7, ReadStep DEF WellFormed
  <1>9. CASE ~found /\ request.op = "create_next"
    <2>1. PICK r : r = [request EXCEPT !.step = "pattern"]
      OBVIOUS
    <2>2. Goto(x, r)
      BY <1>1, <1>6, <1>9, <2>1 DEF LockSession
    <2>3. /\ r.op = request.op /\ r.holds = request.holds /\ r.target = request.target
          /\ r.locks = request.locks /\ r.copy = request.copy /\ r.input = request.input
          /\ r.step = "pattern"
      BY <1>3, <2>1 DEF Requests
    <2>4. r \in Requests
      BY <1>3, <2>1 DEF Requests, Steps
    <2>5. Follows(r)
      BY <1>2, <1>3, <1>5, <1>9, <2>3 DEF Follows, Endings
    <2>6. Current(r)
      BY <1>2, <1>3, <1>5, <1>9, <2>3 DEF Current, Endings
    <2> QED
      BY <1>1, <1>4, <1>5, <2>2, <2>3, <2>4, <2>5, <2>6, ReadStep DEF WellFormed
  <1>10. CASE \/ found /\ ~StillAsked(request)
              \/ ~found /\ request.op \in Endings
    <2>1. Over(x)
      BY <1>1, <1>6, <1>10 DEF LockSession, Endings
    <2> QED
      BY <1>4, <2>1, RollsBack
  <1> QED
    BY <1>5, <1>7, <1>8, <1>9, <1>10 DEF Ops

\* A session made of the pattern as it is when the making is committed.
LEMMA Made ==
  ASSUME ScheduleInv, NEW of \in PatternRow, NEW now \in Nat,
         session' = FromPattern(of, now), pattern'.id = of.id, ~overtaken' => pattern' = of
  PROVE  /\ session' \in SessionRow /\ session' # NoSession
         /\ FromThePattern' /\ ScheduleNeverRunsDry' /\ PendingIsTheNextOccurrence'
PROOF
  <1>1. PICK made : made = FromPattern(of, now)
    OBVIOUS
  <1>2. lastId \in Nat
    BY DEF ScheduleInv, RowsOK
  <1>3. /\ made \in SessionRow /\ made # NoSession /\ made.from = of.id
        /\ made.opens = InstantAt(LocalDateOf(made.opens), of.opensAt)
        /\ IsNextOccurrence(of, made.madeAt, LocalDateOf(made.opens))
    BY <1>1, <1>2, MadeFrom
  <1>4. session' = made
    BY <1>1
  <1>5. FromThePattern' /\ ScheduleNeverRunsDry'
    BY <1>3, <1>4 DEF FromThePattern, ScheduleNeverRunsDry
  <1>6. PendingIsTheNextOccurrence'
    BY <1>3, <1>4 DEF PendingIsTheNextOccurrence
  <1> QED
    BY <1>3, <1>4, <1>5, <1>6

\* What another transaction knows.
LEMMA Others ==
  ASSUME ScheduleInv, NEW x \in Processes, NEW y \in Processes \ {x},
         NEW r \in Requests \cup {Idle}, r = requests[y]
  PROVE  /\ Current(r)
         /\ r = Idle => r.holds = None /\ ~r.locks /\ r.op \notin Endings /\ r.op # "save_pattern"
         /\ r # Idle => Follows(r)
PROOF
  BY DEF ScheduleInv, RequestsOK, WellFormed, Idle, Endings

LEMMA WriteEndKeeps ==
  ASSUME ScheduleInv, NEW x \in Processes, WriteEnd(x)
  PROVE  ScheduleInv'
PROOF
  <1>1. PICK request : request = requests[x]
    OBVIOUS
  <1>2. /\ request.step = "write" /\ request.op \in Endings /\ MayInsert(x) /\ Over(x)
        /\ UNCHANGED <<clock, pattern, overtaken, begun>>
    BY <1>1 DEF WriteEnd
  <1>3. request \in Requests /\ Follows(request) /\ Current(request)
    BY <1>1, <1>2, Known
  <1>4. request.holds # None /\ request.copy \in Rows /\ request.now \in Nat
    BY <1>2, <1>3, ScheduleAssumption DEF Follows, Requests
  <1>5. \A y \in Processes \ {x} : requests[y].holds = None
    BY <1>1, <1>4, HolderIsAlone
  <1>6. CASE LosesPattern(request)
    BY <1>1, <1>2, <1>6, RollsBack DEF WriteEnd
  <1>7. CASE ~LosesPattern(request) /\ WaitsForPattern(request)
    <2>1. session' = NextOf(request) /\ lastId' = lastId + 1 /\ stopped' = (request.op = "reset")
      <3>1. stopped' = (request.op = "reset" \/ (stopped /\ ~WaitsForPattern(request)))
        BY <1>1, <1>7 DEF WriteEnd
      <3> QED
        BY <1>1, <1>7, <3>1 DEF WriteEnd
    <2>2. /\ request.copy \in PatternRow
          /\ NextOf(request) = FromPattern(request.copy, request.now)
      BY <1>4, <1>7 DEF WaitsForPattern, NextOf, Rows
    <2>3. pattern.id = request.copy.id
      BY <1>7 DEF LosesPattern
    <2>4. ~overtaken => pattern = request.copy
      BY <1>2, <1>3, <2>2, <2>3, NoRow DEF Current
    <2>5. /\ session' \in SessionRow /\ session' # NoSession
          /\ FromThePattern' /\ ScheduleNeverRunsDry' /\ PendingIsTheNextOccurrence'
      BY <1>2, <1>4, <2>1, <2>2, <2>3, <2>4, Made
    <2>6. RowsOK'
      BY <1>2, <2>1, <2>5 DEF ScheduleInv, RowsOK
    <2>7. \A y \in Processes \ {x} : ~requests[y].locks
      BY <1>1, <1>2, <1>7 DEF MayInsert, PatternLocked
    <2>8. ASSUME NEW y \in Processes \ {x}, NEW r \in Requests \cup {Idle}, r = requests[y]
          PROVE  Current(r)'
      BY <1>2, <1>5, <2>7, <2>8, Others DEF Current
    <2> QED
      BY <1>2, <2>5, <2>6, <2>8, Commits
  <1>8. CASE ~LosesPattern(request) /\ ~WaitsForPattern(request)
    <2>1. session' = NoSession /\ lastId' = lastId
      BY <1>1, <1>8 DEF WriteEnd, WaitsForPattern
    <2>2. stopped' = (request.op = "reset" \/ stopped)
      <3>1. stopped' = (request.op = "reset" \/ (stopped /\ ~WaitsForPattern(request)))
        BY <1>1, <1>8 DEF WriteEnd
      <3> QED
        BY <1>8, <3>1
    <2>3. RowsOK'
      BY <1>2, <2>1, <2>2 DEF ScheduleInv, RowsOK
    <2>4. NotFromPattern'
      BY <2>1 DEF NotFromPattern
    <2>5. ASSUME NEW y \in Processes \ {x}, NEW r \in Requests \cup {Idle}, r = requests[y]
          PROVE  Current(r)'
      <3>1. Current(r) /\ r.holds = None
        BY <1>5, <2>5, Others
      <3> QED
        BY <1>2, <2>4, <3>1 DEF Current
    <2>6. FromThePattern' /\ PendingIsTheNextOccurrence'
      BY <2>1 DEF FromThePattern, PendingIsTheNextOccurrence
    <2>7. ASSUME ~stopped', ~overtaken
          PROVE  pattern = NoPattern
      <3>1. Followed(request.op)
        BY <1>2, <2>2, <2>7 DEF Endings, Followed
      <3>2. request.copy = NoPattern
        <4> SUFFICES ASSUME request.copy # NoPattern PROVE FALSE
          OBVIOUS
        <4>1. NextOf(request) = FromPattern(request.copy, request.now)
          BY <3>1 DEF NextOf
        <4>2. lastId \in Nat /\ request.copy \in PatternRow
          BY <1>4 DEF ScheduleInv, RowsOK, Rows
        <4>3. FromPattern(request.copy, request.now) # NoSession
          BY <1>4, <4>2, MadeFrom
        <4> QED
          BY <1>8, <4>1, <4>3 DEF WaitsForPattern
      <3> QED
        BY <1>2, <1>3, <2>7, <3>2 DEF Current
    <2>8. ScheduleNeverRunsDry'
      BY <1>2, <2>7 DEF ScheduleNeverRunsDry
    <2> QED
      BY <1>2, <2>3, <2>5, <2>6, <2>8, Commits
  <1> QED
    BY <1>6, <1>7, <1>8

LEMMA WriteSavePatternKeeps ==
  ASSUME ScheduleInv, NEW x \in Processes, WriteSavePattern(x)
  PROVE  ScheduleInv'
PROOF
  <1>1. PICK request : request = requests[x]
    OBVIOUS
  <1>2. /\ request.step = "write" /\ request.op = "save_pattern" /\ Over(x)
        /\ UNCHANGED <<clock, begun>>
    BY <1>1 DEF WriteSavePattern
  <1>3. request \in Requests /\ Follows(request) /\ Current(request)
    BY <1>1, <1>2, Known
  <1>4. request.copy \in Rows /\ request.now \in Nat /\ lastId \in Nat
    BY <1>3, ScheduleAssumption DEF Requests, ScheduleInv, RowsOK
  <1>5. CASE pattern # request.copy
    BY <1>1, <1>2, <1>5, RollsBack DEF WriteSavePattern
  <1>6. CASE pattern = request.copy
    <2>1. PICK saved :
            saved = [id |-> IF request.copy = NoPattern THEN lastId + 1 ELSE request.copy.id,
                     startsOn |-> request.input.startsOn, opensAt |-> request.input.opensAt]
      OBVIOUS
    <2>2. /\ pattern' = saved /\ lastId' = lastId + 1
          /\ IF session = NoSession \/ Replaceable(request, saved.id)
             THEN session' = FromPattern(saved, request.now) /\ stopped' = FALSE
             ELSE UNCHANGED <<session, stopped>>
          /\ overtaken' = (request.holds = None /\ \E y \in Processes \ {x} :
                              requests[y].op \in Endings /\ requests[y].step = "write")
      BY <1>1, <1>6, <2>1 DEF WriteSavePattern
    <2>3. saved.id = IF request.copy = NoPattern THEN lastId + 1 ELSE request.copy.id
      BY <2>1
    <2>4. saved \in PatternRow
      <3>1. request.input \in Patterns
        BY <1>2, <1>3, ScheduleAssumption DEF Follows
      <3>2. saved.id \in Nat \ {0}
        BY <1>4, <2>3, NoRow DEF Rows, None
      <3> QED
        BY <2>1, <2>3, <3>1, <3>2 DEF Patterns, PatternRow
    <2>5. \A y \in Processes \ {x} : ~requests[y].locks
      <3> SUFFICES ASSUME NEW y \in Processes \ {x}, requests[y].locks PROVE FALSE
        OBVIOUS
      <3>1. PICK r \in Requests \cup {Idle} : r = requests[y]
        BY DEF ScheduleInv, RequestsOK
      <3>2. r.copy = pattern /\ r.copy # NoPattern
        BY <3>1, Others DEF Current, Follows
      <3>3. request.locks
        BY <1>2, <1>3, <1>6, <3>2 DEF Follows
      <3> QED
        BY <1>1, <3>3, LockerIsAlone
    <2>6. ASSUME NEW y \in Processes \ {x}, NEW r \in Requests \cup {Idle}, r = requests[y]
          PROVE  Current(r)'
      <3>1. Current(r) /\ ~r.locks
        BY <2>5, <2>6, Others
      <3>2. r.holds # None => r.holds = session'.id
        <4>1. session' = session \/ session = NoSession \/ request.holds # None
          BY <2>2 DEF Replaceable
        <4>2. session = NoSession \/ request.holds # None => r.holds = None
          BY <1>1, <2>6, HolderIsAlone
        <4> QED
          BY <3>1, <4>1, <4>2 DEF Current
      <3>3. r.op \in Endings /\ r.step = "write" => overtaken'
        <4> SUFFICES ASSUME r.op \in Endings, r.step = "write", ~overtaken' PROVE FALSE
          BY <2>2
        <4>1. request.holds # None
          BY <2>2, <2>6
        <4>2. r.holds = None
          BY <1>1, <2>6, <4>1, HolderIsAlone
        <4>3. r.holds # None
          BY <2>6, Others DEF Follows
        <4> QED
          BY <4>2, <4>3
      <3> QED
        BY <3>1, <3>2, <3>3 DEF Current
    <2>7. CASE session = NoSession \/ Replaceable(request, saved.id)
      <3>1. session' = FromPattern(saved, request.now) /\ stopped' = FALSE
        BY <2>2, <2>7
      <3>2. /\ session' \in SessionRow /\ session' # NoSession
            /\ FromThePattern' /\ ScheduleNeverRunsDry' /\ PendingIsTheNextOccurrence'
        BY <1>4, <2>2, <2>4, <3>1, Made
      <3>3. overtaken' \in BOOLEAN /\ stopped' \in BOOLEAN
        BY <2>2, <3>1
      <3>4. lastId' \in Nat
        BY <1>4, <2>2
      <3>5. RowsOK'
        BY <1>2, <2>2, <2>4, <3>2, <3>3, <3>4 DEF ScheduleInv, RowsOK, Rows
      <3> QED
        BY <1>2, <2>6, <3>2, <3>5, Commits
    <2>8. CASE ~(session = NoSession \/ Replaceable(request, saved.id))
      <3>1. session' = session /\ stopped' = stopped
        BY <2>2, <2>8
      <3>2. overtaken' \in BOOLEAN
        BY <2>2
      <3>3. RowsOK'
        BY <1>2, <1>4, <2>2, <2>4, <3>1, <3>2 DEF ScheduleInv, RowsOK, Rows
      <3>4. session \in SessionRow
        BY <2>8 DEF ScheduleInv, RowsOK
      <3>5. session.from # None =>
              session.from = pattern.id /\ pattern # NoPattern /\ saved.id = session.from
        <4>1. session.from # None => session.from = pattern.id
          BY <2>8 DEF ScheduleInv, FromThePattern
        <4> QED
          BY <1>6, <2>3, <4>1, NoRow
      <3>6. FromThePattern'
        BY <2>2, <3>1, <3>5 DEF FromThePattern
      <3>7. ScheduleNeverRunsDry'
        BY <2>8, <3>1 DEF ScheduleNeverRunsDry
      <3>8. ASSUME session.from # None, session.status = "scheduled", ~session.joined
            PROVE  FALSE
        <4>1. request.locks
          BY <1>2, <1>3, <1>6, <3>5, <3>8 DEF Follows
        <4>2. request.holds # None /\ request.holds = session.id
          BY <1>2, <1>3, <2>8, <3>8, <4>1 DEF Current, NotFromPattern
        <4> QED
          BY <2>8, <3>5, <3>8, <4>2 DEF Replaceable, Deletable
      <3>9. PendingIsTheNextOccurrence'
        BY <3>1, <3>8 DEF PendingIsTheNextOccurrence
      <3> QED
        BY <1>2, <2>6, <3>3, <3>6, <3>7, <3>9, Commits
    <2> QED
      BY <2>7, <2>8
  <1> QED
    BY <1>5, <1>6

LEMMA WriteDeletePatternKeeps ==
  ASSUME ScheduleInv, NEW x \in Processes, WriteDeletePattern(x)
  PROVE  ScheduleInv'
PROOF
  <1>1. PICK request : request = requests[x]
    OBVIOUS
  <1>2. /\ request.step = "write" /\ request.op = "delete_pattern" /\ Over(x)
        /\ pattern' = NoPattern /\ UNCHANGED <<clock, lastId, stopped, overtaken, begun>>
    BY <1>1 DEF WriteDeletePattern
  <1>3. request \in Requests /\ Follows(request)
    BY <1>1, <1>2, Known
  <1>4. \A y \in Processes \ {x} : ~requests[y].locks
    BY <1>1, <1>2, <1>3, LockerIsAlone DEF Follows
  <1>5. session \in SessionRow \cup {NoSession}
    BY DEF ScheduleInv, RowsOK
  <1>6. \/ session' = NoSession /\ (session = NoSession \/ request.holds # None)
        \/ session \in SessionRow /\ session' = [session EXCEPT !.from = None]
    BY <1>1, <1>5 DEF WriteDeletePattern, Replaceable
  <1>7. \/ session' = NoSession /\ (session = NoSession \/ request.holds # None)
        \/ session \in SessionRow /\ session' \in SessionRow /\ session'.from = None
             /\ session'.id = session.id
    <2>1. ASSUME session \in SessionRow
          PROVE  LET row == [session EXCEPT !.from = None]
                 IN  row \in SessionRow /\ row.from = None /\ row.id = session.id
      BY <2>1 DEF SessionRow, None
    <2> QED
      BY <1>6, <2>1
  <1>8. NotFromPattern'
    BY <1>7 DEF NotFromPattern
  <1>9. RowsOK'
    BY <1>2, <1>7 DEF ScheduleInv, RowsOK, Rows
  <1>10. ASSUME NEW y \in Processes \ {x}, NEW r \in Requests \cup {Idle}, r = requests[y]
         PROVE  Current(r)'
    <2>1. Current(r) /\ ~r.locks
      BY <1>4, <1>10, Others
    <2>2. r.holds # None => r.holds = session'.id
      <3>1. session'.id = session.id \/ session = NoSession \/ request.holds # None
        BY <1>7
      <3>2. session = NoSession \/ request.holds # None => r.holds = None
        BY <1>1, <1>10, HolderIsAlone
      <3> QED
        BY <2>1, <3>1, <3>2 DEF Current
    <2> QED
      BY <1>2, <2>1, <2>2 DEF Current
  <1>11. FromThePattern' /\ ScheduleNeverRunsDry' /\ PendingIsTheNextOccurrence'
    BY <1>2, <1>8
       DEF NotFromPattern, FromThePattern, ScheduleNeverRunsDry, PendingIsTheNextOccurrence
  <1> QED
    BY <1>2, <1>9, <1>10, <1>11, Commits

LEMMA WriteCreateNextKeeps ==
  ASSUME ScheduleInv, NEW x \in Processes, WriteCreateNext(x)
  PROVE  ScheduleInv'
PROOF
  <1>1. PICK request : request = requests[x]
    OBVIOUS
  <1>2. /\ request.step = "write" /\ request.op = "create_next" /\ Over(x)
        /\ UNCHANGED <<clock, pattern, overtaken, begun>>
    BY <1>1 DEF WriteCreateNext
  <1>3. request \in Requests /\ Follows(request) /\ Current(request)
    BY <1>1, <1>2, Known
  <1>4. request.locks /\ request.copy = pattern /\ request.copy \in PatternRow /\ request.now \in Nat
    BY <1>2, <1>3, ScheduleAssumption DEF Follows, Current, Requests, Rows
  <1>5. CASE session # NoSession
    BY <1>1, <1>2, <1>5, RollsBack DEF WriteCreateNext
  <1>6. CASE session = NoSession
    <2>1. /\ session' = FromPattern(request.copy, request.now)
          /\ lastId' = lastId + 1 /\ stopped' = FALSE
      BY <1>1, <1>6 DEF WriteCreateNext
    <2>2. /\ session' \in SessionRow /\ session' # NoSession
          /\ FromThePattern' /\ ScheduleNeverRunsDry' /\ PendingIsTheNextOccurrence'
      BY <1>2, <1>4, <2>1, Made
    <2>3. RowsOK'
      <3>1. lastId' \in Nat
        BY <2>1 DEF ScheduleInv, RowsOK
      <3>2. stopped' \in BOOLEAN
        BY <2>1
      <3> QED
        BY <1>2, <2>2, <3>1, <3>2 DEF ScheduleInv, RowsOK
    <2>4. ASSUME NEW y \in Processes \ {x}, NEW r \in Requests \cup {Idle}, r = requests[y]
          PROVE  Current(r)'
      <3>1. Current(r) /\ r.holds = None
        BY <1>1, <1>6, <2>4, HolderIsAlone, Others
      <3>2. ~r.locks
        BY <1>1, <1>4, <2>4, LockerIsAlone
      <3> QED
        BY <1>2, <3>1, <3>2 DEF Current
    <2> QED
      BY <1>2, <2>2, <2>3, <2>4, Commits
  <1> QED
    BY <1>5, <1>6

LEMMA WriteOneOffKeeps ==
  ASSUME ScheduleInv, NEW x \in Processes, WriteOneOff(x)
  PROVE  ScheduleInv'
PROOF
  <1>1. PICK request : request = requests[x]
    OBVIOUS
  <1>2. /\ request.step = "write" /\ request.op = "add_one_off" /\ Over(x)
        /\ UNCHANGED <<clock, pattern, overtaken, begun>>
    BY <1>1 DEF WriteOneOff
  <1>3. request \in Requests /\ request.now \in Nat /\ lastId \in Nat
    BY <1>1, <1>2, Known, ScheduleAssumption DEF Requests, ScheduleInv, RowsOK
  <1>4. PICK replaces \in BOOLEAN :
          replaces <=> (session = NoSession \/ (session.from # None /\ Replaceable(request, session.from)))
    OBVIOUS
  <1>5. CASE ~replaces
    BY <1>1, <1>2, <1>4, <1>5, RollsBack DEF WriteOneOff
  <1>6. CASE replaces
    <2>1. session' = OneOff(request.now) /\ lastId' = lastId + 1 /\ stopped' = FALSE
      BY <1>1, <1>4, <1>6 DEF WriteOneOff
    <2>2. OneOff(request.now) \in SessionRow /\ OneOff(request.now).from = None
      BY <1>3 DEF OneOff, SessionRow, None
    <2>3. session' \in SessionRow /\ session' # NoSession /\ session'.from = None
      BY <2>1, <2>2, NoRow
    <2>4. RowsOK'
      <3>1. lastId' \in Nat
        BY <1>3, <2>1
      <3>2. stopped' \in BOOLEAN
        BY <2>1
      <3> QED
        BY <1>2, <2>3, <3>1, <3>2 DEF ScheduleInv, RowsOK
    <2>5. ASSUME NEW y \in Processes \ {x}, NEW r \in Requests \cup {Idle}, r = requests[y]
          PROVE  Current(r)'
      <3>1. Current(r) /\ r.holds = None
        BY <1>1, <1>4, <1>6, <2>5, HolderIsAlone, Others DEF Replaceable
      <3>2. NotFromPattern'
        BY <2>3 DEF NotFromPattern
      <3> QED
        BY <1>2, <3>1, <3>2 DEF Current
    <2>6. FromThePattern' /\ ScheduleNeverRunsDry' /\ PendingIsTheNextOccurrence'
      BY <2>3 DEF FromThePattern, ScheduleNeverRunsDry, PendingIsTheNextOccurrence
    <2> QED
      BY <1>2, <2>4, <2>5, <2>6, Commits
  <1> QED
    BY <1>5, <1>6

\* A statement that leaves the session its id and its pattern.
LEMMA SingleKeeps ==
  ASSUME ScheduleInv, UpdateSession \/ Open \/ Join
  PROVE  ScheduleInv'
PROOF
  <1>1. /\ session # NoSession /\ session.status = "scheduled"
        /\ UNCHANGED <<clock, pattern, lastId, requests, stopped, overtaken, begun>>
    BY DEF UpdateSession, Open, Join
  <1>2. session \in SessionRow /\ clock \in Nat
    BY <1>1, ScheduleAssumption DEF ScheduleInv, RowsOK
  <1> DEFINE later == clock + 1
  <1> later \in Nat
    BY <1>2
  <1>3. \/ session' = [session EXCEPT !.opens = later, !.edited = TRUE]
        \/ session' = [session EXCEPT !.status = "running"]
        \/ session' = [session EXCEPT !.joined = TRUE]
    BY DEF UpdateSession, Open, Join
  <1> HIDE DEF later
  <1>4. /\ session' \in SessionRow
        /\ session'.id = session.id /\ session'.from = session.from
        /\ session'.edited \/ session'.status = "running" \/ session'.joined
    <2>1. ASSUME NEW row, row = [session EXCEPT !.opens = later, !.edited = TRUE]
          PROVE  row \in SessionRow /\ row.id = session.id /\ row.from = session.from /\ row.edited
      BY <1>2, <2>1 DEF SessionRow
    <2>2. ASSUME NEW row, row = [session EXCEPT !.status = "running"]
          PROVE  /\ row \in SessionRow /\ row.id = session.id /\ row.from = session.from
                 /\ row.status = "running"
      BY <1>2, <2>2 DEF SessionRow
    <2>3. ASSUME NEW row, row = [session EXCEPT !.joined = TRUE]
          PROVE  row \in SessionRow /\ row.id = session.id /\ row.from = session.from /\ row.joined
      BY <1>2, <2>3 DEF SessionRow
    <2> QED
      BY <1>3, <2>1, <2>2, <2>3
  <1>5. session' # NoSession
    BY <1>4, NoRow
  <1>6. RowsOK'
    BY <1>1, <1>4 DEF ScheduleInv, RowsOK
  <1>7. FromThePattern'
    BY <1>1, <1>4 DEF ScheduleInv, FromThePattern
  <1>8. ScheduleNeverRunsDry' /\ PendingIsTheNextOccurrence'
    BY <1>4, <1>5 DEF ScheduleNeverRunsDry, PendingIsTheNextOccurrence
  <1>9. RequestsOK'
    <2>1. ASSUME NEW y \in Processes PROVE WellFormed(requests[y]) /\ Current(requests[y])'
      BY <1>1, <1>4 DEF ScheduleInv, RequestsOK, Current, NotFromPattern
    <2> QED
      BY <1>1, <2>1 DEF ScheduleInv, RequestsOK, WellFormed, Follows, Apart
  <1> QED
    BY <1>6, <1>7, <1>8, <1>9 DEF ScheduleInv

LEMMA TickKeeps ==
  ASSUME ScheduleInv, Tick
  PROVE  ScheduleInv'
PROOF
  <1>1. /\ clock' \in 0..MaxTime
        /\ UNCHANGED <<pattern, session, lastId, requests, stopped, overtaken, begun>>
    BY ScheduleAssumption DEF Tick, ScheduleInv, RowsOK
  <1>2. RowsOK'
    BY <1>1 DEF ScheduleInv, RowsOK
  <1>3. RequestsOK'
    BY <1>1 DEF ScheduleInv, RequestsOK, WellFormed, Follows, Current, NotFromPattern, Apart
  <1>4. FromThePattern' /\ ScheduleNeverRunsDry' /\ PendingIsTheNextOccurrence'
    BY <1>1 DEF ScheduleInv, FromThePattern, ScheduleNeverRunsDry, PendingIsTheNextOccurrence
  <1> QED
    BY <1>2, <1>3, <1>4 DEF ScheduleInv

LEMMA InitGives == Init => ScheduleInv
PROOF
  <1> SUFFICES ASSUME Init PROVE ScheduleInv
    OBVIOUS
  <1>1. requests = [x \in Processes |-> Idle] /\ clock = 0 /\ clock \in 0..MaxTime
    BY ScheduleAssumption DEF Init
  <1>2. RequestsOK
    <2>1. \A x \in Processes : requests[x] = Idle
      BY <1>1
    <2>2. Apart(Idle, Idle)
      BY IdleIsOK DEF Apart
    <2> QED
      BY <1>1, <2>1, <2>2, IdleIsOK DEF RequestsOK
  <1>3. stopped = FALSE /\ overtaken = FALSE /\ begun = 0 /\ 0 \in 0..MaxRequests
    BY ScheduleAssumption DEF Init
  <1>4. CASE pattern = NoPattern /\ session = NoSession /\ lastId = 0
    <2>1. RowsOK
      BY <1>1, <1>3, <1>4 DEF RowsOK, Rows
    <2>2. FromThePattern /\ ScheduleNeverRunsDry /\ PendingIsTheNextOccurrence
      BY <1>4 DEF FromThePattern, ScheduleNeverRunsDry, PendingIsTheNextOccurrence
    <2> QED
      BY <1>2, <2>1, <2>2 DEF ScheduleInv
  <1>5. ASSUME NEW setting \in Settings,
               pattern = [id |-> 1, startsOn |-> setting.startsOn, opensAt |-> setting.opensAt],
               lastId = 1, session = [FromPattern(pattern, clock) EXCEPT !.id = 1]
        PROVE  ScheduleInv
    <2>1. pattern \in PatternRow /\ pattern.id = 1
      BY <1>5, ScheduleAssumption DEF Patterns, PatternRow
    <2>2. PICK made : made = FromPattern(pattern, clock)
      OBVIOUS
    <2>3. /\ made \in SessionRow /\ made.from = pattern.id
          /\ made.opens = InstantAt(LocalDateOf(made.opens), pattern.opensAt)
          /\ IsNextOccurrence(pattern, made.madeAt, LocalDateOf(made.opens))
      BY <1>1, <1>5, <2>1, <2>2, MadeFrom
    <2>4. session = [made EXCEPT !.id = 1]
      BY <1>5, <2>2
    <2>5. /\ session \in SessionRow /\ session.from = pattern.id
          /\ session.opens = made.opens /\ session.madeAt = made.madeAt
      BY <2>3, <2>4 DEF SessionRow
    <2>6. RowsOK
      BY <1>1, <1>3, <1>5, <2>1, <2>5 DEF RowsOK, Rows
    <2>7. session # NoSession
      BY <2>5, NoRow
    <2>8. FromThePattern /\ ScheduleNeverRunsDry /\ PendingIsTheNextOccurrence
      BY <2>3, <2>5, <2>7 DEF FromThePattern, ScheduleNeverRunsDry, PendingIsTheNextOccurrence
    <2> QED
      BY <1>2, <2>6, <2>8 DEF ScheduleInv
  <1> QED
    BY <1>4, <1>5 DEF Init

LEMMA StepKeeps == ScheduleInv /\ [Next]_vars => ScheduleInv'
PROOF
  <1> SUFFICES ASSUME ScheduleInv, [Next]_vars PROVE ScheduleInv'
    OBVIOUS
  <1>1. ASSUME NEW x \in Processes, Proceed(x) PROVE ScheduleInv'
    <2>1. CASE Write(x)
      BY <2>1, WriteEndKeeps, WriteSavePatternKeeps, WriteDeletePatternKeeps,
         WriteCreateNextKeeps, WriteOneOffKeeps DEF Write
    <2> QED
      BY <1>1, <2>1, LockPatternKeeps, FindKeeps, LockSessionKeeps, ReadPatternKeeps DEF Proceed
  <1>2. CASE BreakDeadlock
    BY <1>2, RollsBack DEF BreakDeadlock
  <1>3. CASE UNCHANGED vars
    BY <1>3 DEF vars, ScheduleInv, RowsOK, RequestsOK, WellFormed, Follows, Current, NotFromPattern,
                Apart, FromThePattern, ScheduleNeverRunsDry, PendingIsTheNextOccurrence
  <1> QED
    BY <1>1, <1>2, <1>3, RequestKeeps, SingleKeeps, TickKeeps DEF Next

LEMMA ScheduleInvariant == Spec => []ScheduleInv
PROOF
  BY InitGives, StepKeeps, PTL DEF Spec

\* However the transactions that save or delete a pattern, end, delete or make a session
\* interleave, and whichever of them PostgreSQL fails, the rows and what the transactions hold
\* and know keep their types: a pattern a transaction has locked is the one it read.
THEOREM ScheduleTypeCorrect == Spec => []TypeOK
PROOF
  <1>1. ScheduleInv => TypeOK
    <2> SUFFICES ASSUME ScheduleInv, NEW x \in Processes, requests[x] # Idle
                 PROVE  /\ requests[x].op \in Ops
                        /\ requests[x].step \in {"pattern", "find", "session", "read", "write"}
                        /\ requests[x].now \in 0..MaxTime
                        /\ requests[x].holds \in {None, requests[x].target}
                        /\ requests[x].locks => requests[x].copy = pattern
      BY DEF ScheduleInv, RowsOK, TypeOK, Rows
    <2>1. requests[x] \in Requests /\ Follows(requests[x]) /\ Current(requests[x])
      BY DEF ScheduleInv, RequestsOK, WellFormed
    <2> QED
      BY <2>1 DEF Requests, Steps, Follows, Current
  <1> QED
    BY <1>1, ScheduleInvariant, PTL

\* A location that has a pattern is never left without a session that has not ended, except
\* by a reset or by the ending a save overtook: closing, deleting and saving insert the next
\* one in the transaction that takes the last away, whoever they run beside.
THEOREM ScheduleKeepsGoing == Spec => []ScheduleNeverRunsDry
PROOF
  <1>1. ScheduleInv => ScheduleNeverRunsDry
    BY DEF ScheduleInv
  <1> QED
    BY <1>1, ScheduleInvariant, PTL

\* An untouched session that came from the pattern is on the next occurrence of the pattern as
\* it is saved: no transaction commits one made of a pattern that was replaced while it ran.
THEOREM PendingSessionIsTheNext == Spec => []PendingIsTheNextOccurrence
PROOF
  <1>1. ScheduleInv => PendingIsTheNextOccurrence
    BY DEF ScheduleInv
  <1> QED
    BY <1>1, ScheduleInvariant, PTL

\* Where a transaction that waits is, by the lock it waits for.
LEMMA WhatIsWaitedFor ==
  ASSUME ScheduleInv, NEW x \in Processes, Waiting(x)
  PROVE  /\ requests[x] # Idle
         /\ requests[x].locks => requests[x].step = "session"
         /\ requests[x].holds # None => ~requests[x].locks /\ PatternLocked(x)
         /\ PatternLocked(x) \/ (requests[x].step = "session" /\ RowLocked(x, requests[x].target))
PROOF
  <1>1. requests[x].step \in {"session", "pattern", "write"}
    BY DEF Waiting
  <1>2. requests[x] # Idle
    BY <1>1 DEF Idle
  <1>3. Follows(requests[x])
    BY <1>2 DEF ScheduleInv, RequestsOK, WellFormed
  <1>4. CASE requests[x].step = "session" /\ ~SessionFree(x)
    BY <1>2, <1>3, <1>4 DEF Follows, SessionFree
  <1>5. CASE requests[x].step = "pattern" /\ PatternLocked(x)
    BY <1>2, <1>3, <1>5 DEF Follows
  <1>6. CASE requests[x].step = "write" /\ requests[x].op \in Endings /\ ~MayInsert(x)
    BY <1>2, <1>3, <1>6 DEF Follows, MayInsert
  <1> QED
    BY <1>4, <1>5, <1>6 DEF Waiting

\* Whoever has the pattern's lock and waits, waits for the session of one who waits for them.
LEMMA LockerIsDeadlocked ==
  ASSUME ScheduleInv, \A z \in Processes : requests[z] # Idle => Waiting(z),
         NEW x \in Processes, PatternLocked(x)
  PROVE  \E y \in Processes : Deadlocked(y)
PROOF
  <1>1. PICK y \in Processes \ {x} : requests[y].locks
    BY DEF PatternLocked
  <1>2. Waiting(y)
    BY <1>1 DEF Idle
  <1>3. requests[y].step = "session" /\ ~PatternLocked(y)
    BY <1>1, <1>2, WhatIsWaitedFor, LockerIsAlone DEF PatternLocked
  <1>4. RowLocked(y, requests[y].target)
    BY <1>2, <1>3, WhatIsWaitedFor
  <1>5. PICK z \in Processes \ {y} : requests[z].holds = requests[y].target /\ requests[z].holds # None
    BY <1>4 DEF RowLocked
  <1>6. Waiting(z)
    BY <1>5 DEF Idle
  <1>7. ~requests[z].locks
    BY <1>5, <1>6, WhatIsWaitedFor
  <1> QED
    BY <1>1, <1>2, <1>5, <1>6, <1>7 DEF Deadlocked

\* However many transactions there are, their waits form no circle but that of two which lock
\* the pattern and the session in opposite orders, which the database breaks: an ending holds
\* its session alone, and whoever holds the pattern can only be waiting for a session.
THEOREM WaitsAreBroken == Spec => []SomebodyGoesOn
PROOF
  <1>1. ScheduleInv => SomebodyGoesOn
    <2> SUFFICES ASSUME ScheduleInv, NEW x \in Processes, Waiting(x),
                        \A z \in Processes : requests[z] # Idle => Waiting(z)
                 PROVE  \E y \in Processes : Deadlocked(y)
      BY DEF SomebodyGoesOn
    <2>1. CASE PatternLocked(x)
      BY <2>1, LockerIsDeadlocked
    <2>2. CASE ~PatternLocked(x)
      <3>1. PICK y \in Processes \ {x} : requests[y].holds = requests[x].target
                                         /\ requests[y].holds # None
        BY <2>2, WhatIsWaitedFor DEF RowLocked
      <3>2. Waiting(y)
        BY <3>1 DEF Idle
      <3>3. PatternLocked(y)
        BY <3>1, <3>2, WhatIsWaitedFor
      <3> QED
        BY <3>3, LockerIsDeadlocked
    <2> QED
      BY <2>1, <2>2
  <1> QED
    BY <1>1, ScheduleInvariant, PTL

============================================================================
