------------------------------ MODULE Schedule ------------------------------
(***************************************************************************)
(* The schedule of a location: its recurrence pattern, the one session     *)
(* that has not ended, and the transactions that change either, with the   *)
(* row locks they take and the order they take them in.                    *)
(*                                                                         *)
(* Saving or deleting the pattern locks the pattern, then the session.     *)
(* Ending or deleting a session locks the session, then inserts the next,  *)
(* which for its foreign key waits for whoever holds the pattern.          *)
(* PostgreSQL ends the deadlocks that makes by failing a transaction.      *)
(*                                                                         *)
(* A transaction's writes are made in its last step, with its commit:      *)
(* before it only its locks can be seen.                                   *)
(***************************************************************************)
EXTENDS Recurrence, FiniteSets

CONSTANTS Processes, \* workers, guests' reads and timers: a transaction each
          Settings,  \* the patterns a worker may save
          MaxRequests, \* the bound on transactions begun
          MaxTime    \* the bound on the clock

ASSUME ScheduleAssumption ==
  Settings \subseteq Patterns /\ MaxRequests \in Nat /\ MaxTime \in Nat

VARIABLES
  clock,
  pattern,  \* the location's pattern, with its id
  session,  \* the session that has not ended
  lastId,   \* the last id given
  requests, \* requests[x]: the transaction of x
  stopped,  \* a reset left the location without a session
  begun,    \* how many transactions have been begun
  overtaken \* an ending had read the pattern when the last save was committed

vars == <<clock, pattern, session, lastId, requests, stopped, overtaken, begun>>

None == 0

NoPattern == [id |-> None]

NoSession == [id |-> None, status |-> "none"]

Idle == [step |-> "idle", op |-> "none", holds |-> None, locks |-> FALSE]

Goto(x, request) == requests' = [requests EXCEPT ![x] = request]

-----------------------------------------------------------------------------
(* Rows and their locks.                                                    *)

PatternLocked(x) == \E y \in Processes \ {x} : requests[y].locks

RowLocked(x, id) == id # None /\ \E y \in Processes \ {x} : requests[y].holds = id

\* createNextSession's values, of the pattern the transaction knows.
FromPattern(of, now) ==
  [id |-> lastId + 1, status |-> "scheduled", from |-> of.id,
   opens |-> InstantAt(NextOccurrence(of, now), of.opensAt),
   madeAt |-> now, edited |-> FALSE, joined |-> FALSE]

\* A one-off session opens in the future: the next instant stands for any.
OneOff(now) ==
  [id |-> lastId + 1, status |-> "scheduled", from |-> None, opens |-> now + 1,
   madeAt |-> now, edited |-> FALSE, joined |-> FALSE]

\* deletePendingSession: it never opened and nobody joined.
Deletable(row) == row.status = "scheduled" /\ ~row.joined

\* What ends the session or deletes it, and then inserts the next.  A close is a worker's or
\* the session's own.
Endings == {"close", "reset", "delete_session"}

\* Mutant: a deleted session is not followed.
OnlyClosesFollow(op) == op = "close"

\* Only a reset leaves the location without a next session.
Followed(op) == op \in {"close", "delete_session"}

\* The session that takes the place of the one the transaction holds.
NextOf(request) ==
  IF Followed(request.op) /\ request.copy # NoPattern
  THEN FromPattern(request.copy, request.now)
  ELSE NoSession

-----------------------------------------------------------------------------
(* The requests.                                                            *)

Begin(x, op, step, target, seen, input) ==
  /\ requests[x] = Idle
  /\ begun < MaxRequests
  /\ begun' = begun + 1
  /\ Goto(x, [op |-> op, step |-> step, now |-> clock, target |-> target, seen |-> seen,
              input |-> input, holds |-> None, locks |-> FALSE, copy |-> NoPattern])
  /\ UNCHANGED <<clock, pattern, session, lastId, stopped, overtaken>>

SavePattern(x) ==
  \E input \in Settings : Begin(x, "save_pattern", "pattern", None, "none", input)

DeletePattern(x) == Begin(x, "delete_pattern", "pattern", None, "none", NoPattern)

CreateNextSessionNow(x) == Begin(x, "create_next", "find", None, "none", NoPattern)

AddOneOffSession(x) == Begin(x, "add_one_off", "find", None, "none", NoPattern)

\* The session as a worker, a timer or a guest's read saw it.  A session that has not opened
\* is not reset, and no worker closes it, but an overdue one may never have opened.
EndSession(x) ==
  /\ session # NoSession
  /\ \E op \in {"close", "reset"} :
       /\ op = "close" \/ session.status = "running"
       /\ Begin(x, op, "session", session.id, session.status, NoPattern)

DeleteSession(x) ==
  /\ session # NoSession
  /\ Begin(x, "delete_session", "session", session.id, session.status, NoPattern)

-----------------------------------------------------------------------------
(* The statements of a transaction.                                         *)

\* COMMIT or ROLLBACK.
Over(x) == Goto(x, Idle)

\* lockPattern.
LockPattern(x) ==
  LET request == requests[x]
  IN  /\ request.step = "pattern"
      /\ ~PatternLocked(x)
      /\ IF pattern = NoPattern /\ request.op # "save_pattern"
         THEN Over(x)
         ELSE Goto(x, [request EXCEPT !.locks = pattern # NoPattern, !.copy = pattern,
                                      !.step = IF request.op = "create_next"
                                               THEN "write" ELSE "find"])
      /\ UNCHANGED <<clock, pattern, session, lastId, stopped, overtaken, begun>>

\* lockUnfinishedSession: the session it would lock.
Find(x) ==
  /\ requests[x].step = "find"
  /\ Goto(x, [requests[x] EXCEPT !.target = session.id, !.step = "session"])
  /\ UNCHANGED <<clock, pattern, session, lastId, stopped, overtaken, begun>>

\* Mutant: lockUnfinishedSession is a plain read.
Unlocked(x) == TRUE

\* The lock it waits for, if another has it.
SessionFree(x) == ~RowLocked(x, requests[x].target)

Locked(request) ==
  [request EXCEPT !.holds = request.target,
                  !.step = IF request.op \in Endings THEN "read" ELSE "write"]

\* What endSession and deleteSession compare once they hold the row.
StillAsked(request) ==
  CASE request.op = "delete_session" -> session.from = None /\ Deletable(session)
    [] request.op \in Endings \ {"delete_session"} -> session.status = request.seen
    [] OTHER -> request.op # "create_next"

\* Having waited, the statement finds the row gone or ended and looks for no other.
LockSession(x) ==
  LET request == requests[x]
      found   == request.target # None /\ session.id = request.target
  IN  /\ request.step = "session"
      /\ SessionFree(x)
      /\ CASE found /\ StillAsked(request) -> Goto(x, Locked(request))
           [] found /\ ~StillAsked(request) -> Over(x)
           [] ~found /\ request.op \in {"save_pattern", "delete_pattern", "add_one_off"} ->
                Goto(x, [request EXCEPT !.step = "write"])
           [] ~found /\ request.op = "create_next" ->
                Goto(x, [request EXCEPT !.step = "pattern"])
           [] OTHER -> Over(x)
      /\ UNCHANGED <<clock, pattern, session, lastId, stopped, overtaken, begun>>

\* createNextSession reads the pattern, unlocked.
ReadPattern(x) ==
  /\ requests[x].step = "read"
  /\ Goto(x, [requests[x] EXCEPT !.copy = pattern, !.step = "write"])
  /\ UNCHANGED <<clock, pattern, session, lastId, stopped, overtaken, begun>>

\* Ending and deleting insert the next session: its foreign key locks the pattern.
WaitsForPattern(request) == NextOf(request) # NoSession

\* The pattern it read is deleted: the foreign key fails the transaction.
LosesPattern(request) == WaitsForPattern(request) /\ pattern.id # request.copy.id

\* Mutant: the next session is inserted outside the transaction (db for tx), where the one
\* it has not yet committed as ended is in the way.
InsertedApart(x) == ~WaitsForPattern(requests[x])

\* The insert waits for whoever holds the pattern.
MayInsert(x) == WaitsForPattern(requests[x]) => ~PatternLocked(x)

\* The last statements and the commit: the session is ended or deleted, and followed.
WriteEnd(x) ==
  LET request == requests[x]
  IN  /\ request.step = "write"
      /\ request.op \in Endings
      /\ MayInsert(x)
      /\ IF LosesPattern(request)
         THEN UNCHANGED <<session, lastId, stopped>>
         ELSE /\ session' = NextOf(request)
              /\ lastId' = IF WaitsForPattern(request) THEN lastId + 1 ELSE lastId
              /\ stopped' = (request.op = "reset" \/ (stopped /\ ~WaitsForPattern(request)))
      /\ Over(x)
      /\ UNCHANGED <<clock, pattern, overtaken, begun>>

\* Whether the session the transaction holds is the pattern's and may be replaced.
Replaceable(request, of) ==
  /\ request.holds # None /\ request.holds = session.id
  /\ session.from = of
  /\ Deletable(session)

\* A pattern that was not there has been made by another: its unique index fails this one.
\* A session another added since it looked for one is left alone, unlocked, and an ending of
\* that session may have read the pattern as it was.
WriteSavePattern(x) ==
  LET request == requests[x]
      saved   == [id |-> IF request.copy = NoPattern THEN lastId + 1 ELSE request.copy.id,
                  startsOn |-> request.input.startsOn, opensAt |-> request.input.opensAt]
  IN  /\ request.step = "write" /\ request.op = "save_pattern"
      /\ IF pattern # request.copy
         THEN UNCHANGED <<pattern, session, lastId, stopped, overtaken>>
         ELSE /\ pattern' = saved
              /\ lastId' = lastId + 1
              /\ IF session = NoSession \/ Replaceable(request, saved.id)
                 THEN session' = FromPattern(saved, request.now) /\ stopped' = FALSE
                 ELSE UNCHANGED <<session, stopped>>
              /\ overtaken' = (request.holds = None /\ \E y \in Processes \ {x} :
                                 requests[y].op \in Endings /\ requests[y].step = "write")
      /\ Over(x)
      /\ UNCHANGED <<clock, begun>>

\* ON DELETE SET NULL: a session that stays is the pattern's no more.
WriteDeletePattern(x) ==
  LET request == requests[x]
  IN  /\ request.step = "write" /\ request.op = "delete_pattern"
      /\ pattern' = NoPattern
      /\ session' = CASE Replaceable(request, pattern.id) -> NoSession
                      [] session # NoSession /\ ~Replaceable(request, pattern.id) ->
                           [session EXCEPT !.from = None]
                      [] session = NoSession -> NoSession
      /\ Over(x)
      /\ UNCHANGED <<clock, lastId, stopped, overtaken, begun>>

\* Another's session turns the insert into a no-op.
WriteCreateNext(x) ==
  LET request == requests[x]
  IN  /\ request.step = "write" /\ request.op = "create_next"
      /\ IF session = NoSession
         THEN /\ session' = FromPattern(request.copy, request.now)
              /\ lastId' = lastId + 1 /\ stopped' = FALSE
         ELSE UNCHANGED <<session, lastId, stopped>>
      /\ Over(x)
      /\ UNCHANGED <<clock, pattern, overtaken, begun>>

\* Or fails it.
WriteOneOff(x) ==
  LET request == requests[x]
  IN  /\ request.step = "write" /\ request.op = "add_one_off"
      /\ IF session = NoSession \/ (session.from # None /\ Replaceable(request, session.from))
         THEN /\ session' = OneOff(request.now)
              /\ lastId' = lastId + 1 /\ stopped' = FALSE
         ELSE UNCHANGED <<session, lastId, stopped>>
      /\ Over(x)
      /\ UNCHANGED <<clock, pattern, overtaken, begun>>

Write(x) ==
  \/ WriteEnd(x)
  \/ WriteSavePattern(x)
  \/ WriteDeletePattern(x)
  \/ WriteCreateNext(x)
  \/ WriteOneOff(x)

Proceed(x) == LockPattern(x) \/ Find(x) \/ LockSession(x) \/ ReadPattern(x) \/ Write(x)

-----------------------------------------------------------------------------
(* Deadlocks.                                                               *)

Waiting(x) ==
  LET request == requests[x]
  IN  \/ request.step = "session" /\ ~SessionFree(x)
      \/ request.step = "pattern" /\ PatternLocked(x)
      \/ request.step = "write" /\ request.op \in Endings /\ ~MayInsert(x)

\* Each waits for a lock of the other.  With two rows to lock no cycle is longer.
Deadlocked(x) ==
  \E y \in Processes \ {x} :
    /\ Waiting(x) /\ Waiting(y)
    /\ requests[x].locks # requests[y].locks
    /\ \/ requests[x].locks /\ requests[x].target = requests[y].holds
       \/ requests[y].locks /\ requests[y].target = requests[x].holds

\* PostgreSQL fails one of them: its request answers with an error and is not retried.
BreakDeadlock ==
  /\ \E x \in Processes : Deadlocked(x) /\ Over(x)
  /\ UNCHANGED <<clock, pattern, session, lastId, stopped, overtaken, begun>>

-----------------------------------------------------------------------------
(* Single statements: they wait for the row's lock, or find it gone.        *)

Unheld == \A x \in Processes : requests[x].holds # session.id

\* updateSession and postponeRegistration.
UpdateSession ==
  /\ session # NoSession /\ session.status = "scheduled" /\ Unheld
  /\ session' = [session EXCEPT !.opens = clock + 1, !.edited = TRUE]
  /\ UNCHANGED <<clock, pattern, lastId, requests, stopped, overtaken, begun>>

\* A worker starts it now, or its time has come.
Open ==
  /\ session # NoSession /\ session.status = "scheduled" /\ Unheld
  /\ session' = [session EXCEPT !.status = "running"]
  /\ UNCHANGED <<clock, pattern, lastId, requests, stopped, overtaken, begun>>

\* A worker adds a guest before it opens: the visit's foreign key shares the row.  Whether
\* anybody has joined a session that has opened decides nothing here.
Join ==
  /\ session # NoSession /\ session.status = "scheduled" /\ ~session.joined /\ Unheld
  /\ session' = [session EXCEPT !.joined = TRUE]
  /\ UNCHANGED <<clock, pattern, lastId, requests, stopped, overtaken, begun>>

Tick ==
  /\ clock < MaxTime
  /\ clock' = clock + 1
  /\ UNCHANGED <<pattern, session, lastId, requests, stopped, overtaken, begun>>

\* A location without a schedule, or with one and its next session.
Init ==
  /\ clock = 0
  /\ \/ pattern = NoPattern /\ session = NoSession /\ lastId = 0
     \/ \E setting \in Settings :
          /\ pattern = [id |-> 1, startsOn |-> setting.startsOn, opensAt |-> setting.opensAt]
          /\ lastId = 1
          /\ session = [FromPattern(pattern, clock) EXCEPT !.id = 1]
  /\ requests = [x \in Processes |-> Idle]
  /\ stopped = FALSE
  /\ overtaken = FALSE
  /\ begun = 0

Next ==
  \/ \E x \in Processes :
       \/ SavePattern(x) \/ DeletePattern(x) \/ CreateNextSessionNow(x) \/ AddOneOffSession(x)
       \/ EndSession(x) \/ DeleteSession(x)
       \/ Proceed(x)
  \/ BreakDeadlock
  \/ UpdateSession \/ Open \/ Join
  \/ Tick

Spec == Init /\ [][Next]_vars

\* PostgreSQL runs a statement that waits for nobody, and looks for deadlocks.
RunningSpec == Spec /\ (\A x \in Processes : WF_vars(Proceed(x))) /\ WF_vars(BreakDeadlock)

-----------------------------------------------------------------------------
(* Types.                                                                   *)

PatternRow == [id : Nat \ {0}, startsOn : Nat, opensAt : 0..(Day - 1)]

SessionRow ==
  [id : Nat \ {0}, status : {"scheduled", "running"}, from : Nat, opens : Nat, madeAt : Nat,
   edited : BOOLEAN, joined : BOOLEAN]

Ops == {"save_pattern", "delete_pattern", "create_next", "add_one_off"} \cup Endings

\* Every row and every request has its type.
TypeOK ==
  /\ clock \in 0..MaxTime
  /\ pattern \in PatternRow \cup {NoPattern}
  /\ session \in SessionRow \cup {NoSession}
  /\ lastId \in Nat /\ begun \in 0..MaxRequests
  /\ stopped \in BOOLEAN /\ overtaken \in BOOLEAN
  /\ \A x \in Processes :
       \/ requests[x] = Idle
       \/ /\ requests[x].op \in Ops
          /\ requests[x].step \in {"pattern", "find", "session", "read", "write"}
          /\ requests[x].now \in 0..MaxTime
          /\ requests[x].holds \in {None, requests[x].target}
          /\ requests[x].locks => requests[x].copy = pattern

-----------------------------------------------------------------------------
(* What holds.                                                              *)

\* A location that has a pattern has a session that has not ended, unless its last one was
\* reset: however endings, deletions, one-offs and saved patterns overlap, and whoever loses
\* the deadlocks, nobody need remember to create one.  The exception is a save that another
\* session was added beside, and an ending of that one which read the pattern before the save.
ScheduleNeverRunsDry ==
  pattern # NoPattern /\ ~stopped /\ ~overtaken => session # NoSession

\* A session the pattern made, that nobody has joined or edited and that has not opened, is on
\* the earliest of the pattern's dates that opens after it was made: of the pattern as it is
\* saved now, with the same exception: otherwise a save and an ending that reads the pattern
\* without a lock are kept apart by the session's.
PendingIsTheNextOccurrence ==
  LET untouched == session # NoSession /\ session.status = "scheduled"
                     /\ ~session.edited /\ ~session.joined
  IN  untouched /\ session.from # None /\ ~overtaken =>
        /\ session.from = pattern.id
        /\ session.opens = InstantAt(LocalDateOf(session.opens), pattern.opensAt)
        /\ IsNextOccurrence(pattern, session.madeAt, LocalDateOf(session.opens))

\* Whatever waits, something goes on: while every transaction there is waits for another,
\* two of them lock the pattern and the session in opposite orders, and the database fails
\* one of these.  No longer circle ever forms, whose transactions it would leave waiting.
SomebodyGoesOn ==
  (\E x \in Processes : Waiting(x)) =>
    \E x \in Processes : Deadlocked(x) \/ (requests[x] # Idle /\ ~Waiting(x))

\* No transaction waits for ever, though two lock the pattern and the session in opposite
\* orders.
EveryTransactionEnds == \A x \in Processes : requests[x] # Idle ~> requests[x] = Idle
============================================================================
