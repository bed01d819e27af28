----------------------------- MODULE MarketDay -----------------------------
(***************************************************************************)
(* One market session: its row, its visits with their numbers, places and  *)
(* history, and the requests in flight against them.                       *)
(*                                                                         *)
(* A request is a step machine.  What it reads before its transaction, or  *)
(* under the session row's lock, it keeps; its last step writes and        *)
(* commits.  Statements are atomic, as PostgreSQL makes them at READ       *)
(* COMMITTED, with one exception the code depends on: an UPDATE whose rows *)
(* a subquery chose (call_next) chooses them in one step and writes them   *)
(* in another, and PostgreSQL does not choose again.                       *)
(*                                                                         *)
(* Times are abstracted to what they allow: a session may be carried to    *)
(* any status SessionTimeline.statusAt could give it.                      *)
(***************************************************************************)
EXTENDS MarketRules, LineOrder

CONSTANTS Clients,    \* each has at most one request in flight
          Capacity,   \* the session's capacity
          BatchSizes  \* how many guests a call_next may ask for

ASSUME MarketAssumption == Capacity \in Nat /\ BatchSizes \subseteq Nat \ {0}

VARIABLES
  session,  \* the status column of the session's row
  status,   \* status[v]: the visit's status, or "none" before its row exists
  slot,     \* slot[v]: its number and place in line
  history,  \* history[v]: what its visit_events say
  requests  \* requests[c]: what client c's request has read so far

vars == <<session, status, slot, history, requests>>

-----------------------------------------------------------------------------
(* Requests in flight.  Those that hold the session row's lock are marked. *)

Idle == [step |-> "idle"]

PlacingSteps == {"admit", "place", "draw"}

SessionLockSteps == PlacingSteps \cup {"end"}

\* Mutant: placements that skip SELECT ... FOR UPDATE.
NothingLocked == FALSE

SessionLocked == \E c \in Clients : requests[c].step \in SessionLockSteps

\* The visits c's transaction has updated and not committed yet: serve_and_call_next the
\* guest it serves, the end of the session everyone it found in line.
RowsHeld(c) ==
  {v \in Visits : \/ requests[c].step = "serve" /\ requests[c].visit = v
                  \/ requests[c].step = "end" /\ v \in requests[c].resolved}

RowLocked(v) == \E c \in Clients : v \in RowsHeld(c)

Begin(c, request) ==
  /\ requests[c] = Idle
  /\ requests' = [requests EXCEPT ![c] = request]
  /\ UNCHANGED <<session, status, slot, history>>

Finish(c) == requests' = [requests EXCEPT ![c] = Idle]

\* The request ends without writing: it is refused, or its process dies and the
\* database rolls it back.
Abandon(c) ==
  /\ requests[c] # Idle
  /\ Finish(c)
  /\ UNCHANGED <<session, status, slot, history>>

-----------------------------------------------------------------------------
(* What the transactions read and write.                                   *)

With(v, target) == [status EXCEPT ![v] = target]

\* recordVisitEvents for the visits in vs, whose last status is now target.
Recorded(vs, target) ==
  [v \in Visits |-> IF v \in vs THEN [history[v] EXCEPT !.last = target] ELSE history[v]]

HighestMain     == Highest({slot[v].main : v \in Visits})
HighestPriority == Highest({slot[v].priority : v \in Visits})
HighestOrder    == Highest({slot[v].order : v \in Visits})

\* Mutant: the numbers of the guests who left the line are given again.
LineOfTheWaiting(v) ==
  [highestMain |-> Highest({slot[u].main : u \in {w \in Visits : status[w] = "waiting"}}),
   highestPriority |-> HighestPriority,
   highestOrder |-> HighestOrder,
   othersWaiting |-> \E u \in Visits \ {v} : status[u] = "waiting"]

\* placeInLine's read, once it has the session's lock.
LineFor(v) ==
  [highestMain |-> HighestMain, highestPriority |-> HighestPriority,
   highestOrder |-> HighestOrder,
   othersWaiting |-> \E u \in Visits \ {v} : status[u] = "waiting"]

\* The bound: count more numbers and orders stay within MaxOrder.
Issuable(count) ==
  /\ HighestMain + count <= MaxOrder
  /\ HighestPriority + count <= MaxOrder
  /\ HighestOrder + count <= MaxOrder

Waiting == {v \in Visits : status[v] = "waiting"}

\* The next count waiting guests, in the line's order.
IsNext(picked, count) ==
  /\ picked \subseteq Waiting
  /\ Cardinality(picked) = Min({count, Cardinality(Waiting)})
  /\ \A p \in picked, w \in Waiting \ picked : ~Ahead(slot[w], slot[p])

-----------------------------------------------------------------------------
(* Guests: registering and cancelling on their phone.                      *)

\* registerGuest, from a phone: reads the guest's visit outside the transaction.
ReadRegistration(c, v) ==
  /\ session \in MayAcceptSelfRegistration
  /\ Begin(c, [step |-> "register", visit |-> v, seen |-> status[v]])

\* Mutant: the transaction trusts the check made before it.
AcceptedEarlier == TRUE

\* The recheck under the session's lock.
StillAccepts == session \in MayAcceptSelfRegistration

\* The row it writes: the one it read, or a new one, which no index keeps from being a
\* second one of the same guest (schema.mts).
RowsToWrite(c) ==
  IF requests[c].seen = "none" THEN {v \in Visits : status[v] = "none"}
                               ELSE {requests[c].visit}

\* The transaction takes the session's lock, rechecks that it still accepts, and
\* inserts the visit or updates it by id with the status decided from the read.
Register(c) ==
  /\ requests[c].step = "register"
  /\ ~SessionLocked
  /\ StillAccepts
  /\ \E v \in RowsToWrite(c) :
       LET seen   == requests[c].seen
           target == IF seen \in {"none", "cancelled"} THEN "registered" ELSE seen
       IN  /\ ~RowLocked(v)
           /\ status' = With(v, target)
           /\ history' = IF seen \in {"none", "cancelled"} THEN Recorded({v}, target)
                                                           ELSE history
  /\ Finish(c)
  /\ UNCHANGED <<session, slot>>

\* PATCH /api/visit: the visit and its session are read first.
ReadCancel(c, v) ==
  /\ session # "ended"
  /\ status[v] # "none"
  /\ Begin(c, [step |-> "cancel", visit |-> v])

Cancel(c) ==
  LET v == requests[c].visit
  IN  /\ requests[c].step = "cancel"
      /\ ~RowLocked(v)
      /\ status[v] \in {"registered", "waiting"}
      /\ status' = With(v, "cancelled")
      /\ history' = Recorded({v}, "cancelled")
      /\ Finish(c)
      /\ UNCHANGED <<session, slot>>

-----------------------------------------------------------------------------
(* Workers: adding guests and moving them through the line.                *)

\* registerGuest, from the admin form, without a place: locked, checked and written.
AdmitWithoutPlace(c, v, admission) ==
  /\ requests[c] = Idle
  /\ ~SessionLocked
  /\ status[v] = "none"
  /\ admission \in AdmissionsFor[session] \ {"queue"}
  /\ status' = With(v, AdmissionVisitStatus[admission])
  /\ history' = Recorded({v}, AdmissionVisitStatus[admission])
  /\ UNCHANGED <<session, slot, requests>>

\* registerGuest with admission "queue": the lock, the check and placeInLine's read ...
BeginAdmit(c, v, placement) ==
  /\ ~SessionLocked
  /\ status[v] = "none"
  /\ "queue" \in AdmissionsFor[session]
  /\ Issuable(1)
  /\ Begin(c, [step |-> "admit", visit |-> v, placement |-> placement,
               line |-> LineFor(v)])

\* ... and the insert, in the place that read gives.
Admit(c) ==
  LET v == requests[c].visit
  IN  /\ requests[c].step = "admit"
      /\ status[v] = "none"
      /\ status' = With(v, AdmissionVisitStatus["queue"])
      /\ slot' = [slot EXCEPT ![v] =
                    Place(requests[c].line, requests[c].placement, NoNumber)]
      /\ history' = Recorded({v}, AdmissionVisitStatus["queue"])
      /\ Finish(c)
      /\ UNCHANGED session

\* runVisitCommand's read, outside its transaction.  The session is not consulted.
ReadCommand(c, v, command) ==
  /\ status[v] \in VisitCommandSources[command]
  /\ Begin(c, [step |-> "command", visit |-> v, command |-> command, seen |-> status[v],
               held |-> NumberOf(slot[v])])

\* Mutant: the UPDATE is by id alone.
WhateverBecameOfIt(c) == TRUE

\* The row still has the status the command was checked against.
Untouched(c) == status[requests[c].visit] = requests[c].seen

\* The guarded UPDATE, for a command that leaves the guest's place alone.
RunCommand(c) ==
  LET v      == requests[c].visit
      target == VisitCommandTarget[requests[c].command]
  IN  /\ requests[c].step = "command"
      /\ ~RowLocked(v)
      /\ Untouched(c)
      /\ status' = With(v, target)
      /\ history' = IF requests[c].command \in RecordedCommands THEN Recorded({v}, target)
                                                              ELSE history
      /\ Finish(c)
      /\ UNCHANGED <<session, slot>>

\* return_to_queue with a placement: placeInLine first takes the session's lock.
BeginPlace(c, placement) ==
  LET v == requests[c].visit
  IN  /\ requests[c].step = "command"
      /\ requests[c].command = "return_to_queue"
      /\ ~SessionLocked
      /\ Issuable(1)
      /\ requests' = [requests EXCEPT ![c] =
                        [step |-> "place", visit |-> v, seen |-> requests[c].seen,
                         held |-> requests[c].held, placement |-> placement,
                         line |-> LineFor(v)]]
      /\ UNCHANGED <<session, status, slot, history>>

PlaceBack(c) ==
  LET v == requests[c].visit
  IN  /\ requests[c].step = "place"
      /\ ~RowLocked(v)
      /\ Untouched(c)
      /\ status' = With(v, "waiting")
      /\ slot' = [slot EXCEPT ![v] =
                    Place(requests[c].line, requests[c].placement, requests[c].held)]
      /\ history' = [history EXCEPT ![v] = [last |-> "waiting", replaced |-> TRUE]]
      /\ Finish(c)
      /\ UNCHANGED session

\* POST /api/admin/queue reads the session before either of its actions.
ReadCallNext(c) ==
  /\ session = "service_started"
  /\ Begin(c, [step |-> "call"])

\* The subquery of callNextInTransaction's UPDATE chooses the rows ...
PickNext(c, count) ==
  \E picked \in SUBSET Visits :
    /\ requests[c].step = "call"
    /\ IsNext(picked, count)
    /\ requests' = [requests EXCEPT ![c] = [step |-> "claim", picked |-> picked]]
    /\ UNCHANGED <<session, status, slot, history>>

\* ... and the UPDATE writes them, whatever they have become since.
Claim(c) ==
  LET picked == requests[c].picked
  IN  /\ requests[c].step = "claim"
      /\ \A v \in picked : ~RowLocked(v)
      /\ status' = [v \in Visits |-> IF v \in picked THEN "called" ELSE status[v]]
      /\ history' = Recorded(picked, "called")
      /\ Finish(c)
      /\ UNCHANGED <<session, slot>>

\* Mutant: the guest is served whatever became of them.
ServeAnyone(c, v) ==
  /\ requests[c].step = "call"
  /\ ~RowLocked(v)
  /\ requests' = [requests EXCEPT ![c] =
                    [step |-> "serve", visit |-> v, chosen |-> FALSE, picked |-> {}]]
  /\ UNCHANGED <<session, status, slot, history>>

\* serve_and_call_next: the guarded serve, whose guest's row stays locked ...
BeginServe(c, v) ==
  /\ requests[c].step = "call"
  /\ ~RowLocked(v)
  /\ status[v] = "called"
  /\ requests' = [requests EXCEPT ![c] =
                    [step |-> "serve", visit |-> v, chosen |-> FALSE, picked |-> {}]]
  /\ UNCHANGED <<session, status, slot, history>>

\* ... the choice of the next guest, as in call_next ...
ChooseNext(c) ==
  \E picked \in SUBSET Visits :
    /\ requests[c].step = "serve"
    /\ ~requests[c].chosen
    /\ IsNext(picked, 1)
    /\ requests' = [requests EXCEPT ![c] =
                      [step |-> "serve", visit |-> requests[c].visit, chosen |-> TRUE,
                       picked |-> picked]]
    /\ UNCHANGED <<session, status, slot, history>>

\* ... and the UPDATE that calls them, with the commit: nobody sees the serve before it.
ServeAndCallNext(c) ==
  LET served == requests[c].visit
      picked == requests[c].picked
  IN  /\ requests[c].step = "serve"
      /\ requests[c].chosen
      /\ \A v \in picked, d \in Clients \ {c} : v \notin RowsHeld(d)
      /\ status' = [v \in Visits |-> IF v = served THEN "served"
                                     ELSE IF v \in picked THEN "called" ELSE status[v]]
      /\ history' = [Recorded(picked, "called") EXCEPT ![served].last = "served"]
      /\ Finish(c)
      /\ UNCHANGED <<session, slot>>

-----------------------------------------------------------------------------
(* The session: its draw, its other transitions and its end.               *)

\* runLottery: under the session's lock, its status, the pool and the line.  The last two
\* reads are one step here: between them only commands without a place could change who
\* waits, which the count of reserved spots may then miss either way.
BeginDraw(c) ==
  /\ ~SessionLocked
  /\ session \in SessionCommandSources["run_lottery"]
  /\ Begin(c, [step |-> "draw",
               pool |-> {v \in Visits : status[v] = "registered"},
               reserved |-> Cardinality(Waiting),
               line |-> [highestMain |-> HighestMain, highestPriority |-> HighestPriority,
                         highestOrder |-> HighestOrder, othersWaiting |-> Waiting # {}]])

\* The pool is shuffled and cut at the capacity left; both UPDATEs are by id.
Draw(c, winners, rank) ==
  LET pool      == requests[c].pool
      remaining == Max({0, Capacity - requests[c].reserved})
  IN  /\ requests[c].step = "draw"
      /\ winners \subseteq pool
      /\ Cardinality(winners) = Min({remaining, Cardinality(pool)})
      /\ rank \in Rankings(winners)
      /\ Issuable(Cardinality(winners))
      /\ \A v \in pool : ~RowLocked(v)
      /\ session' = SessionCommandTarget["run_lottery"]
      /\ status' = [v \in Visits |-> IF v \in winners THEN "waiting"
                                     ELSE IF v \in pool THEN "not_placed" ELSE status[v]]
      /\ slot' = [v \in Visits |-> IF v \in winners
                                   THEN DrawnSlot(slot[v], requests[c].line, rank[v])
                                   ELSE slot[v]]
      /\ history' = [v \in Visits |->
                       IF v \in winners THEN [history[v] EXCEPT !.last = "waiting"]
                       ELSE IF v \in pool THEN [history[v] EXCEPT !.last = "not_placed"]
                       ELSE history[v]]
      /\ Finish(c)

\* getCurrentEvent: every command and every automatic step starts from a row read
\* outside its transaction.
ReadSession(c) ==
  /\ session # "ended"
  /\ Begin(c, [step |-> "session", seen |-> session])

\* The row still has the status this request read.
Unmoved(c) == session = requests[c].seen

\* Opening, closing or reopening registration, by hand or because its time has come:
\* the UPDATE applies only while the row still has the status read.
MoveSession(c, target) ==
  /\ requests[c].step = "session"
  /\ target \in AutomaticTargets(requests[c].seen) \cup ManualTargets(requests[c].seen)
  /\ ~SessionLocked
  /\ Unmoved(c)
  /\ session' = target
  /\ Finish(c)
  /\ UNCHANGED <<status, slot, history>>

StillInLine == {v \in Visits : status[v] \in StillInLineStatuses}

\* endSession, for close, reset or auto-close: the row is locked and compared, and the
\* UPDATE of resolveOutstandingVisits finds everyone still in line ...
BeginEnd(c) ==
  /\ requests[c].step = "session"
  /\ ~SessionLocked
  /\ Unmoved(c)
  /\ session # "ended"
  /\ \A v \in StillInLine : ~RowLocked(v)
  /\ requests' = [requests EXCEPT ![c] = [step |-> "end", resolved |-> StillInLine]]
  /\ UNCHANGED <<session, status, slot, history>>

\* ... and the commit, when the next session has been made.
EndSession(c) ==
  LET resolved == requests[c].resolved
  IN  /\ requests[c].step = "end"
      /\ session' = "ended"
      /\ status' = [v \in Visits |-> IF v \in resolved THEN "cancelled" ELSE status[v]]
      /\ history' = Recorded(resolved, "cancelled")
      /\ Finish(c)
      /\ UNCHANGED slot

-----------------------------------------------------------------------------
Init ==
  /\ session = "scheduled"
  /\ status = [v \in Visits |-> "none"]
  /\ slot = [v \in Visits |-> NotInLine]
  /\ history = [v \in Visits |-> [last |-> "none", replaced |-> FALSE]]
  /\ requests = [c \in Clients |-> Idle]

GuestStep(c) ==
  \/ \E v \in Visits : ReadRegistration(c, v) \/ ReadCancel(c, v)
  \/ Register(c)
  \/ Cancel(c)

AdmitStep(c) ==
  \/ \E v \in Visits, admission \in {"lottery", "served"} : AdmitWithoutPlace(c, v, admission)
  \/ \E v \in Visits, placement \in Placements : BeginAdmit(c, v, placement)
  \/ Admit(c)

CommandStep(c) ==
  \/ \E v \in Visits, command \in VisitCommands : ReadCommand(c, v, command)
  \/ RunCommand(c)
  \/ \E placement \in Placements : BeginPlace(c, placement)
  \/ PlaceBack(c)

CallStep(c) ==
  \/ ReadCallNext(c)
  \/ \E count \in BatchSizes : PickNext(c, count)
  \/ Claim(c)
  \/ \E v \in Visits : BeginServe(c, v)
  \/ ChooseNext(c)
  \/ ServeAndCallNext(c)

SessionStep(c) ==
  \/ BeginDraw(c)
  \/ \E winners \in SUBSET Visits : \E rank \in Rankings(winners) : Draw(c, winners, rank)
  \/ ReadSession(c)
  \/ \E target \in SessionStatuses : MoveSession(c, target)
  \/ BeginEnd(c)
  \/ EndSession(c)

Next ==
  \E c \in Clients :
    GuestStep(c) \/ AdmitStep(c) \/ CommandStep(c) \/ CallStep(c) \/ SessionStep(c) \/ Abandon(c)

Spec == Init /\ [][Next]_vars

\* Service, from a line the draw has left: registration is over, and the guests not drawn
\* were left without a place or have yet to come.
DrawnLine ==
  \E drawn \in SUBSET Visits : \E rank \in Rankings(drawn) :
    /\ drawn # {} /\ Cardinality(drawn) <= MaxOrder
    /\ slot = [v \in Visits |-> IF v \in drawn
                                 THEN [NotInLine EXCEPT !.main = rank[v], !.order = rank[v]]
                                 ELSE NotInLine]
    /\ \E left \in SUBSET (Visits \ drawn) :
         status = [v \in Visits |-> IF v \in drawn THEN "waiting"
                                    ELSE IF v \in left THEN "not_placed" ELSE "none"]
    /\ history = [v \in Visits |-> [last |-> status[v], replaced |-> FALSE]]

ServiceInit ==
  /\ session = "service_started"
  /\ DrawnLine
  /\ requests = [c \in Clients |-> Idle]

ServiceSpec == ServiceInit /\ [][Next]_vars

-----------------------------------------------------------------------------
(* Types.                                                                   *)

Lines == [highestMain : 0..MaxOrder, highestPriority : 0..MaxOrder,
          highestOrder : 0..MaxOrder, othersWaiting : BOOLEAN]

Statuses == VisitStatuses \cup {"none"}

Requests ==
  {Idle}
    \cup [step : {"register"}, visit : Visits, seen : Statuses]
    \cup [step : {"cancel"}, visit : Visits]
    \cup [step : {"admit"}, visit : Visits, placement : Placements, line : Lines]
    \cup [step : {"command"}, visit : Visits, command : VisitCommands,
          seen : VisitStatuses, held : HeldNumbers]
    \cup [step : {"place"}, visit : Visits, seen : VisitStatuses, held : HeldNumbers,
          placement : Placements, line : Lines]
    \cup [step : {"call"}]
    \cup [step : {"claim"}, picked : SUBSET Visits]
    \cup [step : {"serve"}, visit : Visits, chosen : BOOLEAN, picked : SUBSET Visits]
    \cup [step : {"draw"}, pool : SUBSET Visits, reserved : Nat, line : Lines]
    \cup [step : {"session"}, seen : SessionStatuses]
    \cup [step : {"end"}, resolved : SUBSET Visits]

\* Every variable has its type.
TypeOK ==
  /\ session \in SessionStatuses
  /\ status \in [Visits -> Statuses]
  /\ slot \in [Visits -> Slots]
  /\ history \in [Visits -> [last : Statuses, replaced : BOOLEAN]]
  /\ requests \in [Clients -> Requests]

-----------------------------------------------------------------------------
(* What holds.                                                              *)

\* Two guests of a session never get the same place in line, whoever placed them and
\* however their requests overlapped (visitQueue.mts: a tie no placement should produce).
OrdersUnique ==
  \A u, v \in Visits :
    slot[u].order # 0 /\ slot[u].order = slot[v].order => u = v

\* The guests whose main number tells their place: not at the front, never put back
\* somewhere else in the line.
KeptTheirPlace(v) == ~slot[v].front /\ ~history[v].replaced /\ slot[v].main # 0

\* Among them numbers are distinct and rise in step with the line, so a waiting guest
\* can compare theirs with the one being called (queue-number.ts).
NumbersRiseWithTheLine ==
  \A u, v \in Visits :
    KeptTheirPlace(u) /\ KeptTheirPlace(v) /\ u # v =>
      /\ slot[u].main # slot[v].main
      /\ slot[u].main < slot[v].main => Ahead(slot[u], slot[v])

\* Once the draw has run, nobody is left registered: the draw's pool held every guest
\* registered when it wrote, and no late registration joined them (lottery.mts).
NobodyLeftRegistered ==
  session \in {"service_started", "ended"} => \A v \in Visits : status[v] # "registered"

\* From lottery_pending on the pool is frozen: no visit becomes registered, not even by
\* a request that found registration open (session-lifecycle.md).
PoolIsFrozen ==
  [][session \notin MayAcceptSelfRegistration =>
       \A v \in Visits : status'[v] = "registered" => status[v] = "registered"]_vars

\* A session's status only moves forward, but for reopening registration: no stale
\* automatic step ever takes a running or ended session back (marketSession.mts).
Stage ==
  [scheduled |-> 0, registration_open |-> 1, registration_closed |-> 2,
   lottery_pending |-> 3, service_started |-> 4, ended |-> 5]

SessionNeverRewinds ==
  [][\/ Stage[session'] >= Stage[session]
     \/ session = "registration_closed" /\ session' = "registration_open"]_vars

\* From the UPDATE that ends a session on nobody comes into its line, whatever their
\* request read before, but for a no-show whom a worker returns without a place and a
\* guest already chosen to be called: neither asks about the session (sessionEnding.mts,
\* visitQueue.mts).
Ending == \E c \in Clients : requests[c].step = "end"

ChosenToBeCalled(v) ==
  \E c \in Clients : requests[c].step \in {"claim", "serve"} /\ v \in requests[c].picked

ResolvedLineStaysEmpty ==
  [][session = "ended" \/ Ending =>
       \A v \in Visits :
         status[v] \notin StillInLineStatuses /\ status'[v] \in StillInLineStatuses =>
           status[v] = "no_show" \/ ChosenToBeCalled(v)]_vars

\* From the draw on a guest is served only from called, or added as served: no command
\* decided on a stale status serves anyone (session-lifecycle.md).
OnlyTheCalledAreServed ==
  [][session \notin MayAcceptSelfRegistration =>
       \A v \in Visits :
         status'[v] = "served" /\ status[v] # "served" => status[v] \in {"called", "none"}]_vars

\* Workers who serve a guest and call the next at once never wait for one another in a
\* circle: of any of them, somebody's next guest is being served by none of the others
\* (visitQueue.mts: each locks the guest served, then the one called).
Servers == {c \in Clients : requests[c].step = "serve"}

ServersWaitInNoCircle ==
  \A circle \in SUBSET Servers : circle # {} =>
    \E c \in circle : \A d \in circle \ {c} : requests[d].visit \notin requests[c].picked

\* The line is a ticket line, whose placements read and write in one step: the lock on
\* the session's row makes the transactions that read and write apart implement it.
TL == INSTANCE TicketLine WITH replaced <- [v \in Visits |-> history[v].replaced]

\* TL!Spec, but for a conjunct that spares TLC the steps that leave the line alone.
LineSpec == TL!Init /\ [][slot' # slot /\ TL!Next]_(TL!vars)

-----------------------------------------------------------------------------
(* What the proofs need besides.                                            *)

\* At most one request holds the lock of the session's row.
OneLockHolder ==
  \A c, d \in Clients :
    requests[c].step \in SessionLockSteps /\ requests[d].step \in SessionLockSteps => c = d

\* What a request read of the line under the session's lock is still true when it writes,
\* whoever else serves, calls, cancels or registers meanwhile (visitQueue.mts).
LockHolderIsCurrent ==
  \A c \in Clients :
    requests[c].step \in PlacingSteps =>
      /\ requests[c].line.highestMain = HighestMain
      /\ requests[c].line.highestPriority = HighestPriority
      /\ requests[c].line.highestOrder = HighestOrder
      /\ requests[c].step # "draw" => Issuable(1)

\* A guest with no visit yet has no place.
NoVisitNoSlot == \A v \in Visits : status[v] = "none" => slot[v] = NotInLine

\* While the draw is between its read and its writes its pool holds every registered guest,
\* and so does what an ending has found.
PoolIsComplete ==
  \A c \in Clients :
    /\ requests[c].step = "draw" =>
         /\ session = "lottery_pending"
         /\ {v \in Visits : status[v] = "registered"} \subseteq requests[c].pool
    /\ requests[c].step = "end" =>
         {v \in Visits : status[v] = "registered"} \subseteq requests[c].resolved

\* A guest is not added to the line of a session that is over.
AdmitsInTime == \A c \in Clients : requests[c].step = "admit" => session # "ended"

\* A guest being served is called until the commit.
ServersHoldTheirGuest ==
  \A c \in Clients : requests[c].step = "serve" => status[requests[c].visit] = "called"

\* A row is locked by one transaction at a time.
RowsHeldByOne == \A c, d \in Clients : c # d => RowsHeld(c) \cap RowsHeld(d) = {}

\* A command in flight was allowed from the status it was checked against.
CommandsWereAllowed ==
  \A c \in Clients :
    /\ requests[c].step = "command" =>
         requests[c].seen \in VisitCommandSources[requests[c].command]
    /\ requests[c].step = "place" => requests[c].seen \in VisitCommandSources.return_to_queue

\* The inductive invariant.
DayInv ==
  /\ TypeOK
  /\ OneLockHolder
  /\ LockHolderIsCurrent
  /\ NoVisitNoSlot
  /\ PoolIsComplete
  /\ AdmitsInTime
  /\ NobodyLeftRegistered

\* In service every guest in line or called has a number, and what a request remembers of a
\* number it will write back is still so.
LineIsNumbered ==
  /\ session \in {"service_started", "ended"}
  /\ \A v \in Visits : /\ status[v] # "registered"
                       /\ status[v] \in {"waiting", "called", "no_show"} =>
                            NumberOf(slot[v]) # NoNumber
  /\ \A c \in Clients :
       LET request == requests[c]
       IN  /\ request.step # "draw"
           /\ \/ request.step = "place"
              \/ request.step = "command" /\ request.command = "return_to_queue"
              => request.held # NoNumber /\ request.held = NumberOf(slot[request.visit])
           /\ request.step \in {"claim", "serve"} =>
                \A v \in request.picked : NumberOf(slot[v]) # NoNumber

\* The inductive invariant of serving.
ServingInv ==
  /\ TypeOK
  /\ ServersHoldTheirGuest
  /\ RowsHeldByOne
  /\ CommandsWereAllowed

-----------------------------------------------------------------------------
(* What the documents or comments say, and some behaviour of the code breaks.  *)

Numbered(v) == NumberOf(slot[v]) # NoNumber

\* A number never changes once given (queue-number.ts).  It holds of a drawn line in
\* service; a guest who was placed, cancelled and registered again is numbered anew by
\* the draw, and a stale return_to_queue numbers anew a guest it read unnumbered.
NumberNeverChanges ==
  [][\A v \in Visits : Numbered(v) => NumberOf(slot'[v]) = NumberOf(slot[v])]_vars

\* At most one of a visit's two number columns is set (queue-number.ts): the draw sets
\* the main number of a guest it finds with a priority number, and clears neither.
OneNumberAtMost == \A v \in Visits : slot[v].main = 0 \/ slot[v].priority = 0

\* A guest who cancelled is out of the draw (session-lifecycle.md): runLottery's UPDATEs
\* are by id, and bring back a guest who cancelled after the pool was read.
DrawLeavesTheCancelledAlone ==
  [][session = "lottery_pending" /\ session' = "service_started" =>
       \A v \in Visits : status[v] = "cancelled" => status'[v] = "cancelled"]_vars

\* Two workers calling at once never claim the same guest (visitQueue.mts): the second
\* UPDATE calls the guests its subquery chose, whatever they have become.
CallersClaimApart ==
  [][\A c \in Clients :
       Claim(c) => \A v \in requests[c].picked : status[v] # "called"]_vars

\* Once a session has ended none of its guests is still to be served
\* (session-lifecycle.md): a call_next that chose before the end writes after it, and a
\* return_to_queue does not ask whether the session is over.
EndedSessionOwesNobody == session = "ended" => StillInLine = {}

\* A visit's last event names the status it has (schema.mts): a phone's submission
\* writes back the status it read before its transaction, with no event.
HistoryEndsInStatus == \A v \in Visits : history[v].last = status[v]

\* The spots workers gave before the draw come out of the capacity first
\* (session-lifecycle.md): a guest called or served before the draw is not counted.
DrawKeepsToCapacity ==
  [][session = "lottery_pending" /\ session' = "service_started" =>
       LET spots   == {v \in Visits : Numbered(v) /\ status[v] \in {"waiting", "called", "served"}}
           winners == {v \in Visits : status[v] = "registered" /\ status'[v] = "waiting"}
       IN  winners # {} => Cardinality(spots \cup winners) <= Capacity]_vars

\* The draw's winners stand behind the guests already waiting (session-lifecycle.md): it
\* does not clear the front flag of a winner once placed there.
DrawnGuestsJoinTheBack ==
  [][session = "lottery_pending" /\ session' = "service_started" =>
       \A w, u \in Visits :
         /\ status[w] = "registered" /\ status'[w] = "waiting"
         /\ status[u] = "waiting" /\ slot[u].order # 0
         => ~Ahead(slot'[w], slot'[u])]_vars
============================================================================
