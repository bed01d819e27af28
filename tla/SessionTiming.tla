--------------------------- MODULE SessionTiming ---------------------------
(***************************************************************************)
(* When things happen to one session: the clock, the times its row carries *)
(* and those derived from them, the durable timers sent for them, and the  *)
(* requests that read the row, carry it to the status its times imply and  *)
(* run a command on what they read.                                        *)
(*                                                                         *)
(* A request reads the row and the clock in one step and writes in later   *)
(* ones; each write is one guarded UPDATE.  The timers a write calls for   *)
(* are sent after it has committed, so a request may die, or a send fail,  *)
(* in between.  A timer is delivered at least once: to one handler and, if *)
(* that one dies, to another; or to two.  Timers that wait and say the     *)
(* same are one.  The session that follows this one is not modelled.       *)
(***************************************************************************)
EXTENDS SessionTimeline

CONSTANTS Clients,     \* people with the app open: one request in flight each
          Handlers,    \* instances of the timer workload
          NewSessions, \* the rows a session may start from
          MinimumOpen, \* how long reopening keeps the window open at least
          MaxHop,      \* maxTimerDelayMs
          Minutes,     \* how far a postponement may push a time
          Extensions,  \* the closing times a worker may ask for
          MaxTime,     \* the bound on the clock
          MaxCommands, \* the bound on the commands people give
          MaxFailures  \* the bound on failures: within the workload's retries

ASSUME TimingAssumption ==
  /\ \A row \in NewSessions :
       row \in Row /\ row.status = "scheduled" /\ row.grace = Null /\ row.opens < row.closes
  /\ MinimumOpen \in Nat \ {0} /\ MaxHop \in Nat \ {0}
  /\ Minutes \subseteq Nat \ {0} /\ Extensions \subseteq Nat
  /\ MaxTime \in Nat /\ MaxCommands \in Nat /\ MaxFailures \in Nat
  /\ Clients \cap Handlers = {}

VARIABLES
  clock,
  session,   \* the row
  timers,    \* the timer events sent that wait to be delivered
  requests,  \* requests[p]: what the request or delivery of p has read so far
  commands,  \* how many commands have been given
  failures,  \* how many requests have died, sends failed and events come twice
  unarmed    \* a failure left a committed write without the timers it calls for

vars == <<clock, session, timers, requests, commands, failures, unarmed>>

-----------------------------------------------------------------------------
(* Timers.                                                                  *)

UpcomingTimers == {"registration_close", "auto_close"}

\* sendSessionTimer: due at expectedAt, and delayed by at most one hop.
Timer(kind, expectedAt, now) ==
  [kind |-> kind, expectedAt |-> expectedAt,
   wakesAt |-> IF expectedAt <= now + MaxHop THEN expectedAt ELSE now + MaxHop]

\* Mutant: a time already past gets no timer.
FutureTimersFor(row, kinds, now) ==
  {Timer(kind, TimerAt(row, kind), now) : kind \in {k \in kinds : TimerAt(row, k) > now}}

\* scheduleSessionTimers: a timer whose step is not set is skipped.
TimersFor(row, kinds, now) ==
  {Timer(kind, TimerAt(row, kind), now) : kind \in {k \in kinds : TimerAt(row, k) # Null}}

-----------------------------------------------------------------------------
(* Requests and deliveries.                                                 *)

Idle == [step |-> "idle"]

Processes == Clients \cup Handlers

Goto(p, request) == requests' = [requests EXCEPT ![p] = request]

\* The request is answered; a delivery returns, and its timer is acknowledged next.
Done(p) ==
  Goto(p, IF p \in Handlers THEN [step |-> "ack", task |-> requests[p].task] ELSE Idle)

\* getCurrentEvent has returned row: the request goes on to what it came for.
Resume(p, row) ==
  IF requests[p].task.kind \in {"look", "registration_close"}
  THEN Done(p)
  ELSE Goto(p, [step |-> "run", task |-> requests[p].task, row |-> row])

Budgets == <<commands, failures, unarmed>>

\* getLatestActiveEvent, and the clock as the answer arrives.
ReadCurrent(p, task) ==
  Goto(p, [step |-> "current", task |-> task, row |-> session, now |-> clock])

\* GET /api/market, from any screen.
Look(c) ==
  /\ requests[c] = Idle
  /\ session.status # "ended"
  /\ ReadCurrent(c, [kind |-> "look"])
  /\ UNCHANGED <<clock, session, timers, Budgets>>

\* POST /api/admin/market: every command reads the current session first.
Commands ==
  {[kind |-> k] : k \in {"open_registration", "close_registration", "reopen_registration",
                         "pause_lottery", "run_lottery", "close_session", "reset_session"}}
    \cup {[kind |-> k, minutes |-> m] :
            k \in {"postpone_registration", "postpone_lottery"}, m \in Minutes}
    \cup {[kind |-> "update_registration", closes |-> t] : t \in Extensions}

Command(c, command) ==
  /\ requests[c] = Idle
  /\ session.status # "ended"
  /\ commands < MaxCommands
  /\ commands' = commands + 1
  /\ ReadCurrent(c, command)
  /\ UNCHANGED <<clock, session, timers, failures, unarmed>>

\* runSessionTimer, up to its switch.
Ignored(timer) ==
  session.status = "ended" \/ TimerAt(session, timer.kind) # timer.expectedAt

IgnoreTimer(h, timer) ==
  /\ requests[h] = Idle
  /\ timer.wakesAt <= clock
  /\ Ignored(timer)
  /\ timers' = timers \ {timer}
  /\ UNCHANGED <<clock, session, requests, Budgets>>

HopTimer(h, timer) ==
  /\ requests[h] = Idle
  /\ timer.wakesAt <= clock
  /\ ~Ignored(timer)
  /\ clock < timer.expectedAt
  /\ timers' = (timers \ {timer}) \cup {Timer(timer.kind, timer.expectedAt, clock)}
  /\ UNCHANGED <<clock, session, requests, Budgets>>

BeginTimer(h, timer) ==
  /\ requests[h] = Idle
  /\ timer.wakesAt <= clock
  /\ ~Ignored(timer)
  /\ timer.expectedAt <= clock
  /\ Goto(h, IF timer.kind = "auto_close"
             THEN [step |-> "end", task |-> timer, row |-> session]
             ELSE [step |-> "due", task |-> timer])
  /\ \/ timers' = timers \ {timer} /\ UNCHANGED failures
     \/ failures < MaxFailures /\ failures' = failures + 1 /\ UNCHANGED timers
  /\ UNCHANGED <<clock, session, commands, unarmed>>

ReadForTimer(h) ==
  /\ requests[h].step = "due"
  /\ IF session.status = "ended" THEN Done(h)
     ELSE ReadCurrent(h, requests[h].task)
  /\ UNCHANGED <<clock, session, timers, Budgets>>

Acknowledge(h) ==
  /\ requests[h].step = "ack"
  /\ Goto(h, Idle)
  /\ UNCHANGED <<clock, session, timers, Budgets>>

-----------------------------------------------------------------------------
(* getCurrentEvent.                                                         *)

\* Mutant: the UPDATE finds its row by id alone.
Found(p) == TRUE

\* The row still has the status it was read with.
Unmoved(p) == session.status = requests[p].row.status

\* endSession, in each of its callers: the row is locked and its status compared.
Ended == [session EXCEPT !.status = "ended"]

EndOverdue(p) ==
  LET request == requests[p]
  IN  /\ request.step = "current"
      /\ Overdue(request.row, request.now)
      /\ session' = IF Unmoved(p) THEN Ended ELSE session
      /\ IF session'.status = "ended" THEN Done(p)
         ELSE Goto(p, [request EXCEPT !.step = "advance", !.row = session])
      /\ UNCHANGED <<clock, timers, Budgets>>

\* The status wall-clock time has carried the row to, written over the status read.
Advanced(row, target) ==
  [session EXCEPT !.status = target,
                  !.grace = IF target \in {"registration_closed", "lottery_pending"}
                            THEN GraceDeadline(row) ELSE @]

Advance(p) ==
  LET request == requests[p]
      row     == request.row
      target  == StatusAt(row, request.now)
  IN  /\ \/ request.step = "advance"
         \/ request.step = "current" /\ ~Overdue(row, request.now)
      /\ \/ /\ target = row.status
            /\ Resume(p, row)
            /\ UNCHANGED session
         \/ /\ target # row.status
            /\ Unmoved(p)
            /\ session' = Advanced(row, target)
            /\ IF target = "registration_open" THEN Resume(p, session')
               ELSE Goto(p, [step |-> "arm_draw", task |-> request.task, row |-> session'])
         \/ /\ target # row.status
            /\ ~Unmoved(p)
            /\ Resume(p, IF session.status = "ended" THEN row ELSE session)
            /\ UNCHANGED session
      /\ UNCHANGED <<clock, timers, Budgets>>

\* scheduleSessionTimersQuietly, after the transition; a failure is logged and no more.
ArmDraw(p) ==
  /\ requests[p].step = "arm_draw"
  /\ timers' = timers \cup TimersFor(requests[p].row, {"lottery_draw"}, clock)
  /\ Resume(p, requests[p].row)
  /\ UNCHANGED <<clock, session, Budgets>>

ArmDrawFails(p) ==
  /\ requests[p].step = "arm_draw"
  /\ failures < MaxFailures
  /\ failures' = failures + 1
  /\ unarmed' = TRUE
  /\ Resume(p, requests[p].row)
  /\ UNCHANGED <<clock, session, timers, commands>>

-----------------------------------------------------------------------------
(* What the request came for.                                               *)

Running(p, kind) == requests[p].step = "run" /\ requests[p].task.kind = kind

\* The command's checks failed on the row read, or its UPDATE matched no row.
Refuse(p) ==
  /\ Done(p)
  /\ UNCHANGED <<clock, session, timers, Budgets>>

\* The UPDATE matched: the timers named are sent for the row it returned.
Write(p, row, kinds) ==
  /\ session' = row
  /\ Goto(p, [step |-> "arm", row |-> row, kinds |-> kinds])
  /\ UNCHANGED <<clock, timers, Budgets>>

OpenRegistration(c) ==
  LET row == requests[c].row
  IN  /\ Running(c, "open_registration")
      /\ IF row.status = "scheduled" /\ session.status = "scheduled"
         THEN Write(c, [session EXCEPT !.status = "registration_open", !.grace = Null,
                                       !.opens = clock, !.closes = clock + (row.closes - row.opens)],
                    UpcomingTimers)
         ELSE Refuse(c)

PostponeRegistration(c) ==
  LET row     == requests[c].row
      minutes == requests[c].task.minutes
  IN  /\ Running(c, "postpone_registration")
      /\ IF row.status = "scheduled" /\ session.status = "scheduled"
         THEN Write(c, [session EXCEPT !.opens = row.opens + minutes, !.closes = row.closes + minutes],
                    UpcomingTimers)
         ELSE Refuse(c)

ValidExtension(row, closes) ==
  /\ closes >= row.closes
  /\ closes > row.opens
  /\ AutoClosesAt(row) # Null => closes < AutoClosesAt(row)

UpdateRegistration(c) ==
  LET row    == requests[c].row
      closes == requests[c].task.closes
  IN  /\ Running(c, "update_registration")
      /\ IF row.status = "registration_open" /\ ValidExtension(row, closes)
            /\ session.status = "registration_open"
         THEN Write(c, [session EXCEPT !.closes = closes], {"registration_close"})
         ELSE Refuse(c)

CloseRegistration(c) ==
  /\ Running(c, "close_registration")
  /\ IF requests[c].row.status = "registration_open" /\ Unmoved(c)
     THEN Write(c, [session EXCEPT !.status = "registration_closed", !.grace = clock + Grace],
                {"lottery_draw"})
     ELSE Refuse(c)

ReopenRegistration(c) ==
  LET row     == requests[c].row
      minimum == clock + MinimumOpen
  IN  /\ Running(c, "reopen_registration")
      /\ IF row.status = "registration_closed" /\ session.status = "registration_closed"
         THEN Write(c, [session EXCEPT !.status = "registration_open", !.grace = Null,
                                       !.closes = IF row.closes > minimum THEN row.closes ELSE minimum],
                    {"registration_close"})
         ELSE Refuse(c)

\* Both commands on a pending draw compare the delay as well as the status.
DelayUnmoved(row) ==
  /\ row.status = "lottery_pending" /\ row.delay # Null
  /\ session.status = "lottery_pending" /\ session.delay = row.delay

PostponeLottery(c) ==
  LET row == requests[c].row
  IN  /\ Running(c, "postpone_lottery")
      /\ IF DelayUnmoved(row)
         THEN Write(c, [session EXCEPT !.delay = row.delay + requests[c].task.minutes],
                    {"lottery_draw"})
         ELSE Refuse(c)

PauseLottery(c) ==
  /\ Running(c, "pause_lottery")
  /\ IF DelayUnmoved(requests[c].row)
     THEN Write(c, [session EXCEPT !.delay = Null], {})
     ELSE Refuse(c)

\* runLottery by a worker, and by the timer: the row is locked, and the timer's draw
\* time compared again.
RunLottery(c) ==
  /\ Running(c, "run_lottery")
  /\ IF requests[c].row.status = "lottery_pending" /\ session.status = "lottery_pending"
     THEN Write(c, [session EXCEPT !.status = "service_started"], {})
     ELSE Refuse(c)

\* Mutant: the draw time is checked only when the timer is delivered.
StillPending(h) == session.status = "lottery_pending"

DrawStillDue(h) ==
  /\ session.status = "lottery_pending"
  /\ LotteryDrawsAt(session) = requests[h].task.expectedAt

DrawByTimer(h) ==
  /\ Running(h, "lottery_draw")
  /\ session' = IF requests[h].row.status = "lottery_pending" /\ DrawStillDue(h)
                THEN [session EXCEPT !.status = "service_started"] ELSE session
  /\ Done(h)
  /\ UNCHANGED <<clock, timers, Budgets>>

EndByCommand(c) ==
  \E command \in {"close_session", "reset_session"} :
    /\ Running(c, command)
    /\ session' = IF requests[c].row.status \in SessionCommandSources[command] /\ Unmoved(c)
                  THEN Ended ELSE session
    /\ Done(c)
    /\ UNCHANGED <<clock, timers, Budgets>>

EndByTimer(h) ==
  /\ requests[h].step = "end"
  /\ session' = IF Unmoved(h) THEN Ended ELSE session
  /\ Done(h)
  /\ UNCHANGED <<clock, timers, Budgets>>

\* scheduleSessionTimers, for a command whose UPDATE has committed.
Arm(c) ==
  /\ requests[c].step = "arm"
  /\ timers' = timers \cup TimersFor(requests[c].row, requests[c].kinds, clock)
  /\ Goto(c, Idle)
  /\ UNCHANGED <<clock, session, Budgets>>

\* A request dies, or a send fails and fails it.  What it committed stays; the timers it
\* had still to send are lost; the one a delivery came for waits to be delivered again.
Fail(p) ==
  /\ requests[p] # Idle
  /\ failures < MaxFailures
  /\ failures' = failures + 1
  /\ unarmed' = (unarmed \/ requests[p].step \in {"arm", "arm_draw"})
  /\ timers' = IF p \in Handlers THEN timers \cup {requests[p].task} ELSE timers
  /\ Goto(p, Idle)
  /\ UNCHANGED <<clock, session, commands>>

Tick ==
  /\ clock < MaxTime
  /\ clock' = clock + 1
  /\ UNCHANGED <<session, timers, requests, Budgets>>

-----------------------------------------------------------------------------
Init ==
  /\ clock = 0
  /\ session \in NewSessions
  /\ timers = TimersFor(session, UpcomingTimers, 0)
  /\ requests = [p \in Processes |-> Idle]
  /\ commands = 0
  /\ failures = 0
  /\ unarmed = FALSE

RunCommand(c) ==
  \/ OpenRegistration(c) \/ PostponeRegistration(c) \/ UpdateRegistration(c)
  \/ CloseRegistration(c) \/ ReopenRegistration(c)
  \/ PostponeLottery(c) \/ PauseLottery(c) \/ RunLottery(c) \/ EndByCommand(c)
  \/ Arm(c)

RunTimer(h) ==
  ReadForTimer(h) \/ DrawByTimer(h) \/ EndByTimer(h) \/ Acknowledge(h)

\* Every step a request in flight takes by itself.
Proceed(p) ==
  \/ EndOverdue(p) \/ Advance(p) \/ ArmDraw(p)
  \/ p \in Clients /\ RunCommand(p)
  \/ p \in Handlers /\ RunTimer(p)

Deliver(h) ==
  \E timer \in timers : IgnoreTimer(h, timer) \/ HopTimer(h, timer) \/ BeginTimer(h, timer)

Next ==
  \/ Tick
  \/ \E c \in Clients : Look(c) \/ \E command \in Commands : Command(c, command)
  \/ \E h \in Handlers : Deliver(h)
  \/ \E p \in Processes : Proceed(p) \/ ArmDrawFails(p) \/ Fail(p)

Spec == Init /\ [][Next]_vars

\* Time passes, requests go on, due timers are delivered: what the platform promises.
Fairness ==
  /\ WF_vars(Tick)
  /\ \A p \in Processes : WF_vars(Proceed(p))
  /\ \A h \in Handlers : WF_vars(Deliver(h))

TimedSpec == Spec /\ Fairness

\* Besides, somebody opens the app now and then.
WatchedSpec == TimedSpec /\ \A c \in Clients : WF_vars(Look(c))

-----------------------------------------------------------------------------
(* Types.                                                                   *)

Timers == [kind : TimerKinds, expectedAt : Nat, wakesAt : Nat]

Tasks == Commands \cup Timers \cup {[kind |-> "look"]}

Requests ==
  {Idle}
    \cup [step : {"current", "advance"}, task : Tasks, row : Row, now : Nat]
    \cup [step : {"arm_draw", "run", "end"}, task : Tasks, row : Row]
    \cup [step : {"arm"}, row : Row, kinds : SUBSET TimerKinds]
    \cup [step : {"due", "ack"}, task : Timers]

TypeOK ==
  /\ clock \in 0..MaxTime
  /\ session \in Row
  /\ timers \subseteq Timers
  /\ requests \in [Processes -> Requests]
  /\ commands \in 0..MaxCommands /\ failures \in 0..MaxFailures
  /\ unarmed \in BOOLEAN

-----------------------------------------------------------------------------
(* What holds.                                                              *)

\* The pool freezes only when its own grace deadline has passed, whoever wrote it, from
\* whatever row (getCurrentEvent, closeRegistration, reopenRegistration).
PendingIsPastGrace ==
  session.status = "lottery_pending" => session.grace # Null /\ session.grace <= clock

\* A draw still to come on its own has its timer on the way, in delivery or about to be sent,
\* unless a failure lost it: no order of moving times, delivering and returning drops it.
PendingDrawIsArmed ==
  session.status = "lottery_pending" /\ session.delay # Null =>
    \/ \E timer \in timers :
         timer.kind = "lottery_draw" /\ timer.expectedAt = LotteryDrawsAt(session)
    \/ \E h \in Handlers :
         /\ requests[h].step \notin {"idle", "ack"}
         /\ requests[h].task.kind = "lottery_draw"
         /\ requests[h].task.expectedAt = LotteryDrawsAt(session)
    \/ \E p \in Processes :
         /\ \/ requests[p].step = "arm_draw"
            \/ requests[p].step = "arm" /\ "lottery_draw" \in requests[p].kinds
         /\ LotteryDrawsAt(requests[p].row) = LotteryDrawsAt(session)
    \/ unarmed

\* A draw nobody asks for happens when the row, as it is then, says so: a postponed or a
\* paused draw is never run by a timer sent before (runLottery's expectedDrawAt).
AutomaticDrawIsDue ==
  [][session.status = "lottery_pending" /\ session'.status = "service_started" =>
       \/ \E c \in Clients : Running(c, "run_lottery") /\ requests'[c] # requests[c]
       \/ session.delay # Null /\ LotteryDrawsAt(session) <= clock]_vars

\* The status moves as MarketDay lets it, which knows no times: automatically, by hand,
\* by a draw, or to its end.
MovesAsInMarketDay ==
  [][session'.status # session.status =>
       \/ session'.status \in AutomaticTargets(session.status) \cup ManualTargets(session.status)
       \/ session.status = "lottery_pending" /\ session'.status = "service_started"
       \/ session'.status = "ended"]_vars

\* A draw whose time has come is run, unless people postpone it, pause it or end the
\* session, or its timer was lost after a failure.
DueDrawHappens ==
  (session.status = "lottery_pending" /\ session.delay # Null /\ LotteryDrawsAt(session) <= clock)
    ~> \/ session.status # "lottery_pending" \/ session.delay = Null
       \/ LotteryDrawsAt(session) > clock \/ unarmed

\* A session past its auto-close time ends, though its timer be lost or beaten by another
\* change of status: the next person to open the app ends it (getCurrentEvent).
AutoCloseHeals ==
  (AutoClosesAt(session) # Null /\ AutoClosesAt(session) <= clock) ~> session.status = "ended"

-----------------------------------------------------------------------------
(* What the documents say.                                                  *)

\* An automatic status is one the row, as it is when written over, has come to
\* ("guarded by an optimistic-concurrency WHERE, so it's race-safe").
AutomaticStepsAreDue ==
  [][\A p \in Processes :
       Advance(p) /\ session' # session =>
         CASE session'.status = "registration_open" -> session.opens <= clock
           [] session'.status = "registration_closed" -> session.closes <= clock
           [] OTHER -> GraceDeadline(session) <= clock]_vars
============================================================================
