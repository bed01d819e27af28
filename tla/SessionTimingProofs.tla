------------------------- MODULE SessionTimingProofs -------------------------
(***************************************************************************)
(* A session's status moves when its row says so, for every set of people  *)
(* and handlers, every grace period, hop and bound, and whatever fails.    *)
(***************************************************************************)
EXTENDS SessionTiming, TLAPS

\* The columns of a row.
LEMMA RowFields ==
  ASSUME NEW row \in Row
  PROVE  /\ row.status \in SessionStatuses /\ row.opens \in Nat /\ row.closes \in Nat
         /\ row.grace \in Nat \cup {Null} /\ row.delay \in Nat \cup {Null}
         /\ row.after \in Nat \cup {Null}
PROOF
  BY DEF Row

\* A time read off a row is a moment, or not set.
LEMMA TimesOfRow ==
  ASSUME NEW row \in Row
  PROVE  /\ GraceDeadline(row) \in Nat
         /\ LotteryDrawsAt(row) \in Nat \cup {Null}
         /\ AutoClosesAt(row) \in Nat \cup {Null}
         /\ \A kind \in TimerKinds : TimerAt(row, kind) \in Nat \cup {Null}
PROOF
  <1> /\ row.opens \in Nat /\ row.closes \in Nat /\ row.grace \in Nat \cup {Null}
      /\ row.delay \in Nat \cup {Null} /\ row.after \in Nat \cup {Null}
    BY RowFields
  <1>1. GraceDeadline(row) \in Nat
    BY GraceAssumption DEF GraceDeadline, Null
  <1>2. LotteryDrawsAt(row) \in Nat \cup {Null}
    BY <1>1 DEF LotteryDrawsAt, Null
  <1>3. AutoClosesAt(row) \in Nat \cup {Null}
    BY DEF AutoClosesAt, Null
  <1> QED
    BY <1>1, <1>2, <1>3 DEF TimerAt, TimerKinds

\* The status the clock carries a row to: what MarketRules lets it be, and pending only once
\* the grace period is over.
LEMMA StatusMovesByTheRow ==
  ASSUME NEW row \in Row, NEW now \in Nat
  PROVE  LET target == StatusAt(row, now)
         IN  /\ target \in SessionStatuses
             /\ target # row.status => target \in AutomaticTargets(row.status)
             /\ target # row.status /\ target = "lottery_pending" => GraceDeadline(row) <= now
             /\ target # row.status =>
                  target \in {"registration_open", "registration_closed", "lottery_pending"}
PROOF
  BY RowFields DEF StatusAt, ClosedStatusAt, AutomaticTargets, SessionStatuses

-----------------------------------------------------------------------------

\* A session yet to open does not close before it opens: opening it early keeps its length.
Spans(row) == row.status = "scheduled" => row.opens <= row.closes

\* What a request may be at a moment: the clock it read is not ahead, and a delivery came
\* for a timer whose time has come.
RequestOK(p, request, now) ==
  /\ request \in Requests
  /\ request.step \in {"current", "advance", "arm_draw", "run", "end"} => Spans(request.row)
  /\ request.step \in {"current", "advance"} => request.now <= now
  /\ p \in Handlers =>
       \/ request = Idle
       \/ /\ request.step # "arm"
          /\ request.task \in Timers
          /\ request.task.expectedAt <= now

RequestsOK ==
  /\ requests \in [Processes -> Requests]
  /\ \A p \in Processes : RequestOK(p, requests[p], clock)

\* The inductive invariant.
TimingInv == TypeOK /\ PendingIsPastGrace /\ Spans(session) /\ RequestsOK

\* What AutomaticDrawIsDue and MovesAsInMarketDay say of one step.
DrawStep ==
  session.status = "lottery_pending" /\ session'.status = "service_started" =>
    \/ \E c \in Clients : Running(c, "run_lottery") /\ requests'[c] # requests[c]
    \/ session.delay # Null /\ LotteryDrawsAt(session) <= clock

MoveStep ==
  session'.status # session.status =>
    \/ session'.status \in AutomaticTargets(session.status) \cup ManualTargets(session.status)
    \/ session.status = "lottery_pending" /\ session'.status = "service_started"
    \/ session'.status = "ended"

\* What every step owes.
StepOK == TimingInv' /\ DrawStep /\ MoveStep

-----------------------------------------------------------------------------
(* Data.                                                                    *)

LEMMA TimersAreTyped ==
  ASSUME NEW row \in Row, NEW kinds \in SUBSET TimerKinds, NEW now \in Nat
  PROVE  TimersFor(row, kinds, now) \subseteq Timers
PROOF
  <1>1. \A kind \in kinds : TimerAt(row, kind) # Null => TimerAt(row, kind) \in Nat
    BY TimesOfRow
  <1>2. ASSUME NEW kind \in TimerKinds, NEW expectedAt \in Nat
        PROVE  Timer(kind, expectedAt, now) \in Timers
    <2>1. now + MaxHop \in Nat
      BY TimingAssumption
    <2> QED
      BY <2>1 DEF Timer, Timers
  <1> QED
    BY <1>1, <1>2 DEF TimersFor

\* What a request's step says of its other fields.
LEMMA RequestFields ==
  ASSUME NEW request \in Requests
  PROVE  /\ request.step \in {"current", "advance"} =>
              request.task \in Tasks /\ request.row \in Row /\ request.now \in Nat
         /\ request.step \in {"arm_draw", "run", "end"} =>
              request.task \in Tasks /\ request.row \in Row
         /\ request.step = "arm" => request.row \in Row /\ request.kinds \subseteq TimerKinds
         /\ request.step \in {"due", "ack"} => request.task \in Timers
PROOF
  BY DEF Requests, Idle

\* The requests an action may leave behind are of their type.
LEMMA RequestForms ==
  /\ Idle \in Requests
  /\ \A step \in {"current", "advance"}, task \in Tasks, row \in Row, now \in Nat :
       [step |-> step, task |-> task, row |-> row, now |-> now] \in Requests
  /\ \A step \in {"arm_draw", "run", "end"}, task \in Tasks, row \in Row :
       [step |-> step, task |-> task, row |-> row] \in Requests
  /\ \A row \in Row, kinds \in SUBSET TimerKinds :
       [step |-> "arm", row |-> row, kinds |-> kinds] \in Requests
  /\ \A step \in {"due", "ack"}, task \in Timers :
       [step |-> step, task |-> task] \in Requests
PROOF
  BY DEF Requests

\* The parameters of a command.
LEMMA TaskFields ==
  ASSUME NEW task \in Tasks
  PROVE  /\ task.kind \in {"postpone_registration", "postpone_lottery"} => task.minutes \in Nat
         /\ task.kind = "update_registration" => task.closes \in Nat
         /\ task.kind = "lottery_draw" => task.expectedAt \in Nat
PROOF
  BY TimingAssumption DEF Tasks, Commands, Timers, TimerKinds

-----------------------------------------------------------------------------
(* Parts of a step.                                                         *)

LEMMA ClockIsNat == ASSUME TypeOK PROVE clock \in Nat
PROOF
  BY TimingAssumption DEF TypeOK

\* A step that leaves the row alone, while the clock does not go back.
LEMMA SessionKept ==
  ASSUME TimingInv, UNCHANGED session, clock' \in Nat, clock' >= clock
  PROVE  /\ session' \in Row /\ PendingIsPastGrace' /\ Spans(session)'
         /\ DrawStep /\ MoveStep
PROOF
  <1> session \in Row /\ PendingIsPastGrace /\ Spans(session) /\ clock \in Nat
    BY ClockIsNat DEF TimingInv, TypeOK
  <1>1. session.status = "lottery_pending" => session.grace \in Nat /\ session.grace <= clock
    BY RowFields DEF PendingIsPastGrace
  <1> QED
    BY <1>1 DEF PendingIsPastGrace, DrawStep, MoveStep, Spans

\* A step that writes one request.
LEMMA GotoKeeps ==
  ASSUME TimingInv, NEW p \in Processes, NEW request, Goto(p, request),
         RequestOK(p, request, clock), UNCHANGED clock
  PROVE  RequestsOK'
PROOF
  BY DEF TimingInv, RequestsOK, Goto, RequestOK

\* A step that leaves the requests alone.
LEMMA RequestsKept ==
  ASSUME TimingInv, UNCHANGED requests, clock' \in Nat, clock' >= clock
  PROVE  RequestsOK'
PROOF
  <1> SUFFICES ASSUME NEW p \in Processes PROVE RequestOK(p, requests[p], clock')
    BY DEF TimingInv, RequestsOK
  <1>1. RequestOK(p, requests[p], clock) /\ clock \in Nat
    BY ClockIsNat DEF TimingInv, RequestsOK
  <1>2. requests[p].step \in {"current", "advance"} => requests[p].now \in Nat
    BY <1>1, RequestFields DEF RequestOK
  <1>3. requests[p].task \in Timers => requests[p].task.expectedAt \in Nat
    BY DEF Timers
  <1> QED
    BY <1>1, <1>2, <1>3 DEF RequestOK

LEMMA DoneKeeps ==
  ASSUME TimingInv, NEW p \in Processes, requests[p] # Idle, Done(p), UNCHANGED clock
  PROVE  RequestsOK'
PROOF
  <1>1. RequestOK(p, requests[p], clock)
    BY DEF TimingInv, RequestsOK
  <1>2. CASE p \in Handlers
    <2>1. RequestOK(p, [step |-> "ack", task |-> requests[p].task], clock)
      BY <1>1, <1>2, RequestForms DEF RequestOK
    <2> QED
      BY <1>2, <2>1, GotoKeeps DEF Done
  <1>3. CASE p \notin Handlers
    BY <1>3, RequestForms, GotoKeeps DEF Done, RequestOK, Idle
  <1> QED
    BY <1>2, <1>3

LEMMA ResumeKeeps ==
  ASSUME TimingInv, NEW p \in Processes, NEW row \in Row, Spans(row),
         requests[p].step \in {"current", "advance", "arm_draw"}, Resume(p, row), UNCHANGED clock
  PROVE  RequestsOK'
PROOF
  <1>1. RequestOK(p, requests[p], clock) /\ requests[p] # Idle
    BY DEF TimingInv, RequestsOK, Idle
  <1>2. requests[p].task \in Tasks
    BY <1>1, RequestFields DEF RequestOK
  <1>3. RequestOK(p, [step |-> "run", task |-> requests[p].task, row |-> row], clock)
    BY <1>1, <1>2, RequestForms DEF RequestOK
  <1> QED
    BY <1>1, <1>3, DoneKeeps, GotoKeeps DEF Resume

\* A request that begins by reading the session.
LEMMA ReadKeeps ==
  ASSUME TimingInv, NEW p \in Processes, NEW task \in Tasks, ReadCurrent(p, task),
         UNCHANGED clock, p \in Handlers => task \in Timers /\ task.expectedAt <= clock
  PROVE  RequestsOK'
PROOF
  <1> DEFINE request == [step |-> "current", task |-> task, row |-> session, now |-> clock]
  <1>1. session \in Row /\ Spans(session) /\ clock \in Nat
    BY ClockIsNat DEF TimingInv, TypeOK
  <1>2. RequestOK(p, request, clock)
    BY <1>1, RequestForms DEF RequestOK
  <1> QED
    BY <1>2, GotoKeeps DEF ReadCurrent

\* A command's UPDATE: what the request becomes.
LEMMA WriteKeeps ==
  ASSUME TimingInv, NEW c \in Clients, NEW row \in Row, NEW kinds \in SUBSET TimerKinds,
         Write(c, row, kinds)
  PROVE  RequestsOK' /\ session' = row /\ UNCHANGED <<clock, timers, Budgets>>
PROOF
  <1> DEFINE request == [step |-> "arm", row |-> row, kinds |-> kinds]
  <1>1. c \in Processes /\ c \notin Handlers
    BY TimingAssumption DEF Processes
  <1>2. RequestOK(c, request, clock)
    BY <1>1, RequestForms DEF RequestOK
  <1> QED
    BY <1>1, <1>2, GotoKeeps DEF Write

\* A command that ends without writing.
LEMMA RefuseIsOK ==
  ASSUME TimingInv, NEW c \in Clients, requests[c] # Idle, Refuse(c)
  PROVE  StepOK
PROOF
  <1> c \in Processes
    BY DEF Processes
  <1>1. /\ RequestsOK' /\ session' \in Row /\ PendingIsPastGrace' /\ Spans(session)'
        /\ DrawStep /\ MoveStep
    BY DoneKeeps, SessionKept, ClockIsNat DEF Refuse, TimingInv
  <1> QED
    BY <1>1 DEF StepOK, TimingInv, TypeOK, RequestsOK, Refuse, Budgets

\* A command's UPDATE that does not make the status pending, or leaves it so.
LEMMA WriteIsOK ==
  ASSUME TimingInv, NEW c \in Clients, NEW row \in Row, NEW kinds \in SUBSET TimerKinds,
         Write(c, row, kinds),
         row.status = "lottery_pending" =>
           session.status = "lottery_pending" /\ row.grace = session.grace,
         Spans(row), DrawStep, MoveStep
  PROVE  StepOK
PROOF
  <1>1. RequestsOK' /\ session' = row /\ UNCHANGED <<clock, timers, Budgets>>
    BY WriteKeeps
  <1>2. PendingIsPastGrace'
    BY <1>1 DEF TimingInv, PendingIsPastGrace
  <1> QED
    BY <1>1, <1>2 DEF StepOK, TimingInv, TypeOK, RequestsOK, Budgets

-----------------------------------------------------------------------------
(* Reading and delivering.                                                  *)

LEMMA LookIsOK ==
  ASSUME TimingInv, NEW c \in Clients, Look(c)
  PROVE  StepOK
PROOF
  <1>1. c \in Processes /\ c \notin Handlers /\ [kind |-> "look"] \in Tasks
    BY TimingAssumption DEF Processes, Tasks
  <1>2. RequestsOK'
    BY <1>1, ReadKeeps DEF Look
  <1>3. session' \in Row /\ PendingIsPastGrace' /\ Spans(session)' /\ DrawStep /\ MoveStep
    BY SessionKept, ClockIsNat DEF Look, TimingInv
  <1> QED
    BY <1>2, <1>3 DEF StepOK, TimingInv, TypeOK, RequestsOK, Look, Budgets

LEMMA CommandIsOK ==
  ASSUME TimingInv, NEW c \in Clients, NEW command \in Commands, Command(c, command)
  PROVE  StepOK
PROOF
  <1>1. c \in Processes /\ c \notin Handlers /\ command \in Tasks
    BY TimingAssumption DEF Processes, Tasks
  <1>2. RequestsOK'
    BY <1>1, ReadKeeps DEF Command
  <1>3. session' \in Row /\ PendingIsPastGrace' /\ Spans(session)' /\ DrawStep /\ MoveStep
    BY SessionKept, ClockIsNat DEF Command, TimingInv
  <1>4. commands' \in 0..MaxCommands
    BY TimingAssumption DEF Command, TimingInv, TypeOK
  <1> QED
    BY <1>2, <1>3, <1>4 DEF StepOK, TimingInv, TypeOK, RequestsOK, Command

LEMMA IgnoreTimerIsOK ==
  ASSUME TimingInv, NEW h \in Handlers, NEW timer \in timers, IgnoreTimer(h, timer)
  PROVE  StepOK
PROOF
  <1>1. RequestsOK'
    BY RequestsKept, ClockIsNat DEF IgnoreTimer, TimingInv
  <1>2. session' \in Row /\ PendingIsPastGrace' /\ Spans(session)' /\ DrawStep /\ MoveStep
    BY SessionKept, ClockIsNat DEF IgnoreTimer, TimingInv
  <1> QED
    BY <1>1, <1>2 DEF StepOK, TimingInv, TypeOK, RequestsOK, IgnoreTimer, Budgets

LEMMA HopTimerIsOK ==
  ASSUME TimingInv, NEW h \in Handlers, NEW timer \in timers, HopTimer(h, timer)
  PROVE  StepOK
PROOF
  <1>1. RequestsOK'
    BY RequestsKept, ClockIsNat DEF HopTimer, TimingInv
  <1>2. session' \in Row /\ PendingIsPastGrace' /\ Spans(session)' /\ DrawStep /\ MoveStep
    BY SessionKept, ClockIsNat DEF HopTimer, TimingInv
  <1>3. timer \in Timers /\ clock \in Nat
    BY ClockIsNat DEF TimingInv, TypeOK
  <1>4. Timer(timer.kind, timer.expectedAt, clock) \in Timers
    BY <1>3, TimingAssumption DEF Timer, Timers
  <1> QED
    BY <1>1, <1>2, <1>4 DEF StepOK, TimingInv, TypeOK, RequestsOK, HopTimer, Budgets

LEMMA BeginTimerIsOK ==
  ASSUME TimingInv, NEW h \in Handlers, NEW timer \in timers, BeginTimer(h, timer)
  PROVE  StepOK
PROOF
  <1>1. /\ h \in Processes /\ timer \in Timers /\ timer \in Tasks /\ timer.expectedAt <= clock
        /\ session \in Row /\ Spans(session)
    BY DEF Processes, TimingInv, TypeOK, Tasks, BeginTimer
  <1>2. RequestOK(h, [step |-> "end", task |-> timer, row |-> session], clock)
    BY <1>1, RequestForms DEF RequestOK
  <1>3. RequestOK(h, [step |-> "due", task |-> timer], clock)
    BY <1>1, RequestForms DEF RequestOK
  <1>4. RequestsOK'
    BY <1>1, <1>2, <1>3, GotoKeeps DEF BeginTimer
  <1>5. session' \in Row /\ PendingIsPastGrace' /\ Spans(session)' /\ DrawStep /\ MoveStep
    BY SessionKept, ClockIsNat DEF BeginTimer, TimingInv
  <1>6. timers' \subseteq Timers /\ failures' \in 0..MaxFailures
    BY TimingAssumption DEF BeginTimer, TimingInv, TypeOK
  <1> QED
    BY <1>4, <1>5, <1>6 DEF StepOK, TimingInv, TypeOK, RequestsOK, BeginTimer

LEMMA ReadForTimerIsOK ==
  ASSUME TimingInv, NEW h \in Handlers, ReadForTimer(h)
  PROVE  StepOK
PROOF
  <1>1. h \in Processes /\ RequestOK(h, requests[h], clock) /\ requests[h] # Idle
    BY DEF Processes, TimingInv, RequestsOK, ReadForTimer, Idle
  <1>2. requests[h].task \in Timers /\ requests[h].task \in Tasks /\ requests[h].task.expectedAt <= clock
    BY <1>1 DEF RequestOK, Tasks
  <1>3. RequestsOK'
    BY <1>1, <1>2, DoneKeeps, ReadKeeps DEF ReadForTimer
  <1>4. session' \in Row /\ PendingIsPastGrace' /\ Spans(session)' /\ DrawStep /\ MoveStep
    BY SessionKept, ClockIsNat DEF ReadForTimer, TimingInv
  <1> QED
    BY <1>3, <1>4 DEF StepOK, TimingInv, TypeOK, RequestsOK, ReadForTimer, Budgets

LEMMA AcknowledgeIsOK ==
  ASSUME TimingInv, NEW h \in Handlers, Acknowledge(h)
  PROVE  StepOK
PROOF
  <1>1. RequestOK(h, Idle, clock) /\ h \in Processes
    BY RequestForms DEF RequestOK, Idle, Processes
  <1>2. RequestsOK'
    BY <1>1, GotoKeeps DEF Acknowledge
  <1>3. session' \in Row /\ PendingIsPastGrace' /\ Spans(session)' /\ DrawStep /\ MoveStep
    BY SessionKept, ClockIsNat DEF Acknowledge, TimingInv
  <1> QED
    BY <1>2, <1>3 DEF StepOK, TimingInv, TypeOK, RequestsOK, Acknowledge, Budgets

-----------------------------------------------------------------------------
(* getCurrentEvent.                                                         *)

\* What a request in flight has read.
LEMMA InFlight ==
  ASSUME TimingInv, NEW p \in Processes,
         requests[p].step \in {"current", "advance", "arm_draw", "run", "end"}
  PROVE  /\ RequestOK(p, requests[p], clock) /\ requests[p] # Idle
         /\ requests[p].row \in Row /\ Spans(requests[p].row) /\ requests[p].task \in Tasks
         /\ requests[p].step \in {"current", "advance"} =>
              requests[p].now \in Nat /\ requests[p].now <= clock
PROOF
  <1>1. RequestOK(p, requests[p], clock)
    BY DEF TimingInv, RequestsOK
  <1> QED
    BY <1>1, RequestFields DEF RequestOK, Idle

\* Ending the session is always in order.
LEMMA EndedIsOK ==
  ASSUME TimingInv, session' = Ended
  PROVE  session' \in Row /\ PendingIsPastGrace' /\ Spans(session)' /\ DrawStep /\ MoveStep
PROOF
  <1>1. session \in Row
    BY DEF TimingInv, TypeOK
  <1>2. session' \in Row /\ session'.status = "ended"
    BY <1>1 DEF Ended, Row, SessionStatuses
  <1> QED
    BY <1>2 DEF PendingIsPastGrace, Spans, DrawStep, MoveStep

LEMMA EndOverdueIsOK ==
  ASSUME TimingInv, NEW p \in Processes, EndOverdue(p)
  PROVE  StepOK
PROOF
  <1>1. session \in Row /\ Spans(session) /\ clock \in Nat
    BY ClockIsNat DEF TimingInv, TypeOK
  <1>2. /\ RequestOK(p, requests[p], clock) /\ requests[p] # Idle /\ requests[p].task \in Tasks
        /\ requests[p].now \in Nat /\ requests[p].now <= clock /\ requests[p].step = "current"
        /\ requests[p] \in Requests
    BY InFlight DEF EndOverdue, RequestOK
  <1>3. RequestsOK'
    <2> DEFINE request == [requests[p] EXCEPT !.step = "advance", !.row = session]
    <2>1. requests[p] \in [step : {"current", "advance"}, task : Tasks, row : Row, now : Nat]
      BY <1>2 DEF Requests, Idle
    <2>2. request \in [step : {"current", "advance"}, task : Tasks, row : Row, now : Nat]
      BY <1>1, <2>1
    <2>3. RequestOK(p, request, clock)
      <3>1. request \in Requests
        BY <2>2 DEF Requests
      <3>2. request.step = "advance" /\ request.row = session /\ request.now = requests[p].now
            /\ request.task = requests[p].task
        BY <2>1
      <3> HIDE DEF request
      <3> QED
        BY <1>1, <1>2, <3>1, <3>2 DEF RequestOK, Idle
    <2> QED
      BY <1>2, <2>3, GotoKeeps, DoneKeeps DEF EndOverdue
  <1>4. session' \in Row /\ PendingIsPastGrace' /\ Spans(session)' /\ DrawStep /\ MoveStep
    BY <1>1, EndedIsOK, SessionKept DEF EndOverdue
  <1> QED
    BY <1>3, <1>4 DEF StepOK, TimingInv, TypeOK, RequestsOK, EndOverdue, Budgets

LEMMA AdvanceIsOK ==
  ASSUME TimingInv, NEW p \in Processes, Advance(p)
  PROVE  StepOK
PROOF
  <1> DEFINE row == requests[p].row
             target == StatusAt(row, requests[p].now)
  <1>1. session \in Row /\ Spans(session) /\ clock \in Nat
    BY ClockIsNat DEF TimingInv, TypeOK
  <1>2. requests[p].step \in {"current", "advance"}
    BY DEF Advance
  <1>3. /\ row \in Row /\ Spans(row) /\ requests[p].task \in Tasks
        /\ requests[p].now \in Nat /\ requests[p].now <= clock
        /\ RequestOK(p, requests[p], clock)
    BY <1>2, InFlight
  <1>4. /\ target \in SessionStatuses
        /\ target # row.status => target \in AutomaticTargets(row.status)
        /\ target # row.status /\ target = "lottery_pending" => GraceDeadline(row) <= requests[p].now
        /\ target # row.status =>
             target \in {"registration_open", "registration_closed", "lottery_pending"}
    BY <1>3, StatusMovesByTheRow
  <1>5. GraceDeadline(row) \in Nat
    BY <1>3, TimesOfRow
  <1> HIDE DEF target
  <1>6. CASE UNCHANGED session
    <2>1. \E seen \in Row : Spans(seen) /\ Resume(p, seen)
      <3>1. \/ Resume(p, row)
            \/ Resume(p, session)
            \/ target # row.status /\ session' = Advanced(row, target) /\ Unmoved(p)
        BY <1>6 DEF Advance, target
      <3>2. ~(target # row.status /\ session' = Advanced(row, target) /\ Unmoved(p))
        BY <1>1, <1>6 DEF Advanced, Row, Unmoved
      <3> QED
        BY <1>1, <1>3, <3>1, <3>2
    <2>2. RequestsOK'
      BY <1>2, <2>1, ResumeKeeps DEF Advance
    <2>3. session' \in Row /\ PendingIsPastGrace' /\ Spans(session)' /\ DrawStep /\ MoveStep
      BY <1>1, <1>6, SessionKept DEF Advance
    <2> QED
      BY <2>2, <2>3 DEF StepOK, TimingInv, TypeOK, RequestsOK, Advance, Budgets
  <1>7. CASE session' # session
    <2>1. target # row.status /\ session.status = row.status /\ session' = Advanced(row, target)
      BY <1>7 DEF Advance, target, Unmoved
    <2>2. /\ session' \in Row /\ session'.status = target
          /\ target = "lottery_pending" => session'.grace = GraceDeadline(row)
      BY <1>1, <1>4, <1>5, <2>1 DEF Advanced, Row, Null
    <2>3. Spans(session')
      BY <1>4, <2>1, <2>2 DEF Spans
    <2>4. PendingIsPastGrace'
      BY <1>1, <1>3, <1>4, <1>5, <2>1, <2>2 DEF PendingIsPastGrace, Null, Advance
    <2>5. DrawStep /\ MoveStep
      BY <1>4, <2>1, <2>2 DEF DrawStep, MoveStep
    <2>6. RequestsOK'
      <3> DEFINE request == [step |-> "arm_draw", task |-> requests[p].task, row |-> session']
      <3>1. RequestOK(p, request, clock)
        BY <1>2, <1>3, <2>2, <2>3, RequestForms DEF RequestOK, Idle
      <3>2. Resume(p, session') \/ Goto(p, request)
        BY <1>7 DEF Advance
      <3> QED
        BY <1>2, <2>2, <2>3, <3>1, <3>2, ResumeKeeps, GotoKeeps DEF Advance
    <2> QED
      BY <2>2, <2>3, <2>4, <2>5, <2>6 DEF StepOK, TimingInv, TypeOK, RequestsOK, Advance, Budgets
  <1> QED
    BY <1>6, <1>7

LEMMA ArmDrawIsOK ==
  ASSUME TimingInv, NEW p \in Processes, ArmDraw(p) \/ ArmDrawFails(p)
  PROVE  StepOK
PROOF
  <1>1. requests[p].step = "arm_draw" /\ clock \in Nat
    BY ClockIsNat DEF ArmDraw, ArmDrawFails, TimingInv
  <1>2. requests[p].row \in Row /\ Spans(requests[p].row)
    BY <1>1, InFlight
  <1>3. RequestsOK'
    BY <1>1, <1>2, ResumeKeeps DEF ArmDraw, ArmDrawFails
  <1>4. session' \in Row /\ PendingIsPastGrace' /\ Spans(session)' /\ DrawStep /\ MoveStep
    BY <1>1, SessionKept DEF ArmDraw, ArmDrawFails
  <1>5. timers' \subseteq Timers
    <2>1. TimersFor(requests[p].row, {"lottery_draw"}, clock) \subseteq Timers
      BY <1>1, <1>2, TimersAreTyped DEF TimerKinds
    <2> QED
      BY <2>1 DEF ArmDraw, ArmDrawFails, TimingInv, TypeOK
  <1>6. failures' \in 0..MaxFailures /\ commands' \in 0..MaxCommands
    BY TimingAssumption DEF ArmDraw, ArmDrawFails, TimingInv, TypeOK, Budgets
  <1>7. unarmed' \in BOOLEAN
    BY DEF ArmDraw, ArmDrawFails, TimingInv, TypeOK, Budgets
  <1> QED
    BY <1>3, <1>4, <1>5, <1>6, <1>7 DEF StepOK, TimingInv, TypeOK, RequestsOK, ArmDraw, ArmDrawFails

-----------------------------------------------------------------------------
(* Commands and deliveries.                                                 *)

\* A command that runs has read a row, and knows its parameters.
LEMMA RunningCommand ==
  ASSUME TimingInv, NEW c \in Clients, NEW kind, Running(c, kind)
  PROVE  /\ requests[c] # Idle /\ requests[c].row \in Row /\ Spans(requests[c].row)
         /\ requests[c].task \in Tasks /\ requests[c].task.kind = kind
         /\ session \in Row /\ Spans(session) /\ clock \in Nat
PROOF
  <1> c \in Processes
    BY DEF Processes
  <1> QED
    BY InFlight, ClockIsNat DEF Running, TimingInv, TypeOK

\* An UPDATE that moves times and keeps the status, or changes it as MarketDay lets it.
LEMMA UpdateIsOK ==
  ASSUME TimingInv, NEW c \in Clients, NEW row \in Row, NEW kinds \in SUBSET TimerKinds,
         Write(c, row, kinds), Spans(row), row.status # "service_started",
         row.status = "lottery_pending" =>
           session.status = "lottery_pending" /\ row.grace = session.grace,
         row.status # session.status => row.status \in ManualTargets(session.status)
  PROVE  StepOK
PROOF
  <1>1. session' = row
    BY DEF Write
  <1>2. DrawStep /\ MoveStep
    BY <1>1 DEF DrawStep, MoveStep
  <1> QED
    BY <1>2, WriteIsOK

LEMMA OpenRegistrationIsOK ==
  ASSUME TimingInv, NEW c \in Clients, OpenRegistration(c)
  PROVE  StepOK
PROOF
  <1> DEFINE seen == requests[c].row
             row  == [session EXCEPT !.status = "registration_open", !.grace = Null,
                                     !.opens = clock, !.closes = clock + (seen.closes - seen.opens)]
  <1>1. /\ requests[c] # Idle /\ seen \in Row /\ Spans(seen)
        /\ session \in Row /\ clock \in Nat
    BY RunningCommand DEF OpenRegistration
  <1>2. CASE seen.status = "scheduled" /\ session.status = "scheduled"
    <2>1. clock + (seen.closes - seen.opens) \in Nat
      BY <1>1, <1>2, RowFields DEF Spans
    <2>2. row \in Row /\ row.status = "registration_open"
      BY <1>1, <2>1 DEF Row, SessionStatuses, Null
    <2>3. Write(c, row, UpcomingTimers)
      BY <1>2 DEF OpenRegistration
    <2>4. "registration_open" \in ManualTargets(session.status)
      BY <1>2 DEF ManualTargets, SessionCommandSources, SessionCommandTarget
    <2> HIDE DEF row
    <2> QED
      BY <2>2, <2>3, <2>4, UpdateIsOK DEF Spans, UpcomingTimers, TimerKinds
  <1> QED
    BY <1>1, <1>2, RefuseIsOK DEF OpenRegistration

LEMMA PostponeRegistrationIsOK ==
  ASSUME TimingInv, NEW c \in Clients, PostponeRegistration(c)
  PROVE  StepOK
PROOF
  <1> DEFINE seen    == requests[c].row
             minutes == requests[c].task.minutes
             row     == [session EXCEPT !.opens = seen.opens + minutes,
                                        !.closes = seen.closes + minutes]
  <1>1. /\ requests[c] # Idle /\ seen \in Row /\ Spans(seen) /\ session \in Row
        /\ minutes \in Nat
    BY RunningCommand, TaskFields DEF PostponeRegistration
  <1>2. CASE seen.status = "scheduled" /\ session.status = "scheduled"
    <2>1. /\ row \in Row /\ row.status = "scheduled"
          /\ row.opens = seen.opens + minutes /\ row.closes = seen.closes + minutes
      <3>1. seen.opens + minutes \in Nat /\ seen.closes + minutes \in Nat
        BY <1>1, RowFields
      <3> QED
        BY <1>1, <1>2, <3>1 DEF Row
    <2>2. Spans(row)
      BY <1>1, <1>2, <2>1, RowFields DEF Spans
    <2>3. Write(c, row, UpcomingTimers)
      BY <1>2 DEF PostponeRegistration
    <2> HIDE DEF row
    <2> QED
      BY <1>2, <2>1, <2>2, <2>3, UpdateIsOK DEF UpcomingTimers, TimerKinds
  <1> QED
    BY <1>1, <1>2, RefuseIsOK DEF PostponeRegistration

LEMMA UpdateRegistrationIsOK ==
  ASSUME TimingInv, NEW c \in Clients, UpdateRegistration(c)
  PROVE  StepOK
PROOF
  <1> DEFINE closes == requests[c].task.closes
             row    == [session EXCEPT !.closes = closes]
  <1>1. requests[c] # Idle /\ session \in Row /\ closes \in Nat
    BY RunningCommand, TaskFields DEF UpdateRegistration
  <1>2. CASE Write(c, row, {"registration_close"}) /\ session.status = "registration_open"
    <2>1. row \in Row /\ row.status = "registration_open"
      BY <1>1, <1>2 DEF Row
    <2> HIDE DEF row
    <2> QED
      BY <1>2, <2>1, UpdateIsOK DEF Spans, TimerKinds
  <1> QED
    BY <1>1, <1>2, RefuseIsOK DEF UpdateRegistration

LEMMA CloseRegistrationIsOK ==
  ASSUME TimingInv, NEW c \in Clients, CloseRegistration(c)
  PROVE  StepOK
PROOF
  <1> DEFINE row == [session EXCEPT !.status = "registration_closed", !.grace = clock + Grace]
  <1>1. requests[c] # Idle /\ session \in Row /\ clock \in Nat
    BY RunningCommand DEF CloseRegistration
  <1>2. CASE Write(c, row, {"lottery_draw"}) /\ session.status = "registration_open"
    <2>1. row \in Row /\ row.status = "registration_closed"
      <3>1. clock + Grace \in Nat
        BY <1>1, GraceAssumption
      <3> QED
        BY <1>1, <3>1 DEF Row, SessionStatuses
    <2>2. "registration_closed" \in ManualTargets(session.status)
      BY <1>2 DEF ManualTargets, SessionCommandSources, SessionCommandTarget
    <2> HIDE DEF row
    <2> QED
      BY <1>2, <2>1, <2>2, UpdateIsOK DEF Spans, TimerKinds
  <1> QED
    BY <1>1, <1>2, RefuseIsOK DEF CloseRegistration, Unmoved

LEMMA ReopenRegistrationIsOK ==
  ASSUME TimingInv, NEW c \in Clients, ReopenRegistration(c)
  PROVE  StepOK
PROOF
  <1> DEFINE seen    == requests[c].row
             minimum == clock + MinimumOpen
             row     == [session EXCEPT !.status = "registration_open", !.grace = Null,
                           !.closes = IF seen.closes > minimum THEN seen.closes ELSE minimum]
  <1>1. requests[c] # Idle /\ seen \in Row /\ session \in Row /\ clock \in Nat
    BY RunningCommand DEF ReopenRegistration
  <1>2. CASE Write(c, row, {"registration_close"}) /\ session.status = "registration_closed"
    <2>1. seen.closes \in Nat /\ minimum \in Nat
      BY <1>1, RowFields, TimingAssumption
    <2>2. row \in Row /\ row.status = "registration_open"
      BY <1>1, <2>1 DEF Row, SessionStatuses, Null
    <2>3. "registration_open" \in ManualTargets(session.status)
      BY <1>2 DEF ManualTargets, SessionCommandSources, SessionCommandTarget
    <2> HIDE DEF row
    <2> QED
      BY <1>2, <2>2, <2>3, UpdateIsOK DEF Spans, TimerKinds
  <1> QED
    BY <1>1, <1>2, RefuseIsOK DEF ReopenRegistration

LEMMA PostponeLotteryIsOK ==
  ASSUME TimingInv, NEW c \in Clients, PostponeLottery(c)
  PROVE  StepOK
PROOF
  <1> DEFINE seen == requests[c].row
             row  == [session EXCEPT !.delay = seen.delay + requests[c].task.minutes]
  <1>1. /\ requests[c] # Idle /\ seen \in Row /\ session \in Row
        /\ requests[c].task.minutes \in Nat
    BY RunningCommand, TaskFields DEF PostponeLottery
  <1>2. CASE Write(c, row, {"lottery_draw"}) /\ DelayUnmoved(seen)
    <2>1. seen.delay + requests[c].task.minutes \in Nat
      BY <1>1, <1>2, RowFields DEF DelayUnmoved
    <2>2. row \in Row /\ row.status = "lottery_pending" /\ row.grace = session.grace
      BY <1>1, <1>2, <2>1 DEF Row, DelayUnmoved
    <2> HIDE DEF row
    <2> QED
      BY <1>2, <2>2, UpdateIsOK DEF Spans, TimerKinds, DelayUnmoved
  <1> QED
    BY <1>1, <1>2, RefuseIsOK DEF PostponeLottery

LEMMA PauseLotteryIsOK ==
  ASSUME TimingInv, NEW c \in Clients, PauseLottery(c)
  PROVE  StepOK
PROOF
  <1> DEFINE row == [session EXCEPT !.delay = Null]
  <1>1. requests[c] # Idle /\ session \in Row
    BY RunningCommand DEF PauseLottery
  <1>2. CASE Write(c, row, {}) /\ DelayUnmoved(requests[c].row)
    <2>1. row \in Row /\ row.status = "lottery_pending" /\ row.grace = session.grace
      BY <1>1, <1>2 DEF Row, DelayUnmoved, Null
    <2> HIDE DEF row
    <2> QED
      BY <1>2, <2>1, UpdateIsOK DEF Spans, DelayUnmoved
  <1> QED
    BY <1>1, <1>2, RefuseIsOK DEF PauseLottery

LEMMA RunLotteryIsOK ==
  ASSUME TimingInv, NEW c \in Clients, RunLottery(c)
  PROVE  StepOK
PROOF
  <1> DEFINE row == [session EXCEPT !.status = "service_started"]
  <1>1. requests[c] # Idle /\ session \in Row /\ Running(c, "run_lottery")
    BY RunningCommand DEF RunLottery
  <1>2. CASE Write(c, row, {}) /\ session.status = "lottery_pending"
    <2>1. row \in Row /\ row.status = "service_started"
      BY <1>1 DEF Row, SessionStatuses
    <2>2. requests'[c] # requests[c]
      <3>1. requests'[c].step = "arm"
        BY <1>2 DEF Write, Goto, TimingInv, TypeOK, Processes
      <3> QED
        BY <1>1, <3>1 DEF Running
    <2>3. session' = row
      BY <1>2 DEF Write
    <2> HIDE DEF row
    <2>4. DrawStep /\ MoveStep
      BY <1>1, <1>2, <2>1, <2>2, <2>3 DEF DrawStep, MoveStep
    <2> QED
      BY <1>2, <2>1, <2>4, WriteIsOK DEF Spans
  <1> QED
    BY <1>1, <1>2, RefuseIsOK DEF RunLottery

LEMMA EndByCommandIsOK ==
  ASSUME TimingInv, NEW c \in Clients, EndByCommand(c)
  PROVE  StepOK
PROOF
  <1>1. requests[c] # Idle /\ clock \in Nat
    BY RunningCommand DEF EndByCommand
  <1>2. session' = Ended \/ session' = session
    BY DEF EndByCommand
  <1>3. session' \in Row /\ PendingIsPastGrace' /\ Spans(session)' /\ DrawStep /\ MoveStep
    BY <1>1, <1>2, EndedIsOK, SessionKept DEF EndByCommand
  <1>4. RequestsOK'
    BY <1>1, DoneKeeps DEF EndByCommand, Processes
  <1> QED
    BY <1>3, <1>4 DEF StepOK, TimingInv, TypeOK, RequestsOK, EndByCommand, Budgets

LEMMA ArmIsOK ==
  ASSUME TimingInv, NEW c \in Clients, Arm(c)
  PROVE  StepOK
PROOF
  <1>1. /\ c \in Processes /\ c \notin Handlers /\ clock \in Nat
        /\ requests[c].row \in Row /\ requests[c].kinds \subseteq TimerKinds
    BY RequestFields, ClockIsNat, TimingAssumption DEF Arm, Processes, TimingInv, TypeOK
  <1>2. RequestOK(c, Idle, clock)
    BY <1>1, RequestForms DEF RequestOK, Idle
  <1>3. RequestsOK'
    BY <1>1, <1>2, GotoKeeps DEF Arm
  <1>4. session' \in Row /\ PendingIsPastGrace' /\ Spans(session)' /\ DrawStep /\ MoveStep
    BY <1>1, SessionKept DEF Arm
  <1>5. timers' \subseteq Timers
    BY <1>1, TimersAreTyped DEF Arm, TimingInv, TypeOK
  <1> QED
    BY <1>3, <1>4, <1>5 DEF StepOK, TimingInv, TypeOK, RequestsOK, Arm, Budgets

\* The timer's draw: the row says, as it is written, that the draw is due.
LEMMA DrawByTimerIsOK ==
  ASSUME TimingInv, NEW h \in Handlers, DrawByTimer(h)
  PROVE  StepOK
PROOF
  <1>1. /\ h \in Processes /\ RequestOK(h, requests[h], clock) /\ requests[h] # Idle
        /\ session \in Row /\ clock \in Nat
    BY ClockIsNat DEF Processes, TimingInv, TypeOK, RequestsOK, DrawByTimer, Running, Idle
  <1>2. /\ requests[h].task \in Timers /\ requests[h].task.expectedAt \in Nat
        /\ requests[h].task.expectedAt <= clock
    BY <1>1 DEF RequestOK, Timers
  <1>3. RequestsOK'
    BY <1>1, DoneKeeps DEF DrawByTimer
  <1>4. session' \in Row /\ PendingIsPastGrace' /\ Spans(session)' /\ DrawStep /\ MoveStep
    <2>1. CASE session' = session
      BY <1>1, <2>1, SessionKept DEF DrawByTimer
    <2>2. CASE /\ session' = [session EXCEPT !.status = "service_started"]
               /\ DrawStillDue(h)
      <3>1. session' \in Row /\ session'.status = "service_started"
        BY <1>1, <2>2 DEF Row, SessionStatuses
      <3>2. session.delay # Null /\ LotteryDrawsAt(session) <= clock
        BY <1>2, <2>2 DEF DrawStillDue, LotteryDrawsAt, Null
      <3>3. session.status = "lottery_pending"
        BY <2>2 DEF DrawStillDue
      <3> QED
        BY <3>1, <3>2, <3>3 DEF PendingIsPastGrace, Spans, DrawStep, MoveStep
    <2> QED
      BY <2>1, <2>2 DEF DrawByTimer
  <1> QED
    BY <1>3, <1>4 DEF StepOK, TimingInv, TypeOK, RequestsOK, DrawByTimer, Budgets

LEMMA EndByTimerIsOK ==
  ASSUME TimingInv, NEW h \in Handlers, EndByTimer(h)
  PROVE  StepOK
PROOF
  <1>1. h \in Processes /\ requests[h] # Idle /\ clock \in Nat
    BY ClockIsNat DEF Processes, EndByTimer, Idle, TimingInv
  <1>2. RequestsOK'
    BY <1>1, DoneKeeps DEF EndByTimer
  <1>3. session' = Ended \/ session' = session
    BY DEF EndByTimer
  <1>4. session' \in Row /\ PendingIsPastGrace' /\ Spans(session)' /\ DrawStep /\ MoveStep
    BY <1>1, <1>3, EndedIsOK, SessionKept DEF EndByTimer
  <1> QED
    BY <1>2, <1>4 DEF StepOK, TimingInv, TypeOK, RequestsOK, EndByTimer, Budgets

LEMMA FailIsOK ==
  ASSUME TimingInv, NEW p \in Processes, Fail(p)
  PROVE  StepOK
PROOF
  <1>1. RequestOK(p, Idle, clock) /\ clock \in Nat
    BY RequestForms, ClockIsNat DEF RequestOK, Idle, TimingInv
  <1>2. RequestsOK'
    BY <1>1, GotoKeeps DEF Fail
  <1>3. session' \in Row /\ PendingIsPastGrace' /\ Spans(session)' /\ DrawStep /\ MoveStep
    BY <1>1, SessionKept DEF Fail
  <1>4. failures' \in 0..MaxFailures
    BY TimingAssumption DEF Fail, TimingInv, TypeOK
  <1>5. unarmed' \in BOOLEAN
    BY DEF Fail, TimingInv, TypeOK
  <1>6. timers' \subseteq Timers
    <2>1. RequestOK(p, requests[p], clock) /\ requests[p] # Idle
      BY DEF TimingInv, RequestsOK, Fail
    <2> QED
      BY <2>1 DEF RequestOK, Fail, TimingInv, TypeOK
  <1> QED
    BY <1>2, <1>3, <1>4, <1>5, <1>6 DEF StepOK, TimingInv, TypeOK, RequestsOK, Fail

LEMMA TickIsOK ==
  ASSUME TimingInv, Tick
  PROVE  StepOK
PROOF
  <1>1. clock \in Nat /\ clock' \in Nat /\ clock' >= clock /\ clock' \in 0..MaxTime
    BY ClockIsNat, TimingAssumption DEF Tick, TimingInv, TypeOK
  <1>2. RequestsOK'
    BY <1>1, RequestsKept DEF Tick
  <1>3. session' \in Row /\ PendingIsPastGrace' /\ Spans(session)' /\ DrawStep /\ MoveStep
    BY <1>1, SessionKept DEF Tick
  <1> QED
    BY <1>1, <1>2, <1>3 DEF StepOK, TimingInv, TypeOK, RequestsOK, Tick, Budgets

LEMMA StutterIsOK ==
  ASSUME TimingInv, UNCHANGED vars
  PROVE  StepOK
PROOF
  <1>1. RequestsOK'
    BY RequestsKept, ClockIsNat DEF vars, TimingInv
  <1>2. session' \in Row /\ PendingIsPastGrace' /\ Spans(session)' /\ DrawStep /\ MoveStep
    BY SessionKept, ClockIsNat DEF vars, TimingInv
  <1> QED
    BY <1>1, <1>2 DEF StepOK, TimingInv, TypeOK, RequestsOK, vars

-----------------------------------------------------------------------------
(* Every step.                                                              *)

LEMMA TimingInit == Init => TimingInv
PROOF
  <1> SUFFICES ASSUME Init PROVE TimingInv
    OBVIOUS
  <1>1. session \in Row /\ session.status = "scheduled" /\ session.opens < session.closes
    BY TimingAssumption DEF Init
  <1>2. timers \subseteq Timers
    BY <1>1, TimersAreTyped DEF Init, UpcomingTimers, TimerKinds
  <1>3. RequestsOK
    BY RequestForms DEF Init, RequestsOK, RequestOK, Idle
  <1>4. TypeOK
    <2>1. 0 \in 0..MaxTime /\ 0 \in 0..MaxCommands /\ 0 \in 0..MaxFailures
      BY TimingAssumption
    <2>2. unarmed \in BOOLEAN
      BY DEF Init
    <2> QED
      BY <1>1, <1>2, <1>3, <2>1, <2>2 DEF Init, TypeOK, RequestsOK
  <1> QED
    BY <1>1, <1>3, <1>4, RowFields DEF TimingInv, PendingIsPastGrace, Spans

LEMMA TimingSteps == TimingInv /\ [Next]_vars => StepOK
PROOF
  <1> SUFFICES ASSUME TimingInv, [Next]_vars PROVE StepOK
    OBVIOUS
  <1>1. ASSUME NEW c \in Clients, RunCommand(c) PROVE StepOK
    BY <1>1, OpenRegistrationIsOK, PostponeRegistrationIsOK, UpdateRegistrationIsOK,
       CloseRegistrationIsOK, ReopenRegistrationIsOK, PostponeLotteryIsOK, PauseLotteryIsOK,
       RunLotteryIsOK, EndByCommandIsOK, ArmIsOK DEF RunCommand
  <1>2. ASSUME NEW h \in Handlers, RunTimer(h) PROVE StepOK
    BY <1>2, ReadForTimerIsOK, DrawByTimerIsOK, EndByTimerIsOK, AcknowledgeIsOK DEF RunTimer
  <1>3. ASSUME NEW p \in Processes, Proceed(p) PROVE StepOK
    BY <1>1, <1>2, <1>3, EndOverdueIsOK, AdvanceIsOK, ArmDrawIsOK DEF Proceed
  <1>4. ASSUME NEW h \in Handlers, Deliver(h) PROVE StepOK
    BY <1>4, IgnoreTimerIsOK, HopTimerIsOK, BeginTimerIsOK DEF Deliver
  <1> QED
    BY <1>3, <1>4, TickIsOK, LookIsOK, CommandIsOK, ArmDrawIsOK, FailIsOK, StutterIsOK DEF Next

LEMMA TimingInductive == Spec => []TimingInv
PROOF
  BY TimingInit, TimingSteps, PTL DEF Spec, StepOK

\* Every variable keeps its type.
THEOREM TimingTypeCorrect == Spec => []TypeOK
PROOF
  BY TimingInductive, PTL DEF TimingInv

\* The pool freezes only when its grace deadline has passed, however stale the row that a
\* request froze it from, and stays so while the draw is postponed or paused.
THEOREM FrozenPoolsArePastGrace == Spec => []PendingIsPastGrace
PROOF
  BY TimingInductive, PTL DEF TimingInv

\* A draw that no worker asks for is due by the row it is written over, whatever timers were
\* sent before it was postponed or paused, and however often they are delivered.
THEOREM AutomaticDrawsAreDue == Spec => AutomaticDrawIsDue
PROOF
  <1>1. TimingInv /\ [Next]_vars => [DrawStep]_vars
    BY TimingSteps DEF StepOK
  <1> QED
    BY <1>1, TimingInductive, PTL DEF Spec, AutomaticDrawIsDue, DrawStep

\* Whatever times say, the status moves only as MarketDay, which has none, lets it: what is
\* proved there of statuses holds here.
THEOREM StatusMovesAsInMarketDay == Spec => MovesAsInMarketDay
PROOF
  <1>1. TimingInv /\ [Next]_vars => [MoveStep]_vars
    BY TimingSteps DEF StepOK
  <1> QED
    BY <1>1, TimingInductive, PTL DEF Spec, MovesAsInMarketDay, MoveStep

-----------------------------------------------------------------------------
(* A pending draw is armed.                                                 *)

\* What there may be for a draw at t: a timer, a delivery of it that has read nothing the
\* draw would refuse, or a request about to send one.
Waiting(t) == \E timer \in timers : timer.kind = "lottery_draw" /\ timer.expectedAt = t

WillDraw(h, t) ==
  /\ requests[h].step \in {"due", "current", "advance", "run"}
  /\ requests[h].task.kind = "lottery_draw" /\ requests[h].task.expectedAt = t
  /\ requests[h].step # "due" => requests[h].row.status = "lottery_pending"

Sending(p, t) ==
  /\ \/ requests[p].step = "arm_draw"
     \/ requests[p].step = "arm" /\ "lottery_draw" \in requests[p].kinds
  /\ LotteryDrawsAt(requests[p].row) = t

Armed(t) ==
  \/ Waiting(t)
  \/ \E h \in Handlers : WillDraw(h, t)
  \/ \E p \in Processes : Sending(p, t)

\* The inductive form of PendingDrawIsArmed: a handler that is to draw has read the row as
\* pending, or has not read it yet.
DrawIsArmed ==
  session.status = "lottery_pending" /\ session.delay # Null =>
    unarmed \/ Armed(LotteryDrawsAt(session))

\* A step that leaves a pending draw's time alone owes three things: that a timer waiting, a
\* delivery and a request of p that were for it are followed by another, or by a failure.
Kept(p, t) ==
  /\ Waiting(t) => unarmed' \/ Armed(t)'
  /\ p \in Handlers /\ WillDraw(p, t) => unarmed' \/ Armed(t)'
  /\ Sending(p, t) => unarmed' \/ Armed(t)'

LEMMA StaysArmed ==
  ASSUME TimingInv, DrawIsArmed, NEW p \in Processes,
         \A q \in Processes \ {p} : requests'[q] = requests[q],
         unarmed => unarmed',
         session'.status = "lottery_pending" => session' = session,
         \A t \in Nat :
           session' = session /\ session.status = "lottery_pending" /\ LotteryDrawsAt(session) = t
             => Kept(p, t)
  PROVE  DrawIsArmed'
PROOF
  <1> SUFFICES ASSUME session'.status = "lottery_pending", session'.delay # Null
               PROVE  unarmed' \/ Armed(LotteryDrawsAt(session))'
    BY DEF DrawIsArmed
  <1>1. session' = session /\ session \in Row
    BY DEF TimingInv, TypeOK
  <1>2. LotteryDrawsAt(session) \in Nat
    BY <1>1, RowFields, TimesOfRow DEF LotteryDrawsAt, Null
  <1>3. PICK t \in Nat : t = LotteryDrawsAt(session)
    BY <1>2
  <1>4. LotteryDrawsAt(session') = t
    BY <1>1, <1>3
  <1>5. unarmed \/ Armed(t)
    BY <1>1, <1>3 DEF DrawIsArmed
  <1>6. Kept(p, t)
    BY <1>1, <1>3
  <1>7. ASSUME NEW h \in Handlers, h # p, WillDraw(h, t) PROVE Armed(t)'
    <2>1. requests'[h] = requests[h]
      BY <1>7 DEF Processes
    <2>2. WillDraw(h, t)'
      BY <2>1, <1>7 DEF WillDraw
    <2> QED
      BY <2>2 DEF Armed
  <1>8. ASSUME NEW q \in Processes, q # p, Sending(q, t) PROVE Armed(t)'
    <2>1. requests'[q] = requests[q]
      BY <1>8
    <2>2. Sending(q, t)'
      BY <2>1, <1>8 DEF Sending
    <2> QED
      BY <2>2 DEF Armed
  <1>9. unarmed' \/ Armed(t)'
    BY <1>5, <1>6, <1>7, <1>8 DEF Armed, Kept
  <1> QED
    BY <1>4, <1>9 DEF Armed, Waiting, WillDraw, Sending

\* A step that writes the request of p.
LEMMA GotoGives ==
  ASSUME TimingInv, NEW p \in Processes, NEW request, Goto(p, request)
  PROVE  requests'[p] = request /\ \A q \in Processes \ {p} : requests'[q] = requests[q]
PROOF
  BY DEF TimingInv, TypeOK, Goto

LEMMA DoneGives ==
  ASSUME TimingInv, NEW p \in Processes, Done(p)
  PROVE  \A q \in Processes \ {p} : requests'[q] = requests[q]
PROOF
  BY GotoGives DEF Done

LEMMA ResumeGives ==
  ASSUME TimingInv, NEW p \in Processes, NEW row, Resume(p, row)
  PROVE  /\ \A q \in Processes \ {p} : requests'[q] = requests[q]
         /\ requests[p].task.kind = "lottery_draw" =>
              requests'[p] = [step |-> "run", task |-> requests[p].task, row |-> row]
PROOF
  BY GotoGives, DoneGives DEF Resume

\* Timers sent for a row wait to draw when the row says.
LEMMA SentDraw ==
  ASSUME NEW row, NEW kinds, "lottery_draw" \in kinds, NEW t \in Nat, LotteryDrawsAt(row) = t,
         timers' = timers \cup TimersFor(row, kinds, clock)
  PROVE  Waiting(t)'
PROOF
  <1> DEFINE timer == Timer("lottery_draw", TimerAt(row, "lottery_draw"), clock)
  <1>1. TimerAt(row, "lottery_draw") = t /\ t # Null
    BY DEF TimerAt, Null
  <1>2. timer \in timers'
    BY <1>1 DEF TimersFor
  <1>3. timer.kind = "lottery_draw" /\ timer.expectedAt = t
    BY <1>1 DEF Timer
  <1> QED
    BY <1>2, <1>3 DEF Waiting

\* Reading: nobody's request was for a draw, and no timer is touched.
LEMMA BeginsArmed ==
  ASSUME TimingInv, DrawIsArmed, NEW p \in Processes, requests[p] = Idle,
         NEW request, Goto(p, request), UNCHANGED <<session, timers, unarmed>>
  PROVE  DrawIsArmed'
PROOF
  <1>1. \A t : Kept(p, t)
    BY DEF Kept, WillDraw, Sending, Waiting, Armed, Idle
  <1> QED
    BY <1>1, GotoGives, StaysArmed

\* The timer of a pending draw is not ignored; it is sent on, or delivered.
LEMMA DeliverArmed ==
  ASSUME TimingInv, DrawIsArmed, NEW h \in Handlers, Deliver(h)
  PROVE  DrawIsArmed'
PROOF
  <1>1. PICK timer \in timers :
          IgnoreTimer(h, timer) \/ HopTimer(h, timer) \/ BeginTimer(h, timer)
    BY DEF Deliver
  <1>2. /\ h \in Processes /\ requests[h] = Idle /\ session' = session /\ unarmed' = unarmed
    BY <1>1 DEF Processes, IgnoreTimer, HopTimer, BeginTimer, Budgets
  <1>3. \A q \in Processes \ {h} : requests'[q] = requests[q]
    BY <1>1, <1>2, GotoGives DEF IgnoreTimer, HopTimer, BeginTimer
  <1>4. ASSUME NEW t \in Nat, session.status = "lottery_pending", LotteryDrawsAt(session) = t,
               Waiting(t)
        PROVE  Armed(t)'
    <2>1. PICK waiting \in timers : waiting.kind = "lottery_draw" /\ waiting.expectedAt = t
      BY <1>4 DEF Waiting
    <2>2. CASE waiting \in timers'
      BY <2>1, <2>2 DEF Armed, Waiting
    <2>3. CASE waiting \notin timers'
      <3>1. waiting = timer
        BY <1>1, <2>3 DEF IgnoreTimer, HopTimer, BeginTimer
      <3>2. ~Ignored(timer)
        BY <1>4, <2>1, <3>1 DEF Ignored, TimerAt
      <3>3. CASE HopTimer(h, timer)
        <4> DEFINE next == Timer(timer.kind, timer.expectedAt, clock)
        <4>1. next \in timers' /\ next.kind = "lottery_draw" /\ next.expectedAt = t
          BY <2>1, <3>1, <3>3 DEF HopTimer, Timer
        <4> QED
          BY <4>1 DEF Armed, Waiting
      <3>4. CASE BeginTimer(h, timer)
        <4>1. Goto(h, [step |-> "due", task |-> timer])
          BY <2>1, <3>1, <3>4 DEF BeginTimer
        <4>2. requests'[h] = [step |-> "due", task |-> timer]
          BY <1>2, <4>1, GotoGives
        <4>3. WillDraw(h, t)'
          BY <2>1, <3>1, <4>2 DEF WillDraw
        <4> QED
          BY <4>3 DEF Armed
      <3> QED
        BY <1>1, <3>2, <3>3, <3>4 DEF IgnoreTimer
    <2> QED
      BY <2>2, <2>3
  <1>5. \A t : ~WillDraw(h, t) /\ ~Sending(h, t)
    BY <1>2 DEF WillDraw, Sending, Idle
  <1> QED
    BY <1>2, <1>3, <1>4, <1>5, StaysArmed DEF Kept

\* Every step of getCurrentEvent keeps the draw armed: what freezes the pool arms it next,
\* and a delivery that reads the pool frozen goes on to draw.
LEMMA EndOverdueArmed ==
  ASSUME TimingInv, DrawIsArmed, NEW p \in Processes, EndOverdue(p)
  PROVE  DrawIsArmed'
PROOF
  <1>1. /\ requests[p].step = "current" /\ timers' = timers /\ unarmed' = unarmed
        /\ session \in Row
    BY DEF EndOverdue, Budgets, TimingInv, TypeOK
  <1>2. \A q \in Processes \ {p} : requests'[q] = requests[q]
    BY DoneGives, GotoGives DEF EndOverdue
  <1>3. session' = session \/ (session' = Ended /\ Unmoved(p))
    BY DEF EndOverdue
  <1>4. session' = Ended => session'.status = "ended"
    BY <1>1 DEF Ended, Row
  <1>5. ASSUME NEW t, session' = session, session.status = "lottery_pending"
        PROVE  Kept(p, t)
    <2>1. ~Unmoved(p)
      BY <1>4, <1>5 DEF EndOverdue
    <2>2. ~WillDraw(p, t) /\ ~Sending(p, t)
      BY <1>1, <1>5, <2>1 DEF WillDraw, Sending, Unmoved
    <2> QED
      BY <1>1, <2>2 DEF Kept, Armed, Waiting
  <1> QED
    BY <1>1, <1>2, <1>3, <1>4, <1>5, StaysArmed

LEMMA AdvanceArmed ==
  ASSUME TimingInv, DrawIsArmed, NEW p \in Processes, Advance(p)
  PROVE  DrawIsArmed'
PROOF
  <1> DEFINE row    == requests[p].row
             target == StatusAt(row, requests[p].now)
  <1>1. /\ requests[p].step \in {"current", "advance"} /\ timers' = timers /\ unarmed' = unarmed
        /\ session \in Row
    BY DEF Advance, Budgets, TimingInv, TypeOK
  <1>2. row.status = "lottery_pending" => target = row.status
    BY DEF StatusAt
  <1> HIDE DEF target
  <1>3. CASE target # row.status /\ session' = Advanced(row, target) /\ Unmoved(p)
    <2>1. session'.status = target
      BY <1>1, <1>3 DEF Advanced, Row
    <2>2. CASE target = "lottery_pending"
      <3>1. \/ Goto(p, [step |-> "arm_draw", task |-> requests[p].task, row |-> session'])
            \/ target = row.status
            \/ session' = session
        BY <2>2 DEF Advance, target
      <3>2. session' # session
        BY <1>3, <2>1 DEF Unmoved
      <3>3. requests'[p] = [step |-> "arm_draw", task |-> requests[p].task, row |-> session']
        BY <1>3, <3>1, <3>2, GotoGives
      <3>4. Sending(p, LotteryDrawsAt(session))'
        BY <3>3 DEF Sending
      <3> QED
        BY <3>4 DEF DrawIsArmed, Armed
    <2>3. CASE target # "lottery_pending"
      BY <2>1, <2>3 DEF DrawIsArmed
    <2> QED
      BY <2>2, <2>3
  <1>4. CASE \/ target = row.status /\ Resume(p, row) /\ session' = session
             \/ /\ target # row.status /\ session' = session
                /\ Resume(p, IF session.status = "ended" THEN row ELSE session)
    <2>1. \A q \in Processes \ {p} : requests'[q] = requests[q]
      BY <1>4, ResumeGives
    <2>2. ASSUME NEW t, WillDraw(p, t), p \in Handlers PROVE Armed(t)'
      <3>1. row.status = "lottery_pending" /\ requests[p].task.kind = "lottery_draw"
        BY <1>1, <2>2 DEF WillDraw
      <3>2. requests'[p] = [step |-> "run", task |-> requests[p].task, row |-> row]
        BY <1>2, <1>4, <3>1, ResumeGives
      <3>3. WillDraw(p, t)'
        BY <2>2, <3>1, <3>2 DEF WillDraw
      <3> QED
        BY <2>2, <3>3 DEF Armed
    <2>3. \A t : ~Sending(p, t) /\ (Waiting(t) => Armed(t)')
      BY <1>1 DEF Sending, Waiting, Armed
    <2>4. \A t \in Nat : Kept(p, t)
      BY <2>2, <2>3 DEF Kept
    <2> QED
      BY <1>1, <1>4, <2>1, <2>4, StaysArmed
  <1> QED
    BY <1>3, <1>4 DEF Advance, target

LEMMA ArmDrawArmed ==
  ASSUME TimingInv, DrawIsArmed, NEW p \in Processes, ArmDraw(p) \/ ArmDrawFails(p)
  PROVE  DrawIsArmed'
PROOF
  <1>1. CASE ArmDrawFails(p)
    BY <1>1 DEF ArmDrawFails, DrawIsArmed
  <1>2. CASE ArmDraw(p)
    <2>1. /\ requests[p].step = "arm_draw" /\ session' = session /\ unarmed' = unarmed
          /\ timers' = timers \cup TimersFor(requests[p].row, {"lottery_draw"}, clock)
      BY <1>2 DEF ArmDraw, Budgets
    <2>2. \A q \in Processes \ {p} : requests'[q] = requests[q]
      BY <1>2, ResumeGives DEF ArmDraw
    <2>3. \A t \in Nat : Sending(p, t) => Armed(t)'
      BY <2>1, SentDraw DEF Sending, Armed
    <2>4. \A t : ~WillDraw(p, t) /\ (Waiting(t) => Armed(t)')
      BY <2>1 DEF WillDraw, Waiting, Armed
    <2>5. \A t \in Nat : Kept(p, t)
      BY <2>3, <2>4 DEF Kept
    <2> QED
      BY <2>1, <2>2, <2>5, StaysArmed
  <1> QED
    BY <1>1, <1>2

\* A command that writes a time of a pending draw arms it next; one that writes anything else
\* leaves no draw pending on its own.
LEMMA CommandArmed ==
  ASSUME TimingInv, DrawIsArmed, NEW c \in Clients, RunCommand(c)
  PROVE  DrawIsArmed'
PROOF
  <1>1. c \in Processes /\ c \notin Handlers /\ session \in Row
    BY TimingAssumption DEF Processes, TimingInv, TypeOK
  <1>2. ASSUME requests[c].step = "run", Refuse(c) PROVE DrawIsArmed'
    <2>1. session' = session /\ timers' = timers /\ unarmed' = unarmed
      BY <1>2 DEF Refuse, Budgets
    <2>2. \A q \in Processes \ {c} : requests'[q] = requests[q]
      BY <1>1, <1>2, DoneGives DEF Refuse
    <2>3. \A t : Kept(c, t)
      BY <1>1, <1>2, <2>1 DEF Kept, Sending, Waiting, Armed
    <2> QED
      BY <1>1, <2>1, <2>2, <2>3, StaysArmed
  <1>3. ASSUME NEW row, NEW kinds, Write(c, row, kinds),
               row.status # "lottery_pending" \/ row.delay = Null
        PROVE  DrawIsArmed'
    BY <1>3 DEF Write, DrawIsArmed
  <1>4. CASE OpenRegistration(c)
    <2> DEFINE row == [session EXCEPT !.status = "registration_open", !.grace = Null,
                                      !.opens = clock,
                                      !.closes = clock + (requests[c].row.closes - requests[c].row.opens)]
    <2>1. row.status = "registration_open"
      BY <1>1 DEF Row
    <2> QED
      BY <1>2, <1>3, <1>4, <2>1 DEF OpenRegistration, Running
  <1>5. CASE PostponeRegistration(c)
    <2> DEFINE row == [session EXCEPT !.opens = requests[c].row.opens + requests[c].task.minutes,
                                      !.closes = requests[c].row.closes + requests[c].task.minutes]
    <2>1. row.status = session.status
      BY <1>1 DEF Row
    <2> QED
      BY <1>2, <1>3, <1>5, <2>1 DEF PostponeRegistration, Running
  <1>6. CASE UpdateRegistration(c)
    <2> DEFINE row == [session EXCEPT !.closes = requests[c].task.closes]
    <2>1. row.status = session.status
      BY <1>1 DEF Row
    <2> QED
      BY <1>2, <1>3, <1>6, <2>1 DEF UpdateRegistration, Running
  <1>7. CASE CloseRegistration(c)
    <2> DEFINE row == [session EXCEPT !.status = "registration_closed", !.grace = clock + Grace]
    <2>1. row.status = "registration_closed"
      BY <1>1 DEF Row
    <2> QED
      BY <1>2, <1>3, <1>7, <2>1 DEF CloseRegistration, Running
  <1>8. CASE ReopenRegistration(c)
    <2> DEFINE minimum == clock + MinimumOpen
               row == [session EXCEPT !.status = "registration_open", !.grace = Null,
                                      !.closes = IF requests[c].row.closes > minimum
                                                 THEN requests[c].row.closes ELSE minimum]
    <2>1. row.status = "registration_open"
      BY <1>1 DEF Row
    <2> QED
      BY <1>2, <1>3, <1>8, <2>1 DEF ReopenRegistration, Running
  <1>9. CASE PostponeLottery(c)
    <2> DEFINE row == [session EXCEPT !.delay = requests[c].row.delay + requests[c].task.minutes]
    <2>1. CASE Write(c, row, {"lottery_draw"})
      <3>1. session' = row /\ requests'[c] = [step |-> "arm", row |-> row, kinds |-> {"lottery_draw"}]
        BY <1>1, <2>1, GotoGives DEF Write
      <3> HIDE DEF row
      <3>2. Sending(c, LotteryDrawsAt(session))'
        BY <3>1 DEF Sending
      <3> QED
        BY <1>1, <3>2 DEF DrawIsArmed, Armed
    <2> QED
      BY <1>2, <1>9, <2>1 DEF PostponeLottery, Running
  <1>10. CASE PauseLottery(c)
    <2> DEFINE row == [session EXCEPT !.delay = Null]
    <2>1. row.delay = Null
      BY <1>1 DEF Row
    <2> QED
      BY <1>2, <1>3, <1>10, <2>1 DEF PauseLottery, Running
  <1>11. CASE RunLottery(c)
    <2> DEFINE row == [session EXCEPT !.status = "service_started"]
    <2>1. row.status = "service_started"
      BY <1>1 DEF Row
    <2> QED
      BY <1>2, <1>3, <1>11, <2>1 DEF RunLottery, Running
  <1>12. CASE EndByCommand(c)
    <2>1. /\ requests[c].step = "run" /\ Done(c) /\ timers' = timers /\ unarmed' = unarmed
          /\ session' = Ended \/ session' = session
      BY <1>12 DEF EndByCommand, Running, Budgets
    <2>2. CASE session' = session
      BY <1>2, <2>1, <2>2, <1>12 DEF Refuse, EndByCommand
    <2>3. CASE session' = Ended
      <3>1. session'.status = "ended"
        BY <1>1, <2>3 DEF Ended, Row
      <3> QED
        BY <3>1 DEF DrawIsArmed
    <2> QED
      BY <2>1, <2>2, <2>3
  <1>13. CASE Arm(c)
    <2>1. /\ requests[c].step = "arm" /\ session' = session /\ unarmed' = unarmed
          /\ timers' = timers \cup TimersFor(requests[c].row, requests[c].kinds, clock)
      BY <1>13 DEF Arm, Budgets
    <2>2. \A q \in Processes \ {c} : requests'[q] = requests[q]
      BY <1>1, <1>13, GotoGives DEF Arm
    <2>3. \A t \in Nat : Sending(c, t) => Armed(t)'
      BY <2>1, SentDraw DEF Sending, Armed
    <2>4. \A t \in Nat : Kept(c, t)
      BY <1>1, <2>1, <2>3 DEF Kept, Waiting, Armed
    <2> QED
      BY <1>1, <2>1, <2>2, <2>4, StaysArmed
  <1> QED
    BY <1>4, <1>5, <1>6, <1>7, <1>8, <1>9, <1>10, <1>11, <1>12, <1>13 DEF RunCommand

\* A delivery that is to draw reads the pending row, and draws if nothing has moved.
LEMMA TimerArmed ==
  ASSUME TimingInv, DrawIsArmed, NEW h \in Handlers, RunTimer(h)
  PROVE  DrawIsArmed'
PROOF
  <1>1. h \in Processes /\ session \in Row
    BY DEF Processes, TimingInv, TypeOK
  <1>2. timers' = timers /\ unarmed' = unarmed
    BY DEF RunTimer, ReadForTimer, DrawByTimer, EndByTimer, Acknowledge, Budgets
  <1>3. \A q \in Processes \ {h} : requests'[q] = requests[q]
    BY <1>1, DoneGives, GotoGives DEF RunTimer, ReadForTimer, ReadCurrent, DrawByTimer,
                                      EndByTimer, Acknowledge
  <1>4. session'.status = "lottery_pending" => session' = session
    <2>1. \/ session' = session
          \/ session' = Ended
          \/ session' = [session EXCEPT !.status = "service_started"]
      BY DEF RunTimer, ReadForTimer, DrawByTimer, EndByTimer, Acknowledge
    <2> QED
      BY <1>1, <2>1 DEF Ended, Row
  <1>5. requests[h].step \in {"due", "run", "end", "ack"}
    BY DEF RunTimer, ReadForTimer, DrawByTimer, EndByTimer, Acknowledge, Running
  <1>6. \A t : ~Sending(h, t) /\ (Waiting(t) => Armed(t)')
    BY <1>2, <1>5 DEF Sending, Waiting, Armed
  <1>7. ASSUME NEW t \in Nat, session' = session, session.status = "lottery_pending",
               LotteryDrawsAt(session) = t, WillDraw(h, t)
        PROVE  Armed(t)'
    <2>1. CASE requests[h].step = "due"
      <3>1. ReadForTimer(h)
        BY <2>1 DEF RunTimer, ReadForTimer, DrawByTimer, EndByTimer, Acknowledge, Running
      <3>2. requests'[h] = [step |-> "current", task |-> requests[h].task, row |-> session,
                            now |-> clock]
        BY <1>1, <1>7, <3>1, GotoGives DEF ReadForTimer, ReadCurrent
      <3>3. WillDraw(h, t)'
        BY <1>7, <3>2 DEF WillDraw
      <3> QED
        BY <3>3 DEF Armed
    <2>2. CASE requests[h].step = "run"
      <3>1. DrawByTimer(h)
        BY <2>2 DEF RunTimer, ReadForTimer, DrawByTimer, EndByTimer, Acknowledge
      <3>2. requests[h].row.status = "lottery_pending" /\ DrawStillDue(h)
        BY <1>7, <2>2 DEF WillDraw, DrawStillDue
      <3>3. session' = [session EXCEPT !.status = "service_started"]
        BY <3>1, <3>2 DEF DrawByTimer
      <3> QED
        BY <1>1, <1>7, <3>3 DEF Row
    <2> QED
      BY <1>5, <1>7, <2>1, <2>2 DEF WillDraw
  <1>8. \A t \in Nat :
          session' = session /\ session.status = "lottery_pending" /\ LotteryDrawsAt(session) = t
            => Kept(h, t)
    BY <1>6, <1>7 DEF Kept
  <1> QED
    BY <1>1, <1>2, <1>3, <1>4, <1>8, StaysArmed

LEMMA FailArmed ==
  ASSUME TimingInv, DrawIsArmed, NEW p \in Processes, Fail(p)
  PROVE  DrawIsArmed'
PROOF
  <1>1. /\ session' = session
        /\ unarmed => unarmed'
        /\ requests[p].step \in {"arm", "arm_draw"} => unarmed'
        /\ timers' = IF p \in Handlers THEN timers \cup {requests[p].task} ELSE timers
        /\ \A q \in Processes \ {p} : requests'[q] = requests[q]
    BY GotoGives DEF Fail
  <1>2. \A t : Kept(p, t)
    BY <1>1 DEF Kept, Waiting, WillDraw, Sending, Armed
  <1> QED
    BY <1>1, <1>2, StaysArmed

LEMMA StaysArmedAtRest ==
  ASSUME DrawIsArmed, UNCHANGED <<session, timers, requests, unarmed>>
  PROVE  DrawIsArmed'
PROOF
  BY DEF DrawIsArmed, Armed, Waiting, WillDraw, Sending

LEMMA ArmedInductive == Spec => [](TimingInv /\ DrawIsArmed)
PROOF
  <1>1. Init => DrawIsArmed
    BY TimingAssumption DEF Init, DrawIsArmed
  <1>2. TimingInv /\ DrawIsArmed /\ [Next]_vars => DrawIsArmed'
    <2> SUFFICES ASSUME TimingInv, DrawIsArmed, [Next]_vars PROVE DrawIsArmed'
      OBVIOUS
    <2>1. CASE Tick
      BY <2>1, StaysArmedAtRest DEF Tick, Budgets
    <2>2. ASSUME NEW c \in Clients, Look(c) \/ \E command \in Commands : Command(c, command)
          PROVE  DrawIsArmed'
      BY <2>2, BeginsArmed DEF Look, Command, ReadCurrent, Budgets, Processes
    <2>3. ASSUME NEW p \in Processes, Proceed(p) PROVE DrawIsArmed'
      BY <2>3, EndOverdueArmed, AdvanceArmed, ArmDrawArmed, CommandArmed, TimerArmed DEF Proceed
    <2>4. CASE UNCHANGED vars
      BY <2>4, StaysArmedAtRest DEF vars
    <2> QED
      BY <2>1, <2>2, <2>3, <2>4, DeliverArmed, ArmDrawArmed, FailArmed DEF Next
  <1> QED
    BY <1>1, <1>2, TimingInductive, PTL DEF Spec

\* A draw still to come on its own has its timer waiting, in the hands of a delivery or about
\* to be sent, whatever people and timers do at once; only a failed send leaves it without.
THEOREM PendingDrawsAreArmed == Spec => []PendingDrawIsArmed
PROOF
  <1>1. DrawIsArmed => PendingDrawIsArmed
    <2>1. ASSUME NEW h \in Handlers, NEW t, WillDraw(h, t)
          PROVE  requests[h].step \notin {"idle", "ack"}
      BY <2>1 DEF WillDraw
    <2> QED
      BY <2>1 DEF DrawIsArmed, PendingDrawIsArmed, Armed, Waiting, WillDraw, Sending
  <1> QED
    BY <1>1, ArmedInductive, PTL
============================================================================
