---------------------------- MODULE MarketRules ----------------------------
(***************************************************************************)
(* The tables the server and the browser share: the states of a session   *)
(* and of a visit, the commands that move them, and the ways a worker may  *)
(* add a guest at each stage of the session.                               *)
(***************************************************************************)

(***************************************************************************)
(* Sessions (sessionStateMachine.ts).                                      *)
(***************************************************************************)
SessionStatuses ==
  {"scheduled", "registration_open", "registration_closed",
   "lottery_pending", "service_started", "ended"}

\* The statuses each command that changes the status may run from.
SessionCommandSources ==
  [open_registration   |-> {"scheduled"},
   close_registration  |-> {"registration_open"},
   reopen_registration |-> {"registration_closed"},
   run_lottery         |-> {"lottery_pending"},
   close_session       |-> {"service_started"},
   reset_session       |-> {"registration_open", "registration_closed",
                            "lottery_pending", "service_started"}]

SessionCommandTarget ==
  [open_registration   |-> "registration_open",
   close_registration  |-> "registration_closed",
   reopen_registration |-> "registration_open",
   run_lottery         |-> "service_started",
   close_session       |-> "ended",
   reset_session       |-> "ended"]

\* The statuses wall-clock time may have carried a row to (SessionTimeline.statusAt),
\* whatever the row's times are.
AutomaticTargets(status) ==
  CASE status = "scheduled" ->
         {"registration_open", "registration_closed", "lottery_pending"}
    [] status = "registration_open"   -> {"registration_closed", "lottery_pending"}
    [] status = "registration_closed" -> {"lottery_pending"}
    [] OTHER -> {}

\* Where opening, closing or reopening registration by hand leads.
ManualTargets(status) ==
  {SessionCommandTarget[c] :
     c \in {d \in {"open_registration", "close_registration", "reopen_registration"} :
              status \in SessionCommandSources[d]}}

\* acceptsSelfRegistration: the row and the clock together say open or closed. A row
\* past its window is refused, so these statuses accept only while the times allow it.
MayAcceptSelfRegistration ==
  {"scheduled", "registration_open", "registration_closed"}

(***************************************************************************)
(* Visits (visitStateMachine.ts).                                          *)
(***************************************************************************)
VisitStatuses ==
  {"registered", "waiting", "called", "served", "not_placed", "no_show", "cancelled"}

VisitCommandSources ==
  [select          |-> {"registered"},
   skip            |-> {"registered"},
   call            |-> {"waiting"},
   serve           |-> {"called"},
   mark_no_show    |-> {"waiting", "called"},
   return_to_queue |-> {"called", "no_show"},
   cancel          |-> {"registered", "waiting"}]

VisitCommandTarget ==
  [select          |-> "waiting",
   skip            |-> "not_placed",
   call            |-> "called",
   serve           |-> "served",
   mark_no_show    |-> "no_show",
   return_to_queue |-> "waiting",
   cancel          |-> "cancelled"]

VisitCommands ==
  {"select", "skip", "call", "serve", "mark_no_show", "return_to_queue", "cancel"}

\* visitCommandEvents: the commands that leave an entry in the visit's history.
RecordedCommands == {"call", "serve", "mark_no_show", "return_to_queue"}

\* Visits that still need a worker, and those the end of a session resolves.
OutstandingVisitStatuses == {"waiting", "called"}

StillInLineStatuses == {"registered"} \cup OutstandingVisitStatuses

(***************************************************************************)
(* Adding a guest by hand (guestAdmission.ts).                             *)
(***************************************************************************)
AdmissionsFor ==
  [scheduled           |-> {"lottery", "queue"},
   registration_open   |-> {"lottery", "queue"},
   registration_closed |-> {"lottery", "queue"},
   lottery_pending     |-> {"queue"},
   service_started     |-> {"queue"},
   ended               |-> {"served"}]

AdmissionVisitStatus ==
  [lottery |-> "registered", queue |-> "waiting", served |-> "served"]
============================================================================
