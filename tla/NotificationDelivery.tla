------------------------ MODULE NotificationDelivery ------------------------
(***************************************************************************)
(* The outbox: rows of notification_deliveries of one channel, and the     *)
(* deliveries that claim them, send them and record what came of it.       *)
(*                                                                         *)
(* A delivery is either a batch of a durable dispatch, which the platform  *)
(* runs again when it dies, or part of a request (a call, a subscription), *)
(* which dies for good.  Claiming is one transaction; the sending happens  *)
(* outside any, and is recorded by the row's id alone.                     *)
(***************************************************************************)
EXTENDS Naturals, FiniteSets, FiniteSetsExt

CONSTANTS Announcements, \* the rows a draw or a close of registration queues
          Calls,      \* the rows calling a guest queues
          Deliverers, \* function instances: one delivery in flight each
          Dispatches, \* the dispatch events there may be
          BatchSize,  \* the limit of a dispatch's batch
          MaxRetries, \* how often the platform runs an event again
          MaxAttempts, \* how often a row is tried
          Lease,      \* how long a claim keeps others away
          MaxAsked,   \* the bound on how often rows are queued
          MaxFailures,\* the bound on the requests and batches that die, and on unrecorded sends
          MaxTime     \* the bound on the clock

ASSUME DeliveryAssumption ==
  /\ IsFiniteSet(Announcements) /\ IsFiniteSet(Calls) /\ IsFiniteSet(Deliverers)
  /\ Dispatches \cap {"request", "nobody"} = {}
  /\ BatchSize \in Nat \ {0} /\ MaxRetries \in Nat /\ MaxAttempts \in Nat \ {0}
  /\ Lease \in Nat /\ MaxAsked \in Nat /\ MaxFailures \in Nat /\ MaxTime \in Nat

VARIABLES
  clock,
  rows,       \* rows[r]: the row, with who has claimed it and when
  subscribed, \* the rows whose guest has a subscription
  deliveries, \* deliveries[p]: the delivery p has in flight
  events,     \* the dispatch events not yet finished
  runs,       \* runs[e]: how often the platform has run the event e
  overlapped, \* it ran one while another run of it was in flight
  failures,   \* how many requests and batches died, and sends could not be recorded
  lost,       \* the events, and "request", with a delivery that died and is not run again
  asked,      \* asked[r]: how often r was queued
  told,       \* told[r]: what asked[r] was when r was last sent
  copies      \* copies[r]: how often r was sent

platform == <<events, runs, overlapped, lost>>

vars == <<clock, rows, subscribed, deliveries, platform, failures, asked, told, copies>>

Rows == Announcements \cup Calls

Unclaimed == [by |-> "nobody", at |-> 0]

NoRow == [status |-> "none", attempts |-> 0, claim |-> Unclaimed]

Pending == [status |-> "pending", attempts |-> 0, claim |-> Unclaimed]

Idle == [step |-> "idle", by |-> "nobody"]

\* How often rows have been queued, all in all.
TimesQueued == MapThenSumSet(LAMBDA r : asked[r], Rows)

Goto(p, delivery) == deliveries' = [deliveries EXCEPT ![p] = delivery]

\* A delivery about to claim: a request's has a claim id nobody else ever has.
Request(scope) ==
  [step |-> "claim", by |-> "request", scope |-> scope, limit |-> Cardinality(scope)]

Batch(e) == [step |-> "claim", by |-> e, scope |-> Announcements, limit |-> BatchSize]

\* A run of the event e is in flight.
Running(e) == \E p \in Deliverers : deliveries[p].by = e

-----------------------------------------------------------------------------
(* Queueing.                                                                *)

\* queueNotification, by a draw or a close of registration, and the dispatch it asks for
\* when it has committed.  A request may die, or the event fail to be sent, in between.
\* The id of an event is never one of an event still at work, or given up.
Queue(scope, e) ==
  LET new == {r \in scope : rows[r].status = "none"}
  IN  /\ e \notin events \cup lost /\ ~Running(e)
      /\ new # {}
      /\ TimesQueued + Cardinality(new) <= MaxAsked
      /\ rows' = [r \in Rows |-> IF r \in new THEN Pending ELSE rows[r]]
      /\ asked' = [r \in Rows |-> IF r \in new THEN asked[r] + 1 ELSE asked[r]]
      /\ \/ /\ events' = events \cup {e}
            /\ runs' = [runs EXCEPT ![e] = 0]
            /\ UNCHANGED <<failures, lost>>
         \/ /\ failures < MaxFailures
            /\ failures' = failures + 1
            /\ lost' = lost \cup {"request"}
            /\ UNCHANGED <<events, runs>>
      /\ UNCHANGED <<clock, subscribed, deliveries, overlapped, told, copies>>

\* requeueNotification, and the request that goes on to deliver it.
Requeue(p, scope) ==
  /\ deliveries[p] = Idle
  /\ TimesQueued + Cardinality(scope) <= MaxAsked
  /\ rows' = [r \in Rows |-> IF r \in scope THEN Pending ELSE rows[r]]
  /\ asked' = [r \in Rows |-> IF r \in scope THEN asked[r] + 1 ELSE asked[r]]
  /\ Goto(p, Request(scope))
  /\ UNCHANGED <<clock, platform, failures, told, copies>>

\* A guest is called, or called again.
Call(p, scope) ==
  /\ scope # {}
  /\ Requeue(p, scope)
  /\ UNCHANGED subscribed

\* A phone subscribes, and is sent what it has missed.
Subscribe(p, r) ==
  /\ r \notin subscribed
  /\ subscribed' = subscribed \cup {r}
  /\ Requeue(p, {r})

Unsubscribe(r) ==
  /\ r \in subscribed
  /\ subscribed' = subscribed \ {r}
  /\ UNCHANGED <<clock, rows, deliveries, platform, failures, asked, told, copies>>

-----------------------------------------------------------------------------
(* Delivering.                                                              *)

\* The platform runs an event, for the first time or again, and may do so while another
\* run of it is still at work.
StartDispatch(p, e) ==
  /\ deliveries[p] = Idle
  /\ e \in events
  /\ runs[e] <= MaxRetries
  /\ runs' = [runs EXCEPT ![e] = @ + 1]
  /\ overlapped' = (overlapped \/ Running(e))
  /\ Goto(p, Batch(e))
  /\ UNCHANGED <<clock, rows, subscribed, events, lost, failures, asked, told, copies>>

Expired(r) == rows[r].claim.at + Lease < clock

\* Mutant: a claim is not looked at.
AnyPending(r, by) == rows[r].status = "pending"

\* Mutant: a dispatch does not know its own claims again.
OthersOnly(r, by) ==
  rows[r].status = "pending" /\ (rows[r].claim = Unclaimed \/ Expired(r))

Claimable(r, by) ==
  /\ rows[r].status = "pending"
  /\ \/ rows[r].claim = Unclaimed
     \/ by # "request" /\ rows[r].claim.by = by
     \/ Expired(r)

Lower(m, n) == IF m < n THEN m ELSE n

\* The batch is claimed, and what it needs to be sent is read with it.
Claim(p) ==
  LET delivery == deliveries[p]
      eligible == {r \in delivery.scope : Claimable(r, delivery.by)}
      size     == Lower(delivery.limit, Cardinality(eligible))
  IN  /\ delivery.step = "claim"
      /\ \E batch \in {b \in SUBSET eligible : Cardinality(b) = size} :
           /\ rows' = [r \in Rows |->
                         IF r \in batch
                         THEN [rows[r] EXCEPT !.claim = [by |-> delivery.by, at |-> clock]]
                         ELSE rows[r]]
           /\ Goto(p, [step |-> "send", by |-> delivery.by, scope |-> delivery.scope,
                       limit |-> delivery.limit, size |-> size, left |-> batch,
                       attempts |-> [r \in batch |-> rows[r].attempts],
                       reachable |-> batch \cap subscribed,
                       outcome |-> [r \in batch |-> "unsent"]])
      /\ UNCHANGED <<clock, subscribed, platform, failures, asked, told, copies>>

\* The next row of the batch whose guest has a subscription; the one before is recorded.
Outcomes == {"sent", "transient", "permanent"}

Sending(p, r) ==
  /\ deliveries[p].step = "send"
  /\ r \in deliveries[p].left
  /\ \A q \in deliveries[p].left \ {r} : deliveries[p].outcome[q] = "unsent"

Send(p, r, outcome) ==
  /\ Sending(p, r)
  /\ r \in deliveries[p].reachable
  /\ deliveries[p].outcome[r] = "unsent"
  /\ Goto(p, [deliveries[p] EXCEPT !.outcome[r] = outcome])
  /\ told' = IF outcome = "sent" THEN [told EXCEPT ![r] = asked[r]] ELSE told
  /\ copies' = IF outcome = "sent" THEN [copies EXCEPT ![r] = @ + 1] ELSE copies
  /\ UNCHANGED <<clock, rows, subscribed, platform, failures, asked>>

Recorded(r, status, attempts) ==
  rows' = [rows EXCEPT ![r] = [status |-> status, attempts |-> attempts, claim |-> Unclaimed]]

HandledBy(p, r) ==
  Goto(p, [deliveries[p] EXCEPT !.left = @ \ {r}, !.outcome[r] = "unsent", !.attempts[r] = 0])

\* A row whose guest had no subscription when it was claimed.
Skip(p, r) ==
  /\ Sending(p, r)
  /\ r \notin deliveries[p].reachable
  /\ Recorded(r, "skipped", rows[r].attempts)
  /\ HandledBy(p, r)
  /\ UNCHANGED <<clock, subscribed, platform, failures, asked, told, copies>>

StatusAfter(outcome, attempts) ==
  CASE outcome = "sent" -> "sent"
    [] outcome = "transient" /\ attempts < MaxAttempts -> "pending"
    [] OTHER -> "failed"

\* What came of it is written by the row's id; a subscription gone for good is deleted.
\* When the write after a send fails, or the send's answer was lost, the row is recorded
\* like one whose sending failed and may be tried again.
Record(p, r) ==
  LET outcome  == deliveries[p].outcome[r]
      attempts == deliveries[p].attempts[r] + 1
  IN  /\ Sending(p, r)
      /\ \/ /\ outcome # "unsent"
            /\ Recorded(r, StatusAfter(outcome, attempts), attempts)
            /\ UNCHANGED failures
         \/ /\ outcome = "sent"
            /\ failures < MaxFailures
            /\ failures' = failures + 1
            /\ Recorded(r, StatusAfter("transient", attempts), attempts)
      /\ subscribed' = IF outcome = "permanent" THEN subscribed \ {r} ELSE subscribed
      /\ HandledBy(p, r)
      /\ UNCHANGED <<clock, platform, asked, told, copies>>

HasMore(delivery) == delivery.size = delivery.limit

\* The batch is done: a request answers, a dispatch goes on while its batches are full.
Finish(p) ==
  LET delivery == deliveries[p]
  IN  /\ delivery.step = "send"
      /\ delivery.left = {}
      /\ IF delivery.by # "request" /\ HasMore(delivery)
         THEN Goto(p, Batch(delivery.by)) /\ UNCHANGED events
         ELSE Goto(p, Idle) /\ events' = events \ {delivery.by}
      /\ UNCHANGED <<clock, rows, subscribed, runs, overlapped, lost, failures, asked, told, copies>>

\* Whether another run of p's event is in flight.
Joined(p) == \E q \in Deliverers \ {p} : deliveries[q].by = deliveries[p].by

\* Whether the platform runs p's event again when p dies: a request's it never does.
RunAgain(p) ==
  LET e == deliveries[p].by
  IN  e \in events /\ runs[e] <= MaxRetries /\ ~Joined(p)

\* A batch that dies is run again from its start, until its retries are used up.
Die(p) ==
  /\ deliveries[p] # Idle
  /\ failures < MaxFailures
  /\ failures' = failures + 1
  /\ IF RunAgain(p) THEN UNCHANGED lost ELSE lost' = lost \cup {deliveries[p].by}
  /\ IF RunAgain(p) \/ Joined(p) THEN UNCHANGED events ELSE events' = events \ {deliveries[p].by}
  /\ Goto(p, Idle)
  /\ UNCHANGED <<clock, rows, subscribed, runs, overlapped, asked, told, copies>>

Tick ==
  /\ clock < MaxTime
  /\ clock' = clock + 1
  /\ UNCHANGED <<rows, subscribed, deliveries, platform, failures, asked, told, copies>>

-----------------------------------------------------------------------------
Init ==
  /\ clock = 0
  /\ rows = [r \in Rows |-> NoRow]
  /\ subscribed \in SUBSET Rows
  /\ deliveries = [p \in Deliverers |-> Idle]
  /\ events = {}
  /\ runs = [e \in Dispatches |-> 0]
  /\ overlapped = FALSE
  /\ failures = 0
  /\ lost = {}
  /\ asked = [r \in Rows |-> 0]
  /\ told = [r \in Rows |-> 0]
  /\ copies = [r \in Rows |-> 0]

\* What a delivery in flight does by itself.
Proceed(p) ==
  \/ Claim(p)
  \/ \E r \in Rows : Skip(p, r) \/ Record(p, r) \/ \E outcome \in Outcomes : Send(p, r, outcome)
  \/ Finish(p)

Next ==
  \/ Tick
  \/ \E scope \in SUBSET Announcements, e \in Dispatches : Queue(scope, e)
  \/ \E r \in Rows : Unsubscribe(r)
  \/ \E p \in Deliverers :
       \/ \E scope \in SUBSET Calls : Call(p, scope)
       \/ \E r \in Rows : Subscribe(p, r)
       \/ \E e \in Dispatches : StartDispatch(p, e)
       \/ Proceed(p)
       \/ Die(p)

Spec == Init /\ [][Next]_vars

\* Deliveries go on, and the platform runs every event it was sent, again if it died: an
\* event no run of which is in flight.
Fairness ==
  /\ \A p \in Deliverers : WF_vars(Proceed(p))
  /\ \A e \in Dispatches : SF_vars(~Running(e) /\ \E p \in Deliverers : StartDispatch(p, e))

FairSpec == Spec /\ Fairness

-----------------------------------------------------------------------------
(* Types.                                                                   *)

Statuses == {"pending", "sent", "failed", "skipped"}

Claims == {Unclaimed} \cup [by : Dispatches \cup {"request"}, at : 0..MaxTime]

DeliveryRows == {NoRow} \cup [status : Statuses, attempts : 0..MaxAttempts, claim : Claims]

\* A column of a batch, as a delivery keeps it for the rows of the batch.
Columns(values) == UNION {[batch -> values] : batch \in SUBSET Rows}

Sends ==
  {delivery \in [step : {"send"}, by : Dispatches \cup {"request"}, scope : SUBSET Rows,
                 limit : Nat, size : Nat, left : SUBSET Rows,
                 attempts : Columns(0..(MaxAttempts - 1)), reachable : SUBSET Rows,
                 outcome : Columns(Outcomes \cup {"unsent"})] :
     /\ DOMAIN delivery.outcome = DOMAIN delivery.attempts
     /\ delivery.left \cup delivery.reachable \subseteq DOMAIN delivery.attempts}

Deliveries ==
  {Idle} \cup Sends
    \cup [step : {"claim"}, by : Dispatches \cup {"request"}, scope : SUBSET Rows, limit : Nat]

TypeOK ==
  /\ clock \in 0..MaxTime
  /\ rows \in [Rows -> DeliveryRows]
  /\ subscribed \subseteq Rows
  /\ deliveries \in [Deliverers -> Deliveries]
  /\ events \subseteq Dispatches /\ lost \subseteq Dispatches \cup {"request"}
  /\ runs \in [Dispatches -> 0..(MaxRetries + 1)] /\ overlapped \in BOOLEAN
  /\ failures \in 0..MaxFailures
  /\ asked \in [Rows -> Nat] /\ told \in [Rows -> Nat] /\ copies \in [Rows -> Nat]

-----------------------------------------------------------------------------
(* What holds.                                                              *)

Holds(p, r) == deliveries[p].step = "send" /\ r \in deliveries[p].left

\* A delivery died for good that was to deliver the row: a request, which may be for any
\* row and may have failed to send its event, or a dispatch, which is for announcements.
MayBeLost(r) == "request" \in lost \/ (r \in Announcements /\ lost # {})

\* A row nobody has tried to send is in somebody's hands: an event still to finish, or a
\* delivery in flight.  Only a delivery that died for good leaves one behind: a request, or
\* a dispatch out of retries or finished by another run of it.
NobodyIsForgotten ==
  \A r \in Rows : rows[r].status = "pending" /\ rows[r].attempts = 0 =>
    \/ r \in Announcements /\ events # {}
    \/ \E p \in Deliverers :
         (deliveries[p].step = "claim" /\ r \in deliveries[p].scope) \/ Holds(p, r)
    \/ MayBeLost(r)

\* Within the lease a guest is sent at most one copy for each time the notification was
\* queued, and one more for each delivery that died or could not record what it had sent:
\* claims keep deliveries apart.  Two runs of one event share its claims: once the platform
\* has let two overlap nothing is promised of announcements.
NoMoreCopiesThanAsked ==
  clock <= Lease =>
    \A r \in Rows :
      (overlapped /\ r \in Announcements) \/ copies[r] <= asked[r] + failures

\* Every dispatch ends, though it dies and is run again, or twice at once, and leaves
\* nothing claimed unless a run of it was given up: it knows its own claims, and a row that
\* keeps failing does not keep its batches full.
DispatchSettles ==
  \A e \in Dispatches :
    e \in events ~>
      e \notin events /\ (e \in lost \/ \A r \in Rows : rows[r].claim.by # e)

-----------------------------------------------------------------------------
(* What the documents say.                                                  *)

\* Calling a guest again notifies them again ("replacing any earlier one so a re-call
\* notifies again"): a row is not sent until its last queueing has been.
RecallNotifiesAgain ==
  \A r \in Rows : rows[r].status = "sent" => told[r] = asked[r]
============================================================================
