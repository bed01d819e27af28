# The food market app in TLA+

This is the formal model of the food market app: a guest registers on a phone for a market session, a
lottery gives some of them a numbered place in line, workers add, call, serve and return guests, and
the session ends; around it are the clock and its timers, the notifications, the overview guests
poll, the records and the codes that move them between phones, the schedule that makes the next
session, the print station, the staff's accounts and the count of households. Most of it lives in
one PostgreSQL database that several stateless functions read and write at once, at READ COMMITTED;
most of what can go wrong is one request writing what another has made untrue since it was read.

The model is translated from the code (`netlify/`, `src/services`, `src/models`, `src/stores`), not
from its documents. Where a document or a comment promises something the code does not keep, the
promise is stated as a property of the module, under "What the documents say", and TLC refutes it.

## The system

| Part | State | Operations | Hard behaviour |
| --- | --- | --- | --- |
| Session (`sessionStateMachine.ts`, `sessionCommands.mts`, `marketSession.mts`, `sessionEnding.mts`) | the row of `market_events`: status, times, capacity | open, close, reopen registration; move times; draw; close, reset, auto-close | every command starts from a row read outside its transaction; anyone's read may carry the session to its next status |
| Registration (`guestRegistration.mts`, `routes/guests/visit.mts`) | the visit's row | register, register again, cancel; add by hand | the window is checked before the transaction and again under the session's lock; the existing visit is read before it and not again |
| Lottery (`lottery.mts`) | statuses, numbers and places of the pool | draw | freezes the pool by the session's lock, but the visits' rows are not locked |
| Line (`line-order.ts`, `queue-number.ts`, `placeInLine`) | four columns of a visit: main number, priority number, front flag, order | place at the end or at the front, draw | each placement takes "the highest so far, plus one" |
| Queue (`visitQueue.mts`, `routes/admin/queue.mts`) | the visit's status | select, skip, call, serve, no-show, return, cancel; call the next N; serve and call the next | the status is read first and compared in the UPDATE; call_next's subquery is not compared again |
| Visit history (`visit-events.mts`) | `visit_events` | append with the change | which changes write an entry |
| Session timing (`session-timeline.ts`, `sessionTimers.mts`, `market-session-timer.mts`, `marketSession.mts`) | opening, closing, grace, draw and auto-close times; durable timers | postpone, pause, extend, read, fire, hop, retry | stale timers, timers never sent, commands that compare statuses and not times |
| Notifications (`notifications.mts`, `pushNotifications.mts`, `notification-dispatch.mts`) | `notification_deliveries` | queue, requeue, claim, send, record, dispatch | a crash or a failed write between send and record, a re-call during a delivery, an event run twice at once |
| Market overview cache (`market-overview-cache.mts`) | one blob with an etag | lease, load, publish, expire | an expired lease and a slow holder, a snapshot older than a deadline |
| Guest records (`guest-claim.mts`, `guestCredentials.mts`, `guestRegistration.mts`, `guest-deletion.mts`) | device and visit tokens, codes | issue, redeem, register, subscribe, delete | a code redeemed after the record has moved on |
| Schedule (`schedule*.mts`, `sessionEnding.mts`, `recurrence-pattern.ts`) | recurrence pattern, next session | save, delete, add, end, create next | lock order, an unlocked read of the pattern, the calendar |
| Print station (`print-queue.mts`, `print-jobs.mts`, `print-station.store.ts`) | a blob per tag; the tags on the station's screen | queue, poll, print, remove | overlapping and failing requests, a crash |
| Worker directory (`worker-directory.mts`, `auth0-*.mts`) | accounts of an external directory; a queue per instance | add, change, remove | several calls each, no transaction |
| Household service (`household-service.mts`, `household-service.store.ts`) | one table; a pending save in memory and in session storage | record, correct | answers lost, late and out of order; reloads |
| SMS consent, odds, warehouse, reports, other screens | see "Not modelled" | | |

The parts meet in the database: the lock of the session's row orders placements, registrations,
the draw and the end of a session; the guarded `UPDATE ... WHERE status = ...` orders everything
else. The other meeting points: `getCurrentEvent` carries the session forward for anyone who reads
it, and arms timers and queues notifications as it does; the cache calls it as its load; the end of a
session inserts the next under the schedule's locks. What each part must keep true:

- **line**: no two guests in the same place; the main numbers of the guests who kept their place
  rise with it; a number stays with its guest;
- **registration and lottery**: nobody joins the pool once it is frozen, and nobody in it is
  forgotten; the capacity is kept;
- **queue**: a guest is served only from `called`, by one worker; two workers call different guests;
- **session**: its status moves forward; the line its end has resolved is not filled again;
- **timing**: a draw with a time happens, and not before it; an overdue session ends;
- **notifications**: nothing queued is dropped, nothing is sent more often than it was asked for,
  but for what a crash or a failed write hides from the next attempt;
- **overview**: what is served is as fresh as its lifetime and its session's deadlines;
- **records**: only a manager's code takes a record from a phone;
- **schedule**: there is always a next session, on the pattern's next date, and nobody waits for ever;
- **print station**: no tag is lost, and two stickers take a crash or an overlap;
- **directory**: an account that can be used has the access it was given;
- **households**: each counted once, corrected only by who has seen it.

## Modules

| Module | What it models |
| --- | --- |
| `MarketRules` | the tables of the state machines: statuses, commands, sources and targets, admissions |
| `LineOrder` | `LineOrder.place`, `draw` and `compare`, `QueueNumber.of`, over the four columns (0 for null) |
| `TicketLine` | abstract specification of a line: every placement reads and writes in one step |
| `MarketDay` | one session with its visits, their history and any number of requests in flight |
| `SessionTimeline` | `SessionTimeline`'s deadlines, `statusAt` and `timerAt` as operators on a row and an instant |
| `SessionTiming` | the clock, one session's row, its timers, commands and readers |
| `NotificationDelivery` | one channel of the outbox |
| `MarketOverviewCache` | the shared blob, the instances' flights and the callers |
| `GuestRecords` | who holds a guest's record and visit |
| `Recurrence` | the calendar: `InstantAt`, `OccursOn`, `NextOccurrence` against `IsNextOccurrence` |
| `Schedule` | the pattern, the unfinished session and the transactions on them |
| `PrintStation` | the tags' way from a phone to the printer |
| `WorkerDirectory` | accounts and the calls that change them |
| `HouseholdService` | the household table and the recorders of several tabs |
| `MC*` | instances for TLC: symmetry, the slices and small sets described below |
| `*Proofs` | the theorems: of `TicketLine`, `MarketDay`, `SessionTiming`, `NotificationDelivery`, `MarketOverviewCache`, `GuestRecords`, `Schedule` (and `Recurrence`); `StaffToolsProofs`: of `PrintStation`, `HouseholdService`, `WorkerDirectory` |

`MarketDay` extends `MarketRules` and `LineOrder` (which declares the visits and the bound on numbers),
and instances `TicketLine` to say that it implements it: the slots are the same, and `replaced` is read
off the history. `SessionTimeline` extends `MarketRules`; `SessionTiming` and `MarketOverviewCache`
extend it, so the statuses and the tables are one and the same throughout. `MovesAsInMarketDay` ties
the model with a clock to the one without: every change of status `SessionTiming` makes is one
`MarketDay` allows. `Schedule` extends `Recurrence`.

In every module a mutable thing of the code is a variable, a request in flight is a record of the
step it has reached and what it has read, and an action is the code between two points where
somebody else can act.

### How `MarketDay` corresponds to the code

A client has at most one request in flight, `requests[c]`. It is a record of the step reached and
what has been read so far; each action is the code between two points where another request can
act.

| Actions | Code |
| --- | --- |
| `ReadRegistration`, `Register` | `registerGuest` from a phone: the reads before the transaction; the transaction |
| `AdmitWithoutPlace`; `BeginAdmit`, `Admit` | `registerGuest` from the admin form, without a place; with one: lock, check and `placeInLine`'s read; the insert |
| `ReadCancel`, `Cancel` | `PATCH /api/visit`: `authorizedVisit`; the guarded UPDATE |
| `ReadCommand`, `RunCommand` | `runVisitCommand`: the read; the guarded UPDATE and its event |
| `BeginPlace`, `PlaceBack` | `return_to_queue` with a placement: lock and read; guarded UPDATE |
| `ReadCallNext`, `PickNext`, `Claim` | `POST /api/admin/queue`, `call_next`: the session read; the subquery; the UPDATE |
| `BeginServe`, `ChooseNext`, `ServeAndCallNext` | `serve_and_call_next`: the guarded serve; the subquery that chooses the next; the UPDATE that calls them and the commit |
| `BeginDraw`, `Draw` | `runLottery`: lock, checks and reads; the UPDATEs |
| `ReadSession`, `MoveSession` | `getCurrentEvent` and the session commands: the row read; a guarded status UPDATE |
| `BeginEnd`, `EndSession` | `endSession`: the session's lock and the visits the UPDATE of `resolveOutstandingVisits` finds; the commit |
| `Abandon` | a request refused, or a process that dies and is rolled back |

`SessionLocked` is the lock of the session's row, held from `BeginAdmit`, `BeginPlace`, `BeginDraw` or
`BeginEnd` to the commit. `RowLocked(v)` is the lock of a visit's row that a transaction has updated
and not committed: a served guest's between `BeginServe` and the commit, and those an ending has found
between `BeginEnd` and the commit. Every other transaction writes visits in its last statement that
matters and commits, so its row locks need no step. Commands without a place take no lock of the
session, so they may commit while an ending is between its two steps: a no-show returned then is one
the ending did not find. `PickNext` and `Claim` are apart because the UPDATE of `callNextInTransaction`
takes its ids from an uncorrelated subquery: PostgreSQL evaluates it once, waits for a concurrent
writer of the row, and rechecks only that the id is among those chosen.

Abstractions, and why the properties do not mind them:

- Times are reduced to what they allow. A request may carry the session to any status
  `SessionTimeline.statusAt` can yield from the status read, and registration is accepted in the
  statuses from which it can be. This is more than any one clock allows, and `SessionTiming` checks
  that it is not less.
- The weighted shuffle is any order of the pool. Whatever the odds, no property depends on them.
- `BeginDraw` reads pool and line in one step. Between the two SELECTs only commands without a place
  can commit; the pool is frozen and the columns are kept by the lock, so only the count of
  reserved spots could differ, by a guest called or returned in between.
- A visit's guest is the visit. Credentials and claims are in `GuestRecords`: here any visit may be
  registered or cancelled from a phone, which for a guest added by hand the code allows once they
  have claimed their record. Which visits are one guest's is not kept: a registration that read no visit
  inserts any new row, so that two submissions of one guest may each insert one, as no unique index
  covers guest and session.
- `history` keeps the last status an event names and whether a worker put the visit elsewhere in the
  line. `called_at`, `served_at`, actors and notifications are left out.
- Updating the capacity while registration is open is left out: `Capacity` is what the draw reads.
- A definition marked `Mutant` is not part of the specification: it is a plausible mistake in the
  definition after it, with which the checks are themselves checked.

### How the other modules correspond to the code

**`SessionTiming`.** `session` is the row of `market_events` (status, opening, closing, grace
deadline, lottery delay, auto-close), `timers` the durable events that wait to be delivered, and
`requests[p]` a reader, a command or a timer's handler with the event delivered to it.

| Actions | Code |
| --- | --- |
| `Look`, `Command` | `GET /api/market`; `POST /api/admin/market`: each begins with `getCurrentEvent`'s read |
| `EndOverdue`, `Advance`, `ArmDraw` | the rest of `getCurrentEvent`: auto-close; the UPDATE guarded by the status; the timer it arms after the commit |
| `OpenRegistration` ... `EndByCommand` | `sessionCommands.mts`, one per command, with their guards on the row read and on the status written over |
| `Deliver` (`IgnoreTimer`, `HopTimer`, `BeginTimer`), `DrawByTimer`, `EndByTimer`, `Acknowledge` | `runSessionTimer`: a timer whose time is no longer the row's is ignored, one not yet due is sent on, the handler's read, the draw under the lock with `expectedDrawAt`, the end, the return |
| `ArmDrawFails`, `Fail` | a send that is only logged; a request that dies, or a delivery that is tried again |

A timer is delivered at least once: `BeginTimer` takes it out of `timers`, a handler that fails puts
it back, and a failure spent at its delivery leaves it there for a second one. A row's times
and the instants compared with them are integers; `Null` is the null of the code. The next session
is not in this module.

**`NotificationDelivery`.** `rows` are `notification_deliveries` of the push channel: those a draw or
a close queues (`Announcements`), with a dispatch event to deliver them, and those of a call
(`Calls`), delivered within the request. `Claim` is the transaction that locks, skipping what is
locked, and stamps; `Skip`, `Send` and `Record` are the loop, `Record` by id alone; `Finish` asks for
another batch of a dispatch or ends. The send and the UPDATE that records it share one `try`, so
`Record` has two outcomes for a row that was sent: it is recorded as sent, or, when that write fails, the
`catch` records it like one whose sending failed for a passing reason, pending again or failed. The same
step stands for a push that went out and whose answer was lost. It is counted in `failures`.

`StartDispatch` is the platform running an event: up to `MaxRetries` times again (4 in
notification-dispatch.mts:45), and possibly while another run of it is at work, since nothing in the code
excludes that; `overlapped` remembers that it happened. `Die` kills a delivery. A dispatch is run
again under the same `claimId` while it has retries left; one that has none, or that another run of
its event finishes, and a request, which nobody runs again, are remembered in `lost`. How often a
platform runs an event, and that it may do so twice at once, is read off how the code uses it.
`asked`, `told` and `copies` are counted for the properties alone.

**`MarketOverviewCache`.** `entry` is the blob and its etag. `Read`, `Claim`, `Load`, `Publish` are
`readOrRefresh` and `refresh`, every write conditional; a flight that finds another's lease waits as
`GiveWay` says; `ReadFails`, `ClaimFails`, `PublishFails` are failing calls to the store, whose writes
may have been made, and `FlightFails` a failing load or a dead instance. `Load` carries the session
to its status and reads it; its steps are in `SessionTiming`.

**`GuestRecords`.** `guests`, `visits` (one per guest: one session), `claims` and `subscriptions` are
the tables, `phones` what a phone keeps. `ReadRegistration` and `Register`/`RegisterNew` are
`registerGuest`, `ReadIssue` and `Issue` are `issueGuestClaim`, `Redeem` is `redeemGuestClaim`,
`ReadDelete` and `Delete` are `GuestDeletion.delete`. `Redeem` and `Register` may lose their answer
after the commit.

**`Schedule`.** A transaction is its locks and then, in one step, its writes and commit:
`LockPattern`, `Find` (the unfinished session it read), `LockSession`, `ReadPattern` (without a
lock), `Write`. An insert of a session waits for the pattern's lock because of its foreign key
(`WaitsForPattern`); `BreakDeadlock` is PostgreSQL failing one of the transactions in a cycle.
`Recurrence` has a week and a day of any length, so that TLC can use short ones.

**`PrintStation`.** `jobs` is the blob store; `waiting`, `printed` and `up` the page. `CheckStation` and
`Enqueue` are the phone's request, `Poll` ... `EndCollection` one `collect`, blob by blob
(`ReadKey`), `PrintTag` the printer and `printed`, `RemoveJob` and `Removed` a removal's effect and its
answer. `Crash` forgets the page and leaves its requests running.

**`WorkerDirectory`.** A request is the list of calls it still has to make, in one instance's queue
(`Turn`). Each call either answers, or fails with or without its effect (`CallFails`), or is over
the quota (`RateLimited`): a read is tried again, a write never. `AppointOwner` is somebody at work in
the directory's own console.

**`HouseholdService`.** `entries[id]` is what entry `id` has been, a row per version; `views` are the
recorders of the tabs, `storage` what a tab's session storage keeps, `late` the requests nobody waits
for that may be served yet. `Record` and `Correct` send, `Serve` and `ServeLate` are the two handlers,
`Answer` and `Fail` what the store does next, `LeaveView` and `Reload` what becomes of recorders.

## What the runs check

Every passing run is of a finite instance with named bounds. Symmetry is used only where nothing
but safety is checked. Deadlock is not checked: an ended session is where the system really stops,
and a bound reached is where the model does; that nobody waits for ever is a property of its own
where waiting is possible.

| Run | Instance | Shows |
| --- | --- | --- |
| `registration` | 2 visits, 3 clients, capacity 1; guests, admissions and the session, no queue commands | with three requests in flight (a draw or an ending, an admission and a late registration) the pool stays frozen and complete, and the transactions implement `TicketLine` |
| `service` | 2 visits, 2 clients, batches of 1 and 2, numbers to 4; from a line already drawn (`ServiceSpec`), its losers without a place or yet to come, every action | calling, serving, returning and ending race; places stay distinct, numbers stay with their guests, only called guests are served, servers wait in no circle, a line an ending has resolved is filled again in two named ways only |
| `session_timing` | one reader, one handler, two kinds of session, a clock to 4, one command, one failure | draws happen when due and not otherwise, pools freeze past the grace only, an overdue session ends |
| `notification_delivery` | a row of each kind, two deliveries, one dispatch run again at most once, batches of 1, two attempts at a row, two queueings of rows of either kind, two failures (deaths or records) | nothing is forgotten or sent too often, and every dispatch ends, leaving nothing claimed unless one of its runs was given up |
| `market_overview` | two instances, two callers, a clock to 3, one retry, one change by a worker, one failure | freshness, one refresh at a time, no publication going back, every caller answered |
| `guest_records` | two guests, two phones, one worker who may act as a manager, five tokens, a clock to 1, one lost answer | who may take a record, and that a phone follows its visit |
| `schedule` | two workers, two patterns, three transactions, weeks and days of two instants | there is a next session, on its date, somebody can always go on, and every transaction ends |
| `print_station` | two tags, lifetime 2, two failures or crashes | nothing lost, two stickers only with an excuse, every tag dealt with |
| `worker_directory` | three accounts, eight tasks, two requests, one instance, two failures, one owner appointed | access as granted, owners kept, queues hold the unfinished requests, none stuck |
| `household_service` | a tab that stores, with two recorders, and one that does not; two saves, one correction each, one move, one failure | one save at a time, no blind correction, retries never refused and in the end confirmed |
| `callers_claim_apart` | 2 visits, 2 clients, from a drawn line | violated: two workers call the same guest |
| `ended_session_owes_nobody` | the same | violated: a guest is called in a session that has ended |

Why the bounds are enough. Whatever compares two visits, guests, tags or instances needs two of them; a
race needs two requests in flight and the draw's needs three; capacity 1 of 2 leaves a loser in the
draw. A clock reaches past the last deadline of the instance. One failure is what each argument has to
survive, and a second only repeats it, but for the print station and the directory, where the failure
of a repair is of interest, and the notifications, where retries run out; the theorems take over where bounds end. In `notification_delivery` the
lease is 0, so that a claim can go stale in one tick; an event has one retry for the code's four and a
row two attempts for its three, and there are two failures, so that both can be used up. A behaviour
queues announcements or calls and not both: no delivery takes rows of both kinds, and the theorems
speak of all rows at once. In `schedule`, two transactions make every deadlock the lock order allows,
and the third is the one that comes after.

`TicketLine` has no run of its own. `registration` checks that `MarketDay` implements it, and what it
promises is proved (`LineIsCorrect`, `LineNumbersRise`) and checked of `MarketDay` in `service`.
`MarketDay` is checked in two slices, since all actions with two clients over a whole day exceed what
TLC finishes in minutes; the two fire every action between them, and the theorems cover the whole.

Each module states its types as `TypeOK`; no run spends itself on them. (In the
three modules of the staff's tools the names every module has carry a prefix, `PSTypeOK`, `HSInit`,
`WDSpec`, since one module of proofs extends them.) `SessionNeverRewinds` is a theorem; of what
would break it, a run checks `MovesAsInMarketDay`.
The types are theorems too, but for `WorkerDirectory` and `HouseholdService`, which state theirs for the reader: their proofs carry types of their own
(`DirectoryTypes`, `HouseholdTypes`), and TLC confirms them on the runs' instances when they are
named there.

The properties, and the mistake each would catch:

- `OrdersUnique`, `NumbersRiseWithTheLine`, `LineSpec`: a placement that does
  not hold the lock from its read to its commit, or that numbers from part of the line.
- `NobodyLeftRegistered`, `PoolIsFrozen`: a registration that trusts the check made before its
  transaction, or a way of adding guests offered too late.
- `MovesAsInMarketDay`: an automatic step that writes by id alone.
- `ResolvedLineStaysEmpty`: a stale command applied to a guest whom the ending has cancelled. The two
  ways it excepts are the code's: a no-show returned without a place, which asks nothing of the session,
  and a guest a call had chosen before (see `ended_session_owes_nobody`).
- `OnlyTheCalledAreServed`: a command applied to a visit that is no longer what was read.
- `NumberNeverChanges` (in service): a returned guest numbered anew.
- `ServersWaitInNoCircle`: a `serve_and_call_next` that serves a guest who was not called, whom
  another such request may be about to call while it serves the first one's next.
- `PendingIsPastGrace`: a path that freezes the pool by the closing time and forgets the grace.
- `PendingDrawIsArmed`, `DueDrawHappens`: a change of time that leaves the draw without its timer, or
  a timer for a time already past that is not sent.
- `AutomaticDrawIsDue`: a draw decided when its timer was delivered and not when the row is locked.
- `AutoCloseHeals`: a read that does not end an overdue session when its timer is lost.
- `NobodyIsForgotten`, `DispatchSettles`: a dispatch that, run again, does not know its own claims.
- `NoMoreCopiesThanAsked`: a claim that does not look at others' claims. A guest may get one more copy for
  each delivery that died and each sending that could not be recorded; an event run twice at once
  shares its claims between the runs, so nothing is promised of announcements once that has happened.
- `ServedIsCurrent`: an expiry that ignores the session's deadlines.
- `OneRefreshAtATime`, `PublishedNeverGoesBack`: a write without its etag.
- `EveryCallerIsAnswered`: a flight that waits for a dead holder for good.
- `OnlyManagersTakeRecords`: a redemption that does not compare the phone again.
- `PhoneFollowsItsVisit`: a redemption that moves the record and not its visit. Excused are an answer
  lost, and a registration begun by the phone that had the record before, which re-keys the visit
  without comparing the phone.
- `ScheduleNeverRunsDry`: an ending that does not make the next session.
- `PendingIsTheNextOccurrence`: a save that rewrites the next session without its lock.
- `SomebodyGoesOn`, `EveryTransactionEnds`: a next session inserted outside the transaction that ends
  its predecessor, which it would wait for unnoticed. (Without PostgreSQL's deadlock detection TLC
  finds the lock orders' deadlock as well.)
- `NothingIsLost`, `TwiceOnlyWhenExcused`, `EveryTagIsDealtWith`: a station that
  removes what it has not printed, prints what is on its screen already, stays failed after one
  failure, or gives up a removal.
- `AccessIsAsGranted`: a change that blocks the account last; `OwnersKeepTheirRole`: a check of the
  roles left out; `QueuesHoldTheUnfinished`, `EveryRequestEnds`: a failed call that poisons the queue
  behind it.
- `OneSaveAtATime`: a recorder that does not take up the save its tab kept;
  `CorrectionsKnowWhatTheyChange`: a correction without its version; `NoRetryIsRefused`,
  `RetriesAreConfirmed`: a retry compared with the size as corrected.

### Fairness

Liveness is checked under no more than this:

- `SessionTiming`: time passes; a request that was begun goes on; a due timer is delivered, again and
  again until its handler returns (the platform's durable events, with retries). `AutoCloseHeals`
  needs besides that somebody opens the app now and then (`Look`); so it is stated of a session past
  its time whose timers may all be lost.
- `NotificationDelivery`: deliveries in flight go on, and strong fairness of `StartDispatch` of an event no
  run of which is in flight: the platform runs it again whenever an instance is free, until it has
  returned or its retries are used up. That it runs one twice at once is never required.
- `MarketOverviewCache`: time passes, and calls to the store and the database return or fail.
- `Schedule`: a statement that waits for nobody runs, and PostgreSQL looks for deadlocks.
- `PrintStation`: a page that is open polls on its interval and prints what waits; a request is
  answered or fails. Nothing makes anybody open the page again after a crash.
- `WorkerDirectory`: a call is answered or runs out of time, and quota windows end.
- `HouseholdService`: a request is answered or fails, and the worker whose save is pending tries
  again, as the screen asks.

### What the code breaks

`callers_claim_apart` is kept as a run: two `call_next` choose the same guest, the second calls them
again, and the next guest waits, against the comment of `callNextInTransaction`. So is
`ended_session_owes_nobody`: `call_next` chooses, the session ends and cancels everyone, the UPDATE
calls a cancelled guest, where docs/session-lifecycle.md:100 says that ending a session never leaves a
guest in a status that implies service is still coming. The same end is reached without a call: a
no-show returned without a place, while the ending is under way or after it, waits in an ended session
(visitQueue.mts:104-155). `PROJECT.json` quotes both promises. The other promises below are stated in
their modules. Each is refuted by TLC within seconds when it is named in a configuration; none has a
run of its own.

| Property | What happens |
| --- | --- |
| `MarketDay.DrawLeavesTheCancelledAlone` | the draw reads its pool, a guest cancels, the draw's UPDATE by id (lottery.mts:124-140) makes them `waiting` again; docs/session-lifecycle.md:142 ends at `cancelled` (registration slice, 1 visit, 2 clients) |
| `MarketDay.NumberNeverChanges` | outside service: placed by hand, cancelled, registered again from the phone, drawn: another number (lottery.mts:126); docs/session-lifecycle.md:182 (registration slice, 1 visit, 1 client) |
| `MarketDay.OneNumberAtMost` | the same guest, placed at the front, keeps the priority number beside the new main one; queue-number.ts:1 (registration slice, 2 visits, 1 client) |
| `MarketDay.DrawnGuestsJoinTheBack` | and keeps the front flag: drawn last, called first; lottery.mts:86-87 (registration slice, 2 visits, 1 client) |
| `MarketDay.HistoryEndsInStatus` | a submission read `waiting` before a cancel and writes it back after it, with no event (guestRegistration.mts:411); schema.mts:217 (registration slice, 1 visit, 2 clients) |
| `MarketDay.DrawKeepsToCapacity` | a guest placed and called before the draw is not counted as a spot taken (lottery.mts:90); docs/session-lifecycle.md:155-157 (2 visits, 1 client, capacity 1) |
| `SessionTiming.AutomaticStepsAreDue` | a worker extends the window between a guest's read and its guarded UPDATE, which compares the status alone (marketSession.mts:93): the window closes although its row says it is open |
| `NotificationDelivery.RecallNotifiesAgain` | a re-call requeues a row while its first delivery is being sent; recording that one by id (pushNotifications.mts:170-180) marks the row sent, and nobody sends the second; notifications.mts:60-65, visitQueue.mts:41-42 |
| `GuestRecords.NobodyIsDeletedMidSession` | between the check and the DELETE (guest-deletion.mts:91) a registration commits; guest-deletion.mts:61 says neither can change between them |
| `PrintStation.NeverTwiceByOneStation` | a collection that had read the tag answers after its removal was heard of (print-station.store.ts:134, 153): it is printed again; print-station.store.ts:121-123 |
| `HouseholdService.StorageProtectsRetries` | a recorder left with its request running hears of its success late and clears the storage (household-service.store.ts:121) of a newer save; after a reload another household is submitted while that one is uncertain; docs/household-service.md:21-25 (three saves and two moves) |

Besides: a guest may register again after cancelling, while the diagram of `session-lifecycle.md`
ends at `cancelled`, and its lines 199-201 still speak of shifting the line down, which `LineOrder`
no longer does. An ending that read the pattern before a save committed, of a session that save did
not lock, makes the next session from the older settings, where schedulePattern.mts:36 has the new
ones take effect from the next session (`overtaken` in `Schedule`); a transaction that loses a
deadlock fails its request and is not tried again. Two overlapping requests on one account of the
directory may leave it usable with both their roles, or undo a removal (`Unsure` in
`WorkerDirectory`); the comment at worker-directory.mts:142 speaks of one. A send that fails for a
passing reason stays pending, and only another call or dispatch of the same visit tries it again.

## What is proved

With `tlapm`, for every value of the constants the modules' assumptions allow.

**The line and the market day** (`TicketLineProofs`, `MarketDayProofs`; every finite
set of visits, every set of clients, every capacity and bound on numbers):

- `LineTypeCorrect`, `LineIsCorrect`, `LineNumbersRise`: what `TicketLine` promises;
- `TypeCorrect`, `LockHolderStaysCurrent`, `DrawLeavesNobodyRegistered`: invariants of `MarketDay`;
- `PoolStaysFrozen`, `SessionGoesForward`, `ResolvedLineStays`, `ServedWereCalled`: its action
  properties;
- `ImplementsTheLine`: `MarketDay` implements `TicketLine`; through the refinement `PlacesAreUnique`
  and `NumbersRise`, the same of `MarketDay`;
- `NumbersStayInService`: of `ServiceSpec`, `MarketDay` from a line already drawn;
- `ServersNeverDeadlock`: of both, for circles of any length.

The argument. None of the invariants is inductive alone. `DayInv` adds that the session's lock has one
holder (`OneLockHolder`), that what the holder read of the line is still so (`LockHolderIsCurrent`:
only lock holders write slots, and a commit ends the lock), that a visit without a row has no slot,
that while a draw is between its read and its writes the session is pending and its pool holds everyone
registered, as does what an ending has found (`PoolIsComplete`: nobody registers outside the accepting
statuses or past the lock, and only the lock's holder moves a session on from there), and that nobody
is being added to a session that is over (`AdmitsInTime`). `ResolvedLineStays` rests on these: from
`BeginEnd` on the lock or the recheck under it keeps submissions, admissions, placements and draws out,
and the status in the UPDATE keeps out the rest. `LineSteps` classifies every step as taking the lock,
releasing it or leaving the line alone; `StepEffect` says what each does to visits and session. From
`DayInv`, `Admit` is a `Join`, `PlaceBack` a `PutBack`, `Draw` a `DrawWinners`, and every other step a
stutter. On the abstract side `LineInv` adds that whoever has a number has an order, and `NewSlot`
covers both ways one visit is placed. `ServedWereCalled` needs `ServingInv` besides: a guest whose row
a `serve_and_call_next` has locked stays called until that commit and is no other request's to serve
(`RowsHeldByOne`: every writer waits for the row), and a command in flight was allowed from the status
it read. `NumbersStayInService` adds `LineIsNumbered`: in service nobody is registered, whoever is in
line or called has a number, and a request that will write back a number it has read will write the
guest's own; so `Place` keeps every number it finds. For `ServersNeverDeadlock`, a request that begins
to serve has chosen nobody yet, and when it chooses (`ChooseNext`) it chooses among the waiting, while
whoever the others serve is called: it waits for none of them, and a set of servers without it is as it
was (`NoCircleMade`). The proofs rest on the library's theorems on finite sets and on the maximum of a
bounded set of numbers, proved in `TicketLineProofs` and cited from it by `MarketDayProofs`.

**Session timing** (`SessionTimingProofs`): `TimingTypeCorrect`,
`FrozenPoolsArePastGrace`, `AutomaticDrawsAreDue`, `StatusMovesAsInMarketDay`,
`PendingDrawsAreArmed`. A request carries the
instant it read the clock, which is never ahead of the clock now; from that, whatever wrote
`lottery_pending` wrote a grace deadline already past. The draw's guard is evaluated under the lock,
so its due time is the row's own. `StatusAt` yields only targets of `MarketRules`' tables, which is a
lemma about the operator, and every command's target is in them. The armed draw is a relay: for the
instant the row says, there is a timer waiting, a handler that will draw (it has not read the row, or
has read it as pending), or a request about to send the timer (`Armed`). A step that moves the time
is made by a request that goes on to send the new one, and a step that takes one of the three away
puts another in its place, or is a failure (`unarmed`); `StaysArmed` says so once for all the steps.

**Notifications** (`NotificationDeliveryProofs`; any number of rows, dispatches and deliverers, all
finite): `DeliveryTypeCorrect`, `NobodyIsLeftOut`, `NobodyIsToldTooOften`. `HandsInv` says where an
untried row can be: claimed by a dispatch whose event is unfinished and some run of which holds the row
or has another batch to ask for (`Minded`), claimed by a request that holds it, or claimed by nobody and
awaited by a request for it or by an event that is still to claim (`StillToClaim`: `Finish` asks for
another batch whenever the last was full); or a delivery that could be meant for it is in `lost`. What
a run knows of its claims it keeps though other runs of its event come and go
(`DispatchesKnowTheirClaims`). The copies are an account that never overdraws (`CopiesAccountedFor`, of
the rows of which something is promised): those sent, the deliveries that may yet send one, and one more
while the row may be claimed are at most the times it was queued and the failures. A claim moves one
unit from the last to the second, a send from the second to the first; a queueing, a death or a failed
record pays for what it adds. That a claim is one delivery's needs the runs of an event to be apart
(`OneDeliveryPerEvent`), which is so until `overlapped`.

**The overview cache** (`MarketOverviewCacheProofs`): `CacheTypeCorrect`, `SnapshotsServedAreCurrent`,
`OneInstanceRefreshes`, `PublicationsGoForward`, from `CacheInv`: an etag never recurs, so a flight
whose etag is the entry's has seen every write there was; a flight under a lease holds the etag of its
own lease; what it loaded was read after it took the lease, and what is published was read before.

**Guest records** (`GuestRecordsProofs`): `RecordsTypeCorrect`, `RecordsStayUnlessAManagerActs` and
`PhonesFollowTheirVisits`. A worker's code replaces no phone, because `MayIssue` refuses a
worker whenever there is one and `StillReplaceable` asks again at the redemption; a request that
issues a code carries what it read, so the invariant speaks of requests in flight as well as of
codes. That a phone follows its visit needs more than the phones at rest (`PhonesInv`): tokens given
are never given again, a device is one guest's and one phone's, a guest has one visit, and what a
registration read of a guest its phone still holds is still so, for nobody else writes that guest's
visit. The excuses of the property are where exactly these fail: `overtaken` is a registration that
writes for a guest its phone has lost.

**The schedule** (`ScheduleProofs`; any number of transactions, any patterns, any length of the week
and of the day): `NextOccurrenceIsNext`: for every pattern and instant the date computed in days of
the week is the earliest of the pattern's dates that opens after the instant. `ScheduleTypeCorrect`,
`ScheduleKeepsGoing`, `PendingSessionIsTheNext`, `WaitsAreBroken`: of the transactions. `ScheduleInv` says what a
transaction may rely on: each lock has one holder (`Apart`); a transaction's step tells which locks it
has and whether it knows a pattern (`Follows`); what it read under a lock is still so, and an ending,
which reads the pattern without one, will write of the pattern as it is, or of one deleted, or has been
overtaken (`Current`). A save that locked the pattern and found no session to lock has none of the
pattern beside it, so a session it leaves alone is a worker's. A transaction that loses a deadlock
writes nothing and keeps all of it (`RollsBack`). `WaitsAreBroken` is about what `EveryTransactionEnds`
rests on: whoever holds a pattern's lock can wait for a session's alone, and an ending, which holds a
session's, never holds a pattern's; so of transactions that all wait, one that waits for the pattern and
the holder it waits for wait for each other, and that is the deadlock PostgreSQL breaks.

**The staff's tools** (`StaffToolsProofs`, which extends their three modules; no theorem
speaks of two of them).

The print station, for any finite set of tags, any times and any number of failures:
`StationTypeCorrect`, `NoTagIsLost`, `SecondTagsAreExcused`. What makes a loss possible is a removal,
so the invariant says that whatever is being removed was printed (`RemovedOncePrinted`), and that a
tag not yet sent is nowhere (`UnsentIsUnseen`). A second sticker needs a printed tag to wait again: a
printed tag still in the store, or still in a collection's hands, is one the page keeps in mind, or is
excused already (`SecondsAreExcused`). The answers of a collection join the screen as a list in the
order of their ids, of which the proof uses that it names each tag once.

The households, for any number of tabs, recorders, sizes and saves: `OneSaveIsUncertain`,
`CorrectionsAreOfWhatIsThere`, `RetriesAreKnown`. A tab has one open recorder (`OneRecorder`); a recorder asks for what
it has pending (`AskForTheirSave`), and has pending what its tab keeps, unless that save was confirmed
by a recorder that was left (`PendingIsKept`); so every save not known to be done is the one the tab's
storage, or without storage its open recorder, still holds (`UncertainIsKept`), and that is one.
`RetriesAreKnown`: all copies of a save, stored, pending, on their way or served late, agree with one
another and with the first version of its row, because an id is new when a recorder takes it and in no
copy (`RetriesInv`); what the handler compares is that first version.

The worker directory, for any number of accounts, requests and instances: `AccessIsGranted`,
`OwnersStayOwners`, `QueuesHoldRequests`. `Follows` gives the lists of calls a request may have left, `Made` what a request
alone with its account has made of it by each: before the block, that what it will unassign is what is
there; after it, that the account is blocked, then stripped, then has the new role alone. So a failure
at any call leaves the account blocked or as it was granted. `QueuesHoldRequests` is an invariant
of its own (`QueuesInv`): a request enters its instance's queue when it begins, leaves it only at its turn,
from the head, and goes to the back whenever it has another call to make. `WorksRightly` says that a request alone
with an account is, and that one which is not has left the account unsure. That an account is created
only where there is none is what keeps a creation alone.

Assumptions on the constants are those the modules name: naturals for times, bounds and sizes, finite
sets where things are counted (visits, rows, deliverers), clients apart from handlers and phones apart
from workers, dispatches apart from the two other names a claim may bear, and sessions created as the
code's forms create them (scheduled, opening before they close).

Every invariant and every action property the passing runs check is a theorem. Model-checked only:
liveness (`DueDrawHappens`, `AutoCloseHeals`, `DispatchSettles`, `EveryCallerIsAnswered`,
`EveryTransactionEnds`, `EveryTagIsDealtWith`, `EveryRequestEnds`, `RetriesAreConfirmed`), since
fairness and ENABLED are beyond the prover. The safety that three of them rest on is proved:
`SomebodyGoesOn` for `EveryTransactionEnds`, `QueuesHoldTheUnfinished` for `EveryRequestEnds` and
`NoRetryIsRefused` for `RetriesAreConfirmed`.

## Not modelled

- The texts' channel of the outbox follows the push channel's protocol; SMS consent (START, STOP,
  the carrier's own opt-out) is half the carrier's state, which this code does not show.
- The odds of the draw and the steward's ledger: probabilities; the draw's order is any order.
- The other browser stores: what a screen shows between polls. The server checks every command again.
- In `WorkerDirectory` the effect of a call that arrives after it ran out of time, the token's cache,
  the listing and the password email; in `SessionTiming` the session that follows; in `GuestRecords`
  more than one session at a time.
- Broadcasts, whose rows past the first 250 get no dispatch.
- Warehouse copies, reports, demo data, presentations, translation and logging keep no state another
  part depends on.

## Plan

What is left, in order of worth: the composition of `SessionTiming` with the ending that makes the
next session; SMS consent, once the carrier's part is written down somewhere; the liveness properties
by hand, from the safety theorems they rest on, should the prover come to know fairness.
