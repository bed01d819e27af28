------------------------ MODULE MarketOverviewCache ------------------------
(***************************************************************************)
(* The market overview guests poll: one entry of a blob store, shared by   *)
(* the function's instances, that is a snapshot, or a lease of the         *)
(* instance that refreshes it.  A write is conditional on the etag of what *)
(* was read; each instance has at most one flight, which its callers       *)
(* share.  A flight that cannot use the store, or has waited long enough,  *)
(* reads the database itself.                                              *)
(*                                                                         *)
(* A load carries the session to the status its times imply and reads it,  *)
(* in one step: SessionTiming has the steps it is made of.                 *)
(***************************************************************************)
EXTENDS SessionTimeline

CONSTANTS Instances, \* the function's instances
          Callers,   \* guests: one request each
          Rows,      \* the rows the session may have
          Lifetime,  \* lifetimeMs
          LeaseTime, \* leaseMs
          RetryTime, \* retryMs
          Retries,   \* retries
          MaxTime,   \* the bound on the clock
          MaxChanges,\* the bound on what workers change
          MaxFailures\* the bound on failing calls and dying instances

ASSUME CacheAssumption ==
  /\ Rows \subseteq Row
  /\ Lifetime \in Nat \ {0} /\ LeaseTime \in Nat \ {0} /\ RetryTime \in Nat \ {0}
  /\ Retries \in Nat /\ MaxTime \in Nat /\ MaxChanges \in Nat /\ MaxFailures \in Nat

VARIABLES
  clock,
  session,   \* the session's row
  store,     \* the store's entry and its etag
  flights,   \* flights[i]: readOrRefresh of instance i
  callers,   \* callers[c]: the instance whose flight c waits for
  published, \* when the last snapshot published was read
  changes,   \* how often a worker has changed the session
  failures   \* how many calls have failed and instances died

vars == <<clock, session, store, flights, callers, published, changes, failures>>

Bounds == <<changes, failures>>

NoEntry == [kind |-> "none"]

\* What a reader cannot parse.
Unreadable == [kind |-> "unreadable"]

Lease(until) == [kind |-> "lease", until |-> until]

Snapshot(overview, expiresAt) ==
  [kind |-> "snapshot", overview |-> overview, expiresAt |-> expiresAt]

Idle == [step |-> "idle"]

Nobody == "nobody"

-----------------------------------------------------------------------------
(* The database.                                                            *)

\* getCurrentEvent: overdue, or carried to the status its times imply.
Carried(row, now) ==
  LET target == StatusAt(row, now)
  IN  CASE Overdue(row, now)    -> [row EXCEPT !.status = "ended"]
        [] ~Overdue(row, now) /\ target \in {"registration_closed", "lottery_pending"}
                                -> [row EXCEPT !.status = target, !.grace = GraceDeadline(row)]
        [] OTHER                -> [row EXCEPT !.status = target]

\* Workers and timers change the row as well.
Change ==
  /\ changes < MaxChanges
  /\ changes' = changes + 1
  /\ session' \in Rows \ {session}
  /\ UNCHANGED <<clock, store, flights, callers, published, failures>>

-----------------------------------------------------------------------------
(* The store.                                                               *)

Usable(entry, now) == entry.kind = "snapshot" /\ entry.expiresAt > now

Leased(entry, now) == entry.kind = "lease" /\ entry.until > now

\* Mutant: an entry is written whatever became of the one read.
AnyTag(etag) == TRUE

\* onlyIfMatch the etag, or onlyIfNew.
Matches(etag) == store.etag = etag

Written(entry) == store' = [entry |-> entry, etag |-> store.etag + 1]

LowestOf(times) == CHOOSE t \in times : \A u \in times : t <= u

\* Mutant: a snapshot lives its time whatever the session's deadlines are.
ForItsLifetime(row, startedAt) == startedAt + Lifetime

\* The first moment the overview may no longer be true of the session by its times alone.
Expiry(row, startedAt) ==
  LowestOf(
    {startedAt + Lifetime}
      \cup {t \in {row.opens} : row.status = "scheduled"}
      \cup {t \in {row.closes} : row.status \in {"scheduled", "registration_open"}}
      \cup {t \in {GraceDeadline(row)} : row.status = "registration_closed"}
      \cup {t \in {LotteryDrawsAt(row)} : row.status = "lottery_pending" /\ t # Null}
      \cup {t \in {AutoClosesAt(row)} : row.status # "ended" /\ t # Null})

-----------------------------------------------------------------------------
(* A flight.                                                                *)

Goto(i, flight) == flights' = [flights EXCEPT ![i] = flight]

\* The flight is over: its callers have their answer, or its error.
Settle(i) ==
  /\ Goto(i, Idle)
  /\ callers' = [c \in Callers |-> IF callers[c] = i THEN Nobody ELSE callers[c]]

\* An uncached read.
LoadDirectly(i) == Goto(i, [step |-> "load", etag |-> Null, startedAt |-> clock])

\* A caller joins the flight of its instance, or is its first.  None asks when the clock is
\* too near its bound for a flight to wait as long as it may.
Get(c, i) ==
  /\ callers[c] = Nobody
  /\ clock + Retries * RetryTime <= MaxTime
  /\ callers' = [callers EXCEPT ![c] = i]
  /\ IF flights[i] = Idle
     THEN Goto(i, [step |-> "read", attempt |-> 0, waitUntil |-> clock + Retries * RetryTime,
                   wakesAt |-> clock])
     ELSE UNCHANGED flights
  /\ UNCHANGED <<clock, session, store, published, Bounds>>

Exhausted(flight) == flight.waitUntil <= clock \/ flight.attempt = Retries

\* Mutant: waiting for the lease to go, however long that takes.
KeepWaiting(i) ==
  Goto(i, [step |-> "read", attempt |-> 0, waitUntil |-> flights[i].waitUntil, wakesAt |-> clock])

\* Somebody else refreshes: read again later, or no longer wait for them.
GiveWay(i) ==
  LET flight == flights[i]
  IN  IF Exhausted(flight)
      THEN LoadDirectly(i)
      ELSE Goto(i, [step |-> "read", attempt |-> flight.attempt + 1, waitUntil |-> flight.waitUntil,
                    wakesAt |-> LowestOf({clock + RetryTime, flight.waitUntil})])

Read(i) ==
  LET flight == flights[i]
      entry  == store.entry
  IN  /\ flight.step = "read"
      /\ flight.wakesAt <= clock
      /\ \/ /\ Usable(entry, clock)
            /\ Settle(i)
         \/ /\ Leased(entry, clock)
            /\ GiveWay(i)
            /\ UNCHANGED callers
         \/ /\ ~Usable(entry, clock) /\ ~Leased(entry, clock)
            /\ Goto(i, [step |-> "claim", attempt |-> flight.attempt, waitUntil |-> flight.waitUntil,
                        etag |-> store.etag, now |-> clock])
            /\ UNCHANGED callers
      /\ UNCHANGED <<clock, session, store, published, Bounds>>

Claim(i) ==
  LET flight == flights[i]
  IN  /\ flight.step = "claim"
      /\ \/ /\ Matches(flight.etag)
            /\ Written(Lease(flight.now + LeaseTime))
            /\ Goto(i, [step |-> "load", etag |-> store'.etag, startedAt |-> flight.now])
         \/ /\ ~Matches(flight.etag)
            /\ GiveWay(i)
            /\ UNCHANGED store
      /\ UNCHANGED <<clock, session, callers, published, Bounds>>

\* marketOverview: the session is carried on and read.  An ended one is no session at all.
Load(i) ==
  LET flight == flights[i]
  IN  /\ flight.step = "load"
      /\ session' = Carried(session, clock)
      /\ Goto(i, [step |-> "loaded", etag |-> flight.etag, startedAt |-> flight.startedAt,
                  overview |-> [row |-> session', readAt |-> clock]])
      /\ UNCHANGED <<clock, store, callers, published, Bounds>>

\* The load has returned.  What it read without the lease, or too late, is not published.
Return(i) ==
  LET flight    == flights[i]
      expiresAt == Expiry(flight.overview.row, flight.startedAt)
  IN  /\ flight.step = "loaded"
      /\ IF flight.etag # Null /\ expiresAt > clock
         THEN /\ Goto(i, [step |-> "publish", etag |-> flight.etag,
                          snapshot |-> Snapshot(flight.overview, expiresAt)])
              /\ UNCHANGED callers
         ELSE Settle(i)
      /\ UNCHANGED <<clock, session, store, published, Bounds>>

WriteSnapshot(i) ==
  /\ Matches(flights[i].etag)
  /\ Written(flights[i].snapshot)
  /\ published' = flights[i].snapshot.overview.readAt

Publish(i) ==
  /\ flights[i].step = "publish"
  /\ \/ WriteSnapshot(i)
     \/ ~Matches(flights[i].etag) /\ UNCHANGED <<store, published>>
  /\ Settle(i)
  /\ UNCHANGED <<clock, session, Bounds>>

-----------------------------------------------------------------------------
(* What fails.                                                              *)

Failing ==
  /\ failures < MaxFailures
  /\ failures' = failures + 1
  /\ UNCHANGED <<clock, session, changes>>

\* The store cannot be opened or read, or gives no etag: the flight goes on without it.
ReadFails(i) ==
  /\ Failing
  /\ flights[i].step = "read"
  /\ LoadDirectly(i)
  /\ UNCHANGED <<store, callers, published>>

\* A write whose answer is lost may have been made.
ClaimFails(i) ==
  /\ Failing
  /\ flights[i].step = "claim"
  /\ \/ UNCHANGED store
     \/ Matches(flights[i].etag) /\ Written(Lease(flights[i].now + LeaseTime))
  /\ LoadDirectly(i)
  /\ UNCHANGED <<callers, published>>

PublishFails(i) ==
  /\ Failing
  /\ flights[i].step = "publish"
  /\ WriteSnapshot(i) \/ UNCHANGED <<store, published>>
  /\ Settle(i)

\* The database fails the flight, or its instance dies.
FlightFails(i) ==
  /\ Failing
  /\ flights[i] # Idle
  /\ Settle(i)
  /\ UNCHANGED <<store, published>>

Tick ==
  /\ clock < MaxTime
  /\ clock' = clock + 1
  /\ UNCHANGED <<session, store, flights, callers, published, Bounds>>

-----------------------------------------------------------------------------
Init ==
  /\ clock = 0
  /\ session \in Rows
  /\ \E entry \in {NoEntry, Unreadable} : store = [entry |-> entry, etag |-> 0]
  /\ flights = [i \in Instances |-> Idle]
  /\ callers = [c \in Callers |-> Nobody]
  /\ published = 0
  /\ changes = 0
  /\ failures = 0

Proceed(i) ==
  Read(i) \/ Claim(i) \/ Load(i) \/ Return(i) \/ Publish(i)

Next ==
  \/ Tick
  \/ Change
  \/ \E i \in Instances :
       \/ \E c \in Callers : Get(c, i)
       \/ Proceed(i)
       \/ ReadFails(i) \/ ClaimFails(i) \/ PublishFails(i) \/ FlightFails(i)

Spec == Init /\ [][Next]_vars

\* Time passes and flights go on: a call to the store or the database returns or fails.
Fairness == WF_vars(Tick) /\ \A i \in Instances : WF_vars(Proceed(i))

FairSpec == Spec /\ Fairness

-----------------------------------------------------------------------------
(* Types.                                                                   *)

Overviews == [row : Row, readAt : Nat]

Snapshots == [kind : {"snapshot"}, overview : Overviews, expiresAt : Nat]

Entries == {NoEntry, Unreadable} \cup [kind : {"lease"}, until : Nat] \cup Snapshots

Flights ==
  {Idle}
    \cup [step : {"read"}, attempt : 0..Retries, waitUntil : Nat, wakesAt : Nat]
    \cup [step : {"claim"}, attempt : 0..Retries, waitUntil : Nat, etag : Nat, now : Nat]
    \cup [step : {"load"}, etag : Nat \cup {Null}, startedAt : Nat]
    \cup [step : {"loaded"}, etag : Nat \cup {Null}, startedAt : Nat, overview : Overviews]
    \cup [step : {"publish"}, etag : Nat, snapshot : Snapshots]

TypeOK ==
  /\ clock \in 0..MaxTime
  /\ session \in Row
  /\ store \in [entry : Entries, etag : Nat]
  /\ flights \in [Instances -> Flights]
  /\ callers \in [Callers -> Instances \cup {Nobody}]
  /\ published \in Nat
  /\ changes \in 0..MaxChanges /\ failures \in 0..MaxFailures

-----------------------------------------------------------------------------
(* What holds.                                                              *)

\* A snapshot still served was read within its lifetime, and no time of its session has
\* come since: were it loaded now, its times would leave its status as it is.
ServedIsCurrent ==
  Usable(store.entry, clock) =>
    LET overview == store.entry.overview
    IN  /\ clock < overview.readAt + Lifetime
        /\ Carried(overview.row, clock).status = overview.row.status
        /\ overview.row.status = "lottery_pending" =>
             LotteryDrawsAt(overview.row) = Null \/ LotteryDrawsAt(overview.row) > clock

\* A holder whose lease was taken over never replaces what was published since: snapshots
\* follow one another in the order they were read.
PublishedNeverGoesBack == [][published' >= published]_vars

\* At most one instance refreshes at a time while leases run: guests polling together make
\* one load, not one each.
Refreshing(i) ==
  /\ flights[i].step \in {"load", "loaded"}
  /\ flights[i].etag # Null
  /\ clock < flights[i].startedAt + LeaseTime

OneRefreshAtATime ==
  \A i, j \in Instances : Refreshing(i) /\ Refreshing(j) => i = j

\* Every caller is answered, though the lease's holder never publishes: nobody waits for
\* another instance longer than the retries allow.
EveryCallerIsAnswered ==
  \A c \in Callers : callers[c] # Nobody ~> callers[c] = Nobody
============================================================================
