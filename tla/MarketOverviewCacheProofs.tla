---------------------- MODULE MarketOverviewCacheProofs ----------------------
(***************************************************************************)
(* The etag keeps the instances that share the overview apart, for every   *)
(* number of instances, every lifetime and whatever fails.                 *)
(***************************************************************************)
EXTENDS MarketOverviewCache, TLAPS

\* The columns of a row.
LEMMA RowFields ==
  ASSUME NEW row \in Row
  PROVE  /\ row.status \in SessionStatuses /\ row.opens \in Nat /\ row.closes \in Nat
         /\ row.grace \in Nat \cup {Null} /\ row.delay \in Nat \cup {Null}
         /\ row.after \in Nat \cup {Null}
PROOF
  BY DEF Row

\* A time read off a row is a moment, or not set.
LEMMA TimesOfRow ==
  ASSUME NEW row \in Row
  PROVE  /\ GraceDeadline(row) \in Nat
         /\ LotteryDrawsAt(row) \in Nat \cup {Null}
         /\ AutoClosesAt(row) \in Nat \cup {Null}
         /\ \A kind \in TimerKinds : TimerAt(row, kind) \in Nat \cup {Null}
PROOF
  <1> /\ row.opens \in Nat /\ row.closes \in Nat /\ row.grace \in Nat \cup {Null}
      /\ row.delay \in Nat \cup {Null} /\ row.after \in Nat \cup {Null}
    BY RowFields
  <1>1. GraceDeadline(row) \in Nat
    BY GraceAssumption DEF GraceDeadline, Null
  <1>2. LotteryDrawsAt(row) \in Nat \cup {Null}
    BY <1>1 DEF LotteryDrawsAt, Null
  <1>3. AutoClosesAt(row) \in Nat \cup {Null}
    BY DEF AutoClosesAt, Null
  <1> QED
    BY <1>1, <1>2, <1>3 DEF TimerAt, TimerKinds

\* The status the clock carries a row to: what MarketRules lets it be, and pending only once
\* the grace period is over.
LEMMA StatusMovesByTheRow ==
  ASSUME NEW row \in Row, NEW now \in Nat
  PROVE  LET target == StatusAt(row, now)
         IN  /\ target \in SessionStatuses
             /\ target # row.status => target \in AutomaticTargets(row.status)
             /\ target # row.status /\ target = "lottery_pending" => GraceDeadline(row) <= now
             /\ target # row.status =>
                  target \in {"registration_open", "registration_closed", "lottery_pending"}
PROOF
  BY RowFields DEF StatusAt, ClosedStatusAt, AutomaticTargets, SessionStatuses

-----------------------------------------------------------------------------

\* What a snapshot promises until it expires.
Current(overview, now) ==
  /\ now < overview.readAt + Lifetime
  /\ Carried(overview.row, now).status = overview.row.status
  /\ overview.row.status = "lottery_pending" =>
       LotteryDrawsAt(overview.row) = Null \/ LotteryDrawsAt(overview.row) > now

SnapshotOK(entry) ==
  entry.kind = "snapshot" =>
    \A now \in Nat : entry.expiresAt > now => Current(entry.overview, now)

\* What a flight may be beside the store, the last publication and the clock: who claims saw
\* no lease in the entry it is about to replace, a lease stands for as long as its holder
\* may count on it, and what a holder read is not older than what is published.
FlightOK(flight, kept, last, now) ==
  /\ flight \in Flights
  /\ flight.step = "claim" =>
       /\ flight.etag <= kept.etag /\ flight.now <= now
       /\ flight.etag = kept.etag => ~Leased(kept.entry, flight.now)
  /\ flight.step \in {"load", "loaded", "publish"} /\ flight.etag # Null =>
       flight.etag <= kept.etag
  /\ flight.step \in {"load", "loaded"} =>
       /\ flight.startedAt <= now
       /\ flight.etag # Null /\ now < flight.startedAt + LeaseTime =>
            flight.etag = kept.etag /\ kept.entry = Lease(flight.startedAt + LeaseTime)
  /\ flight.step = "loaded" =>
       /\ flight.overview.readAt <= now /\ flight.startedAt <= flight.overview.readAt
       /\ flight.etag = kept.etag => last <= flight.overview.readAt
  /\ flight.step = "publish" =>
       /\ flight.snapshot.overview.readAt <= now /\ SnapshotOK(flight.snapshot)
       /\ flight.etag = kept.etag => last <= flight.snapshot.overview.readAt

Holding(flight) == flight.step \in {"load", "loaded", "publish"} /\ flight.etag # Null

\* No two flights hold leases under one etag.
EtagsApart ==
  \A i, j \in Instances :
    Holding(flights[i]) /\ Holding(flights[j]) /\ flights[i].etag = flights[j].etag => i = j

FlightsOK ==
  /\ flights \in [Instances -> Flights]
  /\ \A i \in Instances : FlightOK(flights[i], store, published, clock)
  /\ EtagsApart

\* The inductive invariant.
CacheInv == TypeOK /\ FlightsOK /\ published <= clock /\ SnapshotOK(store.entry)

-----------------------------------------------------------------------------
(* The times an overview lives by.                                          *)

\* A set of moments with a lowest keeps having one as a moment is added or not.
LEMMA LowestWithOneMore ==
  ASSUME NEW times \in SUBSET Nat, NEW more, NEW t \in Nat \cup {Null}, more \subseteq {t} \cap Nat,
         \E m \in times : \A u \in times : m <= u
  PROVE  /\ times \cup more \subseteq Nat
         /\ \E m \in times \cup more : \A u \in times \cup more : m <= u
PROOF
  <1>1. PICK m \in times : \A u \in times : m <= u
    OBVIOUS
  <1>2. CASE more = {}
    BY <1>1, <1>2
  <1>3. CASE more = {t} /\ t \in Nat
    <2>1. CASE t <= m
      BY <1>1, <1>3, <2>1
    <2>2. CASE m <= t
      BY <1>1, <1>3, <2>2
    <2> QED
      BY <1>1, <1>3, <2>1, <2>2
  <1> QED
    BY <1>2, <1>3

\* What LowestOf returns where there is a lowest.
LEMMA LowestIsLowest ==
  ASSUME NEW times \in SUBSET Nat, \E m \in times : \A u \in times : m <= u
  PROVE  /\ LowestOf(times) \in times /\ LowestOf(times) \in Nat
         /\ \A u \in times : LowestOf(times) <= u
PROOF
  BY DEF LowestOf

LEMMA LowestOfTwo ==
  ASSUME NEW s \in Nat, NEW t \in Nat
  PROVE  LowestOf({s, t}) \in Nat
PROOF
  <1>1. \E m \in {s} : \A u \in {s} : m <= u
    OBVIOUS
  <1>2. \E m \in {s} \cup {t} : \A u \in {s} \cup {t} : m <= u
    BY <1>1, LowestWithOneMore
  <1>3. {s} \cup {t} = {s, t}
    OBVIOUS
  <1> QED
    BY <1>2, <1>3, LowestIsLowest

\* An overview expires no later than any time that may make it untrue.
LEMMA ExpiresInTime ==
  ASSUME NEW row \in Row, NEW startedAt \in Nat
  PROVE  LET expiry == Expiry(row, startedAt)
         IN  /\ expiry \in Nat /\ expiry <= startedAt + Lifetime
             /\ row.status = "scheduled" => expiry <= row.opens
             /\ row.status \in {"scheduled", "registration_open"} => expiry <= row.closes
             /\ row.status = "registration_closed" => expiry <= GraceDeadline(row)
             /\ row.status = "lottery_pending" /\ LotteryDrawsAt(row) # Null =>
                  expiry <= LotteryDrawsAt(row)
             /\ row.status # "ended" /\ AutoClosesAt(row) # Null => expiry <= AutoClosesAt(row)
PROOF
  <1> DEFINE t1 == {startedAt + Lifetime}
             t2 == {t \in {row.opens} : row.status = "scheduled"}
             t3 == {t \in {row.closes} : row.status \in {"scheduled", "registration_open"}}
             t4 == {t \in {GraceDeadline(row)} : row.status = "registration_closed"}
             t5 == {t \in {LotteryDrawsAt(row)} : row.status = "lottery_pending" /\ t # Null}
             t6 == {t \in {AutoClosesAt(row)} : row.status # "ended" /\ t # Null}
             all == t1 \cup t2 \cup t3 \cup t4 \cup t5 \cup t6
             Has(times) == times \subseteq Nat /\ \E m \in times : \A u \in times : m <= u
  <1>1. /\ row.opens \in Nat /\ row.closes \in Nat /\ GraceDeadline(row) \in Nat
        /\ LotteryDrawsAt(row) \in Nat \cup {Null} /\ AutoClosesAt(row) \in Nat \cup {Null}
        /\ startedAt + Lifetime \in Nat
    BY RowFields, TimesOfRow, CacheAssumption
  <1>2. Has(t1)
    BY <1>1
  <1>3. ASSUME NEW times, Has(times), NEW more, NEW t \in Nat \cup {Null}, more \subseteq {t} \cap Nat
        PROVE  Has(times \cup more)
    BY <1>3, LowestWithOneMore
  <1>4. /\ t2 \subseteq {row.opens} \cap Nat /\ t3 \subseteq {row.closes} \cap Nat
        /\ t4 \subseteq {GraceDeadline(row)} \cap Nat
        /\ t5 \subseteq {LotteryDrawsAt(row)} \cap Nat /\ t6 \subseteq {AutoClosesAt(row)} \cap Nat
    BY <1>1
  <1>5. Has(all)
    <2> HIDE DEF t1, t2, t3, t4, t5, t6, Has
    <2>1. Has(t1 \cup t2)
      BY <1>1, <1>2, <1>3, <1>4
    <2>2. Has((t1 \cup t2) \cup t3)
      BY <1>1, <1>3, <1>4, <2>1
    <2>3. Has(((t1 \cup t2) \cup t3) \cup t4)
      BY <1>1, <1>3, <1>4, <2>2
    <2>4. Has((((t1 \cup t2) \cup t3) \cup t4) \cup t5)
      BY <1>1, <1>3, <1>4, <2>3
    <2>5. Has(((((t1 \cup t2) \cup t3) \cup t4) \cup t5) \cup t6)
      BY <1>1, <1>3, <1>4, <2>4
    <2> QED
      BY <2>5
  <1>6. Expiry(row, startedAt) = LowestOf(all)
    BY DEF Expiry
  <1>7. LowestOf(all) \in Nat /\ \A u \in all : LowestOf(all) <= u
    BY <1>5, LowestIsLowest
  <1> QED
    BY <1>6, <1>7

\* Until it expires a snapshot is true of its session by the session's times.
LEMMA SnapshotsLast ==
  ASSUME NEW overview \in Overviews, NEW startedAt \in Nat, startedAt <= overview.readAt
  PROVE  LET snapshot == Snapshot(overview, Expiry(overview.row, startedAt))
         IN  snapshot \in Snapshots /\ SnapshotOK(snapshot)
PROOF
  <1> DEFINE row    == overview.row
             expiry == Expiry(row, startedAt)
  <1>1. row \in Row /\ overview.readAt \in Nat
    BY DEF Overviews
  <1>2. /\ expiry \in Nat /\ expiry <= startedAt + Lifetime
        /\ row.status = "scheduled" => expiry <= row.opens
        /\ row.status \in {"scheduled", "registration_open"} => expiry <= row.closes
        /\ row.status = "registration_closed" => expiry <= GraceDeadline(row)
        /\ row.status = "lottery_pending" /\ LotteryDrawsAt(row) # Null =>
             expiry <= LotteryDrawsAt(row)
        /\ row.status # "ended" /\ AutoClosesAt(row) # Null => expiry <= AutoClosesAt(row)
    BY <1>1, ExpiresInTime
  <1>3. Snapshot(overview, expiry) \in Snapshots
    BY <1>2 DEF Snapshot, Snapshots
  <1>4. ASSUME NEW now \in Nat, expiry > now
        PROVE  Current(overview, now)
    <2> HIDE DEF expiry
    <2> /\ row.opens \in Nat /\ row.closes \in Nat /\ GraceDeadline(row) \in Nat
        /\ LotteryDrawsAt(row) \in Nat \cup {Null} /\ AutoClosesAt(row) \in Nat \cup {Null}
      BY <1>1, RowFields, TimesOfRow
    <2>1. now < overview.readAt + Lifetime
      BY <1>1, <1>2, <1>4, CacheAssumption
    <2>2. ~Overdue(row, now)
      BY <1>2, <1>4 DEF Overdue, Null
    <2>3. StatusAt(row, now) = row.status
      BY <1>2, <1>4 DEF StatusAt, ClosedStatusAt
    <2>4. Carried(row, now).status = row.status
      BY <1>1, <2>2, <2>3 DEF Carried, Row
    <2>5. row.status = "lottery_pending" =>
            LotteryDrawsAt(row) = Null \/ LotteryDrawsAt(row) > now
      BY <1>2, <1>4 DEF Null
    <2> QED
      BY <2>1, <2>4, <2>5 DEF Current
  <1> QED
    BY <1>2, <1>3, <1>4 DEF SnapshotOK, Snapshot

\* A load leaves a row.
LEMMA CarriedIsARow ==
  ASSUME NEW row \in Row, NEW now \in Nat
  PROVE  Carried(row, now) \in Row
PROOF
  <1> DEFINE target == StatusAt(row, now)
  <1>1. target \in SessionStatuses /\ "ended" \in SessionStatuses
    BY StatusMovesByTheRow DEF SessionStatuses
  <1>2. GraceDeadline(row) \in Nat \cup {Null}
    BY TimesOfRow
  <1> HIDE DEF target
  <1>3. /\ [row EXCEPT !.status = "ended"] \in Row
        /\ [row EXCEPT !.status = target] \in Row
        /\ [row EXCEPT !.status = target, !.grace = GraceDeadline(row)] \in Row
    BY <1>1, <1>2 DEF Row
  <1> QED
    BY <1>3 DEF Carried, target

-----------------------------------------------------------------------------
(* Flights.                                                                 *)

\* What the type of a flight says of one at a step, and of what it holds.
LEMMA FlightFields ==
  ASSUME NEW flight \in Flights
  PROVE  /\ flight.step = "read" =>
              /\ flight.attempt \in 0..Retries /\ flight.waitUntil \in Nat /\ flight.wakesAt \in Nat
         /\ flight.step = "claim" =>
              /\ flight.attempt \in 0..Retries /\ flight.waitUntil \in Nat
              /\ flight.etag \in Nat /\ flight.now \in Nat
         /\ flight.step \in {"load", "loaded"} =>
              flight.etag \in Nat \cup {Null} /\ flight.startedAt \in Nat
         /\ flight.step = "loaded" => flight.overview \in Overviews
         /\ flight.step = "publish" => flight.etag \in Nat /\ flight.snapshot \in Snapshots
         /\ flight.step \in {"idle", "read", "claim", "load", "loaded", "publish"}
PROOF
  BY DEF Flights, Idle

\* A flight stays right as time passes.
LEMMA FlightsAge ==
  ASSUME NEW flight, NEW kept, NEW last, NEW now \in Nat, FlightOK(flight, kept, last, now)
  PROVE  FlightOK(flight, kept, last, now + 1)
PROOF
  <1> flight \in Flights
    BY DEF FlightOK
  <1> USE FlightFields
  <1>1. flight.step = "claim" => flight.now <= now + 1
    BY DEF FlightOK
  <1>2. flight.step \in {"load", "loaded"} =>
          /\ flight.startedAt <= now + 1
          /\ now + 1 < flight.startedAt + LeaseTime => now < flight.startedAt + LeaseTime
    BY CacheAssumption DEF FlightOK
  <1>3. flight.step = "loaded" => flight.overview.readAt <= now + 1
    BY DEF FlightOK, Overviews
  <1>4. flight.step = "publish" => flight.snapshot.overview.readAt <= now + 1
    BY DEF FlightOK, Overviews, Snapshots
  <1> QED
    BY <1>1, <1>2, <1>3, <1>4 DEF FlightOK

\* A flight may move on, or end, where it holds nothing it did not hold.
LEMMA OneFlightMoves ==
  ASSUME CacheInv, NEW i \in Instances, NEW flight,
         FlightOK(flight, store, published, clock),
         Holding(flight) => Holding(flights[i]) /\ flight.etag = flights[i].etag,
         Goto(i, flight), UNCHANGED <<store, published, clock>>
  PROVE  FlightsOK'
PROOF
  <1> flights \in [Instances -> Flights] /\ flight \in Flights
    BY DEF CacheInv, FlightsOK, FlightOK
  <1> flights' = [flights EXCEPT ![i] = flight]
    BY DEF Goto
  <1>1. \A j \in Instances : FlightOK(flights[j], store, published, clock)
    BY DEF CacheInv, FlightsOK
  <1>2. \A j \in Instances : FlightOK(flights'[j], store', published', clock')
    BY <1>1
  <1>3. EtagsApart'
    <2> SUFFICES ASSUME NEW j \in Instances, NEW k \in Instances,
                        Holding(flights'[j]), Holding(flights'[k]), flights'[j].etag = flights'[k].etag
                 PROVE  j = k
      BY DEF EtagsApart
    <2>1. \A l \in Instances : Holding(flights'[l]) =>
            Holding(flights[l]) /\ flights'[l].etag = flights[l].etag
      OBVIOUS
    <2> QED
      BY <2>1 DEF CacheInv, FlightsOK, EtagsApart
  <1> QED
    BY <1>2, <1>3 DEF FlightsOK

\* Whose lease runs has the store's etag, and the store its lease.
LEMMA RefreshingHasTheStore ==
  ASSUME CacheInv, NEW i \in Instances, Refreshing(i)
  PROVE  /\ Holding(flights[i]) /\ flights[i].etag = store.etag
         /\ store.entry = Lease(flights[i].startedAt + LeaseTime)
PROOF
  BY DEF CacheInv, FlightsOK, FlightOK, Refreshing, Holding

\* A write leaves the flights right where nobody else's lease runs: whoever still holds an
\* older etag can no longer write.
LEMMA WritesMoveOn ==
  ASSUME CacheInv, NEW i \in Instances, NEW flight, NEW entry,
         Written(entry), FlightOK(flight, store', published', clock),
         Holding(flight) => flight.etag = store.etag + 1,
         \A j \in Instances \ {i} : ~Refreshing(j),
         Goto(i, flight), clock' = clock
  PROVE  FlightsOK'
PROOF
  <1> flights \in [Instances -> Flights] /\ flight \in Flights /\ store.etag \in Nat
    BY DEF CacheInv, FlightsOK, FlightOK, TypeOK
  <1> flights' = [flights EXCEPT ![i] = flight]
    BY DEF Goto
  <1> store' = [entry |-> entry, etag |-> store.etag + 1]
    BY DEF Written
  <1>1. ASSUME NEW j \in Instances, j # i
        PROVE  FlightOK(flights[j], store', published', clock)
    <2>1. FlightOK(flights[j], store, published, clock) /\ flights[j] \in Flights /\ ~Refreshing(j)
      BY <1>1 DEF CacheInv, FlightsOK
    <2> QED
      BY <2>1, FlightFields DEF FlightOK, Refreshing, Null
  <1>2. \A j \in Instances : FlightOK(flights'[j], store', published', clock')
    BY <1>1
  <1>3. \A j \in Instances : Holding(flights[j]) => flights[j].etag \in Nat /\ flights[j].etag <= store.etag
    <2> SUFFICES ASSUME NEW j \in Instances, Holding(flights[j])
                 PROVE  flights[j].etag \in Nat /\ flights[j].etag <= store.etag
      OBVIOUS
    <2>1. FlightOK(flights[j], store, published, clock) /\ flights[j] \in Flights
      BY DEF CacheInv, FlightsOK
    <2> QED
      BY <2>1, FlightFields DEF FlightOK, Holding
  <1>4. EtagsApart'
    <2> SUFFICES ASSUME NEW j \in Instances, NEW k \in Instances,
                        Holding(flights'[j]), Holding(flights'[k]), flights'[j].etag = flights'[k].etag
                 PROVE  j = k
      BY DEF EtagsApart
    <2>1. \A l \in Instances : l # i => flights'[l] = flights[l]
      OBVIOUS
    <2>2. CASE j = i \/ k = i
      BY <1>3, <2>1, <2>2
    <2>3. CASE j # i /\ k # i
      BY <2>1, <2>3 DEF CacheInv, FlightsOK, EtagsApart
    <2> QED
      BY <2>2, <2>3
  <1> QED
    BY <1>2, <1>4 DEF FlightsOK

\* The flights that hold nothing: one that is over, one that reads the database itself, and
\* one that gives way.
LEMMA FlightsThatHoldNothing ==
  ASSUME CacheInv, NEW i \in Instances, NEW kept, NEW last
  PROVE  /\ Settle(i) => Goto(i, Idle) /\ callers' \in [Callers -> Instances \cup {Nobody}]
         /\ FlightOK(Idle, kept, last, clock) /\ ~Holding(Idle)
         /\ LoadDirectly(i) =>
              \E flight \in Flights :
                /\ Goto(i, flight) /\ FlightOK(flight, kept, last, clock) /\ ~Holding(flight)
         /\ flights[i].step \in {"read", "claim"} /\ GiveWay(i) =>
              \E flight \in Flights :
                /\ Goto(i, flight) /\ FlightOK(flight, kept, last, clock) /\ ~Holding(flight)
PROOF
  <1> clock \in Nat /\ flights[i] \in Flights /\ callers \in [Callers -> Instances \cup {Nobody}]
    BY CacheAssumption DEF CacheInv, TypeOK
  <1>1. Settle(i) => Goto(i, Idle) /\ callers' \in [Callers -> Instances \cup {Nobody}]
    BY DEF Settle
  <1>2. FlightOK(Idle, kept, last, clock) /\ ~Holding(Idle)
    BY DEF FlightOK, Holding, Idle, Flights
  <1>3. ASSUME LoadDirectly(i)
        PROVE  \E flight \in Flights :
                 Goto(i, flight) /\ FlightOK(flight, kept, last, clock) /\ ~Holding(flight)
    <2> DEFINE flight == [step |-> "load", etag |-> Null, startedAt |-> clock]
    <2>1. flight \in Flights
      BY DEF Flights
    <2>2. FlightOK(flight, kept, last, clock) /\ ~Holding(flight)
      BY <2>1 DEF FlightOK, Holding
    <2> QED
      BY <1>3, <2>1, <2>2 DEF LoadDirectly
  <1>4. ASSUME flights[i].step \in {"read", "claim"}, GiveWay(i)
        PROVE  \E flight \in Flights :
                 Goto(i, flight) /\ FlightOK(flight, kept, last, clock) /\ ~Holding(flight)
    <2> DEFINE wakesAt == LowestOf({clock + RetryTime, flights[i].waitUntil})
               flight  == [step |-> "read", attempt |-> flights[i].attempt + 1,
                           waitUntil |-> flights[i].waitUntil, wakesAt |-> wakesAt]
    <2>1. CASE Exhausted(flights[i])
      BY <1>3, <1>4, <2>1 DEF GiveWay
    <2>2. CASE ~Exhausted(flights[i])
      <3>1. flights[i].attempt \in 0..Retries /\ flights[i].waitUntil \in Nat
        BY <1>4, FlightFields
      <3>2. flights[i].attempt + 1 \in 0..Retries
        BY <2>2, <3>1, CacheAssumption DEF Exhausted
      <3>3. wakesAt \in Nat
        BY <3>1, LowestOfTwo, CacheAssumption
      <3> HIDE DEF wakesAt
      <3>4. flight \in Flights
        BY <3>1, <3>2, <3>3 DEF Flights
      <3>5. FlightOK(flight, kept, last, clock) /\ ~Holding(flight)
        BY <3>4 DEF FlightOK, Holding
      <3>6. Goto(i, flight)
        BY <1>4, <2>2 DEF GiveWay, wakesAt
      <3> QED
        BY <3>4, <3>5, <3>6
    <2> QED
      BY <2>1, <2>2
  <1> QED
    BY <1>1, <1>2, <1>3, <1>4

\* Initially nobody has asked.
LEMMA CacheInit == ASSUME Init PROVE CacheInv
PROOF
  <1>1. TypeOK
    <2>1. session \in Row /\ store \in [entry : Entries, etag : Nat] /\ clock \in 0..MaxTime
      BY CacheAssumption DEF Init, Entries
    <2>2. flights \in [Instances -> Flights] /\ callers \in [Callers -> Instances \cup {Nobody}]
      BY DEF Init, Flights
    <2> QED
      BY <2>1, <2>2, CacheAssumption DEF Init, TypeOK
  <1>2. FlightsOK
    BY <1>1 DEF Init, FlightsOK, FlightOK, EtagsApart, Holding, Idle, TypeOK
  <1>3. published <= clock /\ SnapshotOK(store.entry)
    BY DEF Init, SnapshotOK, NoEntry, Unreadable
  <1> QED
    BY <1>1, <1>2, <1>3 DEF CacheInv

-----------------------------------------------------------------------------
(* The steps.                                                               *)

\* A step that leaves the store alone keeps the invariant with its flights.
LEMMA StoreLeftAlone ==
  ASSUME CacheInv, FlightsOK', UNCHANGED <<store, published, clock>>,
         session' \in Row, callers' \in [Callers -> Instances \cup {Nobody}],
         changes' \in 0..MaxChanges, failures' \in 0..MaxFailures
  PROVE  CacheInv'
PROOF
  <1>1. TypeOK' /\ published' <= clock'
    BY DEF CacheInv, TypeOK, FlightsOK
  <1>2. SnapshotOK(store.entry)'
    BY DEF CacheInv, SnapshotOK, Current, Carried
  <1> QED
    BY <1>1, <1>2 DEF CacheInv

LEMMA GetStep ==
  ASSUME CacheInv, NEW c \in Callers, NEW i \in Instances, Get(c, i)
  PROVE  CacheInv'
PROOF
  <1> DEFINE flight == [step |-> "read", attempt |-> 0, waitUntil |-> clock + Retries * RetryTime,
                        wakesAt |-> clock]
  <1> TypeOK /\ FlightsOK
    BY DEF CacheInv
  <1>1. callers' \in [Callers -> Instances \cup {Nobody}]
    BY DEF Get, TypeOK
  <1>2. CASE flights[i] = Idle
    <2>1. Retries * RetryTime \in Nat /\ clock \in Nat /\ 0 \in 0..Retries
      BY CacheAssumption DEF TypeOK
    <2>2. flight \in Flights
      BY <2>1 DEF Flights
    <2>3. FlightOK(flight, store, published, clock) /\ ~Holding(flight)
      BY <2>2 DEF FlightOK, Holding
    <2>4. Goto(i, flight)
      BY <1>2 DEF Get
    <2>5. FlightsOK'
      BY <2>3, <2>4, OneFlightMoves DEF Get
    <2> QED
      BY <1>1, <2>5, StoreLeftAlone DEF Get, TypeOK, Bounds
  <1>3. CASE flights[i] # Idle
    <2>1. FlightsOK'
      BY <1>3 DEF Get, FlightsOK, EtagsApart
    <2> QED
      BY <1>1, <2>1, StoreLeftAlone DEF Get, TypeOK, Bounds
  <1> QED
    BY <1>2, <1>3

LEMMA ReadStep ==
  ASSUME CacheInv, NEW i \in Instances, Read(i)
  PROVE  CacheInv'
PROOF
  <1> TypeOK /\ FlightsOK
    BY DEF CacheInv
  <1> clock \in Nat /\ store.etag \in Nat /\ flights[i] \in Flights
    BY CacheAssumption DEF TypeOK
  <1>1. UNCHANGED <<clock, session, store, published, changes, failures>> /\ flights[i].step = "read"
    BY DEF Read, Bounds
  <1>2. CASE Settle(i)
    <2>1. FlightsOK'
      BY <1>1, <1>2, FlightsThatHoldNothing, OneFlightMoves
    <2> QED
      BY <1>1, <1>2, <2>1, FlightsThatHoldNothing, StoreLeftAlone DEF TypeOK
  <1>3. CASE GiveWay(i) /\ UNCHANGED callers
    <2>1. PICK flight \in Flights :
            /\ Goto(i, flight) /\ FlightOK(flight, store, published, clock) /\ ~Holding(flight)
      BY <1>1, <1>3, FlightsThatHoldNothing
    <2>2. FlightsOK'
      BY <1>1, <2>1, OneFlightMoves
    <2> QED
      BY <1>1, <1>3, <2>2, StoreLeftAlone DEF TypeOK
  <1>4. CASE /\ ~Leased(store.entry, clock) /\ UNCHANGED callers
             /\ Goto(i, [step |-> "claim", attempt |-> flights[i].attempt,
                         waitUntil |-> flights[i].waitUntil, etag |-> store.etag, now |-> clock])
    <2> DEFINE flight == [step |-> "claim", attempt |-> flights[i].attempt,
                          waitUntil |-> flights[i].waitUntil, etag |-> store.etag, now |-> clock]
    <2>1. flight \in Flights
      BY <1>1, FlightFields DEF Flights
    <2>2. FlightOK(flight, store, published, clock) /\ ~Holding(flight)
      BY <1>4, <2>1 DEF FlightOK, Holding
    <2>3. FlightsOK'
      BY <1>1, <1>4, <2>2, OneFlightMoves
    <2> QED
      BY <1>1, <1>4, <2>3, StoreLeftAlone DEF TypeOK
  <1> QED
    BY <1>2, <1>3, <1>4 DEF Read

\* Taking the lease: the entry replaced held none.
LEMMA LeaseTaken ==
  ASSUME CacheInv, NEW i \in Instances, flights[i].step = "claim", Matches(flights[i].etag),
         Written(Lease(flights[i].now + LeaseTime)), UNCHANGED <<clock, published>>,
         NEW flight, Goto(i, flight), FlightOK(flight, store', published, clock),
         Holding(flight) => flight.etag = store.etag + 1
  PROVE  FlightsOK' /\ store' \in [entry : Entries, etag : Nat] /\ SnapshotOK(store.entry)'
PROOF
  <1> DEFINE until == flights[i].now + LeaseTime
  <1> TypeOK /\ FlightsOK /\ flights[i] \in Flights
    BY DEF CacheInv, TypeOK
  <1>1. FlightOK(flights[i], store, published, clock) /\ flights[i].now \in Nat
    BY FlightFields DEF FlightsOK
  <1>2. flights[i].now <= clock /\ ~Leased(store.entry, flights[i].now)
    BY <1>1 DEF FlightOK, Matches
  <1>3. ASSUME NEW j \in Instances, Refreshing(j)
        PROVE  FALSE
    <2>1. /\ store.entry = Lease(flights[j].startedAt + LeaseTime)
          /\ clock < flights[j].startedAt + LeaseTime
          /\ flights[j].step \in {"load", "loaded"} /\ flights[j] \in Flights
      BY <1>3, RefreshingHasTheStore DEF Refreshing, TypeOK
    <2>2. flights[j].startedAt \in Nat
      BY <2>1, FlightFields
    <2>3. Leased(store.entry, flights[i].now)
      BY <1>1, <1>2, <2>1, <2>2, CacheAssumption DEF Leased, Lease, TypeOK
    <2> QED
      BY <1>2, <2>3
  <1>4. FlightsOK'
    BY <1>3, WritesMoveOn
  <1>5. Lease(until) \in Entries
    BY <1>1, CacheAssumption DEF Lease, Entries
  <1>6. store' = [entry |-> Lease(until), etag |-> store.etag + 1]
    BY DEF Written
  <1>7. store.etag \in Nat
    BY DEF TypeOK
  <1> HIDE DEF until
  <1>8. store' \in [entry : Entries, etag : Nat]
    BY <1>5, <1>6, <1>7
  <1>9. SnapshotOK(store.entry)'
    BY <1>6 DEF SnapshotOK, Lease
  <1> QED
    BY <1>4, <1>8, <1>9

LEMMA ClaimStep ==
  ASSUME CacheInv, NEW i \in Instances, Claim(i)
  PROVE  CacheInv'
PROOF
  <1> TypeOK /\ FlightsOK
    BY DEF CacheInv
  <1> clock \in Nat /\ store.etag \in Nat /\ flights[i] \in Flights
    BY CacheAssumption DEF TypeOK
  <1>1. UNCHANGED <<clock, session, callers, published, changes, failures>>
        /\ flights[i].step = "claim"
    BY DEF Claim, Bounds
  <1>2. CASE /\ Matches(flights[i].etag) /\ Written(Lease(flights[i].now + LeaseTime))
             /\ Goto(i, [step |-> "load", etag |-> store'.etag, startedAt |-> flights[i].now])
    <2> DEFINE flight == [step |-> "load", etag |-> store'.etag, startedAt |-> flights[i].now]
    <2>1. store'.etag = store.etag + 1 /\ store'.entry = Lease(flights[i].now + LeaseTime)
      BY <1>2 DEF Written
    <2>2. flights[i].now \in Nat /\ flights[i].now <= clock
      BY <1>1, FlightFields DEF FlightsOK, FlightOK
    <2>3. flight \in Flights
      BY <2>1, <2>2 DEF Flights
    <2>4. FlightOK(flight, store', published, clock)
      BY <2>1, <2>2, <2>3 DEF FlightOK
    <2>5. FlightsOK' /\ store' \in [entry : Entries, etag : Nat] /\ SnapshotOK(store.entry)'
      BY <1>1, <1>2, <2>1, <2>4, LeaseTaken
    <2>6. TypeOK' /\ published' <= clock'
      BY <1>1, <2>5 DEF CacheInv, TypeOK, FlightsOK
    <2> QED
      BY <2>5, <2>6 DEF CacheInv
  <1>3. CASE GiveWay(i) /\ UNCHANGED store
    <2>1. PICK flight \in Flights :
            /\ Goto(i, flight) /\ FlightOK(flight, store, published, clock) /\ ~Holding(flight)
      BY <1>1, <1>3, FlightsThatHoldNothing
    <2>2. FlightsOK'
      BY <1>1, <1>3, <2>1, OneFlightMoves
    <2> QED
      BY <1>1, <1>3, <2>2, StoreLeftAlone DEF TypeOK
  <1> QED
    BY <1>2, <1>3 DEF Claim

LEMMA LoadStep ==
  ASSUME CacheInv, NEW i \in Instances, Load(i)
  PROVE  CacheInv'
PROOF
  <1> DEFINE old    == flights[i]
             flight == [step |-> "loaded", etag |-> old.etag, startedAt |-> old.startedAt,
                        overview |-> [row |-> session', readAt |-> clock]]
  <1> TypeOK /\ FlightsOK
    BY DEF CacheInv
  <1> clock \in Nat /\ session \in Row /\ old \in Flights
    BY CacheAssumption DEF TypeOK
  <1>1. /\ UNCHANGED <<clock, store, callers, published, changes, failures>>
        /\ old.step = "load" /\ session' = Carried(session, clock) /\ Goto(i, flight)
    BY DEF Load, Bounds
  <1>2. FlightOK(old, store, published, clock) /\ old.etag \in Nat \cup {Null} /\ old.startedAt \in Nat
    BY <1>1, FlightFields DEF FlightsOK
  <1>3. session' \in Row
    BY <1>1, CarriedIsARow
  <1>4. flight \in Flights
    BY <1>2, <1>3 DEF Flights, Overviews
  <1>5. published <= clock
    BY DEF CacheInv
  <1>6. FlightOK(flight, store, published, clock)
    BY <1>1, <1>2, <1>4, <1>5 DEF FlightOK
  <1>7. Holding(flight) => Holding(old) /\ flight.etag = old.etag
    BY <1>1 DEF Holding
  <1>8. FlightsOK'
    BY <1>1, <1>6, <1>7, OneFlightMoves
  <1> QED
    BY <1>1, <1>3, <1>8, StoreLeftAlone DEF TypeOK

LEMMA ReturnStep ==
  ASSUME CacheInv, NEW i \in Instances, Return(i)
  PROVE  CacheInv'
PROOF
  <1> DEFINE old       == flights[i]
             expiresAt == Expiry(old.overview.row, old.startedAt)
             snapshot  == Snapshot(old.overview, expiresAt)
             flight    == [step |-> "publish", etag |-> old.etag, snapshot |-> snapshot]
  <1> TypeOK /\ FlightsOK
    BY DEF CacheInv
  <1> clock \in Nat /\ old \in Flights
    BY CacheAssumption DEF TypeOK
  <1>1. UNCHANGED <<clock, session, store, published, changes, failures>> /\ old.step = "loaded"
    BY DEF Return, Bounds
  <1>2. CASE Settle(i)
    <2>1. FlightsOK'
      BY <1>1, <1>2, FlightsThatHoldNothing, OneFlightMoves
    <2> QED
      BY <1>1, <1>2, <2>1, FlightsThatHoldNothing, StoreLeftAlone DEF TypeOK
  <1>3. CASE old.etag # Null /\ Goto(i, flight) /\ UNCHANGED callers
    <2>1. /\ FlightOK(old, store, published, clock) /\ old.etag \in Nat /\ old.startedAt \in Nat
          /\ old.overview \in Overviews
      BY <1>1, <1>3, FlightFields DEF FlightsOK
    <2>2. old.startedAt <= old.overview.readAt
      BY <1>1, <2>1 DEF FlightOK
    <2>3. snapshot \in Snapshots /\ SnapshotOK(snapshot)
      BY <2>1, <2>2, SnapshotsLast
    <2>4. snapshot.overview = old.overview
      BY DEF Snapshot
    <2> HIDE DEF snapshot
    <2>5. flight \in Flights
      BY <2>1, <2>3 DEF Flights
    <2>6. FlightOK(flight, store, published, clock)
      BY <1>1, <1>3, <2>1, <2>3, <2>4, <2>5 DEF FlightOK
    <2>7. Holding(flight) => Holding(old) /\ flight.etag = old.etag
      BY <1>1, <1>3 DEF Holding
    <2>8. FlightsOK'
      BY <1>1, <1>3, <2>6, <2>7, OneFlightMoves
    <2> QED
      BY <1>1, <1>3, <2>8, StoreLeftAlone DEF TypeOK
  <1> QED
    BY <1>2, <1>3 DEF Return

\* Publishing: nobody else's lease runs, and nothing newer was published since.
LEMMA SnapshotWritten ==
  ASSUME CacheInv, NEW i \in Instances, flights[i].step = "publish", WriteSnapshot(i),
         Settle(i), UNCHANGED <<clock, session, changes>>, failures' \in 0..MaxFailures
  PROVE  CacheInv' /\ published' >= published
PROOF
  <1> DEFINE flight == flights[i]
             snapshot == flight.snapshot
  <1> TypeOK /\ FlightsOK /\ flight \in Flights /\ clock \in Nat /\ published \in Nat
      /\ store.etag \in Nat
    BY CacheAssumption DEF CacheInv, TypeOK
  <1>1. /\ FlightOK(flight, store, published, clock) /\ flight.etag \in Nat
        /\ snapshot \in Snapshots /\ flight.etag = store.etag
    BY FlightFields DEF FlightsOK, WriteSnapshot, Matches
  <1>2. /\ snapshot.overview.readAt \in Nat /\ snapshot.overview.readAt <= clock
        /\ published <= snapshot.overview.readAt /\ SnapshotOK(snapshot)
    BY <1>1 DEF FlightOK, Snapshots, Overviews
  <1>3. /\ Written(snapshot) /\ store' = [entry |-> snapshot, etag |-> store.etag + 1]
        /\ published' = snapshot.overview.readAt
    BY DEF WriteSnapshot, Written
  <1>4. \A j \in Instances \ {i} : ~Refreshing(j)
    <2> SUFFICES ASSUME NEW j \in Instances, Refreshing(j)
                 PROVE  j = i
      OBVIOUS
    <2>1. Holding(flights[j]) /\ flights[j].etag = store.etag
      BY RefreshingHasTheStore
    <2>2. Holding(flight)
      BY <1>1 DEF Holding, Null
    <2> QED
      BY <1>1, <2>1, <2>2 DEF FlightsOK, EtagsApart
  <1>5. FlightsOK'
    BY <1>3, <1>4, FlightsThatHoldNothing, WritesMoveOn
  <1>6. store' \in [entry : Entries, etag : Nat]
    BY <1>1, <1>3 DEF Entries
  <1>7. SnapshotOK(store.entry)'
    BY <1>2, <1>3 DEF SnapshotOK, Current, Carried
  <1>8. callers' \in [Callers -> Instances \cup {Nobody}]
    BY FlightsThatHoldNothing
  <1>9. TypeOK' /\ published' <= clock'
    BY <1>2, <1>3, <1>5, <1>6, <1>8 DEF TypeOK, FlightsOK
  <1> QED
    BY <1>2, <1>3, <1>5, <1>7, <1>9 DEF CacheInv

LEMMA PublishStep ==
  ASSUME CacheInv, NEW i \in Instances, Publish(i) \/ PublishFails(i)
  PROVE  CacheInv' /\ published' >= published
PROOF
  <1> TypeOK /\ published \in Nat
    BY DEF CacheInv, TypeOK
  <1>1. /\ flights[i].step = "publish" /\ Settle(i) /\ UNCHANGED <<clock, session, changes>>
        /\ failures' \in 0..MaxFailures
    BY CacheAssumption DEF Publish, PublishFails, Failing, Bounds, TypeOK
  <1>2. CASE WriteSnapshot(i)
    BY <1>1, <1>2, SnapshotWritten
  <1>3. CASE UNCHANGED <<store, published>>
    <2>1. FlightsOK'
      BY <1>1, <1>3, FlightsThatHoldNothing, OneFlightMoves
    <2> QED
      BY <1>1, <1>3, <2>1, FlightsThatHoldNothing, StoreLeftAlone DEF TypeOK
  <1> QED
    BY <1>2, <1>3 DEF Publish, PublishFails

LEMMA FailureStep ==
  ASSUME CacheInv, NEW i \in Instances, ReadFails(i) \/ ClaimFails(i) \/ FlightFails(i)
  PROVE  CacheInv' /\ published' = published
PROOF
  <1> TypeOK /\ FlightsOK
    BY DEF CacheInv
  <1>1. UNCHANGED <<clock, session, changes, published>> /\ failures' \in 0..MaxFailures
    BY CacheAssumption DEF ReadFails, ClaimFails, FlightFails, Failing, TypeOK
  <1>2. CASE LoadDirectly(i) /\ UNCHANGED <<store, callers>>
    <2>1. PICK flight \in Flights :
            /\ Goto(i, flight) /\ FlightOK(flight, store, published, clock) /\ ~Holding(flight)
      BY <1>2, FlightsThatHoldNothing
    <2>2. FlightsOK'
      BY <1>1, <1>2, <2>1, OneFlightMoves
    <2> QED
      BY <1>1, <1>2, <2>2, StoreLeftAlone DEF TypeOK
  <1>3. CASE /\ flights[i].step = "claim" /\ LoadDirectly(i) /\ UNCHANGED callers
             /\ Matches(flights[i].etag) /\ Written(Lease(flights[i].now + LeaseTime))
    <2>1. PICK flight \in Flights :
            /\ Goto(i, flight) /\ FlightOK(flight, store', published, clock) /\ ~Holding(flight)
      BY <1>3, FlightsThatHoldNothing
    <2>2. FlightsOK' /\ store' \in [entry : Entries, etag : Nat] /\ SnapshotOK(store.entry)'
      BY <1>1, <1>3, <2>1, LeaseTaken
    <2>3. TypeOK' /\ published' <= clock'
      BY <1>1, <1>3, <2>2 DEF CacheInv, TypeOK, FlightsOK
    <2> QED
      BY <1>1, <2>2, <2>3 DEF CacheInv
  <1>4. CASE Settle(i) /\ UNCHANGED <<store, published>>
    <2>1. FlightsOK'
      BY <1>1, <1>4, FlightsThatHoldNothing, OneFlightMoves
    <2> QED
      BY <1>1, <1>4, <2>1, FlightsThatHoldNothing, StoreLeftAlone DEF TypeOK
  <1> QED
    BY <1>2, <1>3, <1>4 DEF ReadFails, ClaimFails, FlightFails

LEMMA TickStep ==
  ASSUME CacheInv, Tick
  PROVE  CacheInv'
PROOF
  <1> TypeOK /\ FlightsOK /\ clock \in Nat
    BY CacheAssumption DEF CacheInv, TypeOK
  <1>1. UNCHANGED <<session, store, flights, callers, published, changes, failures>>
        /\ clock' = clock + 1 /\ clock < MaxTime
    BY DEF Tick, Bounds
  <1>2. TypeOK' /\ published' <= clock'
    BY <1>1, CacheAssumption DEF CacheInv, TypeOK
  <1>3. \A i \in Instances : FlightOK(flights'[i], store', published', clock')
    BY <1>1, FlightsAge DEF FlightsOK
  <1>4. FlightsOK' /\ SnapshotOK(store.entry)'
    BY <1>1, <1>3 DEF CacheInv, FlightsOK, EtagsApart, SnapshotOK, Current, Carried
  <1> QED
    BY <1>2, <1>4 DEF CacheInv

-----------------------------------------------------------------------------
(* The theorems.                                                            *)

LEMMA CacheStep ==
  ASSUME CacheInv, [Next]_vars
  PROVE  CacheInv' /\ published' >= published
PROOF
  <1> TypeOK /\ FlightsOK /\ published \in Nat
    BY DEF CacheInv, TypeOK
  <1>1. CASE Tick
    BY <1>1, TickStep DEF Tick
  <1>2. CASE Change
    <2>1. session' \in Row
      BY <1>2, CacheAssumption DEF Change
    <2>2. FlightsOK'
      BY <1>2 DEF Change, FlightsOK, EtagsApart
    <2> QED
      BY <1>2, <2>1, <2>2, StoreLeftAlone, CacheAssumption DEF Change, TypeOK
  <1>3. ASSUME NEW i \in Instances, NEW c \in Callers, Get(c, i)
        PROVE  CacheInv' /\ published' >= published
    <2>1. published' = published
      BY <1>3 DEF Get
    <2> QED
      BY <1>3, <2>1, GetStep
  <1>4. ASSUME NEW i \in Instances, Proceed(i)
        PROVE  CacheInv' /\ published' >= published
    <2>1. CASE Read(i)
      BY <2>1, ReadStep DEF Read
    <2>2. CASE Claim(i)
      BY <2>2, ClaimStep DEF Claim
    <2>3. CASE Load(i)
      BY <2>3, LoadStep DEF Load
    <2>4. CASE Return(i)
      BY <2>4, ReturnStep DEF Return
    <2>5. CASE Publish(i)
      BY <2>5, PublishStep
    <2> QED
      BY <1>4, <2>1, <2>2, <2>3, <2>4, <2>5 DEF Proceed
  <1>5. ASSUME NEW i \in Instances,
               ReadFails(i) \/ ClaimFails(i) \/ PublishFails(i) \/ FlightFails(i)
        PROVE  CacheInv' /\ published' >= published
    BY <1>5, PublishStep, FailureStep
  <1>6. CASE UNCHANGED vars
    <2>1. FlightsOK'
      BY <1>6 DEF vars, FlightsOK, EtagsApart
    <2> QED
      BY <1>6, <2>1, StoreLeftAlone DEF vars, Bounds, TypeOK
  <1> QED
    BY <1>1, <1>2, <1>3, <1>4, <1>5, <1>6 DEF Next

LEMMA CacheInvariant == Spec => []CacheInv
PROOF
  <1>1. Init => CacheInv
    BY CacheInit
  <1>2. CacheInv /\ [Next]_vars => CacheInv'
    BY CacheStep
  <1> QED
    BY <1>1, <1>2, PTL DEF Spec

\* The store, the flights and the callers have their types: a flight never waits more often
\* than the retries allow, and nothing but what the code writes is in the store.
THEOREM CacheTypeCorrect == Spec => []TypeOK
PROOF
  <1>1. CacheInv => TypeOK
    BY DEF CacheInv
  <1> QED
    BY <1>1, CacheInvariant, PTL

\* Whatever the lifetimes and the session's times: an overview served from the store is not
\* past its lifetime, and the session's times leave its status as it says (cacheExpiry).
THEOREM SnapshotsServedAreCurrent == Spec => []ServedIsCurrent
PROOF
  <1>1. ASSUME CacheInv PROVE ServedIsCurrent
    <2> SUFFICES ASSUME Usable(store.entry, clock)
                 PROVE  Current(store.entry.overview, clock)
      BY DEF ServedIsCurrent, Current
    <2>1. clock \in Nat
      BY <1>1, CacheAssumption DEF CacheInv, TypeOK
    <2> QED
      BY <1>1, <2>1 DEF Usable, CacheInv, SnapshotOK
  <1> QED
    BY <1>1, CacheInvariant, PTL

\* However many instances there are and whatever fails, at most one of them loads under a
\* lease that still runs.
THEOREM OneInstanceRefreshes == Spec => []OneRefreshAtATime
PROOF
  <1>1. ASSUME CacheInv PROVE OneRefreshAtATime
    <2> SUFFICES ASSUME NEW i \in Instances, NEW j \in Instances, Refreshing(i), Refreshing(j)
                 PROVE  i = j
      BY DEF OneRefreshAtATime
    <2>1. /\ Holding(flights[i]) /\ flights[i].etag = store.etag
          /\ Holding(flights[j]) /\ flights[j].etag = store.etag
      BY <1>1, RefreshingHasTheStore
    <2> QED
      BY <1>1, <2>1 DEF CacheInv, FlightsOK, EtagsApart
  <1> QED
    BY <1>1, CacheInvariant, PTL

\* A writer whose lease another has taken over never puts an older snapshot in the place of
\* a newer one.
THEOREM PublicationsGoForward == Spec => PublishedNeverGoesBack
PROOF
  <1>1. CacheInv /\ [Next]_vars => published' >= published
    BY CacheStep
  <1> QED
    BY <1>1, CacheInvariant, PTL DEF Spec, PublishedNeverGoesBack
============================================================================
