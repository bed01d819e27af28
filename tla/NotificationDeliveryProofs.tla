--------------------- MODULE NotificationDeliveryProofs ---------------------
(***************************************************************************)
(* Nobody's notification is forgotten and none is sent more often than it  *)
(* was queued and deliveries failed, for any rows, deliveries, dispatches. *)
(***************************************************************************)
EXTENDS NotificationDelivery, FiniteSetTheorems, TLAPS

\* A row that will be tried again has been tried at most twice.
PendingMayBeTried ==
  \A r \in Rows : rows[r].status = "pending" => rows[r].attempts \in 0..(MaxAttempts - 1)

\* Until runs of an event overlap, a dispatch's delivery runs an event not yet finished, and
\* is the event's only one.
OneDeliveryPerEvent ==
  ~overlapped =>
    /\ \A p \in Deliverers : deliveries[p].by \in Dispatches => deliveries[p].by \in events
    /\ \A p, q \in Deliverers :
         deliveries[p].by \in Dispatches /\ deliveries[p].by = deliveries[q].by => p = q

\* What a delivery is to send: a dispatch the announcements, a request all it was made for.
ScopesAreWhole ==
  \A p \in Deliverers :
    /\ deliveries[p].step = "claim" /\ deliveries[p].by = "request" =>
         deliveries[p].limit = Cardinality(deliveries[p].scope)
    /\ deliveries[p] # Idle /\ deliveries[p].by # "request" =>
         deliveries[p].scope = Announcements
    /\ deliveries[p].step = "send" => deliveries[p].left \subseteq deliveries[p].scope

\* Whoever claimed the row r in the name of by still holds it, or died for good.
Minded(r, by) ==
  by \in lost \/ \E p \in Deliverers : deliveries[p].by = by /\ Holds(p, r)

\* The event e is yet to claim what nobody has claimed, or it has: it has no delivery past
\* its claim, or only ones whose batch is full and is followed by another.
StillToClaim(e) ==
  \A p \in Deliverers :
    deliveries[p].by = e /\ deliveries[p].step = "send" => HasMore(deliveries[p])

\* A claim of a dispatch is on an announcement, and is minded, or its event is unfinished
\* and is yet to claim it again.
DispatchesKnowTheirClaims ==
  \A r \in Rows, e \in Dispatches : rows[r].status = "pending" /\ rows[r].claim.by = e =>
    /\ r \in Announcements
    /\ Minded(r, e) \/ (e \in events /\ StillToClaim(e))

Untried(r) == rows[r].status = "pending" /\ rows[r].attempts = 0

\* A row claimed by a request and not tried is in the hands of a request.
RequestsHoldTheirClaims ==
  \A r \in Rows : Untried(r) /\ rows[r].claim.by = "request" => Minded(r, "request")

\* A row not claimed and not tried is about to be: by a request for it, or by an event.
UnclaimedIsAwaited ==
  \A r \in Rows : Untried(r) /\ rows[r].claim = Unclaimed =>
    \/ MayBeLost(r)
    \/ \E p \in Deliverers :
         deliveries[p].by = "request" /\ deliveries[p].step = "claim" /\ r \in deliveries[p].scope
    \/ r \in Announcements /\ \E e \in events : StillToClaim(e)

\* The inductive invariant behind NobodyIsForgotten.
HandsInv ==
  /\ TypeOK /\ PendingMayBeTried /\ ScopesAreWhole
  /\ DispatchesKnowTheirClaims /\ RequestsHoldTheirClaims /\ UnclaimedIsAwaited

\* The deliveries that hold a row and may yet send a copy of it, or leave it to be sent.
MaySend(r) ==
  {p \in Deliverers : Holds(p, r) /\ deliveries[p].outcome[r] \in {"unsent", "transient"}}

\* Whether somebody may claim a row while no claim expires: nobody has, or a dispatch has
\* that no delivery of it holds.
UpForGrabs(r) ==
  /\ rows[r].status = "pending"
  /\ \/ rows[r].claim = Unclaimed
     \/ /\ rows[r].claim.by \in Dispatches
        /\ \A p \in Deliverers : deliveries[p].by = rows[r].claim.by => ~Holds(p, r)

One(condition) == IF condition THEN 1 ELSE 0

\* The rows of which nothing is promised: the announcements, once runs of an event overlap.
Unpromised(r) == overlapped /\ r \in Announcements

\* The copies sent and those that may yet be are no more than asked for, but for failures.
CopiesAccountedFor ==
  clock <= Lease =>
    \A r \in Rows : ~Unpromised(r) =>
      copies[r] + Cardinality(MaySend(r)) + One(UpForGrabs(r)) <= asked[r] + failures

-----------------------------------------------------------------------------
(* Types.                                                                   *)

Names == Dispatches \cup {"request"}

\* The columns of a row, and its claim.
LEMMA RowFields ==
  ASSUME TypeOK, NEW r \in Rows
  PROVE  /\ rows[r].status \in Statuses \cup {"none"}
         /\ rows[r].attempts \in 0..MaxAttempts
         /\ rows[r].claim \in Claims
         /\ rows[r].claim.by \in Names \cup {"nobody"}
         /\ rows[r].claim.at \in Nat
         /\ rows[r].claim.by = "nobody" <=> rows[r].claim = Unclaimed
PROOF
  <1>1. rows[r] \in DeliveryRows
    BY DEF TypeOK
  <1>2. Unclaimed \in Claims /\ Unclaimed.by = "nobody" /\ Unclaimed.at \in Nat
    BY DEF Unclaimed, Claims
  <1>3. \A c \in Claims : /\ c.by \in Names \cup {"nobody"} /\ c.at \in Nat
                          /\ c.by = "nobody" <=> c = Unclaimed
    BY DeliveryAssumption DEF Claims, Unclaimed, Names
  <1> QED
    BY <1>1, <1>2, <1>3, DeliveryAssumption DEF NoRow, DeliveryRows

\* What a delivery that sends knows of a batch.
Batches(batch) ==
  [step : {"send"}, by : Dispatches \cup {"request"}, scope : SUBSET Rows, limit : Nat,
   size : Nat, left : SUBSET batch, attempts : [batch -> 0..(MaxAttempts - 1)], reachable : SUBSET batch,
   outcome : [batch -> Outcomes \cup {"unsent"}]]

LEMMA SendsHaveBatches ==
  \A delivery : delivery \in Sends <=> \E batch \in SUBSET Rows : delivery \in Batches(batch)
PROOF
  <1>1. ASSUME NEW delivery \in Sends
        PROVE  \E batch \in SUBSET Rows : delivery \in Batches(batch)
    <2>1. PICK batch \in SUBSET Rows : delivery.attempts \in [batch -> 0..(MaxAttempts - 1)]
      BY DEF Sends, Columns
    <2>2. PICK other \in SUBSET Rows : delivery.outcome \in [other -> Outcomes \cup {"unsent"}]
      BY DEF Sends, Columns
    <2>3. other = batch /\ delivery.left \subseteq batch /\ delivery.reachable \subseteq batch
      BY <2>1, <2>2 DEF Sends
    <2>4. delivery \in Batches(batch)
      BY <2>1, <2>2, <2>3 DEF Batches, Sends
    <2> QED
      BY <2>4
  <1>2. ASSUME NEW delivery, NEW batch \in SUBSET Rows, delivery \in Batches(batch)
        PROVE  delivery \in Sends
    <2>1. /\ delivery.attempts \in Columns(0..(MaxAttempts - 1))
          /\ delivery.outcome \in Columns(Outcomes \cup {"unsent"})
      BY <1>2 DEF Batches, Columns
    <2> QED
      BY <1>2, <2>1 DEF Batches, Sends
  <1> QED
    BY <1>1, <1>2

\* A delivery, by the step it has reached.
LEMMA DeliveryForms ==
  ASSUME TypeOK, NEW p \in Deliverers
  PROVE  /\ deliveries[p].step \in {"idle", "claim", "send"}
         /\ deliveries[p].step = "idle" <=> deliveries[p] = Idle
         /\ deliveries[p].by \in Names \cup {"nobody"}
         /\ deliveries[p].by = "nobody" <=> deliveries[p] = Idle
         /\ deliveries[p].step = "claim" =>
              deliveries[p] \in [step : {"claim"}, by : Names, scope : SUBSET Rows, limit : Nat]
         /\ deliveries[p].step = "send" =>
              \E batch \in SUBSET Rows : deliveries[p] \in Batches(batch)
PROOF
  <1>1. deliveries[p] \in Deliveries
    BY DEF TypeOK
  <1>2. CASE deliveries[p] = Idle
    BY <1>2 DEF Idle
  <1>3. CASE deliveries[p] \in [step : {"claim"}, by : Names, scope : SUBSET Rows, limit : Nat]
    BY <1>3, DeliveryAssumption DEF Idle, Names
  <1>4. CASE \E batch \in SUBSET Rows : deliveries[p] \in Batches(batch)
    BY <1>4, DeliveryAssumption DEF Idle, Batches, Names
  <1> QED
    BY <1>1, <1>2, <1>3, <1>4, SendsHaveBatches DEF Deliveries, Names

\* What a delivery that is sending has of its batch.
LEMMA SendFields ==
  ASSUME TypeOK, NEW p \in Deliverers, deliveries[p].step = "send"
  PROVE  /\ deliveries[p].by \in Names
         /\ deliveries[p].scope \in SUBSET Rows
         /\ deliveries[p].limit \in Nat /\ deliveries[p].size \in Nat
         /\ deliveries[p].left \in SUBSET Rows
         /\ \A r \in deliveries[p].left :
              /\ deliveries[p].attempts[r] \in 0..(MaxAttempts - 1)
              /\ deliveries[p].outcome[r] \in Outcomes \cup {"unsent"}
         /\ \A r \in deliveries[p].left : r \in DOMAIN deliveries[p].outcome
PROOF
  <1>1. PICK batch \in SUBSET Rows : deliveries[p] \in Batches(batch)
    BY DeliveryForms
  <1> QED
    BY <1>1 DEF Batches, Names

\* A delivery's next state is in the others' way no more than it was.
LEMMA GotoKeeps ==
  ASSUME TypeOK, NEW p \in Deliverers, NEW d, Goto(p, d)
  PROVE  /\ deliveries'[p] = d
         /\ \A q \in Deliverers \ {p} : deliveries'[q] = deliveries[q]
         /\ d \in Deliveries => deliveries' \in [Deliverers -> Deliveries]
PROOF
  BY DEF TypeOK, Goto

\* What a delivery starts from.
LEMMA StartForms ==
  /\ Idle \in Deliveries
  /\ \A scope \in SUBSET Rows : Request(scope) \in Deliveries
  /\ \A e \in Dispatches : Batch(e) \in Deliveries
  /\ \A scope \in SUBSET Rows : Cardinality(scope) \in Nat
PROOF
  <1>1. IsFiniteSet(Rows)
    BY DeliveryAssumption, FS_Union DEF Rows
  <1>2. \A scope \in SUBSET Rows : Cardinality(scope) \in Nat
    BY <1>1, FS_Subset, FS_CardinalityType
  <1>3. \A scope \in SUBSET Rows : Request(scope) \in Deliveries
    BY <1>2 DEF Request, Deliveries
  <1>4. \A e \in Dispatches : Batch(e) \in Deliveries
    BY DeliveryAssumption DEF Batch, Deliveries, Rows
  <1> QED
    BY <1>2, <1>3, <1>4 DEF Deliveries

-----------------------------------------------------------------------------
(* Every step keeps the types.                                              *)

TypeInv == TypeOK /\ PendingMayBeTried

\* A row as it is queued, claimed and recorded.
LEMMA RowForms ==
  ASSUME TypeInv, NEW r \in Rows
  PROVE  /\ Pending \in DeliveryRows /\ Pending.status = "pending" /\ Pending.attempts = 0
         /\ Pending.claim = Unclaimed
         /\ \A by \in Names : rows[r].status = "pending" =>
              [rows[r] EXCEPT !.claim = [by |-> by, at |-> clock]] \in DeliveryRows
         /\ \A status \in Statuses, attempts \in 0..MaxAttempts :
              [status |-> status, attempts |-> attempts, claim |-> Unclaimed] \in DeliveryRows
PROOF
  <1>1. Unclaimed \in Claims
    BY DEF Claims
  <1>2. \A by \in Names : [by |-> by, at |-> clock] \in Claims
    BY DEF Claims, Names, TypeInv, TypeOK
  <1>3. rows[r] \in DeliveryRows
    BY DEF TypeInv, TypeOK
  <1>4. rows[r].status = "pending" =>
          rows[r] \in [status : Statuses, attempts : 0..MaxAttempts, claim : Claims]
    BY <1>3 DEF DeliveryRows, NoRow
  <1>5. /\ Pending \in DeliveryRows /\ Pending.status = "pending" /\ Pending.attempts = 0
        /\ Pending.claim = Unclaimed
    BY <1>1, DeliveryAssumption DEF DeliveryRows, Pending, Statuses
  <1>6. \A by \in Names : rows[r].status = "pending" =>
          [rows[r] EXCEPT !.claim = [by |-> by, at |-> clock]] \in DeliveryRows
    BY <1>2, <1>4 DEF DeliveryRows
  <1>7. \A status \in Statuses, attempts \in 0..MaxAttempts :
          [status |-> status, attempts |-> attempts, claim |-> Unclaimed] \in DeliveryRows
    BY <1>1 DEF DeliveryRows
  <1> QED
    BY <1>5, <1>6, <1>7

LEMMA QueueTypes ==
  ASSUME TypeInv, NEW scope \in SUBSET Announcements, NEW e \in Dispatches, Queue(scope, e)
  PROVE  TypeInv'
PROOF
  <1>1. scope \subseteq Rows
    BY DEF Rows
  <1>2. rows' \in [Rows -> DeliveryRows] /\ asked' \in [Rows -> Nat]
    BY <1>1, RowForms DEF Queue, TypeInv, TypeOK
  <1>3. PendingMayBeTried'
    BY <1>1, RowForms, DeliveryAssumption DEF Queue, TypeInv, PendingMayBeTried
  <1>4. \/ /\ events' = events \cup {e} /\ runs' = [runs EXCEPT ![e] = 0]
           /\ failures' = failures /\ lost' = lost
        \/ /\ failures < MaxFailures /\ failures' = failures + 1
           /\ lost' = lost \cup {"request"} /\ events' = events /\ runs' = runs
    BY DEF Queue
  <1>5. events' \subseteq Dispatches /\ failures' \in 0..MaxFailures
    BY <1>4, DeliveryAssumption DEF TypeInv, TypeOK
  <1>6. lost' \subseteq Dispatches \cup {"request"} /\ runs' \in [Dispatches -> 0..(MaxRetries + 1)]
    BY <1>4, DeliveryAssumption DEF TypeInv, TypeOK
  <1> QED
    BY <1>2, <1>3, <1>5, <1>6 DEF Queue, TypeInv, TypeOK

LEMMA RequeueTypes ==
  ASSUME TypeInv, NEW p \in Deliverers, NEW scope \in SUBSET Rows, Requeue(p, scope),
         subscribed' \subseteq Rows
  PROVE  TypeInv'
PROOF
  <1>1. rows' \in [Rows -> DeliveryRows] /\ asked' \in [Rows -> Nat]
    BY RowForms DEF Requeue, TypeInv, TypeOK
  <1>2. PendingMayBeTried'
    BY RowForms, DeliveryAssumption DEF Requeue, TypeInv, PendingMayBeTried
  <1>3. deliveries' \in [Deliverers -> Deliveries]
    BY GotoKeeps, StartForms DEF Requeue, TypeInv
  <1> QED
    BY <1>1, <1>2, <1>3 DEF Requeue, TypeInv, TypeOK, platform

\* A step that leaves the rows alone and one delivery in a form there is.
LEMMA DeliveryTypes ==
  ASSUME TypeInv, NEW p \in Deliverers, NEW d \in Deliveries, Goto(p, d),
         UNCHANGED <<clock, rows, asked, told>>,
         copies' \in [Rows -> Nat], subscribed' \subseteq Rows, events' \subseteq Dispatches,
         runs' \in [Dispatches -> 0..(MaxRetries + 1)], overlapped' \in BOOLEAN,
         failures' \in 0..MaxFailures, lost' \subseteq Dispatches \cup {"request"}
  PROVE  TypeInv'
PROOF
  BY GotoKeeps DEF TypeInv, TypeOK, PendingMayBeTried

\* What a claim does: whom it is for, which rows it takes, and what is left of the others.
LEMMA ClaimGives ==
  ASSUME TypeInv, NEW p \in Deliverers, Claim(p)
  PROVE  LET delivery == deliveries[p]
             eligible == {r \in delivery.scope : Claimable(r, delivery.by)}
             size     == Lower(delivery.limit, Cardinality(eligible))
         IN  /\ delivery.by \in Names /\ delivery.scope \in SUBSET Rows /\ delivery.limit \in Nat
             /\ eligible \in SUBSET Rows /\ IsFiniteSet(eligible) /\ Cardinality(eligible) \in Nat
             /\ size \in Nat
             /\ \E batch \in SUBSET eligible :
                  /\ IsFiniteSet(batch) /\ Cardinality(batch) = size
                  /\ \A r \in Rows :
                       rows'[r] = IF r \in batch
                                  THEN [rows[r] EXCEPT !.claim = [by |-> delivery.by, at |-> clock]]
                                  ELSE rows[r]
                  /\ rows' \in [Rows -> DeliveryRows]
                  /\ deliveries'[p] \in Batches(batch)
                  /\ deliveries'[p].by = delivery.by /\ deliveries'[p].scope = delivery.scope
                  /\ deliveries'[p].limit = delivery.limit /\ deliveries'[p].size = size
                  /\ deliveries'[p].left = batch
                  /\ \A r \in batch : deliveries'[p].outcome[r] = "unsent"
PROOF
  <1> DEFINE delivery == deliveries[p]
             eligible == {r \in delivery.scope : Claimable(r, delivery.by)}
             size     == Lower(delivery.limit, Cardinality(eligible))
  <1>1. /\ delivery.by \in Names /\ delivery.scope \in SUBSET Rows /\ delivery.limit \in Nat
    BY DeliveryForms DEF Claim, TypeInv
  <1>2. eligible \in SUBSET Rows
    BY <1>1
  <1>3. IsFiniteSet(Rows)
    BY DeliveryAssumption, FS_Union DEF Rows
  <1>4. IsFiniteSet(eligible) /\ Cardinality(eligible) \in Nat
    BY <1>2, <1>3, FS_Subset, FS_CardinalityType
  <1>5. size \in Nat
    <2> HIDE DEF eligible, delivery
    <2> QED
      BY <1>1, <1>4 DEF Lower
  <1>6. PICK batch \in SUBSET eligible :
          /\ Cardinality(batch) = size
          /\ rows' = [r \in Rows |->
                        IF r \in batch
                        THEN [rows[r] EXCEPT !.claim = [by |-> delivery.by, at |-> clock]]
                        ELSE rows[r]]
          /\ Goto(p, [step |-> "send", by |-> delivery.by, scope |-> delivery.scope,
                      limit |-> delivery.limit, size |-> size, left |-> batch,
                      attempts |-> [r \in batch |-> rows[r].attempts],
                      reachable |-> batch \cap subscribed,
                      outcome |-> [r \in batch |-> "unsent"]])
    BY DEF Claim
  <1>7. IsFiniteSet(batch)
    BY <1>4, FS_Subset
  <1>8. \A r \in batch : /\ r \in Rows /\ rows[r].status = "pending"
                         /\ rows[r].attempts \in 0..(MaxAttempts - 1)
    BY <1>2 DEF Claimable, TypeInv, PendingMayBeTried
  <1>9. rows' \in [Rows -> DeliveryRows]
    <2> SUFFICES ASSUME NEW r \in Rows PROVE rows'[r] \in DeliveryRows
      BY <1>6
    <2>1. rows[r] \in DeliveryRows
      BY DEF TypeInv, TypeOK
    <2> HIDE DEF eligible, delivery, size
    <2>2. CASE r \in batch
      BY <1>1, <1>6, <1>8, <2>2, RowForms
    <2>3. CASE r \notin batch
      BY <1>6, <2>1, <2>3
    <2> QED
      BY <2>2, <2>3
  <1>10. deliveries'[p] =
           [step |-> "send", by |-> delivery.by, scope |-> delivery.scope,
            limit |-> delivery.limit, size |-> size, left |-> batch,
            attempts |-> [r \in batch |-> rows[r].attempts],
            reachable |-> batch \cap subscribed,
            outcome |-> [r \in batch |-> "unsent"]]
    <2> HIDE DEF eligible, delivery, size
    <2> QED
      BY <1>6, GotoKeeps DEF TypeInv
  <1> HIDE DEF eligible, delivery, size
  <1>11. deliveries'[p] \in Batches(batch)
    BY <1>1, <1>5, <1>8, <1>10 DEF Batches, Names
  <1>12. /\ deliveries'[p].by = delivery.by /\ deliveries'[p].scope = delivery.scope
         /\ deliveries'[p].limit = delivery.limit /\ deliveries'[p].size = size
         /\ deliveries'[p].left = batch
         /\ \A r \in batch : deliveries'[p].outcome[r] = "unsent"
    BY <1>10
  <1>13. \A r \in Rows :
           rows'[r] = IF r \in batch
                      THEN [rows[r] EXCEPT !.claim = [by |-> delivery.by, at |-> clock]]
                      ELSE rows[r]
    BY <1>6
  <1>14. \E b \in SUBSET eligible :
           /\ IsFiniteSet(b) /\ Cardinality(b) = size
           /\ \A r \in Rows :
                rows'[r] = IF r \in b
                           THEN [rows[r] EXCEPT !.claim = [by |-> delivery.by, at |-> clock]]
                           ELSE rows[r]
           /\ rows' \in [Rows -> DeliveryRows]
           /\ deliveries'[p] \in Batches(b)
           /\ deliveries'[p].by = delivery.by /\ deliveries'[p].scope = delivery.scope
           /\ deliveries'[p].limit = delivery.limit /\ deliveries'[p].size = size
           /\ deliveries'[p].left = b
           /\ \A r \in b : deliveries'[p].outcome[r] = "unsent"
    BY <1>6, <1>7, <1>9, <1>11, <1>12, <1>13
  <1> QED
    BY <1>1, <1>2, <1>4, <1>5, <1>14 DEF delivery, eligible, size

LEMMA ClaimTypes ==
  ASSUME TypeInv, NEW p \in Deliverers, Claim(p)
  PROVE  TypeInv'
PROOF
  <1>1. PICK batch \in SUBSET Rows :
          /\ \A r \in Rows :
               rows'[r] = IF r \in batch
                          THEN [rows[r] EXCEPT !.claim = [by |-> deliveries[p].by, at |-> clock]]
                          ELSE rows[r]
          /\ rows' \in [Rows -> DeliveryRows]
          /\ deliveries'[p] \in Batches(batch)
    BY ClaimGives
  <1>2. deliveries' \in [Deliverers -> Deliveries]
    <2>1. deliveries'[p] \in Deliveries
      BY <1>1, SendsHaveBatches DEF Deliveries
    <2>2. PICK d : Goto(p, d)
      BY DEF Claim
    <2> QED
      BY <2>1, <2>2, GotoKeeps DEF TypeInv
  <1>3. \A r \in Rows : rows'[r].status = rows[r].status /\ rows'[r].attempts = rows[r].attempts
    <2> SUFFICES ASSUME NEW r \in Rows
                 PROVE rows'[r].status = rows[r].status /\ rows'[r].attempts = rows[r].attempts
      OBVIOUS
    <2>1. rows[r] \in DeliveryRows
      BY DEF TypeInv, TypeOK
    <2> QED
      BY <1>1, <2>1 DEF DeliveryRows, NoRow
  <1> QED
    BY <1>1, <1>2, <1>3 DEF Claim, TypeInv, TypeOK, PendingMayBeTried, platform

\* A row handled leaves its delivery's batch, and the rest of the batch is as it was.
LEMMA HandledGives ==
  ASSUME TypeInv, NEW p \in Deliverers, deliveries[p].step = "send",
         NEW r \in deliveries[p].left, HandledBy(p, r)
  PROVE  /\ deliveries' \in [Deliverers -> Deliveries]
         /\ \A q \in Deliverers \ {p} : deliveries'[q] = deliveries[q]
         /\ deliveries'[p].step = "send" /\ deliveries'[p].by = deliveries[p].by
         /\ deliveries'[p].scope = deliveries[p].scope
         /\ deliveries'[p].limit = deliveries[p].limit
         /\ deliveries'[p].size = deliveries[p].size
         /\ deliveries'[p].left = deliveries[p].left \ {r}
         /\ \A q \in deliveries[p].left \ {r} :
              deliveries'[p].outcome[q] = deliveries[p].outcome[q]
PROOF
  <1> DEFINE d == [deliveries[p] EXCEPT !.left = @ \ {r}, !.outcome[r] = "unsent", !.attempts[r] = 0]
  <1>1. PICK batch \in SUBSET Rows : deliveries[p] \in Batches(batch)
    BY DeliveryForms DEF TypeInv
  <1>2. r \in batch
    BY <1>1 DEF Batches
  <1>3. d \in Batches(batch)
    <2>1. /\ [deliveries[p].outcome EXCEPT ![r] = "unsent"] \in [batch -> Outcomes \cup {"unsent"}]
          /\ [deliveries[p].attempts EXCEPT ![r] = 0] \in [batch -> 0..(MaxAttempts - 1)]
          /\ deliveries[p].left \ {r} \in SUBSET batch
      BY <1>1, <1>2, DeliveryAssumption DEF Batches
    <2>2. d = [deliveries[p] EXCEPT !.left = deliveries[p].left \ {r},
                                    !.outcome = [deliveries[p].outcome EXCEPT ![r] = "unsent"],
                                    !.attempts = [deliveries[p].attempts EXCEPT ![r] = 0]]
      BY <1>1 DEF Batches
    <2> HIDE DEF d
    <2> QED
      BY <1>1, <2>1, <2>2 DEF Batches
  <1>4. /\ d.step = "send" /\ d.by = deliveries[p].by /\ d.scope = deliveries[p].scope
        /\ d.limit = deliveries[p].limit /\ d.size = deliveries[p].size
        /\ d.left = deliveries[p].left \ {r}
        /\ \A q \in deliveries[p].left \ {r} : d.outcome[q] = deliveries[p].outcome[q]
    BY <1>1 DEF Batches
  <1>5. Goto(p, d)
    BY DEF HandledBy
  <1> HIDE DEF d
  <1>6. d \in Deliveries
    BY <1>3, SendsHaveBatches DEF Deliveries
  <1> QED
    BY <1>4, <1>5, <1>6, GotoKeeps DEF TypeInv

\* A row sent, or tried, stays in its delivery's batch with what came of it.
LEMMA SendGives ==
  ASSUME TypeInv, NEW p \in Deliverers, NEW r \in Rows, NEW outcome \in Outcomes,
         Send(p, r, outcome)
  PROVE  /\ deliveries[p].step = "send" /\ r \in deliveries[p].left
         /\ deliveries[p].outcome[r] = "unsent"
         /\ deliveries' \in [Deliverers -> Deliveries]
         /\ \A q \in Deliverers \ {p} : deliveries'[q] = deliveries[q]
         /\ deliveries'[p].step = "send" /\ deliveries'[p].by = deliveries[p].by
         /\ deliveries'[p].scope = deliveries[p].scope
         /\ deliveries'[p].limit = deliveries[p].limit
         /\ deliveries'[p].size = deliveries[p].size
         /\ deliveries'[p].left = deliveries[p].left
         /\ deliveries'[p].outcome[r] = outcome
         /\ \A q \in deliveries[p].left \ {r} :
              deliveries'[p].outcome[q] = deliveries[p].outcome[q]
PROOF
  <1> DEFINE d == [deliveries[p] EXCEPT !.outcome[r] = outcome]
  <1>1. /\ deliveries[p].step = "send" /\ r \in deliveries[p].left
        /\ deliveries[p].outcome[r] = "unsent"
    BY DEF Send, Sending
  <1>2. PICK batch \in SUBSET Rows : deliveries[p] \in Batches(batch)
    BY <1>1, DeliveryForms DEF TypeInv
  <1>3. r \in batch
    BY <1>1, <1>2 DEF Batches
  <1>4. d \in Batches(batch)
    BY <1>2, <1>3 DEF Batches
  <1>5. /\ d.step = "send" /\ d.by = deliveries[p].by /\ d.scope = deliveries[p].scope
        /\ d.limit = deliveries[p].limit /\ d.size = deliveries[p].size
        /\ d.left = deliveries[p].left /\ d.outcome[r] = outcome
        /\ \A q \in deliveries[p].left \ {r} : d.outcome[q] = deliveries[p].outcome[q]
    BY <1>2, <1>3 DEF Batches
  <1>6. Goto(p, d)
    BY DEF Send
  <1> HIDE DEF d
  <1>7. d \in Deliveries
    BY <1>4, SendsHaveBatches DEF Deliveries
  <1> QED
    BY <1>1, <1>5, <1>6, <1>7, GotoKeeps DEF TypeInv

LEMMA SendTypes ==
  ASSUME TypeInv, NEW p \in Deliverers, NEW r \in Rows, NEW outcome \in Outcomes,
         Send(p, r, outcome)
  PROVE  TypeInv'
PROOF
  <1>1. deliveries' \in [Deliverers -> Deliveries]
    BY SendGives
  <1>2. told' \in [Rows -> Nat] /\ copies' \in [Rows -> Nat]
    BY DEF Send, TypeInv, TypeOK
  <1> QED
    BY <1>1, <1>2 DEF Send, TypeInv, TypeOK, PendingMayBeTried, platform

\* What recording gives a row: pending again only when it was tried less than three times.
LEMMA RecordedTypes ==
  ASSUME TypeInv, NEW r \in Rows, NEW status \in Statuses, NEW attempts \in 0..MaxAttempts,
         status = "pending" => attempts < MaxAttempts,
         Recorded(r, status, attempts)
  PROVE  /\ rows' \in [Rows -> DeliveryRows] /\ PendingMayBeTried'
         /\ rows'[r] = [status |-> status, attempts |-> attempts, claim |-> Unclaimed]
         /\ \A q \in Rows \ {r} : rows'[q] = rows[q]
PROOF
  <1>1. rows' \in [Rows -> DeliveryRows]
    BY RowForms DEF Recorded, TypeInv, TypeOK
  <1>2. rows'[r] = [status |-> status, attempts |-> attempts, claim |-> Unclaimed]
    BY DEF Recorded, TypeInv, TypeOK
  <1>3. \A q \in Rows \ {r} : rows'[q] = rows[q]
    BY DEF Recorded, TypeInv, TypeOK
  <1> QED
    BY <1>1, <1>2, <1>3, DeliveryAssumption DEF PendingMayBeTried, TypeInv

LEMMA SkipTypes ==
  ASSUME TypeInv, NEW p \in Deliverers, NEW r \in Rows, Skip(p, r)
  PROVE  /\ TypeInv'
         /\ deliveries[p].step = "send" /\ r \in deliveries[p].left
         /\ rows'[r].status = "skipped"
         /\ \A q \in Rows \ {r} : rows'[q] = rows[q]
PROOF
  <1>1. deliveries[p].step = "send" /\ r \in deliveries[p].left
    BY DEF Skip, Sending
  <1>2. rows[r].attempts \in 0..MaxAttempts
    BY RowFields DEF TypeInv
  <1>3. "skipped" \in Statuses /\ Recorded(r, "skipped", rows[r].attempts)
    BY DEF Statuses, Skip
  <1>4. /\ rows' \in [Rows -> DeliveryRows] /\ PendingMayBeTried'
        /\ rows'[r].status = "skipped"
        /\ \A q \in Rows \ {r} : rows'[q] = rows[q]
    <2> DEFINE attempts == rows[r].attempts
    <2>1. attempts \in 0..MaxAttempts /\ Recorded(r, "skipped", attempts)
      BY <1>2, <1>3
    <2> HIDE DEF attempts
    <2>2. /\ rows' \in [Rows -> DeliveryRows] /\ PendingMayBeTried'
          /\ rows'[r] = [status |-> "skipped", attempts |-> attempts, claim |-> Unclaimed]
          /\ \A q \in Rows \ {r} : rows'[q] = rows[q]
      BY <1>3, <2>1, RecordedTypes
    <2> QED
      BY <2>2
  <1>5. deliveries' \in [Deliverers -> Deliveries]
    BY <1>1, HandledGives DEF Skip
  <1> QED
    BY <1>1, <1>4, <1>5 DEF Skip, TypeInv, TypeOK, platform

LEMMA RecordTypes ==
  ASSUME TypeInv, NEW p \in Deliverers, NEW r \in Rows, Record(p, r)
  PROVE  /\ TypeInv'
         /\ deliveries[p].step = "send" /\ r \in deliveries[p].left
         /\ deliveries[p].outcome[r] \in Outcomes
         /\ rows'[r].attempts \in 1..MaxAttempts
         /\ failures' = failures \/ failures' = failures + 1
         /\ rows'[r].status = "pending" =>
              deliveries[p].outcome[r] = "transient" \/ failures' = failures + 1
         /\ rows'[r].claim = Unclaimed
         /\ \A q \in Rows \ {r} : rows'[q] = rows[q]
PROOF
  <1> DEFINE outcome  == deliveries[p].outcome[r]
             attempts == deliveries[p].attempts[r] + 1
  <1>1. /\ deliveries[p].step = "send" /\ r \in deliveries[p].left /\ outcome # "unsent"
        /\ HandledBy(p, r) /\ subscribed' \subseteq Rows
    BY DEF Record, Sending, TypeInv, TypeOK
  <1>2. outcome \in Outcomes /\ attempts \in 1..MaxAttempts
    BY <1>1, SendFields, DeliveryAssumption DEF TypeInv
  <1>3. PICK known \in Outcomes :
          /\ Recorded(r, StatusAfter(known, attempts), attempts)
          /\ \/ known = outcome /\ failures' = failures
             \/ failures < MaxFailures /\ failures' = failures + 1
    <2>1. CASE Recorded(r, StatusAfter(outcome, attempts), attempts) /\ failures' = failures
      BY <1>2, <2>1
    <2>2. CASE /\ Recorded(r, StatusAfter("transient", attempts), attempts)
               /\ failures < MaxFailures /\ failures' = failures + 1
      BY <2>2 DEF Outcomes
    <2> QED
      BY <2>1, <2>2 DEF Record
  <1> HIDE DEF outcome, attempts
  <1>4. /\ StatusAfter(known, attempts) \in Statuses
        /\ StatusAfter(known, attempts) = "pending" => known = "transient" /\ attempts < MaxAttempts
    BY <1>2, <1>3 DEF StatusAfter, Outcomes, Statuses
  <1>5. /\ rows' \in [Rows -> DeliveryRows] /\ PendingMayBeTried'
        /\ rows'[r] = [status |-> StatusAfter(known, attempts), attempts |-> attempts,
                       claim |-> Unclaimed]
        /\ \A q \in Rows \ {r} : rows'[q] = rows[q]
    <2> DEFINE status == StatusAfter(known, attempts)
    <2>1. /\ status \in Statuses /\ attempts \in 0..MaxAttempts
          /\ status = "pending" => attempts < MaxAttempts
          /\ Recorded(r, status, attempts)
      BY <1>2, <1>3, <1>4
    <2> HIDE DEF status
    <2>2. /\ rows' \in [Rows -> DeliveryRows] /\ PendingMayBeTried'
          /\ rows'[r] = [status |-> status, attempts |-> attempts, claim |-> Unclaimed]
          /\ \A q \in Rows \ {r} : rows'[q] = rows[q]
      BY <2>1, RecordedTypes
    <2> QED
      BY <2>2 DEF status
  <1>6. deliveries' \in [Deliverers -> Deliveries]
    BY <1>1, HandledGives
  <1>7. failures' \in 0..MaxFailures /\ (failures' = failures \/ failures' = failures + 1)
    BY <1>3, DeliveryAssumption DEF TypeInv, TypeOK
  <1>8. TypeInv'
    BY <1>1, <1>5, <1>6, <1>7 DEF Record, TypeInv, TypeOK, platform
  <1> QED
    BY <1>1, <1>2, <1>3, <1>4, <1>5, <1>7, <1>8 DEF outcome

\* The batch is done: the delivery is over, with its event, or goes on to another batch.
LEMMA FinishGives ==
  ASSUME TypeInv, NEW p \in Deliverers, Finish(p)
  PROVE  /\ TypeInv'
         /\ deliveries[p].step = "send" /\ deliveries[p].left = {}
         /\ \A q \in Deliverers \ {p} : deliveries'[q] = deliveries[q]
         /\ \/ /\ deliveries[p].by \in Dispatches /\ HasMore(deliveries[p])
               /\ deliveries'[p] = Batch(deliveries[p].by) /\ events' = events
            \/ /\ deliveries[p].by = "request" \/ ~HasMore(deliveries[p])
               /\ deliveries'[p] = Idle /\ events' = events \ {deliveries[p].by}
PROOF
  <1>1. deliveries[p].step = "send" /\ deliveries[p].left = {} /\ deliveries[p].by \in Names
    BY SendFields DEF Finish, TypeInv
  <1>2. CASE deliveries[p].by # "request" /\ HasMore(deliveries[p])
    <2>1. deliveries[p].by \in Dispatches
      BY <1>1, <1>2 DEF Names
    <2>2. Goto(p, Batch(deliveries[p].by)) /\ events' = events
      BY <1>2 DEF Finish
    <2>3. Batch(deliveries[p].by) \in Deliveries
      BY <2>1, StartForms
    <2>4. TypeInv'
      BY <2>2, <2>3, DeliveryTypes DEF Finish, TypeInv, TypeOK
    <2> QED
      BY <1>1, <1>2, <2>1, <2>2, <2>4, GotoKeeps DEF TypeInv
  <1>3. CASE ~ (deliveries[p].by # "request" /\ HasMore(deliveries[p]))
    <2>1. Goto(p, Idle) /\ events' = events \ {deliveries[p].by}
      BY <1>3 DEF Finish
    <2>2. TypeInv'
      BY <2>1, StartForms, DeliveryTypes DEF Finish, TypeInv, TypeOK
    <2> QED
      BY <1>1, <1>3, <2>1, <2>2, GotoKeeps DEF TypeInv
  <1> QED
    BY <1>2, <1>3

\* What a death does to the platform's books: it loses the delivery when it is not run
\* again, and the event with it, unless another run of it is in flight.
LEMMA DieGives ==
  ASSUME TypeInv, NEW p \in Deliverers, Die(p)
  PROVE  /\ deliveries'[p] = Idle /\ deliveries[p].by \in Names
         /\ \A q \in Deliverers \ {p} : deliveries'[q] = deliveries[q]
         /\ events' \in {events, events \ {deliveries[p].by}}
         /\ lost' \in {lost, lost \cup {deliveries[p].by}}
         /\ \/ /\ deliveries[p].by \in events /\ ~Joined(p) /\ events' = events
            \/ deliveries[p].by \in lost'
         /\ Joined(p) => events' = events
         /\ rows' = rows /\ overlapped' = overlapped
PROOF
  <1>1. deliveries[p].by \in Names
    BY DeliveryForms DEF Die, TypeInv, Names
  <1>2. /\ IF RunAgain(p) THEN lost' = lost ELSE lost' = lost \cup {deliveries[p].by}
        /\ IF RunAgain(p) \/ Joined(p) THEN events' = events
           ELSE events' = events \ {deliveries[p].by}
        /\ Goto(p, Idle) /\ rows' = rows /\ overlapped' = overlapped
    BY DEF Die
  <1>3. RunAgain(p) => deliveries[p].by \in events /\ ~Joined(p)
    BY DEF RunAgain
  <1> QED
    BY <1>1, <1>2, <1>3, GotoKeeps DEF TypeInv

LEMMA DieTypes ==
  ASSUME TypeInv, NEW p \in Deliverers, Die(p)
  PROVE  TypeInv'
PROOF
  <1>1. Goto(p, Idle) /\ failures' \in 0..MaxFailures
    BY DeliveryAssumption DEF Die, TypeInv, TypeOK
  <1>2. lost' \subseteq Dispatches \cup {"request"} /\ events' \subseteq Dispatches
    BY DieGives DEF TypeInv, TypeOK, Names
  <1> QED
    BY <1>1, <1>2, StartForms, DeliveryTypes DEF Die, TypeInv, TypeOK

LEMMA TypesKept ==
  ASSUME TypeInv, [Next]_vars
  PROVE  TypeInv'
PROOF
  <1>1. CASE Tick
    BY <1>1, DeliveryAssumption
       DEF Tick, TypeInv, TypeOK, PendingMayBeTried, DeliveryRows, Claims, platform
  <1>2. ASSUME NEW scope \in SUBSET Announcements, NEW e \in Dispatches, Queue(scope, e)
        PROVE  TypeInv'
    BY <1>2, QueueTypes
  <1>3. ASSUME NEW r \in Rows, Unsubscribe(r) PROVE TypeInv'
    BY <1>3 DEF Unsubscribe, TypeInv, TypeOK, PendingMayBeTried, platform
  <1>4. ASSUME NEW p \in Deliverers, NEW scope \in SUBSET Calls, Call(p, scope) PROVE TypeInv'
    <2>1. scope \in SUBSET Rows /\ subscribed' \subseteq Rows
      BY <1>4 DEF Call, Rows, TypeInv, TypeOK
    <2> QED
      BY <1>4, <2>1, RequeueTypes DEF Call
  <1>5. ASSUME NEW p \in Deliverers, NEW r \in Rows, Subscribe(p, r) PROVE TypeInv'
    <2>1. {r} \in SUBSET Rows /\ subscribed' \subseteq Rows
      BY <1>5 DEF Subscribe, TypeInv, TypeOK
    <2> QED
      BY <1>5, <2>1, RequeueTypes DEF Subscribe
  <1>6. ASSUME NEW p \in Deliverers, NEW e \in Dispatches, StartDispatch(p, e) PROVE TypeInv'
    <2>1. runs' \in [Dispatches -> 0..(MaxRetries + 1)]
      <3>1. runs[e] + 1 \in 0..(MaxRetries + 1)
        BY <1>6, DeliveryAssumption DEF StartDispatch, TypeInv, TypeOK
      <3> QED
        BY <1>6, <3>1 DEF StartDispatch, TypeInv, TypeOK
    <2>2. overlapped' \in BOOLEAN
      BY <1>6 DEF StartDispatch, TypeInv, TypeOK, Running
    <2> QED
      BY <1>6, <2>1, <2>2, StartForms, DeliveryTypes DEF StartDispatch, TypeInv, TypeOK
  <1>7. ASSUME NEW p \in Deliverers, Proceed(p) PROVE TypeInv'
    BY <1>7, ClaimTypes, SkipTypes, RecordTypes, SendTypes, FinishGives DEF Proceed
  <1>8. ASSUME NEW p \in Deliverers, Die(p) PROVE TypeInv'
    BY <1>8, DieTypes
  <1>9. CASE UNCHANGED vars
    BY <1>9 DEF vars, TypeInv, TypeOK, PendingMayBeTried, platform
  <1> QED
    BY <1>1, <1>2, <1>3, <1>4, <1>5, <1>6, <1>7, <1>8, <1>9 DEF Next

-----------------------------------------------------------------------------
(* Dispatches and what deliveries are for.                                  *)

\* What a step of a delivery that goes on sending keeps of it.
GoesOn(p) ==
  /\ deliveries[p].step = "send" /\ deliveries'[p].step = "send"
  /\ deliveries'[p].by = deliveries[p].by
  /\ deliveries'[p].scope = deliveries[p].scope
  /\ deliveries'[p].limit = deliveries[p].limit
  /\ deliveries'[p].size = deliveries[p].size
  /\ deliveries'[p].left \subseteq deliveries[p].left

\* A sending step, whether it sends, skips or records.
LEMMA SendingGoesOn ==
  ASSUME TypeInv, NEW p \in Deliverers, NEW r \in Rows,
         Skip(p, r) \/ Record(p, r) \/ \E outcome \in Outcomes : Send(p, r, outcome)
  PROVE  /\ GoesOn(p)
         /\ \A q \in Deliverers \ {p} : deliveries'[q] = deliveries[q]
         /\ events' = events /\ lost' = lost /\ overlapped' = overlapped
         /\ clock' = clock /\ asked' = asked
PROOF
  <1>1. CASE Skip(p, r)
    BY <1>1, SkipTypes, HandledGives DEF Skip, GoesOn, platform
  <1>2. CASE Record(p, r)
    <2>1. /\ deliveries[p].step = "send" /\ r \in deliveries[p].left /\ HandledBy(p, r)
          /\ events' = events /\ lost' = lost /\ overlapped' = overlapped
          /\ clock' = clock /\ asked' = asked
      BY <1>2, RecordTypes DEF Record, platform
    <2> QED
      BY <2>1, HandledGives DEF GoesOn
  <1>3. CASE \E outcome \in Outcomes : Send(p, r, outcome)
    <2>1. PICK outcome \in Outcomes : Send(p, r, outcome)
      BY <1>3
    <2>2. /\ events' = events /\ lost' = lost /\ overlapped' = overlapped
          /\ clock' = clock /\ asked' = asked
      BY <2>1 DEF Send, platform
    <2> QED
      BY <2>1, <2>2, SendGives DEF GoesOn
  <1> QED
    BY <1>1, <1>2, <1>3

\* A claim goes on to send for whom and what it was made.
LEMMA ClaimGoesOn ==
  ASSUME TypeInv, NEW p \in Deliverers, Claim(p)
  PROVE  /\ deliveries[p].step = "claim" /\ deliveries'[p].step = "send"
         /\ deliveries[p].by \in Names
         /\ deliveries'[p].by = deliveries[p].by
         /\ deliveries'[p].scope = deliveries[p].scope
         /\ deliveries'[p].left \subseteq deliveries[p].scope
         /\ \A q \in Deliverers \ {p} : deliveries'[q] = deliveries[q]
         /\ events' = events /\ failures' = failures /\ lost' = lost
         /\ overlapped' = overlapped
         /\ clock' = clock /\ asked' = asked /\ copies' = copies
PROOF
  <1>1. PICK d : Goto(p, d)
    BY DEF Claim
  <1>2. \A q \in Deliverers \ {p} : deliveries'[q] = deliveries[q]
    BY <1>1, GotoKeeps DEF TypeInv
  <1>3. deliveries'[p].step = "send"
    BY ClaimGives DEF Batches
  <1>4. /\ deliveries'[p].by = deliveries[p].by /\ deliveries[p].by \in Names
        /\ deliveries'[p].scope = deliveries[p].scope
        /\ deliveries'[p].left \subseteq deliveries[p].scope
    BY ClaimGives
  <1> QED
    BY <1>2, <1>3, <1>4 DEF Claim, platform

\* A delivery that a request begins is no dispatch's.
LEMMA RequeueGives ==
  ASSUME TypeInv, NEW p \in Deliverers, NEW scope, Requeue(p, scope)
  PROVE  /\ deliveries[p] = Idle
         /\ deliveries'[p] = Request(scope)
         /\ deliveries'[p].by = "request" /\ deliveries'[p].step = "claim"
         /\ deliveries'[p].scope = scope /\ deliveries'[p].limit = Cardinality(scope)
         /\ \A q \in Deliverers \ {p} : deliveries'[q] = deliveries[q]
         /\ events' = events /\ lost' = lost /\ overlapped' = overlapped
PROOF
  BY GotoKeeps DEF Requeue, Request, TypeInv, platform

LEMMA StartGives ==
  ASSUME TypeInv, NEW p \in Deliverers, NEW e \in Dispatches, StartDispatch(p, e)
  PROVE  /\ deliveries[p] = Idle
         /\ e \in events
         /\ ~overlapped' => ~overlapped /\ \A q \in Deliverers : deliveries[q].by # e
         /\ deliveries'[p] = Batch(e)
         /\ deliveries'[p].by = e /\ deliveries'[p].step = "claim"
         /\ deliveries'[p].scope = Announcements
         /\ \A q \in Deliverers \ {p} : deliveries'[q] = deliveries[q]
         /\ events' = events /\ lost' = lost /\ rows' = rows
PROOF
  <1>1. ~overlapped' => ~overlapped /\ \A q \in Deliverers : deliveries[q].by # e
    BY DEF StartDispatch, Running
  <1> QED
    BY <1>1, GotoKeeps DEF StartDispatch, Batch, TypeInv

LEMMA EventsKept ==
  ASSUME TypeInv, OneDeliveryPerEvent, [Next]_vars
  PROVE  OneDeliveryPerEvent'
PROOF
  <1> DEFINE Apart == /\ \A p \in Deliverers :
                           deliveries[p].by \in Dispatches => deliveries[p].by \in events
                      /\ \A p, q \in Deliverers :
                           deliveries[p].by \in Dispatches /\ deliveries[p].by = deliveries[q].by =>
                             p = q
  <1> SUFFICES ASSUME ~overlapped' PROVE Apart'
    BY DEF OneDeliveryPerEvent
  <1>0. ~overlapped => Apart
    BY DEF OneDeliveryPerEvent
  <1>1. ASSUME overlapped' = overlapped, events \subseteq events',
               \A q \in Deliverers : \/ deliveries'[q].by = deliveries[q].by
                                     \/ deliveries'[q].by \notin Dispatches
        PROVE  Apart'
    BY <1>0, <1>1
  <1>2. CASE Tick
    BY <1>1, <1>2 DEF Tick, platform
  <1>3. ASSUME NEW scope \in SUBSET Announcements, NEW e \in Dispatches, Queue(scope, e)
        PROVE  Apart'
    BY <1>1, <1>3 DEF Queue
  <1>4. ASSUME NEW r \in Rows, Unsubscribe(r) PROVE Apart'
    BY <1>1, <1>4 DEF Unsubscribe, platform
  <1>5. ASSUME NEW p \in Deliverers, NEW scope, Requeue(p, scope) PROVE Apart'
    BY <1>1, <1>5, RequeueGives, DeliveryAssumption
  <1>6. ASSUME NEW p \in Deliverers, NEW e \in Dispatches, StartDispatch(p, e)
        PROVE  Apart'
    BY <1>0, <1>6, StartGives
  <1>7. ASSUME NEW p \in Deliverers, Claim(p) PROVE Apart'
    BY <1>1, <1>7, ClaimGoesOn
  <1>8. ASSUME NEW p \in Deliverers, NEW r \in Rows,
               Skip(p, r) \/ Record(p, r) \/ \E outcome \in Outcomes : Send(p, r, outcome)
        PROVE  Apart'
    BY <1>1, <1>8, SendingGoesOn DEF GoesOn
  <1>9. ASSUME NEW p \in Deliverers, Finish(p) PROVE Apart'
    <2>1. overlapped' = overlapped /\ \A q \in Deliverers \ {p} : deliveries'[q] = deliveries[q]
      BY <1>9, FinishGives DEF Finish
    <2>2. CASE /\ deliveries[p].by \in Dispatches /\ HasMore(deliveries[p])
               /\ deliveries'[p] = Batch(deliveries[p].by) /\ events' = events
      BY <1>1, <2>1, <2>2 DEF Batch
    <2>3. CASE deliveries'[p] = Idle /\ events' = events \ {deliveries[p].by}
      BY <1>0, <2>1, <2>3, DeliveryAssumption DEF Idle
    <2> QED
      BY <1>9, <2>2, <2>3, FinishGives
  <1>10. ASSUME NEW p \in Deliverers, Die(p) PROVE Apart'
    <2>1. /\ deliveries'[p].by \notin Dispatches /\ overlapped' = overlapped
          /\ \A q \in Deliverers \ {p} : deliveries'[q] = deliveries[q]
      BY <1>10, DieGives, DeliveryAssumption DEF Idle
    <2>2. events' = events \/ events' = events \ {deliveries[p].by}
      BY <1>10, DieGives
    <2> QED
      BY <1>0, <2>1, <2>2
  <1>11. CASE UNCHANGED vars
    BY <1>1, <1>11 DEF vars, platform
  <1> QED
    BY <1>2, <1>3, <1>4, <1>5, <1>6, <1>7, <1>8, <1>9, <1>10, <1>11
       DEF Next, Proceed, Call, Subscribe

LEMMA ScopesKept ==
  ASSUME TypeInv, ScopesAreWhole, [Next]_vars
  PROVE  ScopesAreWhole'
PROOF
  <1> DEFINE Whole(d) ==
        /\ d.step = "claim" /\ d.by = "request" => d.limit = Cardinality(d.scope)
        /\ d # Idle /\ d.by # "request" => d.scope = Announcements
        /\ d.step = "send" => d.left \subseteq d.scope
  <1>1. \A p \in Deliverers : Whole(deliveries[p])
    BY DEF ScopesAreWhole
  <1>2. ASSUME NEW p \in Deliverers, Whole(deliveries'[p]),
               \A q \in Deliverers \ {p} : deliveries'[q] = deliveries[q]
        PROVE  ScopesAreWhole'
    BY <1>1, <1>2 DEF ScopesAreWhole
  <1>3. ASSUME deliveries' = deliveries PROVE ScopesAreWhole'
    BY <1>3 DEF ScopesAreWhole
  <1>4. CASE Tick
    BY <1>3, <1>4 DEF Tick
  <1>5. ASSUME NEW scope, NEW e, Queue(scope, e) PROVE ScopesAreWhole'
    BY <1>3, <1>5 DEF Queue
  <1>6. ASSUME NEW r, Unsubscribe(r) PROVE ScopesAreWhole'
    BY <1>3, <1>6 DEF Unsubscribe
  <1>7. ASSUME NEW p \in Deliverers, NEW scope, Requeue(p, scope) PROVE ScopesAreWhole'
    BY <1>2, <1>7, RequeueGives
  <1>8. ASSUME NEW p \in Deliverers, NEW e \in Dispatches, StartDispatch(p, e) PROVE ScopesAreWhole'
    <2>1. Whole(deliveries'[p])
      BY <1>8, StartGives, DeliveryAssumption
    <2> QED
      BY <1>2, <1>8, <2>1, StartGives
  <1>9. ASSUME NEW p \in Deliverers, Claim(p) PROVE ScopesAreWhole'
    <2>1. deliveries[p] # Idle
      BY <1>9 DEF Claim, Idle
    <2>2. Whole(deliveries'[p])
      BY <1>1, <1>9, <2>1, ClaimGoesOn
    <2> QED
      BY <1>2, <1>9, <2>2, ClaimGoesOn
  <1>10. ASSUME NEW p \in Deliverers, NEW r \in Rows,
                Skip(p, r) \/ Record(p, r) \/ \E outcome \in Outcomes : Send(p, r, outcome)
         PROVE  ScopesAreWhole'
    <2>1. deliveries[p] # Idle /\ GoesOn(p)
      BY <1>10, SendingGoesOn DEF GoesOn, Idle
    <2>2. Whole(deliveries'[p])
      BY <1>1, <2>1 DEF GoesOn
    <2> QED
      BY <1>2, <1>10, <2>2, SendingGoesOn
  <1>11. ASSUME NEW p \in Deliverers, Finish(p) PROVE ScopesAreWhole'
    <2>1. Whole(deliveries'[p])
      <3>1. Whole(Idle) /\ \A e \in Dispatches : Whole(Batch(e))
        BY DeliveryAssumption DEF Batch, Idle
      <3> QED
        BY <1>11, <3>1, FinishGives
    <2> QED
      BY <1>2, <1>11, <2>1, FinishGives
  <1>12. ASSUME NEW p \in Deliverers, Die(p) PROVE ScopesAreWhole'
    <2>1. Whole(deliveries'[p])
      BY <1>12, DieGives DEF Idle
    <2> QED
      BY <1>2, <1>12, <2>1, DieGives
  <1>13. CASE UNCHANGED vars
    BY <1>3, <1>13 DEF vars
  <1> QED
    BY <1>4, <1>5, <1>6, <1>7, <1>8, <1>9, <1>10, <1>11, <1>12, <1>13
       DEF Next, Proceed, Call, Subscribe

-----------------------------------------------------------------------------
(* Nobody is forgotten.                                                     *)

\* A claim leaves a row it may take only when its batch is full, and a request's never is.
LEMMA ClaimTakesAll ==
  ASSUME TypeInv, ScopesAreWhole, NEW p \in Deliverers, Claim(p),
         NEW r \in deliveries[p].scope, Claimable(r, deliveries[p].by),
         r \notin deliveries'[p].left
  PROVE  HasMore(deliveries'[p]) /\ deliveries[p].by # "request"
PROOF
  <1> DEFINE scope    == deliveries[p].scope
             limit    == deliveries[p].limit
             eligible == {q \in scope : Claimable(q, deliveries[p].by)}
             size     == Lower(limit, Cardinality(eligible))
  <1>1. /\ scope \in SUBSET Rows /\ limit \in Nat
        /\ IsFiniteSet(eligible) /\ Cardinality(eligible) \in Nat
    BY ClaimGives
  <1>2. PICK batch \in SUBSET eligible :
          /\ Cardinality(batch) = size
          /\ deliveries'[p].limit = limit /\ deliveries'[p].size = size
          /\ deliveries'[p].left = batch
    BY ClaimGives
  <1>3. r \in eligible /\ r \notin batch
    BY <1>2
  <1>4. eligible \in SUBSET scope /\ Cardinality(scope) \in Nat
    BY <1>1, StartForms
  <1>5. IsFiniteSet(Rows)
    BY DeliveryAssumption, FS_Union DEF Rows
  <1>6. IsFiniteSet(scope)
    BY <1>1, <1>5, FS_Subset
  <1>7. deliveries[p].by = "request" => limit = Cardinality(scope)
    BY DEF ScopesAreWhole, Claim
  <1> HIDE DEF scope, limit, eligible
  <1>8. Cardinality(batch) # Cardinality(eligible)
    BY <1>1, <1>2, <1>3, FS_Subset
  <1>9. Cardinality(eligible) <= Cardinality(scope)
    BY <1>4, <1>6, FS_Subset
  <1>10. size = limit /\ limit < Cardinality(eligible)
    BY <1>1, <1>2, <1>8 DEF Lower
  <1> QED
    BY <1>1, <1>2, <1>4, <1>7, <1>9, <1>10 DEF HasMore

\* The row of a claim, and a row it leaves.
LEMMA ClaimedRow ==
  ASSUME TypeInv, NEW p \in Deliverers, Claim(p), NEW r \in Rows
  PROVE  /\ r \in deliveries'[p].left => rows'[r].claim.by = deliveries[p].by
         /\ r \in deliveries'[p].left => r \in deliveries[p].scope
         /\ r \in deliveries'[p].left => Claimable(r, deliveries[p].by)
         /\ r \notin deliveries'[p].left => rows'[r] = rows[r]
PROOF
  <1> DEFINE eligible == {q \in deliveries[p].scope : Claimable(q, deliveries[p].by)}
  <1>1. PICK batch \in SUBSET eligible :
          /\ \A q \in Rows :
               rows'[q] = IF q \in batch
                          THEN [rows[q] EXCEPT !.claim = [by |-> deliveries[p].by, at |-> clock]]
                          ELSE rows[q]
          /\ deliveries'[p].left = batch
    BY ClaimGives
  <1>2. rows[r] \in DeliveryRows
    BY DEF TypeInv, TypeOK
  <1>3. ASSUME r \in batch PROVE rows'[r].claim.by = deliveries[p].by
    <2> DEFINE claim == [by |-> deliveries[p].by, at |-> clock]
    <2>1. rows'[r] = [rows[r] EXCEPT !.claim = claim]
      BY <1>1, <1>3
    <2>2. claim.by = deliveries[p].by
      OBVIOUS
    <2> HIDE DEF claim
    <2>3. [rows[r] EXCEPT !.claim = claim].claim = claim
      BY <1>2 DEF DeliveryRows, NoRow
    <2> QED
      BY <2>1, <2>2, <2>3
  <1> QED
    BY <1>1, <1>3

\* A sending step leaves every other row, and keeps it in its delivery's batch.
LEMMA SendingRows ==
  ASSUME TypeInv, NEW p \in Deliverers, NEW r \in Rows,
         Skip(p, r) \/ Record(p, r) \/ \E outcome \in Outcomes : Send(p, r, outcome),
         NEW q \in Rows, Untried(q)' \/ rows'[q].claim.by # "nobody"
  PROVE  rows'[q] = rows[q] /\ (q \in deliveries[p].left => q \in deliveries'[p].left)
PROOF
  <1>1. CASE Skip(p, r)
    <2>1. Recorded(r, "skipped", rows[r].attempts)
      BY <1>1 DEF Skip
    <2>2. rows'[r].claim = Unclaimed /\ rows'[r].status = "skipped"
      BY <2>1 DEF Recorded, TypeInv, TypeOK
    <2>3. q # r
      BY <2>2 DEF Untried, Unclaimed
    <2> QED
      BY <1>1, <2>3, SkipTypes, HandledGives DEF Skip
  <1>2. CASE Record(p, r)
    <2>1. rows'[r].claim = Unclaimed /\ rows'[r].attempts # 0
      BY <1>2, RecordTypes
    <2>2. q # r
      BY <2>1 DEF Untried, Unclaimed
    <2> QED
      BY <1>2, <2>2, RecordTypes, HandledGives DEF Record
  <1>3. CASE \E outcome \in Outcomes : Send(p, r, outcome)
    BY <1>3, SendGives DEF Send
  <1> QED
    BY <1>1, <1>2, <1>3

\* A row becomes one to be sent, or is claimed, only by being queued, asked for or claimed.
LEMMA RowsMoved ==
  ASSUME TypeInv, [Next]_vars, NEW r \in Rows, rows'[r] # rows[r],
         Untried(r)' \/ rows'[r].claim.by # "nobody"
  PROVE  \/ \E p \in Deliverers : Claim(p) /\ r \in deliveries'[p].left
         \/ /\ rows'[r] = Pending
            /\ \/ \E scope \in SUBSET Announcements, e \in Dispatches :
                    Queue(scope, e) /\ r \in scope
               \/ \E p \in Deliverers : \E scope : Requeue(p, scope) /\ r \in scope
PROOF
  <1> DEFINE Moved == \/ \E p \in Deliverers : Claim(p) /\ r \in deliveries'[p].left
                      \/ /\ rows'[r] = Pending
                         /\ \/ \E scope \in SUBSET Announcements, e \in Dispatches :
                                 Queue(scope, e) /\ r \in scope
                            \/ \E p \in Deliverers : \E scope : Requeue(p, scope) /\ r \in scope
  <1>1. ASSUME NEW scope \in SUBSET Announcements, NEW e \in Dispatches, Queue(scope, e)
        PROVE  Moved
    <2>1. r \in scope /\ rows'[r] = Pending
      BY <1>1 DEF Queue
    <2> QED
      BY <1>1, <2>1
  <1>2. ASSUME NEW p \in Deliverers, NEW scope, Requeue(p, scope) PROVE Moved
    <2>1. r \in scope /\ rows'[r] = Pending
      BY <1>2 DEF Requeue
    <2> QED
      BY <1>2, <2>1
  <1>3. ASSUME NEW p \in Deliverers, Claim(p) PROVE Moved
    BY <1>3, ClaimedRow
  <1>4. ASSUME NEW p \in Deliverers, NEW s \in Rows,
               Skip(p, s) \/ Record(p, s) \/ \E outcome \in Outcomes : Send(p, s, outcome)
        PROVE  FALSE
    BY <1>4, SendingRows
  <1>5. ~Tick /\ ~UNCHANGED vars /\ \A s \in Rows : ~Unsubscribe(s)
    BY DEF Tick, Unsubscribe, vars
  <1>6. \A p \in Deliverers :
          ~Finish(p) /\ ~Die(p) /\ \A e \in Dispatches : ~StartDispatch(p, e)
    BY DEF Finish, Die, StartDispatch
  <1> QED
    BY <1>1, <1>2, <1>3, <1>4, <1>5, <1>6 DEF Next, Proceed, Call, Subscribe

\* What died for good stays so.
LEMMA NothingRegained ==
  ASSUME TypeInv, [Next]_vars
  PROVE  lost \subseteq lost'
PROOF
  <1>1. ASSUME NEW p \in Deliverers, Die(p) PROVE lost \subseteq lost'
    BY <1>1, DieGives
  <1>2. ASSUME NEW scope, NEW e, Queue(scope, e) PROVE lost \subseteq lost'
    BY <1>2 DEF Queue
  <1>3. ASSUME NEW p \in Deliverers, NEW scope, Requeue(p, scope) PROVE lost' = lost
    BY <1>3, RequeueGives
  <1>4. ASSUME NEW p \in Deliverers, NEW e \in Dispatches, StartDispatch(p, e) PROVE lost' = lost
    BY <1>4, StartGives
  <1>5. ASSUME NEW p \in Deliverers, Proceed(p) PROVE lost' = lost
    BY <1>5, ClaimGoesOn, SendingGoesOn DEF Proceed, Finish
  <1>6. ASSUME Tick \/ (\E r \in Rows : Unsubscribe(r)) \/ UNCHANGED vars PROVE lost' = lost
    BY <1>6 DEF Tick, Unsubscribe, vars, platform
  <1> QED
    BY <1>1, <1>2, <1>3, <1>4, <1>5, <1>6 DEF Next, Call, Subscribe

\* A row minded stays so while it is as it was: who holds it goes on, or dies for good, or
\* is to be run again.
LEMMA MindedKept ==
  ASSUME TypeInv, [Next]_vars, NEW r \in Rows, NEW by \in Names, Minded(r, by),
         rows'[r] = rows[r], Untried(r) \/ rows[r].claim.by # "nobody"
  PROVE  Minded(r, by)' \/ (by \in events' /\ StillToClaim(by)')
PROOF
  <1> DEFINE Goal == Minded(r, by)' \/ (by \in events' /\ StillToClaim(by)')
  <1>1. by \in lost => by \in lost'
    BY NothingRegained
  <1>2. CASE by \in lost
    BY <1>1, <1>2 DEF Minded
  <1>3. ASSUME NEW p \in Deliverers, deliveries[p].by = by, Holds(p, r) PROVE Goal
    <2>0. deliveries[p].step = "send" /\ r \in deliveries[p].left /\ deliveries[p] # Idle
      BY <1>3 DEF Holds, Idle
    <2>1. ASSUME deliveries'[p] = deliveries[p] PROVE Goal
      BY <1>3, <2>1 DEF Minded, Holds
    <2>2. ASSUME NEW q \in Deliverers, q # p,
                 \A d \in Deliverers \ {q} : deliveries'[d] = deliveries[d]
          PROVE  Goal
      BY <2>1, <2>2
    <2>3. CASE Tick
      BY <2>1, <2>3 DEF Tick
    <2>4. ASSUME NEW scope, NEW e, Queue(scope, e) PROVE Goal
      BY <2>1, <2>4 DEF Queue
    <2>5. ASSUME NEW s, Unsubscribe(s) PROVE Goal
      BY <2>1, <2>5 DEF Unsubscribe
    <2>6. ASSUME NEW q \in Deliverers, NEW scope, Requeue(q, scope) PROVE Goal
      BY <2>0, <2>2, <2>6, RequeueGives
    <2>7. ASSUME NEW q \in Deliverers, NEW e \in Dispatches, StartDispatch(q, e) PROVE Goal
      BY <2>0, <2>2, <2>7, StartGives
    <2>8. ASSUME NEW q \in Deliverers, Claim(q) PROVE Goal
      BY <2>0, <2>2, <2>8, ClaimGoesOn
    <2>9. ASSUME NEW q \in Deliverers, NEW s \in Rows,
                 Skip(q, s) \/ Record(q, s) \/ \E outcome \in Outcomes : Send(q, s, outcome)
          PROVE  Goal
      <3>1. CASE q # p
        BY <2>2, <2>9, <3>1, SendingGoesOn
      <3>2. CASE q = p
        <4>1. r \in deliveries'[p].left
          BY <2>0, <2>9, <3>2, SendingRows DEF Untried
        <4> QED
          BY <1>3, <2>9, <3>2, <4>1, SendingGoesOn DEF GoesOn, Minded, Holds
      <3> QED
        BY <3>1, <3>2
    <2>10. ASSUME NEW q \in Deliverers, Finish(q) PROVE Goal
      BY <2>0, <2>2, <2>10, FinishGives
    <2>11. ASSUME NEW q \in Deliverers, Die(q) PROVE Goal
      <3>1. CASE q # p
        BY <2>2, <2>11, <3>1, DieGives
      <3>2. CASE q = p
        <4>1. CASE by \in lost'
          BY <4>1 DEF Minded
        <4>2. CASE by \in events /\ ~Joined(p) /\ events' = events
          <5>1. \A d \in Deliverers : deliveries'[d].by # by
            BY <1>3, <2>11, <3>2, <4>2, DieGives, DeliveryAssumption DEF Joined, Idle, Names
          <5> QED
            BY <4>2, <5>1 DEF StillToClaim
        <4> QED
          BY <1>3, <2>11, <3>2, <4>1, <4>2, DieGives
      <3> QED
        BY <3>1, <3>2
    <2>12. CASE UNCHANGED vars
      BY <2>1, <2>12 DEF vars
    <2> QED
      BY <2>3, <2>4, <2>5, <2>6, <2>7, <2>8, <2>9, <2>10, <2>11, <2>12
         DEF Next, Proceed, Call, Subscribe
  <1> QED
    BY <1>2, <1>3 DEF Minded

\* An event still to claim a row stays so, unless it claims the row, or gives it up.
LEMMA StillToClaimKept ==
  ASSUME TypeInv, ScopesAreWhole, [Next]_vars,
         NEW r \in Announcements, rows[r].status = "pending",
         NEW e \in events, rows[r].claim = Unclaimed \/ rows[r].claim.by = e,
         StillToClaim(e)
  PROVE  \/ e \in events' /\ StillToClaim(e)'
         \/ e \in lost'
         \/ \E p \in Deliverers : Claim(p) /\ deliveries'[p].by = e /\ r \in deliveries'[p].left
PROOF
  <1> DEFINE Goal == \/ e \in events' /\ StillToClaim(e)'
                     \/ e \in lost'
                     \/ \E p \in Deliverers :
                          Claim(p) /\ deliveries'[p].by = e /\ r \in deliveries'[p].left
  <1>0. r \in Rows /\ e \in Dispatches /\ e # "request" /\ e # "nobody"
    BY DeliveryAssumption DEF Rows, TypeInv, TypeOK
  <1>1. ASSUME e \in events', deliveries' = deliveries PROVE Goal
    BY <1>1 DEF StillToClaim, HasMore
  <1>2. ASSUME e \in events', NEW p \in Deliverers,
               \A q \in Deliverers \ {p} : deliveries'[q] = deliveries[q],
               deliveries'[p].by = e /\ deliveries'[p].step = "send" => HasMore(deliveries'[p])
        PROVE  Goal
    BY <1>2 DEF StillToClaim, HasMore
  <1>3. CASE Tick
    BY <1>1, <1>3 DEF Tick, platform
  <1>4. ASSUME NEW scope, NEW d, Queue(scope, d) PROVE Goal
    BY <1>1, <1>4 DEF Queue
  <1>5. ASSUME NEW s, Unsubscribe(s) PROVE Goal
    BY <1>1, <1>5 DEF Unsubscribe, platform
  <1>6. ASSUME NEW p \in Deliverers, NEW scope, Requeue(p, scope) PROVE Goal
    BY <1>2, <1>6, RequeueGives
  <1>7. ASSUME NEW p \in Deliverers, NEW d \in Dispatches, StartDispatch(p, d) PROVE Goal
    BY <1>2, <1>7, StartGives
  <1>8. ASSUME NEW p \in Deliverers, Claim(p) PROVE Goal
    <2>1. CASE deliveries[p].by # e
      BY <1>2, <1>8, <2>1, ClaimGoesOn
    <2>2. CASE deliveries[p].by = e /\ r \in deliveries'[p].left
      BY <1>8, <2>2, ClaimGoesOn
    <2>3. CASE deliveries[p].by = e /\ r \notin deliveries'[p].left
      <3>1. r \in deliveries[p].scope
        BY <1>0, <1>8, <2>3 DEF ScopesAreWhole, Claim, Idle
      <3>2. Claimable(r, deliveries[p].by)
        BY <1>0, <2>3 DEF Claimable
      <3>3. HasMore(deliveries'[p])
        BY <1>8, <2>3, <3>1, <3>2, ClaimTakesAll
      <3> QED
        BY <1>2, <1>8, <3>3, ClaimGoesOn
    <2> QED
      BY <2>1, <2>2, <2>3
  <1>9. ASSUME NEW p \in Deliverers, NEW s \in Rows,
               Skip(p, s) \/ Record(p, s) \/ \E outcome \in Outcomes : Send(p, s, outcome)
        PROVE  Goal
    <2>1. GoesOn(p) /\ events' = events /\ \A q \in Deliverers \ {p} : deliveries'[q] = deliveries[q]
      BY <1>9, SendingGoesOn
    <2>2. HasMore(deliveries'[p]) = HasMore(deliveries[p])
      BY <2>1 DEF GoesOn, HasMore
    <2> QED
      BY <1>2, <2>1, <2>2 DEF GoesOn, StillToClaim
  <1>10. ASSUME NEW p \in Deliverers, Finish(p) PROVE Goal
    <2>1. deliveries[p].step = "send" /\ (deliveries[p].by = e => HasMore(deliveries[p]))
      BY <1>10, FinishGives DEF StillToClaim
    <2>2. CASE /\ deliveries[p].by \in Dispatches /\ HasMore(deliveries[p])
               /\ deliveries'[p] = Batch(deliveries[p].by) /\ events' = events
      BY <1>2, <1>10, <2>2, FinishGives DEF Batch
    <2>3. CASE /\ deliveries[p].by = "request" \/ ~HasMore(deliveries[p])
               /\ deliveries'[p] = Idle /\ events' = events \ {deliveries[p].by}
      <3>1. e # deliveries[p].by
        BY <1>0, <2>1, <2>3
      <3> QED
        BY <1>2, <1>10, <2>3, <3>1, FinishGives DEF Idle
    <2> QED
      BY <1>10, <2>2, <2>3, FinishGives
  <1>11. ASSUME NEW p \in Deliverers, Die(p) PROVE Goal
    <2>1. CASE e \in events'
      BY <1>2, <1>11, <2>1, DieGives DEF Idle
    <2>2. CASE e \notin events'
      BY <1>11, <2>2, DieGives
    <2> QED
      BY <2>1, <2>2
  <1>12. CASE UNCHANGED vars
    BY <1>1, <1>12 DEF vars, platform
  <1> QED
    BY <1>3, <1>4, <1>5, <1>6, <1>7, <1>8, <1>9, <1>10, <1>11, <1>12
       DEF Next, Proceed, Call, Subscribe

LEMMA DispatchClaimsKept ==
  ASSUME TypeInv, ScopesAreWhole, DispatchesKnowTheirClaims, [Next]_vars
  PROVE  DispatchesKnowTheirClaims'
PROOF
  <1> SUFFICES ASSUME NEW r \in Rows, NEW e \in Dispatches,
                      rows'[r].status = "pending", rows'[r].claim.by = e
               PROVE  r \in Announcements /\ (Minded(r, e)' \/ (e \in events' /\ StillToClaim(e)'))
    BY DEF DispatchesKnowTheirClaims
  <1> DEFINE Known == Minded(r, e)' \/ (e \in events' /\ StillToClaim(e)')
  <1>1. e # "nobody" /\ e # "request" /\ e \in Names
    BY DeliveryAssumption DEF Names
  <1>2. ASSUME NEW p \in Deliverers, Claim(p), r \in deliveries'[p].left
        PROVE  deliveries'[p].by = e /\ r \in Announcements /\ Known
    <2>1. deliveries'[p].by = e /\ deliveries[p].by = e /\ r \in deliveries[p].scope
      BY <1>2, ClaimedRow, ClaimGoesOn
    <2>2. r \in Announcements
      BY <1>1, <1>2, <2>1 DEF ScopesAreWhole, Claim, Idle
    <2>3. Minded(r, e)'
      BY <1>2, <2>1, ClaimGoesOn DEF Minded, Holds
    <2> QED
      BY <2>1, <2>2, <2>3
  <1>3. CASE rows'[r] # rows[r]
    <2>1. rows'[r] # Pending
      BY <1>1 DEF Pending, Unclaimed
    <2> QED
      BY <1>1, <1>2, <1>3, <2>1, RowsMoved
  <1>4. CASE rows'[r] = rows[r]
    <2>1. r \in Announcements /\ (Minded(r, e) \/ (e \in events /\ StillToClaim(e)))
      BY <1>4 DEF DispatchesKnowTheirClaims
    <2>2. CASE Minded(r, e)
      BY <1>1, <1>4, <2>1, <2>2, MindedKept
    <2>3. CASE e \in events /\ StillToClaim(e)
      <3>1. \/ e \in events' /\ StillToClaim(e)'
            \/ e \in lost'
            \/ \E p \in Deliverers :
                 Claim(p) /\ deliveries'[p].by = e /\ r \in deliveries'[p].left
        BY <1>4, <2>1, <2>3, StillToClaimKept
      <3>2. e \in lost' => Minded(r, e)'
        BY DEF Minded
      <3> QED
        BY <1>2, <2>1, <3>1, <3>2
    <2> QED
      BY <2>1, <2>2, <2>3
  <1> QED
    BY <1>3, <1>4

LEMMA RequestClaimsKept ==
  ASSUME TypeInv, TypeInv', RequestsHoldTheirClaims, [Next]_vars
  PROVE  RequestsHoldTheirClaims'
PROOF
  <1> SUFFICES ASSUME NEW r \in Rows, Untried(r)', rows'[r].claim.by = "request"
               PROVE  Minded(r, "request")'
    BY DEF RequestsHoldTheirClaims
  <1>1. CASE rows'[r] = rows[r]
    <2>1. Untried(r) /\ Minded(r, "request")
      BY <1>1 DEF RequestsHoldTheirClaims, Untried
    <2>2. "request" \in Names /\ "request" \notin events'
      BY DeliveryAssumption DEF Names, TypeInv, TypeOK
    <2> QED
      BY <1>1, <2>1, <2>2, MindedKept
  <1>2. CASE rows'[r] # rows[r]
    <2>1. rows'[r] # Pending
      BY DEF Pending, Unclaimed
    <2>2. PICK p \in Deliverers : Claim(p) /\ r \in deliveries'[p].left
      BY <1>2, <2>1, RowsMoved
    <2>3. deliveries'[p].by = "request" /\ deliveries'[p].step = "send"
      BY <2>2, ClaimedRow, ClaimGoesOn
    <2> QED
      BY <2>2, <2>3 DEF Minded, Holds
  <1> QED
    BY <1>1, <1>2

\* A request for a row claims it, or dies for good.
LEMMA AskedKept ==
  ASSUME TypeInv, ScopesAreWhole, [Next]_vars,
         NEW r \in Rows, rows[r].status = "pending", rows[r].claim = Unclaimed,
         NEW p \in Deliverers, deliveries[p].by = "request", deliveries[p].step = "claim",
         r \in deliveries[p].scope
  PROVE  \/ deliveries'[p] = deliveries[p]
         \/ Claim(p) /\ r \in deliveries'[p].left
         \/ "request" \in lost'
PROOF
  <1>1. deliveries[p] # Idle /\ deliveries[p].step # "send"
    BY DEF Idle
  <1>2. ASSUME NEW q \in Deliverers, \A d \in Deliverers \ {q} : deliveries'[d] = deliveries[d],
               deliveries'[p] # deliveries[p]
        PROVE  q = p
    BY <1>2
  <1>3. ASSUME NEW q \in Deliverers, NEW scope, Requeue(q, scope)
        PROVE  deliveries'[p] = deliveries[p]
    BY <1>1, <1>2, <1>3, RequeueGives
  <1>4. ASSUME NEW q \in Deliverers, NEW e \in Dispatches, StartDispatch(q, e)
        PROVE  deliveries'[p] = deliveries[p]
    BY <1>1, <1>2, <1>4, StartGives
  <1>5. ASSUME NEW q \in Deliverers, Claim(q)
        PROVE  deliveries'[p] = deliveries[p] \/ (Claim(p) /\ r \in deliveries'[p].left)
    <2>1. Claimable(r, deliveries[p].by)
      BY DEF Claimable
    <2> QED
      BY <1>2, <1>5, <2>1, ClaimGoesOn, ClaimTakesAll
  <1>6. ASSUME NEW q \in Deliverers, NEW s \in Rows,
               Skip(q, s) \/ Record(q, s) \/ \E outcome \in Outcomes : Send(q, s, outcome)
        PROVE  deliveries'[p] = deliveries[p]
    BY <1>1, <1>2, <1>6, SendingGoesOn DEF GoesOn
  <1>7. ASSUME NEW q \in Deliverers, Finish(q) PROVE deliveries'[p] = deliveries[p]
    BY <1>1, <1>2, <1>7, FinishGives
  <1>8. ASSUME NEW q \in Deliverers, Die(q)
        PROVE  deliveries'[p] = deliveries[p] \/ "request" \in lost'
    <2>1. "request" \notin events
      BY DeliveryAssumption DEF TypeInv, TypeOK
    <2> QED
      BY <1>2, <1>8, <2>1, DieGives
  <1>9. deliveries' = deliveries => deliveries'[p] = deliveries[p]
    OBVIOUS
  <1> QED
    BY <1>3, <1>4, <1>5, <1>6, <1>7, <1>8, <1>9
       DEF Next, Tick, Queue, Unsubscribe, Call, Subscribe, Proceed, vars

LEMMA UnclaimedKept ==
  ASSUME TypeInv, ScopesAreWhole, UnclaimedIsAwaited, [Next]_vars
  PROVE  UnclaimedIsAwaited'
PROOF
  <1> DEFINE Asked(r) == \E p \in Deliverers : /\ deliveries[p].by = "request"
                                               /\ deliveries[p].step = "claim"
                                               /\ r \in deliveries[p].scope
             Known(r) == r \in Announcements /\ \E e \in events : StillToClaim(e)
  <1> SUFFICES ASSUME NEW r \in Rows, Untried(r)', rows'[r].claim = Unclaimed
               PROVE  MayBeLost(r)' \/ Asked(r)' \/ Known(r)'
    BY DEF UnclaimedIsAwaited
  <1>1. ASSUME NEW p \in Deliverers, Claim(p) PROVE r \notin deliveries'[p].left
    BY <1>1, ClaimedRow, ClaimGoesOn, DeliveryAssumption DEF Names, Unclaimed
  <1>2. lost \subseteq lost'
    BY NothingRegained
  <1>3. CASE rows'[r] # rows[r]
    <2>1. ASSUME NEW scope \in SUBSET Announcements, NEW e \in Dispatches, Queue(scope, e), r \in scope
          PROVE  MayBeLost(r)' \/ Known(r)'
      <3>1. "request" \in lost' \/ e \in events'
        BY <2>1 DEF Queue
      <3>2. StillToClaim(e)'
        BY <2>1 DEF Queue, Running, StillToClaim
      <3> QED
        BY <2>1, <3>1, <3>2 DEF MayBeLost
    <2>2. ASSUME NEW p \in Deliverers, NEW scope, Requeue(p, scope), r \in scope
          PROVE  Asked(r)'
      BY <2>2, RequeueGives
    <2> QED
      BY <1>1, <1>3, <2>1, <2>2, RowsMoved
  <1>4. CASE rows'[r] = rows[r]
    <2>1. Untried(r) /\ rows[r].claim = Unclaimed
      BY <1>4 DEF Untried
    <2>2. MayBeLost(r) \/ Asked(r) \/ Known(r)
      BY <2>1 DEF UnclaimedIsAwaited
    <2>3. MayBeLost(r) => MayBeLost(r)'
      BY <1>2 DEF MayBeLost
    <2>4. CASE Asked(r)
      <3>1. PICK p \in Deliverers :
              deliveries[p].by = "request" /\ deliveries[p].step = "claim" /\ r \in deliveries[p].scope
        BY <2>4
      <3>2. deliveries'[p] = deliveries[p] \/ "request" \in lost'
        BY <1>1, <2>1, <3>1, AskedKept DEF Untried
      <3> QED
        BY <3>1, <3>2 DEF MayBeLost
    <2>5. CASE Known(r)
      <3>1. PICK e \in events : r \in Announcements /\ StillToClaim(e)
        BY <2>5
      <3>2. (e \in events' /\ StillToClaim(e)') \/ e \in lost'
        BY <1>1, <2>1, <3>1, StillToClaimKept DEF Untried
      <3> QED
        BY <3>1, <3>2 DEF MayBeLost
    <2> QED
      BY <2>2, <2>3, <2>4, <2>5
  <1> QED
    BY <1>3, <1>4

LEMMA HandsInit == Init => HandsInv
PROOF
  <1> SUFFICES ASSUME Init PROVE HandsInv
    OBVIOUS
  <1>1. TypeOK
    <2>1. rows \in [Rows -> DeliveryRows] /\ deliveries \in [Deliverers -> Deliveries]
      BY DEF Init, DeliveryRows, Deliveries
    <2>2. clock \in 0..MaxTime /\ failures \in 0..MaxFailures
      BY DeliveryAssumption DEF Init
    <2>3. asked \in [Rows -> Nat] /\ told \in [Rows -> Nat] /\ copies \in [Rows -> Nat]
      BY DEF Init
    <2>4. /\ subscribed \subseteq Rows /\ events \subseteq Dispatches
          /\ lost \subseteq Dispatches \cup {"request"} /\ overlapped \in BOOLEAN
      BY DEF Init
    <2>5. runs \in [Dispatches -> 0..(MaxRetries + 1)]
      <3>1. 0 \in 0..(MaxRetries + 1)
        BY DeliveryAssumption
      <3> QED
        BY <3>1 DEF Init
    <2> QED
      BY <2>1, <2>2, <2>3, <2>4, <2>5 DEF TypeOK
  <1>2. \A r \in Rows : rows[r].status = "none"
    BY DEF Init, NoRow
  <1>3. \A p \in Deliverers : deliveries[p] = Idle
    BY DEF Init
  <1>4. ScopesAreWhole
    BY <1>3 DEF ScopesAreWhole, Idle
  <1> QED
    BY <1>1, <1>2, <1>4 DEF HandsInv, PendingMayBeTried, DispatchesKnowTheirClaims,
                            RequestsHoldTheirClaims, UnclaimedIsAwaited, Untried

LEMMA HandsKept ==
  ASSUME HandsInv, [Next]_vars
  PROVE  HandsInv'
PROOF
  <1>1. TypeInv /\ TypeInv'
    BY TypesKept DEF HandsInv, TypeInv
  <1>2. ScopesAreWhole'
    BY <1>1, ScopesKept DEF HandsInv
  <1>3. DispatchesKnowTheirClaims'
    BY <1>1, DispatchClaimsKept DEF HandsInv
  <1>4. RequestsHoldTheirClaims'
    BY <1>1, RequestClaimsKept DEF HandsInv
  <1>5. UnclaimedIsAwaited'
    BY <1>1, UnclaimedKept DEF HandsInv
  <1> QED
    BY <1>1, <1>2, <1>3, <1>4, <1>5 DEF HandsInv, TypeInv

LEMMA HandsInductive == Spec => []HandsInv
PROOF
  BY HandsInit, HandsKept, PTL DEF Spec

LEMMA HandsAreEnough == HandsInv => NobodyIsForgotten
PROOF
  <1> SUFFICES ASSUME HandsInv, NEW r \in Rows, Untried(r)
               PROVE  \/ r \in Announcements /\ events # {}
                      \/ \E p \in Deliverers :
                           \/ deliveries[p].step = "claim" /\ r \in deliveries[p].scope
                           \/ Holds(p, r)
                      \/ MayBeLost(r)
    BY DEF NobodyIsForgotten, Untried
  <1>1. rows[r].claim.by \in Names \cup {"nobody"} /\ (rows[r].claim.by = "nobody" <=> rows[r].claim = Unclaimed)
    BY RowFields DEF HandsInv
  <1>2. CASE rows[r].claim = Unclaimed
    BY <1>2 DEF HandsInv, UnclaimedIsAwaited
  <1>3. CASE rows[r].claim.by = "request"
    BY <1>3 DEF HandsInv, RequestsHoldTheirClaims, Minded, MayBeLost
  <1>4. CASE rows[r].claim.by \in Dispatches
    BY <1>4 DEF HandsInv, DispatchesKnowTheirClaims, Untried, Minded, MayBeLost
  <1> QED
    BY <1>1, <1>2, <1>3, <1>4 DEF Names

\* Every row, delivery and counter has its type, for any rows, deliveries and dispatches.
THEOREM DeliveryTypeCorrect == Spec => []TypeOK
PROOF
  <1>1. HandsInv => TypeOK
    BY DEF HandsInv
  <1> QED
    BY <1>1, HandsInductive, PTL

\* A row nobody has tried to send is in the hands of an event or of a request, whatever dies,
\* overlaps or expires: only a delivery that died for good leaves one behind.
THEOREM NobodyIsLeftOut == Spec => []NobodyIsForgotten
PROOF
  BY HandsInductive, HandsAreEnough, PTL

-----------------------------------------------------------------------------
(* No more copies than asked for.                                           *)

\* Of the deliveries that may send a row only the one that takes the step can change.
LEMMA OneMoves ==
  ASSUME NEW r \in Rows, NEW p \in Deliverers,
         \A q \in Deliverers \ {p} : deliveries'[q] = deliveries[q]
  PROVE  \E others \in Nat :
           /\ Cardinality(MaySend(r)) = others + One(p \in MaySend(r))
           /\ Cardinality(MaySend(r)') = others + One(p \in MaySend(r)')
PROOF
  <1> DEFINE rest == MaySend(r) \ {p}
  <1>1. MaySend(r)' \ {p} = rest
    BY DEF MaySend, Holds
  <1>2. MaySend(r) \in SUBSET Deliverers /\ MaySend(r)' \in SUBSET Deliverers
    BY DEF MaySend
  <1>3. IsFiniteSet(MaySend(r)) /\ IsFiniteSet(MaySend(r)') /\ IsFiniteSet(rest)
    BY <1>2, FS_Subset, DeliveryAssumption
  <1>4. /\ Cardinality(rest) \in Nat /\ Cardinality(MaySend(r)) \in Nat
        /\ Cardinality(MaySend(r)') \in Nat
    BY <1>3, FS_CardinalityType
  <1>5. /\ Cardinality(MaySend(r) \ {p}) = IF p \in MaySend(r) THEN Cardinality(MaySend(r)) - 1
                                           ELSE Cardinality(MaySend(r))
        /\ Cardinality(MaySend(r)' \ {p}) = IF p \in MaySend(r)' THEN Cardinality(MaySend(r)') - 1
                                            ELSE Cardinality(MaySend(r)')
    BY <1>3, FS_RemoveElement
  <1>6. /\ Cardinality(MaySend(r)) = Cardinality(rest) + One(p \in MaySend(r))
        /\ Cardinality(MaySend(r)') = Cardinality(rest) + One(p \in MaySend(r)')
    <2> DEFINE before == MaySend(r)
               after  == MaySend(r)'
               m      == Cardinality(before)
               n      == Cardinality(after)
               k      == Cardinality(rest)
    <2>1. k = IF p \in before THEN m - 1 ELSE m
      BY <1>5
    <2>2. k = IF p \in after THEN n - 1 ELSE n
      BY <1>1, <1>5
    <2>3. k \in Nat /\ m \in Nat /\ n \in Nat
      BY <1>4
    <2> HIDE DEF before, after, m, n, k
    <2>4. m = k + One(p \in before) /\ n = k + One(p \in after)
      BY <2>1, <2>2, <2>3 DEF One
    <2> QED
      BY <2>4 DEF before, after, m, n, k
  <1> HIDE DEF rest
  <1> QED
    BY <1>4, <1>6

\* Counting: what a step adds is what was asked for or what failed.
LEMMA Accounted ==
  ASSUME TypeInv, TypeInv', CopiesAccountedFor, clock <= Lease,
         NEW r \in Rows, ~Unpromised(r), NEW p \in Deliverers,
         \A q \in Deliverers \ {p} : deliveries'[q] = deliveries[q],
         (copies'[r] + One(p \in MaySend(r)') + One(UpForGrabs(r)'))
             - (copies[r] + One(p \in MaySend(r)) + One(UpForGrabs(r)))
           <= (asked'[r] + failures') - (asked[r] + failures)
  PROVE  copies'[r] + Cardinality(MaySend(r)') + One(UpForGrabs(r)') <= asked'[r] + failures'
PROOF
  <1>1. PICK others \in Nat :
          /\ Cardinality(MaySend(r)) = others + One(p \in MaySend(r))
          /\ Cardinality(MaySend(r)') = others + One(p \in MaySend(r)')
    BY OneMoves
  <1>2. copies[r] + Cardinality(MaySend(r)) + One(UpForGrabs(r)) <= asked[r] + failures
    BY DEF CopiesAccountedFor
  <1>3. /\ copies[r] \in Nat /\ copies'[r] \in Nat /\ asked[r] \in Nat /\ asked'[r] \in Nat
        /\ failures \in Nat /\ failures' \in Nat
    BY DeliveryAssumption DEF TypeInv, TypeOK
  <1>4. /\ One(UpForGrabs(r)) \in 0..1 /\ One(UpForGrabs(r)') \in 0..1
        /\ One(p \in MaySend(r)) \in 0..1 /\ One(p \in MaySend(r)') \in 0..1
    BY DEF One
  <1> DEFINE a == One(UpForGrabs(r))
             b == One(UpForGrabs(r)')
             m == One(p \in MaySend(r))
             n == One(p \in MaySend(r)')
             c == copies[r]
             d == copies'[r]
             x == asked[r] + failures
             y == asked'[r] + failures'
  <1>5. (d + n + b) - (c + m + a) <= y - x
    OBVIOUS
  <1>6. /\ c + (others + m) + a <= x
        /\ a \in 0..1 /\ b \in 0..1 /\ m \in 0..1 /\ n \in 0..1 /\ c \in Nat /\ d \in Nat
        /\ x \in Nat /\ y \in Nat
    BY <1>1, <1>2, <1>3, <1>4
  <1>7. Cardinality(MaySend(r)') = others + n
    BY <1>1
  <1> HIDE DEF a, b, m, n, c, d, x, y
  <1>8. d + (others + n) + b <= y
    BY <1>5, <1>6
  <1> QED
    BY <1>7, <1>8 DEF b, d, y

\* Nor does what is claimable, when no delivery moves.
LEMMA AccountedAtRest ==
  ASSUME TypeInv, TypeInv', CopiesAccountedFor, clock <= Lease, NEW r \in Rows, ~Unpromised(r),
         deliveries' = deliveries, copies' = copies,
         One(UpForGrabs(r)') - One(UpForGrabs(r)) <= (asked'[r] + failures') - (asked[r] + failures)
  PROVE  copies'[r] + Cardinality(MaySend(r)') + One(UpForGrabs(r)') <= asked'[r] + failures'
PROOF
  <1>1. MaySend(r)' = MaySend(r)
    BY DEF MaySend, Holds
  <1>2. Cardinality(MaySend(r)) \in Nat
    <2>1. MaySend(r) \in SUBSET Deliverers
      BY DEF MaySend
    <2> QED
      BY <2>1, DeliveryAssumption, FS_Subset, FS_CardinalityType
  <1>3. copies[r] + Cardinality(MaySend(r)) + One(UpForGrabs(r)) <= asked[r] + failures
    BY DEF CopiesAccountedFor
  <1>4. /\ copies[r] \in Nat /\ asked[r] \in Nat /\ asked'[r] \in Nat
        /\ failures \in Nat /\ failures' \in Nat
    BY DeliveryAssumption DEF TypeInv, TypeOK
  <1>5. One(UpForGrabs(r)) \in 0..1 /\ One(UpForGrabs(r)') \in 0..1
    BY DEF One
  <1> DEFINE a == One(UpForGrabs(r))
             b == One(UpForGrabs(r)')
             m == Cardinality(MaySend(r))
             c == copies[r]
             x == asked[r] + failures
             y == asked'[r] + failures'
  <1>6. b - a <= y - x
    OBVIOUS
  <1>7. /\ c + m + a <= x
        /\ a \in 0..1 /\ b \in 0..1 /\ m \in Nat /\ c \in Nat /\ x \in Nat /\ y \in Nat
    BY <1>2, <1>3, <1>4, <1>5
  <1> HIDE DEF a, b, m, c, x, y
  <1>8. c + m + b <= y
    BY <1>6, <1>7
  <1> QED
    BY <1>1, <1>8 DEF b, m, c, y

\* A step of a delivery that goes on holding what it held frees no row.
LEMMA GrabsKept ==
  ASSUME NEW r \in Rows, NEW p \in Deliverers, rows'[r] = rows[r],
         \A q \in Deliverers \ {p} : deliveries'[q] = deliveries[q],
         Holds(p, r) => Holds(p, r)' /\ deliveries'[p].by = deliveries[p].by
  PROVE  UpForGrabs(r)' => UpForGrabs(r)
PROOF
  BY DEF UpForGrabs, Holds

\* Within the lease no claim expires: a row is claimed when it was up for grabs, and held then.
LEMMA ClaimMoves ==
  ASSUME TypeInv, ScopesAreWhole, OneDeliveryPerEvent, clock <= Lease,
         NEW p \in Deliverers, Claim(p), NEW r \in Rows, ~Unpromised(r)
  PROVE  /\ p \notin MaySend(r)
         /\ r \in deliveries'[p].left => UpForGrabs(r) /\ ~UpForGrabs(r)'
         /\ r \notin deliveries'[p].left => p \notin MaySend(r)' /\ (UpForGrabs(r)' => UpForGrabs(r))
PROOF
  <1>1. deliveries[p].step = "claim"
    BY ClaimGoesOn
  <1>2. ~Holds(p, r)
    BY <1>1 DEF Holds
  <1>3. ASSUME r \in deliveries'[p].left PROVE UpForGrabs(r)
    <2>1. Claimable(r, deliveries[p].by)
      BY <1>3, ClaimedRow
    <2>2. ~Expired(r)
      BY RowFields, DeliveryAssumption DEF Expired, TypeInv, TypeOK
    <2>3. deliveries[p].by \in Names
      BY ClaimGoesOn
    <2>4. CASE rows[r].claim = Unclaimed
      BY <2>1, <2>4 DEF Claimable, UpForGrabs
    <2>5. CASE deliveries[p].by # "request" /\ rows[r].claim.by = deliveries[p].by
      <3>1. rows[r].claim.by \in Dispatches
        BY <2>3, <2>5 DEF Names
      <3>2. r \in deliveries[p].scope /\ deliveries[p] # Idle
        BY <1>1, <1>3, ClaimedRow DEF Idle
      <3>3. ~overlapped
        BY <2>5, <3>2 DEF ScopesAreWhole, Unpromised
      <3>4. \A q \in Deliverers : deliveries[q].by = rows[r].claim.by => ~Holds(q, r)
        BY <1>2, <2>5, <3>1, <3>3 DEF OneDeliveryPerEvent
      <3> QED
        BY <2>1, <3>1, <3>4 DEF Claimable, UpForGrabs
    <2> QED
      BY <2>1, <2>2, <2>4, <2>5 DEF Claimable
  <1>4. ASSUME r \in deliveries'[p].left PROVE ~UpForGrabs(r)'
    <2>1. rows'[r].claim.by = deliveries'[p].by /\ deliveries'[p].by \in Names
      BY <1>4, ClaimedRow, ClaimGoesOn
    <2>2. rows'[r].claim # Unclaimed
      BY <2>1, DeliveryAssumption DEF Names, Unclaimed
    <2>3. Holds(p, r)'
      BY <1>4, ClaimGoesOn DEF Holds
    <2> QED
      BY <2>1, <2>2, <2>3 DEF UpForGrabs
  <1>5. ASSUME r \notin deliveries'[p].left
        PROVE  p \notin MaySend(r)' /\ (UpForGrabs(r)' => UpForGrabs(r))
    <2>1. rows'[r] = rows[r]
      BY <1>5, ClaimedRow
    <2>2. UpForGrabs(r)' => UpForGrabs(r)
      BY <1>2, <2>1, GrabsKept, ClaimGoesOn
    <2> QED
      BY <1>5, <2>2 DEF MaySend, Holds
  <1> QED
    BY <1>2, <1>3, <1>4, <1>5 DEF MaySend

\* A send takes the row out of those that may be sent, or tries it to no avail.
LEMMA SendMoves ==
  ASSUME TypeInv, NEW p \in Deliverers, NEW s \in Rows, NEW outcome \in Outcomes,
         Send(p, s, outcome), NEW r \in Rows
  PROVE  /\ UpForGrabs(r)' => UpForGrabs(r)
         /\ \/ copies'[r] = copies[r] /\ (p \in MaySend(r)' => p \in MaySend(r))
            \/ copies'[r] = copies[r] + 1 /\ p \in MaySend(r) /\ p \notin MaySend(r)'
PROOF
  <1>1. UpForGrabs(r)' => UpForGrabs(r)
    <2>1. rows'[r] = rows[r]
      BY DEF Send
    <2>2. /\ \A q \in Deliverers \ {p} : deliveries'[q] = deliveries[q]
          /\ deliveries'[p].by = deliveries[p].by
      BY SendGives
    <2>3. deliveries'[p].step = "send" /\ deliveries'[p].left = deliveries[p].left
      BY SendGives
    <2>4. Holds(p, r) => Holds(p, r)'
      BY <2>3 DEF Holds
    <2> QED
      BY <2>1, <2>2, <2>4, GrabsKept
  <1>2. copies \in [Rows -> Nat]
    BY DEF TypeInv, TypeOK
  <1>3. CASE r # s
    <2>1. copies'[r] = copies[r]
      BY <1>2, <1>3 DEF Send
    <2>2. p \in MaySend(r)' => p \in MaySend(r)
      BY <1>3, SendGives DEF MaySend, Holds
    <2> QED
      BY <1>1, <2>1, <2>2
  <1>4. CASE r = s
    <2>1. p \in MaySend(r)
      BY <1>4, SendGives DEF MaySend, Holds
    <2>2. outcome # "sent" => copies'[r] = copies[r]
      BY DEF Send
    <2>3. outcome = "sent" => copies'[r] = copies[r] + 1
      BY <1>2, <1>4 DEF Send
    <2>4. outcome = "sent" => p \notin MaySend(r)'
      BY <1>4, SendGives DEF MaySend
    <2> QED
      BY <1>1, <2>1, <2>2, <2>3, <2>4
  <1> QED
    BY <1>3, <1>4

\* A row recorded is out of its delivery's hands, and up for grabs only after a passing
\* failure, or when its sending could not be recorded.
LEMMA RecordMoves ==
  ASSUME TypeInv, NEW p \in Deliverers, NEW s \in Rows, Skip(p, s) \/ Record(p, s), NEW r \in Rows
  PROVE  /\ copies'[r] = copies[r] /\ failures' \in {failures, failures + 1}
         /\ \/ UpForGrabs(r)' => UpForGrabs(r)
            \/ p \in MaySend(r) /\ p \notin MaySend(r)'
            \/ failures' = failures + 1 /\ p \notin MaySend(r)'
         /\ p \in MaySend(r)' => p \in MaySend(r)
PROOF
  <1>1. /\ deliveries[p].step = "send" /\ s \in deliveries[p].left /\ HandledBy(p, s)
        /\ copies' = copies /\ failures' \in {failures, failures + 1}
        /\ \A q \in Rows \ {s} : rows'[q] = rows[q]
        /\ rows'[s].status = "pending" =>
             deliveries[p].outcome[s] = "transient" \/ failures' = failures + 1
    BY SkipTypes, RecordTypes DEF Skip, Record
  <1>2. /\ \A q \in Deliverers \ {p} : deliveries'[q] = deliveries[q]
        /\ deliveries'[p].step = "send" /\ deliveries'[p].by = deliveries[p].by
        /\ deliveries'[p].left = deliveries[p].left \ {s}
        /\ \A q \in deliveries[p].left \ {s} : deliveries'[p].outcome[q] = deliveries[p].outcome[q]
    BY <1>1, HandledGives
  <1>3. CASE r # s
    <2>1. UpForGrabs(r)' => UpForGrabs(r)
      BY <1>1, <1>2, <1>3, GrabsKept DEF Holds
    <2>2. p \in MaySend(r)' => p \in MaySend(r)
      BY <1>1, <1>2, <1>3 DEF MaySend, Holds
    <2> QED
      BY <1>1, <2>1, <2>2
  <1>4. CASE r = s
    <2>1. p \notin MaySend(r)'
      BY <1>2, <1>4 DEF MaySend, Holds
    <2>2. UpForGrabs(r)' => p \in MaySend(r) \/ failures' = failures + 1
      BY <1>1, <1>4 DEF UpForGrabs, MaySend, Holds
    <2> QED
      BY <1>1, <2>1, <2>2
  <1> QED
    BY <1>3, <1>4

\* That runs have overlapped is not forgotten.
LEMMA OverlapsRemembered ==
  ASSUME TypeInv, [Next]_vars
  PROVE  overlapped => overlapped'
PROOF
  <1>1. ASSUME NEW p \in Deliverers, Die(p) PROVE overlapped' = overlapped
    BY <1>1, DieGives
  <1>2. ASSUME NEW scope, NEW e, Queue(scope, e) PROVE overlapped' = overlapped
    BY <1>2 DEF Queue
  <1>3. ASSUME NEW p \in Deliverers, NEW scope, Requeue(p, scope) PROVE overlapped' = overlapped
    BY <1>3, RequeueGives
  <1>4. ASSUME NEW p \in Deliverers, NEW e \in Dispatches, StartDispatch(p, e)
        PROVE  overlapped => overlapped'
    BY <1>4 DEF StartDispatch
  <1>5. ASSUME NEW p \in Deliverers, Proceed(p) PROVE overlapped' = overlapped
    BY <1>5, ClaimGoesOn, SendingGoesOn DEF Proceed, Finish
  <1>6. ASSUME Tick \/ (\E r \in Rows : Unsubscribe(r)) \/ UNCHANGED vars
        PROVE  overlapped' = overlapped
    BY <1>6 DEF Tick, Unsubscribe, vars, platform
  <1> QED
    BY <1>1, <1>2, <1>3, <1>4, <1>5, <1>6 DEF Next, Call, Subscribe

LEMMA CopiesKept ==
  ASSUME TypeInv, TypeInv', ScopesAreWhole, OneDeliveryPerEvent, CopiesAccountedFor, [Next]_vars
  PROVE  CopiesAccountedFor'
PROOF
  <1> SUFFICES ASSUME clock' <= Lease, NEW r \in Rows, ~Unpromised(r)'
               PROVE  copies'[r] + Cardinality(MaySend(r)') + One(UpForGrabs(r)')
                        <= asked'[r] + failures'
    BY DEF CopiesAccountedFor
  <1>u. ~Unpromised(r)
    <2>1. overlapped => overlapped'
      BY OverlapsRemembered
    <2> QED
      BY <2>1 DEF Unpromised
  <1> DEFINE Goal == copies'[r] + Cardinality(MaySend(r)') + One(UpForGrabs(r)')
                       <= asked'[r] + failures'
  <1> SUFFICES Goal
    OBVIOUS
  <1> HIDE DEF Goal
  <1>n. /\ copies[r] \in Nat /\ copies'[r] \in Nat /\ asked[r] \in Nat /\ asked'[r] \in Nat
        /\ failures \in Nat /\ failures' \in Nat /\ clock \in Nat /\ clock' \in Nat
    BY DeliveryAssumption DEF TypeInv, TypeOK
  <1>l. ASSUME clock' = clock PROVE clock <= Lease
    BY <1>l
  <1>r. ASSUME clock <= Lease, deliveries' = deliveries, copies' = copies, asked' = asked,
               failures' = failures, rows' = rows
        PROVE  Goal
    <2>1. UpForGrabs(r)' <=> UpForGrabs(r)
      BY <1>r DEF UpForGrabs, Holds
    <2>2. One(UpForGrabs(r)') - One(UpForGrabs(r)) <= (asked'[r] + failures') - (asked[r] + failures)
      BY <1>n, <1>r, <2>1 DEF One
    <2> QED
      BY <1>u, <1>r, <2>2, AccountedAtRest DEF Goal
  <1>m. ASSUME clock <= Lease, NEW p \in Deliverers,
               \A q \in Deliverers \ {p} : deliveries'[q] = deliveries[q],
               asked'[r] >= asked[r], failures' >= failures,
               \/ /\ copies'[r] = copies[r]
                  /\ UpForGrabs(r)' => UpForGrabs(r)
                  /\ p \in MaySend(r)' => p \in MaySend(r)
               \/ /\ copies'[r] = copies[r] + 1
                  /\ UpForGrabs(r)' => UpForGrabs(r)
                  /\ p \in MaySend(r) /\ p \notin MaySend(r)'
               \/ copies'[r] = copies[r] /\ p \in MaySend(r) /\ p \notin MaySend(r)'
               \/ copies'[r] = copies[r] /\ UpForGrabs(r) /\ ~UpForGrabs(r)' /\ p \notin MaySend(r)
               \/ /\ copies'[r] = copies[r] /\ p \notin MaySend(r)'
                  /\ asked'[r] + failures' >= asked[r] + failures + 1
        PROVE  Goal
    <2> DEFINE up    == UpForGrabs(r)
               upp   == UpForGrabs(r)'
               may   == p \in MaySend(r)
               mayp  == p \in MaySend(r)'
    <2>1. (copies'[r] + One(mayp) + One(upp)) - (copies[r] + One(may) + One(up))
             <= (asked'[r] + failures') - (asked[r] + failures)
      <3> HIDE DEF up, upp, may, mayp
      <3>1. /\ One(mayp) \in 0..1 /\ One(upp) \in 0..1 /\ One(may) \in 0..1 /\ One(up) \in 0..1
            /\ mayp => One(mayp) = 1
            /\ ~mayp => One(mayp) = 0
            /\ upp => One(upp) = 1
            /\ ~upp => One(upp) = 0
            /\ may => One(may) = 1
            /\ ~may => One(may) = 0
            /\ up => One(up) = 1
            /\ ~up => One(up) = 0
        BY DEF One
      <3>0. /\ (upp => up) => One(upp) <= One(up)
            /\ (mayp => may) => One(mayp) <= One(may)
        BY DEF One
      <3>2. \/ /\ copies'[r] = copies[r] /\ One(upp) <= One(up) /\ One(mayp) <= One(may)
            \/ /\ copies'[r] = copies[r] + 1 /\ One(upp) <= One(up)
               /\ One(may) = 1 /\ One(mayp) = 0
            \/ copies'[r] = copies[r] /\ One(may) = 1 /\ One(mayp) = 0
            \/ copies'[r] = copies[r] /\ One(up) = 1 /\ One(upp) = 0 /\ One(may) = 0
            \/ /\ copies'[r] = copies[r] /\ One(mayp) = 0
               /\ asked'[r] + failures' >= asked[r] + failures + 1
        <4>1. CASE /\ copies'[r] = copies[r]
                   /\ upp => up
                   /\ mayp => may
          BY <3>0, <4>1
        <4>2. CASE /\ copies'[r] = copies[r] + 1
                   /\ upp => up
                   /\ may /\ ~mayp
          BY <3>0, <3>1, <4>2
        <4>3. CASE \/ copies'[r] = copies[r] /\ may /\ ~mayp
                   \/ copies'[r] = copies[r] /\ up /\ ~upp /\ ~may
                   \/ /\ copies'[r] = copies[r] /\ ~mayp
                      /\ asked'[r] + failures' >= asked[r] + failures + 1
          BY <3>1, <4>3
        <4> QED
          BY <1>m, <4>1, <4>2, <4>3 DEF up, upp, may, mayp
      <3> DEFINE a == One(up)
                 b == One(upp)
                 m == One(may)
                 n == One(mayp)
      <3>3. a \in 0..1 /\ b \in 0..1 /\ m \in 0..1 /\ n \in 0..1
        BY <3>1
      <3>4. \/ copies'[r] = copies[r] /\ b <= a /\ n <= m
            \/ copies'[r] = copies[r] + 1 /\ b <= a /\ m = 1 /\ n = 0
            \/ copies'[r] = copies[r] /\ m = 1 /\ n = 0
            \/ copies'[r] = copies[r] /\ a = 1 /\ b = 0 /\ m = 0
            \/ copies'[r] = copies[r] /\ n = 0 /\ asked'[r] + failures' >= asked[r] + failures + 1
        BY <3>2
      <3> HIDE DEF a, b, m, n
      <3>5. (copies'[r] + n + b) - (copies[r] + m + a)
               <= (asked'[r] + failures') - (asked[r] + failures)
        <4>1. asked'[r] + failures' >= asked[r] + failures
          BY <1>n, <1>m
        <4>2. /\ asked'[r] + failures' \in Nat /\ asked[r] + failures \in Nat
              /\ copies'[r] \in Nat /\ copies[r] \in Nat
          BY <1>n
        <4> DEFINE x == asked[r] + failures
                   y == asked'[r] + failures'
                   c == copies[r]
                   d == copies'[r]
        <4>3. /\ x \in Nat /\ y \in Nat /\ c \in Nat /\ d \in Nat /\ y >= x
              /\ \/ d = c /\ b <= a /\ n <= m
                 \/ d = c + 1 /\ b <= a /\ m = 1 /\ n = 0
                 \/ d = c /\ m = 1 /\ n = 0
                 \/ d = c /\ a = 1 /\ b = 0 /\ m = 0
                 \/ d = c /\ n = 0 /\ y >= x + 1
          BY <3>4, <4>1, <4>2
        <4> HIDE DEF x, y, c, d
        <4>4. (d + n + b) - (c + m + a) <= y - x
          BY <3>3, <4>3
        <4> QED
          BY <4>4 DEF x, y, c, d
      <3> QED
        BY <3>5 DEF a, b, m, n
    <2> QED
      BY <1>u, <1>m, <2>1, Accounted DEF Goal
  <1>1. CASE Tick
    <2>1. clock <= Lease
      BY <1>1, <1>n, DeliveryAssumption DEF Tick
    <2> QED
      BY <1>r, <1>1, <2>1 DEF Tick
  <1>2. ASSUME NEW scope \in SUBSET Announcements, NEW e \in Dispatches, Queue(scope, e)
        PROVE  Goal
    <2> DEFINE new == {s \in scope : rows[s].status = "none"}
    <2>1. /\ clock' = clock /\ deliveries' = deliveries /\ copies' = copies
          /\ rows'[r] = IF r \in new THEN Pending ELSE rows[r]
          /\ asked'[r] = IF r \in new THEN asked[r] + 1 ELSE asked[r]
      BY <1>2 DEF Queue
    <2>2. failures' = failures \/ failures' = failures + 1
      BY <1>2 DEF Queue
    <2>3. CASE r \in new
      <3>1. ~UpForGrabs(r)
        BY <2>3 DEF UpForGrabs
      <3>2. One(UpForGrabs(r)) = 0 /\ One(UpForGrabs(r)') \in 0..1
        BY <3>1 DEF One
      <3>3. One(UpForGrabs(r)') - One(UpForGrabs(r))
              <= (asked'[r] + failures') - (asked[r] + failures)
        BY <1>n, <2>1, <2>2, <2>3, <3>2
      <3> QED
        BY <1>u, <1>l, <2>1, <3>3, AccountedAtRest DEF Goal
    <2>4. CASE r \notin new
      <3>1. UpForGrabs(r)' <=> UpForGrabs(r)
        BY <2>1, <2>4 DEF UpForGrabs, Holds
      <3>2. One(UpForGrabs(r)') - One(UpForGrabs(r)) = 0
        BY <3>1 DEF One
      <3>3. One(UpForGrabs(r)') - One(UpForGrabs(r))
              <= (asked'[r] + failures') - (asked[r] + failures)
        BY <1>n, <2>1, <2>2, <2>4, <3>2
      <3> QED
        BY <1>u, <1>l, <2>1, <3>3, AccountedAtRest DEF Goal
    <2> QED
      BY <2>3, <2>4
  <1>3. ASSUME NEW s \in Rows, Unsubscribe(s) PROVE Goal
    BY <1>l, <1>r, <1>3 DEF Unsubscribe
  <1>4. ASSUME NEW p \in Deliverers, NEW scope, Requeue(p, scope) PROVE Goal
    <2>1. /\ clock' = clock /\ copies' = copies /\ failures' = failures
          /\ rows'[r] = IF r \in scope THEN Pending ELSE rows[r]
          /\ asked'[r] = IF r \in scope THEN asked[r] + 1 ELSE asked[r]
      BY <1>4 DEF Requeue
    <2>2. p \notin MaySend(r) /\ p \notin MaySend(r)' /\ ~Holds(p, r)
      BY <1>4, RequeueGives DEF MaySend, Holds, Idle
    <2>3. r \notin scope => (UpForGrabs(r)' => UpForGrabs(r))
      BY <1>4, <2>1, <2>2, GrabsKept, RequeueGives
    <2>4. clock <= Lease /\ \A q \in Deliverers \ {p} : deliveries'[q] = deliveries[q]
      BY <1>l, <1>4, <2>1, RequeueGives
    <2>5. CASE r \in scope
      <3>1. asked'[r] + failures' >= asked[r] + failures + 1 /\ asked'[r] >= asked[r]
            /\ failures' >= failures /\ copies'[r] = copies[r]
        BY <1>n, <2>1, <2>5
      <3> QED
        BY <1>m, <2>2, <2>4, <3>1
    <2>6. CASE r \notin scope
      <3>1. asked'[r] >= asked[r] /\ failures' >= failures /\ copies'[r] = copies[r]
        BY <1>n, <2>1, <2>6
      <3> QED
        BY <1>m, <2>2, <2>3, <2>4, <2>6, <3>1
    <2> QED
      BY <2>5, <2>6
  <1>s. ASSUME NEW p \in Deliverers, clock' = clock, asked' = asked, failures' = failures,
               \A q \in Deliverers \ {p} : deliveries'[q] = deliveries[q],
               \/ /\ copies'[r] = copies[r]
                  /\ UpForGrabs(r)' => UpForGrabs(r)
                  /\ p \in MaySend(r)' => p \in MaySend(r)
               \/ /\ copies'[r] = copies[r] + 1
                  /\ UpForGrabs(r)' => UpForGrabs(r)
                  /\ p \in MaySend(r) /\ p \notin MaySend(r)'
               \/ copies'[r] = copies[r] /\ p \in MaySend(r) /\ p \notin MaySend(r)'
               \/ copies'[r] = copies[r] /\ UpForGrabs(r) /\ ~UpForGrabs(r)' /\ p \notin MaySend(r)
        PROVE  Goal
    <2>1. asked'[r] >= asked[r] /\ failures' >= failures
      BY <1>n, <1>s
    <2> QED
      BY <1>l, <1>m, <1>s, <2>1
  <1>5. ASSUME NEW p \in Deliverers, NEW e \in Dispatches, StartDispatch(p, e) PROVE Goal
    <2>1. /\ rows'[r] = rows[r] /\ ~Holds(p, r) /\ p \notin MaySend(r)'
          /\ \A q \in Deliverers \ {p} : deliveries'[q] = deliveries[q]
      BY <1>5, StartGives DEF Holds, MaySend, Idle
    <2>2. UpForGrabs(r)' => UpForGrabs(r)
      BY <2>1, GrabsKept
    <2> QED
      BY <1>s, <1>5, <2>1, <2>2 DEF StartDispatch
  <1>6. ASSUME NEW p \in Deliverers, Claim(p) PROVE Goal
    <2>1. /\ clock' = clock /\ asked' = asked /\ failures' = failures /\ copies' = copies
          /\ \A q \in Deliverers \ {p} : deliveries'[q] = deliveries[q]
      BY <1>6, ClaimGoesOn
    <2>2. clock <= Lease
      BY <1>l, <2>1
    <2>3. CASE r \in deliveries'[p].left
      BY <1>s, <1>6, <2>1, <1>u, <2>2, <2>3, ClaimMoves
    <2>4. CASE r \notin deliveries'[p].left
      BY <1>s, <1>6, <2>1, <1>u, <2>2, <2>4, ClaimMoves
    <2> QED
      BY <2>3, <2>4
  <1>7. ASSUME NEW p \in Deliverers, NEW s \in Rows, NEW outcome \in Outcomes,
               Send(p, s, outcome)
        PROVE  Goal
    <2>1. /\ clock' = clock /\ asked' = asked /\ failures' = failures
          /\ \A q \in Deliverers \ {p} : deliveries'[q] = deliveries[q]
      BY <1>7, SendGives DEF Send
    <2> QED
      BY <1>s, <1>7, <2>1, SendMoves
  <1>8. ASSUME NEW p \in Deliverers, NEW s \in Rows, Skip(p, s) \/ Record(p, s) PROVE Goal
    <2>1. /\ clock' = clock /\ asked' = asked
          /\ \A q \in Deliverers \ {p} : deliveries'[q] = deliveries[q]
      BY <1>8, SendingGoesOn
    <2>2. /\ copies'[r] = copies[r] /\ failures' \in {failures, failures + 1}
          /\ p \in MaySend(r)' => p \in MaySend(r)
      BY <1>8, RecordMoves
    <2>3. asked'[r] >= asked[r] /\ failures' >= failures
      BY <1>n, <2>1, <2>2
    <2>4. CASE UpForGrabs(r)' => UpForGrabs(r)
      BY <1>l, <1>m, <2>1, <2>2, <2>3, <2>4
    <2>5. CASE p \in MaySend(r) /\ p \notin MaySend(r)'
      BY <1>l, <1>m, <2>1, <2>2, <2>3, <2>5
    <2>6. CASE failures' = failures + 1 /\ p \notin MaySend(r)'
      <3>1. asked'[r] + failures' >= asked[r] + failures + 1
        BY <1>n, <2>1, <2>6
      <3> QED
        BY <1>l, <1>m, <2>1, <2>2, <2>3, <2>6, <3>1
    <2> QED
      BY <1>8, <2>4, <2>5, <2>6, RecordMoves
  <1>9. ASSUME NEW p \in Deliverers, Finish(p) PROVE Goal
    <2>1. deliveries[p].left = {} /\ \A q \in Deliverers \ {p} : deliveries'[q] = deliveries[q]
      BY <1>9, FinishGives
    <2>2. deliveries'[p].step # "send"
      <3>1. Idle.step # "send" /\ \A e \in Dispatches : Batch(e).step # "send"
        BY DEF Batch, Idle
      <3> QED
        BY <1>9, <3>1, FinishGives
    <2>3. ~Holds(p, r) /\ p \notin MaySend(r)' /\ rows'[r] = rows[r]
      BY <1>9, <2>1, <2>2 DEF Holds, MaySend, Finish
    <2>4. UpForGrabs(r)' => UpForGrabs(r)
      BY <2>1, <2>3, GrabsKept
    <2> QED
      BY <1>s, <1>9, <2>1, <2>3, <2>4 DEF Finish
  <1>10. ASSUME NEW p \in Deliverers, Die(p) PROVE Goal
    <2>1. /\ clock' = clock /\ asked' = asked /\ failures' = failures + 1 /\ copies' = copies
      BY <1>10 DEF Die
    <2>2. p \notin MaySend(r)' /\ \A q \in Deliverers \ {p} : deliveries'[q] = deliveries[q]
      BY <1>10, DieGives DEF MaySend, Holds, Idle
    <2>3. /\ asked'[r] >= asked[r] /\ failures' >= failures
          /\ asked'[r] + failures' >= asked[r] + failures + 1
      BY <1>n, <2>1
    <2> QED
      BY <1>l, <1>m, <2>1, <2>2, <2>3
  <1>11. CASE UNCHANGED vars
    BY <1>l, <1>r, <1>11 DEF vars
  <1> QED
    BY <1>1, <1>2, <1>3, <1>4, <1>5, <1>6, <1>7, <1>8, <1>9, <1>10, <1>11
       DEF Next, Proceed, Call, Subscribe

LEMMA CopiesInit == Init => CopiesAccountedFor
PROOF
  <1> SUFFICES ASSUME Init, NEW r \in Rows
               PROVE  copies[r] + Cardinality(MaySend(r)) + One(UpForGrabs(r))
                        <= asked[r] + failures
    BY DEF CopiesAccountedFor
  <1>1. copies[r] = 0 /\ asked[r] = 0 /\ failures = 0
    BY DEF Init
  <1>2. MaySend(r) = {}
    BY DEF Init, MaySend, Holds, Idle
  <1>3. ~UpForGrabs(r)
    BY DEF Init, UpForGrabs, NoRow
  <1>4. Cardinality(MaySend(r)) = 0 /\ One(UpForGrabs(r)) = 0
    BY <1>2, <1>3, FS_EmptySet DEF One
  <1> QED
    BY <1>1, <1>4

\* Within the lease a guest is sent at most one copy for each time the notification was
\* queued and one more for each delivery that died or could not record what it sent, whoever
\* delivers and in what order; of announcements this holds until runs of an event overlap.
THEOREM NobodyIsToldTooOften == Spec => []NoMoreCopiesThanAsked
PROOF
  <1> DEFINE Inv == HandsInv /\ OneDeliveryPerEvent /\ CopiesAccountedFor
  <1>1. Init => Inv
    <2>1. Init => OneDeliveryPerEvent
      BY DeliveryAssumption DEF Init, OneDeliveryPerEvent, Idle
    <2> QED
      BY <2>1, HandsInit, CopiesInit
  <1>2. Inv /\ [Next]_vars => Inv'
    <2> SUFFICES ASSUME Inv, [Next]_vars PROVE Inv'
      OBVIOUS
    <2>1. HandsInv' /\ TypeInv /\ TypeInv' /\ ScopesAreWhole
      BY HandsKept DEF HandsInv, TypeInv
    <2>2. OneDeliveryPerEvent'
      BY <2>1, EventsKept
    <2>3. CopiesAccountedFor'
      BY <2>1, CopiesKept
    <2> QED
      BY <2>1, <2>2, <2>3
  <1>3. Inv => NoMoreCopiesThanAsked
    <2> SUFFICES ASSUME Inv, clock <= Lease, NEW r \in Rows, ~Unpromised(r)
                 PROVE  copies[r] <= asked[r] + failures
      BY DEF NoMoreCopiesThanAsked, Unpromised
    <2>1. copies[r] + Cardinality(MaySend(r)) + One(UpForGrabs(r)) <= asked[r] + failures
      BY DEF CopiesAccountedFor
    <2>2. MaySend(r) \in SUBSET Deliverers
      BY DEF MaySend
    <2>3. Cardinality(MaySend(r)) \in Nat /\ One(UpForGrabs(r)) \in 0..1
      BY <2>2, DeliveryAssumption, FS_Subset, FS_CardinalityType DEF One
    <2>4. copies[r] \in Nat /\ asked[r] \in Nat /\ failures \in Nat
      BY DeliveryAssumption DEF HandsInv, TypeOK
    <2> QED
      BY <2>1, <2>3, <2>4
  <1> QED
    BY <1>1, <1>2, <1>3, PTL DEF Spec
=============================================================================
