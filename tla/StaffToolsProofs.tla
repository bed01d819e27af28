---------------------------- MODULE StaffToolsProofs ----------------------------
(***************************************************************************)
(* The staff's tools beside the queue: the print station loses no name tag *)
(* and prints none twice without an excuse, whatever fails; an account in  *)
(* the worker directory has the access it was last given, and owners keep  *)
(* theirs; and a tab counts one household at a time.  The tools share no   *)
(* state, and no theorem speaks of two of them.                            *)
(***************************************************************************)
EXTENDS PrintStation, HouseholdService, WorkerDirectory,
        Integers, FiniteSetTheorems, SequenceTheorems, TLAPS

-----------------------------------------------------------------------------
(* The print station.                                                       *)

\* A tag not yet sent is in no store and on no paper, and has not come to the station.
UnsentIsUnseen ==
  \A t \in Tags :
    /\ t \in sending => sentAt[t] = Never
    /\ sentAt[t] = Never =>
         /\ t \notin jobs /\ prints[t] = 0
         /\ t \notin Waiting /\ ~BeingCollected(t)

\* What is being removed was printed, and is gone from the store once its removal is done.
RemovedOncePrinted ==
  /\ \A t \in printed : prints[t] > 0
  /\ \A r \in removals : prints[r.tag] > 0 /\ (r.step = "done" => r.tag \notin jobs)

\* A printed tag that waits again, or will when it is collected, is excused.
SecondsAreExcused ==
  \A t \in Tags :
    prints[t] > 0 =>
      /\ t \in Waiting => t \in excused
      /\ (t \in jobs \/ BeingCollected(t)) /\ t \notin printed => t \in excused

StationInv ==
  /\ PSTypeOK
  /\ UnsentIsUnseen /\ RemovedOncePrinted /\ SecondsAreExcused
  /\ NothingIsLost /\ TwiceOnlyWhenExcused

\* The times a tag may be sent at.
LEMMA StationTimes ==
  ASSUME StationAssumption
  PROVE  /\ MaxTime \in Nat /\ Never \in Nat /\ Never \notin 0..MaxTime
         /\ Lifetime \in Nat /\ MaxStationFailures \in Nat /\ Tags \subseteq Nat
PROOF
  BY DEF StationAssumption, Never

\* A list without its first member holds the others, once each.
LEMMA TailOfWaiting ==
  ASSUME NEW S, NEW s \in Seq(S), IsInjective(s), s # <<>>
  PROVE  /\ Head(s) \in S /\ \E i \in DOMAIN s : s[i] = Head(s)
         /\ Tail(s) \in Seq(S) /\ IsInjective(Tail(s))
         /\ \A i \in DOMAIN Tail(s) : Tail(s)[i] # Head(s) /\ \E j \in DOMAIN s : s[j] = Tail(s)[i]
PROOF
  <1>1. /\ Head(s) \in S /\ Tail(s) \in Seq(S)
        /\ Len(Tail(s)) = Len(s) - 1
        /\ \A i \in 1..Len(Tail(s)) : Tail(s)[i] = s[i + 1]
    BY HeadTailProperties
  <1>2. Len(s) \in Nat /\ DOMAIN s = 1..Len(s) /\ Len(s) # 0
    BY LenProperties, EmptySeq
  <1>3. DOMAIN Tail(s) = 1..Len(Tail(s))
    BY <1>1, LenProperties
  <1>4. Head(s) = s[1] /\ 1 \in DOMAIN s
    BY <1>2
  <1>5. \A i \in DOMAIN Tail(s) : i + 1 \in DOMAIN s /\ i + 1 # 1 /\ Tail(s)[i] = s[i + 1]
    BY <1>1, <1>2, <1>3
  <1>6. IsInjective(Tail(s))
    <2> SUFFICES ASSUME NEW i \in DOMAIN Tail(s), NEW j \in DOMAIN Tail(s), Tail(s)[i] = Tail(s)[j]
                 PROVE  i = j
      BY DEF IsInjective
    <2>1. i + 1 = j + 1
      BY <1>5 DEF IsInjective
    <2> QED
      BY <1>1, <1>2, <1>3, <2>1
  <1> QED
    BY <1>1, <1>4, <1>5, <1>6 DEF IsInjective

\* Tags added to a list that has none of them.
LEMMA JoinedToWaiting ==
  ASSUME NEW s \in Seq(Tags), NEW l \in Seq(Tags), IsInjective(s), IsInjective(l),
         \A i \in DOMAIN s : \A j \in DOMAIN l : s[i] # l[j]
  PROVE  /\ s \o l \in Seq(Tags) /\ IsInjective(s \o l)
         /\ \A i \in DOMAIN (s \o l) :
              (\E j \in DOMAIN s : s[j] = (s \o l)[i]) \/ (\E j \in DOMAIN l : l[j] = (s \o l)[i])
PROOF
  <1> DEFINE both == s \o l
  <1>1. /\ both \in Seq(Tags) /\ Len(both) = Len(s) + Len(l)
        /\ \A i \in 1..Len(s) + Len(l) : both[i] = IF i <= Len(s) THEN s[i] ELSE l[i - Len(s)]
    BY ConcatProperties
  <1>2. /\ Len(s) \in Nat /\ DOMAIN s = 1..Len(s)
        /\ Len(l) \in Nat /\ DOMAIN l = 1..Len(l)
        /\ DOMAIN both = 1..Len(both)
    BY <1>1, LenProperties
  <1> HIDE DEF both
  <1>3. ASSUME NEW i \in DOMAIN both
        PROVE  \/ i \in DOMAIN s /\ both[i] = s[i]
               \/ i - Len(s) \in DOMAIN l /\ both[i] = l[i - Len(s)] /\ i \notin DOMAIN s
    BY <1>1, <1>2
  <1>4. ASSUME NEW i \in DOMAIN both, NEW j \in DOMAIN both, both[i] = both[j]
        PROVE  i = j
    <2>1. CASE i \in DOMAIN s
      <3>1. j \in DOMAIN s
        BY <1>3, <1>4, <2>1
      <3>2. s[i] = s[j]
        BY <1>3, <1>4, <2>1, <3>1
      <3> QED
        BY <2>1, <3>1, <3>2 DEF IsInjective
    <2>2. CASE i \notin DOMAIN s
      <3>1. j \notin DOMAIN s
        BY <1>3, <1>4, <2>2
      <3>2. i - Len(s) = j - Len(s)
        BY <1>3, <1>4, <2>2, <3>1 DEF IsInjective
      <3> QED
        BY <1>1, <1>2, <3>2
    <2> QED
      BY <2>1, <2>2
  <1> QED
    BY <1>1, <1>3, <1>4 DEF IsInjective, both

\* Tags listed in the order of their ids: each of them once, and no other.
LEMMA ListingGives ==
  ASSUME StationAssumption, sentAt \in [Tags -> Nat],
         NEW S \in SUBSET Tags, NEW list \in Listings(S)
  PROVE  /\ list \in Seq(Tags) /\ IsInjective(list)
         /\ \A i \in DOMAIN list : list[i] \in S
PROOF
  <1>1. IsFiniteSet(Tags)
    BY DEF StationAssumption
  <1>2. Cardinality(S) \in Nat
    BY <1>1, FS_Subset, FS_CardinalityType
  <1>3. /\ list \in [1..Cardinality(S) -> S]
        /\ \A i, j \in DOMAIN list : i < j => Precedes(list[i], list[j])
    BY DEF Listings
  <1>4. DOMAIN list = 1..Cardinality(S) /\ \A i \in DOMAIN list : list[i] \in S
    BY <1>3
  <1>5. list \in Seq(Tags)
    <2>1. list \in [1..Cardinality(S) -> Tags]
      BY <1>3
    <2>2. ASSUME NEW n \in Nat, NEW s \in [1..n -> Tags] PROVE s \in Seq(Tags)
      BY SeqDef
    <2> QED
      BY <1>2, <2>1, <2>2
  <1>6. \A t \in Tags : ~Precedes(t, t)
    BY StationTimes DEF Precedes
  <1>7. ASSUME NEW i \in DOMAIN list, NEW j \in DOMAIN list, list[i] = list[j], i # j
        PROVE  FALSE
    <2>1. i < j \/ j < i
      BY <1>2, <1>4, <1>7
    <2>2. list[i] \in Tags
      BY <1>4
    <2> QED
      BY <1>3, <1>6, <1>7, <2>1, <2>2
  <1> QED
    BY <1>4, <1>5, <1>7 DEF IsInjective

LEMMA StationInit ==
  StationAssumption /\ PSInit => StationInv
PROOF
  <1> SUFFICES ASSUME StationAssumption, PSInit PROVE StationInv
    OBVIOUS
  <1>1. waiting = <<>> /\ waiting \in Seq(Tags) /\ DOMAIN waiting = {}
    <2>1. waiting = <<>> /\ waiting \in Seq(Tags)
      BY EmptySeq DEF PSInit
    <2> QED
      BY <2>1, EmptySeq, LenProperties
  <1>2. IsInjective(waiting) /\ Waiting = {}
    BY <1>1 DEF IsInjective, Waiting
  <1>3. PSTypeOK
    <2>1. clock \in 0..MaxTime /\ stationFailures \in 0..MaxStationFailures
      BY StationTimes DEF PSInit
    <2>2. /\ sentAt \in [Tags -> 0..MaxTime \cup {Never}]
          /\ prints \in [Tags -> 0..2]
      BY DEF PSInit
    <2> QED
      BY <1>1, <1>2, <2>1, <2>2 DEF PSInit, PSTypeOK
  <1>4. UnsentIsUnseen
    BY <1>2 DEF UnsentIsUnseen, PSInit, BeingCollected, NoCollection
  <1>5. RemovedOncePrinted
    BY DEF PSInit, RemovedOncePrinted
  <1>6. SecondsAreExcused
    BY DEF PSInit, SecondsAreExcused
  <1> QED
    BY <1>3, <1>4, <1>5, <1>6
    DEF StationInv, PSInit, NothingIsLost, TwiceOnlyWhenExcused

\* A phone that finds the station online.
LEMMA CheckStationKeeps ==
  ASSUME StationAssumption, StationInv, NEW t \in Tags, CheckStation(t)
  PROVE  StationInv'
PROOF
  <1> USE DEF StationInv, PSTypeOK, CheckStation,
              phones, store, page, paper
  <1>1. PSTypeOK'
    BY StationTimes DEF Removals, Removal
  <1>2. UnsentIsUnseen'
    BY StationTimes DEF UnsentIsUnseen, Waiting, BeingCollected, NoCollection
  <1>3. RemovedOncePrinted'
    BY DEF RemovedOncePrinted, Removals, Removal
  <1>4. SecondsAreExcused'
    BY DEF SecondsAreExcused, Waiting, BeingCollected, NoCollection
  <1>5. NothingIsLost'
    BY StationTimes DEF NothingIsLost, WorthPrinting
  <1>6. TwiceOnlyWhenExcused'
    BY DEF TwiceOnlyWhenExcused
  <1> QED
    BY <1>1, <1>2, <1>3, <1>4, <1>5, <1>6

\* A tag queued has been on no paper yet.
LEMMA EnqueueKeeps ==
  ASSUME StationAssumption, StationInv, NEW t \in Tags, Enqueue(t)
  PROVE  StationInv'
PROOF
  <1> USE DEF StationInv, PSTypeOK, Enqueue,
              phones, store, page, paper
  <1>1. PSTypeOK'
    <2>1. sending' \subseteq Tags /\ jobs' \subseteq Tags
      OBVIOUS
    <2>2. sentAt' \in [Tags -> 0..MaxTime \cup {Never}]
      OBVIOUS
    <2>3. UNCHANGED <<clock, heartbeat, up, waiting, printed, collection, removals, prints, excused,
                      stationFailures>>
      OBVIOUS
    <2> HIDE DEF Enqueue
    <2> QED
      BY <2>1, <2>2, <2>3
  <1>2. UnsentIsUnseen'
    BY StationTimes DEF UnsentIsUnseen, Waiting, BeingCollected, NoCollection
  <1>3. prints[t] = 0 /\ t \in Tags /\ jobs' \subseteq jobs \cup {t}
    BY DEF UnsentIsUnseen
  <1>4. UNCHANGED <<waiting, printed, collection, removals, prints, excused>>
    OBVIOUS
  <1>5. \A r \in removals : r.tag \in Tags /\ r.tag # t
    <2>1. \A r \in removals : r.tag \in Tags /\ prints[r.tag] > 0
      BY DEF RemovedOncePrinted, Removals
    <2> QED
      BY <1>3, <2>1
  <1>6. RemovedOncePrinted'
    <2>1. RemovedOncePrinted
      OBVIOUS
    <2> HIDE DEF StationInv, PSTypeOK, Enqueue, phones, store, page, paper
    <2> QED
      BY <1>3, <1>4, <1>5, <2>1 DEF RemovedOncePrinted
  <1>7. SecondsAreExcused'
    <2>1. SecondsAreExcused
      OBVIOUS
    <2> HIDE DEF StationInv, PSTypeOK, Enqueue, phones, store, page, paper
    <2>2. \A s \in Tags : prints[s] > 0 => (s \in jobs' => s \in jobs)
      BY <1>3
    <2>3. /\ Waiting' = Waiting
          /\ \A s \in Tags : BeingCollected(s)' <=> BeingCollected(s)
      BY <1>4 DEF Waiting, BeingCollected
    <2> QED
      BY <1>4, <2>1, <2>2, <2>3 DEF SecondsAreExcused
  <1>8. NothingIsLost'
    BY StationTimes DEF NothingIsLost, WorthPrinting
  <1>9. TwiceOnlyWhenExcused'
    BY DEF TwiceOnlyWhenExcused
  <1> QED
    BY <1>1, <1>2, <1>6, <1>7, <1>8, <1>9

\* A collection begun has seen nothing.
LEMMA PollKeeps ==
  ASSUME StationAssumption, StationInv, Poll
  PROVE  StationInv'
PROOF
  <1> USE DEF StationInv, PSTypeOK, Poll,
              phones, store, page, paper
  <1>1. PSTypeOK'
    BY StationTimes DEF Removals, Removal
  <1>2. UnsentIsUnseen'
    BY StationTimes DEF UnsentIsUnseen, Waiting, BeingCollected, NoCollection
  <1>3. RemovedOncePrinted'
    BY DEF RemovedOncePrinted, Removals, Removal
  <1>4. SecondsAreExcused'
    BY DEF SecondsAreExcused, Waiting, BeingCollected, NoCollection
  <1>5. NothingIsLost'
    BY StationTimes DEF NothingIsLost, WorthPrinting
  <1>6. TwiceOnlyWhenExcused'
    BY DEF TwiceOnlyWhenExcused
  <1> QED
    BY <1>1, <1>2, <1>3, <1>4, <1>5, <1>6

\* The station checking in.
LEMMA HeartbeatKeeps ==
  ASSUME StationAssumption, StationInv, Heartbeat
  PROVE  StationInv'
PROOF
  <1> USE DEF StationInv, PSTypeOK, Heartbeat,
              phones, store, page, paper
  <1>1. PSTypeOK'
    BY StationTimes DEF Removals, Removal
  <1>2. UnsentIsUnseen'
    BY StationTimes DEF UnsentIsUnseen, Waiting, BeingCollected, NoCollection
  <1>3. RemovedOncePrinted'
    BY DEF RemovedOncePrinted, Removals, Removal
  <1>4. SecondsAreExcused'
    BY DEF SecondsAreExcused, Waiting, BeingCollected, NoCollection
  <1>5. NothingIsLost'
    BY StationTimes DEF NothingIsLost, WorthPrinting
  <1>6. TwiceOnlyWhenExcused'
    BY DEF TwiceOnlyWhenExcused
  <1> QED
    BY <1>1, <1>2, <1>3, <1>4, <1>5, <1>6

\* What a collection lists is in the store.
LEMMA ListKeysKeeps ==
  ASSUME StationAssumption, StationInv, ListKeys
  PROVE  StationInv'
PROOF
  <1> USE DEF StationInv, PSTypeOK, ListKeys,
              phones, store, page, paper
  <1>1. PSTypeOK'
    BY StationTimes DEF Removals, Removal
  <1>2. UnsentIsUnseen'
    BY StationTimes DEF UnsentIsUnseen, Waiting, BeingCollected, NoCollection
  <1>3. RemovedOncePrinted'
    BY DEF RemovedOncePrinted, Removals, Removal
  <1>4. SecondsAreExcused'
    BY DEF SecondsAreExcused, Waiting, BeingCollected, NoCollection
  <1>5. NothingIsLost'
    BY StationTimes DEF NothingIsLost, WorthPrinting
  <1>6. TwiceOnlyWhenExcused'
    BY DEF TwiceOnlyWhenExcused
  <1> QED
    BY <1>1, <1>2, <1>3, <1>4, <1>5, <1>6

\* Reading a key clears at most what is not worth printing.
LEMMA ReadKeyKeeps ==
  ASSUME StationAssumption, StationInv, NEW t \in Tags, ReadKey(t)
  PROVE  StationInv'
PROOF
  <1> USE DEF StationInv, PSTypeOK, ReadKey,
              phones, store, page, paper
  <1>r. /\ collection' \in [step : {"reading"}, keys : SUBSET Tags, found : SUBSET Tags]
        /\ collection.step = "reading" /\ collection'.step = "reading"
        /\ collection'.keys \cup collection'.found \subseteq collection.keys \cup collection.found
    <2>1. collection \in [step : {"reading"}, keys : SUBSET Tags, found : SUBSET Tags]
      BY DEF NoCollection
    <2>2. \/ collection' = [collection EXCEPT !.keys = @ \ {t}, !.found = @ \cup {t}]
          \/ collection' = [collection EXCEPT !.keys = @ \ {t}]
      OBVIOUS
    <2>3. t \in collection.keys
      OBVIOUS
    <2> HIDE DEF StationInv, PSTypeOK, ReadKey
    <2>4. /\ collection'.step = "reading" /\ collection'.keys = collection.keys \ {t}
          /\ collection'.found \in {collection.found, collection.found \cup {t}}
          /\ DOMAIN collection' = {"step", "keys", "found"}
      <3>1. CASE collection' = [collection EXCEPT !.keys = @ \ {t}, !.found = @ \cup {t}]
        BY <2>1, <3>1
      <3>2. CASE collection' = [collection EXCEPT !.keys = @ \ {t}]
        BY <2>1, <3>2
      <3> QED
        BY <2>2, <3>1, <3>2
    <2>5. collection' \in [step : {"reading"}, keys : SUBSET Tags, found : SUBSET Tags]
      <3>1. collection.keys \subseteq Tags /\ collection.found \subseteq Tags
        BY <2>1
      <3>2. CASE collection' = [collection EXCEPT !.keys = @ \ {t}, !.found = @ \cup {t}]
        BY <2>1, <3>1, <3>2
      <3>3. CASE collection' = [collection EXCEPT !.keys = @ \ {t}]
        BY <2>1, <3>1, <3>3
      <3> QED
        BY <2>2, <3>2, <3>3
    <2>6. collection'.keys \cup collection'.found \subseteq collection.keys \cup collection.found
      BY <2>3, <2>4
    <2> QED
      BY <2>1, <2>4, <2>5, <2>6
  <1>1. PSTypeOK'
    BY <1>r DEF PSTypeOK
  <1>2. UnsentIsUnseen'
    <2>1. UnsentIsUnseen
      OBVIOUS
    <2>2. /\ UNCHANGED <<sending, sentAt, waiting, prints>> /\ jobs' \subseteq jobs
      OBVIOUS
    <2> HIDE DEF StationInv, PSTypeOK, ReadKey, phones, store, page, paper
    <2>3. Waiting' = Waiting /\ \A s \in Tags : BeingCollected(s)' => BeingCollected(s)
      BY <1>r, <2>2 DEF Waiting, BeingCollected
    <2> QED
      BY <2>1, <2>2, <2>3 DEF UnsentIsUnseen
  <1>3. RemovedOncePrinted'
    BY DEF RemovedOncePrinted, Removals, Removal
  <1>4. SecondsAreExcused'
    BY <1>r DEF SecondsAreExcused, Waiting, BeingCollected
  <1>5. NothingIsLost'
    BY StationTimes DEF NothingIsLost, WorthPrinting
  <1>6. TwiceOnlyWhenExcused'
    BY DEF TwiceOnlyWhenExcused
  <1> QED
    BY <1>1, <1>2, <1>3, <1>4, <1>5, <1>6

\* A collection that ends.
LEMMA EndCollectionKeeps ==
  ASSUME StationAssumption, StationInv, EndCollection
  PROVE  StationInv'
PROOF
  <1> USE DEF StationInv, PSTypeOK, EndCollection,
              phones, store, page, paper
  <1>1. PSTypeOK'
    BY StationTimes DEF Removals, Removal
  <1>2. UnsentIsUnseen'
    BY StationTimes DEF UnsentIsUnseen, Waiting, BeingCollected, NoCollection
  <1>3. RemovedOncePrinted'
    BY DEF RemovedOncePrinted, Removals, Removal
  <1>4. SecondsAreExcused'
    BY DEF SecondsAreExcused, Waiting, BeingCollected, NoCollection
  <1>5. NothingIsLost'
    BY StationTimes DEF NothingIsLost, WorthPrinting
  <1>6. TwiceOnlyWhenExcused'
    BY DEF TwiceOnlyWhenExcused
  <1> QED
    BY <1>1, <1>2, <1>3, <1>4, <1>5, <1>6

\* A removal served takes a printed tag.
LEMMA RemoveJobKeeps ==
  ASSUME StationAssumption, StationInv, NEW r \in removals, RemoveJob(r)
  PROVE  StationInv'
PROOF
  <1> USE DEF StationInv, PSTypeOK, RemoveJob,
              phones, store, page, paper
  <1>1. PSTypeOK'
    BY StationTimes DEF Removals, Removal
  <1>2. UnsentIsUnseen'
    BY StationTimes DEF UnsentIsUnseen, Waiting, BeingCollected, NoCollection
  <1>3. RemovedOncePrinted'
    BY DEF RemovedOncePrinted, Removals, Removal
  <1>4. SecondsAreExcused'
    BY DEF SecondsAreExcused, Waiting, BeingCollected, NoCollection
  <1>5. NothingIsLost'
    BY DEF RemovedOncePrinted, NothingIsLost, WorthPrinting, Removals
  <1>6. TwiceOnlyWhenExcused'
    BY DEF TwiceOnlyWhenExcused
  <1> QED
    BY <1>1, <1>2, <1>3, <1>4, <1>5, <1>6

\* A tag no longer kept in mind is gone from the store.
LEMMA RemovedKeeps ==
  ASSUME StationAssumption, StationInv, NEW r \in removals, Removed(r)
  PROVE  StationInv'
PROOF
  <1> USE DEF StationInv, PSTypeOK, Removed,
              phones, store, page, paper
  <1>1. PSTypeOK'
    BY StationTimes DEF Removals, Removal
  <1>2. UnsentIsUnseen'
    BY StationTimes DEF UnsentIsUnseen, Waiting, BeingCollected, NoCollection
  <1>3. RemovedOncePrinted'
    BY DEF RemovedOncePrinted, Removals, Removal
  <1>4. SecondsAreExcused'
    BY DEF RemovedOncePrinted, SecondsAreExcused, Waiting, BeingCollected
  <1>5. NothingIsLost'
    BY StationTimes DEF NothingIsLost, WorthPrinting
  <1>6. TwiceOnlyWhenExcused'
    BY DEF TwiceOnlyWhenExcused
  <1> QED
    BY <1>1, <1>2, <1>3, <1>4, <1>5, <1>6

\* A collection that fails.
LEMMA CollectionFailsKeeps ==
  ASSUME StationAssumption, StationInv, CollectionFails
  PROVE  StationInv'
PROOF
  <1> USE DEF StationInv, PSTypeOK, CollectionFails, StationFailing, AfterFailure,
              phones, store, page, paper
  <1>1. PSTypeOK'
    BY StationTimes DEF Removals, Removal
  <1>2. UnsentIsUnseen'
    BY StationTimes DEF UnsentIsUnseen, Waiting, BeingCollected, NoCollection
  <1>3. RemovedOncePrinted'
    BY DEF RemovedOncePrinted, Removals, Removal
  <1>4. SecondsAreExcused'
    BY DEF SecondsAreExcused, Waiting, BeingCollected, NoCollection
  <1>5. NothingIsLost'
    BY StationTimes DEF NothingIsLost, WorthPrinting
  <1>6. TwiceOnlyWhenExcused'
    BY DEF TwiceOnlyWhenExcused
  <1> QED
    BY <1>1, <1>2, <1>3, <1>4, <1>5, <1>6

\* A removal that fails.
LEMMA RemovalFailsKeeps ==
  ASSUME StationAssumption, StationInv, NEW r \in removals, RemovalFails(r)
  PROVE  StationInv'
PROOF
  <1> USE DEF StationInv, PSTypeOK, RemovalFails, StationFailing,
              phones, store, page, paper
  <1>1. PSTypeOK'
    <2>1. stationFailures' \in 0..MaxStationFailures
      BY StationTimes
    <2>2. removals' \subseteq Removals
      OBVIOUS
    <2>3. UNCHANGED <<clock, sending, sentAt, jobs, heartbeat, up, waiting, printed, collection,
                      prints, excused>>
      OBVIOUS
    <2> HIDE DEF RemovalFails, StationFailing
    <2> QED
      BY <2>1, <2>2, <2>3
  <1>2. UnsentIsUnseen'
    BY StationTimes DEF UnsentIsUnseen, Waiting, BeingCollected, NoCollection
  <1>3. RemovedOncePrinted'
    BY DEF RemovedOncePrinted, Removals, Removal
  <1>4. SecondsAreExcused'
    BY DEF SecondsAreExcused, Waiting, BeingCollected, NoCollection
  <1>5. NothingIsLost'
    BY StationTimes DEF NothingIsLost, WorthPrinting
  <1>6. TwiceOnlyWhenExcused'
    BY DEF TwiceOnlyWhenExcused
  <1> QED
    BY <1>1, <1>2, <1>3, <1>4, <1>5, <1>6

\* A crash excuses what is printed and still in the store.
LEMMA CrashKeeps ==
  ASSUME StationAssumption, StationInv, Crash
  PROVE  StationInv'
PROOF
  <1> USE DEF StationInv, PSTypeOK, Crash, StationFailing,
              phones, store, page, paper
  <1>1. PSTypeOK'
    <2>1. removals' \subseteq Removals
      BY DEF Removals, Removal
    <2>2. waiting' \in Seq(Tags) /\ IsInjective(waiting')
      BY EmptySeq DEF IsInjective
    <2>3. stationFailures' \in 0..MaxStationFailures
      BY StationTimes DEF StationFailing
    <2> QED
      BY <2>1, <2>2, <2>3
  <1>2. UnsentIsUnseen'
    BY StationTimes DEF UnsentIsUnseen, Waiting, BeingCollected, NoCollection
  <1>3. RemovedOncePrinted'
    BY DEF RemovedOncePrinted, Removals, Removal
  <1>4. SecondsAreExcused'
    BY DEF SecondsAreExcused, Waiting, BeingCollected, NoCollection
  <1>5. NothingIsLost'
    BY StationTimes DEF NothingIsLost, WorthPrinting
  <1>6. TwiceOnlyWhenExcused'
    BY DEF TwiceOnlyWhenExcused
  <1> QED
    BY <1>1, <1>2, <1>3, <1>4, <1>5, <1>6

\* A page opened.
LEMMA StartKeeps ==
  ASSUME StationAssumption, StationInv, Start
  PROVE  StationInv'
PROOF
  <1> USE DEF StationInv, PSTypeOK, Start,
              phones, store, page, paper
  <1>1. PSTypeOK'
    BY StationTimes DEF Removals, Removal
  <1>2. UnsentIsUnseen'
    BY StationTimes DEF UnsentIsUnseen, Waiting, BeingCollected, NoCollection
  <1>3. RemovedOncePrinted'
    BY DEF RemovedOncePrinted, Removals, Removal
  <1>4. SecondsAreExcused'
    BY DEF SecondsAreExcused, Waiting, BeingCollected, NoCollection
  <1>5. NothingIsLost'
    BY StationTimes DEF NothingIsLost, WorthPrinting
  <1>6. TwiceOnlyWhenExcused'
    BY DEF TwiceOnlyWhenExcused
  <1> QED
    BY <1>1, <1>2, <1>3, <1>4, <1>5, <1>6

\* What is worth printing later was so before.
LEMMA TickKeeps ==
  ASSUME StationAssumption, StationInv, Tick
  PROVE  StationInv'
PROOF
  <1> USE DEF StationInv, PSTypeOK, Tick,
              phones, store, page, paper
  <1>1. PSTypeOK'
    BY StationTimes DEF Removals, Removal
  <1>2. UnsentIsUnseen'
    BY StationTimes DEF UnsentIsUnseen, Waiting, BeingCollected, NoCollection
  <1>3. RemovedOncePrinted'
    BY DEF RemovedOncePrinted, Removals, Removal
  <1>4. SecondsAreExcused'
    BY DEF SecondsAreExcused, Waiting, BeingCollected, NoCollection
  <1>5. NothingIsLost'
    BY StationTimes DEF NothingIsLost, WorthPrinting
  <1>6. TwiceOnlyWhenExcused'
    BY DEF TwiceOnlyWhenExcused
  <1> QED
    BY <1>1, <1>2, <1>3, <1>4, <1>5, <1>6

\* What a collection adds to the list was found by it, and had not been printed.
LEMMA CollectGives ==
  ASSUME StationAssumption, StationInv, Collect
  PROVE  /\ waiting' \in Seq(Tags) /\ IsInjective(waiting')
         /\ \A t \in Waiting' :
              t \in Waiting \/ (BeingCollected(t) /\ t \notin printed)
PROOF
  <1> DEFINE new == {t \in collection.found : Fresh(t)}
  <1>1. waiting \in Seq(Tags) /\ IsInjective(waiting)
    BY DEF StationInv, PSTypeOK
  <1>2. collection.step = "reading" /\ collection.found \subseteq Tags
    BY DEF Collect, StationInv, PSTypeOK, NoCollection
  <1>3. PICK list \in Listings(new) : waiting' = waiting \o list
    BY DEF Collect
  <1>4. sentAt \in [Tags -> Nat]
    BY StationTimes DEF StationInv, PSTypeOK
  <1>5. /\ list \in Seq(Tags) /\ IsInjective(list)
        /\ \A i \in DOMAIN list : list[i] \in new
    BY <1>2, <1>4, ListingGives
  <1>6. \A i \in DOMAIN waiting : \A j \in DOMAIN list : waiting[i] # list[j]
    BY <1>5 DEF Fresh, Waiting
  <1>7. /\ waiting \o list \in Seq(Tags) /\ IsInjective(waiting \o list)
        /\ \A i \in DOMAIN (waiting \o list) :
             \/ \E j \in DOMAIN waiting : waiting[j] = (waiting \o list)[i]
             \/ \E j \in DOMAIN list : list[j] = (waiting \o list)[i]
    BY <1>1, <1>5, <1>6, JoinedToWaiting
  <1>8. ASSUME NEW t \in Waiting' PROVE t \in Waiting \/ t \in new
    BY <1>3, <1>5, <1>7 DEF Waiting
  <1>9. \A t \in new : BeingCollected(t) /\ t \notin printed
    BY <1>2 DEF Fresh, BeingCollected
  <1> QED
    BY <1>3, <1>7, <1>8, <1>9

\* A collection's answer: a tag it adds is excused if it was printed before.
LEMMA CollectKeeps ==
  ASSUME StationAssumption, StationInv, Collect
  PROVE  StationInv'
PROOF
  <1> USE DEF StationInv, PSTypeOK, Collect,
              phones, store, page, paper
  <1>1. PSTypeOK'
    <2>1. removals' \subseteq Removals
      BY DEF ToRetry, Removals, Removal
    <2> QED
      BY <2>1, CollectGives
  <1>2. \A t \in Tags : ~BeingCollected(t)'
    BY DEF BeingCollected
  <1>3. UnsentIsUnseen'
    BY <1>2, CollectGives DEF UnsentIsUnseen
  <1>4. RemovedOncePrinted'
    BY DEF RemovedOncePrinted, ToRetry, Removal
  <1>5. SecondsAreExcused'
    BY <1>2, CollectGives DEF SecondsAreExcused
  <1>6. NothingIsLost' /\ TwiceOnlyWhenExcused'
    BY DEF NothingIsLost, WorthPrinting, TwiceOnlyWhenExcused
  <1> QED
    BY <1>1, <1>3, <1>4, <1>5, <1>6

\* The tag printed is one that waits, and waits no longer.
LEMMA PrintTagGives ==
  ASSUME StationInv, PrintTag
  PROVE  LET t == Head(waiting)
         IN  /\ t \in Tags /\ t \in Waiting /\ t \notin Waiting'
             /\ waiting' \in Seq(Tags) /\ IsInjective(waiting')
             /\ Waiting' \subseteq Waiting
PROOF
  <1>1. waiting \in Seq(Tags) /\ IsInjective(waiting) /\ waiting # <<>>
    BY DEF PrintTag, StationInv, PSTypeOK
  <1>2. waiting' = Tail(waiting)
    BY DEF PrintTag
  <1> QED
    BY <1>1, <1>2, TailOfWaiting DEF Waiting

\* A tag is printed again only when it is excused.
LEMMA PrintTagKeeps ==
  ASSUME StationAssumption, StationInv, PrintTag
  PROVE  StationInv'
PROOF
  <1> DEFINE t == Head(waiting)
  <1>1. /\ t \in Tags /\ t \in Waiting /\ t \notin Waiting'
        /\ waiting' \in Seq(Tags) /\ IsInjective(waiting')
        /\ Waiting' \subseteq Waiting
    BY PrintTagGives
  <1>2. /\ prints' = [prints EXCEPT ![t] = IF @ = 0 THEN 1 ELSE 2]
        /\ printed' = printed \cup {t}
        /\ removals' = removals \cup {Removal(t, "printed")}
        /\ UNCHANGED <<clock, sending, sentAt, jobs, heartbeat, up, collection, excused, stationFailures>>
    BY DEF PrintTag, phones, store
  <1> HIDE DEF t
  <1> USE DEF StationInv, PSTypeOK
  <1>3. PSTypeOK'
    <2>1. prints' \in [Tags -> 0..2]
      BY <1>1, <1>2
    <2>2. removals' \subseteq Removals
      BY <1>1, <1>2 DEF Removals, Removal
    <2> QED
      BY <1>1, <1>2, <2>1, <2>2
  <1>4. \A s \in Tags : BeingCollected(s)' <=> BeingCollected(s)
    BY <1>2 DEF BeingCollected
  <1>5. prints' \in [Tags -> 0..2] /\ prints'[t] > 0 /\ \A s \in Tags \ {t} : prints'[s] = prints[s]
    BY <1>1, <1>2
  <1>6. UnsentIsUnseen'
    BY <1>1, <1>2, <1>4, <1>5 DEF UnsentIsUnseen
  <1>7. RemovedOncePrinted'
    <2>1. \A s \in printed' : prints'[s] > 0
      BY <1>2, <1>5 DEF RemovedOncePrinted
    <2>2. Removal(t, "printed").tag = t /\ Removal(t, "printed").step # "done"
      BY DEF Removal
    <2>3. \A r \in removals' : prints'[r.tag] > 0 /\ (r.step = "done" => r.tag \notin jobs')
      BY <1>2, <1>5, <2>2 DEF RemovedOncePrinted, Removals
    <2> QED
      BY <2>1, <2>3 DEF RemovedOncePrinted
  <1>8. SecondsAreExcused'
    BY <1>1, <1>2, <1>4, <1>5 DEF SecondsAreExcused
  <1>9. NothingIsLost'
    BY <1>1, <1>2, <1>5 DEF NothingIsLost, WorthPrinting
  <1>10. TwiceOnlyWhenExcused'
    BY <1>1, <1>2 DEF SecondsAreExcused, TwiceOnlyWhenExcused
  <1> QED
    BY <1>3, <1>6, <1>7, <1>8, <1>9, <1>10

LEMMA StationNext ==
  ASSUME StationAssumption, StationInv, [PSNext]_stationVars
  PROVE  StationInv'
PROOF
  <1>1. CASE \E t \in Tags : CheckStation(t) \/ Enqueue(t)
    BY <1>1, CheckStationKeeps, EnqueueKeeps
  <1>2. CASE Collecting
    BY <1>2, PollKeeps, HeartbeatKeeps, ListKeysKeeps, CollectKeeps, EndCollectionKeeps, ReadKeyKeeps
    DEF Collecting
  <1>3. CASE PrintTag
    BY <1>3, PrintTagKeeps
  <1>4. CASE Removing
    BY <1>4, RemoveJobKeeps, RemovedKeeps DEF Removing
  <1>5. CASE CollectionFails \/ Crash \/ \E r \in removals : RemovalFails(r)
    BY <1>5, CollectionFailsKeeps, CrashKeeps, RemovalFailsKeeps
  <1>6. CASE Start \/ Tick
    BY <1>6, StartKeeps, TickKeeps
  <1>7. CASE UNCHANGED stationVars
    BY <1>7
    DEF StationInv, PSTypeOK, UnsentIsUnseen, RemovedOncePrinted, SecondsAreExcused,
        NothingIsLost, TwiceOnlyWhenExcused, WorthPrinting, Waiting,
        BeingCollected, stationVars, phones, store, page, paper
  <1> QED
    BY <1>1, <1>2, <1>3, <1>4, <1>5, <1>6, <1>7 DEF PSNext

\* The print station's state is what TypeOK says, and no tag stands twice on its list.
THEOREM StationTypeCorrect ==
  ASSUME StationAssumption PROVE PSSpec => []PSTypeOK
PROOF
  <1>1. PSInit => StationInv
    BY StationInit
  <1>2. StationInv /\ [PSNext]_stationVars => StationInv'
    BY StationNext
  <1>3. StationInv => PSTypeOK
    BY DEF StationInv
  <1> QED
    BY <1>1, <1>2, <1>3, PTL DEF PSSpec

\* Whatever fails and whenever the station crashes, a queued tag that is still worth printing
\* is printed or in the store.
THEOREM NoTagIsLost ==
  ASSUME StationAssumption PROVE PSSpec => []NothingIsLost
PROOF
  <1>1. PSInit => StationInv
    BY StationInit
  <1>2. StationInv /\ [PSNext]_stationVars => StationInv'
    BY StationNext
  <1>3. StationInv => NothingIsLost
    BY DEF StationInv
  <1> QED
    BY <1>1, <1>2, <1>3, PTL DEF PSSpec

\* A tag is printed twice only after a crash between its printing and its removal, or when a
\* collection that had seen it was answered after its removal.
THEOREM SecondTagsAreExcused ==
  ASSUME StationAssumption PROVE PSSpec => []TwiceOnlyWhenExcused
PROOF
  <1>1. PSInit => StationInv
    BY StationInit
  <1>2. StationInv /\ [PSNext]_stationVars => StationInv'
    BY StationNext
  <1>3. StationInv => TwiceOnlyWhenExcused
    BY DEF StationInv
  <1> QED
    BY <1>1, <1>2, <1>3, PTL DEF PSSpec

-----------------------------------------------------------------------------
(* The households counted without a visit.                                  *)

SaveRows == [id : Ids, size : Sizes]

\* The requests not answered yet, and those answered.
AskedRows ==
  [kind : {"record"}, answered : {FALSE}, save : SaveRows]
    \cup [kind : {"correct"}, answered : {FALSE}, id : Ids, base : Nat \ {0},
          row : Rows]

AnsweredRows == [answered : {TRUE}, done : SUBSET Ids]

RequestRows == {Quiet} \cup AskedRows \cup AnsweredRows

ViewRows ==
  [page : {"open", "left"}, pending : SaveRows \cup {NoSave}, loaded : BOOLEAN,
   request : RequestRows]

HouseholdTypes ==
  /\ entries \in [Ids -> Seq(Rows)]
  /\ storage \in [Tabs -> SaveRows \cup {NoSave}]
  /\ views \in [Views -> ViewRows \cup {Closed}]
  /\ late \subseteq AskedRows
  /\ owner \in [Ids -> Tabs \cup {"none"}]
  /\ confirmed \subseteq Ids /\ exposed \subseteq Tabs

OneRecorder ==
  \A v, w \in Views : Open(v) /\ Open(w) /\ Tab[v] = Tab[w] => v = w

\* A recorder asks for the save it has pending, and hears of no other.
AskForTheirSave ==
  \A v \in Views : Open(v) =>
    LET q == views[v].request
    IN  /\ q \in AskedRows /\ q.kind = "record" => q.save = views[v].pending
        /\ q \in AnsweredRows => q.done \subseteq {views[v].pending.id}

\* A recorder has pending what its tab keeps, unless the tab keeps nothing and the save is done.
PendingIsKept ==
  \A v \in Views : Open(v) /\ Tab[v] \in Storing \ exposed =>
    \/ views[v].pending = storage[Tab[v]]
    \/ storage[Tab[v]] = NoSave /\ views[v].pending.id \in confirmed

KeptBy(t, id) ==
  IF t \in Storing THEN storage[t].id = id
  ELSE \E v \in Views : Open(v) /\ Tab[v] = t /\ views[v].pending.id = id

\* A save not known to be done is the one the tab keeps, or, without storage, its recorder.
UncertainIsKept ==
  \A t \in Tabs \ exposed : \A id \in Uncertain(t) : KeptBy(t, id)

OnlyStoringStore == \A t \in Tabs \ Storing : storage[t] = NoSave

HouseholdInv ==
  /\ HouseholdTypes /\ OneRecorder /\ AskForTheirSave /\ PendingIsKept /\ OnlyStoringStore
  /\ UncertainIsKept

\* What the constants are, and that no save has the id that stands for none.
LEMMA HouseholdConstants ==
  ASSUME HouseholdAssumption
  PROVE  /\ MaxSaves \in Nat /\ Entered \subseteq Sizes /\ Storing \subseteq Tabs
         /\ Tab \in [Views -> Tabs] /\ "none" \notin Tabs
         /\ NoSave.id = 0 /\ 0 \notin Ids
         /\ NoSave \notin SaveRows
PROOF
  BY DEF HouseholdAssumption, NoSave, Ids, SaveRows

\* A request is quiet, asked or answered, and only one of them.
LEMMA RequestForms ==
  ASSUME NEW q \in RequestRows
  PROVE  /\ q = Quiet => q \notin AskedRows \cup AnsweredRows
         /\ q \in AskedRows => q.answered = FALSE /\ q.kind \in {"record", "correct"}
         /\ q \in AnsweredRows => q.answered = TRUE
         /\ q \in AskedRows /\ q.kind = "record" => q.save \in SaveRows
         /\ q \in AskedRows /\ q.kind = "correct" =>
              q.id \in Ids /\ q.base \in Nat \ {0} /\ q.row \in Rows
PROOF
  <1>1. q = Quiet => q \notin AskedRows \cup AnsweredRows
    <2>1. \A a \in AskedRows \cup AnsweredRows : a.answered \in BOOLEAN /\ "answered" \in DOMAIN a
      BY DEF AskedRows, AnsweredRows
    <2>2. "answered" \notin DOMAIN Quiet
      BY DEF Quiet
    <2> QED
      BY <2>1, <2>2
  <1>2. /\ q \in AskedRows => q.answered = FALSE /\ q.kind \in {"record", "correct"}
        /\ q \in AnsweredRows => q.answered = TRUE
    BY DEF AskedRows, AnsweredRows
  <1>3. q \in AskedRows /\ q.kind = "record" => q.save \in SaveRows
    BY DEF AskedRows
  <1>4. q \in AskedRows /\ q.kind = "correct" =>
          q.id \in Ids /\ q.base \in Nat \ {0} /\ q.row \in Rows
    BY DEF AskedRows
  <1> QED
    BY <1>1, <1>2, <1>3, <1>4

\* A recorder that is there, open or left, and one that is closed.
LEMMA ViewForms ==
  ASSUME HouseholdTypes, NEW v \in Views
  PROVE  /\ views[v] # Closed => views[v] \in ViewRows
         /\ Open(v) => views[v] \in ViewRows
         /\ Closed \notin ViewRows /\ Closed.page = "closed"
PROOF
  BY DEF HouseholdTypes, ViewRows, Closed, Open

\* A request the server has yet to answer.
LEMMA UnansweredForms ==
  ASSUME HouseholdTypes, NEW V \in SUBSET Views
  PROVE  /\ Unanswered(V) \subseteq AskedRows
         /\ \A v \in V : Busy(v) /\ ~views[v].request.answered =>
              views[v].request \in AskedRows
PROOF
  <1>1. \A v \in V : Busy(v) /\ ~views[v].request.answered =>
          views[v].request \in AskedRows
    BY ViewForms, RequestForms DEF Busy, ViewRows, RequestRows
  <1> QED
    BY <1>1 DEF Unanswered

LEMMA SingleIsSeq ==
  ASSUME NEW S, NEW x \in S
  PROVE  <<x>> \in Seq(S)
PROOF
  OBVIOUS

\* A request served leaves the table well formed.
LEMMA ServedTypes ==
  ASSUME HouseholdTypes, NEW q \in AskedRows
  PROVE  Served(q) \in [Ids -> Seq(Rows)]
PROOF
  <1>1. q \in RequestRows
    BY DEF RequestRows
  <1>2. CASE Creates(q)
    <2>1. q.kind = "record" /\ q.save \in SaveRows
      BY <1>1, <1>2, RequestForms DEF Creates
    <2>2. Row(q.save.size, FALSE) \in Rows
      BY <2>1 DEF Row, Rows, SaveRows
    <2>3. <<Row(q.save.size, FALSE)>> \in Seq(Rows)
      BY <2>2, SingleIsSeq
    <2> QED
      BY <1>2, <2>3 DEF Served, HouseholdTypes
  <1>3. CASE ~Creates(q) /\ Corrects(q)
    <2>1. q.id \in Ids /\ q.row \in Rows
      BY <1>1, <1>3, RequestForms DEF Corrects
    <2>2. Append(entries[q.id], q.row) \in Seq(Rows)
      BY <2>1, AppendProperties DEF HouseholdTypes
    <2> QED
      BY <1>3, <2>2 DEF Served, HouseholdTypes
  <1>4. CASE ~Creates(q) /\ ~Corrects(q)
    BY <1>4 DEF Served, HouseholdTypes
  <1> QED
    BY <1>2, <1>3, <1>4

LEMMA HouseholdInit ==
  HouseholdAssumption /\ HSInit => HouseholdInv
PROOF
  <1> SUFFICES ASSUME HouseholdAssumption, HSInit PROVE HouseholdInv
    OBVIOUS
  <1>1. \A v \in Views : ~Open(v)
    BY DEF HSInit, Open, Closed
  <1>2. \A t \in Tabs : Uncertain(t) = {}
    BY HouseholdConstants DEF HSInit, Uncertain
  <1>3. HouseholdTypes
    BY EmptySeq DEF HSInit, HouseholdTypes
  <1> QED
    BY <1>1, <1>2, <1>3, HouseholdConstants
    DEF HouseholdInv, HSInit, OneRecorder, AskForTheirSave, PendingIsKept, OnlyStoringStore,
        UncertainIsKept

\* What a step needs to say that leaves the tabs, and what their open recorders have pending.
SamePending ==
  /\ UNCHANGED <<storage, owner, confirmed, exposed>>
  /\ \A v \in Views : /\ Open(v)' <=> Open(v)
                      /\ Open(v) => views'[v].pending = views[v].pending

LEMMA SamePendingKeeps ==
  ASSUME HouseholdAssumption, HouseholdInv, SamePending
  PROVE  OneRecorder' /\ PendingIsKept' /\ OnlyStoringStore' /\ UncertainIsKept'
PROOF
  <1> USE DEF HouseholdInv, SamePending
  <1>1. OneRecorder'
    BY DEF OneRecorder
  <1>2. PendingIsKept'
    BY DEF PendingIsKept
  <1>3. OnlyStoringStore'
    BY DEF OnlyStoringStore
  <1>4. \A t \in Tabs : Uncertain(t)' = Uncertain(t)
    BY DEF Uncertain
  <1>5. \A t \in Tabs, id \in Ids : KeptBy(t, id) => KeptBy(t, id)'
    BY DEF KeptBy
  <1>6. UncertainIsKept'
    BY <1>4, <1>5 DEF UncertainIsKept, Uncertain
  <1> QED
    BY <1>1, <1>2, <1>3, <1>6

\* The listing is loaded.
LEMMA LoadKeeps ==
  ASSUME HouseholdAssumption, HouseholdInv, NEW v \in Views, Load(v)
  PROVE  HouseholdInv'
PROOF
  <1>1. views[v] \in ViewRows /\ Open(v)
    BY ViewForms DEF HouseholdInv, Load, Ready
  <1>2. /\ views' = [views EXCEPT ![v].loaded = TRUE]
        /\ UNCHANGED <<entries, storage, late, owner, confirmed, exposed>>
    BY DEF Load
  <1>3. views'[v] \in ViewRows /\ views'[v].page = views[v].page
        /\ views'[v].pending = views[v].pending /\ views'[v].request = views[v].request
    BY <1>1, <1>2 DEF ViewRows, HouseholdInv, HouseholdTypes
  <1>4. \A w \in Views \ {v} : views'[w] = views[w]
    BY <1>2 DEF HouseholdInv, HouseholdTypes
  <1>5. HouseholdTypes'
    BY <1>2, <1>3 DEF HouseholdInv, HouseholdTypes
  <1>6. SamePending
    BY <1>2, <1>3, <1>4 DEF SamePending, Open
  <1>7. AskForTheirSave'
    BY <1>3, <1>4 DEF HouseholdInv, AskForTheirSave, Open
  <1> QED
    BY <1>5, <1>6, <1>7, SamePendingKeeps DEF HouseholdInv

\* A correction asked for.
LEMMA CorrectKeeps ==
  ASSUME HouseholdAssumption, HouseholdInv, NEW v \in Views, NEW id \in Ids,
         NEW base \in Versions(id), NEW row \in Rows,
         Correct(v, id, base, row)
  PROVE  HouseholdInv'
PROOF
  <1> DEFINE q == [kind |-> "correct", answered |-> FALSE, id |-> id, base |-> base, row |-> row]
  <1>1. views[v] \in ViewRows /\ Open(v)
    BY ViewForms DEF HouseholdInv, Correct, Ready
  <1>2. /\ views' = [views EXCEPT ![v].request = q]
        /\ UNCHANGED <<entries, storage, late, owner, confirmed, exposed>>
    BY DEF Correct
  <1>3. base \in Nat \ {0}
    <2>1. entries[id] \in Seq(Rows)
      BY DEF HouseholdInv, HouseholdTypes
    <2> QED
      BY <2>1, LenProperties DEF Versions
  <1>4. q \in AskedRows /\ q.kind # "record"
    BY <1>3 DEF AskedRows
  <1>5. q \notin AnsweredRows
    BY DEF AnsweredRows
  <1> HIDE DEF q
  <1>6. views'[v] \in ViewRows /\ views'[v].page = views[v].page
        /\ views'[v].pending = views[v].pending /\ views'[v].request = q
    BY <1>1, <1>2, <1>4 DEF ViewRows, RequestRows, HouseholdInv, HouseholdTypes
  <1>7. \A w \in Views \ {v} : views'[w] = views[w]
    BY <1>2 DEF HouseholdInv, HouseholdTypes
  <1>8. HouseholdTypes'
    BY <1>2, <1>6 DEF HouseholdInv, HouseholdTypes
  <1>9. SamePending
    BY <1>2, <1>6, <1>7 DEF SamePending, Open
  <1>10. AskForTheirSave'
    BY <1>4, <1>5, <1>6, <1>7 DEF HouseholdInv, AskForTheirSave, Open
  <1> QED
    BY <1>8, <1>9, <1>10, SamePendingKeeps DEF HouseholdInv

\* A save served is one its recorder asked for, and has pending.
LEMMA ServeKeeps ==
  ASSUME HouseholdAssumption, HouseholdInv, NEW v \in Views, Serve(v)
  PROVE  HouseholdInv'
PROOF
  <1> DEFINE q == views[v].request
             done == IF q.kind = "record" /\ ~Refused(q) THEN {q.save.id} ELSE {}
             answer == [answered |-> TRUE, done |-> done]
  <1>1. q \in AskedRows /\ views[v] \in ViewRows
    BY UnansweredForms, ViewForms DEF HouseholdInv, Serve, Busy
  <1>2. /\ views' = [views EXCEPT ![v].request = answer] /\ entries' = Served(q)
        /\ UNCHANGED <<storage, late, owner, confirmed, exposed>>
    BY DEF Serve
  <1>3. answer \in AnsweredRows /\ answer.done = done
    <2>1. done \subseteq Ids
      BY <1>1, RequestForms DEF RequestRows, SaveRows
    <2> QED
      BY <2>1 DEF AnsweredRows
  <1>4. answer \notin AskedRows
    BY DEF AskedRows
  <1>5. Open(v) => done \subseteq {views[v].pending.id}
    BY <1>1 DEF HouseholdInv, AskForTheirSave
  <1> HIDE DEF answer, done
  <1>6. views'[v] \in ViewRows /\ views'[v].page = views[v].page
        /\ views'[v].pending = views[v].pending /\ views'[v].request = answer
    BY <1>1, <1>2, <1>3 DEF ViewRows, RequestRows, HouseholdInv, HouseholdTypes
  <1>7. \A w \in Views \ {v} : views'[w] = views[w]
    BY <1>2 DEF HouseholdInv, HouseholdTypes
  <1>8. HouseholdTypes'
    BY <1>1, <1>2, <1>6, ServedTypes DEF HouseholdInv, HouseholdTypes
  <1>9. SamePending
    BY <1>2, <1>6, <1>7 DEF SamePending, Open
  <1>10. AskForTheirSave'
    BY <1>3, <1>4, <1>5, <1>6, <1>7 DEF HouseholdInv, AskForTheirSave, Open
  <1> QED
    BY <1>8, <1>9, <1>10, SamePendingKeeps DEF HouseholdInv

\* A request nobody waits for is served.
LEMMA ServeLateKeeps ==
  ASSUME HouseholdAssumption, HouseholdInv, NEW q \in late, ServeLate(q)
  PROVE  HouseholdInv'
PROOF
  <1>1. /\ entries' = Served(q) /\ late' \subseteq late
        /\ UNCHANGED <<storage, views, owner, confirmed, exposed>>
    BY DEF ServeLate
  <1>2. HouseholdTypes'
    BY <1>1, ServedTypes DEF HouseholdInv, HouseholdTypes
  <1>3. SamePending
    BY <1>1 DEF SamePending, Open
  <1>4. AskForTheirSave'
    BY <1>1 DEF HouseholdInv, AskForTheirSave, Open
  <1> QED
    BY <1>2, <1>3, <1>4, SamePendingKeeps DEF HouseholdInv

\* A recorder whose request is behind it is as it was, or forgotten.
LEMMA SettledGives ==
  ASSUME HouseholdTypes, NEW v \in Views, Busy(v)
  PROVE  /\ Settled(v) \in ViewRows \cup {Closed}
         /\ Open(v) => /\ Settled(v) \in ViewRows
                                  /\ Settled(v).page = "open"
                                  /\ Settled(v).pending = views[v].pending
                                  /\ Settled(v).request = Quiet
         /\ ~Open(v) => Settled(v) = Closed
PROOF
  <1>1. views[v] \in ViewRows
    BY ViewForms DEF Busy
  <1>2. CASE Open(v)
    BY <1>1, <1>2 DEF Settled, Open, ViewRows, RequestRows
  <1>3. CASE ~Open(v)
    BY <1>3 DEF Settled
  <1> QED
    BY <1>2, <1>3

\* A request that fails leaves what its recorder has pending.
LEMMA FailKeeps ==
  ASSUME HouseholdAssumption, HouseholdInv, NEW v \in Views, Fail(v)
  PROVE  HouseholdInv'
PROOF
  <1>1. /\ views' = [views EXCEPT ![v] = Settled(v)]
        /\ late' = late \cup Unanswered({v})
        /\ UNCHANGED <<entries, storage, owner, confirmed, exposed>>
        /\ Busy(v)
    BY DEF Fail
  <1>2. views'[v] = Settled(v) /\ \A w \in Views \ {v} : views'[w] = views[w]
    BY <1>1 DEF HouseholdInv, HouseholdTypes
  <1>3. HouseholdTypes'
    BY <1>1, <1>2, SettledGives, UnansweredForms DEF HouseholdInv, HouseholdTypes
  <1>4. SamePending
    BY <1>1, <1>2, SettledGives, ViewForms DEF HouseholdInv, SamePending, Open
  <1>5. AskForTheirSave'
    <2>1. Quiet \notin AskedRows \cup AnsweredRows
      BY RequestForms DEF RequestRows
    <2> QED
      BY <1>1, <1>2, <2>1, SettledGives, ViewForms DEF HouseholdInv, AskForTheirSave, Open
  <1> QED
    BY <1>3, <1>4, <1>5, SamePendingKeeps DEF HouseholdInv

\* What is recorded next, while a save is uncertain, is that save.
LEMMA RecordGives ==
  ASSUME HouseholdAssumption, HouseholdInv, NEW v \in Views, NEW size \in Entered,
         Record(v, size)
  PROVE  LET save == SaveOf(v, size)
         IN  /\ Open(v) /\ views[v] \in ViewRows /\ save \in SaveRows
             /\ Tab[v] \notin exposed => Uncertain(Tab[v]) \subseteq {save.id}
PROOF
  <1> DEFINE save == SaveOf(v, size)
  <1>1. Open(v) /\ views[v] \in ViewRows
    BY ViewForms DEF HouseholdInv, Record, Ready
  <1>2. save \in SaveRows
    <2>1. save.id \in Ids
      BY DEF Record
    <2>2. size \in Sizes
      BY HouseholdConstants
    <2>3. CASE views[v].pending = NoSave
      BY <2>1, <2>2, <2>3 DEF SaveOf, Save, SaveRows
    <2>4. CASE views[v].pending # NoSave
      BY <1>1, <2>4 DEF SaveOf, ViewRows
    <2> QED
      BY <2>3, <2>4
  <1>3. ASSUME Tab[v] \notin exposed, NEW id \in Uncertain(Tab[v]) PROVE id = save.id
    <2>1. id \in Ids /\ Tab[v] \in Tabs
      BY HouseholdConstants DEF Uncertain
    <2>2. KeptBy(Tab[v], id)
      BY <1>3, <2>1 DEF HouseholdInv, UncertainIsKept
    <2>3. views[v].pending.id = id
      <3>1. CASE Tab[v] \in Storing
        BY <1>1, <1>3, <2>1, <2>2, <3>1, HouseholdConstants DEF KeptBy, HouseholdInv, PendingIsKept
      <3>2. CASE Tab[v] \notin Storing
        BY <1>1, <2>2, <3>2 DEF KeptBy, HouseholdInv, OneRecorder
      <3> QED
        BY <3>1, <3>2
    <2>4. views[v].pending # NoSave
      BY <2>1, <2>3, HouseholdConstants
    <2> QED
      BY <2>3, <2>4 DEF SaveOf
  <1> QED
    BY <1>1, <1>2, <1>3

LEMMA RecordKeeps ==
  ASSUME HouseholdAssumption, HouseholdInv, NEW v \in Views, NEW size \in Entered,
         Record(v, size)
  PROVE  HouseholdInv'
PROOF
  <1> DEFINE save == SaveOf(v, size)
             q == [kind |-> "record", answered |-> FALSE, save |-> save]
  <1>1. /\ Open(v) /\ views[v] \in ViewRows /\ save \in SaveRows
        /\ Tab[v] \notin exposed => Uncertain(Tab[v]) \subseteq {save.id}
    BY RecordGives
  <1>2. /\ views' = [views EXCEPT ![v].pending = save, ![v].request = q]
        /\ storage' = IF Tab[v] \in Storing THEN [storage EXCEPT ![Tab[v]] = save] ELSE storage
        /\ owner' = [owner EXCEPT ![save.id] = Tab[v]]
        /\ UNCHANGED <<entries, late, confirmed, exposed>>
    BY DEF Record
  <1> HIDE DEF save
  <1>3. q \in AskedRows /\ q \notin AnsweredRows /\ q.save = save
    BY <1>1 DEF AskedRows, AnsweredRows
  <1> HIDE DEF q
  <1>4. views'[v] \in ViewRows /\ views'[v].page = views[v].page
        /\ views'[v].pending = save /\ views'[v].request = q
    BY <1>1, <1>2, <1>3 DEF ViewRows, RequestRows, HouseholdInv, HouseholdTypes
  <1>5. \A w \in Views \ {v} : views'[w] = views[w]
    BY <1>2 DEF HouseholdInv, HouseholdTypes
  <1>6. Tab[v] \in Tabs /\ save.id \in Ids
    BY <1>1, HouseholdConstants DEF SaveRows
  <1>7. HouseholdTypes'
    BY <1>1, <1>2, <1>4, <1>6 DEF HouseholdInv, HouseholdTypes
  <1>8. \A w \in Views : Open(w)' <=> Open(w)
    BY <1>4, <1>5 DEF Open
  <1>9. OneRecorder'
    BY <1>8 DEF HouseholdInv, OneRecorder
  <1>10. AskForTheirSave'
    BY <1>3, <1>4, <1>5, <1>8 DEF HouseholdInv, AskForTheirSave
  <1>11. /\ Tab[v] \in Storing => storage'[Tab[v]] = save
         /\ \A t \in Tabs : t # Tab[v] \/ t \notin Storing => storage'[t] = storage[t]
    BY <1>2, <1>6 DEF HouseholdInv, HouseholdTypes
  <1>12. PendingIsKept'
    <2> SUFFICES ASSUME NEW w \in Views, Open(w)', Tab[w] \in Storing, Tab[w] \notin exposed'
                 PROVE  \/ views'[w].pending = storage'[Tab[w]]
                        \/ storage'[Tab[w]] = NoSave /\ views'[w].pending.id \in confirmed'
      BY DEF PendingIsKept
    <2>1. CASE w = v
      BY <1>4, <1>11, <2>1
    <2>2. CASE w # v
      <3>1. Tab[w] # Tab[v] /\ Tab[w] \in Tabs
        BY <1>1, <1>8, <2>2, HouseholdConstants DEF HouseholdInv, OneRecorder
      <3>2. \/ views[w].pending = storage[Tab[w]]
            \/ storage[Tab[w]] = NoSave /\ views[w].pending.id \in confirmed
        BY <1>2, <1>8 DEF HouseholdInv, PendingIsKept
      <3>3. storage'[Tab[w]] = storage[Tab[w]] /\ views'[w] = views[w]
        BY <1>5, <1>11, <2>2, <3>1
      <3>4. confirmed' = confirmed
        BY <1>2
      <3> QED
        BY <3>2, <3>3, <3>4
    <2> QED
      BY <2>1, <2>2
  <1>13. OnlyStoringStore'
    BY <1>11 DEF HouseholdInv, OnlyStoringStore
  <1>14. UncertainIsKept'
    <2> SUFFICES ASSUME NEW t \in Tabs, t \notin exposed', NEW id \in Uncertain(t)'
                 PROVE  KeptBy(t, id)'
      BY DEF UncertainIsKept
    <2>1. id \in Ids /\ id \notin confirmed /\ owner'[id] = t
      BY <1>2 DEF Uncertain
    <2>2. CASE t = Tab[v]
      <3>1. id = save.id
        BY <1>1, <1>2, <1>6, <2>1, <2>2 DEF HouseholdInv, HouseholdTypes, Uncertain
      <3> QED
        BY <1>1, <1>4, <1>8, <1>11, <2>2, <3>1 DEF KeptBy
    <2>3. CASE t # Tab[v]
      <3>1. id \in Uncertain(t)
        BY <1>2, <1>6, <2>1, <2>3 DEF HouseholdInv, HouseholdTypes, Uncertain
      <3>2. KeptBy(t, id)
        BY <1>2, <3>1 DEF HouseholdInv, UncertainIsKept
      <3> QED
        BY <1>5, <1>8, <1>11, <2>3, <3>2 DEF KeptBy
    <2> QED
      BY <2>2, <2>3
  <1> QED
    BY <1>7, <1>9, <1>10, <1>12, <1>13, <1>14 DEF HouseholdInv

\* What an answer does to its recorder.
LEMMA AnswerGives ==
  ASSUME HouseholdAssumption, HouseholdInv, NEW v \in Views, Answer(v)
  PROVE  LET done == views[v].request.done
         IN  /\ done \subseteq Ids
             /\ Open(v) => done \subseteq {views[v].pending.id}
             /\ views'[v] \in ViewRows \cup {Closed}
             /\ Open(v)' <=> Open(v)
             /\ Open(v) =>
                  /\ views'[v].pending = IF done = {} THEN views[v].pending ELSE NoSave
                  /\ views'[v].request = Quiet
             /\ \A w \in Views \ {v} : views'[w] = views[w]
PROOF
  <1> DEFINE done == views[v].request.done
  <1>1. /\ Busy(v) /\ views[v].request.answered
        /\ views' = [views EXCEPT ![v] = IF Open(v) /\ done # {}
                       THEN [Settled(v) EXCEPT !.pending = NoSave]
                       ELSE Settled(v)]
    BY DEF Answer
  <1>2. views[v].request \in AnsweredRows
    <2>1. views[v].request \in RequestRows /\ views[v].request # Quiet
      BY <1>1, ViewForms DEF HouseholdInv, Busy, ViewRows
    <2> QED
      BY <1>1, <2>1, RequestForms DEF RequestRows
  <1>3. done \subseteq Ids
    BY <1>2 DEF AnsweredRows
  <1>4. Open(v) => done \subseteq {views[v].pending.id}
    BY <1>2 DEF HouseholdInv, AskForTheirSave
  <1>5. \A w \in Views \ {v} : views'[w] = views[w]
    BY <1>1 DEF HouseholdInv, HouseholdTypes
  <1>6. views'[v] = IF Open(v) /\ done # {}
                    THEN [Settled(v) EXCEPT !.pending = NoSave]
                    ELSE Settled(v)
    BY <1>1 DEF HouseholdInv, HouseholdTypes
  <1> HIDE DEF done
  <1>7. CASE Open(v) /\ done # {}
    <2>1. /\ views'[v] \in ViewRows /\ views'[v].page = "open"
          /\ views'[v].pending = NoSave /\ views'[v].request = Quiet
      BY <1>1, <1>6, <1>7, SettledGives DEF HouseholdInv, ViewRows
    <2> QED
      BY <1>3, <1>4, <1>5, <1>7, <2>1 DEF Open, done
  <1>8. CASE ~(Open(v) /\ done # {})
    <2>1. views'[v] = Settled(v)
      BY <1>6, <1>8
    <2> QED
      BY <1>1, <1>3, <1>4, <1>5, <1>8, <2>1, SettledGives, ViewForms
      DEF HouseholdInv, Open, done
  <1> QED
    BY <1>7, <1>8

\* The tab's storage is cleared of a save that is done, or the tab is exposed.
LEMMA AnswerKeeps ==
  ASSUME HouseholdAssumption, HouseholdInv, NEW v \in Views, Answer(v)
  PROVE  HouseholdInv'
PROOF
  <1> DEFINE done == views[v].request.done
             t == Tab[v]
  <1>1. /\ done \subseteq Ids
        /\ Open(v) => done \subseteq {views[v].pending.id}
        /\ views'[v] \in ViewRows \cup {Closed}
        /\ Open(v)' <=> Open(v)
        /\ Open(v) =>
             /\ views'[v].pending = IF done = {} THEN views[v].pending ELSE NoSave
             /\ views'[v].request = Quiet
        /\ \A w \in Views \ {v} : views'[w] = views[w]
    BY AnswerGives
  <1>2. /\ storage' = IF done # {} THEN [storage EXCEPT ![t] = NoSave] ELSE storage
        /\ confirmed' = confirmed \cup done
        /\ exposed' = IF done # {} /\ storage[t].id \notin done \cup {0}
                      THEN exposed \cup {t} ELSE exposed
        /\ UNCHANGED <<entries, late, owner>>
    BY DEF Answer
  <1>3. views' \in [Views -> ViewRows \cup {Closed}]
    BY <1>1 DEF Answer, HouseholdInv, HouseholdTypes
  <1>4. t \in Tabs
    BY HouseholdConstants
  <1> HIDE DEF done, t
  <1>5. HouseholdTypes'
    BY <1>1, <1>2, <1>3, <1>4 DEF HouseholdInv, HouseholdTypes
  <1>6. \A w \in Views : Open(w)' <=> Open(w)
    BY <1>1 DEF Open
  <1>7. OneRecorder'
    BY <1>6 DEF HouseholdInv, OneRecorder
  <1>8. AskForTheirSave'
    <2>1. Quiet \notin AskedRows \cup AnsweredRows
      BY RequestForms DEF RequestRows
    <2> QED
      BY <1>1, <1>6, <2>1 DEF HouseholdInv, AskForTheirSave
  <1>9. /\ \A s \in Tabs : s # t \/ done = {} => storage'[s] = storage[s]
        /\ done # {} => storage'[t] = NoSave
    BY <1>2, <1>4 DEF HouseholdInv, HouseholdTypes
  <1>10. PendingIsKept'
    <2> SUFFICES ASSUME NEW w \in Views, Open(w)', Tab[w] \in Storing, Tab[w] \notin exposed'
                 PROVE  \/ views'[w].pending = storage'[Tab[w]]
                        \/ storage'[Tab[w]] = NoSave /\ views'[w].pending.id \in confirmed'
      BY DEF PendingIsKept
    <2>1. /\ Tab[w] \in Tabs /\ Tab[w] \notin exposed /\ Open(w)
          /\ \/ views[w].pending = storage[Tab[w]]
             \/ storage[Tab[w]] = NoSave /\ views[w].pending.id \in confirmed
      BY <1>2, <1>6, HouseholdConstants DEF HouseholdInv, PendingIsKept
    <2>2. CASE Tab[w] # t \/ done = {}
      <3>1. views'[w].pending = views[w].pending
        BY <1>1, <2>1, <2>2 DEF t
      <3> QED
        BY <1>2, <1>9, <2>1, <2>2, <3>1
    <2>3. CASE Tab[w] = t /\ done # {} /\ w = v
      BY <1>1, <1>9, <2>1, <2>3
    <2>4. CASE Tab[w] = t /\ done # {} /\ w # v
      <3>1. storage[t].id \in done \cup {0}
        BY <1>2, <2>4
      <3>2. views'[w].pending = views[w].pending /\ storage'[t] = NoSave
        BY <1>1, <1>9, <2>4
      <3>3. storage[t].id = 0 => storage[t] = NoSave
        BY <1>4, HouseholdConstants DEF HouseholdInv, HouseholdTypes, SaveRows
      <3> QED
        BY <1>2, <2>1, <2>4, <3>1, <3>2, <3>3
    <2> QED
      BY <2>2, <2>3, <2>4
  <1>11. OnlyStoringStore'
    BY <1>4, <1>9 DEF HouseholdInv, OnlyStoringStore
  <1>12. UncertainIsKept'
    <2> SUFFICES ASSUME NEW s \in Tabs, s \notin exposed', NEW id \in Uncertain(s)'
                 PROVE  KeptBy(s, id)'
      BY DEF UncertainIsKept
    <2>1. id \in Uncertain(s) /\ id \in Ids /\ id \notin done /\ s \notin exposed
      BY <1>2 DEF Uncertain
    <2>2. KeptBy(s, id)
      BY <2>1 DEF HouseholdInv, UncertainIsKept
    <2>3. CASE s \in Storing
      <3>1. s # t \/ done = {}
        BY <1>2, <2>1, <2>2, <2>3, HouseholdConstants DEF KeptBy
      <3> QED
        BY <1>9, <2>2, <2>3, <3>1 DEF KeptBy
    <2>4. CASE s \notin Storing
      <3>1. PICK w \in Views : Open(w) /\ Tab[w] = s /\ views[w].pending.id = id
        BY <2>2, <2>4 DEF KeptBy
      <3>2. views'[w].pending = views[w].pending
        BY <1>1, <2>1, <3>1
      <3> QED
        BY <1>6, <2>4, <3>1, <3>2 DEF KeptBy
    <2> QED
      BY <2>3, <2>4
  <1> QED
    BY <1>5, <1>7, <1>8, <1>10, <1>11, <1>12 DEF HouseholdInv

\* A recorder takes up what its tab keeps.
LEMMA MountKeeps ==
  ASSUME HouseholdAssumption, HouseholdInv, NEW v \in Views, Mount(v)
  PROVE  HouseholdInv'
PROOF
  <1> DEFINE new == Recorder(Kept(Tab[v]))
  <1>1. /\ views' = [views EXCEPT ![v] = new] /\ views[v] = Closed
        /\ \A w \in Views : Tab[w] = Tab[v] => ~Open(w)
        /\ UNCHANGED <<entries, storage, late, owner, confirmed, exposed>>
    BY DEF Mount, Of, Open, Closed
  <1>2. Tab[v] \in Tabs /\ Kept(Tab[v]) = storage[Tab[v]]
    BY HouseholdConstants DEF Kept
  <1>3. /\ new \in ViewRows /\ new.page = "open" /\ new.pending = storage[Tab[v]]
        /\ new.request = Quiet
    BY <1>2 DEF HouseholdInv, HouseholdTypes, Recorder, ViewRows, RequestRows
  <1> HIDE DEF new
  <1>4. views'[v] = new /\ \A w \in Views \ {v} : views'[w] = views[w]
    BY <1>1 DEF HouseholdInv, HouseholdTypes
  <1>5. HouseholdTypes'
    BY <1>1, <1>3 DEF HouseholdInv, HouseholdTypes
  <1>6. Open(v)' /\ \A w \in Views \ {v} : Open(w)' <=> Open(w)
    BY <1>3, <1>4 DEF Open
  <1>7. OneRecorder'
    BY <1>1, <1>6 DEF HouseholdInv, OneRecorder
  <1>8. AskForTheirSave'
    <2>1. Quiet \notin AskedRows \cup AnsweredRows
      BY RequestForms DEF RequestRows
    <2> QED
      BY <1>3, <1>4, <1>6, <2>1 DEF HouseholdInv, AskForTheirSave
  <1>9. PendingIsKept'
    BY <1>1, <1>3, <1>4, <1>6 DEF HouseholdInv, PendingIsKept
  <1>10. OnlyStoringStore'
    BY <1>1 DEF HouseholdInv, OnlyStoringStore
  <1>11. \A t \in Tabs : Uncertain(t)' = Uncertain(t)
    BY <1>1 DEF Uncertain
  <1>12. \A t \in Tabs, id \in Ids : KeptBy(t, id) => KeptBy(t, id)'
    BY <1>1, <1>4, <1>6 DEF KeptBy
  <1>13. UncertainIsKept'
    BY <1>1, <1>11, <1>12 DEF HouseholdInv, UncertainIsKept, Uncertain
  <1> QED
    BY <1>5, <1>7, <1>8, <1>9, <1>10, <1>13 DEF HouseholdInv

\* Recorders that are there no longer, or have been left, are open no longer.  A tab that
\* has no storage then has no save pending, or is exposed.
LEMMA LeavingKeeps ==
  ASSUME HouseholdAssumption, HouseholdInv, NEW t \in Tabs, NEW V \in SUBSET Views,
         views' \in [Views -> ViewRows \cup {Closed}],
         \A v \in V : Tab[v] = t /\ ~Open(v)',
         \A v \in Views \ V : views'[v] = views[v],
         late' \subseteq AskedRows,
         exposed' = Exposed(t, V),
         UNCHANGED <<entries, storage, owner, confirmed>>
  PROVE  HouseholdInv'
PROOF
  <1>1. exposed \subseteq exposed' /\ exposed' \subseteq exposed \cup {t}
    BY DEF Exposed
  <1>2. HouseholdTypes'
    BY <1>1 DEF HouseholdInv, HouseholdTypes
  <1>3. \A w \in Views : Open(w)' => Open(w) /\ w \notin V /\ views'[w] = views[w]
    BY DEF Open
  <1>4. OneRecorder'
    BY <1>3 DEF HouseholdInv, OneRecorder
  <1>5. AskForTheirSave'
    BY <1>3 DEF HouseholdInv, AskForTheirSave
  <1>6. PendingIsKept'
    BY <1>1, <1>3 DEF HouseholdInv, PendingIsKept
  <1>7. OnlyStoringStore'
    BY DEF HouseholdInv, OnlyStoringStore
  <1>8. UncertainIsKept'
    <2> SUFFICES ASSUME NEW s \in Tabs, s \notin exposed', NEW id \in Uncertain(s)'
                 PROVE  KeptBy(s, id)'
      BY DEF UncertainIsKept
    <2>1. id \in Uncertain(s) /\ id \in Ids /\ s \notin exposed
      BY <1>1 DEF Uncertain
    <2>2. KeptBy(s, id)
      BY <2>1 DEF HouseholdInv, UncertainIsKept
    <2>3. CASE s \in Storing
      BY <2>2, <2>3 DEF KeptBy
    <2>4. CASE s \notin Storing
      <3>1. PICK w \in Views : Open(w) /\ Tab[w] = s /\ views[w].pending.id = id
        BY <2>2, <2>4 DEF KeptBy
      <3>2. views[w].pending # NoSave
        BY <2>1, <3>1, HouseholdConstants
      <3>3. w \notin V
        BY <2>4, <3>1, <3>2 DEF Exposed
      <3>4. Open(w)' /\ views'[w] = views[w]
        BY <3>1, <3>3 DEF Open
      <3> QED
        BY <2>4, <3>1, <3>4 DEF KeptBy
    <2> QED
      BY <2>3, <2>4
  <1> QED
    BY <1>2, <1>4, <1>5, <1>6, <1>7, <1>8 DEF HouseholdInv

\* The worker goes to another screen.
LEMMA LeaveViewKeeps ==
  ASSUME HouseholdAssumption, HouseholdInv, NEW v \in Views, LeaveView(v)
  PROVE  HouseholdInv'
PROOF
  <1>1. /\ Open(v)
        /\ views' = [views EXCEPT ![v] = IF Busy(v) THEN Left(@)
                                         ELSE Closed]
        /\ exposed' = Exposed(Tab[v], {v})
        /\ UNCHANGED <<entries, storage, late, owner, confirmed>>
    BY DEF LeaveView
  <1>2. views[v] \in ViewRows
    BY <1>1, ViewForms DEF HouseholdInv
  <1>3. Left(views[v]) \in ViewRows /\ Left(views[v]).page = "left"
    BY <1>2 DEF Left, Recorder, ViewRows
  <1>4. /\ views' \in [Views -> ViewRows \cup {Closed}]
        /\ \A w \in Views \ {v} : views'[w] = views[w]
        /\ ~Open(v)'
    BY <1>1, <1>3 DEF HouseholdInv, HouseholdTypes, Open, Closed
  <1>5. late' \subseteq AskedRows /\ Tab[v] \in Tabs
    BY <1>1, HouseholdConstants DEF HouseholdInv, HouseholdTypes
  <1> QED
    BY <1>1, <1>4, <1>5, LeavingKeeps

\* A tab is reloaded.
LEMMA ReloadKeeps ==
  ASSUME HouseholdAssumption, HouseholdInv, NEW t \in Tabs, Reload(t)
  PROVE  HouseholdInv'
PROOF
  <1>1. /\ views' = [v \in Views |-> IF v \in Of(t) THEN Closed ELSE views[v]]
        /\ late' = late \cup Unanswered(Of(t))
        /\ exposed' = Exposed(t, Of(t))
        /\ UNCHANGED <<entries, storage, owner, confirmed>>
    BY DEF Reload
  <1>2. Of(t) \subseteq Views /\ \A v \in Of(t) : Tab[v] = t
    BY DEF Of
  <1>3. /\ views' \in [Views -> ViewRows \cup {Closed}]
        /\ \A v \in Of(t) : ~Open(v)'
        /\ \A v \in Views \ Of(t) : views'[v] = views[v]
    BY <1>1, <1>2 DEF HouseholdInv, HouseholdTypes, Open, Closed
  <1>4. late' \subseteq AskedRows
    BY <1>1, <1>2, UnansweredForms DEF HouseholdInv, HouseholdTypes
  <1> QED
    BY <1>1, <1>2, <1>3, <1>4, LeavingKeeps

LEMMA HouseholdNext ==
  ASSUME HouseholdAssumption, HouseholdInv, [HSNext]_householdVars
  PROVE  HouseholdInv'
PROOF
  <1>1. CASE \E v \in Views : \E size \in Entered : Record(v, size)
    BY <1>1, RecordKeeps
  <1>2. CASE \E v \in Views : \E id \in Ids : \E base \in Versions(id) :
               \E row \in Rows : Correct(v, id, base, row)
    BY <1>2, CorrectKeeps
  <1>3. CASE \E v \in Views : \/ Mount(v) \/ Load(v) \/ Serve(v)
                              \/ Answer(v) \/ Fail(v) \/ LeaveView(v)
    BY <1>3, MountKeeps, LoadKeeps, ServeKeeps, AnswerKeeps, FailKeeps, LeaveViewKeeps
  <1>4. CASE \E q \in late : ServeLate(q)
    BY <1>4, ServeLateKeeps
  <1>5. CASE \E t \in Tabs : Reload(t)
    BY <1>5, ReloadKeeps
  <1>6. CASE UNCHANGED householdVars
    <2>1. SamePending /\ UNCHANGED <<entries, views, late>>
      BY <1>6 DEF householdVars, SamePending, Open
    <2>2. HouseholdTypes' /\ AskForTheirSave'
      BY <2>1 DEF SamePending, HouseholdInv, HouseholdTypes, AskForTheirSave, Open
    <2> QED
      BY <2>1, <2>2, SamePendingKeeps DEF HouseholdInv
  <1> QED
    BY <1>1, <1>2, <1>3, <1>4, <1>5, <1>6 DEF HSNext

\* What a tab keeps is one save, so one is uncertain at most.
LEMMA KeptIsOne ==
  ASSUME HouseholdAssumption, HouseholdInv
  PROVE  OneSaveAtATime
PROOF
  <1> SUFFICES ASSUME NEW t \in Tabs \ exposed
               PROVE  Cardinality(Uncertain(t)) <= 1
    BY DEF OneSaveAtATime
  <1>1. \A id, other \in Uncertain(t) : id = other
    BY DEF HouseholdInv, UncertainIsKept, KeptBy, OneRecorder
  <1>2. CASE Uncertain(t) = {}
    BY <1>2, FS_EmptySet
  <1>3. CASE Uncertain(t) # {}
    <2>1. PICK id \in Uncertain(t) : TRUE
      BY <1>3
    <2>2. Uncertain(t) = {id}
      BY <1>1, <2>1
    <2> QED
      <3>1. Cardinality({id}) = 1
        BY FS_Singleton
      <3> QED
        BY <2>2, <3>1
  <1> QED
    BY <1>2, <1>3

\* However often saves fail, recorders are left and tabs reloaded, a tab that may not have
\* forgotten a save has one at most that it does not know to be done.
THEOREM OneSaveIsUncertain ==
  ASSUME HouseholdAssumption
  PROVE  HSSpec => []OneSaveAtATime
PROOF
  <1>1. HSInit => HouseholdInv
    BY HouseholdInit
  <1>2. HouseholdInv /\ [HSNext]_householdVars => HouseholdInv'
    BY HouseholdNext
  <1>3. HouseholdInv => OneSaveAtATime
    BY KeptIsOne
  <1> QED
    BY <1>1, <1>2, <1>3, PTL DEF HSSpec

\* A request changes an entry there is only by correcting the version it was asked of.
LEMMA ServedCorrects ==
  ASSUME HouseholdTypes, NEW q \in AskedRows, NEW id \in Ids, entries[id] # <<>>,
         Served(q)[id] # entries[id]
  PROVE  /\ q.kind = "correct" /\ q.id = id /\ q.base = Len(entries[id])
         /\ Served(q)[id] = Append(entries[id], q.row)
PROOF
  <1>1. q \in RequestRows
    BY DEF RequestRows
  <1>2. ~Creates(q)
    <2>1. SUFFICES ASSUME Creates(q) PROVE FALSE
      OBVIOUS
    <2>2. q.save.id # id
      BY <2>1 DEF Creates
    <2> QED
      BY <2>1, <2>2 DEF Served, HouseholdTypes
  <1>3. Corrects(q)
    BY <1>2 DEF Served
  <1>4. q.kind = "correct" /\ Len(entries[q.id]) = q.base
    BY <1>3 DEF Corrects, AsItWas
  <1>5. Served(q) = [entries EXCEPT ![q.id] = Append(entries[q.id], q.row)]
    BY <1>2, <1>3 DEF Served
  <1>6. q.id = id
    BY <1>5 DEF HouseholdTypes
  <1> QED
    BY <1>4, <1>5, <1>6 DEF HouseholdTypes

\* No worker's correction is overwritten by one who had not seen it, and no retry changes
\* what was corrected meanwhile.
THEOREM CorrectionsAreOfWhatIsThere ==
  ASSUME HouseholdAssumption
  PROVE  HSSpec => CorrectionsKnowWhatTheyChange
PROOF
  <1> DEFINE Known ==
        \A id \in Ids :
          entries[id] # <<>> /\ entries'[id] # entries[id] =>
            \E q \in late \cup Unanswered(Views) :
              /\ q.kind = "correct" /\ q.id = id
              /\ q.base = Len(entries[id]) /\ entries'[id] = Append(entries[id], q.row)
  <1>1. HSInit => HouseholdInv
    BY HouseholdInit
  <1>2. HouseholdInv /\ [HSNext]_householdVars => HouseholdInv'
    BY HouseholdNext
  <1>3. HouseholdInv /\ [HSNext]_householdVars => Known \/ UNCHANGED householdVars
    <2> SUFFICES ASSUME HouseholdInv, HSNext, NEW id \in Ids,
                        entries[id] # <<>>, entries'[id] # entries[id]
                 PROVE  \E q \in late \cup Unanswered(Views) :
                          /\ q.kind = "correct" /\ q.id = id
                          /\ q.base = Len(entries[id]) /\ entries'[id] = Append(entries[id], q.row)
      OBVIOUS
    <2>1. CASE \E v \in Views : Serve(v)
      <3>1. PICK v \in Views : Serve(v)
        BY <2>1
      <3>2. /\ Busy(v) /\ ~views[v].request.answered
            /\ entries' = Served(views[v].request)
        BY <3>1 DEF Serve
      <3>3. views[v].request \in AskedRows
        BY <3>2, UnansweredForms DEF HouseholdInv
      <3>4. views[v].request \in Unanswered(Views)
        BY <3>2 DEF Unanswered
      <3> QED
        BY <3>2, <3>3, <3>4, ServedCorrects DEF HouseholdInv
    <2>2. CASE \E q \in late : ServeLate(q)
      <3>1. PICK q \in late : ServeLate(q)
        BY <2>2
      <3>2. entries' = Served(q)
        BY <3>1 DEF ServeLate
      <3>3. q \in AskedRows
        BY DEF HouseholdInv, HouseholdTypes
      <3> QED
        BY <3>2, <3>3, ServedCorrects DEF HouseholdInv
    <2>3. CASE UNCHANGED entries
      BY <2>3
    <2> QED
      BY <2>1, <2>2, <2>3
      DEF HSNext, Record, Correct, Mount, Load,
          Answer, Fail, LeaveView, Reload
  <1>4. HSSpec => [][Known]_householdVars
    BY <1>1, <1>2, <1>3, PTL DEF HSSpec
  <1> QED
    BY <1>4 DEF CorrectionsKnowWhatTheyChange

\* The requests to be served, and the saves there is a copy of: kept by a tab, pending, or asked for.
Asked == late \cup Unanswered(Views)

Copies ==
  {save \in SaveRows :
     \/ \E t \in Tabs : storage[t] = save
     \/ \E v \in Views : Open(v) /\ views[v].pending = save
     \/ \E q \in Asked : q.kind = "record" /\ q.save = save}

\* The copies of a save agree, with the row it made of it too, and a new save has a new id.
RetriesInv ==
  /\ \A save, other \in Copies : save.id = other.id => save = other
  /\ \A save \in Copies : save.id \in Issued /\ (entries[save.id] # <<>> => SameSave(save))
  /\ \A id \in Ids : entries[id] # <<>> => id \in Issued
  /\ \E n \in 0..MaxSaves : Issued = 1..n

LEMMA NoneIsRefused ==
  ASSUME HouseholdTypes, RetriesInv
  PROVE  NoRetryIsRefused
PROOF
  <1> SUFFICES ASSUME NEW q \in Asked, q.kind = "record" PROVE ~Refused(q)
    BY DEF NoRetryIsRefused, Asked
  <1>1. q \in AskedRows
    BY UnansweredForms DEF Asked, HouseholdTypes
  <1>2. q.save \in SaveRows
    BY <1>1, RequestForms DEF RequestRows
  <1>3. q.save \in Copies
    BY <1>2 DEF Copies
  <1>4. Creates(q) \/ SameSave(q.save)
    BY <1>3 DEF RetriesInv, Creates
  <1> QED
    BY <1>4 DEF Refused

\* A step that makes no new save.
NoNewSave ==
  /\ late' \subseteq Asked
  /\ \A t \in Tabs : storage'[t] \in {storage[t], NoSave}
  /\ \A v \in Views : Open(v)' =>
       \/ Open(v) /\ views'[v].pending \in {views[v].pending, NoSave}
       \/ views'[v].pending = storage[Tab[v]]
  /\ \A v \in Views : Busy(v)' /\ ~views'[v].request.answered =>
       \/ Busy(v) /\ views'[v].request = views[v].request
       \/ views'[v].request.kind = "correct"
  /\ UNCHANGED owner

LEMMA NoNewCopies ==
  ASSUME HouseholdAssumption, NoNewSave
  PROVE  Copies' \subseteq Copies
PROOF
  <1> SUFFICES ASSUME NEW save \in Copies' PROVE save \in Copies
    OBVIOUS
  <1>1. save \in SaveRows /\ save # NoSave
    BY HouseholdConstants DEF Copies, SaveRows, Ids
  <1>2. ASSUME NEW t \in Tabs, storage'[t] = save PROVE save \in Copies
    BY <1>1, <1>2 DEF Copies, NoNewSave
  <1>3. ASSUME NEW v \in Views, Open(v)', views'[v].pending = save PROVE save \in Copies
    <2>1. Tab[v] \in Tabs
      BY HouseholdConstants
    <2>2. (Open(v) /\ views[v].pending = save) \/ storage[Tab[v]] = save
      BY <1>1, <1>3 DEF NoNewSave
    <2> QED
      BY <1>1, <2>1, <2>2 DEF Copies
  <1>4. ASSUME NEW q \in Asked', q.kind = "record", q.save = save PROVE save \in Copies
    <2>1. q \in Asked
      <3>1. CASE q \in late'
        BY <3>1 DEF NoNewSave
      <3>2. CASE q \in Unanswered(Views)'
        <4>1. PICK v \in Views : Busy(v)' /\ ~views'[v].request.answered /\ q = views'[v].request
          BY <3>2 DEF Unanswered
        <4>2. "correct" # "record"
          OBVIOUS
        <4>3. Busy(v) /\ views'[v].request = views[v].request
          BY <1>4, <4>1, <4>2 DEF NoNewSave
        <4>4. q \in Unanswered(Views)
          BY <4>1, <4>3 DEF Unanswered
        <4> QED
          BY <4>4 DEF Asked
      <3> QED
        BY <3>1, <3>2 DEF Asked
    <2> QED
      BY <1>1, <1>4, <2>1 DEF Copies
  <1> QED
    BY <1>2, <1>3, <1>4 DEF Copies

LEMMA RetriesStay ==
  ASSUME HouseholdAssumption, RetriesInv, NoNewSave, UNCHANGED entries
  PROVE  RetriesInv'
PROOF
  <1>1. Copies' \subseteq Copies
    BY NoNewCopies
  <1>2. Issued' = Issued
    BY DEF Issued, NoNewSave
  <1>3. \A save \in Copies : SameSave(save)' <=> SameSave(save)
    BY DEF SameSave
  <1> QED
    BY <1>1, <1>2, <1>3 DEF RetriesInv

LEMMA HeadStays ==
  ASSUME NEW S, NEW s \in Seq(S), NEW x \in S, s # <<>>
  PROVE  Append(s, x) # <<>> /\ Head(Append(s, x)) = Head(s)
PROOF
  <1>1. Len(s) \in Nat \ {0} /\ Head(s) = s[1]
    BY LenProperties, EmptySeq
  <1>2. /\ Append(s, x) \in Seq(S) /\ Append(s, x) # <<>> /\ Len(Append(s, x)) = Len(s) + 1
        /\ \A i \in 1..Len(s) : Append(s, x)[i] = s[i]
    BY AppendProperties
  <1>3. Head(Append(s, x)) = Append(s, x)[1]
    BY <1>2
  <1> QED
    BY <1>1, <1>2, <1>3

\* Serving a request leaves what was first submitted under an id, or puts it there.
LEMMA RetriesServed ==
  ASSUME HouseholdAssumption, HouseholdTypes, RetriesInv, NoNewSave,
         NEW q \in Asked, entries' = Served(q)
  PROVE  RetriesInv'
PROOF
  <1>1. Copies' \subseteq Copies
    BY NoNewCopies
  <1>2. Issued' = Issued
    BY DEF Issued, NoNewSave
  <1>3. q \in AskedRows /\ q \in RequestRows
    BY UnansweredForms DEF Asked, HouseholdTypes, RequestRows
  <1>4. CASE Creates(q)
    <2>1. q.save \in Copies /\ q.save \in SaveRows /\ q.save.id \in Ids
      BY <1>3, <1>4, RequestForms DEF Creates, Copies, SaveRows
    <2> DEFINE row == Row(q.save.size, FALSE)
    <2>2. row.size = q.save.size
      BY DEF Row
    <2> HIDE DEF row
    <2>3. entries' = [entries EXCEPT ![q.save.id] = <<row>>]
      BY <1>4 DEF Served, row
    <2>4. /\ entries'[q.save.id] = <<row>>
          /\ \A id \in Ids : id # q.save.id => entries'[id] = entries[id]
      BY <2>1, <2>3 DEF HouseholdTypes
    <2>5. Head(<<row>>) = row
      OBVIOUS
    <2>6. \A save \in Copies : entries'[save.id] # <<>> => SameSave(save)'
      <3> SUFFICES ASSUME NEW save \in Copies, entries'[save.id] # <<>>
                   PROVE  Head(entries'[save.id]).size = save.size
        BY DEF SameSave
      <3>1. CASE save.id = q.save.id
        BY <2>1, <2>2, <2>4, <2>5, <3>1 DEF RetriesInv
      <3>2. CASE save.id # q.save.id
        <4>1. save.id \in Ids
          BY DEF Copies, SaveRows
        <4> QED
          BY <2>4, <3>2, <4>1 DEF RetriesInv, SameSave
      <3> QED
        BY <3>1, <3>2
    <2>7. \A id \in Ids : entries'[id] # <<>> => id \in Issued
      BY <2>1, <2>4 DEF RetriesInv
    <2> QED
      BY <1>1, <1>2, <2>6, <2>7 DEF RetriesInv
  <1>5. CASE ~Creates(q) /\ Corrects(q)
    <2>1. q.id \in Ids /\ q.row \in Rows /\ q.base # 0 /\ q.base = Len(entries[q.id])
      BY <1>3, <1>5, RequestForms DEF Corrects, AsItWas
    <2>2. entries[q.id] \in Seq(Rows) /\ entries[q.id] # <<>>
      BY <2>1 DEF HouseholdTypes
    <2>3. entries' = [entries EXCEPT ![q.id] = Append(entries[q.id], q.row)]
      BY <1>5 DEF Served
    <2>4. \A id \in Ids :
            /\ entries'[id] # <<>> <=> entries[id] # <<>>
            /\ entries[id] # <<>> => Head(entries'[id]) = Head(entries[id])
      <3>1. /\ entries'[q.id] = Append(entries[q.id], q.row)
            /\ \A id \in Ids : id # q.id => entries'[id] = entries[id]
        BY <2>1, <2>3 DEF HouseholdTypes
      <3> QED
        BY <2>1, <2>2, <3>1, HeadStays
    <2>5. \A save \in Copies : save.id \in Ids
      BY DEF Copies, SaveRows
    <2> QED
      BY <1>1, <1>2, <2>4, <2>5 DEF RetriesInv, SameSave
  <1>6. CASE ~Creates(q) /\ ~Corrects(q)
    <2>1. UNCHANGED entries
      BY <1>6 DEF Served
    <2> QED
      BY <2>1, RetriesStay
  <1> QED
    BY <1>4, <1>5, <1>6

\* A save recorded is the one pending, or has an id that none has yet.
LEMMA RetriesRecorded ==
  ASSUME HouseholdAssumption, HouseholdInv, RetriesInv, NEW v \in Views, NEW size \in Entered,
         Record(v, size)
  PROVE  RetriesInv'
PROOF
  <1> DEFINE save == SaveOf(v, size)
             q == [kind |-> "record", answered |-> FALSE, save |-> save]
  <1>1. Open(v) /\ views[v] \in ViewRows /\ save \in SaveRows
    BY RecordGives
  <1>2. /\ views' = [views EXCEPT ![v].pending = save, ![v].request = q]
        /\ storage' = IF Tab[v] \in Storing THEN [storage EXCEPT ![Tab[v]] = save] ELSE storage
        /\ owner' = [owner EXCEPT ![save.id] = Tab[v]]
        /\ UNCHANGED <<entries, late>>
    BY DEF Record
  <1>3. save = IF views[v].pending # NoSave THEN views[v].pending
               ELSE [id |-> Cardinality(Issued) + 1, size |-> size]
    BY DEF SaveOf, Save
  <1> HIDE DEF save
  <1>4. q.save = save
    OBVIOUS
  <1> HIDE DEF q
  <1>5. /\ views'[v].pending = save /\ views'[v].request = q /\ views'[v].page = "open"
        /\ \A w \in Views \ {v} : views'[w] = views[w]
    BY <1>1, <1>2 DEF HouseholdInv, HouseholdTypes, ViewRows, Open
  <1>6. Tab[v] \in Tabs /\ Tab[v] # "none" /\ save.id \in Ids
    BY <1>1, HouseholdConstants DEF SaveRows
  <1>7. Issued' = Issued \cup {save.id}
    <2>1. /\ owner'[save.id] = Tab[v]
          /\ \A id \in Ids : id # save.id => owner'[id] = owner[id]
      BY <1>2, <1>6 DEF HouseholdInv, HouseholdTypes
    <2>2. \A id : id \in Issued' <=> id \in Issued \/ id = save.id
      BY <1>6, <2>1 DEF Issued
    <2> QED
      BY <2>2
  <1>8. Copies' \subseteq Copies \cup {save}
    <2> SUFFICES ASSUME NEW copy \in Copies', copy # save PROVE copy \in Copies
      OBVIOUS
    <2>1. copy \in SaveRows
      BY DEF Copies
    <2>2. ASSUME NEW t \in Tabs, storage'[t] = copy PROVE copy \in Copies
      <3>1. storage'[t] = storage[t] \/ storage'[t] = save
        BY <1>2 DEF HouseholdInv, HouseholdTypes
      <3> QED
        BY <2>1, <2>2, <3>1 DEF Copies
    <2>3. ASSUME NEW w \in Views, Open(w)', views'[w].pending = copy PROVE copy \in Copies
      <3>1. w # v /\ views'[w] = views[w]
        BY <1>5, <2>3
      <3> QED
        BY <2>1, <2>3, <3>1 DEF Copies, Open
    <2>4. ASSUME NEW p \in Asked', p.kind = "record", p.save = copy PROVE copy \in Copies
      <3>1. CASE p \in late'
        BY <1>2, <2>1, <2>4, <3>1 DEF Copies, Asked
      <3>2. CASE p \in Unanswered(Views)'
        <4>1. PICK w \in Views : Busy(w)' /\ ~views'[w].request.answered /\ p = views'[w].request
          BY <3>2 DEF Unanswered
        <4>2. w # v /\ views'[w] = views[w]
          BY <1>4, <1>5, <2>4, <4>1
        <4>3. Busy(w) /\ ~views[w].request.answered /\ p = views[w].request
          BY <4>1, <4>2 DEF Busy
        <4>4. p \in Asked
          BY <4>3 DEF Unanswered, Asked
        <4> QED
          BY <2>1, <2>4, <4>4 DEF Copies
      <3> QED
        BY <2>4, <3>1, <3>2 DEF Asked
    <2> QED
      BY <2>2, <2>3, <2>4 DEF Copies
  <1>9. PICK n \in 0..MaxSaves : Issued = 1..n
    BY DEF RetriesInv
  <1>10. UNCHANGED entries
    BY <1>2
  <1>11. \A copy \in Copies : SameSave(copy)' <=> SameSave(copy)
    BY <1>10 DEF SameSave
  <1>12. CASE views[v].pending # NoSave
    <2>1. save \in Copies
      BY <1>1, <1>3, <1>12 DEF Copies
    <2>2. Copies' \subseteq Copies /\ Issued' = Issued
      BY <1>7, <1>8, <2>1 DEF RetriesInv
    <2> QED
      BY <1>10, <1>11, <2>2 DEF RetriesInv
  <1>13. CASE views[v].pending = NoSave
    <2>1. save.id = n + 1
      <3>1. n \in Nat /\ MaxSaves \in Nat
        BY HouseholdConstants
      <3>2. Cardinality(1..n) = n
        <4>1. Cardinality(1..n) = IF 1 > n THEN 0 ELSE n - 1 + 1
          BY <3>1, FS_Interval
        <4> QED
          BY <3>1, <4>1
      <3> QED
        BY <1>3, <1>9, <1>13, <3>1, <3>2
    <2>2. save.id \notin Issued /\ Issued' = 1..(n + 1) /\ n + 1 \in 0..MaxSaves
      BY <1>6, <1>7, <1>9, <2>1, HouseholdConstants DEF Ids
    <2>3. entries[save.id] = <<>>
      BY <1>6, <2>2 DEF RetriesInv
    <2>4. \A copy \in Copies : copy.id # save.id
      BY <2>2 DEF RetriesInv
    <2>5. \A copy, other \in Copies' : copy.id = other.id => copy = other
      BY <1>8, <2>4 DEF RetriesInv
    <2>6. \A copy \in Copies' : copy.id \in Issued' /\ (entries'[copy.id] # <<>> => SameSave(copy)')
      BY <1>7, <1>8, <1>10, <1>11, <2>3 DEF RetriesInv
    <2>7. \A id \in Ids : entries'[id] # <<>> => id \in Issued'
      BY <1>7, <1>10 DEF RetriesInv
    <2> QED
      BY <2>2, <2>5, <2>6, <2>7 DEF RetriesInv
  <1> QED
    BY <1>12, <1>13

\* What a step that changes one recorder, or none, needs to say to make no new save.
LEMMA OneViewMakesNone ==
  ASSUME HouseholdTypes, NEW v \in Views, \A w \in Views \ {v} : views'[w] = views[w],
         late' \subseteq Asked, UNCHANGED owner,
         \A t \in Tabs : storage'[t] \in {storage[t], NoSave},
         Open(v)' => \/ Open(v) /\ views'[v].pending \in {views[v].pending, NoSave}
                     \/ views'[v].pending = storage[Tab[v]],
         Busy(v)' => \/ views'[v].request.answered
                     \/ Busy(v) /\ views'[v].request = views[v].request
                     \/ views'[v].request.kind = "correct"
  PROVE  NoNewSave
PROOF
  <1>1. \A w \in Views \ {v} : /\ Open(w)' => Open(w) /\ views'[w].pending = views[w].pending
                               /\ Busy(w)' => Busy(w) /\ views'[w].request = views[w].request
    BY DEF Open, Busy
  <1> QED
    BY <1>1 DEF NoNewSave

LEMMA MountMakesNone ==
  ASSUME HouseholdAssumption, HouseholdInv, NEW v \in Views, Mount(v)
  PROVE  NoNewSave
PROOF
  <1> DEFINE new == Recorder(storage[Tab[v]])
  <1>1. /\ views' = [views EXCEPT ![v] = new]
        /\ UNCHANGED <<storage, late, owner>>
    BY DEF Mount, Kept
  <1>2. new.pending = storage[Tab[v]] /\ new.request = Quiet
    BY DEF Recorder
  <1> HIDE DEF new
  <1>3. views'[v] = new /\ \A w \in Views \ {v} : views'[w] = views[w]
    BY <1>1 DEF HouseholdInv, HouseholdTypes
  <1>4. late' \subseteq Asked /\ \A t \in Tabs : storage'[t] \in {storage[t], NoSave}
    BY <1>1 DEF Asked
  <1>5. ~Busy(v)'
    BY <1>2, <1>3 DEF Busy
  <1> QED
    BY <1>1, <1>2, <1>3, <1>4, <1>5, OneViewMakesNone DEF HouseholdInv

LEMMA LoadMakesNone ==
  ASSUME HouseholdAssumption, HouseholdInv, NEW v \in Views, Load(v)
  PROVE  NoNewSave
PROOF
  <1>1. views[v] \in ViewRows /\ Open(v) /\ ~Busy(v)
    BY ViewForms DEF HouseholdInv, Load, Ready
  <1>2. /\ views' = [views EXCEPT ![v].loaded = TRUE]
        /\ UNCHANGED <<storage, late, owner>>
    BY DEF Load
  <1>3. /\ views'[v].pending = views[v].pending /\ views'[v].request = views[v].request
        /\ \A w \in Views \ {v} : views'[w] = views[w]
    BY <1>1, <1>2 DEF ViewRows, HouseholdInv, HouseholdTypes
  <1>4. late' \subseteq Asked /\ \A t \in Tabs : storage'[t] \in {storage[t], NoSave}
    BY <1>2 DEF Asked
  <1>5. ~Busy(v)'
    <2>1. views[v].request = Quiet
      BY <1>1, ViewForms DEF HouseholdInv, Busy
    <2> QED
      BY <1>3, <2>1 DEF Busy
  <1> QED
    BY <1>1, <1>2, <1>3, <1>4, <1>5, OneViewMakesNone DEF HouseholdInv

LEMMA CorrectMakesNone ==
  ASSUME HouseholdAssumption, HouseholdInv, NEW v \in Views, NEW id \in Ids,
         NEW base \in Versions(id), NEW row \in Rows,
         Correct(v, id, base, row)
  PROVE  NoNewSave
PROOF
  <1> DEFINE q == [kind |-> "correct", answered |-> FALSE, id |-> id, base |-> base, row |-> row]
  <1>1. views[v] \in ViewRows /\ Open(v)
    BY ViewForms DEF HouseholdInv, Correct, Ready
  <1>2. /\ views' = [views EXCEPT ![v].request = q]
        /\ UNCHANGED <<storage, late, owner>>
    BY DEF Correct
  <1>3. q.kind = "correct"
    OBVIOUS
  <1> HIDE DEF q
  <1>4. /\ views'[v].pending = views[v].pending /\ views'[v].request = q
        /\ \A w \in Views \ {v} : views'[w] = views[w]
    BY <1>1, <1>2 DEF ViewRows, HouseholdInv, HouseholdTypes
  <1>5. late' \subseteq Asked /\ \A t \in Tabs : storage'[t] \in {storage[t], NoSave}
    BY <1>2 DEF Asked
  <1> QED
    BY <1>1, <1>2, <1>3, <1>4, <1>5, OneViewMakesNone DEF HouseholdInv

LEMMA ServeMakesNone ==
  ASSUME HouseholdAssumption, HouseholdInv, NEW v \in Views, Serve(v)
  PROVE  NoNewSave /\ views[v].request \in Asked /\ entries' = Served(views[v].request)
PROOF
  <1> DEFINE q == views[v].request
             done == IF q.kind = "record" /\ ~Refused(q) THEN {q.save.id} ELSE {}
             answer == [answered |-> TRUE, done |-> done]
  <1>1. views[v] \in ViewRows
    BY ViewForms DEF HouseholdInv, Serve, Busy
  <1>2. /\ views' = [views EXCEPT ![v].request = answer] /\ entries' = Served(q)
        /\ UNCHANGED <<storage, late, owner>>
        /\ Busy(v) /\ ~q.answered
    BY DEF Serve
  <1>3. q \in Asked
    BY <1>2 DEF Asked, Unanswered
  <1>4. answer.answered
    OBVIOUS
  <1> HIDE DEF answer
  <1>5. /\ views'[v].pending = views[v].pending /\ views'[v].request = answer
        /\ views'[v].page = views[v].page
        /\ \A w \in Views \ {v} : views'[w] = views[w]
    BY <1>1, <1>2 DEF ViewRows, HouseholdInv, HouseholdTypes
  <1>6. late' \subseteq Asked /\ \A t \in Tabs : storage'[t] \in {storage[t], NoSave}
    BY <1>2 DEF Asked
  <1>7. Open(v)' => Open(v)
    BY <1>5 DEF Open
  <1> QED
    BY <1>2, <1>3, <1>4, <1>5, <1>6, <1>7, OneViewMakesNone DEF HouseholdInv

LEMMA AnswerMakesNone ==
  ASSUME HouseholdAssumption, HouseholdInv, NEW v \in Views, Answer(v)
  PROVE  NoNewSave
PROOF
  <1> DEFINE done == views[v].request.done
  <1>1. /\ views'[v] \in ViewRows \cup {Closed}
        /\ Open(v)' <=> Open(v)
        /\ Open(v) =>
             /\ views'[v].pending = IF done = {} THEN views[v].pending ELSE NoSave
             /\ views'[v].request = Quiet
        /\ \A w \in Views \ {v} : views'[w] = views[w]
    BY AnswerGives
  <1>2. /\ storage' = IF done # {} THEN [storage EXCEPT ![Tab[v]] = NoSave] ELSE storage
        /\ Busy(v) /\ UNCHANGED <<late, owner>>
    BY DEF Answer
  <1>3. ~Open(v) => views'[v] = Closed
    <2>1. views' = [views EXCEPT ![v] = IF Open(v) /\ done # {}
                                        THEN [Settled(v) EXCEPT !.pending = NoSave] ELSE Settled(v)]
      BY DEF Answer
    <2>2. ~Open(v) => views'[v] = Settled(v)
      BY <2>1 DEF HouseholdInv, HouseholdTypes
    <2> QED
      BY <1>2, <2>2, SettledGives DEF HouseholdInv
  <1> HIDE DEF done
  <1>4. ~Busy(v)'
    BY <1>1, <1>3 DEF Busy
  <1>5. late' \subseteq Asked /\ \A t \in Tabs : storage'[t] \in {storage[t], NoSave}
    BY <1>2 DEF Asked, HouseholdInv, HouseholdTypes
  <1> QED
    BY <1>1, <1>2, <1>4, <1>5, OneViewMakesNone DEF HouseholdInv

LEMMA FailMakesNone ==
  ASSUME HouseholdAssumption, HouseholdInv, NEW v \in Views, Fail(v)
  PROVE  NoNewSave
PROOF
  <1>1. /\ views' = [views EXCEPT ![v] = Settled(v)]
        /\ late' = late \cup Unanswered({v})
        /\ UNCHANGED <<storage, owner>>
        /\ Busy(v)
    BY DEF Fail
  <1>2. views'[v] = Settled(v) /\ \A w \in Views \ {v} : views'[w] = views[w]
    BY <1>1 DEF HouseholdInv, HouseholdTypes
  <1>3. late' \subseteq Asked /\ \A t \in Tabs : storage'[t] \in {storage[t], NoSave}
    BY <1>1 DEF Asked, Unanswered
  <1>4. ~Busy(v)'
    BY <1>1, <1>2, SettledGives DEF Busy, HouseholdInv
  <1>5. Open(v)' => Open(v) /\ views'[v].pending = views[v].pending
    BY <1>1, <1>2, SettledGives, ViewForms DEF Open, HouseholdInv
  <1> QED
    BY <1>1, <1>2, <1>3, <1>4, <1>5, OneViewMakesNone DEF HouseholdInv

LEMMA LeaveViewMakesNone ==
  ASSUME HouseholdAssumption, HouseholdInv, NEW v \in Views, LeaveView(v)
  PROVE  NoNewSave
PROOF
  <1>1. /\ views' = [views EXCEPT ![v] = IF Busy(v) THEN Left(views[v]) ELSE Closed]
        /\ UNCHANGED <<storage, late, owner>>
    BY DEF LeaveView
  <1>2. views'[v] = (IF Busy(v) THEN Left(views[v]) ELSE Closed)
        /\ \A w \in Views \ {v} : views'[w] = views[w]
    BY <1>1 DEF HouseholdInv, HouseholdTypes
  <1>3. Left(views[v]).page = "left" /\ Left(views[v]).request = views[v].request
    BY DEF Left, Recorder
  <1>4. ~Open(v)' /\ (Busy(v)' => Busy(v) /\ views'[v].request = views[v].request)
    BY <1>2, <1>3 DEF Open, Busy, Closed
  <1>5. late' \subseteq Asked /\ \A t \in Tabs : storage'[t] \in {storage[t], NoSave}
    BY <1>1 DEF Asked
  <1> QED
    BY <1>1, <1>2, <1>4, <1>5, OneViewMakesNone DEF HouseholdInv

LEMMA ReloadMakesNone ==
  ASSUME HouseholdAssumption, HouseholdInv, NEW t \in Tabs, Reload(t)
  PROVE  NoNewSave
PROOF
  <1>1. /\ views' = [v \in Views |-> IF v \in Of(t) THEN Closed ELSE views[v]]
        /\ late' = late \cup Unanswered(Of(t))
        /\ UNCHANGED <<storage, owner>>
    BY DEF Reload
  <1>2. Of(t) \subseteq Views
    BY DEF Of
  <1>3. late' \subseteq Asked
    BY <1>1, <1>2 DEF Asked, Unanswered
  <1>4. \A v \in Views : views'[v] = Closed \/ views'[v] = views[v]
    BY <1>1
  <1>5. \A v \in Views : /\ Open(v)' => Open(v) /\ views'[v] = views[v]
                         /\ Busy(v)' => Busy(v) /\ views'[v] = views[v]
    BY <1>4 DEF Open, Busy, Closed
  <1> QED
    BY <1>1, <1>3, <1>5 DEF NoNewSave

LEMMA RetriesInit ==
  HouseholdAssumption /\ HSInit => RetriesInv
PROOF
  <1> SUFFICES ASSUME HouseholdAssumption, HSInit PROVE RetriesInv
    OBVIOUS
  <1>1. \A v \in Views : ~Open(v) /\ ~Busy(v)
    BY DEF HSInit, Open, Busy, Closed
  <1>2. Asked = {}
    BY <1>1 DEF HSInit, Asked, Unanswered
  <1>3. Copies = {}
    BY <1>1, <1>2, HouseholdConstants DEF HSInit, Copies
  <1>4. Issued = 1..0 /\ 0 \in 0..MaxSaves
    BY HouseholdConstants DEF HSInit, Issued
  <1> QED
    BY <1>3, <1>4 DEF HSInit, RetriesInv

LEMMA RetriesNext ==
  ASSUME HouseholdAssumption, HouseholdInv, RetriesInv, [HSNext]_householdVars
  PROVE  RetriesInv'
PROOF
  <1>1. CASE \E v \in Views : \E size \in Entered : Record(v, size)
    BY <1>1, RetriesRecorded
  <1>2. CASE \E v \in Views : \E id \in Ids : \E base \in Versions(id) :
               \E row \in Rows : Correct(v, id, base, row)
    <2>1. NoNewSave
      BY <1>2, CorrectMakesNone
    <2>2. UNCHANGED entries
      BY <1>2 DEF Correct
    <2> QED
      BY <2>1, <2>2, RetriesStay
  <1>3. CASE \E v \in Views : Serve(v)
    BY <1>3, ServeMakesNone, RetriesServed DEF HouseholdInv
  <1>4. CASE \E q \in late : ServeLate(q)
    <2>1. PICK q \in late : ServeLate(q)
      BY <1>4
    <2>2. /\ entries' = Served(q) /\ late' \subseteq late
          /\ UNCHANGED <<storage, views, owner>>
      BY <2>1 DEF ServeLate
    <2>3. NoNewSave
      BY <2>2 DEF NoNewSave, Asked, Open, Busy
    <2> QED
      BY <2>2, <2>3, RetriesServed DEF HouseholdInv, Asked
  <1>5. CASE \E v \in Views : Mount(v) \/ Load(v) \/ Answer(v) \/ Fail(v) \/ LeaveView(v)
    <2>1. NoNewSave
      BY <1>5, MountMakesNone, LoadMakesNone, AnswerMakesNone, FailMakesNone, LeaveViewMakesNone
    <2>2. UNCHANGED entries
      BY <1>5 DEF Mount, Load, Answer, Fail, LeaveView
    <2> QED
      BY <2>1, <2>2, RetriesStay
  <1>6. CASE \E t \in Tabs : Reload(t)
    <2>1. UNCHANGED entries
      BY <1>6 DEF Reload
    <2> QED
      BY <1>6, <2>1, ReloadMakesNone, RetriesStay
  <1>7. CASE UNCHANGED householdVars
    <2>1. UNCHANGED <<entries, storage, views, late, owner>>
      BY <1>7 DEF householdVars
    <2>2. NoNewSave
      BY <2>1 DEF NoNewSave, Asked, Open, Busy
    <2> QED
      BY <2>1, <2>2, RetriesStay
  <1> QED
    BY <1>1, <1>2, <1>3, <1>4, <1>5, <1>6, <1>7 DEF HSNext

\* No retry is refused, whichever recorder of the tab tries again, whenever its request is served
\* and whatever was corrected: all copies of a save have the size its row was first made with.
THEOREM RetriesAreKnown ==
  ASSUME HouseholdAssumption
  PROVE  HSSpec => []NoRetryIsRefused
PROOF
  <1>1. HSInit => HouseholdInv /\ RetriesInv
    BY HouseholdInit, RetriesInit
  <1>2. HouseholdInv /\ RetriesInv /\ [HSNext]_householdVars => HouseholdInv' /\ RetriesInv'
    BY HouseholdNext, RetriesNext
  <1>3. HouseholdInv /\ RetriesInv => NoRetryIsRefused
    BY NoneIsRefused DEF HouseholdInv
  <1> QED
    BY <1>1, <1>2, <1>3, PTL DEF HSSpec

-----------------------------------------------------------------------------
(* The worker directory.                                                    *)

\* Short lists put together.
LEMMA TwoAndOne ==
  ASSUME NEW a, NEW b, NEW c
  PROVE  <<a, b>> \o <<c>> = <<a, b, c>>
PROOF
  <1> DEFINE S == {a, b, c}
             s == <<a, b>> \o <<c>>
  <1>1. /\ <<a, b>> \in Seq(S) /\ Len(<<a, b>>) = 2
        /\ <<c>> \in Seq(S) /\ Len(<<c>>) = 1
        /\ <<a, b, c>> \in Seq(S) /\ Len(<<a, b, c>>) = 3
    OBVIOUS
  <1> HIDE DEF S
  <1>2. s \in Seq(S) /\ Len(s) = 3 /\ s[1] = a /\ s[2] = b /\ s[3] = c
    BY <1>1, ConcatProperties
  <1>3. \A i \in 1..3 : s[i] = <<a, b, c>>[i]
    BY <1>2
  <1> HIDE DEF s
  <1>4. s = <<a, b, c>>
    BY <1>1, <1>2, <1>3, SeqEqual
  <1> QED
    BY <1>4 DEF s

LEMMA TwoAndTwo ==
  ASSUME NEW a, NEW b, NEW c, NEW d
  PROVE  <<a, b>> \o <<c, d>> = <<a, b, c, d>>
PROOF
  <1> DEFINE S == {a, b, c, d}
             s == <<a, b>> \o <<c, d>>
  <1>1. /\ <<a, b>> \in Seq(S) /\ Len(<<a, b>>) = 2
        /\ <<c, d>> \in Seq(S) /\ Len(<<c, d>>) = 2
        /\ <<a, b, c, d>> \in Seq(S) /\ Len(<<a, b, c, d>>) = 4
    OBVIOUS
  <1> HIDE DEF S
  <1>2. s \in Seq(S) /\ Len(s) = 4 /\ s[1] = a /\ s[2] = b /\ s[3] = c /\ s[4] = d
    BY <1>1, ConcatProperties
  <1>3. \A i \in 1..4 : s[i] = <<a, b, c, d>>[i]
    BY <1>2
  <1> HIDE DEF s
  <1>4. s = <<a, b, c, d>>
    BY <1>1, <1>2, <1>3, SeqEqual
  <1> QED
    BY <1>4 DEF s

LEMMA ThreeAndTwo ==
  ASSUME NEW a, NEW b, NEW c, NEW d, NEW e
  PROVE  <<a, b, c>> \o <<d, e>> = <<a, b, c, d, e>>
PROOF
  <1> DEFINE S == {a, b, c, d, e}
             s == <<a, b, c>> \o <<d, e>>
  <1>1. /\ <<a, b, c>> \in Seq(S) /\ Len(<<a, b, c>>) = 3
        /\ <<d, e>> \in Seq(S) /\ Len(<<d, e>>) = 2
        /\ <<a, b, c, d, e>> \in Seq(S) /\ Len(<<a, b, c, d, e>>) = 5
    OBVIOUS
  <1> HIDE DEF S
  <1>2. s \in Seq(S) /\ Len(s) = 5 /\ s[1] = a /\ s[2] = b /\ s[3] = c /\ s[4] = d /\ s[5] = e
    BY <1>1, ConcatProperties
  <1>3. \A i \in 1..5 : s[i] = <<a, b, c, d, e>>[i]
    BY <1>2
  <1> HIDE DEF s
  <1>4. s = <<a, b, c, d, e>>
    BY <1>1, <1>2, <1>3, SeqEqual
  <1> QED
    BY <1>4 DEF s

\* The calls of a request before it has read its account, and of one that adds an account.
Authorizing == {<<"actor", "actorRoles">>, <<"actorRoles">>}

Adding == {<<"roleId", "create", "assign", "unblock">>, <<"create", "assign", "unblock">>}

\* The calls of one that has, up to the block; and those that follow it.
Blocking(removed) ==
  IF removed = {}
  THEN {<<"roleId", "block", "assign", "unblock">>, <<"block", "assign", "unblock">>}
  ELSE {<<"roleId", "block", "unassign", "assign", "unblock">>,
        <<"block", "unassign", "assign", "unblock">>}

Granting == {<<"unassign", "assign", "unblock">>, <<"assign", "unblock">>, <<"unblock">>}

Plans ==
  Authorizing \cup Adding \cup {<<"roles">>, <<"block">>}
    \cup (UNION {Blocking(removed) : removed \in SUBSET StaffRoles}) \cup Granting

RequestsLeft ==
  [calls : Plans, actor : Accounts, target : Accounts, command : {"worker", "admin", "remove"},
   adds : BOOLEAN, instance : Instances, active : BOOLEAN, removed : SUBSET StaffRoles,
   works : BOOLEAN, alone : BOOLEAN, attempt : Nat]

AccountRows ==
  {Absent} \cup [exists : {TRUE}, roles : SUBSET Roles, blocked : BOOLEAN]

\* A request works on its account from reading it, or creating it, to its last call.
Follows(q) ==
  /\ q.adds => q.command # "remove"
  /\ IF q.works
     THEN \/ q.calls \in Blocking(q.removed) \cup Granting /\ q.command # "remove"
          \/ q.calls = <<"block">> /\ q.command = "remove"
     ELSE \/ q.calls \in Authorizing
          \/ q.calls \in Adding /\ q.adds
          \/ q.calls = <<"roles">> /\ ~q.adds

DirectoryTypes ==
  /\ accounts \in [Accounts -> AccountRows]
  /\ requests \in [Requests -> RequestsLeft \cup {Idle}]
  /\ granted \in [Accounts -> (SUBSET Roles) \cup {Unsure}]
  /\ \A r \in Requests : requests[r] # Idle => Follows(requests[r])

\* An account somebody works on exists; who is alone with it is, and others leave it unsure.
WorksRightly(r) ==
  \A t \in Accounts : Works(r, t) =>
    /\ accounts[t].exists
    /\ IF requests[r].alone THEN \A q \in Requests \ {r} : ~Works(q, t)
       ELSE granted[t] = Unsure

\* What a request alone with its account has made of it so far.
Made(q, account) ==
  /\ q.calls \in Blocking(q.removed) => q.removed = account.roles \ {q.command}
  /\ q.calls \in Granting =>
       /\ account.blocked
       /\ q.calls = <<"unassign", "assign", "unblock">> => q.removed = account.roles \ {q.command}
       /\ q.calls = <<"assign", "unblock">> => account.roles \subseteq {q.command}
       /\ q.calls = <<"unblock">> => account.roles = {q.command}

MadeRightly(r) ==
  \A t \in Accounts : Works(r, t) /\ requests[r].alone => Made(requests[r], accounts[t])

DirectoryInv ==
  /\ DirectoryTypes
  /\ \A r \in Requests : WorksRightly(r) /\ MadeRightly(r)
  /\ AccessIsAsGranted

\* The first call of each list, and the list without it.
LEMMA FirstCalls ==
  /\ Head(<<"actor", "actorRoles">>) = "actor"
  /\ Tail(<<"actor", "actorRoles">>) = <<"actorRoles">>
  /\ Head(<<"actorRoles">>) = "actorRoles" /\ Tail(<<"actorRoles">>) = <<>>
  /\ Head(<<"roles">>) = "roles" /\ Tail(<<"roles">>) = <<>>
  /\ Head(<<"block">>) = "block" /\ Tail(<<"block">>) = <<>>
PROOF
  OBVIOUS

LEMMA AddingCalls ==
  /\ Head(<<"roleId", "create", "assign", "unblock">>) = "roleId"
  /\ Tail(<<"roleId", "create", "assign", "unblock">>) = <<"create", "assign", "unblock">>
  /\ Head(<<"create", "assign", "unblock">>) = "create"
  /\ Tail(<<"create", "assign", "unblock">>) = <<"assign", "unblock">>
PROOF
  OBVIOUS

LEMMA BlockingCalls ==
  /\ Head(<<"roleId", "block", "assign", "unblock">>) = "roleId"
  /\ Tail(<<"roleId", "block", "assign", "unblock">>) = <<"block", "assign", "unblock">>
  /\ Head(<<"block", "assign", "unblock">>) = "block"
  /\ Tail(<<"block", "assign", "unblock">>) = <<"assign", "unblock">>
  /\ Head(<<"roleId", "block", "unassign", "assign", "unblock">>) = "roleId"
  /\ Tail(<<"roleId", "block", "unassign", "assign", "unblock">>)
       = <<"block", "unassign", "assign", "unblock">>
  /\ Head(<<"block", "unassign", "assign", "unblock">>) = "block"
  /\ Tail(<<"block", "unassign", "assign", "unblock">>) = <<"unassign", "assign", "unblock">>
PROOF
  OBVIOUS

LEMMA GrantingCalls ==
  /\ Head(<<"unassign", "assign", "unblock">>) = "unassign"
  /\ Tail(<<"unassign", "assign", "unblock">>) = <<"assign", "unblock">>
  /\ Head(<<"assign", "unblock">>) = "assign" /\ Tail(<<"assign", "unblock">>) = <<"unblock">>
  /\ Head(<<"unblock">>) = "unblock" /\ Tail(<<"unblock">>) = <<>>
PROOF
  OBVIOUS

\* The lists a request's own is made of.
LEMMA CallsJoined ==
  ASSUME NEW removed
  PROVE  /\ Tail(<<"actorRoles">> \o AddCalls) = <<"roleId", "create", "assign", "unblock">>
         /\ Tail(<<"actorRoles">> \o <<"roles">>) = <<"roles">>
         /\ Tail(<<"roles">> \o RoleCalls(removed)) \in Blocking(removed)
         /\ Tail(<<"roles", "block">>) = <<"block">>
PROOF
  <1> DEFINE S == {"roleId", "block", "unassign", "assign", "unblock", "create", "roles", "actorRoles"}
  <1>1. ASSUME NEW a \in S, NEW s \in Seq(S) PROVE Tail(<<a>> \o s) = s
    <2>1. <<a>> \in Seq(S) /\ Len(<<a>>) = 1
      BY SingleIsSeq
    <2>2. /\ <<a>> \o s \in Seq(S) /\ Len(<<a>> \o s) = 1 + Len(s) /\ Len(s) \in Nat
          /\ \A i \in 1..1 + Len(s) : (<<a>> \o s)[i] = IF i <= 1 THEN a ELSE s[i - 1]
      BY <2>1, ConcatProperties, LenProperties
    <2>3. <<a>> \o s # <<>>
      BY <2>2, EmptySeq
    <2>4. /\ Len(Tail(<<a>> \o s)) = Len(s) /\ Tail(<<a>> \o s) \in Seq(S)
          /\ \A i \in 1..Len(s) : Tail(<<a>> \o s)[i] = (<<a>> \o s)[i + 1]
      BY <2>2, <2>3, HeadTailProperties
    <2>5. \A i \in 1..Len(s) : Tail(<<a>> \o s)[i] = s[i]
      BY <2>2, <2>4
    <2> QED
      BY <2>2, <2>4, <2>5, SeqEqual
  <1>2. AddCalls \in Seq(S) /\ <<"roles">> \in Seq(S)
    BY DEF AddCalls
  <1>3. RoleCalls(removed) =
          IF removed = {} THEN <<"roleId", "block", "assign", "unblock">>
          ELSE <<"roleId", "block", "unassign", "assign", "unblock">>
    <2>1. <<"roleId", "block">> \o <<>> = <<"roleId", "block">>
      <3>1. <<"roleId", "block">> \in Seq(S)
        OBVIOUS
      <3> QED
        BY <3>1, ConcatEmptySeq
    <2>2. CASE removed = {}
      <3>1. RoleCalls(removed) = <<"roleId", "block">> \o <<"assign", "unblock">>
        BY <2>1, <2>2 DEF RoleCalls
      <3>2. <<"roleId", "block">> \o <<"assign", "unblock">> = <<"roleId", "block", "assign", "unblock">>
        BY TwoAndTwo
      <3> QED
        BY <2>2, <3>1, <3>2
    <2>3. CASE removed # {}
      <3>1. RoleCalls(removed) =
              <<"roleId", "block">> \o <<"unassign">> \o <<"assign", "unblock">>
        BY <2>3 DEF RoleCalls
      <3>2. <<"roleId", "block">> \o <<"unassign">> = <<"roleId", "block", "unassign">>
        BY TwoAndOne
      <3>3. <<"roleId", "block", "unassign">> \o <<"assign", "unblock">>
              = <<"roleId", "block", "unassign", "assign", "unblock">>
        BY ThreeAndTwo
      <3> QED
        BY <2>3, <3>1, <3>2, <3>3
    <2> QED
      BY <2>2, <2>3
  <1>4. RoleCalls(removed) \in Seq(S)
    <2>1. /\ <<"roleId", "block", "assign", "unblock">> \in Seq(S)
          /\ <<"roleId", "block", "unassign", "assign", "unblock">> \in Seq(S)
      OBVIOUS
    <2> QED
      BY <1>3, <2>1
  <1>5. RoleCalls(removed) \in Blocking(removed)
    BY <1>3 DEF Blocking
  <1>6. Tail(<<"roles", "block">>) = <<"block">>
    OBVIOUS
  <1>7. "roles" \in S /\ "actorRoles" \in S
    OBVIOUS
  <1> HIDE DEF S
  <1> QED
    BY <1>1, <1>2, <1>4, <1>5, <1>6, <1>7 DEF AddCalls

\* A request that is not over has a call left.
LEMMA CallsLeft ==
  /\ \A removed : <<>> \notin Blocking(removed)
  /\ \A q \in RequestsLeft : q.calls # <<>> /\ q # Idle
PROOF
  <1>1. \A removed : <<>> \notin Blocking(removed)
    BY DEF Blocking
  <1>2. <<>> \notin Authorizing /\ <<>> \notin Adding /\ <<>> \notin Granting
        /\ <<>> \notin {<<"roles">>, <<"block">>}
    BY DEF Authorizing, Adding, Granting
  <1> DEFINE AnyBlocking == UNION {Blocking(removed) : removed \in SUBSET StaffRoles}
  <1>3. <<>> \notin AnyBlocking
    BY <1>1
  <1>4. Plans = Authorizing \cup Adding \cup {<<"roles">>, <<"block">>} \cup AnyBlocking \cup Granting
    BY DEF Plans
  <1> HIDE DEF AnyBlocking
  <1>5. <<>> \notin Plans
    BY <1>2, <1>3, <1>4
  <1> QED
    BY <1>1, <1>5 DEF RequestsLeft, Idle

\* What the next call of a request says of those it has left.
LEMMA CallForms ==
  ASSUME DirectoryTypes, NEW r \in Requests, requests[r] # Idle
  PROVE  LET q == requests[r]
         IN  /\ q \in RequestsLeft /\ Follows(q)
             /\ Call(r) = "actor" => ~q.works /\ q.calls = <<"actor", "actorRoles">>
             /\ Call(r) = "actorRoles" => ~q.works /\ q.calls = <<"actorRoles">>
             /\ Call(r) = "roles" => ~q.works /\ q.calls = <<"roles">> /\ ~q.adds
             /\ Call(r) = "roleId" =>
                  \/ ~q.works /\ q.adds /\ q.calls = <<"roleId", "create", "assign", "unblock">>
                  \/ /\ q.works /\ q.command # "remove"
                     /\ \/ /\ q.removed = {}
                           /\ q.calls = <<"roleId", "block", "assign", "unblock">>
                        \/ /\ q.removed # {}
                           /\ q.calls = <<"roleId", "block", "unassign", "assign", "unblock">>
             /\ Call(r) = "create" =>
                  ~q.works /\ q.adds /\ q.calls = <<"create", "assign", "unblock">>
             /\ Call(r) = "block" =>
                  /\ q.works
                  /\ \/ /\ q.removed = {} /\ q.command # "remove"
                        /\ q.calls = <<"block", "assign", "unblock">>
                     \/ /\ q.removed # {} /\ q.command # "remove"
                        /\ q.calls = <<"block", "unassign", "assign", "unblock">>
                     \/ q.command = "remove" /\ q.calls = <<"block">>
             /\ Call(r) = "unassign" =>
                  q.works /\ q.command # "remove" /\ q.calls = <<"unassign", "assign", "unblock">>
             /\ Call(r) = "assign" =>
                  q.works /\ q.command # "remove" /\ q.calls = <<"assign", "unblock">>
             /\ Call(r) = "unblock" =>
                  q.works /\ q.command # "remove" /\ q.calls = <<"unblock">>
             /\ Call(r) \in {"actor", "actorRoles", "roles", "roleId", "create", "block",
                                       "unassign", "assign", "unblock"}
PROOF
  <1> DEFINE q == requests[r]
  <1>1. q \in RequestsLeft /\ Follows(q)
    BY DEF DirectoryTypes
  <1>2. Call(r) = Head(q.calls)
    BY DEF Call
  <1> HIDE DEF q
  <1>3. CASE q.calls \in Authorizing /\ ~q.works
    BY <1>1, <1>2, <1>3, FirstCalls DEF Authorizing, q
  <1>4. CASE q.calls \in Adding /\ q.adds /\ ~q.works
    BY <1>1, <1>2, <1>4, AddingCalls DEF Adding, q
  <1>5. CASE q.calls = <<"roles">> /\ ~q.adds /\ ~q.works
    BY <1>1, <1>2, <1>5, FirstCalls DEF q
  <1>6. CASE q.calls \in Blocking(q.removed) /\ q.command # "remove" /\ q.works
    BY <1>1, <1>2, <1>6, BlockingCalls DEF Blocking, q
  <1>7. CASE q.calls \in Granting /\ q.command # "remove" /\ q.works
    BY <1>1, <1>2, <1>7, GrantingCalls DEF Granting, q
  <1>8. CASE q.calls = <<"block">> /\ q.command = "remove" /\ q.works
    BY <1>1, <1>2, <1>8, FirstCalls DEF q
  <1> QED
    BY <1>1, <1>3, <1>4, <1>5, <1>6, <1>7, <1>8 DEF Follows

\* A request gone on with its calls is over, or has those that follow.
LEMMA FollowingGives ==
  ASSUME NEW q \in RequestsLeft
  PROVE  IF Tail(q.calls) = <<>> THEN Following(q) = Idle
         ELSE Following(q) = [q EXCEPT !.calls = Tail(q.calls), !.attempt = 0]
PROOF
  BY DEF Following, RequestsLeft

LEMMA DirectoryInit ==
  DirectoryAssumption /\ WDInit => DirectoryInv
PROOF
  <1> SUFFICES ASSUME DirectoryAssumption, WDInit PROVE DirectoryInv
    OBVIOUS
  <1>1. \A r \in Requests : requests[r] = Idle
    BY DEF WDInit
  <1>2. accounts \in [Accounts -> AccountRows]
    <2>1. \A roles \in FirstRoles : Account(roles, FALSE) \in AccountRows
      BY DEF DirectoryAssumption, Account, AccountRows, Roles,
             StaffRoles
    <2>2. Absent \in AccountRows
      BY DEF AccountRows
    <2>3. accounts \in [Accounts -> {Absent}
                                     \cup {Account(roles, FALSE) : roles \in FirstRoles}]
      BY DEF WDInit
    <2>4. {Absent} \cup {Account(roles, FALSE) : roles \in FirstRoles}
            \subseteq AccountRows
      BY <2>1, <2>2
    <2> QED
      BY <2>3, <2>4
  <1>3. \A t \in Accounts : accounts[t].exists <=> t \in Staff
    BY DEF WDInit
  <1>4. \A t \in Staff : accounts[t].roles \in SUBSET Roles
    <2> SUFFICES ASSUME NEW t \in Staff PROVE accounts[t].roles \in SUBSET Roles
      OBVIOUS
    <2>1. t \in Accounts /\ accounts[t] # Absent
      BY <1>3 DEF DirectoryAssumption, Absent
    <2> QED
      BY <1>2, <2>1 DEF AccountRows
  <1>5. granted = [t \in Accounts |-> IF t \in Staff THEN accounts[t].roles ELSE {}]
    BY DEF WDInit
  <1>6. DirectoryTypes
    <2>1. requests \in [Requests -> RequestsLeft \cup {Idle}]
      BY DEF WDInit
    <2>2. granted \in [Accounts -> (SUBSET Roles) \cup {Unsure}]
      BY <1>4, <1>5
    <2> QED
      BY <1>1, <1>2, <2>1, <2>2 DEF DirectoryTypes
  <1>7. \A r \in Requests : WorksRightly(r) /\ MadeRightly(r)
    BY <1>1 DEF WorksRightly, MadeRightly, Works
  <1>8. AccessIsAsGranted
    BY <1>3, <1>5 DEF AccessIsAsGranted
  <1> QED
    BY <1>6, <1>7, <1>8 DEF DirectoryInv

\* A request that ends, or goes on with what it had made, and no account changed.
LEMMA RequestMoves ==
  ASSUME DirectoryInv, NEW r \in Requests, NEW new \in RequestsLeft \cup {Idle},
         requests' = [requests EXCEPT ![r] = new], UNCHANGED <<accounts, granted>>,
         \/ new = Idle
         \/ /\ new # Idle /\ Follows(new)
            /\ new.works => /\ Works(r, new.target)
                            /\ new.alone = requests[r].alone
                            /\ new.alone => Made(new, accounts[new.target])
  PROVE  DirectoryInv'
PROOF
  <1>1. requests'[r] = new /\ \A q \in Requests \ {r} : requests'[q] = requests[q]
    BY DEF DirectoryInv, DirectoryTypes
  <1>2. DirectoryTypes'
    BY <1>1 DEF DirectoryInv, DirectoryTypes
  <1>3. \A q \in Requests, t \in Accounts : Works(q, t)' =>
          /\ Works(q, t)
          /\ requests'[q].alone = requests[q].alone
    BY <1>1 DEF Works
  <1>4. \A q \in Requests : WorksRightly(q)'
    BY <1>3 DEF DirectoryInv, WorksRightly
  <1>5. \A q \in Requests : MadeRightly(q)'
    BY <1>1, <1>3 DEF DirectoryInv, MadeRightly, Works
  <1>6. AccessIsAsGranted'
    BY DEF DirectoryInv, AccessIsAsGranted
  <1> QED
    BY <1>2, <1>4, <1>5, <1>6 DEF DirectoryInv

LEMMA StopKeeps ==
  ASSUME DirectoryInv, NEW r \in Requests, Stop(r), UNCHANGED <<accounts, granted>>
  PROVE  DirectoryInv'
PROOF
  BY RequestMoves DEF Stop

\* A request begun has read nothing yet.
LEMMA BeginKeeps ==
  ASSUME DirectoryAssumption, DirectoryInv, NEW r \in Requests, NEW i \in Instances,
         NEW task \in Tasks, Begin(r, i, task)
  PROVE  DirectoryInv'
PROOF
  <1> DEFINE new == [calls |-> Authorize, actor |-> task.actor, target |-> task.target,
                     command |-> task.command, adds |-> task.adds, instance |-> i, active |-> FALSE,
                     removed |-> {}, works |-> FALSE, alone |-> FALSE, attempt |-> 0]
  <1>1. requests' = [requests EXCEPT ![r] = new] /\ UNCHANGED <<accounts, granted>>
    BY DEF Begin
  <1>2. /\ task.actor \in Accounts /\ task.target \in Accounts /\ task.adds \in BOOLEAN
        /\ task.command \in {"worker", "admin", "remove"} /\ (task.adds => task.command # "remove")
    BY DEF DirectoryAssumption
  <1>3. Authorize \in Authorizing
    BY DEF Authorize, Authorizing
  <1>4. new \in RequestsLeft /\ ~new.works /\ new.calls \in Authorizing
        /\ (new.adds => new.command # "remove")
    BY <1>2, <1>3 DEF RequestsLeft, Plans, StaffRoles
  <1>5. new # Idle
    BY <1>3, <1>4 DEF Idle, Authorizing
  <1> HIDE DEF new
  <1>6. Follows(new)
    BY <1>4 DEF Follows
  <1> QED
    BY <1>1, <1>4, <1>5, <1>6, RequestMoves

\* A request that has not come to its account goes on.
LEMMA ReadingKeeps ==
  ASSUME DirectoryInv, NEW r \in Requests, NEW q \in RequestsLeft, NEW calls \in Plans,
         GoOn(r, q), UNCHANGED <<accounts, granted>>,
         Tail(q.calls) = calls, calls # <<>>, ~q.works, q.adds => q.command # "remove",
         calls \in Authorizing \/ (calls \in Adding /\ q.adds) \/ (calls = <<"roles">> /\ ~q.adds)
  PROVE  DirectoryInv'
PROOF
  <1> DEFINE new == [q EXCEPT !.calls = calls, !.attempt = 0]
  <1>1. Following(q) = new
    BY FollowingGives
  <1>2. /\ new \in RequestsLeft /\ ~new.works /\ new.calls = calls
        /\ new.adds = q.adds /\ new.command = q.command
    BY DEF RequestsLeft
  <1>3. new # Idle
    BY <1>2 DEF Idle
  <1>4. requests' = [requests EXCEPT ![r] = new]
    BY <1>1 DEF GoOn
  <1> HIDE DEF new
  <1>5. Follows(new)
    BY <1>2 DEF Follows
  <1> QED
    BY <1>2, <1>3, <1>4, <1>5, RequestMoves

LEMMA ReadActorKeeps ==
  ASSUME DirectoryInv, NEW r \in Requests, ReadActor(r)
  PROVE  DirectoryInv'
PROOF
  <1> DEFINE q == requests[r]
             actor == accounts[q.actor]
             new == [q EXCEPT !.active = ~actor.blocked]
  <1>1. /\ q # Idle /\ Call(r) = "actor" /\ UNCHANGED <<accounts, granted>>
        /\ IF actor.exists THEN GoOn(r, new) ELSE Stop(r)
    BY DEF ReadActor, Answered, Turn
  <1>2. q \in RequestsLeft /\ Follows(q) /\ ~q.works /\ q.calls = <<"actor", "actorRoles">>
    BY <1>1, CallForms DEF DirectoryInv
  <1>3. CASE actor.exists
    <2>1. actor.blocked \in BOOLEAN
      <3>1. actor \in AccountRows
        BY <1>2 DEF DirectoryInv, DirectoryTypes, RequestsLeft
      <3>2. actor # Absent
        BY <1>3 DEF Absent
      <3> QED
        BY <3>1, <3>2 DEF AccountRows
    <2>2. /\ new \in RequestsLeft /\ new.calls = q.calls /\ ~new.works
          /\ (new.adds => new.command # "remove")
      BY <1>2, <2>1 DEF RequestsLeft, Follows
    <2>3. Tail(new.calls) = <<"actorRoles">> /\ <<"actorRoles">> # <<>>
      BY <1>2, <2>2, FirstCalls
    <2>4. <<"actorRoles">> \in Authorizing /\ <<"actorRoles">> \in Plans
      BY DEF Authorizing, Plans
    <2> HIDE DEF new
    <2> QED
      BY <1>1, <1>3, <2>2, <2>3, <2>4, ReadingKeeps
  <1>4. CASE ~actor.exists
    BY <1>1, <1>4, StopKeeps
  <1> QED
    BY <1>3, <1>4

LEMMA ReadActorRolesKeeps ==
  ASSUME DirectoryInv, NEW r \in Requests, ReadActorRoles(r)
  PROVE  DirectoryInv'
PROOF
  <1> DEFINE q == requests[r]
             calls == q.calls \o IF q.adds THEN AddCalls ELSE <<"roles">>
             new == [q EXCEPT !.calls = calls]
  <1>1. /\ q # Idle /\ Call(r) = "actorRoles" /\ UNCHANGED <<accounts, granted>>
        /\ GoOn(r, new) \/ Stop(r)
    BY DEF ReadActorRoles, Answered, Turn
  <1>2. q \in RequestsLeft /\ Follows(q) /\ ~q.works /\ q.calls = <<"actorRoles">>
    BY <1>1, CallForms DEF DirectoryInv
  <1>3. CASE GoOn(r, new)
    <2> DEFINE left == IF q.adds THEN <<"roleId", "create", "assign", "unblock">> ELSE <<"roles">>
               next == [q EXCEPT !.calls = left, !.attempt = 0]
    <2>1. Tail(new.calls) = left
      BY <1>2, CallsJoined DEF RequestsLeft
    <2>2. left # <<>> /\ left \in Plans /\ left \in Adding \cup {<<"roles">>}
          /\ (q.adds => left \in Adding) /\ (~q.adds => left = <<"roles">>)
      BY DEF Plans, Adding
    <2>3. Following(new) = next
      BY <1>2, <2>1, <2>2 DEF Following, RequestsLeft
    <2>4. /\ next \in RequestsLeft /\ ~next.works /\ next.calls = left
          /\ next.adds = q.adds /\ next.command = q.command
      BY <1>2, <2>2 DEF RequestsLeft
    <2>5. next # Idle
      BY <2>2, <2>4 DEF Idle
    <2>6. requests' = [requests EXCEPT ![r] = next]
      BY <1>3, <2>3 DEF GoOn
    <2> HIDE DEF next, left
    <2>7. Follows(next)
      BY <1>2, <2>2, <2>4 DEF Follows
    <2> QED
      BY <1>1, <2>4, <2>5, <2>6, <2>7, RequestMoves
  <1>4. CASE Stop(r)
    BY <1>1, <1>4, StopKeeps
  <1> QED
    BY <1>1, <1>3, <1>4

\* The role's id is read before anything is written.
LEMMA ReadRoleIdKeeps ==
  ASSUME DirectoryInv, NEW r \in Requests, ReadRoleId(r)
  PROVE  DirectoryInv'
PROOF
  <1> DEFINE q == requests[r]
             new == [q EXCEPT !.calls = Tail(q.calls), !.attempt = 0]
  <1>1. /\ q # Idle /\ Call(r) = "roleId" /\ UNCHANGED <<accounts, granted>>
        /\ GoOn(r, q)
    BY DEF ReadRoleId, Answered, Turn
  <1>2. q \in RequestsLeft /\ Follows(q)
    BY <1>1, CallForms DEF DirectoryInv
  <1>3. \/ /\ ~q.works /\ q.adds
           /\ Tail(q.calls) = <<"create", "assign", "unblock">>
        \/ /\ q.works /\ q.command # "remove"
           /\ q.calls \in Blocking(q.removed) /\ Tail(q.calls) \in Blocking(q.removed)
    BY <1>1, CallForms, AddingCalls, BlockingCalls DEF DirectoryInv, Blocking
  <1>4. Tail(q.calls) \in Plans /\ Tail(q.calls) # <<>>
    <2>1. q.removed \in SUBSET StaffRoles
      BY <1>2 DEF RequestsLeft
    <2>2. CASE Tail(q.calls) = <<"create", "assign", "unblock">>
      BY <2>2 DEF Plans, Adding
    <2>3. CASE Tail(q.calls) \in Blocking(q.removed)
      <3>1. Tail(q.calls) \in Plans
        BY <2>1, <2>3 DEF Plans
      <3>2. \A plan \in Blocking(q.removed) : plan # <<>>
        <4>1. /\ <<"roleId", "block", "assign", "unblock">> # <<>>
              /\ <<"block", "assign", "unblock">> # <<>>
              /\ <<"roleId", "block", "unassign", "assign", "unblock">> # <<>>
              /\ <<"block", "unassign", "assign", "unblock">> # <<>>
          OBVIOUS
        <4> HIDE DEF q
        <4> QED
          BY <4>1 DEF Blocking
      <3> QED
        BY <2>3, <3>1, <3>2
    <2> QED
      BY <1>3, <2>2, <2>3
  <1>5. Following(q) = new
    BY <1>2, <1>4, FollowingGives
  <1>6. /\ new \in RequestsLeft /\ new.calls = Tail(q.calls)
        /\ new.adds = q.adds /\ new.command = q.command /\ new.works = q.works
        /\ new.removed = q.removed /\ new.target = q.target /\ new.alone = q.alone
    BY <1>2, <1>4 DEF RequestsLeft
  <1>7. new # Idle
    BY <1>4, <1>6 DEF Idle
  <1>8. requests' = [requests EXCEPT ![r] = new]
    BY <1>1, <1>5 DEF GoOn
  <1> HIDE DEF new
  <1>9. Follows(new)
    BY <1>2, <1>3, <1>6 DEF Follows, Adding
  <1>10. ASSUME new.works
         PROVE  /\ Works(r, new.target) /\ (new.alone => Made(new, accounts[new.target]))
    <2>1. Works(r, q.target) /\ q.target \in Accounts
      BY <1>1, <1>2, <1>6, <1>10 DEF Works, RequestsLeft
    <2>2. q.alone => Made(q, accounts[q.target])
      BY <2>1 DEF DirectoryInv, MadeRightly
    <2>3. new.calls \notin Granting
      BY <1>3, <1>6, <1>10 DEF Blocking, Granting
    <2> QED
      BY <1>3, <1>6, <1>10, <2>1, <2>2, <2>3 DEF Made
  <1> QED
    BY <1>1, <1>6, <1>7, <1>8, <1>9, <1>10, RequestMoves

\* A request that others have joined is as it was, but no longer alone.
LEMMA NoLongerAlone ==
  ASSUME NEW q \in RequestsLeft, NEW new, new = [q EXCEPT !.alone = FALSE]
  PROVE  /\ new \in RequestsLeft /\ ~new.alone
         /\ new.calls = q.calls /\ new.works = q.works /\ new.target = q.target
         /\ new.command = q.command /\ new.adds = q.adds /\ new.removed = q.removed
         /\ new.instance = q.instance
PROOF
  BY DEF RequestsLeft

\* A request that has read its account replaces what it read, and is alone with the account or
\* makes all who work on it unsure.
LEMMA ReadRolesKeeps ==
  ASSUME DirectoryInv, NEW r \in Requests, ReadRoles(r)
  PROVE  DirectoryInv'
PROOF
  <1> DEFINE q == requests[r]
             t == q.target
             others == {p \in Requests \ {r} : Works(p, t)}
             removed == accounts[t].roles \ {q.command}
             calls == IF q.command = "remove" THEN <<"roles", "block">>
                      ELSE <<"roles">> \o RoleCalls(removed)
             working == [q EXCEPT !.calls = calls, !.removed = removed, !.works = TRUE,
                                  !.alone = others = {}]
             new == [q EXCEPT !.calls = Tail(calls), !.removed = removed, !.works = TRUE,
                              !.alone = others = {}, !.attempt = 0]
  <1>1. /\ q # Idle /\ Call(r) = "roles" /\ accounts' = accounts
        /\ \/ /\ accounts[t].exists /\ Editable(accounts[t].roles)
              /\ requests' = [p \in Requests |->
                   CASE p = r        -> Following(working)
                     [] p \in others -> [requests[p] EXCEPT !.alone = FALSE]
                     [] OTHER        -> requests[p]]
              /\ granted' = [granted EXCEPT ![t] = IF others = {} THEN @ ELSE Unsure]
           \/ Stop(r) /\ granted' = granted
    BY DEF ReadRoles, Answered, Turn
  <1>2. q \in RequestsLeft /\ Follows(q) /\ ~q.works /\ q.calls = <<"roles">> /\ ~q.adds
    BY <1>1, CallForms DEF DirectoryInv
  <1>3. t \in Accounts /\ accounts[t] \in AccountRows
    BY <1>2 DEF RequestsLeft, DirectoryInv, DirectoryTypes
  <1>4. CASE Stop(r) /\ granted' = granted
    BY <1>1, <1>4, StopKeeps
  <1>5. CASE /\ accounts[t].exists /\ Editable(accounts[t].roles)
             /\ requests' = [p \in Requests |->
                  CASE p = r        -> Following(working)
                    [] p \in others -> [requests[p] EXCEPT !.alone = FALSE]
                    [] OTHER        -> requests[p]]
             /\ granted' = [granted EXCEPT ![t] = IF others = {} THEN @ ELSE Unsure]
    <2>1. removed \in SUBSET StaffRoles
      BY <1>5 DEF Editable
    <2>2. /\ q.command = "remove" => Tail(calls) = <<"block">>
          /\ q.command # "remove" => Tail(calls) \in Blocking(removed)
      BY CallsJoined
    <2>3. Tail(calls) # <<>>
      <3>1. <<"block">> # <<>>
        OBVIOUS
      <3> HIDE DEF calls, removed
      <3> QED
        BY <2>2, <3>1, CallsLeft
    <2>4. Tail(calls) \in Plans
      BY <2>1, <2>2 DEF Plans
    <2> HIDE DEF calls, removed, others
    <2>5. Following(working) = new
      BY <1>2, <2>3 DEF Following, RequestsLeft
    <2>6. /\ new \in RequestsLeft /\ new.works /\ new.calls = Tail(calls) /\ new.removed = removed
          /\ new.command = q.command /\ new.target = t /\ ~new.adds
          /\ (new.alone <=> others = {})
      BY <1>2, <2>1, <2>4 DEF RequestsLeft
    <2>7. new # Idle
      BY <2>3, <2>6 DEF Idle
    <2> HIDE DEF new, working
    <2>8. requests'[r] = new
      <3> DEFINE Moved(p) == CASE p = r        -> Following(working)
                               [] p \in others -> [requests[p] EXCEPT !.alone = FALSE]
                               [] OTHER        -> requests[p]
      <3>1. r \notin others
        BY DEF others
      <3>2. Moved(r) = new
        BY <2>5, <3>1
      <3>3. requests' = [p \in Requests |-> Moved(p)]
        BY <1>5
      <3> HIDE DEF Moved
      <3> QED
        BY <3>2, <3>3
    <2>20. \A p : p \in others <=> p \in Requests \ {r} /\ Works(p, t)
      BY DEF others
    <2>9. \A p \in others : /\ requests'[p] = [requests[p] EXCEPT !.alone = FALSE]
                            /\ p \in Requests /\ p # r /\ Works(p, t)
      BY <1>5, <2>20
    <2>10. \A p \in Requests : p # r /\ p \notin others =>
             requests'[p] = requests[p] /\ ~Works(p, t)
      BY <1>5, <2>20
    <2>11. \A p \in others :
             /\ requests[p] \in RequestsLeft /\ Follows(requests[p])
             /\ requests'[p] \in RequestsLeft /\ requests'[p] # Idle
             /\ requests'[p].works = requests[p].works /\ requests'[p].target = t
             /\ ~requests'[p].alone /\ Follows(requests'[p])
      <3> SUFFICES ASSUME NEW p \in others
                   PROVE  /\ requests[p] \in RequestsLeft /\ Follows(requests[p])
                          /\ requests'[p] \in RequestsLeft /\ requests'[p] # Idle
                          /\ requests'[p].works = requests[p].works /\ requests'[p].target = t
                          /\ ~requests'[p].alone /\ Follows(requests'[p])
        OBVIOUS
      <3>1. /\ requests[p] \in RequestsLeft /\ Follows(requests[p])
            /\ requests[p] # Idle /\ requests[p].target = t
        BY <2>9 DEF Works, DirectoryInv, DirectoryTypes
      <3>2. /\ requests'[p] \in RequestsLeft /\ requests'[p].calls = requests[p].calls
            /\ requests'[p].works = requests[p].works /\ requests'[p].target = t
            /\ requests'[p].command = requests[p].command /\ requests'[p].adds = requests[p].adds
            /\ requests'[p].removed = requests[p].removed /\ ~requests'[p].alone
        <4>1. requests'[p] = [requests[p] EXCEPT !.alone = FALSE] /\ requests[p] \in RequestsLeft
          BY <2>9, <3>1
        <4> HIDE DEF t, q
        <4> QED
          BY <3>1, <4>1, NoLongerAlone
      <3>3. requests'[p] # Idle
        BY <3>2, CallsLeft
      <3>4. Follows(requests'[p])
        BY <3>1, <3>2 DEF Follows
      <3> QED
        BY <3>1, <3>2, <3>3, <3>4
    <2>12. Follows(new)
      BY <2>2, <2>6 DEF Follows
    <2>13. DirectoryTypes'
      <3>1. requests' \in [Requests -> RequestsLeft \cup {Idle}]
        <4>1. \A p \in Requests : requests'[p] \in RequestsLeft \cup {Idle}
          BY <2>6, <2>8, <2>10, <2>11 DEF DirectoryInv, DirectoryTypes
        <4> QED
          BY <1>5, <4>1
      <3>2. \A p \in Requests : requests'[p] # Idle => Follows(requests'[p])
        BY <2>8, <2>10, <2>11, <2>12 DEF DirectoryInv, DirectoryTypes
      <3>3. granted' \in [Accounts -> (SUBSET Roles) \cup {Unsure}]
        BY <1>3, <1>5 DEF DirectoryInv, DirectoryTypes
      <3> QED
        BY <1>1, <3>1, <3>2, <3>3 DEF DirectoryInv, DirectoryTypes
    <2>14. \A p \in Requests \ {r}, s \in Accounts : Works(p, s)' <=> Works(p, s)
      BY <2>9, <2>10, <2>11 DEF Works
    <2>15. /\ \A s \in Accounts \ {t} : granted'[s] = granted[s]
           /\ others = {} => granted'[t] = granted[t]
           /\ others # {} => granted'[t] = Unsure
      BY <1>3, <1>5 DEF DirectoryInv, DirectoryTypes
    <2>16. WorksRightly(r)'
      <3> SUFFICES ASSUME NEW s \in Accounts, Works(r, s)'
                   PROVE  /\ accounts'[s].exists
                          /\ IF requests'[r].alone THEN \A p \in Requests \ {r} : ~Works(p, s)'
                             ELSE granted'[s] = Unsure
        BY DEF WorksRightly
      <3>1. s = t
        BY <2>6, <2>8 DEF Works
      <3>2. others = {} => \A p \in Requests \ {r} : ~Works(p, s)'
        BY <1>3, <2>20, <2>14, <3>1
      <3> QED
        BY <1>1, <1>5, <2>6, <2>8, <2>15, <3>1, <3>2
    <2>17. ASSUME NEW p \in Requests, p # r PROVE WorksRightly(p)' /\ MadeRightly(p)'
      <3>1. CASE p \in others
        <4>1. others # {} /\ ~requests'[p].alone
          BY <2>11, <3>1
        <4>2. \A s \in Accounts : Works(p, s)' => s = t
          BY <2>11, <3>1 DEF Works
        <4>3. accounts'[t].exists /\ granted'[t] = Unsure
          BY <1>1, <1>5, <2>15, <4>1
        <4> QED
          BY <4>1, <4>2, <4>3 DEF WorksRightly, MadeRightly
      <3>2. CASE p \notin others
        <4>1. requests'[p] = requests[p] /\ ~Works(p, t)
          BY <1>3, <2>10, <2>17, <3>2
        <4>2. \A s \in Accounts \ {t} : ~Works(r, s)'
          BY <2>6, <2>8 DEF Works
        <4>3. WorksRightly(p)'
          <5> SUFFICES ASSUME NEW s \in Accounts, Works(p, s)'
                       PROVE  /\ accounts'[s].exists
                              /\ IF requests'[p].alone
                                 THEN \A o \in Requests \ {p} : ~Works(o, s)'
                                 ELSE granted'[s] = Unsure
            BY DEF WorksRightly
          <5>1. s # t /\ Works(p, s)
            BY <2>14, <2>17, <4>1
          <5>2. /\ accounts[s].exists
                /\ IF requests[p].alone THEN \A o \in Requests \ {p} : ~Works(o, s)
                   ELSE granted[s] = Unsure
            BY <5>1 DEF DirectoryInv, WorksRightly
          <5> QED
            BY <1>1, <2>14, <2>15, <4>1, <4>2, <5>1, <5>2
        <4>4. MadeRightly(p)'
          BY <1>1, <4>1 DEF DirectoryInv, MadeRightly, Works
        <4> QED
          BY <4>3, <4>4
      <3> QED
        BY <3>1, <3>2
    <2>18. MadeRightly(r)'
      <3>1. new.calls \notin Granting
        BY <2>2, <2>6 DEF Blocking, Granting
      <3>2. Made(new, accounts[t])
        BY <2>6, <3>1 DEF Made, removed
      <3> QED
        BY <1>1, <2>6, <2>8, <3>2 DEF MadeRightly, Works
    <2>19. AccessIsAsGranted'
      BY <1>1, <2>15 DEF DirectoryInv, AccessIsAsGranted
    <2> QED
      BY <2>13, <2>16, <2>17, <2>18, <2>19 DEF DirectoryInv
  <1> QED
    BY <1>1, <1>4, <1>5

\* What a write leaves of the account, and what is granted from then on.
LEMMA WriteGives ==
  ASSUME DirectoryInv, NEW r \in Requests, requests[r] # Idle, Write(r)
  PROVE  LET q == requests[r]
             t == q.target
             account == accounts[t]
             call == Call(r)
         IN  /\ t \in Accounts
             /\ accounts' \in [Accounts -> AccountRows] /\ accounts'[t].exists
             /\ \A s \in Accounts \ {t} : accounts'[s] = accounts[s] /\ granted'[s] = granted[s]
             /\ granted' \in [Accounts -> (SUBSET Roles) \cup {Unsure}]
             /\ call = "create" => ~account.exists /\ accounts'[t] = Account({}, TRUE)
             /\ call # "create" =>
                  /\ account \in [exists : {TRUE}, roles : SUBSET Roles, blocked : BOOLEAN]
                  /\ q.works /\ Works(r, t)
                  /\ ~q.alone => granted'[t] = granted[t]
             /\ call = "block" => accounts'[t].roles = account.roles /\ accounts'[t].blocked
             /\ call = "unassign" =>
                  accounts'[t].roles = account.roles \ q.removed /\ accounts'[t].blocked = account.blocked
             /\ call = "assign" =>
                  /\ accounts'[t].roles = account.roles \cup {q.command}
                  /\ accounts'[t].blocked = account.blocked
             /\ call = "unblock" =>
                  /\ accounts'[t].roles = account.roles
                  /\ q.alone => granted'[t] = {q.command}
             /\ call \in {"create", "block", "unassign", "assign", "unblock"}
PROOF
  <1> DEFINE q == requests[r]
             t == q.target
             account == accounts[t]
             call == Call(r)
             Full == [exists : {TRUE}, roles : SUBSET Roles, blocked : BOOLEAN]
  <1>1. /\ accounts' = [accounts EXCEPT ![t] = Written(r)]
        /\ granted' = [granted EXCEPT ![t] = GrantedBy(r)]
        /\ call \notin Reads /\ (account.exists # (call = "create"))
    BY DEF Write, Writable
  <1>2. q \in RequestsLeft /\ Follows(q)
    BY CallForms DEF DirectoryInv
  <1>3. t \in Accounts /\ q.command \in {"worker", "admin", "remove"}
        /\ q.removed \subseteq StaffRoles
    BY <1>2 DEF RequestsLeft
  <1>4. account \in AccountRows
    BY <1>3 DEF DirectoryInv, DirectoryTypes
  <1>5. call \in {"create", "block", "unassign", "assign", "unblock"}
    BY <1>1, CallForms DEF DirectoryInv, Reads
  <1>6. call # "create" => account \in Full
    <2>1. account = Absent => account.exists = FALSE
      BY DEF Absent
    <2>2. call # "create" => account # Absent
      BY <1>1, <2>1
    <2>3. account = Absent \/ account \in Full
      BY <1>4 DEF AccountRows
    <2> QED
      BY <2>2, <2>3
  <1>7. call # "create" => q.works
    <2> HIDE DEF q
    <2> QED
      BY <1>5, CallForms DEF DirectoryInv, q
  <1>8. call # "create" => Works(r, t)
    BY <1>7 DEF Works
  <1>9. call \in {"assign", "unblock"} => q.command # "remove"
    BY CallForms DEF DirectoryInv
  <1>10. accounts'[t] = Written(r) /\ granted'[t] = GrantedBy(r)
    BY <1>1, <1>3 DEF DirectoryInv, DirectoryTypes
  <1>11. \A s \in Accounts \ {t} : accounts'[s] = accounts[s] /\ granted'[s] = granted[s]
    BY <1>1, <1>3 DEF DirectoryInv, DirectoryTypes
  <1>12. granted[t] \in (SUBSET Roles) \cup {Unsure}
    BY <1>3 DEF DirectoryInv, DirectoryTypes
  <1>13. granted' \in [Accounts -> (SUBSET Roles) \cup {Unsure}]
         <=> GrantedBy(r) \in (SUBSET Roles) \cup {Unsure}
    BY <1>1, <1>3 DEF DirectoryInv, DirectoryTypes
  <1>14. Written(r) \in AccountRows => accounts' \in [Accounts -> AccountRows]
    BY <1>1, <1>3 DEF DirectoryInv, DirectoryTypes
  <1>15. CASE call = "create"
    <2>1. Written(r) = Account({}, TRUE) /\ GrantedBy(r) = {}
      BY <1>15 DEF Written, GrantedBy
    <2>2. Account({}, TRUE) \in Full /\ Account({}, TRUE).exists
      BY DEF Account, Roles
    <2> QED
      BY <1>1, <1>3, <1>10, <1>11, <1>13, <1>14, <1>15, <2>1, <2>2 DEF AccountRows
  <1>16. CASE call = "block"
    <2>1. Written(r) = [account EXCEPT !.blocked = TRUE]
      BY <1>16 DEF Written
    <2>2. /\ GrantedBy(r) \in {granted[t], {}}
          /\ ~q.alone => GrantedBy(r) = granted[t]
      BY <1>16 DEF GrantedBy
    <2>3. /\ Written(r) \in Full /\ Written(r).blocked
          /\ Written(r).roles = account.roles
      BY <1>6, <1>16, <2>1
    <2> QED
      BY <1>3, <1>5, <1>6, <1>7, <1>8, <1>10, <1>11, <1>12, <1>13, <1>14, <1>16, <2>2, <2>3
         DEF AccountRows
  <1>17. CASE call = "unassign"
    <2>1. Written(r) = [account EXCEPT !.roles = @ \ q.removed]
          /\ GrantedBy(r) = granted[t]
      BY <1>17 DEF Written, GrantedBy
    <2>2. /\ Written(r) \in Full /\ Written(r).blocked = account.blocked
          /\ Written(r).roles = account.roles \ q.removed
      BY <1>6, <1>17, <2>1
    <2> QED
      BY <1>3, <1>5, <1>6, <1>7, <1>8, <1>10, <1>11, <1>12, <1>13, <1>14, <1>17, <2>1, <2>2
         DEF AccountRows
  <1>18. CASE call = "assign"
    <2>1. Written(r) = [account EXCEPT !.roles = @ \cup {q.command}]
          /\ GrantedBy(r) = granted[t]
      BY <1>18 DEF Written, GrantedBy
    <2>2. q.command \in Roles
      BY <1>3, <1>9, <1>18 DEF Roles, StaffRoles
    <2>3. /\ Written(r) \in Full /\ Written(r).blocked = account.blocked
          /\ Written(r).roles = account.roles \cup {q.command}
      <3>1. account \in Full
        BY <1>6, <1>18
      <3> HIDE DEF account
      <3> QED
        BY <2>1, <2>2, <3>1
    <2> QED
      BY <1>3, <1>5, <1>6, <1>7, <1>8, <1>10, <1>11, <1>12, <1>13, <1>14, <1>18, <2>1, <2>3
         DEF AccountRows
  <1>19. CASE call = "unblock"
    <2>1. Written(r) = [account EXCEPT !.blocked = FALSE]
          /\ GrantedBy(r) = IF q.alone THEN {q.command} ELSE granted[t]
      BY <1>19 DEF Written, GrantedBy
    <2>2. {q.command} \subseteq Roles
      BY <1>3, <1>9, <1>19 DEF Roles, StaffRoles
    <2>3. Written(r) \in Full /\ Written(r).roles = account.roles
      BY <1>6, <1>19, <2>1
    <2> QED
      <3>1. GrantedBy(r) \in (SUBSET Roles) \cup {Unsure}
        BY <1>12, <2>1, <2>2
      <3>2. Written(r) \in AccountRows /\ Written(r).exists
        BY <2>3 DEF AccountRows
      <3>3. /\ q.alone => GrantedBy(r) = {q.command}
            /\ ~q.alone => GrantedBy(r) = granted[t]
        BY <2>1
      <3> QED
        BY <1>3, <1>5, <1>6, <1>7, <1>8, <1>10, <1>11, <1>13, <1>14, <1>19, <2>3, <3>1, <3>2, <3>3
  <1> QED
    BY <1>5, <1>15, <1>16, <1>17, <1>18, <1>19

\* A request that has written goes on from what it has made, or ends there, its answer lost.
LEMMA WriteKeeps ==
  ASSUME DirectoryInv, NEW r \in Requests, requests[r] # Idle, Write(r),
         NEW new \in RequestsLeft \cup {Idle}, requests' = [requests EXCEPT ![r] = new],
         \/ new = Idle
         \/ /\ new # Idle /\ Follows(new)
            /\ new.works /\ new.target = requests[r].target
            /\ new.alone <=> (Call(r) = "create" \/ requests[r].alone)
            /\ new.alone => Made(new, accounts'[requests[r].target])
  PROVE  DirectoryInv'
PROOF
  <1> DEFINE q == requests[r]
             call == Call(r)
  <1> PICK t \in Accounts : t = q.target
    BY WriteGives
  <1>1. /\ accounts' \in [Accounts -> AccountRows] /\ accounts'[t].exists
        /\ \A s \in Accounts \ {t} : accounts'[s] = accounts[s] /\ granted'[s] = granted[s]
        /\ granted' \in [Accounts -> (SUBSET Roles) \cup {Unsure}]
        /\ call = "create" => ~accounts[t].exists
        /\ call # "create" => Works(r, t) /\ (~q.alone => granted'[t] = granted[t])
    BY WriteGives
  <1>2. requests'[r] = new /\ \A p \in Requests \ {r} : requests'[p] = requests[p]
    BY DEF DirectoryInv, DirectoryTypes
  <1>3. DirectoryTypes'
    BY <1>1, <1>2 DEF DirectoryInv, DirectoryTypes
  <1>4. \A p \in Requests \ {r}, s \in Accounts : Works(p, s)' <=> Works(p, s)
    BY <1>2 DEF Works
  <1>5. \A s \in Accounts : Works(r, s)' =>
          /\ s = t /\ new # Idle /\ requests'[r].alone = new.alone
    BY <1>2 DEF Works
  <1>6. ASSUME NEW p \in Requests \ {r}, Works(p, t)
        PROVE  /\ call # "create" /\ ~q.alone /\ ~requests[p].alone
               /\ granted'[t] = Unsure
    <2>1. accounts[t].exists
      BY <1>6 DEF DirectoryInv, WorksRightly
    <2>2. Works(r, t)
      BY <1>1, <2>1
    <2>3. ~q.alone
      BY <1>6, <2>2 DEF DirectoryInv, WorksRightly
    <2>4. ~requests[p].alone
      BY <1>6, <2>2 DEF DirectoryInv, WorksRightly
    <2>5. granted[t] = Unsure
      BY <1>6, <2>4 DEF DirectoryInv, WorksRightly
    <2> QED
      BY <1>1, <2>1, <2>3, <2>4, <2>5
  <1>7. ASSUME NEW p \in Requests \ {r} PROVE WorksRightly(p)' /\ MadeRightly(p)'
    <2>1. ASSUME NEW s \in Accounts, Works(p, s)'
          PROVE  /\ accounts'[s].exists
                 /\ IF requests'[p].alone THEN \A o \in Requests \ {p} : ~Works(o, s)'
                    ELSE granted'[s] = Unsure
      <3>1. Works(p, s) /\ requests'[p] = requests[p]
        BY <1>2, <1>4, <2>1
      <3>2. /\ accounts[s].exists
            /\ IF requests[p].alone THEN \A o \in Requests \ {p} : ~Works(o, s)
               ELSE granted[s] = Unsure
        BY <3>1 DEF DirectoryInv, WorksRightly
      <3>3. CASE s = t
        BY <1>1, <1>6, <3>1, <3>3
      <3>4. CASE s # t
        BY <1>1, <1>4, <1>5, <3>1, <3>2, <3>4
      <3> QED
        BY <3>3, <3>4
    <2>2. ASSUME NEW s \in Accounts, Works(p, s)', requests'[p].alone
          PROVE  Made(requests'[p], accounts'[s])
      <3>1. Works(p, s) /\ requests'[p] = requests[p]
        BY <1>2, <1>4, <2>2
      <3>2. s # t
        BY <1>6, <2>2, <3>1
      <3>3. Made(requests[p], accounts[s])
        BY <2>2, <3>1 DEF DirectoryInv, MadeRightly
      <3> QED
        BY <1>1, <3>1, <3>2, <3>3
    <2>3. WorksRightly(p)'
      BY <2>1 DEF WorksRightly
    <2>4. MadeRightly(p)'
      BY <2>2 DEF MadeRightly
    <2> QED
      BY <2>3, <2>4
  <1>8. WorksRightly(r)'
    <2>1. ASSUME NEW s \in Accounts, Works(r, s)'
          PROVE  /\ accounts'[s].exists
                 /\ IF requests'[r].alone THEN \A o \in Requests \ {r} : ~Works(o, s)'
                    ELSE granted'[s] = Unsure
      <3>1. s = t /\ new # Idle /\ requests'[r].alone = new.alone
        BY <1>5, <2>1
      <3>2. new.alone <=> (call = "create" \/ q.alone)
        BY <3>1
      <3>3. CASE new.alone
        BY <1>1, <1>4, <1>6, <3>1, <3>2, <3>3
      <3>4. CASE ~new.alone
        <4>1. Works(r, t) /\ ~q.alone /\ granted'[t] = granted[t]
          BY <1>1, <3>2, <3>4
        <4>2. granted[t] = Unsure
          BY <4>1 DEF DirectoryInv, WorksRightly
        <4> QED
          BY <1>1, <3>1, <3>4, <4>1, <4>2
      <3> QED
        BY <3>3, <3>4
    <2> QED
      BY <2>1 DEF WorksRightly
  <1>9. MadeRightly(r)'
    <2>1. ASSUME NEW s \in Accounts, Works(r, s)', requests'[r].alone
          PROVE  Made(requests'[r], accounts'[s])
      <3>1. s = t /\ new # Idle /\ requests'[r].alone = new.alone
        BY <1>5, <2>1
      <3> QED
        BY <1>2, <2>1, <3>1
    <2> QED
      BY <2>1 DEF MadeRightly
  <1>10. AccessIsAsGranted'
    <2> SUFFICES ASSUME NEW s \in Accounts, accounts'[s].exists, ~accounts'[s].blocked,
                        granted'[s] # Unsure
                 PROVE  accounts'[s].roles = granted'[s]
      BY DEF AccessIsAsGranted
    <2>1. CASE s # t
      BY <1>1, <2>1 DEF DirectoryInv, AccessIsAsGranted
    <2>2. CASE s = t
      <3>1. call \notin {"create", "block"}
        <4>1. Account({}, TRUE).blocked
          BY DEF Account
        <4>2. call = "create" => accounts'[t] = Account({}, TRUE)
          BY WriteGives
        <4>3. call = "block" => accounts'[t].blocked
          BY WriteGives
        <4> QED
          BY <2>2, <4>1, <4>2, <4>3
      <3>2. Works(r, t) /\ q.alone
        <4>1. Works(r, t)
          BY <1>1, <3>1
        <4>2. ~q.alone => granted[t] = Unsure
          BY <4>1 DEF DirectoryInv, WorksRightly
        <4> QED
          BY <1>1, <2>2, <3>1, <4>1, <4>2
      <3>3. Made(q, accounts[t])
        BY <3>2 DEF DirectoryInv, MadeRightly
      <3>4. call \in {"unassign", "assign"} => accounts[t].blocked
        BY <3>3, CallForms DEF Made, Granting, DirectoryInv
      <3>5. call = "unblock"
        BY <2>2, <3>1, <3>4, WriteGives
      <3>6. q.calls = <<"unblock">>
        BY <3>5, CallForms DEF DirectoryInv
      <3>7. accounts[t].roles = {q.command}
        BY <3>3, <3>6 DEF Made, Granting
      <3> QED
        BY <2>2, <3>2, <3>5, <3>7, WriteGives
    <2> QED
      BY <2>1, <2>2
  <1> QED
    BY <1>3, <1>7, <1>8, <1>9, <1>10 DEF DirectoryInv

\* The next calls of a request follow the one whose write was made.
LEMMA MakeWriteKeeps ==
  ASSUME DirectoryInv, NEW r \in Requests, MakeWrite(r)
  PROVE  DirectoryInv'
PROOF
  <1> DEFINE q == requests[r]
             call == Call(r)
             t == q.target
             gone == IF call = "create" THEN [q EXCEPT !.works = TRUE, !.alone = TRUE] ELSE q
             left == Tail(q.calls)
             new == [gone EXCEPT !.calls = left, !.attempt = 0]
  <1>1. q # Idle /\ Write(r) /\ GoOn(r, gone)
    BY DEF MakeWrite, Answered, Turn
  <1>2. q \in RequestsLeft /\ Follows(q)
    BY <1>1, CallForms DEF DirectoryInv
  <1>3. /\ gone \in RequestsLeft /\ gone.calls = q.calls /\ gone.target = t
        /\ gone.command = q.command /\ gone.removed = q.removed /\ gone.adds = q.adds
        /\ call = "create" => gone.works /\ gone.alone
        /\ call # "create" => gone = q
    BY <1>2 DEF RequestsLeft
  <1> HIDE DEF gone
  <1>4. requests' = [requests EXCEPT ![r] = Following(gone)]
    BY <1>1 DEF GoOn
  <1>5. CASE left = <<>>
    <2>1. Following(gone) = Idle
      BY <1>3, <1>5, FollowingGives
    <2> QED
      BY <1>1, <1>4, <2>1, WriteKeeps
  <1>6. CASE left # <<>>
    <2>1. /\ t \in Accounts /\ call \in {"create", "block", "unassign", "assign", "unblock"}
          /\ call # "create" => q.works /\ accounts[t].roles \in SUBSET Roles
      BY <1>1, WriteGives
    <2>2. /\ call = "create" => left = <<"assign", "unblock">> /\ q.adds
          /\ call = "block" => /\ q.command # "remove"
                               /\ IF q.removed = {} THEN left = <<"assign", "unblock">>
                                  ELSE left = <<"unassign", "assign", "unblock">>
          /\ call = "unassign" => left = <<"assign", "unblock">>
          /\ call = "assign" => left = <<"unblock">>
          /\ call # "unblock"
      BY <1>1, <1>6, CallForms, FirstCalls, AddingCalls, BlockingCalls, GrantingCalls
         DEF DirectoryInv
    <2>3. left \in Granting /\ left \in Plans
      BY <2>1, <2>2 DEF Granting, Plans
    <2>4. Following(gone) = new
      BY <1>3, <1>6, FollowingGives
    <2>5. /\ new \in RequestsLeft /\ new.calls = left /\ new.works = gone.works
          /\ new.alone = gone.alone /\ new.target = t /\ new.adds = q.adds
          /\ new.command = q.command /\ new.removed = q.removed
      BY <1>3, <2>3 DEF RequestsLeft
    <2> HIDE DEF new, left
    <2>6. new.works /\ (new.alone <=> (call = "create" \/ q.alone))
      BY <1>3, <2>1, <2>5
    <2>7. q.command # "remove"
      BY <1>1, <1>2, <2>1, <2>2, CallForms DEF Follows, DirectoryInv
    <2>8. Follows(new)
      BY <2>3, <2>5, <2>6, <2>7 DEF Follows
    <2>9. ASSUME new.alone PROVE Made(new, accounts'[t])
      <3>1. new.calls \notin Blocking(new.removed)
        BY <2>3, <2>5 DEF Granting, Blocking
      <3>2. CASE call = "create"
        <4>1. accounts'[t].roles = {} /\ accounts'[t].blocked
          <5>1. accounts'[t] = Account({}, TRUE)
            BY <1>1, <3>2, WriteGives
          <5> QED
            BY <5>1 DEF Account
        <4> QED
          BY <2>2, <2>5, <3>1, <3>2, <4>1 DEF Made
      <3>3. CASE call # "create"
        <4>1. Made(q, accounts[t])
          BY <1>1, <2>1, <2>6, <2>9, <3>3 DEF DirectoryInv, MadeRightly, Works
        <4>2. CASE call = "block"
          <5>1. q.calls \in Blocking(q.removed)
            BY <1>1, <2>7, <4>2, CallForms DEF DirectoryInv, Blocking
          <5>2. q.removed = accounts[t].roles \ {q.command}
            BY <4>1, <5>1 DEF Made
          <5>3. accounts'[t].roles = accounts[t].roles /\ accounts'[t].blocked
            BY <1>1, <4>2, WriteGives
          <5>4. accounts'[t].blocked /\ new.removed = accounts'[t].roles \ {new.command}
            BY <2>5, <5>2, <5>3
          <5>5. /\ new.calls = <<"assign", "unblock">> => new.removed = {}
                /\ new.calls # <<"unblock">>
            BY <2>2, <2>5, <4>2
          <5>6. new.removed = {} => accounts'[t].roles \subseteq {new.command}
            BY <5>4
          <5> QED
            BY <3>1, <5>4, <5>5, <5>6 DEF Made
        <4>3. CASE call = "unassign"
          <5>1. q.calls = <<"unassign", "assign", "unblock">>
            BY <1>1, <4>3, CallForms DEF DirectoryInv
          <5>2. accounts[t].blocked /\ q.removed = accounts[t].roles \ {q.command}
            BY <4>1, <5>1 DEF Made, Granting
          <5>3. accounts'[t].roles = accounts[t].roles \ q.removed /\ accounts'[t].blocked
            BY <1>1, <4>3, <5>2, WriteGives
          <5>4. accounts'[t].roles \subseteq {new.command}
            BY <2>5, <5>2, <5>3
          <5> QED
            BY <2>2, <2>5, <3>1, <4>3, <5>3, <5>4 DEF Made
        <4>4. CASE call = "assign"
          <5>1. q.calls = <<"assign", "unblock">>
            BY <1>1, <4>4, CallForms DEF DirectoryInv
          <5>2. accounts[t].blocked /\ accounts[t].roles \subseteq {q.command}
            BY <4>1, <5>1 DEF Made, Granting
          <5>3. accounts'[t].roles = accounts[t].roles \cup {q.command} /\ accounts'[t].blocked
            BY <1>1, <4>4, <5>2, WriteGives
          <5>4. accounts'[t].roles = {new.command}
            BY <2>5, <5>2, <5>3
          <5> QED
            BY <2>2, <2>5, <3>1, <4>4, <5>3, <5>4 DEF Made
        <4> QED
          BY <2>1, <2>2, <3>3, <4>2, <4>3, <4>4
      <3> QED
        BY <3>2, <3>3
    <2>10. new # Idle
      BY <2>5, CallsLeft
    <2> QED
      BY <1>1, <1>4, <2>4, <2>5, <2>6, <2>8, <2>9, <2>10, WriteKeeps
  <1> QED
    BY <1>5, <1>6

\* A call that fails ends its request, its write made or not.
LEMMA CallFailsKeeps ==
  ASSUME DirectoryInv, NEW r \in Requests, CallFails(r)
  PROVE  DirectoryInv'
PROOF
  <1>1. /\ requests[r] # Idle /\ Stop(r)
        /\ Write(r) \/ UNCHANGED <<accounts, granted>>
    BY DEF CallFails, Turn
  <1>2. CASE Write(r)
    BY <1>1, <1>2, WriteKeeps DEF Stop
  <1>3. CASE UNCHANGED <<accounts, granted>>
    BY <1>1, <1>3, StopKeeps
  <1> QED
    BY <1>1, <1>2, <1>3

\* A request told to wait makes its call again, or ends.
LEMMA RateLimitedKeeps ==
  ASSUME DirectoryInv, NEW r \in Requests, RateLimited(r)
  PROVE  DirectoryInv'
PROOF
  <1> DEFINE q == requests[r]
             new == [q EXCEPT !.attempt = @ + 1]
  <1>1. /\ q # Idle /\ UNCHANGED <<accounts, granted>>
        /\ requests' = [requests EXCEPT ![r] = new] \/ Stop(r)
    BY DEF RateLimited, Turn
  <1>2. q \in RequestsLeft /\ Follows(q)
    BY <1>1, CallForms DEF DirectoryInv
  <1>3. CASE requests' = [requests EXCEPT ![r] = new]
    <2>1. /\ new \in RequestsLeft /\ new.calls = q.calls /\ new.works = q.works
          /\ new.alone = q.alone /\ new.target = q.target /\ new.adds = q.adds
          /\ new.command = q.command /\ new.removed = q.removed
      BY <1>2 DEF RequestsLeft
    <2> HIDE DEF new
    <2>2. new # Idle /\ Follows(new)
      BY <1>2, <2>1, CallsLeft DEF Follows
    <2>3. ASSUME new.works
          PROVE  Works(r, new.target) /\ (new.alone => Made(new, accounts[new.target]))
      <3>1. Works(r, q.target) /\ q.target \in Accounts
        BY <1>1, <1>2, <2>1, <2>3 DEF Works, RequestsLeft
      <3>2. q.alone => Made(q, accounts[q.target])
        BY <3>1 DEF DirectoryInv, MadeRightly
      <3> QED
        BY <2>1, <3>1, <3>2 DEF Made
    <2> QED
      BY <1>1, <1>3, <2>1, <2>2, <2>3, RequestMoves
  <1>4. CASE Stop(r)
    BY <1>1, <1>4, StopKeeps
  <1> QED
    BY <1>1, <1>3, <1>4

\* An owner appointed outside the program leaves unsure what the account was granted, and
\* nobody alone with it.
LEMMA AppointOwnerKeeps ==
  ASSUME DirectoryInv, NEW t \in Accounts, AppointOwner(t)
  PROVE  DirectoryInv'
PROOF
  <1> DEFINE appointed == [accounts[t] EXCEPT !.roles = @ \cup {"owner"}]
  <1>1. /\ accounts[t].exists /\ accounts' = [accounts EXCEPT ![t] = appointed]
        /\ granted' = [granted EXCEPT ![t] = Unsure]
        /\ requests' = [r \in Requests |-> IF Works(r, t)
                          THEN [requests[r] EXCEPT !.alone = FALSE] ELSE requests[r]]
    BY DEF AppointOwner
  <1>2. appointed \in AccountRows /\ appointed.exists
    <2>1. accounts[t] \in AccountRows /\ accounts[t] # Absent
      BY <1>1 DEF DirectoryInv, DirectoryTypes, Absent
    <2>2. accounts[t] \in [exists : {TRUE}, roles : SUBSET Roles, blocked : BOOLEAN]
      BY <2>1 DEF AccountRows
    <2> QED
      BY <2>2 DEF AccountRows, Roles
  <1> HIDE DEF appointed
  <1>3. /\ accounts'[t].exists /\ granted'[t] = Unsure
        /\ \A s \in Accounts \ {t} : accounts'[s] = accounts[s] /\ granted'[s] = granted[s]
    BY <1>1, <1>2 DEF DirectoryInv, DirectoryTypes
  <1>4. ASSUME NEW r \in Requests
        PROVE  /\ requests'[r] \in RequestsLeft \cup {Idle}
               /\ requests'[r] # Idle => Follows(requests'[r])
               /\ \A s \in Accounts : Works(r, s)' <=> Works(r, s)
               /\ Works(r, t) => ~requests'[r].alone
               /\ ~Works(r, t) => requests'[r] = requests[r]
    <2>1. CASE Works(r, t)
      <3>1. requests[r] \in RequestsLeft /\ Follows(requests[r]) /\ requests[r] # Idle
        BY <2>1 DEF Works, DirectoryInv, DirectoryTypes
      <3>2. requests'[r] = [requests[r] EXCEPT !.alone = FALSE]
        BY <1>1, <2>1
      <3>3. /\ requests'[r] \in RequestsLeft /\ requests'[r].calls = requests[r].calls
            /\ requests'[r].works = requests[r].works /\ requests'[r].target = requests[r].target
            /\ requests'[r].command = requests[r].command /\ requests'[r].adds = requests[r].adds
            /\ requests'[r].removed = requests[r].removed /\ ~requests'[r].alone
        BY <3>1, <3>2 DEF RequestsLeft
      <3>4. requests'[r] # Idle
        BY <3>3, CallsLeft
      <3>5. Follows(requests'[r])
        BY <3>1, <3>3 DEF Follows
      <3>6. \A s \in Accounts : Works(r, s)' <=> Works(r, s)
        BY <3>1, <3>3, <3>4 DEF Works
      <3> QED
        BY <2>1, <3>3, <3>5, <3>6
    <2>2. CASE ~Works(r, t)
      <3>1. requests'[r] = requests[r]
        BY <1>1, <2>2
      <3>2. \A s \in Accounts : Works(r, s)' <=> Works(r, s)
        BY <3>1 DEF Works
      <3> QED
        BY <2>2, <3>1, <3>2 DEF DirectoryInv, DirectoryTypes
    <2> QED
      BY <2>1, <2>2
  <1>5. DirectoryTypes'
    <2>1. requests' \in [Requests -> RequestsLeft \cup {Idle}]
      BY <1>1, <1>4
    <2>2. accounts' \in [Accounts -> AccountRows]
      BY <1>1, <1>2 DEF DirectoryInv, DirectoryTypes
    <2>3. granted' \in [Accounts -> (SUBSET Roles) \cup {Unsure}]
      BY <1>1 DEF DirectoryInv, DirectoryTypes
    <2> QED
      BY <1>4, <2>1, <2>2, <2>3 DEF DirectoryTypes
  <1>6. ASSUME NEW r \in Requests, NEW s \in Accounts, Works(r, s)'
        PROVE  /\ Works(r, s)
               /\ s = t => ~requests'[r].alone
               /\ s # t => requests'[r] = requests[r]
    <2>1. Works(r, s)
      BY <1>4, <1>6
    <2>2. s # t => ~Works(r, t)
      BY <2>1 DEF Works
    <2> QED
      BY <1>4, <2>1, <2>2
  <1>7. ASSUME NEW r \in Requests PROVE WorksRightly(r)'
    <2>1. ASSUME NEW s \in Accounts, Works(r, s)'
          PROVE  /\ accounts'[s].exists
                 /\ IF requests'[r].alone THEN \A q \in Requests \ {r} : ~Works(q, s)'
                    ELSE granted'[s] = Unsure
      <3>1. Works(r, s)
        BY <1>6, <2>1
      <3>2. /\ accounts[s].exists
            /\ IF requests[r].alone THEN \A q \in Requests \ {r} : ~Works(q, s)
               ELSE granted[s] = Unsure
        BY <3>1 DEF DirectoryInv, WorksRightly
      <3>3. CASE s = t
        BY <1>3, <1>6, <2>1, <3>3
      <3>4. CASE s # t
        BY <1>3, <1>4, <1>6, <2>1, <3>2, <3>4
      <3> QED
        BY <3>3, <3>4
    <2> QED
      BY <2>1 DEF WorksRightly
  <1>8. ASSUME NEW r \in Requests PROVE MadeRightly(r)'
    <2>1. ASSUME NEW s \in Accounts, Works(r, s)', requests'[r].alone
          PROVE  Made(requests'[r], accounts'[s])
      <3>1. Works(r, s) /\ s # t /\ requests'[r] = requests[r]
        BY <1>6, <2>1
      <3>2. Made(requests[r], accounts[s])
        BY <2>1, <3>1 DEF DirectoryInv, MadeRightly
      <3> QED
        BY <1>3, <3>1, <3>2
    <2> QED
      BY <2>1 DEF MadeRightly
  <1>9. AccessIsAsGranted'
    BY <1>3 DEF DirectoryInv, AccessIsAsGranted
  <1> QED
    BY <1>5, <1>7, <1>8, <1>9 DEF DirectoryInv

LEMMA DirectoryNext ==
  DirectoryAssumption /\ DirectoryInv /\ [WDNext]_directoryVars => DirectoryInv'
PROOF
  <1> SUFFICES ASSUME DirectoryAssumption, DirectoryInv, [WDNext]_directoryVars
               PROVE  DirectoryInv'
    OBVIOUS
  <1>1. ASSUME NEW r \in Requests, NEW i \in Instances, NEW task \in Tasks,
               Begin(r, i, task)
        PROVE  DirectoryInv'
    BY <1>1, BeginKeeps
  <1>2. ASSUME NEW r \in Requests, Proceed(r)
        PROVE  DirectoryInv'
    <2>1. ASSUME RefuseCreate(r) \/ FailClosed(r) PROVE DirectoryInv'
      BY <2>1, StopKeeps DEF RefuseCreate, FailClosed
    <2> QED
      BY <1>2, <2>1, ReadActorKeeps, ReadActorRolesKeeps, ReadRolesKeeps, ReadRoleIdKeeps,
         MakeWriteKeeps DEF Proceed
  <1>3. ASSUME NEW r \in Requests, CallFails(r) \/ RateLimited(r)
        PROVE  DirectoryInv'
    BY <1>3, CallFailsKeeps, RateLimitedKeeps
  <1>4. ASSUME UNCHANGED <<accounts, requests, granted>>
        PROVE  DirectoryInv'
    BY <1>4 DEF DirectoryInv, DirectoryTypes, WorksRightly, MadeRightly, Works,
                AccessIsAsGranted
  <1>5. ASSUME NEW i \in Instances, WaitShrinks(i)
        PROVE  DirectoryInv'
    BY <1>4, <1>5 DEF WaitShrinks
  <1>6. ASSUME NEW t \in Accounts, AppointOwner(t)
        PROVE  DirectoryInv'
    BY <1>6, AppointOwnerKeeps
  <1>7. CASE UNCHANGED directoryVars
    BY <1>4, <1>7 DEF directoryVars
  <1> QED
    BY <1>1, <1>2, <1>3, <1>5, <1>6, <1>7 DEF WDNext

\* Wherever a call fails and however requests interleave, an account that can be used has the
\* role last granted it by a command that was alone with it, and no other.
THEOREM AccessIsGranted ==
  ASSUME DirectoryAssumption
  PROVE  WDSpec => []AccessIsAsGranted
PROOF
  <1>1. DirectoryInv => AccessIsAsGranted
    BY DEF DirectoryInv
  <1> QED
    BY <1>1, DirectoryInit, DirectoryNext, PTL DEF WDSpec

\* No request takes an owner's role away: one appointed while a request is at work on the
\* account keeps it, since the request unassigns only the ordinary roles it had read.
THEOREM OwnersStayOwners ==
  ASSUME DirectoryAssumption
  PROVE  WDSpec => OwnersKeepTheirRole
PROOF
  <1> DEFINE OwnersKept == \A t \in Accounts :
               accounts[t].exists /\ "owner" \in accounts[t].roles => "owner" \in accounts'[t].roles
  <1>1. DirectoryInv /\ [WDNext]_directoryVars => [OwnersKept]_directoryVars
    <2> SUFFICES ASSUME DirectoryInv, WDNext PROVE OwnersKept
      OBVIOUS
    <2>1. ASSUME UNCHANGED accounts PROVE OwnersKept
      BY <2>1
    <2>2. ASSUME NEW r \in Requests, requests[r] # Idle, Write(r) PROVE OwnersKept
      <3> DEFINE q == requests[r]
                 call == Call(r)
      <3>1. PICK t \in Accounts : t = q.target
        BY <2>2, WriteGives
      <3>2. \A s \in Accounts \ {t} : accounts'[s] = accounts[s]
        BY <2>2, <3>1, WriteGives
      <3>3. "owner" \notin q.removed
        BY <2>2, CallForms DEF DirectoryInv, RequestsLeft, StaffRoles
      <3>4. accounts[t].exists /\ "owner" \in accounts[t].roles => "owner" \in accounts'[t].roles
        <4>1. /\ call = "create" => ~accounts[t].exists
              /\ call = "block" => accounts'[t].roles = accounts[t].roles
              /\ call = "unassign" => accounts'[t].roles = accounts[t].roles \ q.removed
              /\ call = "assign" => accounts'[t].roles = accounts[t].roles \cup {q.command}
              /\ call = "unblock" => accounts'[t].roles = accounts[t].roles
              /\ call \in {"create", "block", "unassign", "assign", "unblock"}
          BY <2>2, <3>1, WriteGives
        <4> QED
          BY <3>3, <4>1
      <3> QED
        BY <3>2, <3>4
    <2>3. ASSUME NEW t \in Accounts, AppointOwner(t) PROVE OwnersKept
      <3>1. accounts' = [accounts EXCEPT ![t] = [accounts[t] EXCEPT !.roles = @ \cup {"owner"}]]
            /\ accounts[t].exists
        BY <2>3 DEF AppointOwner
      <3>2. accounts[t] \in [exists : {TRUE}, roles : SUBSET Roles, blocked : BOOLEAN]
        <4>1. accounts[t] \in AccountRows /\ accounts[t] # Absent
          BY <3>1 DEF DirectoryInv, DirectoryTypes, Absent
        <4> QED
          BY <4>1 DEF AccountRows
      <3>3. "owner" \in accounts'[t].roles /\ \A s \in Accounts \ {t} : accounts'[s] = accounts[s]
        BY <3>1, <3>2 DEF DirectoryInv, DirectoryTypes
      <3> QED
        BY <3>3
    <2>4. ASSUME NEW r \in Requests, Proceed(r) PROVE OwnersKept
      <3>1. requests[r] # Idle /\ (Write(r) \/ UNCHANGED accounts)
        BY <2>4 DEF Proceed, ReadActor, ReadActorRoles,
                    ReadRoles, ReadRoleId, MakeWrite,
                    RefuseCreate, FailClosed, Answered, Turn
      <3> QED
        BY <2>1, <2>2, <3>1
    <2>5. ASSUME NEW r \in Requests, CallFails(r) PROVE OwnersKept
      BY <2>1, <2>2, <2>5 DEF CallFails, Turn
    <2>6. ASSUME NEW r \in Requests, RateLimited(r) PROVE OwnersKept
      BY <2>1, <2>6 DEF RateLimited
    <2>7. ASSUME NEW r \in Requests, NEW i \in Instances, NEW task \in Tasks,
                 Begin(r, i, task)
          PROVE  OwnersKept
      BY <2>1, <2>7 DEF Begin
    <2>8. ASSUME NEW i \in Instances, WaitShrinks(i) PROVE OwnersKept
      BY <2>1, <2>8 DEF WaitShrinks
    <2> QED
      BY <2>3, <2>4, <2>5, <2>6, <2>7, <2>8 DEF WDNext
  <1>2. OwnersKeepTheirRole <=> [][OwnersKept]_directoryVars
    BY DEF OwnersKeepTheirRole
  <1> QED
    BY <1>1, <1>2, DirectoryInit, DirectoryNext, PTL DEF WDSpec

\* An instance's queue holds the requests it has not finished, each of them once.
UnfinishedOf(i) == {r \in Requests : requests[r] # Idle /\ requests[r].instance = i}

QueuesInv ==
  /\ queues \in [Instances -> Seq(Requests)]
  /\ \A r \in Requests : requests[r] # Idle => requests[r].instance \in Instances
  /\ \A i \in Instances : IsInjective(queues[i]) /\ Range(queues[i]) = UnfinishedOf(i)

LEMMA QueuesHold ==
  QueuesInv => QueuesHoldTheUnfinished
PROOF
  <1> SUFFICES ASSUME QueuesInv PROVE QueuesHoldTheUnfinished
    OBVIOUS
  <1>1. ASSUME NEW i \in Instances, NEW k \in DOMAIN queues[i]
        PROVE  LET r == queues[i][k] IN r \in Requests /\ requests[r] # Idle /\ requests[r].instance = i
    <2>1. queues[i][k] \in Range(queues[i])
      BY DEF Range
    <2> QED
      BY <2>1 DEF QueuesInv, UnfinishedOf
  <1>2. ASSUME NEW r \in Requests, requests[r] # Idle
        PROVE  \E k \in DOMAIN queues[requests[r].instance] : queues[requests[r].instance][k] = r
    <2>1. r \in Range(queues[requests[r].instance])
      BY <1>2 DEF QueuesInv, UnfinishedOf
    <2> QED
      BY <2>1 DEF Range
  <1> QED
    BY <1>1, <1>2 DEF QueuesHoldTheUnfinished, QueuesInv

\* A queue whose head has left.
LEMMA HeadLeaves ==
  ASSUME NEW S, NEW s \in Seq(S), IsInjective(s), s # <<>>
  PROVE  /\ Tail(s) \in Seq(S) /\ IsInjective(Tail(s))
         /\ Range(Tail(s)) = Range(s) \ {Head(s)}
PROOF
  <1>1. /\ Tail(s) \in Seq(S) /\ IsInjective(Tail(s))
        /\ \A i \in DOMAIN Tail(s) : Tail(s)[i] # Head(s) /\ \E j \in DOMAIN s : s[j] = Tail(s)[i]
    BY TailOfWaiting
  <1>2. ASSUME NEW j \in DOMAIN s, s[j] # Head(s)
        PROVE  \E i \in DOMAIN Tail(s) : Tail(s)[i] = s[j]
    <2>1. /\ Len(Tail(s)) = Len(s) - 1
          /\ \A i \in 1..Len(Tail(s)) : Tail(s)[i] = s[i + 1]
      BY HeadTailProperties
    <2>2. /\ Len(s) \in Nat /\ DOMAIN s = 1..Len(s) /\ Head(s) = s[1]
          /\ DOMAIN Tail(s) = 1..Len(Tail(s))
      BY <1>1, LenProperties
    <2>3. j \in 2..Len(s)
      BY <1>2, <2>2
    <2>4. j - 1 \in DOMAIN Tail(s) /\ (j - 1) + 1 = j
      BY <2>1, <2>2, <2>3
    <2>5. Tail(s)[j - 1] = s[j]
      BY <2>1, <2>2, <2>4
    <2> QED
      BY <2>4, <2>5
  <1>3. \A x : x \in Range(Tail(s)) <=> x \in Range(s) \ {Head(s)}
    BY <1>1, <1>2 DEF Range
  <1> QED
    BY <1>1, <1>3

\* A queue that a request has joined which was not in it.
LEMMA OneJoins ==
  ASSUME NEW S, NEW s \in Seq(S), NEW x \in S, IsInjective(s), x \notin Range(s)
  PROVE  /\ Append(s, x) \in Seq(S) /\ IsInjective(Append(s, x))
         /\ Range(Append(s, x)) = Range(s) \cup {x}
PROOF
  <1> DEFINE both == Append(s, x)
  <1>1. /\ both \in Seq(S) /\ Len(both) = Len(s) + 1
        /\ \A i \in 1..Len(s) : both[i] = s[i]
        /\ both[Len(s) + 1] = x
    BY AppendProperties
  <1> HIDE DEF both
  <1>2. Len(s) \in Nat /\ DOMAIN s = 1..Len(s) /\ DOMAIN both = 1..Len(s) + 1
    BY <1>1, LenProperties
  <1>3. \A i \in DOMAIN s : i \in DOMAIN both /\ both[i] = s[i] /\ both[i] # x
    BY <1>1, <1>2 DEF Range
  <1>4. \A i \in DOMAIN both : i \in DOMAIN s \/ (i = Len(s) + 1 /\ both[i] = x)
    BY <1>1, <1>2
  <1>5. IsInjective(both)
    <2> SUFFICES ASSUME NEW i \in DOMAIN both, NEW j \in DOMAIN both, both[i] = both[j]
                 PROVE  i = j
      BY DEF IsInjective
    <2>1. CASE i \in DOMAIN s /\ j \in DOMAIN s
      BY <1>3, <2>1 DEF IsInjective
    <2>2. CASE ~(i \in DOMAIN s /\ j \in DOMAIN s)
      BY <1>3, <1>4, <2>2
    <2> QED
      BY <2>1, <2>2
  <1>6. Len(s) + 1 \in DOMAIN both
    BY <1>2
  <1>7. \A y : y \in Range(both) <=> y \in Range(s) \/ y = x
    BY <1>1, <1>3, <1>4, <1>6 DEF Range
  <1> QED
    BY <1>1, <1>5, <1>7 DEF both

\* A request whose turn it is leaves, and joins its queue again if it goes on.
LEMMA TurnTaken ==
  ASSUME QueuesInv, NEW r \in Requests, NEW more \in BOOLEAN, Turn(r), Leave(r, more),
         requests'[r] # Idle <=> more,
         more => requests'[r].instance = requests[r].instance,
         \A p \in Requests \ {r} :
           /\ requests'[p] # Idle <=> requests[p] # Idle
           /\ requests[p] # Idle => requests'[p].instance = requests[p].instance
  PROVE  QueuesInv'
PROOF
  <1> DEFINE j == requests[r].instance
             q == queues[j]
             new == IF more THEN Append(Tail(q), r) ELSE Tail(q)
  <1>1. requests[r] # Idle /\ j \in Instances /\ Head(q) = r
    BY DEF Turn, QueuesInv
  <1>2. q \in Seq(Requests) /\ IsInjective(q) /\ r \in Range(q)
    BY <1>1 DEF QueuesInv, UnfinishedOf
  <1>3. q # <<>>
    <2>1. DOMAIN q # {}
      BY <1>2 DEF Range
    <2> QED
      BY <1>2, <2>1
  <1>4. /\ Tail(q) \in Seq(Requests) /\ IsInjective(Tail(q))
        /\ Range(Tail(q)) = Range(q) \ {r}
    BY <1>1, <1>2, <1>3, HeadLeaves
  <1>5. /\ new \in Seq(Requests) /\ IsInjective(new)
        /\ Range(new) = IF more THEN Range(q) ELSE Range(q) \ {r}
    <2>1. CASE more
      <3>1. r \notin Range(Tail(q))
        BY <1>4
      <3>2. ASSUME NEW rest \in Seq(Requests), IsInjective(rest), r \notin Range(rest)
            PROVE  /\ Append(rest, r) \in Seq(Requests) /\ IsInjective(Append(rest, r))
                   /\ Range(Append(rest, r)) = Range(rest) \cup {r}
        BY <3>2, OneJoins
      <3>3. Range(Tail(q)) \cup {r} = Range(q)
        BY <1>2, <1>4
      <3>4. new = Append(Tail(q), r)
        BY <2>1
      <3> HIDE DEF new, q
      <3> QED
        BY <1>4, <2>1, <3>1, <3>2, <3>3, <3>4
    <2>2. CASE ~more
      BY <1>4, <2>2
    <2> QED
      BY <2>1, <2>2
  <1>6. queues' = [queues EXCEPT ![j] = new]
    BY DEF Leave
  <1> HIDE DEF new
  <1>7. queues'[j] = new /\ \A i \in Instances \ {j} : queues'[i] = queues[i]
    BY <1>1, <1>6 DEF QueuesInv
  <1>8. queues' \in [Instances -> Seq(Requests)]
    BY <1>5, <1>6 DEF QueuesInv
  <1>9. \A p \in Requests : requests'[p] # Idle => requests'[p].instance \in Instances
    BY <1>1 DEF QueuesInv
  <1>10. ASSUME NEW i \in Instances PROVE IsInjective(queues'[i]) /\ Range(queues'[i]) = UnfinishedOf(i)'
    <2>1. \A p \in Requests \ {r} : p \in UnfinishedOf(i)' <=> p \in UnfinishedOf(i)
      BY DEF UnfinishedOf
    <2>2. r \in UnfinishedOf(i)' <=> more /\ i = j
      BY DEF UnfinishedOf
    <2>3. r \in UnfinishedOf(i) <=> i = j
      BY <1>1 DEF UnfinishedOf
    <2>4. UnfinishedOf(i) \subseteq Requests /\ UnfinishedOf(i)' \subseteq Requests
      BY DEF UnfinishedOf
    <2>5. IsInjective(queues[i]) /\ Range(queues[i]) = UnfinishedOf(i)
      BY DEF QueuesInv
    <2>6. CASE i = j
      <3>1. UnfinishedOf(i)' = IF more THEN UnfinishedOf(i) ELSE UnfinishedOf(i) \ {r}
        <4>1. CASE more
          <5>1. r \in UnfinishedOf(i)' /\ r \in UnfinishedOf(i)
            BY <2>2, <2>3, <2>6, <4>1
          <5>2. \A p \in Requests : p \in UnfinishedOf(i)' <=> p \in UnfinishedOf(i)
            BY <2>1, <5>1
          <5> QED
            BY <2>4, <4>1, <5>2
        <4>2. CASE ~more
          <5>1. r \notin UnfinishedOf(i)'
            BY <2>2, <4>2
          <5>2. \A p \in Requests : p \in UnfinishedOf(i)' <=> p \in UnfinishedOf(i) \ {r}
            BY <2>1, <5>1
          <5> QED
            BY <2>4, <4>2, <5>2
        <4> QED
          BY <4>1, <4>2
      <3>2. queues'[i] = new /\ queues[i] = q
        BY <1>7, <2>6
      <3> HIDE DEF q
      <3>3. IsInjective(queues'[i]) /\ Range(queues'[i]) = IF more THEN Range(q) ELSE Range(q) \ {r}
        BY <1>5, <3>2
      <3>4. Range(q) = UnfinishedOf(i)
        BY <2>5, <3>2
      <3>5. Range(queues'[i]) = UnfinishedOf(i)'
        BY <3>1, <3>3, <3>4
      <3> QED
        BY <3>3, <3>5
    <2>7. CASE i # j
      <3>1. UnfinishedOf(i)' = UnfinishedOf(i)
        <4>1. \A p : p \in UnfinishedOf(i)' <=> p \in UnfinishedOf(i)
          BY <2>1, <2>2, <2>3, <2>4, <2>7
        <4> QED
          BY <4>1
      <3> QED
        BY <1>7, <2>5, <2>7, <3>1
    <2> QED
      BY <2>6, <2>7
  <1> QED
    BY <1>8, <1>9, <1>10 DEF QueuesInv

\* One request at its turn, the others as they were.
LEMMA OneTurnTaken ==
  ASSUME DirectoryTypes, QueuesInv, NEW r \in Requests, NEW new, Turn(r),
         requests' = [requests EXCEPT ![r] = new], Leave(r, new # Idle),
         new # Idle => new.instance = requests[r].instance
  PROVE  QueuesInv'
PROOF
  <1>1. requests'[r] = new /\ \A p \in Requests \ {r} : requests'[p] = requests[p]
    BY DEF DirectoryTypes
  <1>2. (new # Idle) \in BOOLEAN
    OBVIOUS
  <1> QED
    BY <1>1, <1>2, TurnTaken

LEMMA StopTakesTurn ==
  ASSUME DirectoryTypes, QueuesInv, NEW r \in Requests, Turn(r), Stop(r)
  PROVE  QueuesInv'
PROOF
  <1>1. (Idle # Idle) = FALSE
    OBVIOUS
  <1> QED
    BY <1>1, OneTurnTaken DEF Stop

LEMMA GoOnTakesTurn ==
  ASSUME DirectoryTypes, QueuesInv, NEW r \in Requests, NEW calls, NEW q \in RequestsLeft, Turn(r),
         GoOn(r, [q EXCEPT !.calls = calls]), q.instance = requests[r].instance
  PROVE  QueuesInv'
PROOF
  <1> DEFINE gone == [q EXCEPT !.calls = calls]
             new == Following(gone)
  <1>1. new # Idle => new.instance = q.instance
    BY DEF Following, RequestsLeft
  <1>2. requests' = [requests EXCEPT ![r] = new] /\ Leave(r, new # Idle)
    BY DEF GoOn
  <1> HIDE DEF new
  <1> QED
    BY <1>1, <1>2, OneTurnTaken

\* Requests that keep their instance, and begin or end nowhere, keep the queues right.
LEMMA QueuesStay ==
  ASSUME QueuesInv, UNCHANGED queues,
         \A p \in Requests :
           /\ requests'[p] # Idle <=> requests[p] # Idle
           /\ requests[p] # Idle => requests'[p].instance = requests[p].instance
  PROVE  QueuesInv'
PROOF
  <1>1. \A i \in Instances : UnfinishedOf(i)' = UnfinishedOf(i)
    BY DEF UnfinishedOf
  <1> QED
    BY <1>1 DEF QueuesInv

LEMMA BeginJoins ==
  ASSUME DirectoryTypes, QueuesInv, NEW r \in Requests, NEW i \in Instances, NEW task \in Tasks,
         Begin(r, i, task)
  PROVE  QueuesInv'
PROOF
  <1>1. requests[r] = Idle /\ queues' = [queues EXCEPT ![i] = Append(queues[i], r)]
    BY DEF Begin
  <1>2. /\ requests'[r] # Idle /\ requests'[r].instance = i
        /\ \A p \in Requests \ {r} : requests'[p] = requests[p]
    <2> DEFINE new == [calls |-> Authorize, actor |-> task.actor, target |-> task.target,
                       command |-> task.command, adds |-> task.adds, instance |-> i, active |-> FALSE,
                       removed |-> {}, works |-> FALSE, alone |-> FALSE, attempt |-> 0]
    <2>1. requests' = [requests EXCEPT ![r] = new]
      BY DEF Begin
    <2>2. new.instance = i /\ new.calls = Authorize
      OBVIOUS
    <2>3. Authorize # <<>>
      BY DEF Authorize
    <2> HIDE DEF new
    <2>4. new # Idle
      BY <2>2, <2>3 DEF Idle
    <2> QED
      BY <2>1, <2>2, <2>4 DEF DirectoryTypes
  <1>3. queues[i] \in Seq(Requests) /\ IsInjective(queues[i]) /\ Range(queues[i]) = UnfinishedOf(i)
    BY DEF QueuesInv
  <1>4. r \notin Range(queues[i])
    BY <1>1, <1>3 DEF UnfinishedOf
  <1> DEFINE new == Append(queues[i], r)
  <1>5. new \in Seq(Requests) /\ IsInjective(new) /\ Range(new) = Range(queues[i]) \cup {r}
    BY <1>3, <1>4, OneJoins
  <1>6. queues' = [queues EXCEPT ![i] = new]
    BY <1>1
  <1> HIDE DEF new
  <1>7. /\ queues' \in [Instances -> Seq(Requests)] /\ queues'[i] = new
        /\ \A j \in Instances \ {i} : queues'[j] = queues[j]
    BY <1>5, <1>6 DEF QueuesInv
  <1>8. UnfinishedOf(i)' = UnfinishedOf(i) \cup {r}
    <2>1. \A p : p \in UnfinishedOf(i)' <=> p \in UnfinishedOf(i) \/ p = r
      BY <1>2 DEF UnfinishedOf
    <2> QED
      BY <2>1
  <1>9. \A j \in Instances \ {i} : UnfinishedOf(j)' = UnfinishedOf(j)
    <2> SUFFICES ASSUME NEW j \in Instances \ {i} PROVE UnfinishedOf(j)' = UnfinishedOf(j)
      OBVIOUS
    <2>1. \A p : p \in UnfinishedOf(j)' <=> p \in UnfinishedOf(j)
      BY <1>1, <1>2 DEF UnfinishedOf
    <2> QED
      BY <2>1
  <1>10. \A p \in Requests : requests'[p] # Idle => requests'[p].instance \in Instances
    BY <1>2 DEF QueuesInv
  <1>11. \A j \in Instances : IsInjective(queues'[j]) /\ Range(queues'[j]) = UnfinishedOf(j)'
    BY <1>3, <1>5, <1>7, <1>8, <1>9 DEF QueuesInv
  <1> QED
    BY <1>7, <1>10, <1>11 DEF QueuesInv

\* A request that has read its account goes on, and those it joins go on as before.
LEMMA ReadRolesTakesTurn ==
  ASSUME DirectoryTypes, QueuesInv, NEW r \in Requests, ReadRoles(r)
  PROVE  QueuesInv'
PROOF
  <1> DEFINE q == requests[r]
             t == q.target
             others == {p \in Requests \ {r} : Works(p, t)}
             removed == accounts[t].roles \ {q.command}
             calls == IF q.command = "remove" THEN <<"roles", "block">>
                      ELSE <<"roles">> \o RoleCalls(removed)
             working == [q EXCEPT !.calls = calls, !.removed = removed, !.works = TRUE,
                                  !.alone = others = {}]
  <1>1. /\ Turn(r) /\ q # Idle
        /\ \/ /\ requests' = [p \in Requests |->
                   CASE p = r        -> Following(working)
                     [] p \in others -> [requests[p] EXCEPT !.alone = FALSE]
                     [] OTHER        -> requests[p]]
              /\ Leave(r, TRUE)
           \/ Stop(r)
    BY DEF ReadRoles, Answered, Turn
  <1>2. CASE Stop(r)
    BY <1>1, <1>2, StopTakesTurn
  <1>3. CASE /\ requests' = [p \in Requests |->
                  CASE p = r        -> Following(working)
                    [] p \in others -> [requests[p] EXCEPT !.alone = FALSE]
                    [] OTHER        -> requests[p]]
             /\ Leave(r, TRUE)
    <2>1. q \in RequestsLeft
      BY <1>1 DEF DirectoryTypes
    <2>2. Tail(calls) # <<>>
      <3>1. /\ q.command = "remove" => Tail(calls) = <<"block">>
            /\ q.command # "remove" => Tail(calls) \in Blocking(removed)
        BY CallsJoined
      <3>2. <<"block">> # <<>>
        OBVIOUS
      <3> HIDE DEF calls, removed
      <3> QED
        BY <3>1, <3>2, CallsLeft
    <2> HIDE DEF calls, removed, others
    <2>3. Following(working) # Idle /\ Following(working).instance = q.instance
      <3> DEFINE new == [q EXCEPT !.calls = Tail(calls), !.removed = removed, !.works = TRUE,
                                  !.alone = others = {}, !.attempt = 0]
      <3>1. Following(working) = new
        BY <2>1, <2>2 DEF Following, RequestsLeft
      <3>2. new.calls = Tail(calls) /\ new.instance = q.instance
        BY <2>1 DEF RequestsLeft
      <3> HIDE DEF new
      <3> QED
        BY <2>2, <3>1, <3>2 DEF Idle
    <2> DEFINE Moved(p) == CASE p = r        -> Following(working)
                             [] p \in others -> [requests[p] EXCEPT !.alone = FALSE]
                             [] OTHER        -> requests[p]
    <2>4. requests' = [p \in Requests |-> Moved(p)]
      BY <1>3
    <2>5. ASSUME NEW p \in Requests \ {r}
          PROVE  /\ Moved(p) # Idle <=> requests[p] # Idle
                 /\ requests[p] # Idle => Moved(p).instance = requests[p].instance
      <3>1. CASE p \in others
        <4>1. requests[p] # Idle /\ requests[p] \in RequestsLeft
          BY <3>1 DEF others, Works, DirectoryTypes
        <4>2. Moved(p) = [requests[p] EXCEPT !.alone = FALSE]
          BY <3>1
        <4> HIDE DEF Moved
        <4> QED
          BY <4>1, <4>2, NoLongerAlone, CallsLeft
      <3>2. CASE p \notin others
        BY <3>2
      <3> QED
        BY <3>1, <3>2
    <2>6. Moved(r) = Following(working)
      <3>1. r \notin others
        BY DEF others
      <3> QED
        BY <3>1
    <2> HIDE DEF Moved, working
    <2>7. requests'[r] = Following(working) /\ \A p \in Requests \ {r} : requests'[p] = Moved(p)
      BY <2>4, <2>6
    <2> QED
      BY <1>1, <1>3, <2>3, <2>5, <2>7, TurnTaken
  <1> QED
    BY <1>1, <1>2, <1>3

\* A request told to wait stays at the head of its queue, or ends.
LEMMA RateLimitedWaits ==
  ASSUME DirectoryTypes, QueuesInv, NEW r \in Requests, RateLimited(r)
  PROVE  QueuesInv'
PROOF
  <1> DEFINE new == [requests[r] EXCEPT !.attempt = @ + 1]
  <1>1. /\ Turn(r) /\ requests[r] # Idle
        /\ (requests' = [requests EXCEPT ![r] = new] /\ UNCHANGED queues) \/ Stop(r)
    BY DEF RateLimited, Turn
  <1>2. CASE requests' = [requests EXCEPT ![r] = new] /\ UNCHANGED queues
    <2>1. requests[r] \in RequestsLeft
      BY <1>1 DEF DirectoryTypes
    <2>2. new \in RequestsLeft /\ new.instance = requests[r].instance
      BY <2>1 DEF RequestsLeft
    <2> HIDE DEF new
    <2>3. requests'[r] = new /\ \A p \in Requests \ {r} : requests'[p] = requests[p]
      BY <1>2 DEF DirectoryTypes
    <2> QED
      BY <1>1, <1>2, <2>2, <2>3, CallsLeft, QueuesStay
  <1>3. CASE Stop(r)
    BY <1>1, <1>3, StopTakesTurn
  <1> QED
    BY <1>1, <1>2, <1>3

LEMMA AppointOwnerStays ==
  ASSUME DirectoryTypes, QueuesInv, NEW t \in Accounts, AppointOwner(t)
  PROVE  QueuesInv'
PROOF
  <1>1. /\ requests' = [r \in Requests |->
             IF Works(r, t) THEN [requests[r] EXCEPT !.alone = FALSE] ELSE requests[r]]
        /\ UNCHANGED queues
    BY DEF AppointOwner
  <1>2. ASSUME NEW p \in Requests
        PROVE  /\ requests'[p] # Idle <=> requests[p] # Idle
               /\ requests[p] # Idle => requests'[p].instance = requests[p].instance
    <2>1. CASE Works(p, t)
      <3>1. requests[p] # Idle /\ requests[p] \in RequestsLeft
        BY <2>1 DEF Works, DirectoryTypes
      <3>2. requests'[p] = [requests[p] EXCEPT !.alone = FALSE]
        BY <1>1, <2>1
      <3> QED
        BY <3>1, <3>2, NoLongerAlone, CallsLeft
    <2>2. CASE ~Works(p, t)
      BY <1>1, <2>2
    <2> QED
      BY <2>1, <2>2
  <1> QED
    BY <1>1, <1>2, QueuesStay

LEMMA QueuesInit ==
  WDInit => QueuesInv
PROOF
  <1> SUFFICES ASSUME WDInit PROVE QueuesInv
    OBVIOUS
  <1>1. \A r \in Requests : requests[r] = Idle
    BY DEF WDInit
  <1>2. queues = [i \in Instances |-> <<>>]
    BY DEF WDInit
  <1>3. \A i \in Instances : UnfinishedOf(i) = {}
    BY <1>1 DEF UnfinishedOf
  <1>4. <<>> \in Seq(Requests) /\ IsInjective(<<>>) /\ Range(<<>>) = {}
    BY DEF IsInjective, Range
  <1> QED
    BY <1>1, <1>2, <1>3, <1>4 DEF QueuesInv

LEMMA QueuesNext ==
  DirectoryTypes /\ QueuesInv /\ [WDNext]_directoryVars => QueuesInv'
PROOF
  <1> SUFFICES ASSUME DirectoryTypes, QueuesInv, [WDNext]_directoryVars
               PROVE  QueuesInv'
    OBVIOUS
  <1>1. ASSUME NEW r \in Requests, ReadActor(r) PROVE QueuesInv'
    <2> DEFINE q == requests[r]
               active == ~accounts[q.actor].blocked
               new == [q EXCEPT !.active = active]
    <2>1. Turn(r) /\ q # Idle /\ (GoOn(r, new) \/ Stop(r))
      BY <1>1 DEF ReadActor, Answered, Turn
    <2>2. CASE GoOn(r, new)
      <3>1. q \in RequestsLeft
        BY <2>1 DEF DirectoryTypes
      <3>2. new.instance = q.instance
        BY <3>1 DEF RequestsLeft
      <3>3. Following(new) # Idle => Following(new).instance = q.instance
        BY <3>1, <3>2 DEF Following, RequestsLeft
      <3> QED
        BY <2>1, <2>2, <3>3, OneTurnTaken DEF GoOn
    <2> QED
      BY <2>1, <2>2, StopTakesTurn
  <1>2. ASSUME NEW r \in Requests, ReadActorRoles(r) PROVE QueuesInv'
    <2> DEFINE q == requests[r]
               calls == q.calls \o IF q.adds THEN AddCalls ELSE <<"roles">>
    <2>1. Turn(r) /\ q # Idle /\ (GoOn(r, [q EXCEPT !.calls = calls]) \/ Stop(r))
      BY <1>2 DEF ReadActorRoles, Answered, Turn
    <2>2. q \in RequestsLeft
      BY <2>1 DEF DirectoryTypes
    <2> HIDE DEF calls
    <2> QED
      BY <2>1, <2>2, GoOnTakesTurn, StopTakesTurn
  <1>3. ASSUME NEW r \in Requests, NEW q \in RequestsLeft, Turn(r), GoOn(r, q),
               q.instance = requests[r].instance
        PROVE  QueuesInv'
    <2>1. [q EXCEPT !.calls = q.calls] = q
      BY DEF RequestsLeft
    <2> QED
      BY <1>3, <2>1, GoOnTakesTurn
  <1>4. ASSUME NEW r \in Requests, ReadRoleId(r) PROVE QueuesInv'
    <2>1. Turn(r) /\ requests[r] # Idle /\ GoOn(r, requests[r])
      BY <1>4 DEF ReadRoleId, Answered, Turn
    <2> QED
      BY <1>3, <2>1 DEF DirectoryTypes
  <1>5. ASSUME NEW r \in Requests, MakeWrite(r) PROVE QueuesInv'
    <2> DEFINE q == requests[r]
               created == [q EXCEPT !.works = TRUE, !.alone = TRUE]
    <2>1. Turn(r) /\ q # Idle /\ (GoOn(r, created) \/ GoOn(r, q))
      BY <1>5 DEF MakeWrite, Answered, Turn
    <2>2. q \in RequestsLeft
      BY <2>1 DEF DirectoryTypes
    <2>3. created \in RequestsLeft /\ created.instance = q.instance
      BY <2>2 DEF RequestsLeft
    <2> HIDE DEF created
    <2> QED
      BY <1>3, <2>1, <2>2, <2>3
  <1>6. ASSUME NEW r \in Requests, RefuseCreate(r) \/ FailClosed(r) \/ CallFails(r)
        PROVE  QueuesInv'
    BY <1>6, StopTakesTurn DEF RefuseCreate, FailClosed, CallFails, Answered
  <1>7. ASSUME UNCHANGED <<queues, requests>> PROVE QueuesInv'
    BY <1>7, QueuesStay
  <1>8. ASSUME NEW i \in Instances, WaitShrinks(i) PROVE QueuesInv'
    BY <1>7, <1>8 DEF WaitShrinks
  <1>9. CASE UNCHANGED directoryVars
    BY <1>7, <1>9 DEF directoryVars
  <1>10. ASSUME NEW r \in Requests, Proceed(r) PROVE QueuesInv'
    BY <1>1, <1>2, <1>4, <1>5, <1>6, <1>10, ReadRolesTakesTurn DEF Proceed
  <1>11. ASSUME NEW r \in Requests, CallFails(r) \/ RateLimited(r) PROVE QueuesInv'
    BY <1>6, <1>11, RateLimitedWaits
  <1> QED
    BY <1>8, <1>9, <1>10, <1>11, BeginJoins, AppointOwnerStays DEF WDNext

\* Whatever fails, is refused or is tried again, an instance's queue holds the requests it has
\* not finished and no other, so that the one at its head has a call to make.
THEOREM QueuesHoldRequests ==
  ASSUME DirectoryAssumption
  PROVE  WDSpec => []QueuesHoldTheUnfinished
PROOF
  <1>1. DirectoryInv => DirectoryTypes
    BY DEF DirectoryInv
  <1> QED
    BY <1>1, DirectoryInit, DirectoryNext, QueuesInit, QueuesNext, QueuesHold, PTL DEF WDSpec
============================================================================
