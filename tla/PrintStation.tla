---------------------------- MODULE PrintStation ----------------------------
(***************************************************************************)
(* Name tags on their way from volunteers' phones to the one print station *)
(* of a market: a blob store holds the tags waiting, the station collects  *)
(* them every few seconds, prints them one at a time and removes each from *)
(* the store after printing it.  Requests of the station overlap, may fail *)
(* with their work done, and are forgotten when its page is.               *)
(***************************************************************************)
EXTENDS Naturals, Sequences, FiniteSets, Functions

CONSTANTS Tags,              \* the tags sent, as their ids' random parts, in order
          Lifetime,          \* jobLifetimeMs
          Timeout,           \* stationTimeoutMs
          MaxTime,           \* the bound on the clock
          MaxStationFailures \* the bound on failing requests and crashes

ASSUME StationAssumption ==
  /\ Tags \subseteq Nat /\ IsFiniteSet(Tags)
  /\ Lifetime \in Nat \ {0} /\ Timeout \in Nat \ {0}
  /\ MaxTime \in Nat /\ MaxStationFailures \in Nat

VARIABLES
  clock,
  sending,        \* the tags whose phone has found the station online
  sentAt,         \* sentAt[t]: when tag t was queued
  jobs,           \* the store: the tags waiting
  heartbeat,      \* the store: when the station last checked in
  up,             \* the station's page is open
  waiting,        \* _waiting
  printed,        \* printedIds
  collection,     \* collect, with its GET at the server
  removals,       \* the DELETEs in flight
  prints,         \* prints[t]: how often t was printed; 2 stands for more
  excused,        \* the tags known at their printing to risk another
  stationFailures \* how many requests have failed and pages crashed

phones == <<sending, sentAt>>
store  == <<jobs, heartbeat>>
page   == <<up, waiting, printed>>
paper  == <<prints, excused>>

stationVars == <<clock, phones, store, page, collection, removals, paper, stationFailures>>

Never == MaxTime + 1

NoCollection == [step |-> "idle"]

Removal(t, by) == [tag |-> t, by |-> by, step |-> "sent"]

Waiting == {waiting[i] : i \in DOMAIN waiting}

-----------------------------------------------------------------------------
(* The phones.                                                              *)

\* isStationOnline.
Online == heartbeat # Never /\ clock - heartbeat < Timeout

\* A tag is sent on only while the station checks in; otherwise the volunteer is told.
CheckStation(t) ==
  /\ Online
  /\ sentAt[t] = Never /\ t \notin sending
  /\ sending' = sending \cup {t}
  /\ UNCHANGED <<clock, sentAt, store, page, collection, removals, paper, stationFailures>>

\* The visit is read and the tag queued; or there is no such visit, or the store fails.
Enqueue(t) ==
  /\ t \in sending
  /\ sending' = sending \ {t}
  /\ \/ /\ sentAt' = [sentAt EXCEPT ![t] = clock]
        /\ jobs' = jobs \cup {t}
     \/ UNCHANGED <<sentAt, jobs>>
  /\ UNCHANGED <<clock, heartbeat, page, collection, removals, paper, stationFailures>>

-----------------------------------------------------------------------------
(* Collecting.                                                              *)

\* A collection in flight is shared.
Poll ==
  /\ up
  /\ collection = NoCollection
  /\ collection' = [step |-> "sent"]
  /\ UNCHANGED <<clock, phones, store, page, removals, paper, stationFailures>>

Heartbeat ==
  /\ collection.step = "sent"
  /\ heartbeat' = clock
  /\ collection' = [step |-> "listing"]
  /\ UNCHANGED <<clock, phones, jobs, page, removals, paper, stationFailures>>

ListKeys ==
  /\ collection.step = "listing"
  /\ collection' = [step |-> "reading", keys |-> jobs, found |-> {}]
  /\ UNCHANGED <<clock, phones, store, page, removals, paper, stationFailures>>

WorthPrinting(t) == clock - sentAt[t] < Lifetime

\* One listed key is read.  What has expired, or is gone by now, is cleared.
ReadKey(t) ==
  /\ collection.step = "reading"
  /\ t \in collection.keys
  /\ IF t \in jobs /\ WorthPrinting(t)
     THEN /\ collection' = [collection EXCEPT !.keys = @ \ {t}, !.found = @ \cup {t}]
          /\ UNCHANGED jobs
     ELSE /\ collection' = [collection EXCEPT !.keys = @ \ {t}]
          /\ jobs' = jobs \ {t}
  /\ UNCHANGED <<clock, phones, heartbeat, page, removals, paper, stationFailures>>

\* An id leads with the time, and the waiting tags list in the order of their ids.
Precedes(s, t) == sentAt[s] < sentAt[t] \/ (sentAt[s] = sentAt[t] /\ s < t)

\* Mutant: a tag the station has printed is new to it.
NotOnScreen(t) == t \notin Waiting

Fresh(t) == t \notin Waiting /\ t \notin printed

\* Mutant: what is on the station's screen is removed, printed or not.
AllOnScreen == printed \cup Waiting

\* The printed tags whose removal has not gone through.
ToRetry == printed

\* Some tags, listed in the order of their ids: there is one such list.
Listings(tags) ==
  {list \in [1..Cardinality(tags) -> tags] :
     \A i, j \in DOMAIN list : i < j => Precedes(list[i], list[j])}

\* The answer: what is new joins the waiting tags, and removals that failed are tried again.
Collect ==
  /\ collection.step = "reading" /\ collection.keys = {}
  /\ \E list \in Listings({t \in collection.found : Fresh(t)}) : waiting' = waiting \o list
  /\ removals' = removals \cup {Removal(t, "poll") : t \in ToRetry}
  /\ collection' = [step |-> "retrying"]
  /\ UNCHANGED <<clock, phones, store, up, printed, paper, stationFailures>>

\* The collection is over once its removals are answered.
EndCollection ==
  /\ collection.step = "retrying"
  /\ \A r \in removals : r.by # "poll"
  /\ collection' = NoCollection
  /\ UNCHANGED <<clock, phones, store, page, removals, paper, stationFailures>>

-----------------------------------------------------------------------------
(* Printing and removing.                                                   *)

\* The first waiting tag is printed and marked, and its removal sent.  It leaves the list, on
\* which no tag stands twice.
PrintTag ==
  /\ up
  /\ waiting # <<>>
  /\ LET t == Head(waiting)
     IN  /\ prints' = [prints EXCEPT ![t] = IF @ = 0 THEN 1 ELSE 2]
         /\ printed' = printed \cup {t}
         /\ waiting' = Tail(waiting)
         /\ removals' = removals \cup {Removal(t, "printed")}
  /\ UNCHANGED <<clock, phones, store, up, collection, excused, stationFailures>>

RemoveJob(r) ==
  /\ r.step = "sent"
  /\ jobs' = jobs \ {r.tag}
  /\ removals' = (removals \ {r})
                   \cup (IF r.by = "lost" THEN {} ELSE {[r EXCEPT !.step = "done"]})
  /\ UNCHANGED <<clock, phones, heartbeat, page, collection, paper, stationFailures>>

\* A collection that has listed the tag, or read it, has yet to be answered.
BeingCollected(t) ==
  collection.step = "reading" /\ t \in collection.keys \cup collection.found

\* The station hears that a tag is gone, and no longer keeps it in mind.
Removed(r) ==
  /\ r.step = "done"
  /\ printed' = printed \ {r.tag}
  /\ removals' = removals \ {r}
  /\ excused' = IF BeingCollected(r.tag) THEN excused \cup {r.tag} ELSE excused
  /\ UNCHANGED <<clock, phones, store, up, waiting, collection, prints, stationFailures>>

-----------------------------------------------------------------------------
(* What fails.                                                              *)

StationFailing ==
  /\ stationFailures < MaxStationFailures
  /\ stationFailures' = stationFailures + 1
  /\ UNCHANGED <<clock, phones, store>>

\* Mutant: a failed collection is never cleared away.
StaysFailed == [step |-> "failed"]

AfterFailure == NoCollection

CollectionFails ==
  /\ StationFailing
  /\ collection.step \in {"sent", "listing", "reading"}
  /\ collection' = AfterFailure
  /\ UNCHANGED <<page, removals, paper>>

\* The request or its answer is lost.
RemovalFails(r) ==
  /\ StationFailing
  /\ removals' = removals \ {r}
  /\ UNCHANGED <<page, collection, paper>>

\* The page is closed or its computer restarts: it forgets what it printed, and the
\* removals it has sent go on without it.
Crash ==
  /\ StationFailing
  /\ up
  /\ up' = FALSE
  /\ waiting' = <<>>
  /\ printed' = {}
  /\ collection' = NoCollection
  /\ removals' = {Removal(r.tag, "lost") : r \in {s \in removals : s.step = "sent"}}
  /\ excused' = excused \cup {t \in jobs : prints[t] > 0}
  /\ UNCHANGED prints

Start ==
  /\ ~up
  /\ up' = TRUE
  /\ UNCHANGED <<clock, phones, store, waiting, printed, collection, removals, paper, stationFailures>>

Tick ==
  /\ clock < MaxTime
  /\ clock' = clock + 1
  /\ UNCHANGED <<phones, store, page, collection, removals, paper, stationFailures>>

-----------------------------------------------------------------------------
PSInit ==
  /\ clock = 0
  /\ sending = {} /\ sentAt = [t \in Tags |-> Never]
  /\ jobs = {} /\ heartbeat = Never
  /\ up = FALSE /\ waiting = <<>> /\ printed = {}
  /\ collection = NoCollection
  /\ removals = {}
  /\ prints = [t \in Tags |-> 0] /\ excused = {}
  /\ stationFailures = 0

Collecting ==
  \/ Poll \/ Heartbeat \/ ListKeys \/ Collect \/ EndCollection
  \/ \E t \in Tags : ReadKey(t)

Removing ==
  \E r \in removals : RemoveJob(r) \/ Removed(r)

PSNext ==
  \/ \E t \in Tags : CheckStation(t) \/ Enqueue(t)
  \/ Collecting \/ PrintTag \/ Removing
  \/ CollectionFails \/ Crash
  \/ \E r \in removals : RemovalFails(r)
  \/ Start \/ Tick

PSSpec == PSInit /\ [][PSNext]_stationVars

\* An open page polls on its interval and prints what waits; a request is answered or fails.
PSFairness == WF_stationVars(Collecting) /\ WF_stationVars(PrintTag) /\ WF_stationVars(Removing)

OpenSpec == PSSpec /\ PSFairness

-----------------------------------------------------------------------------
(* Types.                                                                   *)

Removals == [tag : Tags, by : {"printed", "poll", "lost"}, step : {"sent", "done"}]

PSTypeOK ==
  /\ clock \in 0..MaxTime
  /\ sending \subseteq Tags /\ sentAt \in [Tags -> 0..MaxTime \cup {Never}]
  /\ jobs \subseteq Tags /\ heartbeat \in 0..MaxTime \cup {Never}
  /\ up \in BOOLEAN /\ printed \subseteq Tags
  /\ waiting \in Seq(Tags) /\ IsInjective(waiting)
  /\ collection \in {NoCollection} \cup [step : {"sent", "listing", "retrying"}]
                           \cup [step : {"reading"}, keys : SUBSET Tags, found : SUBSET Tags]
  /\ removals \subseteq Removals
  /\ prints \in [Tags -> 0..2] /\ excused \subseteq Tags
  /\ stationFailures \in 0..MaxStationFailures

-----------------------------------------------------------------------------
(* What holds.                                                              *)

\* Whatever fails and whenever the station crashes, a tag queued is printed, or still in the
\* store for as long as it is worth printing: it prints a tag twice rather than losing one.
NothingIsLost ==
  \A t \in Tags : sentAt[t] # Never /\ WorthPrinting(t) => t \in jobs \/ prints[t] > 0

\* Two stickers of one tag take a crash between the printing and the removal, or a removal
\* heard of while a collection that had seen the tag was in flight: a removal that fails,
\* however often, is no reason.
TwiceOnlyWhenExcused ==
  \A t \in Tags : prints[t] > 1 => t \in excused

\* A station that stays open is done with every tag in the end, though removals fail: the
\* store no longer has it, and the page no longer keeps it in mind.
Unfinished(t) == t \in jobs \cup printed

EveryTagIsDealtWith ==
  \A t \in Tags : Unfinished(t) /\ up ~> ~Unfinished(t) \/ ~up

-----------------------------------------------------------------------------
(* What the comments say.                                                   *)

\* The station never prints a tag twice (print-station.store.ts, printed): false of a
\* collection that overlaps a removal.
NeverTwiceByOneStation ==
  stationFailures = 0 => \A t \in Tags : prints[t] <= 1
=============================================================================
