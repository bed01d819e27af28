--------------------------- MODULE HouseholdService ---------------------------
(***************************************************************************)
(* Households counted without a visit.  A worker's recorder keeps the id   *)
(* of a save until it is told the save is done, in memory and, where the   *)
(* browser has one, in its tab's session storage; a save whose answer was  *)
(* lost is tried again under that id.  A recorder is left with requests    *)
(* still running, and a request given up on may yet be served.  Only a     *)
(* session in service or ended has a recorder, so the handler's refusal of *)
(* any other session is left out.                                          *)
(***************************************************************************)
EXTENDS Naturals, FiniteSets, Sequences, SequencesExt

CONSTANTS Tabs,              \* the browser tabs
          Storing,           \* those with session storage
          Views,             \* the recorders there may be, mounted or still waiting for an answer
          Tab,               \* Tab[v]: the tab of recorder v
          Sizes,             \* the household sizes
          Entered,           \* those recorded at first
          MaxSaves,          \* the bound on households recorded
          MaxVersion,        \* the bound on corrections of one
          MaxMoves,          \* the bound on recorders left and tabs reloaded
          MaxRequestFailures \* the bound on failing requests

ASSUME HouseholdAssumption ==
  /\ "none" \notin Tabs /\ Storing \subseteq Tabs /\ Tab \in [Views -> Tabs]
  /\ Sizes \subseteq 1..30 /\ Entered \subseteq Sizes
  /\ MaxSaves \in Nat /\ MaxVersion \in Nat \ {0}
  /\ MaxMoves \in Nat /\ MaxRequestFailures \in Nat

VARIABLES
  entries,   \* the table: entries[id] is what entry id has been, one row per version
  storage,   \* storage[t]: the save tab t keeps
  views,     \* views[v]: a recorder's store, with its request
  late,      \* the requests nobody waits for that may still be served
  owner,     \* owner[id]: the tab a save was begun in
  confirmed, \* the saves their tab was told are done
  exposed,   \* the tabs that may have forgotten a save
  moves, requestFailures

householdVars == <<entries, storage, views, late, owner, confirmed, exposed, moves, requestFailures>>

Ids == 1..MaxSaves

Row(size, voided) == [size |-> size, voided |-> voided]

NoSave == [id |-> 0]

Save(id, size) == [id |-> id, size |-> size]

Rows == [size : Sizes, voided : BOOLEAN]

Quiet == [kind |-> "quiet"]

Closed == [page |-> "closed"]

Recorder(pending) ==
  [page |-> "open", pending |-> pending, loaded |-> FALSE, request |-> Quiet]

Open(v) == views[v].page = "open"

Busy(v) == views[v] # Closed /\ views[v].request # Quiet

Ready(v) == Open(v) /\ ~Busy(v)

Of(t) == {v \in Views : views[v] # Closed /\ Tab[v] = t}

-----------------------------------------------------------------------------
(* The worker.                                                              *)

\* Mutant: the constructor does not look into the storage.
Forgotten(t) == NoSave

\* The constructor takes up what the tab keeps.
Kept(t) == storage[t]

Mount(v) ==
  /\ views[v] = Closed
  /\ \A w \in Of(Tab[v]) : ~Open(w)
  /\ views' = [views EXCEPT ![v] = Recorder(Kept(Tab[v]))]
  /\ UNCHANGED <<entries, storage, late, owner, confirmed, exposed, moves, requestFailures>>

Load(v) ==
  /\ Ready(v)
  /\ views' = [views EXCEPT ![v].loaded = TRUE]
  /\ UNCHANGED <<entries, storage, late, owner, confirmed, exposed, moves, requestFailures>>

Issued == {id \in Ids : owner[id] # "none"}

\* The save still pending, or a new one under an id of its own.
SaveOf(v, size) ==
  IF views[v].pending # NoSave THEN views[v].pending ELSE Save(Cardinality(Issued) + 1, size)

\* The size entered counts only when no save is pending.
Record(v, size) ==
  LET save == SaveOf(v, size)
      t    == Tab[v]
  IN  /\ Ready(v) /\ views[v].loaded
      /\ save.id \in Ids
      /\ views' = [views EXCEPT ![v].pending = save,
                                ![v].request = [kind |-> "record", answered |-> FALSE, save |-> save]]
      /\ storage' = IF t \in Storing THEN [storage EXCEPT ![t] = save] ELSE storage
      /\ owner' = [owner EXCEPT ![save.id] = t]
      /\ UNCHANGED <<entries, late, confirmed, exposed, moves, requestFailures>>

Versions(id) == DOMAIN entries[id]

\* A size is corrected, or an entry undone or restored, from a version the worker was
\* shown: by a listing of any time since, or by the answer to an earlier request.
Correct(v, id, base, row) ==
  /\ Ready(v) /\ views[v].loaded
  /\ views[v].pending = NoSave
  /\ row # entries[id][base]
  /\ row.size = entries[id][base].size \/ row.voided = entries[id][base].voided
  /\ base < MaxVersion
  /\ views' = [views EXCEPT ![v].request =
       [kind |-> "correct", answered |-> FALSE, id |-> id, base |-> base, row |-> row]]
  /\ UNCHANGED <<entries, storage, late, owner, confirmed, exposed, moves, requestFailures>>

-----------------------------------------------------------------------------
(* The server.                                                              *)

\* Mutant: a retry is compared with the size as corrected.
SizeNow(save) == Last(entries[save.id]).size = save.size

\* A retry is known by its id and the size first submitted.
SameSave(save) == Head(entries[save.id]).size = save.size

\* Mutant: a correction asks for no version.
AnyVersion(q) == entries[q.id] # <<>>

AsItWas(q) == Len(entries[q.id]) = q.base

Creates(q) == q.kind = "record" /\ entries[q.save.id] = <<>>

Corrects(q) == q.kind = "correct" /\ AsItWas(q)

\* The table once request q is served.
Served(q) ==
  IF Creates(q) THEN [entries EXCEPT ![q.save.id] = <<Row(q.save.size, FALSE)>>]
  ELSE IF Corrects(q) THEN [entries EXCEPT ![q.id] = Append(@, q.row)]
  ELSE entries

Refused(q) ==
  \/ q.kind = "correct" /\ ~Corrects(q)
  \/ q.kind = "record" /\ ~Creates(q) /\ ~SameSave(q.save)

\* The session's lock, and the row's, have two requests served one after the other.
Serve(v) ==
  LET q == views[v].request
  IN  /\ Busy(v) /\ ~q.answered
      /\ entries' = Served(q)
      /\ views' = [views EXCEPT ![v].request =
           [answered |-> TRUE,
            done |-> IF q.kind = "record" /\ ~Refused(q) THEN {q.save.id} ELSE {}]]
      /\ UNCHANGED <<storage, late, owner, confirmed, exposed, moves, requestFailures>>

ServeLate(q) ==
  /\ q \in late
  /\ entries' = Served(q)
  /\ late' = late \ {q}
  /\ UNCHANGED <<storage, views, owner, confirmed, exposed, moves, requestFailures>>

-----------------------------------------------------------------------------
(* The answer.                                                              *)

\* The recorder with its request behind it: forgotten, if it was left.
Settled(v) == IF Open(v) THEN [views[v] EXCEPT !.request = Quiet] ELSE Closed

\* A save its recorder hears is done is pending no longer, and the tab keeps none:
\* whichever it keeps by then.
Answer(v) ==
  LET done == views[v].request.done
      t    == Tab[v]
  IN  /\ Busy(v) /\ views[v].request.answered
      /\ views' = [views EXCEPT ![v] = IF Open(v) /\ done # {}
                                       THEN [Settled(v) EXCEPT !.pending = NoSave] ELSE Settled(v)]
      /\ storage' = IF done # {} THEN [storage EXCEPT ![t] = NoSave] ELSE storage
      /\ confirmed' = confirmed \cup done
      /\ exposed' = IF done # {} /\ storage[t].id \notin done \cup {0}
                    THEN exposed \cup {t} ELSE exposed
      /\ UNCHANGED <<entries, late, owner, moves, requestFailures>>

-----------------------------------------------------------------------------
(* What fails, and what is left.                                            *)

Unanswered(V) == {views[v].request : v \in {w \in V : Busy(w) /\ ~views[w].request.answered}}

\* The answer is lost; or the recorder stops waiting for a request that may be served yet,
\* or never.
Fail(v) ==
  /\ requestFailures < MaxRequestFailures
  /\ Busy(v)
  /\ views' = [views EXCEPT ![v] = Settled(v)]
  /\ late' = late \cup Unanswered({v})
  /\ requestFailures' = requestFailures + 1
  /\ UNCHANGED <<entries, storage, owner, confirmed, exposed, moves>>

\* A save that only a closed recorder knew of is forgotten.
Exposed(t, V) ==
  IF t \notin Storing /\ \E v \in V : views[v].pending # NoSave THEN exposed \cup {t} ELSE exposed

\* Of a recorder that was left there is only what its answer does to its tab.
Left(view) == [Recorder(NoSave) EXCEPT !.page = "left", !.request = view.request]

\* The worker goes to another screen; a request goes on, and its answer is acted on.
LeaveView(v) ==
  /\ moves < MaxMoves
  /\ Open(v)
  /\ views' = [views EXCEPT ![v] = IF Busy(v) THEN Left(@) ELSE Closed]
  /\ exposed' = Exposed(Tab[v], {v})
  /\ moves' = moves + 1
  /\ UNCHANGED <<entries, storage, late, owner, confirmed, requestFailures>>

\* The tab is reloaded: only what it stores survives.
Reload(t) ==
  /\ moves < MaxMoves
  /\ Of(t) # {}
  /\ views' = [v \in Views |-> IF v \in Of(t) THEN Closed ELSE views[v]]
  /\ late' = late \cup Unanswered(Of(t))
  /\ exposed' = Exposed(t, Of(t))
  /\ moves' = moves + 1
  /\ UNCHANGED <<entries, storage, owner, confirmed, requestFailures>>

-----------------------------------------------------------------------------
HSInit ==
  /\ entries = [id \in Ids |-> <<>>]
  /\ storage = [t \in Tabs |-> NoSave]
  /\ views = [v \in Views |-> Closed]
  /\ late = {}
  /\ owner = [id \in Ids |-> "none"] /\ confirmed = {} /\ exposed = {}
  /\ moves = 0 /\ requestFailures = 0

HSNext ==
  \/ \E v \in Views : \E size \in Entered : Record(v, size)
  \/ \E v \in Views : \E id \in Ids : \E base \in Versions(id) : \E row \in Rows :
       Correct(v, id, base, row)
  \/ \E v \in Views : Mount(v) \/ Load(v) \/ Serve(v) \/ Answer(v) \/ Fail(v) \/ LeaveView(v)
  \/ \E q \in late : ServeLate(q)
  \/ \E t \in Tabs : Reload(t)

HSSpec == HSInit /\ [][HSNext]_householdVars

Pending(v) == Open(v) /\ views[v].pending # NoSave

\* The worker tries a pending save again, which takes the listing: it says so on screen.
Retry(v) ==
  /\ Pending(v)
  /\ \/ ~views[v].loaded /\ Load(v)
     \/ \E size \in Entered : Record(v, size)

\* A request is answered or fails, and the worker of a pending save tries again.
HSFairness ==
  \A v \in Views : WF_householdVars(Serve(v) \/ Answer(v) \/ Retry(v))

RetriedSpec == HSSpec /\ HSFairness

-----------------------------------------------------------------------------
(* Types.                                                                   *)

Saves == [id : Ids, size : Entered]

HSTypeOK ==
  /\ entries \in [Ids -> BoundedSeq(Rows, MaxVersion)]
  /\ storage \in [Tabs -> Saves \cup {NoSave}]
  /\ \A t \in Tabs \ Storing : storage[t] = NoSave
  /\ \A v \in Views \ {w \in Views : views[w] = Closed} :
       /\ views[v].page = "open" \/ (views[v].page = "left" /\ Busy(v))
       /\ views[v].pending \in Saves \cup {NoSave}
       /\ views[v].loaded \in BOOLEAN
       /\ \A q \in Unanswered({v}) :
            Open(v) /\ q.kind = "record" => views[v].pending = q.save
  /\ \A q \in late : q.kind \in {"record", "correct"} /\ ~q.answered
  /\ confirmed \subseteq Issued /\ exposed \subseteq Tabs
  /\ moves \in 0..MaxMoves /\ requestFailures \in 0..MaxRequestFailures

-----------------------------------------------------------------------------
(* What holds.                                                              *)

Uncertain(t) == {id \in Ids : owner[id] = t} \ confirmed

\* However often a save fails, the recorder is left and the tab reloaded, no second
\* household is submitted while one is uncertain: only a tab without storage, or one whose
\* storage a late answer cleared of a newer save, may do so.
OneSaveAtATime ==
  \A t \in Tabs \ exposed : Cardinality(Uncertain(t)) <= 1

\* No worker's correction is overwritten by one who had not seen it, and no retry changes
\* what was corrected meanwhile: an entry changes only by a correction of the row as it is.
CorrectionsKnowWhatTheyChange ==
  [][\A id \in Ids :
       entries[id] # <<>> /\ entries'[id] # entries[id] =>
         \E q \in late \cup Unanswered(Views) :
           /\ q.kind = "correct" /\ q.id = id
           /\ q.base = Len(entries[id]) /\ entries'[id] = Append(entries[id], q.row)]_householdVars

\* No retry is refused: whatever was corrected, whichever recorder of the tab tries again and
\* whenever its request is served, a save already in the table is known to be the same one.
NoRetryIsRefused ==
  \A q \in late \cup Unanswered(Views) : q.kind = "record" => ~Refused(q)

\* A pending save that is tried again is confirmed in the end, though it was corrected by
\* another worker before its own heard that it was saved.
RetriesAreConfirmed ==
  \A v \in Views : Pending(v) ~> ~Pending(v)

-----------------------------------------------------------------------------
(* What the documentation says.                                             *)

\* Where there is storage, a reloaded tab does not submit another household until the
\* pending save is confirmed (household-service.md): false when the answer of a recorder
\* that was left clears the storage of the save that followed.
StorageProtectsRetries ==
  \A t \in Storing : Cardinality(Uncertain(t)) <= 1
=============================================================================
