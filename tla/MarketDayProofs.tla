-------------------------- MODULE MarketDayProofs --------------------------
(***************************************************************************)
(* A market day keeps its line and its draw in order for every set of      *)
(* visits and of clients, every capacity and every bound on the numbers.   *)
(***************************************************************************)
EXTENDS MarketDay, TLAPS, FiniteSetTheorems

TLP == INSTANCE TicketLineProofs WITH replaced <- [v \in Visits |-> history[v].replaced]

\* What the line's theorem assumes of its constants.
LEMMA LineConstants == MaxOrder \in Nat /\ TLP!IsFiniteSet(Visits)
PROOF
  BY LineAssumption DEF IsFiniteSet, TLP!IsFiniteSet

\* The line places and draws as the market day does.
LEMMA LineOperators ==
  /\ \A column : Highest(column) = TLP!Highest(column)
  /\ Placements = TLP!Placements
  /\ \A line, placement, held : Place(line, placement, held) = TLP!Place(line, placement, held)
  /\ \A s, line, rank : DrawnSlot(s, line, rank) = TLP!DrawnSlot(s, line, rank)
PROOF
  BY DEF Highest, TLP!Highest, Max, TLP!Max, Placements, TLP!Placements, Place, TLP!Place,
         NoNumber, TLP!NoNumber, DrawnSlot, TLP!DrawnSlot

\* What a request's step says of its other fields.
LEMMA RequestFields ==
  ASSUME NEW r \in Requests
  PROVE  /\ r.step = "register" => r.visit \in Visits /\ r.seen \in Statuses
         /\ r.step = "cancel" => r.visit \in Visits
         /\ r.step = "admit" => r.visit \in Visits /\ r.placement \in Placements /\ r.line \in Lines
         /\ r.step = "command" => /\ r.visit \in Visits /\ r.command \in VisitCommands
                                  /\ r.seen \in VisitStatuses /\ r.held \in HeldNumbers
         /\ r.step = "place" => /\ r.visit \in Visits /\ r.seen \in VisitStatuses
                                /\ r.held \in HeldNumbers /\ r.placement \in Placements
                                /\ r.line \in Lines
         /\ r.step = "claim" => r.picked \subseteq Visits
         /\ r.step = "serve" => /\ r.visit \in Visits /\ r.chosen \in BOOLEAN
                                /\ r.picked \subseteq Visits
         /\ r.step = "draw" => r.pool \subseteq Visits /\ r.reserved \in Nat /\ r.line \in Lines
         /\ r.step = "session" => r.seen \in SessionStatuses
         /\ r.step = "end" => r.resolved \subseteq Visits
PROOF
  BY DEF Requests, Idle

\* The highest of each column is within the bound.
LEMMA HighestBounds ==
  ASSUME TypeOK
  PROVE  /\ MaxOrder \in Nat
         /\ HighestMain \in 0..MaxOrder
         /\ HighestPriority \in 0..MaxOrder
         /\ HighestOrder \in 0..MaxOrder
         /\ \A v \in Visits : slot[v].order <= HighestOrder
PROOF
  <1>1. MaxOrder \in Nat
    BY LineAssumption
  <1>2. {slot[v].main : v \in Visits} \subseteq 0..MaxOrder
    BY DEF TypeOK, Slots
  <1>3. {slot[v].priority : v \in Visits} \subseteq 0..MaxOrder
    BY DEF TypeOK, Slots
  <1>4. {slot[v].order : v \in Visits} \subseteq 0..MaxOrder
    BY DEF TypeOK, Slots
  <1>5. ASSUME NEW column, column \subseteq 0..MaxOrder
        PROVE  Highest(column) \in 0..MaxOrder /\ \A x \in column : x <= Highest(column)
    BY <1>1, <1>5, LineConstants, LineOperators, TLP!HighestOfColumn
  <1> QED
    BY <1>1, <1>2, <1>3, <1>4, <1>5 DEF HighestMain, HighestPriority, HighestOrder

\* What a request reads of the line has its type.
LEMMA LineForType ==
  ASSUME TypeOK, NEW v \in Visits
  PROVE  LineFor(v) \in Lines
PROOF
  BY HighestBounds DEF LineFor, Lines

-----------------------------------------------------------------------------
(* Types.  A step writes at most one request.                               *)

\* A client's request, replaced by one of the right type, leaves all of the right type.
LEMMA RequestTyped ==
  ASSUME TypeOK, NEW c \in Clients, NEW r \in Requests,
         requests' = [requests EXCEPT ![c] = r]
  PROVE  requests' \in [Clients -> Requests]
PROOF
  BY DEF TypeOK

\* No request in flight is a request too.
LEMMA IdleIsRequest == Idle \in Requests
PROOF
  BY DEF Requests

\* Starting a request keeps every type.
LEMMA BeginType ==
  ASSUME TypeOK, NEW c \in Clients, NEW r \in Requests, Begin(c, r)
  PROVE  TypeOK'
PROOF
  <1>1. requests' \in [Clients -> Requests]
    BY RequestTyped DEF Begin
  <1> QED
    BY <1>1 DEF TypeOK, Begin

\* So does ending one, when what it writes has its type.
LEMMA FinishType ==
  ASSUME TypeOK, NEW c \in Clients, Finish(c),
         session' \in SessionStatuses,
         status' \in [Visits -> Statuses],
         slot' \in [Visits -> Slots],
         history' \in [Visits -> [last : Statuses, replaced : BOOLEAN]]
  PROVE  TypeOK'
PROOF
  <1>1. requests' \in [Clients -> Requests]
    BY RequestTyped, IdleIsRequest DEF Finish
  <1> QED
    BY <1>1 DEF TypeOK

\* What recordVisitEvents leaves has the type of a history.
LEMMA RecordedType ==
  ASSUME TypeOK, NEW vs \in SUBSET Visits, NEW target \in Statuses
  PROVE  Recorded(vs, target) \in [Visits -> [last : Statuses, replaced : BOOLEAN]]
PROOF
  BY DEF TypeOK, Recorded

\* Giving one visit a status leaves all of them statuses.
LEMMA WithType ==
  ASSUME TypeOK, NEW v \in Visits, NEW target \in Statuses
  PROVE  With(v, target) \in [Visits -> Statuses]
PROOF
  BY DEF TypeOK, With

\* The slot a lock holder gives is within the bound it checked when it read the line.
LEMMA PlacedSlot ==
  ASSUME TypeOK, LockHolderIsCurrent, NEW c \in Clients,
         requests[c].step \in {"admit", "place"},
         NEW held \in HeldNumbers
  PROVE  /\ Place(requests[c].line, requests[c].placement, held) \in Slots
         /\ Place(requests[c].line, requests[c].placement, held).order = HighestOrder + 1
         /\ Place(requests[c].line, requests[c].placement, held).order # 0
PROOF
  <1> DEFINE line      == requests[c].line
             placement == requests[c].placement
  <1>1. requests[c] \in Requests
    BY DEF TypeOK
  <1>2. line \in Lines /\ placement \in Placements
    BY <1>1, RequestFields
  <1>3. /\ line.highestMain = HighestMain
        /\ line.highestPriority = HighestPriority
        /\ line.highestOrder = HighestOrder
        /\ Issuable(1)
    BY DEF LockHolderIsCurrent, PlacingSteps
  <1> HIDE DEF line, placement
  <1>4. MaxOrder \in Nat
    BY HighestBounds
  <1>5. /\ line.highestMain + 1 <= MaxOrder
        /\ line.highestPriority + 1 <= MaxOrder
        /\ line.highestOrder + 1 <= MaxOrder
    BY <1>3 DEF Issuable
  <1>6. line \in [highestMain : 0..MaxOrder, highestPriority : 0..MaxOrder,
                  highestOrder : 0..MaxOrder, othersWaiting : BOOLEAN]
    BY <1>2 DEF Lines
  <1>7. held \in [main : 0..MaxOrder, priority : 0..MaxOrder]
    BY DEF HeldNumbers
  <1>8. /\ Place(line, placement, held) \in TLP!Within(MaxOrder)
        /\ Place(line, placement, held).order = line.highestOrder + 1
    BY <1>2, <1>4, <1>5, <1>6, <1>7, LineConstants, LineOperators, TLP!PlaceGives
  <1>9. line.highestOrder \in Nat
    BY <1>4, <1>6
  <1> QED
    BY <1>3, <1>8, <1>9 DEF TLP!Within, Slots, line, placement

\* Holding no number is one of the numbers a request may hold.
LEMMA NoNumberHeld == NoNumber \in HeldNumbers
PROOF
  BY LineAssumption DEF NoNumber, HeldNumbers

\* The number of a slot is one a request may hold.
LEMMA NumberOfType ==
  ASSUME NEW s \in Slots
  PROVE  NumberOf(s) \in HeldNumbers
PROOF
  BY LineAssumption DEF NumberOf, HeldNumbers, Slots

\* A ranking of a set of visits gives each a rank from 1 to their number.
LEMMA RankingBounds ==
  ASSUME NEW winners \in SUBSET Visits, NEW rank \in Rankings(winners)
  PROVE  /\ Cardinality(winners) \in Nat
         /\ \A v \in winners : rank[v] \in 1..Cardinality(winners)
PROOF
  BY LineAssumption, FS_Subset, FS_CardinalityType DEF Rankings

\* The slots the draw gives are within the bound.
LEMMA DrawnSlots ==
  ASSUME TypeOK, LockHolderIsCurrent, NEW c \in Clients, requests[c].step = "draw",
         NEW winners \in SUBSET Visits, NEW rank \in Rankings(winners),
         Issuable(Cardinality(winners)),
         NEW v \in winners
  PROVE  DrawnSlot(slot[v], requests[c].line, rank[v]) \in Slots
PROOF
  <1> DEFINE line == requests[c].line
             n    == Cardinality(winners)
  <1>1. line.highestMain = HighestMain /\ line.highestOrder = HighestOrder
    BY DEF LockHolderIsCurrent, PlacingSteps
  <1>2. /\ MaxOrder \in Nat /\ HighestMain \in 0..MaxOrder /\ HighestOrder \in 0..MaxOrder
    BY HighestBounds
  <1>3. n \in Nat /\ rank[v] \in 1..n
    BY RankingBounds
  <1>4. HighestMain + n <= MaxOrder /\ HighestOrder + n <= MaxOrder
    BY DEF Issuable
  <1> HIDE DEF line, n
  <1>5. /\ rank[v] \in Nat \ {0}
        /\ line.highestMain + rank[v] <= MaxOrder
        /\ line.highestOrder + rank[v] <= MaxOrder
    BY <1>1, <1>2, <1>3, <1>4
  <1>6. slot[v] \in TLP!Within(MaxOrder)
    BY DEF TypeOK, Slots, TLP!Within
  <1>7. DrawnSlot(slot[v], line, rank[v]) \in TLP!Within(MaxOrder)
    BY <1>1, <1>2, <1>5, <1>6, LineConstants, LineOperators, TLP!DrawnSlotGives
  <1> QED
    BY <1>7 DEF TLP!Within, Slots, line

\* A submission writes one visit, no row another transaction holds.
LEMMA RegisterWrites ==
  ASSUME TypeOK, NEW c \in Clients, Register(c)
  PROVE  \E v \in Visits, target \in Statuses :
           /\ target # "none" \/ status[v] = "none"
           /\ ~RowLocked(v)
           /\ status' = With(v, target)
           /\ history' \in {Recorded({v}, target), history}
PROOF
  <1> DEFINE seen   == requests[c].seen
             target == IF seen \in {"none", "cancelled"} THEN "registered" ELSE seen
  <1>1. requests[c] \in Requests /\ requests[c].step = "register"
    BY DEF TypeOK, Register
  <1>2. requests[c].visit \in Visits /\ seen \in Statuses
    BY <1>1, RequestFields
  <1>3. target \in Statuses /\ target # "none"
    BY <1>2 DEF Statuses, VisitStatuses
  <1>4. PICK v \in RowsToWrite(c) :
          /\ ~RowLocked(v)
          /\ status' = With(v, target)
          /\ history' = IF seen \in {"none", "cancelled"} THEN Recorded({v}, target) ELSE history
    BY DEF Register
  <1>5. v \in Visits
    BY <1>2, <1>4 DEF RowsToWrite
  <1> QED
    BY <1>3, <1>4, <1>5

\* Registering and cancelling on a phone keep every type.
LEMMA GuestType ==
  ASSUME TypeOK, NEW c \in Clients, GuestStep(c)
  PROVE  TypeOK'
PROOF
  <1>0. requests[c] \in Requests
    BY DEF TypeOK
  <1>1. ASSUME NEW v \in Visits, ReadRegistration(c, v) PROVE TypeOK'
    <2>1. [step |-> "register", visit |-> v, seen |-> status[v]] \in Requests
      BY DEF TypeOK, Requests
    <2> QED
      BY <1>1, <2>1, BeginType DEF ReadRegistration
  <1>2. ASSUME NEW v \in Visits, ReadCancel(c, v) PROVE TypeOK'
    <2>1. [step |-> "cancel", visit |-> v] \in Requests
      BY DEF Requests
    <2> QED
      BY <1>2, <2>1, BeginType DEF ReadCancel
  <1>3. CASE Register(c)
    <2>1. PICK v \in Visits, target \in Statuses :
            status' = With(v, target) /\ history' \in {Recorded({v}, target), history}
      BY <1>3, RegisterWrites
    <2>2. status' = With(v, target) /\ history' \in {Recorded({v}, target), history}
      BY <2>1
    <2>3. status' \in [Visits -> Statuses]
      BY <2>1, <2>2, WithType
    <2>4. Recorded({v}, target) \in [Visits -> [last : Statuses, replaced : BOOLEAN]]
      BY <2>1, RecordedType
    <2>5. history' \in [Visits -> [last : Statuses, replaced : BOOLEAN]]
      BY <2>2, <2>4 DEF TypeOK
    <2> QED
      BY <1>3, <2>3, <2>5, FinishType DEF Register, TypeOK
  <1>4. CASE Cancel(c)
    <2>1. requests[c].visit \in Visits /\ "cancelled" \in Statuses
      BY <1>0, <1>4, RequestFields DEF Cancel, Statuses, VisitStatuses
    <2>2. /\ status' \in [Visits -> Statuses]
          /\ history' \in [Visits -> [last : Statuses, replaced : BOOLEAN]]
      BY <1>4, <2>1, WithType, RecordedType DEF Cancel
    <2> QED
      BY <1>4, <2>2, FinishType DEF Cancel, TypeOK
  <1> QED
    BY <1>1, <1>2, <1>3, <1>4 DEF GuestStep

\* Adding a guest by hand keeps every type: the place given is within the bound.
LEMMA AdmitType ==
  ASSUME TypeOK, LockHolderIsCurrent, NEW c \in Clients, AdmitStep(c)
  PROVE  TypeOK'
PROOF
  <1>0. requests[c] \in Requests
    BY DEF TypeOK
  <1>1. ASSUME NEW v \in Visits, NEW admission \in {"lottery", "served"},
               AdmitWithoutPlace(c, v, admission)
        PROVE  TypeOK'
    <2> DEFINE target == AdmissionVisitStatus[admission]
    <2>1. target \in Statuses
      BY DEF AdmissionVisitStatus, Statuses, VisitStatuses
    <2>2. status' = With(v, target) /\ history' = Recorded({v}, target)
      BY <1>1 DEF AdmitWithoutPlace
    <2> HIDE DEF target
    <2>3. status' \in [Visits -> Statuses]
      BY <2>1, <2>2, WithType
    <2>4. history' \in [Visits -> [last : Statuses, replaced : BOOLEAN]]
      BY <2>1, <2>2, RecordedType
    <2> QED
      BY <1>1, <2>3, <2>4 DEF AdmitWithoutPlace, TypeOK
  <1>2. ASSUME NEW v \in Visits, NEW placement \in Placements, BeginAdmit(c, v, placement)
        PROVE  TypeOK'
    <2> DEFINE line == LineFor(v)
    <2>0. line \in Lines
      BY LineForType
    <2> HIDE DEF line
    <2>1. [step |-> "admit", visit |-> v, placement |-> placement, line |-> line] \in Requests
      BY <2>0 DEF Requests
    <2>2. Begin(c, [step |-> "admit", visit |-> v, placement |-> placement, line |-> line])
      BY <1>2 DEF BeginAdmit, line
    <2> QED
      BY <2>1, <2>2, BeginType
  <1>3. CASE Admit(c)
    <2> DEFINE v == requests[c].visit
               s == Place(requests[c].line, requests[c].placement, NoNumber)
    <2>1. v \in Visits
      BY <1>0, <1>3, RequestFields DEF Admit
    <2>2. s \in Slots
      BY <1>3, PlacedSlot, NoNumberHeld DEF Admit
    <2>3. /\ status' = With(v, "waiting") /\ history' = Recorded({v}, "waiting")
          /\ slot' = [slot EXCEPT ![v] = s] /\ Finish(c) /\ session' = session
      BY <1>3 DEF Admit, AdmissionVisitStatus
    <2> HIDE DEF v, s
    <2>4. slot' \in [Visits -> Slots]
      BY <2>1, <2>2, <2>3 DEF TypeOK
    <2>5. "waiting" \in Statuses
      BY DEF Statuses, VisitStatuses
    <2>6. status' \in [Visits -> Statuses]
      BY <2>1, <2>3, <2>5, WithType
    <2>7. history' \in [Visits -> [last : Statuses, replaced : BOOLEAN]]
      BY <2>1, <2>3, <2>5, RecordedType
    <2> QED
      BY <2>3, <2>4, <2>6, <2>7, FinishType DEF TypeOK
  <1> QED
    BY <1>1, <1>2, <1>3 DEF AdmitStep

\* A visit command leads to a status.
LEMMA CommandTyped ==
  ASSUME NEW command \in VisitCommands
  PROVE  VisitCommandTarget[command] \in Statuses
PROOF
  BY DEF VisitCommands, VisitCommandTarget, Statuses, VisitStatuses

\* Moving a guest through the line keeps every type.
LEMMA CommandType ==
  ASSUME TypeOK, LockHolderIsCurrent, NEW c \in Clients, CommandStep(c)
  PROVE  TypeOK'
PROOF
  <1>0. requests[c] \in Requests
    BY DEF TypeOK
  <1>1. ASSUME NEW v \in Visits, NEW command \in VisitCommands, ReadCommand(c, v, command)
        PROVE  TypeOK'
    <2> DEFINE r == [step |-> "command", visit |-> v, command |-> command,
                     seen |-> status[v], held |-> NumberOf(slot[v])]
    <2>1. NumberOf(slot[v]) \in HeldNumbers
      BY NumberOfType DEF TypeOK
    <2>2. status[v] \in VisitStatuses
      BY <1>1 DEF ReadCommand, VisitCommands, VisitCommandSources, VisitStatuses
    <2>3. r \in Requests
      BY <2>1, <2>2 DEF Requests
    <2> QED
      BY <1>1, <2>3, BeginType DEF ReadCommand
  <1>2. CASE RunCommand(c)
    <2> DEFINE v      == requests[c].visit
               target == VisitCommandTarget[requests[c].command]
    <2>1. v \in Visits /\ target \in Statuses
      BY <1>0, <1>2, RequestFields, CommandTyped DEF RunCommand
    <2>2. /\ status' = With(v, target) /\ history' \in {Recorded({v}, target), history}
          /\ Finish(c) /\ session' = session /\ slot' = slot
      BY <1>2 DEF RunCommand
    <2> HIDE DEF v, target
    <2>3. status' \in [Visits -> Statuses]
      BY <2>1, <2>2, WithType
    <2>4. Recorded({v}, target) \in [Visits -> [last : Statuses, replaced : BOOLEAN]]
      BY <2>1, RecordedType
    <2>5. history' \in [Visits -> [last : Statuses, replaced : BOOLEAN]]
      BY <2>2, <2>4 DEF TypeOK
    <2> QED
      BY <2>2, <2>3, <2>5, FinishType DEF TypeOK
  <1>3. ASSUME NEW placement \in Placements, BeginPlace(c, placement)
        PROVE  TypeOK'
    <2> DEFINE v    == requests[c].visit
               line == LineFor(v)
               seen == requests[c].seen
               held == requests[c].held
               r    == [step |-> "place", visit |-> v, seen |-> seen, held |-> held,
                        placement |-> placement, line |-> line]
    <2>1. v \in Visits /\ seen \in VisitStatuses /\ held \in HeldNumbers
      BY <1>0, <1>3, RequestFields DEF BeginPlace
    <2>2. line \in Lines
      BY <2>1, LineForType
    <2>3. /\ requests' = [requests EXCEPT ![c] = r]
          /\ UNCHANGED <<session, status, slot, history>>
      BY <1>3 DEF BeginPlace
    <2> HIDE DEF v, line, seen, held
    <2>4. r \in Requests
      BY <2>1, <2>2 DEF Requests
    <2> HIDE DEF r
    <2>5. requests' \in [Clients -> Requests]
      BY <2>3, <2>4, RequestTyped
    <2> QED
      BY <2>3, <2>5 DEF TypeOK
  <1>4. CASE PlaceBack(c)
    <2> DEFINE v == requests[c].visit
               s == Place(requests[c].line, requests[c].placement, requests[c].held)
    <2>1. v \in Visits /\ requests[c].held \in HeldNumbers
      BY <1>0, <1>4, RequestFields DEF PlaceBack
    <2>2. s \in Slots
      BY <1>4, <2>1, PlacedSlot DEF PlaceBack
    <2>3. /\ status' = With(v, "waiting")
          /\ history' = [history EXCEPT ![v] = [last |-> "waiting", replaced |-> TRUE]]
          /\ slot' = [slot EXCEPT ![v] = s] /\ Finish(c) /\ session' = session
      BY <1>4 DEF PlaceBack
    <2> HIDE DEF v, s
    <2>4. slot' \in [Visits -> Slots]
      BY <2>1, <2>2, <2>3 DEF TypeOK
    <2>5. "waiting" \in Statuses
      BY DEF Statuses, VisitStatuses
    <2>6. status' \in [Visits -> Statuses]
      BY <2>1, <2>3, <2>5, WithType
    <2>7. history' \in [Visits -> [last : Statuses, replaced : BOOLEAN]]
      BY <2>1, <2>3, <2>5 DEF TypeOK
    <2> QED
      BY <2>3, <2>4, <2>6, <2>7, FinishType DEF TypeOK
  <1> QED
    BY <1>1, <1>2, <1>3, <1>4 DEF CommandStep

\* A serve_and_call_next has chosen nobody when its guest's row is locked ...
LEMMA ServeBegins ==
  ASSUME NEW c \in Clients, NEW v \in Visits, BeginServe(c, v)
  PROVE  \E r \in Requests :
           /\ requests' = [requests EXCEPT ![c] = r]
           /\ r.step = "serve" /\ r.visit = v /\ r.picked = {}
           /\ ~RowLocked(v) /\ status[v] = "called"
           /\ UNCHANGED <<session, status, slot, history>>
PROOF
  <1> DEFINE r == [step |-> "serve", visit |-> v, chosen |-> FALSE, picked |-> {}]
  <1>1. r \in Requests
    BY DEF Requests
  <1>2. /\ requests' = [requests EXCEPT ![c] = r] /\ ~RowLocked(v) /\ status[v] = "called"
        /\ UNCHANGED <<session, status, slot, history>>
    BY DEF BeginServe
  <1> QED
    BY <1>1, <1>2

\* ... and then chooses among the waiting, for the same guest.
LEMMA NextChosen ==
  ASSUME TypeOK, NEW c \in Clients, ChooseNext(c)
  PROVE  \E r \in Requests :
           /\ requests' = [requests EXCEPT ![c] = r]
           /\ r.step = "serve" /\ requests[c].step = "serve" /\ r.visit = requests[c].visit
           /\ IsNext(r.picked, 1)
           /\ UNCHANGED <<session, status, slot, history>>
PROOF
  <1> DEFINE v == requests[c].visit
  <1>1. v \in Visits
    BY RequestFields DEF TypeOK, ChooseNext
  <1>2. PICK picked \in SUBSET Visits :
          /\ requests[c].step = "serve" /\ IsNext(picked, 1)
          /\ requests' = [requests EXCEPT ![c] =
                            [step |-> "serve", visit |-> v, chosen |-> TRUE, picked |-> picked]]
          /\ UNCHANGED <<session, status, slot, history>>
    BY DEF ChooseNext
  <1> HIDE DEF v
  <1> DEFINE r == [step |-> "serve", visit |-> v, chosen |-> TRUE, picked |-> picked]
  <1>3. r \in Requests
    BY <1>1 DEF Requests
  <1>4. r.step = "serve" /\ r.visit = v /\ r.picked = picked
    OBVIOUS
  <1> HIDE DEF r
  <1> QED
    BY <1>2, <1>3, <1>4 DEF r, v

\* Calling and serving guests keep every type.
LEMMA CallType ==
  ASSUME TypeOK, NEW c \in Clients, CallStep(c)
  PROVE  TypeOK'
PROOF
  <1>0. requests[c] \in Requests
    BY DEF TypeOK
  <1>1. CASE ReadCallNext(c)
    <2>1. [step |-> "call"] \in Requests
      BY DEF Requests
    <2> QED
      BY <1>1, <2>1, BeginType DEF ReadCallNext
  <1>2. ASSUME NEW count \in BatchSizes, PickNext(c, count) PROVE TypeOK'
    <2>1. PICK picked \in SUBSET Visits :
            /\ requests' = [requests EXCEPT ![c] = [step |-> "claim", picked |-> picked]]
            /\ UNCHANGED <<session, status, slot, history>>
      BY <1>2 DEF PickNext
    <2>2. [step |-> "claim", picked |-> picked] \in Requests
      BY DEF Requests
    <2>3. requests' \in [Clients -> Requests]
      BY <2>1, <2>2, RequestTyped
    <2> QED
      BY <2>1, <2>3 DEF TypeOK
  <1>3. CASE Claim(c)
    <2> DEFINE picked == requests[c].picked
    <2>1. picked \in SUBSET Visits /\ "called" \in Statuses
      BY <1>0, <1>3, RequestFields DEF Claim, Statuses, VisitStatuses
    <2>2. /\ status' = [v \in Visits |-> IF v \in picked THEN "called" ELSE status[v]]
          /\ history' = Recorded(picked, "called")
          /\ Finish(c) /\ session' = session /\ slot' = slot
      BY <1>3 DEF Claim
    <2> HIDE DEF picked
    <2>3. status' \in [Visits -> Statuses]
      BY <2>1, <2>2 DEF TypeOK
    <2>4. history' \in [Visits -> [last : Statuses, replaced : BOOLEAN]]
      BY <2>1, <2>2, RecordedType
    <2> QED
      BY <2>2, <2>3, <2>4, FinishType DEF TypeOK
  <1>4. ASSUME NEW v \in Visits, BeginServe(c, v) PROVE TypeOK'
    <2>1. PICK r \in Requests :
            /\ requests' = [requests EXCEPT ![c] = r]
            /\ UNCHANGED <<session, status, slot, history>>
      BY <1>4, ServeBegins
    <2>2. requests' \in [Clients -> Requests]
      BY <2>1, RequestTyped
    <2> QED
      BY <2>1, <2>2 DEF TypeOK
  <1>5. CASE ChooseNext(c)
    <2>1. PICK r \in Requests :
            /\ requests' = [requests EXCEPT ![c] = r]
            /\ UNCHANGED <<session, status, slot, history>>
      BY <1>5, NextChosen
    <2>2. requests' \in [Clients -> Requests]
      BY <2>1, RequestTyped
    <2> QED
      BY <2>1, <2>2 DEF TypeOK
  <1>6. CASE ServeAndCallNext(c)
    <2> DEFINE picked == requests[c].picked
               served == requests[c].visit
    <2>1. /\ picked \in SUBSET Visits /\ served \in Visits
          /\ "called" \in Statuses /\ "served" \in Statuses
      BY <1>0, <1>6, RequestFields DEF ServeAndCallNext, Statuses, VisitStatuses
    <2>2. /\ status' = [v \in Visits |-> IF v = served THEN "served"
                                         ELSE IF v \in picked THEN "called" ELSE status[v]]
          /\ history' = [Recorded(picked, "called") EXCEPT ![served].last = "served"]
          /\ Finish(c) /\ session' = session /\ slot' = slot
      BY <1>6 DEF ServeAndCallNext
    <2> HIDE DEF picked, served
    <2>3. status' \in [Visits -> Statuses]
      BY <2>1, <2>2 DEF TypeOK
    <2>4. Recorded(picked, "called") \in [Visits -> [last : Statuses, replaced : BOOLEAN]]
      BY <2>1, RecordedType
    <2>5. history' \in [Visits -> [last : Statuses, replaced : BOOLEAN]]
      BY <2>1, <2>2, <2>4
    <2> QED
      BY <2>2, <2>3, <2>5, FinishType DEF TypeOK
  <1> QED
    BY <1>1, <1>2, <1>3, <1>4, <1>5, <1>6 DEF CallStep

\* A session is only carried on from a status that may still accept registration, and
\* forward but for reopening.
LEMMA SessionTargets ==
  ASSUME NEW seen \in SessionStatuses,
         NEW target \in AutomaticTargets(seen) \cup ManualTargets(seen)
  PROVE  /\ target \in {"registration_open", "registration_closed", "lottery_pending"}
         /\ seen \in MayAcceptSelfRegistration
         /\ \/ Stage[target] >= Stage[seen]
            \/ seen = "registration_closed" /\ target = "registration_open"
PROOF
  BY DEF SessionStatuses, AutomaticTargets, ManualTargets, SessionCommandSources,
     SessionCommandTarget, MayAcceptSelfRegistration, Stage

\* An ending takes the session's lock and finds everyone in line, on rows nobody holds.
LEMMA EndBegins ==
  ASSUME NEW c \in Clients, BeginEnd(c)
  PROVE  \E r \in Requests :
           /\ requests' = [requests EXCEPT ![c] = r]
           /\ r.step = "end" /\ r.resolved = StillInLine
           /\ ~SessionLocked /\ \A v \in r.resolved : ~RowLocked(v)
           /\ UNCHANGED <<session, status, slot, history>>
PROOF
  <1> DEFINE resolved == StillInLine
             r        == [step |-> "end", resolved |-> resolved]
  <1>1. resolved \in SUBSET Visits
    BY DEF StillInLine
  <1>2. /\ requests' = [requests EXCEPT ![c] = r] /\ ~SessionLocked
        /\ \A v \in resolved : ~RowLocked(v)
        /\ UNCHANGED <<session, status, slot, history>>
    BY DEF BeginEnd
  <1>3. r.resolved = StillInLine
    OBVIOUS
  <1> HIDE DEF resolved
  <1>4. r \in Requests
    BY <1>1 DEF Requests
  <1> QED
    BY <1>2, <1>3, <1>4

\* The draw, the other transitions and the end of a session keep every type.
LEMMA SessionType ==
  ASSUME TypeOK, LockHolderIsCurrent, NEW c \in Clients, SessionStep(c)
  PROVE  TypeOK'
PROOF
  <1>0. requests[c] \in Requests
    BY DEF TypeOK
  <1>1. CASE BeginDraw(c)
    <2> DEFINE pool     == {v \in Visits : status[v] = "registered"}
               reserved == Cardinality(Waiting)
               line     == [highestMain |-> HighestMain, highestPriority |-> HighestPriority,
                            highestOrder |-> HighestOrder, othersWaiting |-> Waiting # {}]
    <2>1. pool \in SUBSET Visits /\ line \in Lines
      BY HighestBounds DEF Lines
    <2>2. reserved \in Nat
      BY LineAssumption, FS_Subset, FS_CardinalityType DEF Waiting
    <2>3. Begin(c, [step |-> "draw", pool |-> pool, reserved |-> reserved, line |-> line])
      BY <1>1 DEF BeginDraw
    <2> HIDE DEF pool, reserved, line
    <2>4. [step |-> "draw", pool |-> pool, reserved |-> reserved, line |-> line] \in Requests
      BY <2>1, <2>2 DEF Requests
    <2> QED
      BY <2>3, <2>4, BeginType
  <1>2. ASSUME NEW winners \in SUBSET Visits, NEW rank \in Rankings(winners),
               Draw(c, winners, rank)
        PROVE  TypeOK'
    <2>1. /\ session' \in SessionStatuses
          /\ status' \in [Visits -> Statuses]
          /\ history' \in [Visits -> [last : Statuses, replaced : BOOLEAN]]
          /\ Finish(c)
      BY <1>2 DEF Draw, TypeOK, SessionCommandTarget, SessionStatuses, Statuses, VisitStatuses
    <2>2. \A v \in winners : DrawnSlot(slot[v], requests[c].line, rank[v]) \in Slots
      BY <1>2, DrawnSlots DEF Draw
    <2>3. slot' \in [Visits -> Slots]
      BY <1>2, <2>2 DEF Draw, TypeOK
    <2> QED
      BY <2>1, <2>3, FinishType
  <1>3. CASE ReadSession(c)
    <2>1. [step |-> "session", seen |-> session] \in Requests
      BY DEF Requests, TypeOK
    <2> QED
      BY <1>3, <2>1, BeginType DEF ReadSession
  <1>4. ASSUME NEW target \in SessionStatuses, MoveSession(c, target) PROVE TypeOK'
    BY <1>4, FinishType DEF MoveSession, TypeOK
  <1>5. CASE EndSession(c)
    <2> DEFINE resolved == requests[c].resolved
    <2>1. resolved \in SUBSET Visits /\ "cancelled" \in Statuses
      BY <1>0, <1>5, RequestFields DEF EndSession, Statuses, VisitStatuses
    <2>2. /\ status' = [v \in Visits |-> IF v \in resolved THEN "cancelled" ELSE status[v]]
          /\ history' = Recorded(resolved, "cancelled")
          /\ Finish(c) /\ session' = "ended" /\ slot' = slot
      BY <1>5 DEF EndSession
    <2> HIDE DEF resolved
    <2>3. status' \in [Visits -> Statuses]
      BY <2>1, <2>2 DEF TypeOK
    <2>4. history' \in [Visits -> [last : Statuses, replaced : BOOLEAN]]
      BY <2>1, <2>2, RecordedType
    <2> QED
      BY <2>2, <2>3, <2>4, FinishType DEF TypeOK, SessionStatuses
  <1>6. CASE BeginEnd(c)
    <2>1. PICK r \in Requests :
            /\ requests' = [requests EXCEPT ![c] = r]
            /\ UNCHANGED <<session, status, slot, history>>
      BY <1>6, EndBegins
    <2>2. requests' \in [Clients -> Requests]
      BY <2>1, RequestTyped
    <2> QED
      BY <2>1, <2>2 DEF TypeOK
  <1> QED
    BY <1>1, <1>2, <1>3, <1>4, <1>5, <1>6 DEF SessionStep

\* Giving a request up keeps every type.
LEMMA AbandonType ==
  ASSUME TypeOK, NEW c \in Clients, Abandon(c)
  PROVE  TypeOK'
PROOF
  BY FinishType DEF Abandon, TypeOK

\* So does a step that changes nothing.
LEMMA StutterType == TypeOK /\ UNCHANGED vars => TypeOK'
PROOF
  BY DEF TypeOK, vars

-----------------------------------------------------------------------------
(* The session's lock.  A step of a client takes the lock, releases it, or  *)
(* leaves the line alone.                                                   *)

\* Without the lock: no number, no place, and no read of the line.
LeavesLine(c) ==
  /\ slot' = slot
  /\ \E r \in Requests :
       requests' = [requests EXCEPT ![c] = r] /\ r.step \notin SessionLockSteps

\* SELECT ... FOR UPDATE, and what is read of the line or of its guests after it.
TakesLock(c) ==
  /\ slot' = slot
  /\ ~SessionLocked
  /\ \E r \in Requests :
       /\ requests' = [requests EXCEPT ![c] = r]
       /\ r.step \in PlacingSteps => /\ r.line.highestMain = HighestMain
                                     /\ r.line.highestPriority = HighestPriority
                                     /\ r.line.highestOrder = HighestOrder
                                     /\ r.step # "draw" => Issuable(1)
       /\ r.step = "draw" => /\ session = "lottery_pending"
                             /\ r.pool = {v \in Visits : status[v] = "registered"}
       /\ r.step = "end" => {v \in Visits : status[v] = "registered"} \subseteq r.resolved
       /\ r.step = "admit" => session # "ended"
       /\ UNCHANGED <<session, status>>

\* The commit.
ReleasesLock(c) == requests[c].step \in SessionLockSteps /\ Finish(c)

\* A request that ends without a place leaves the line and its lock alone.
LEMMA FinishLeavesLine ==
  ASSUME NEW c \in Clients, Finish(c), slot' = slot
  PROVE  LeavesLine(c)
PROOF
  BY IdleIsRequest DEF Finish, LeavesLine, Idle, SessionLockSteps, PlacingSteps

\* A request that begins without the lock leaves the line and its lock alone.
LEMMA BeginLeavesLine ==
  ASSUME NEW c \in Clients, NEW r \in Requests, Begin(c, r), r.step \notin SessionLockSteps
  PROVE  LeavesLine(c)
PROOF
  BY DEF Begin, LeavesLine

\* Every step takes the lock, releases it or leaves the line alone.
LEMMA LineSteps ==
  ASSUME TypeOK, NEW c \in Clients,
         \/ GuestStep(c) \/ AdmitStep(c) \/ CommandStep(c)
         \/ CallStep(c) \/ SessionStep(c) \/ Abandon(c)
  PROVE  LeavesLine(c) \/ TakesLock(c) \/ ReleasesLock(c)
PROOF
  <1>0. requests[c] \in Requests /\ requests = [requests EXCEPT ![c] = requests[c]]
    BY DEF TypeOK
  <1>1. ASSUME NEW v \in Visits, ReadRegistration(c, v) PROVE LeavesLine(c)
    <2>1. [step |-> "register", visit |-> v, seen |-> status[v]] \in Requests
      BY DEF TypeOK, Requests
    <2> QED
      BY <1>1, <2>1, BeginLeavesLine DEF ReadRegistration, SessionLockSteps, PlacingSteps
  <1>2. ASSUME NEW v \in Visits, ReadCancel(c, v) PROVE LeavesLine(c)
    <2>1. [step |-> "cancel", visit |-> v] \in Requests
      BY DEF Requests
    <2> QED
      BY <1>2, <2>1, BeginLeavesLine DEF ReadCancel, SessionLockSteps, PlacingSteps
  <1>3. CASE Register(c) \/ Cancel(c)
    BY <1>3, FinishLeavesLine DEF Register, Cancel
  <1>4. ASSUME NEW v \in Visits, NEW admission \in {"lottery", "served"},
               AdmitWithoutPlace(c, v, admission)
        PROVE  LeavesLine(c)
    BY <1>0, <1>4 DEF AdmitWithoutPlace, LeavesLine, Idle, SessionLockSteps, PlacingSteps
  <1>5. ASSUME NEW v \in Visits, NEW placement \in Placements, BeginAdmit(c, v, placement)
        PROVE  TakesLock(c)
    <2> DEFINE line == LineFor(v)
               r    == [step |-> "admit", visit |-> v, placement |-> placement, line |-> line]
    <2>1. line \in Lines
      BY LineForType
    <2>2. /\ line.highestMain = HighestMain
          /\ line.highestPriority = HighestPriority
          /\ line.highestOrder = HighestOrder
      BY DEF LineFor
    <2>3. Begin(c, r) /\ ~SessionLocked /\ Issuable(1) /\ session # "ended"
      BY <1>5 DEF BeginAdmit, AdmissionsFor
    <2> HIDE DEF line
    <2>4. r \in Requests /\ r.step = "admit"
      BY <2>1 DEF Requests
    <2> QED
      BY <2>2, <2>3, <2>4 DEF Begin, TakesLock
  <1>6. CASE Admit(c)
    BY <1>6 DEF Admit, ReleasesLock, SessionLockSteps, PlacingSteps
  <1>7. ASSUME NEW v \in Visits, NEW command \in VisitCommands, ReadCommand(c, v, command)
        PROVE  LeavesLine(c)
    <2> DEFINE r == [step |-> "command", visit |-> v, command |-> command,
                     seen |-> status[v], held |-> NumberOf(slot[v])]
    <2>1. NumberOf(slot[v]) \in HeldNumbers
      BY NumberOfType DEF TypeOK
    <2>2. status[v] \in VisitStatuses
      BY <1>7 DEF ReadCommand, VisitCommands, VisitCommandSources, VisitStatuses
    <2>3. r \in Requests
      BY <2>1, <2>2 DEF Requests
    <2> QED
      BY <1>7, <2>3, BeginLeavesLine DEF ReadCommand, SessionLockSteps, PlacingSteps
  <1>8. CASE RunCommand(c)
    BY <1>8, FinishLeavesLine DEF RunCommand
  <1>9. ASSUME NEW placement \in Placements, BeginPlace(c, placement) PROVE TakesLock(c)
    <2> DEFINE v    == requests[c].visit
               line == LineFor(v)
               seen == requests[c].seen
               held == requests[c].held
               r    == [step |-> "place", visit |-> v, seen |-> seen, held |-> held,
                        placement |-> placement, line |-> line]
    <2>1. v \in Visits /\ seen \in VisitStatuses /\ held \in HeldNumbers
      BY <1>0, <1>9, RequestFields DEF BeginPlace
    <2>2. line \in Lines
      BY <2>1, LineForType
    <2>3. /\ line.highestMain = HighestMain
          /\ line.highestPriority = HighestPriority
          /\ line.highestOrder = HighestOrder
      BY DEF LineFor
    <2>4. /\ requests' = [requests EXCEPT ![c] = r]
          /\ UNCHANGED <<session, status, slot>> /\ ~SessionLocked /\ Issuable(1)
      BY <1>9 DEF BeginPlace
    <2> HIDE DEF v, line, seen, held
    <2>5. r \in Requests /\ r.step = "place"
      BY <2>1, <2>2 DEF Requests
    <2> QED
      BY <2>3, <2>4, <2>5 DEF TakesLock
  <1>10. CASE PlaceBack(c)
    BY <1>10 DEF PlaceBack, ReleasesLock, SessionLockSteps, PlacingSteps
  <1>11. CASE ReadCallNext(c)
    <2>1. [step |-> "call"] \in Requests
      BY DEF Requests
    <2> QED
      BY <1>11, <2>1, BeginLeavesLine DEF ReadCallNext, SessionLockSteps, PlacingSteps
  <1>12. ASSUME NEW count \in BatchSizes, PickNext(c, count) PROVE LeavesLine(c)
    <2>1. PICK picked \in SUBSET Visits :
            /\ requests' = [requests EXCEPT ![c] = [step |-> "claim", picked |-> picked]]
            /\ UNCHANGED <<session, status, slot, history>>
      BY <1>12 DEF PickNext
    <2>2. [step |-> "claim", picked |-> picked] \in Requests
      BY DEF Requests
    <2> QED
      BY <2>1, <2>2 DEF LeavesLine, SessionLockSteps, PlacingSteps
  <1>13. ASSUME (\E v \in Visits : BeginServe(c, v)) \/ ChooseNext(c) PROVE LeavesLine(c)
    <2>1. PICK r \in Requests :
            /\ requests' = [requests EXCEPT ![c] = r] /\ r.step = "serve"
            /\ UNCHANGED <<session, status, slot, history>>
      BY <1>13, ServeBegins, NextChosen
    <2> QED
      BY <2>1 DEF LeavesLine, SessionLockSteps, PlacingSteps
  <1>14. CASE Claim(c) \/ ServeAndCallNext(c)
    BY <1>14, FinishLeavesLine DEF Claim, ServeAndCallNext
  <1>15. CASE BeginDraw(c)
    <2> DEFINE pool     == {v \in Visits : status[v] = "registered"}
               reserved == Cardinality(Waiting)
               line     == [highestMain |-> HighestMain, highestPriority |-> HighestPriority,
                            highestOrder |-> HighestOrder, othersWaiting |-> Waiting # {}]
               r        == [step |-> "draw", pool |-> pool, reserved |-> reserved,
                            line |-> line]
    <2>1. pool \in SUBSET Visits /\ line \in Lines
      BY HighestBounds DEF Lines
    <2>2. reserved \in Nat
      BY LineAssumption, FS_Subset, FS_CardinalityType DEF Waiting
    <2>3. /\ line.highestMain = HighestMain
          /\ line.highestPriority = HighestPriority
          /\ line.highestOrder = HighestOrder
      OBVIOUS
    <2>4. Begin(c, r) /\ ~SessionLocked /\ session = "lottery_pending"
      BY <1>15 DEF BeginDraw, SessionCommandSources
    <2>5. pool = {v \in Visits : status[v] = "registered"}
      OBVIOUS
    <2> HIDE DEF pool, reserved, line
    <2>6. r \in Requests /\ r.step = "draw"
      BY <2>1, <2>2 DEF Requests
    <2> QED
      BY <2>3, <2>4, <2>5, <2>6 DEF Begin, TakesLock
  <1>16. ASSUME NEW winners \in SUBSET Visits, NEW rank \in Rankings(winners),
                Draw(c, winners, rank)
         PROVE  ReleasesLock(c)
    BY <1>16 DEF Draw, ReleasesLock, SessionLockSteps, PlacingSteps
  <1>17. CASE ReadSession(c)
    <2>1. [step |-> "session", seen |-> session] \in Requests
      BY DEF Requests, TypeOK
    <2> QED
      BY <1>17, <2>1, BeginLeavesLine DEF ReadSession, SessionLockSteps, PlacingSteps
  <1>18. ASSUME NEW target \in SessionStatuses, MoveSession(c, target) PROVE LeavesLine(c)
    BY <1>18, FinishLeavesLine DEF MoveSession
  <1>19. CASE BeginEnd(c)
    <2>1. PICK r \in Requests :
            /\ requests' = [requests EXCEPT ![c] = r]
            /\ r.step = "end" /\ r.resolved = StillInLine /\ ~SessionLocked
            /\ UNCHANGED <<session, status, slot>>
      BY <1>19, EndBegins
    <2>2. {v \in Visits : status[v] = "registered"} \subseteq StillInLine
      BY DEF StillInLine, StillInLineStatuses
    <2> QED
      BY <2>1, <2>2 DEF TakesLock, PlacingSteps
  <1>20. CASE EndSession(c)
    BY <1>20 DEF EndSession, ReleasesLock, SessionLockSteps, PlacingSteps
  <1>21. CASE Abandon(c)
    BY <1>21, FinishLeavesLine DEF Abandon
  <1>22. CASE GuestStep(c)
    BY <1>22, <1>1, <1>2, <1>3 DEF GuestStep
  <1>23. CASE AdmitStep(c)
    BY <1>23, <1>4, <1>5, <1>6 DEF AdmitStep
  <1>24. CASE CommandStep(c)
    BY <1>24, <1>7, <1>8, <1>9, <1>10 DEF CommandStep
  <1>25. CASE CallStep(c)
    BY <1>25, <1>11, <1>12, <1>13, <1>14 DEF CallStep
  <1>26. CASE SessionStep(c)
    BY <1>26, <1>15, <1>16, <1>17, <1>18, <1>19, <1>20 DEF SessionStep
  <1> QED
    BY <1>21, <1>22, <1>23, <1>24, <1>25, <1>26

\* While the slots stay, so do the highest of each column and the room left.
LEMMA SameHighest ==
  ASSUME slot' = slot
  PROVE  /\ HighestMain' = HighestMain
         /\ HighestPriority' = HighestPriority
         /\ HighestOrder' = HighestOrder
         /\ Issuable(1) => Issuable(1)'
PROOF
  <1>1. /\ HighestMain' = HighestMain
        /\ HighestPriority' = HighestPriority
        /\ HighestOrder' = HighestOrder
    BY DEF HighestMain, HighestPriority, HighestOrder
  <1> QED
    BY <1>1 DEF Issuable

\* The lock has one holder, and what the holder read is still so: only a holder writes the
\* line, and its commit is the end of its lock.
LEMMA LockKept ==
  ASSUME TypeOK, OneLockHolder, LockHolderIsCurrent, NEW c \in Clients,
         LeavesLine(c) \/ TakesLock(c) \/ ReleasesLock(c)
  PROVE  OneLockHolder' /\ LockHolderIsCurrent'
PROOF
  <1>0. requests \in [Clients -> Requests]
    BY DEF TypeOK
  <1>1. CASE LeavesLine(c)
    <2>1. PICK r \in Requests :
            requests' = [requests EXCEPT ![c] = r] /\ r.step \notin SessionLockSteps
      BY <1>1 DEF LeavesLine
    <2>2. \A d \in Clients : requests'[d].step \in SessionLockSteps =>
                             d # c /\ requests'[d] = requests[d]
      BY <1>0, <2>1
    <2>3. slot' = slot
      BY <1>1 DEF LeavesLine
    <2>4. OneLockHolder'
      BY <2>2 DEF OneLockHolder
    <2>5. LockHolderIsCurrent'
      BY <2>2, <2>3, SameHighest DEF LockHolderIsCurrent, SessionLockSteps
    <2> QED
      BY <2>4, <2>5
  <1>2. CASE TakesLock(c)
    <2>1. PICK r \in Requests :
            /\ requests' = [requests EXCEPT ![c] = r]
            /\ r.step \in PlacingSteps => /\ r.line.highestMain = HighestMain
                                          /\ r.line.highestPriority = HighestPriority
                                          /\ r.line.highestOrder = HighestOrder
                                          /\ r.step # "draw" => Issuable(1)
      BY <1>2 DEF TakesLock
    <2>2. slot' = slot /\ \A d \in Clients : requests[d].step \notin SessionLockSteps
      BY <1>2 DEF TakesLock, SessionLocked
    <2>3. \A d \in Clients : requests'[d].step \in SessionLockSteps =>
                             d = c /\ requests'[d] = r
      BY <1>0, <2>1, <2>2
    <2>4. OneLockHolder'
      BY <2>3 DEF OneLockHolder
    <2>5. LockHolderIsCurrent'
      <3> SUFFICES ASSUME NEW d \in Clients, requests'[d].step \in PlacingSteps
                   PROVE  /\ requests'[d].line.highestMain = HighestMain'
                          /\ requests'[d].line.highestPriority = HighestPriority'
                          /\ requests'[d].line.highestOrder = HighestOrder'
                          /\ requests'[d].step # "draw" => Issuable(1)'
        BY DEF LockHolderIsCurrent
      <3>1. requests'[d] = r
        BY <2>3 DEF SessionLockSteps
      <3>2. /\ HighestMain' = HighestMain /\ HighestPriority' = HighestPriority
            /\ HighestOrder' = HighestOrder /\ (Issuable(1) => Issuable(1)')
        BY <2>2, SameHighest
      <3> QED
        BY <2>1, <3>1, <3>2
    <2> QED
      BY <2>4, <2>5
  <1>3. CASE ReleasesLock(c)
    <2>1. \A d \in Clients : requests[d].step \in SessionLockSteps => d = c
      BY <1>3 DEF ReleasesLock, OneLockHolder
    <2>2. \A d \in Clients : requests'[d].step \notin SessionLockSteps
      BY <1>0, <1>3, <2>1 DEF ReleasesLock, Finish, Idle, SessionLockSteps, PlacingSteps
    <2> QED
      BY <2>2 DEF OneLockHolder, LockHolderIsCurrent, SessionLockSteps
  <1> QED
    BY <1>1, <1>2, <1>3

-----------------------------------------------------------------------------
(* The draw's pool and the session's status.                                *)

\* A visit, once there, stays, and one not there keeps its empty slot.
VisitsStay ==
  \A v \in Visits : status'[v] = "none" => status[v] = "none" /\ slot'[v] = slot[v]

\* A visit becomes registered only while registration may still be open, and by a step
\* that waits for the session's lock and leaves the session alone.
RegistersInTime ==
  \A v \in Visits : status'[v] = "registered" =>
    \/ status[v] = "registered"
    \/ ~SessionLocked /\ session \in MayAcceptSelfRegistration /\ session' = session

\* The session stays, or is carried on by a row's guarded UPDATE, drawn, or ended.
Carried ==
  /\ ~SessionLocked
  /\ session \in MayAcceptSelfRegistration
  /\ session' \in {"registration_open", "registration_closed", "lottery_pending"}
  /\ \/ Stage[session'] >= Stage[session]
     \/ session = "registration_closed" /\ session' = "registration_open"

Drawn(c) ==
  /\ requests[c].step = "draw"
  /\ Finish(c)
  /\ session' = "service_started"
  /\ \A v \in requests[c].pool : status'[v] # "registered"

Ended(c) ==
  /\ requests[c].step = "end"
  /\ Finish(c)
  /\ session' = "ended"
  /\ \A v \in requests[c].resolved : status'[v] # "registered"

SessionSteps(c) == session' = session \/ Carried \/ Drawn(c) \/ Ended(c)

\* A guest on a phone registers in time and does not move the session.
LEMMA GuestEffect ==
  ASSUME TypeOK, NEW c \in Clients, GuestStep(c)
  PROVE  VisitsStay /\ RegistersInTime /\ session' = session
PROOF
  <1>0. requests[c] \in Requests /\ status \in [Visits -> Statuses]
    BY DEF TypeOK
  <1>1. CASE UNCHANGED <<session, status, slot, history>>
    BY <1>1 DEF VisitsStay, RegistersInTime
  <1>2. CASE Register(c)
    <2>1. PICK v \in Visits, target \in Statuses :
            /\ target # "none" \/ status[v] = "none"
            /\ status' = With(v, target)
      BY <1>2, RegisterWrites
    <2>2. ~SessionLocked /\ session \in MayAcceptSelfRegistration /\ UNCHANGED <<session, slot>>
      BY <1>2 DEF Register, StillAccepts
    <2> QED
      BY <1>0, <2>1, <2>2 DEF With, VisitsStay, RegistersInTime
  <1>3. CASE Cancel(c)
    BY <1>0, <1>3, RequestFields DEF Cancel, With, VisitsStay, RegistersInTime
  <1> QED
    BY <1>1, <1>2, <1>3 DEF GuestStep, ReadRegistration, ReadCancel, Begin

\* A guest added by hand is registered in time, and the session is not moved.
LEMMA AdmitEffect ==
  ASSUME TypeOK, NEW c \in Clients, AdmitStep(c)
  PROVE  VisitsStay /\ RegistersInTime /\ session' = session
PROOF
  <1>0. /\ requests[c] \in Requests /\ status \in [Visits -> Statuses]
        /\ slot \in [Visits -> Slots] /\ session \in SessionStatuses
    BY DEF TypeOK
  <1>1. ASSUME NEW v \in Visits, NEW placement \in Placements, BeginAdmit(c, v, placement)
        PROVE  VisitsStay /\ RegistersInTime /\ session' = session
    BY <1>1 DEF BeginAdmit, Begin, VisitsStay, RegistersInTime
  <1>2. ASSUME NEW v \in Visits, NEW admission \in {"lottery", "served"},
               AdmitWithoutPlace(c, v, admission)
        PROVE  VisitsStay /\ RegistersInTime /\ session' = session
    <2>1. /\ admission = "lottery" => session \in MayAcceptSelfRegistration
          /\ AdmissionVisitStatus[admission] \in {"registered", "served"}
          /\ AdmissionVisitStatus[admission] = "registered" => admission = "lottery"
      BY <1>0, <1>2 DEF AdmitWithoutPlace, AdmissionsFor, SessionStatuses,
         MayAcceptSelfRegistration, AdmissionVisitStatus
    <2>2. /\ status' = [status EXCEPT ![v] = AdmissionVisitStatus[admission]]
          /\ slot' = slot /\ session' = session /\ ~SessionLocked
      BY <1>2 DEF AdmitWithoutPlace, With
    <2> QED
      BY <1>0, <2>1, <2>2 DEF VisitsStay, RegistersInTime
  <1>3. CASE Admit(c)
    <2>1. requests[c].visit \in Visits
      BY <1>0, <1>3, RequestFields DEF Admit
    <2>2. /\ status' = [status EXCEPT ![requests[c].visit] = "waiting"]
          /\ slot' = [slot EXCEPT ![requests[c].visit] =
                        Place(requests[c].line, requests[c].placement, NoNumber)]
          /\ session' = session
      BY <1>3 DEF Admit, With, AdmissionVisitStatus
    <2> QED
      BY <1>0, <2>1, <2>2 DEF VisitsStay, RegistersInTime
  <1> QED
    BY <1>1, <1>2, <1>3 DEF AdmitStep

\* No command registers a visit or removes it.
LEMMA CommandTargets ==
  ASSUME NEW command \in VisitCommands
  PROVE  VisitCommandTarget[command] \notin {"none", "registered"}
PROOF
  BY DEF VisitCommands, VisitCommandTarget

\* Commands register nobody and do not move the session.
LEMMA CommandEffect ==
  ASSUME TypeOK, NEW c \in Clients, CommandStep(c)
  PROVE  VisitsStay /\ RegistersInTime /\ session' = session
PROOF
  <1>0. /\ requests[c] \in Requests /\ status \in [Visits -> Statuses]
        /\ slot \in [Visits -> Slots]
    BY DEF TypeOK
  <1>1. CASE UNCHANGED <<session, status, slot, history>>
    BY <1>1 DEF VisitsStay, RegistersInTime
  <1>2. CASE RunCommand(c)
    <2>1. /\ requests[c].visit \in Visits
          /\ VisitCommandTarget[requests[c].command] \notin {"none", "registered"}
      BY <1>0, <1>2, RequestFields, CommandTargets DEF RunCommand
    <2>2. /\ status' = [status EXCEPT ![requests[c].visit] =
                           VisitCommandTarget[requests[c].command]]
          /\ slot' = slot /\ session' = session
      BY <1>2 DEF RunCommand, With
    <2> QED
      BY <1>0, <2>1, <2>2 DEF VisitsStay, RegistersInTime
  <1>3. CASE PlaceBack(c)
    <2>1. requests[c].visit \in Visits
      BY <1>0, <1>3, RequestFields DEF PlaceBack
    <2>2. /\ status' = [status EXCEPT ![requests[c].visit] = "waiting"]
          /\ slot' = [slot EXCEPT ![requests[c].visit] =
                        Place(requests[c].line, requests[c].placement, requests[c].held)]
          /\ session' = session
      BY <1>3 DEF PlaceBack, With
    <2> QED
      BY <1>0, <2>1, <2>2 DEF VisitsStay, RegistersInTime
  <1> QED
    BY <1>1, <1>2, <1>3 DEF CommandStep, ReadCommand, BeginPlace, Begin

\* Calling and serving register nobody and do not move the session.
LEMMA CallEffect ==
  ASSUME TypeOK, NEW c \in Clients, CallStep(c)
  PROVE  VisitsStay /\ RegistersInTime /\ session' = session
PROOF
  <1>1. CASE UNCHANGED <<session, status, slot, history>>
    BY <1>1 DEF VisitsStay, RegistersInTime
  <1>2. CASE Claim(c)
    BY <1>2 DEF Claim, VisitsStay, RegistersInTime
  <1>3. CASE ServeAndCallNext(c)
    BY <1>3 DEF ServeAndCallNext, VisitsStay, RegistersInTime
  <1> QED
    BY <1>1, <1>2, <1>3 DEF CallStep, ReadCallNext, PickNext, BeginServe, ChooseNext, Begin

\* The session steps register nobody; they carry the session on, draw or end it.
LEMMA SessionEffect ==
  ASSUME TypeOK, NEW c \in Clients, SessionStep(c)
  PROVE  VisitsStay /\ RegistersInTime /\ SessionSteps(c)
PROOF
  <1>0. /\ requests[c] \in Requests /\ status \in [Visits -> Statuses]
    BY DEF TypeOK
  <1>1. CASE BeginDraw(c) \/ ReadSession(c) \/ BeginEnd(c)
    BY <1>1 DEF BeginDraw, ReadSession, BeginEnd, Begin, VisitsStay, RegistersInTime, SessionSteps
  <1>2. ASSUME NEW winners \in SUBSET Visits, NEW rank \in Rankings(winners),
               Draw(c, winners, rank)
        PROVE  VisitsStay /\ RegistersInTime /\ SessionSteps(c)
    <2>1. requests[c].pool \subseteq Visits
      BY <1>0, <1>2, RequestFields DEF Draw
    <2>2. VisitsStay
      BY <1>2 DEF Draw, VisitsStay
    <2>3. RegistersInTime
      BY <1>2 DEF Draw, RegistersInTime
    <2>4. Drawn(c)
      BY <1>2, <2>1 DEF Draw, Drawn, SessionCommandTarget
    <2> QED
      BY <2>2, <2>3, <2>4 DEF SessionSteps
  <1>3. ASSUME NEW target \in SessionStatuses, MoveSession(c, target)
        PROVE  VisitsStay /\ RegistersInTime /\ SessionSteps(c)
    <2>1. requests[c].seen \in SessionStatuses /\ session = requests[c].seen
      BY <1>0, <1>3, RequestFields DEF MoveSession, Unmoved
    <2>2. Carried
      BY <1>3, <2>1, SessionTargets DEF MoveSession, Carried
    <2> QED
      BY <1>3, <2>2 DEF MoveSession, VisitsStay, RegistersInTime, SessionSteps
  <1>4. CASE EndSession(c)
    <2>1. requests[c].resolved \subseteq Visits
      BY <1>0, <1>4, RequestFields DEF EndSession
    <2>2. Ended(c)
      BY <1>4, <2>1 DEF EndSession, Ended
    <2>3. VisitsStay /\ RegistersInTime
      BY <1>4 DEF EndSession, VisitsStay, RegistersInTime
    <2> QED
      BY <2>2, <2>3 DEF SessionSteps
  <1> QED
    BY <1>1, <1>2, <1>3, <1>4 DEF SessionStep

\* One client's step: what every action has in common.
ClientStep(c) ==
  \/ GuestStep(c) \/ AdmitStep(c) \/ CommandStep(c)
  \/ CallStep(c) \/ SessionStep(c) \/ Abandon(c)

\* What every step does to visits and to the session.
LEMMA StepEffect ==
  ASSUME TypeOK, NEW c \in Clients, ClientStep(c)
  PROVE  VisitsStay /\ RegistersInTime /\ SessionSteps(c)
PROOF
  <1>1. CASE Abandon(c)
    BY <1>1 DEF Abandon, VisitsStay, RegistersInTime, SessionSteps
  <1> QED
    BY <1>1, GuestEffect, AdmitEffect, CommandEffect, CallEffect, SessionEffect
       DEF ClientStep, SessionSteps

\* Every step keeps every type.
LEMMA StepType ==
  ASSUME TypeOK, LockHolderIsCurrent, NEW c \in Clients, ClientStep(c)
  PROVE  TypeOK'
PROOF
  BY GuestType, AdmitType, CommandType, CallType, SessionType, AbandonType DEF ClientStep

\* While a request holds the lock nothing else moves the session or registers a guest.
LEMMA PoolStaysComplete ==
  ASSUME DayInv, NEW c \in Clients, ClientStep(c)
  PROVE  PoolIsComplete' /\ AdmitsInTime'
PROOF
  <1> SUFFICES ASSUME NEW d \in Clients, requests'[d].step \in {"draw", "end", "admit"}
               PROVE  /\ requests'[d].step = "draw" =>
                           /\ session' = "lottery_pending"
                           /\ {v \in Visits : status'[v] = "registered"} \subseteq requests'[d].pool
                      /\ requests'[d].step = "end" =>
                           {v \in Visits : status'[v] = "registered"} \subseteq requests'[d].resolved
                      /\ requests'[d].step = "admit" => session' # "ended"
    BY DEF PoolIsComplete, AdmitsInTime
  <1>0. /\ TypeOK /\ OneLockHolder /\ PoolIsComplete /\ AdmitsInTime
        /\ requests \in [Clients -> Requests]
        /\ {"draw", "end", "admit"} \subseteq SessionLockSteps
    BY DEF DayInv, TypeOK, SessionLockSteps, PlacingSteps
  <1>1. VisitsStay /\ RegistersInTime /\ SessionSteps(c)
    BY <1>0, StepEffect
  <1>2. CASE requests'[d] = requests[d]
    <2>1. SessionLocked
      BY <1>0, <1>2 DEF SessionLocked
    <2>2. \A v \in Visits : status'[v] = "registered" => status[v] = "registered"
      BY <1>1, <2>1 DEF RegistersInTime
    <2>3. ~Drawn(c) /\ ~Ended(c)
      <3> SUFFICES ASSUME Drawn(c) \/ Ended(c) PROVE FALSE
        OBVIOUS
      <3>1. requests[c].step \in SessionLockSteps /\ requests[d].step \in SessionLockSteps
        BY <1>0, <1>2 DEF Drawn, Ended
      <3>2. c = d
        BY <3>1, <1>0 DEF OneLockHolder
      <3>3. requests'[d] = Idle
        BY <1>0, <3>2 DEF Drawn, Ended, Finish
      <3> QED
        BY <3>3 DEF Idle
    <2>4. session' = session
      BY <1>1, <2>1, <2>3 DEF SessionSteps, Carried
    <2> QED
      BY <1>0, <1>2, <2>2, <2>4 DEF PoolIsComplete, AdmitsInTime
  <1>3. CASE requests'[d] # requests[d]
    <2>1. LeavesLine(c) \/ TakesLock(c) \/ ReleasesLock(c)
      BY <1>0, LineSteps DEF ClientStep
    <2>2. ~LeavesLine(c)
      BY <1>0, <1>3 DEF LeavesLine
    <2>3. ~ReleasesLock(c)
      BY <1>0, <1>3 DEF ReleasesLock, Finish, Idle
    <2>4. PICK r \in Requests :
            /\ requests' = [requests EXCEPT ![c] = r]
            /\ r.step = "draw" => /\ session = "lottery_pending"
                                  /\ r.pool = {v \in Visits : status[v] = "registered"}
            /\ r.step = "end" => {v \in Visits : status[v] = "registered"} \subseteq r.resolved
            /\ r.step = "admit" => session # "ended"
            /\ UNCHANGED <<session, status>>
      BY <2>1, <2>2, <2>3 DEF TakesLock
    <2>5. requests'[d] = r
      BY <1>0, <1>3, <2>4
    <2> QED
      BY <2>4, <2>5
  <1> QED
    BY <1>2, <1>3

\* No step leaves a registered visit in a session drawn or ended: the draw's pool was
\* complete, and nobody registers any more.
LEMMA NobodyStaysRegistered ==
  ASSUME DayInv, NEW c \in Clients, ClientStep(c)
  PROVE  NobodyLeftRegistered'
PROOF
  <1> SUFFICES ASSUME session' \in {"service_started", "ended"},
                      NEW v \in Visits, status'[v] = "registered"
               PROVE  FALSE
    BY DEF NobodyLeftRegistered
  <1>0. TypeOK /\ PoolIsComplete /\ NobodyLeftRegistered
    BY DEF DayInv
  <1>1. VisitsStay /\ RegistersInTime /\ SessionSteps(c)
    BY <1>0, StepEffect
  <1>2. CASE session' = session
    <2>1. status[v] = "registered"
      BY <1>1, <1>2 DEF RegistersInTime, MayAcceptSelfRegistration
    <2> QED
      BY <1>0, <1>2, <2>1 DEF NobodyLeftRegistered
  <1>3. CASE Carried
    BY <1>3 DEF Carried
  <1>4. CASE Drawn(c)
    <2>1. v \notin requests[c].pool
      BY <1>4 DEF Drawn
    <2>2. session = "lottery_pending" /\ status[v] # "registered"
      BY <1>0, <1>4, <2>1 DEF Drawn, PoolIsComplete
    <2> QED
      BY <1>1, <2>2 DEF RegistersInTime, MayAcceptSelfRegistration
  <1>5. CASE Ended(c)
    <2>1. v \notin requests[c].resolved
      BY <1>5 DEF Ended
    <2>2. status[v] # "registered"
      BY <1>0, <1>5, <2>1 DEF Ended, PoolIsComplete
    <2> QED
      BY <1>1, <1>5, <2>2 DEF RegistersInTime, MayAcceptSelfRegistration, Ended
  <1> QED
    BY <1>1, <1>2, <1>3, <1>4, <1>5 DEF SessionSteps

\* The inductive invariant holds initially ...
LEMMA DayInit == Init => DayInv
PROOF
  <1> SUFFICES ASSUME Init PROVE DayInv
    OBVIOUS
  <1>1. NotInLine \in Slots
    BY LineAssumption DEF NotInLine, Slots
  <1>2. TypeOK
    BY <1>1, IdleIsRequest DEF Init, TypeOK, SessionStatuses, Statuses
  <1>3. \A c \in Clients : requests[c].step = "idle"
    BY DEF Init, Idle
  <1>4. OneLockHolder /\ LockHolderIsCurrent /\ PoolIsComplete /\ AdmitsInTime
    BY <1>3 DEF OneLockHolder, LockHolderIsCurrent, PoolIsComplete, AdmitsInTime,
       SessionLockSteps, PlacingSteps
  <1>5. NoVisitNoSlot /\ NobodyLeftRegistered
    BY DEF Init, NoVisitNoSlot, NobodyLeftRegistered
  <1> QED
    BY <1>2, <1>4, <1>5 DEF DayInv

\* ... and every step keeps it.
LEMMA DayInductive == DayInv /\ [Next]_vars => DayInv'
PROOF
  <1>1. ASSUME DayInv, NEW c \in Clients, ClientStep(c) PROVE DayInv'
    <2>0. TypeOK /\ OneLockHolder /\ LockHolderIsCurrent /\ NoVisitNoSlot
      BY <1>1 DEF DayInv
    <2>1. TypeOK'
      BY <1>1, <2>0, StepType
    <2>2. OneLockHolder' /\ LockHolderIsCurrent'
      BY <1>1, <2>0, LineSteps, LockKept DEF ClientStep
    <2>3. NoVisitNoSlot'
      BY <1>1, <2>0, StepEffect DEF VisitsStay, NoVisitNoSlot
    <2>4. PoolIsComplete' /\ AdmitsInTime' /\ NobodyLeftRegistered'
      BY <1>1, PoolStaysComplete, NobodyStaysRegistered
    <2> QED
      BY <2>1, <2>2, <2>3, <2>4 DEF DayInv
  <1>2. ASSUME DayInv, UNCHANGED vars PROVE DayInv'
    <2>0. UNCHANGED <<session, status, slot, history, requests>>
      BY <1>2 DEF vars
    <2>1. TypeOK'
      BY <1>2, StutterType DEF DayInv
    <2>2. /\ OneLockHolder' /\ NoVisitNoSlot' /\ PoolIsComplete' /\ AdmitsInTime'
          /\ NobodyLeftRegistered'
      BY <1>2, <2>0 DEF DayInv, OneLockHolder, NoVisitNoSlot, PoolIsComplete, AdmitsInTime,
         NobodyLeftRegistered
    <2>3. LockHolderIsCurrent'
      BY <1>2, <2>0, SameHighest DEF DayInv, LockHolderIsCurrent
    <2> QED
      BY <2>1, <2>2, <2>3 DEF DayInv
  <1> QED
    BY <1>1, <1>2 DEF Next, ClientStep

\* The inductive invariant holds of every market day.
THEOREM DayInvariant == Spec => []DayInv
PROOF
  BY DayInit, DayInductive, PTL DEF Spec

\* Every variable keeps its type.
THEOREM TypeCorrect == Spec => []TypeOK
PROOF
  <1>1. DayInv => TypeOK
    BY DEF DayInv
  <1> QED
    BY <1>1, DayInvariant, PTL

\* What was read of the line under the session's lock is still true at the commit.
THEOREM LockHolderStaysCurrent == Spec => []LockHolderIsCurrent
PROOF
  <1>1. DayInv => LockHolderIsCurrent
    BY DEF DayInv
  <1> QED
    BY <1>1, DayInvariant, PTL

\* Once the draw has run nobody is left registered.
THEOREM DrawLeavesNobodyRegistered == Spec => []NobodyLeftRegistered
PROOF
  <1>1. DayInv => NobodyLeftRegistered
    BY DEF DayInv
  <1> QED
    BY <1>1, DayInvariant, PTL

\* Once registration is over no visit becomes registered, whatever was read before.
THEOREM PoolStaysFrozen == Spec => PoolIsFrozen
PROOF
  <1> DEFINE Frozen == session \notin MayAcceptSelfRegistration =>
                         \A v \in Visits : status'[v] = "registered" => status[v] = "registered"
  <1>1. DayInv /\ [Next]_vars => [Frozen]_vars
    <2> SUFFICES ASSUME DayInv, NEW c \in Clients, ClientStep(c) PROVE Frozen
      BY DEF Next, ClientStep
    <2> QED
      BY StepEffect DEF DayInv, RegistersInTime
  <1> QED
    BY <1>1, DayInvariant, PTL DEF Spec, PoolIsFrozen

\* The session's status never goes back, but for reopening registration.
THEOREM SessionGoesForward == Spec => SessionNeverRewinds
PROOF
  <1> DEFINE Forward == \/ Stage[session'] >= Stage[session]
                        \/ session = "registration_closed" /\ session' = "registration_open"
  <1>1. DayInv /\ [Next]_vars => [Forward]_vars
    <2> SUFFICES ASSUME DayInv, NEW c \in Clients, ClientStep(c) PROVE Forward
      BY DEF Next, ClientStep
    <2>1. TypeOK /\ PoolIsComplete
      BY DEF DayInv
    <2>2. SessionSteps(c) /\ session \in SessionStatuses
      BY <2>1, StepEffect DEF TypeOK
    <2>3. CASE session' = session
      BY <2>2, <2>3 DEF Stage, SessionStatuses
    <2>4. CASE Carried
      BY <2>4 DEF Carried
    <2>5. CASE Drawn(c)
      <3>1. session = "lottery_pending" /\ session' = "service_started"
        BY <2>1, <2>5 DEF Drawn, PoolIsComplete
      <3> QED
        BY <3>1 DEF Stage
    <2>6. CASE Ended(c)
      BY <2>2, <2>6 DEF Ended, Stage, SessionStatuses
    <2> QED
      BY <2>2, <2>3, <2>4, <2>5, <2>6 DEF SessionSteps
  <1> QED
    BY <1>1, DayInvariant, PTL DEF Spec, SessionNeverRewinds

-----------------------------------------------------------------------------
(* A market day implements a ticket line.                                   *)

Replaced == [v \in Visits |-> history[v].replaced]

\* The instance's operators are this module's.
LEMMA SameOperators ==
  /\ TL!HighestMain = HighestMain
  /\ TL!HighestPriority = HighestPriority
  /\ TL!HighestOrder = HighestOrder
  /\ \A line, placement, held : TL!Place(line, placement, held) = Place(line, placement, held)
  /\ \A s, line, rank : TL!DrawnSlot(s, line, rank) = DrawnSlot(s, line, rank)
  /\ \A winners \in SUBSET Visits : TL!Cardinality(winners) = Cardinality(winners)
  /\ TL!NotInLine = NotInLine
  /\ TL!NoNumber = NoNumber
  /\ TL!Placements = Placements
  /\ TL!HeldNumbers = HeldNumbers
  /\ TL!vars = <<slot, Replaced>>
PROOF
  <1>1. /\ TL!HighestMain = HighestMain
        /\ TL!HighestPriority = HighestPriority
        /\ TL!HighestOrder = HighestOrder
    BY DEF TL!HighestMain, TL!HighestPriority, TL!HighestOrder, HighestMain, HighestPriority,
       HighestOrder, TL!Highest, Highest, TL!Max, Max
  <1>2. \A line, placement, held : TL!Place(line, placement, held) = Place(line, placement, held)
    BY DEF TL!Place, Place, TL!NoNumber, NoNumber
  <1>3. \A s, line, rank : TL!DrawnSlot(s, line, rank) = DrawnSlot(s, line, rank)
    BY DEF TL!DrawnSlot, DrawnSlot
  <1>4. \A winners \in SUBSET Visits : TL!Cardinality(winners) = Cardinality(winners)
    BY DEF TL!Cardinality, Cardinality, TL!IsFiniteSet, IsFiniteSet
  <1>5. /\ TL!NotInLine = NotInLine
        /\ TL!NoNumber = NoNumber
        /\ TL!Placements = Placements
        /\ TL!HeldNumbers = HeldNumbers
        /\ TL!vars = <<slot, Replaced>>
    BY DEF TL!NotInLine, NotInLine, TL!NoNumber, NoNumber, TL!Placements, Placements,
       TL!HeldNumbers, HeldNumbers, TL!vars, Replaced
  <1> QED
    BY <1>1, <1>2, <1>3, <1>4, <1>5

\* Writing a visit's history says nothing of its place.
LEMMA RecordedKeepsReplaced ==
  ASSUME TypeOK, NEW vs \in SUBSET Visits, NEW target,
         history' = Recorded(vs, target) \/ history' = history
  PROVE  Replaced' = Replaced
PROOF
  <1>1. \A v \in Visits : history'[v].replaced = history[v].replaced
    BY DEF TypeOK, Recorded
  <1> QED
    BY <1>1 DEF Replaced

\* Adding a guest to the line by hand is joining it.
LEMMA AdmitJoins ==
  ASSUME DayInv, NEW c \in Clients, Admit(c)
  PROVE  TL!Next /\ slot' # slot
PROOF
  <1> DEFINE v    == requests[c].visit
             r    == requests[c]
             line == TL!LineNow(r.line.othersWaiting)
  <1>0. TypeOK /\ LockHolderIsCurrent /\ NoVisitNoSlot
    BY DEF DayInv
  <1>1. /\ r \in Requests /\ r.step = "admit" /\ v \in Visits
        /\ r.placement \in Placements /\ r.line \in Lines
    BY <1>0, RequestFields DEF Admit, TypeOK
  <1>2. /\ r.line.highestMain = HighestMain
        /\ r.line.highestPriority = HighestPriority
        /\ r.line.highestOrder = HighestOrder
        /\ Issuable(1)
    BY <1>0, <1>1 DEF LockHolderIsCurrent, PlacingSteps
  <1>3. line = r.line
    BY <1>1, <1>2, SameOperators DEF TL!LineNow, Lines
  <1>4. /\ status[v] = "none" /\ history' = Recorded({v}, "waiting")
        /\ slot' = [slot EXCEPT ![v] = Place(r.line, r.placement, NoNumber)]
    BY DEF Admit, AdmissionVisitStatus
  <1>5. slot[v] = NotInLine
    BY <1>0, <1>1, <1>4 DEF NoVisitNoSlot
  <1>6. Place(r.line, r.placement, NoNumber).order # 0
    BY <1>0, <1>1, PlacedSlot, NoNumberHeld
  <1> HIDE DEF v, r, line
  <1>7. slot' # slot
    <2>1. slot'[v].order # 0 /\ slot[v].order = 0
      BY <1>0, <1>1, <1>4, <1>5, <1>6 DEF TypeOK, NotInLine
    <2> QED
      BY <2>1
  <1>8. Replaced' = Replaced
    BY <1>0, <1>1, <1>4, RecordedKeepsReplaced
  <1>9. TL!Issuable(1)
    BY <1>2, SameOperators DEF Issuable, TL!Issuable
  <1>10. slot' = [slot EXCEPT ![v] = TL!Place(line, r.placement, TL!NoNumber)]
    BY <1>3, <1>4, SameOperators
  <1>11. TL!Join(v, r.placement, r.line.othersWaiting)
    BY <1>5, <1>8, <1>9, <1>10, SameOperators DEF TL!Join, line, Replaced
  <1>12. r.line.othersWaiting \in BOOLEAN /\ r.placement \in TL!Placements
    BY <1>1, SameOperators DEF Lines
  <1> QED
    BY <1>1, <1>7, <1>11, <1>12 DEF TL!Next

\* A return_to_queue with a placement puts a guest back in the line.
LEMMA PlaceBackPutsBack ==
  ASSUME DayInv, NEW c \in Clients, PlaceBack(c)
  PROVE  TL!Next /\ slot' # slot
PROOF
  <1> DEFINE v    == requests[c].visit
             r    == requests[c]
             line == TL!LineNow(r.line.othersWaiting)
  <1>0. TypeOK /\ LockHolderIsCurrent
    BY DEF DayInv
  <1>1. /\ r \in Requests /\ r.step = "place" /\ v \in Visits /\ r.held \in HeldNumbers
        /\ r.placement \in Placements /\ r.line \in Lines
    BY <1>0, RequestFields DEF PlaceBack, TypeOK
  <1>2. /\ r.line.highestMain = HighestMain
        /\ r.line.highestPriority = HighestPriority
        /\ r.line.highestOrder = HighestOrder
        /\ Issuable(1)
    BY <1>0, <1>1 DEF LockHolderIsCurrent, PlacingSteps
  <1>3. line = r.line
    BY <1>1, <1>2, SameOperators DEF TL!LineNow, Lines
  <1>4. /\ history' = [history EXCEPT ![v] = [last |-> "waiting", replaced |-> TRUE]]
        /\ slot' = [slot EXCEPT ![v] = Place(r.line, r.placement, r.held)]
    BY DEF PlaceBack
  <1>5. Place(r.line, r.placement, r.held).order = HighestOrder + 1
    BY <1>0, <1>1, PlacedSlot
  <1> HIDE DEF v, r, line
  <1>6. slot' # slot
    <2>1. slot'[v].order = HighestOrder + 1
      BY <1>0, <1>1, <1>4, <1>5 DEF TypeOK
    <2>2. slot[v].order <= HighestOrder /\ slot[v].order \in Nat /\ HighestOrder \in Nat
      BY <1>0, <1>1, HighestBounds DEF TypeOK, Slots
    <2> QED
      BY <2>1, <2>2
  <1>7. Replaced' = [Replaced EXCEPT ![v] = TRUE]
    BY <1>0, <1>1, <1>4 DEF Replaced, TypeOK
  <1>8. TL!Issuable(1)
    BY <1>2, SameOperators DEF Issuable, TL!Issuable
  <1>9. slot' = [slot EXCEPT ![v] = TL!Place(line, r.placement, r.held)]
    BY <1>3, <1>4, SameOperators
  <1>10. /\ r.line.othersWaiting \in BOOLEAN /\ r.placement \in TL!Placements
         /\ r.held \in TL!HeldNumbers
    BY <1>1, SameOperators DEF Lines
  <1> DEFINE placement     == r.placement
             othersWaiting == r.line.othersWaiting
             held          == r.held
  <1>11. /\ othersWaiting \in BOOLEAN /\ placement \in TL!Placements
         /\ held \in TL!HeldNumbers /\ v \in Visits
         /\ slot' = [slot EXCEPT ![v] = TL!Place(TL!LineNow(othersWaiting), placement, held)]
    BY <1>1, <1>9, <1>10 DEF line
  <1> HIDE DEF placement, othersWaiting, held
  <1>12. \E h \in TL!HeldNumbers : TL!PutBack(v, placement, othersWaiting, h)
    BY <1>7, <1>8, <1>11 DEF TL!PutBack, Replaced
  <1>13. \E u \in Visits, p \in TL!Placements, o \in BOOLEAN :
           \E h \in TL!HeldNumbers : TL!PutBack(u, p, o, h)
    BY <1>11, <1>12
  <1>14. TL!Next
    BY <1>13 DEF TL!Next
  <1> QED
    BY <1>6, <1>14

\* The draw's commit gives its winners their places in one step.
LEMMA DrawDraws ==
  ASSUME DayInv, NEW c \in Clients, NEW winners \in SUBSET Visits,
         NEW rank \in Rankings(winners), Draw(c, winners, rank)
  PROVE  TL!Next /\ Replaced' = Replaced
PROOF
  <1> DEFINE line == requests[c].line
  <1>0. TypeOK /\ LockHolderIsCurrent
    BY DEF DayInv
  <1>1. requests[c].step = "draw" /\ Issuable(Cardinality(winners))
    BY DEF Draw
  <1>2. line.highestMain = HighestMain /\ line.highestOrder = HighestOrder
    BY <1>0, <1>1 DEF LockHolderIsCurrent, PlacingSteps
  <1>3. \A v \in Visits : history'[v].replaced = history[v].replaced
    BY <1>0 DEF Draw, TypeOK
  <1>4. Replaced' = Replaced
    BY <1>3 DEF Replaced
  <1>5. slot' = [v \in Visits |-> IF v \in winners THEN DrawnSlot(slot[v], line, rank[v])
                                                  ELSE slot[v]]
    BY DEF Draw
  <1>6. \A v \in winners : DrawnSlot(slot[v], line, rank[v]) =
                           TL!DrawnSlot(slot[v], TL!LineNow(TRUE), rank[v])
    BY <1>2, SameOperators DEF DrawnSlot, TL!DrawnSlot, TL!LineNow
  <1>7. TL!Issuable(TL!Cardinality(winners))
    BY <1>1, SameOperators DEF Issuable, TL!Issuable
  <1> HIDE DEF line
  <1>8. TL!DrawWinners(winners, rank)
    BY <1>4, <1>5, <1>6, <1>7 DEF TL!DrawWinners, Replaced
  <1>9. rank \in TL!Rankings(winners)
    BY SameOperators DEF Rankings, TL!Rankings
  <1> QED
    BY <1>4, <1>8, <1>9 DEF TL!Next

\* Every other step leaves the line as it is.
LEMMA OthersLeaveTheLine ==
  ASSUME TypeOK, NEW c \in Clients, ClientStep(c),
         ~Admit(c), ~PlaceBack(c),
         ~ \E winners \in SUBSET Visits : \E rank \in Rankings(winners) : Draw(c, winners, rank)
  PROVE  slot' = slot /\ Replaced' = Replaced
PROOF
  <1>0. requests[c] \in Requests
    BY DEF TypeOK
  <1>1. CASE UNCHANGED <<slot, history>>
    BY <1>1 DEF Replaced
  <1>2. CASE Register(c) \/ Cancel(c) \/ RunCommand(c)
    <2>1. ~Register(c) => requests[c].visit \in Visits
      BY <1>0, <1>2, RequestFields DEF Cancel, RunCommand
    <2>2. slot' = slot
      BY <1>2 DEF Register, Cancel, RunCommand
    <2>3. \E v \in Visits : \E target : history' = Recorded({v}, target) \/ history' = history
      BY <1>2, <2>1, RegisterWrites DEF Cancel, RunCommand
    <2> QED
      BY <2>2, <2>3, RecordedKeepsReplaced
  <1>3. ASSUME NEW v \in Visits, NEW admission \in {"lottery", "served"},
               AdmitWithoutPlace(c, v, admission)
        PROVE  slot' = slot /\ Replaced' = Replaced
    BY <1>3, RecordedKeepsReplaced DEF AdmitWithoutPlace
  <1>4. CASE Claim(c)
    <2>1. requests[c].picked \in SUBSET Visits
      BY <1>0, <1>4, RequestFields DEF Claim
    <2> QED
      BY <1>4, <2>1, RecordedKeepsReplaced DEF Claim
  <1>5. CASE ServeAndCallNext(c)
    <2>1. \A v \in Visits : history'[v].replaced = history[v].replaced
      BY <1>5 DEF ServeAndCallNext, Recorded, TypeOK
    <2> QED
      BY <1>5, <2>1 DEF ServeAndCallNext, Replaced
  <1>6. CASE EndSession(c)
    <2>1. requests[c].resolved \in SUBSET Visits
      BY <1>0, <1>6, RequestFields DEF EndSession
    <2> QED
      BY <1>6, <2>1, RecordedKeepsReplaced DEF EndSession
  <1>7. CASE GuestStep(c)
    BY <1>1, <1>2, <1>7 DEF GuestStep, ReadRegistration, ReadCancel, Begin
  <1>8. CASE AdmitStep(c)
    BY <1>1, <1>3, <1>8 DEF AdmitStep, BeginAdmit, Begin
  <1>9. CASE CommandStep(c)
    BY <1>1, <1>2, <1>9 DEF CommandStep, ReadCommand, BeginPlace, Begin
  <1>10. CASE CallStep(c)
    BY <1>1, <1>4, <1>5, <1>10 DEF CallStep, ReadCallNext, PickNext, BeginServe, ChooseNext, Begin
  <1>11. CASE SessionStep(c)
    BY <1>1, <1>6, <1>11 DEF SessionStep, BeginDraw, ReadSession, MoveSession, BeginEnd, Begin
  <1>12. CASE Abandon(c)
    BY <1>1, <1>12 DEF Abandon
  <1> QED
    BY <1>7, <1>8, <1>9, <1>10, <1>11, <1>12 DEF ClientStep

\* Every step of a market day is a step of the line, or leaves the line as it is.
LEMMA LineStep ==
  ASSUME DayInv, [Next]_vars
  PROVE  [slot' # slot /\ TL!Next]_(TL!vars)
PROOF
  <1>1. ASSUME NEW c \in Clients, ClientStep(c)
        PROVE  (slot' # slot /\ TL!Next) \/ (slot' = slot /\ Replaced' = Replaced)
    <2>1. CASE Admit(c)
      BY <2>1, AdmitJoins
    <2>2. CASE PlaceBack(c)
      BY <2>2, PlaceBackPutsBack
    <2>3. ASSUME NEW winners \in SUBSET Visits, NEW rank \in Rankings(winners),
                 Draw(c, winners, rank)
          PROVE  (slot' # slot /\ TL!Next) \/ (slot' = slot /\ Replaced' = Replaced)
      BY <2>3, DrawDraws
    <2> QED
      BY <1>1, <2>1, <2>2, <2>3, OthersLeaveTheLine DEF DayInv
  <1>2. UNCHANGED vars => slot' = slot /\ Replaced' = Replaced
    BY DEF vars, Replaced
  <1>3. (slot' # slot /\ TL!Next) \/ (slot' = slot /\ Replaced' = Replaced)
    BY <1>1, <1>2 DEF Next, ClientStep
  <1>4. /\ TL!vars = <<slot, Replaced>>
        /\ TL!vars' = <<slot', Replaced'>>
    BY DEF TL!vars, Replaced
  <1> QED
    BY <1>3, <1>4

\* A market day starts with nobody in line.
LEMMA LineStarts == Init => TL!Init
PROOF
  <1>1. ASSUME Init PROVE Replaced = [v \in Visits |-> FALSE]
    BY <1>1 DEF Init, Replaced
  <1> QED
    BY <1>1 DEF Init, TL!Init, Replaced, NotInLine, TL!NotInLine

\* The transactions of a market day, which read the line and write it in steps of their
\* own, implement the line whose placements read and write in one.
THEOREM ImplementsTheLine == Spec => LineSpec
PROOF
  <1>1. DayInv /\ [Next]_vars => [slot' # slot /\ TL!Next]_(TL!vars)
    BY LineStep
  <1> QED
    BY <1>1, LineStarts, DayInvariant, PTL DEF Spec, LineSpec

\* The instance the line's own theorem is about is the same line.
LEMMA SameLine ==
  /\ TL!Init => TLP!Init
  /\ [slot' # slot /\ TL!Next]_(TL!vars) => [TLP!Next]_(TLP!vars)
PROOF
  <1>1. TL!Init => TLP!Init
    BY DEF TL!Init, TLP!Init, TL!NotInLine, TLP!NotInLine
  <1>2. /\ TL!vars = TLP!vars
        /\ TL!vars' = TLP!vars'
    BY DEF TL!vars, TLP!vars
  <1>3. TL!Next => TLP!Next
    <2>1. /\ TL!HighestMain = TLP!HighestMain
          /\ TL!HighestPriority = TLP!HighestPriority
          /\ TL!HighestOrder = TLP!HighestOrder
      BY DEF TL!HighestMain, TL!HighestPriority, TL!HighestOrder, TLP!HighestMain,
         TLP!HighestPriority, TLP!HighestOrder, TL!Highest, TLP!Highest, TL!Max, TLP!Max
    <2>2. \A othersWaiting : TL!LineNow(othersWaiting) = TLP!LineNow(othersWaiting)
      BY <2>1 DEF TL!LineNow, TLP!LineNow
    <2>3. \A n : TL!Issuable(n) = TLP!Issuable(n)
      BY <2>1 DEF TL!Issuable, TLP!Issuable
    <2>4. \A line, placement, held :
            TL!Place(line, placement, held) = TLP!Place(line, placement, held)
      BY DEF TL!Place, TLP!Place, TL!NoNumber, TLP!NoNumber
    <2>5. \A s, line, rank : TL!DrawnSlot(s, line, rank) = TLP!DrawnSlot(s, line, rank)
      BY DEF TL!DrawnSlot, TLP!DrawnSlot
    <2>6. \A winners : TL!Cardinality(winners) = TLP!Cardinality(winners)
      BY DEF TL!Cardinality, TLP!Cardinality, TL!IsFiniteSet, TLP!IsFiniteSet
    <2>7. /\ TL!NotInLine = TLP!NotInLine
          /\ TL!NoNumber = TLP!NoNumber
          /\ TL!Placements = TLP!Placements
          /\ TL!HeldNumbers = TLP!HeldNumbers
      BY DEF TL!NotInLine, TLP!NotInLine, TL!NoNumber, TLP!NoNumber, TL!Placements,
         TLP!Placements, TL!HeldNumbers, TLP!HeldNumbers
    <2>8. ASSUME NEW v, NEW placement, NEW othersWaiting, TL!Join(v, placement, othersWaiting)
          PROVE  TLP!Join(v, placement, othersWaiting)
      BY <2>2, <2>3, <2>4, <2>7, <2>8 DEF TL!Join, TLP!Join
    <2>9. ASSUME NEW v, NEW placement, NEW othersWaiting, NEW held,
                 TL!PutBack(v, placement, othersWaiting, held)
          PROVE  TLP!PutBack(v, placement, othersWaiting, held)
      BY <2>2, <2>3, <2>4, <2>9 DEF TL!PutBack, TLP!PutBack
    <2>10. ASSUME NEW winners, NEW rank, TL!DrawWinners(winners, rank)
           PROVE  TLP!DrawWinners(winners, rank)
      BY <2>2, <2>3, <2>5, <2>6, <2>10 DEF TL!DrawWinners, TLP!DrawWinners
    <2>11. \A winners : TL!Rankings(winners) = TLP!Rankings(winners)
      BY <2>6 DEF TL!Rankings, TLP!Rankings
    <2> QED
      BY <2>7, <2>8, <2>9, <2>10, <2>11 DEF TL!Next, TLP!Next
  <1> QED
    BY <1>1, <1>2, <1>3

\* What the line promises holds of a market day, whose steps implement it.
LEMMA LineHolds == Spec => [](TLP!OrdersUnique /\ TLP!NumbersRiseWithTheLine)
PROOF
  <1>1. TLP!Spec => [](TLP!TypeOK /\ TLP!OrdersUnique /\ TLP!NumbersRiseWithTheLine)
    BY LineConstants, TLP!LineIsCorrect
  <1>2. TL!Init => TLP!Init
    BY SameLine
  <1>3. [slot' # slot /\ TL!Next]_(TL!vars) => [TLP!Next]_(TLP!vars)
    BY SameLine
  <1>4. LineSpec => TLP!Spec
    BY <1>2, <1>3, PTL DEF LineSpec, TLP!Spec
  <1> QED
    BY <1>1, <1>4, ImplementsTheLine, PTL

\* No two guests of a session ever have the same place in line.
THEOREM PlacesAreUnique == Spec => []OrdersUnique
PROOF
  <1>1. TLP!OrdersUnique => OrdersUnique
    BY DEF TLP!OrdersUnique, OrdersUnique
  <1> QED
    BY <1>1, LineHolds, PTL

\* Among the guests who kept the place they were given, numbers rise with the line.
THEOREM NumbersRise == Spec => []NumbersRiseWithTheLine
PROOF
  <1>1. TLP!NumbersRiseWithTheLine => NumbersRiseWithTheLine
    BY DEF TLP!NumbersRiseWithTheLine, NumbersRiseWithTheLine, TLP!KeptTheirPlace,
       KeptTheirPlace, TLP!Ahead, Ahead
  <1> QED
    BY <1>1, LineHolds, PTL

-----------------------------------------------------------------------------
(* Who is served.                                                           *)

\* A step writes one request.  It locks no row that another has locked, serves a guest it
\* finds called and calls one it finds waiting, or runs a command allowed from the status it
\* reads.
OwnRequest(c) ==
  \E r \in Requests :
    /\ requests' = [requests EXCEPT ![c] = r]
    /\ \A v \in RowsHeld(c)' : v \in RowsHeld(c) \/ ~RowLocked(v)
    /\ r.step = "serve" => /\ status[r.visit] = "called" /\ status' = status
                           /\ \A p \in r.picked : status[p] = "waiting"
    /\ r.step = "command" => \/ r = requests[c]
                             \/ r.seen \in VisitCommandSources[r.command]
    /\ r.step = "place" => r.seen \in VisitCommandSources.return_to_queue

\* Nobody writes the row another request is serving.
OthersServe(c) ==
  \A d \in Clients \ {c} :
    requests[d].step = "serve" => status'[requests[d].visit] = status[requests[d].visit]

\* A guest becomes served from called, or by the row being made.
ServedFromCalled ==
  session \notin MayAcceptSelfRegistration =>
    \A v \in Visits :
      status'[v] = "served" /\ status[v] # "served" => status[v] \in {"called", "none"}

Serves(c) == OwnRequest(c) /\ OthersServe(c) /\ ServedFromCalled

\* What a request of another step holds: nothing.
LEMMA NothingHeld ==
  ASSUME TypeOK, NEW c \in Clients, NEW r \in Requests,
         requests' = [requests EXCEPT ![c] = r], r.step \notin {"serve", "end"}
  PROVE  RowsHeld(c)' = {}
PROOF
  <1>1. requests'[c] = r
    BY DEF TypeOK
  <1> QED
    BY <1>1 DEF RowsHeld

\* A step that leaves every status alone, and locks no row.
LEMMA ReadServes ==
  ASSUME TypeOK, NEW c \in Clients, NEW r \in Requests,
         requests' = [requests EXCEPT ![c] = r], status' = status,
         r.step \notin {"serve", "end"},
         r.step = "command" => r.seen \in VisitCommandSources[r.command],
         r.step = "place" => r.seen \in VisitCommandSources.return_to_queue
  PROVE  Serves(c)
PROOF
  <1>1. RowsHeld(c)' = {}
    BY NothingHeld
  <1> QED
    BY <1>1 DEF Serves, OwnRequest, OthersServe, ServedFromCalled

\* A step that ends a request, and writes no row another request is serving.
LEMMA WriteServes ==
  ASSUME TypeOK, NEW c \in Clients, Finish(c), OthersServe(c), ServedFromCalled
  PROVE  Serves(c)
PROOF
  <1>1. RowsHeld(c)' = {}
    BY IdleIsRequest, NothingHeld DEF Finish, Idle
  <1> QED
    BY <1>1, IdleIsRequest DEF Serves, OwnRequest, Finish, Idle

\* The row of a guest being served is locked.
LEMMA ServedIsHeld ==
  ASSUME TypeOK, NEW d \in Clients, requests[d].step = "serve"
  PROVE  /\ requests[d].visit \in Visits
         /\ requests[d].visit \in RowsHeld(d)
         /\ RowLocked(requests[d].visit)
PROOF
  <1>1. requests[d].visit \in Visits
    BY RequestFields DEF TypeOK
  <1>2. requests[d].visit \in RowsHeld(d)
    BY <1>1 DEF RowsHeld
  <1> QED
    BY <1>1, <1>2 DEF RowLocked

\* A row with no lock on it is not one another request serves.
LEMMA UnlockedIsNotServed ==
  ASSUME TypeOK, NEW c \in Clients, NEW v \in Visits, ~RowLocked(v), NEW target,
         status' = With(v, target)
  PROVE  OthersServe(c)
PROOF
  <1>1. ASSUME NEW d \in Clients, requests[d].step = "serve"
        PROVE  requests[d].visit \in Visits /\ requests[d].visit # v
    BY <1>1, ServedIsHeld
  <1> QED
    BY <1>1 DEF OthersServe, With, TypeOK

\* Guests on their phones serve nobody once registration is over.
LEMMA GuestServes ==
  ASSUME TypeOK, NEW c \in Clients, GuestStep(c)
  PROVE  Serves(c)
PROOF
  <1>0. requests[c] \in Requests /\ status \in [Visits -> Statuses]
    BY DEF TypeOK
  <1>1. ASSUME NEW v \in Visits, ReadRegistration(c, v) PROVE Serves(c)
    <2>1. [step |-> "register", visit |-> v, seen |-> status[v]] \in Requests
      BY DEF TypeOK, Requests
    <2> QED
      BY <1>1, <2>1, ReadServes DEF ReadRegistration, Begin
  <1>2. ASSUME NEW v \in Visits, ReadCancel(c, v) PROVE Serves(c)
    <2>1. [step |-> "cancel", visit |-> v] \in Requests
      BY DEF Requests
    <2> QED
      BY <1>2, <2>1, ReadServes DEF ReadCancel, Begin
  <1>3. CASE Register(c)
    <2>1. PICK v \in Visits, target \in Statuses : ~RowLocked(v) /\ status' = With(v, target)
      BY <1>3, RegisterWrites
    <2>2. OthersServe(c)
      BY <2>1, UnlockedIsNotServed
    <2>3. ServedFromCalled
      BY <1>3 DEF Register, StillAccepts, ServedFromCalled
    <2> QED
      BY <1>3, <2>2, <2>3, WriteServes DEF Register
  <1>4. CASE Cancel(c)
    <2>1. requests[c].visit \in Visits
      BY <1>0, <1>4, RequestFields DEF Cancel
    <2>2. OthersServe(c)
      BY <1>4, <2>1, UnlockedIsNotServed DEF Cancel
    <2>3. ServedFromCalled
      BY <1>0, <1>4, <2>1 DEF Cancel, With, ServedFromCalled
    <2> QED
      BY <1>4, <2>2, <2>3, WriteServes DEF Cancel
  <1> QED
    BY <1>1, <1>2, <1>3, <1>4 DEF GuestStep

\* A row being made is nobody's to serve yet.
LEMMA MadeIsNotServed ==
  ASSUME TypeOK, ServersHoldTheirGuest, NEW c \in Clients, NEW v \in Visits,
         status[v] = "none", NEW target, status' = With(v, target)
  PROVE  OthersServe(c) /\ ServedFromCalled
PROOF
  <1>1. ASSUME NEW d \in Clients, requests[d].step = "serve"
        PROVE  requests[d].visit \in Visits /\ requests[d].visit # v
    <2>1. requests[d].visit \in Visits
      BY <1>1, RequestFields DEF TypeOK
    <2>2. status[requests[d].visit] = "called"
      BY <1>1 DEF ServersHoldTheirGuest
    <2> QED
      BY <2>1, <2>2
  <1> QED
    BY <1>1 DEF OthersServe, ServedFromCalled, With, TypeOK

\* A guest added by hand may be served at once, but only as the row is made.
LEMMA AdmitServes ==
  ASSUME TypeOK, ServersHoldTheirGuest, NEW c \in Clients, AdmitStep(c)
  PROVE  Serves(c)
PROOF
  <1>0. requests[c] \in Requests /\ requests = [requests EXCEPT ![c] = requests[c]]
    BY DEF TypeOK
  <1>1. ASSUME NEW v \in Visits, NEW placement \in Placements, BeginAdmit(c, v, placement)
        PROVE  Serves(c)
    <2> DEFINE line == LineFor(v)
               r    == [step |-> "admit", visit |-> v, placement |-> placement, line |-> line]
    <2>1. line \in Lines
      BY LineForType
    <2>2. Begin(c, r)
      BY <1>1 DEF BeginAdmit
    <2> HIDE DEF line
    <2>3. r \in Requests
      BY <2>1 DEF Requests
    <2> QED
      BY <2>2, <2>3, ReadServes DEF Begin
  <1>2. ASSUME NEW v \in Visits, NEW admission \in {"lottery", "served"},
               AdmitWithoutPlace(c, v, admission)
        PROVE  Serves(c)
    <2>1. OthersServe(c) /\ ServedFromCalled
      BY <1>2, MadeIsNotServed DEF AdmitWithoutPlace
    <2>2. Finish(c)
      BY <1>0, <1>2 DEF AdmitWithoutPlace, Finish
    <2> QED
      BY <2>1, <2>2, WriteServes
  <1>3. CASE Admit(c)
    <2>1. requests[c].visit \in Visits
      BY <1>0, <1>3, RequestFields DEF Admit
    <2>2. OthersServe(c) /\ ServedFromCalled
      BY <1>3, <2>1, MadeIsNotServed DEF Admit
    <2> QED
      BY <1>3, <2>2, WriteServes DEF Admit
  <1> QED
    BY <1>1, <1>2, <1>3 DEF AdmitStep

\* Only the serve command serves, and it is allowed from called.
LEMMA ServeNeedsCalled ==
  ASSUME NEW command \in VisitCommands, VisitCommandTarget[command] = "served"
  PROVE  VisitCommandSources[command] = {"called"}
PROOF
  BY DEF VisitCommands, VisitCommandTarget, VisitCommandSources

\* A command serves a guest only if the row still has the status it was allowed from.
LEMMA CommandServes ==
  ASSUME TypeOK, CommandsWereAllowed, NEW c \in Clients, CommandStep(c)
  PROVE  Serves(c)
PROOF
  <1>0. requests[c] \in Requests /\ status \in [Visits -> Statuses]
    BY DEF TypeOK
  <1>1. ASSUME NEW v \in Visits, NEW command \in VisitCommands, ReadCommand(c, v, command)
        PROVE  Serves(c)
    <2> DEFINE held == NumberOf(slot[v])
               r    == [step |-> "command", visit |-> v, command |-> command,
                        seen |-> status[v], held |-> held]
    <2>1. held \in HeldNumbers
      BY NumberOfType DEF TypeOK
    <2>2. status[v] \in VisitStatuses
      BY <1>1 DEF ReadCommand, VisitCommands, VisitCommandSources, VisitStatuses
    <2>3. Begin(c, r) /\ status[v] \in VisitCommandSources[command]
      BY <1>1 DEF ReadCommand
    <2> HIDE DEF held
    <2>4. r \in Requests
      BY <2>1, <2>2 DEF Requests
    <2> QED
      BY <2>3, <2>4, ReadServes DEF Begin
  <1>2. CASE RunCommand(c)
    <2> DEFINE v       == requests[c].visit
               command == requests[c].command
               target  == VisitCommandTarget[command]
    <2>1. /\ v \in Visits /\ command \in VisitCommands /\ requests[c].step = "command"
      BY <1>0, <1>2, RequestFields DEF RunCommand
    <2>2. /\ ~RowLocked(v) /\ Finish(c) /\ status' = With(v, target)
          /\ status[v] = requests[c].seen
      BY <1>2 DEF RunCommand, Untouched
    <2>3. requests[c].seen \in VisitCommandSources[command]
      BY <2>1 DEF CommandsWereAllowed
    <2>4. target = "served" => status[v] = "called"
      BY <2>1, <2>2, <2>3, ServeNeedsCalled
    <2> HIDE DEF v, target
    <2>5. OthersServe(c)
      BY <2>1, <2>2, UnlockedIsNotServed
    <2>6. ServedFromCalled
      BY <1>0, <2>1, <2>2, <2>4 DEF With, ServedFromCalled
    <2> QED
      BY <2>2, <2>5, <2>6, WriteServes
  <1>3. ASSUME NEW placement \in Placements, BeginPlace(c, placement) PROVE Serves(c)
    <2> DEFINE v    == requests[c].visit
               line == LineFor(v)
               seen == requests[c].seen
               held == requests[c].held
               r    == [step |-> "place", visit |-> v, seen |-> seen, held |-> held,
                        placement |-> placement, line |-> line]
    <2>1. v \in Visits /\ seen \in VisitStatuses /\ held \in HeldNumbers
      BY <1>0, <1>3, RequestFields DEF BeginPlace
    <2>2. line \in Lines
      BY <2>1, LineForType
    <2>3. /\ requests' = [requests EXCEPT ![c] = r] /\ status' = status
          /\ requests[c].step = "command" /\ requests[c].command = "return_to_queue"
      BY <1>3 DEF BeginPlace
    <2>4. seen \in VisitCommandSources["return_to_queue"]
      BY <2>3 DEF CommandsWereAllowed
    <2> HIDE DEF v, line, seen, held
    <2>5. r \in Requests
      BY <2>1, <2>2 DEF Requests
    <2> QED
      BY <2>3, <2>4, <2>5, ReadServes
  <1>4. CASE PlaceBack(c)
    <2>1. requests[c].visit \in Visits
      BY <1>0, <1>4, RequestFields DEF PlaceBack
    <2>2. OthersServe(c)
      BY <1>4, <2>1, UnlockedIsNotServed DEF PlaceBack
    <2>3. ServedFromCalled
      BY <1>0, <1>4, <2>1 DEF PlaceBack, With, ServedFromCalled
    <2> QED
      BY <1>4, <2>2, <2>3, WriteServes DEF PlaceBack
  <1> QED
    BY <1>1, <1>2, <1>3, <1>4 DEF CommandStep

\* Calling the next guests leaves the one being served to whoever serves them.
LEMMA CallServes ==
  ASSUME TypeOK, ServersHoldTheirGuest, RowsHeldByOne, NEW c \in Clients, CallStep(c)
  PROVE  Serves(c)
PROOF
  <1>0. requests[c] \in Requests /\ status \in [Visits -> Statuses]
    BY DEF TypeOK
  <1>1. ASSUME NEW d \in Clients, requests[d].step = "serve"
        PROVE  /\ requests[d].visit \in Visits
               /\ requests[d].visit \in RowsHeld(d)
               /\ RowLocked(requests[d].visit)
    BY <1>1, ServedIsHeld
  <1>2. CASE ReadCallNext(c)
    <2>1. [step |-> "call"] \in Requests
      BY DEF Requests
    <2> QED
      BY <1>2, <2>1, ReadServes DEF ReadCallNext, Begin
  <1>3. ASSUME NEW count \in BatchSizes, PickNext(c, count) PROVE Serves(c)
    <2>1. PICK picked \in SUBSET Visits :
            /\ requests' = [requests EXCEPT ![c] = [step |-> "claim", picked |-> picked]]
            /\ status' = status
      BY <1>3 DEF PickNext
    <2>2. [step |-> "claim", picked |-> picked] \in Requests
      BY DEF Requests
    <2> QED
      BY <2>1, <2>2, ReadServes
  <1>4. CASE Claim(c)
    <2>1. OthersServe(c)
      BY <1>1, <1>4 DEF Claim, OthersServe
    <2>2. ServedFromCalled
      BY <1>4 DEF Claim, ServedFromCalled
    <2> QED
      BY <1>4, <2>1, <2>2, WriteServes DEF Claim
  <1>5. ASSUME NEW v \in Visits, BeginServe(c, v) PROVE Serves(c)
    <2>1. PICK r \in Requests :
            /\ requests' = [requests EXCEPT ![c] = r]
            /\ r.step = "serve" /\ r.visit = v /\ r.picked = {}
            /\ ~RowLocked(v) /\ status[v] = "called" /\ status' = status
      BY <1>5, ServeBegins
    <2>2. requests'[c] = r
      BY <2>1 DEF TypeOK
    <2>3. RowsHeld(c)' \subseteq {v}
      BY <2>1, <2>2 DEF RowsHeld
    <2> QED
      BY <2>1, <2>3 DEF Serves, OwnRequest, OthersServe, ServedFromCalled
  <1>6. CASE ChooseNext(c)
    <2>1. PICK r \in Requests :
            /\ requests' = [requests EXCEPT ![c] = r]
            /\ r.step = "serve" /\ requests[c].step = "serve" /\ r.visit = requests[c].visit
            /\ IsNext(r.picked, 1) /\ status' = status
      BY <1>6, NextChosen
    <2>2. requests'[c] = r
      BY <2>1 DEF TypeOK
    <2>3. RowsHeld(c)' \subseteq RowsHeld(c)
      BY <2>1, <2>2 DEF RowsHeld
    <2>4. status[r.visit] = "called"
      BY <2>1 DEF ServersHoldTheirGuest
    <2>5. \A p \in r.picked : status[p] = "waiting"
      BY <2>1 DEF IsNext, Waiting
    <2> QED
      BY <2>1, <2>3, <2>4, <2>5 DEF Serves, OwnRequest, OthersServe, ServedFromCalled
  <1>7. CASE ServeAndCallNext(c)
    <2>1. status[requests[c].visit] = "called" /\ requests[c].step = "serve"
      BY <1>7 DEF ServeAndCallNext, ServersHoldTheirGuest
    <2>2. ASSUME NEW d \in Clients \ {c}, requests[d].step = "serve"
          PROVE  requests[d].visit # requests[c].visit /\ requests[d].visit \notin requests[c].picked
      <3>1. requests[c].visit \in RowsHeld(c) /\ requests[d].visit \in RowsHeld(d)
        BY <1>1, <2>1, <2>2
      <3>2. requests[d].visit # requests[c].visit
        BY <3>1 DEF RowsHeldByOne
      <3>3. requests[d].visit \notin requests[c].picked
        BY <1>7, <3>1 DEF ServeAndCallNext
      <3> QED
        BY <3>2, <3>3
    <2>3. OthersServe(c)
      BY <1>1, <1>7, <2>2 DEF ServeAndCallNext, OthersServe
    <2>4. ServedFromCalled
      BY <1>7, <2>1 DEF ServeAndCallNext, ServedFromCalled
    <2> QED
      BY <1>7, <2>3, <2>4, WriteServes DEF ServeAndCallNext
  <1> QED
    BY <1>2, <1>3, <1>4, <1>5, <1>6, <1>7 DEF CallStep

\* The draw and the end of the session wait for rows being served, and serve nobody.
LEMMA SessionServes ==
  ASSUME TypeOK, LockHolderIsCurrent, RowsHeldByOne, NEW c \in Clients, SessionStep(c)
  PROVE  Serves(c)
PROOF
  <1>0. requests[c] \in Requests /\ status \in [Visits -> Statuses]
    BY DEF TypeOK
  <1>1. ASSUME NEW d \in Clients, requests[d].step = "serve"
        PROVE  /\ requests[d].visit \in Visits
               /\ requests[d].visit \in RowsHeld(d)
               /\ RowLocked(requests[d].visit)
    BY <1>1, ServedIsHeld
  <1>2. CASE BeginDraw(c)
    <2>1. TypeOK'
      BY <1>2, SessionType DEF SessionStep
    <2>2. requests' = [requests EXCEPT ![c] = requests'[c]] /\ requests'[c].step = "draw"
          /\ status' = status
      BY <1>2 DEF BeginDraw, Begin, TypeOK
    <2>3. requests'[c] \in Requests
      BY <2>1 DEF TypeOK
    <2> QED
      BY <2>2, <2>3, ReadServes
  <1>3. ASSUME NEW winners \in SUBSET Visits, NEW rank \in Rankings(winners),
               Draw(c, winners, rank)
        PROVE  Serves(c)
    <2>1. OthersServe(c)
      BY <1>1, <1>3 DEF Draw, OthersServe
    <2>2. ServedFromCalled
      BY <1>3 DEF Draw, ServedFromCalled
    <2> QED
      BY <1>3, <2>1, <2>2, WriteServes DEF Draw
  <1>4. CASE ReadSession(c)
    <2>1. [step |-> "session", seen |-> session] \in Requests
      BY DEF TypeOK, Requests
    <2> QED
      BY <1>4, <2>1, ReadServes DEF ReadSession, Begin
  <1>5. ASSUME NEW target \in SessionStatuses, MoveSession(c, target) PROVE Serves(c)
    BY <1>5, IdleIsRequest, ReadServes DEF MoveSession, Finish, Idle
  <1>6. CASE BeginEnd(c)
    <2>1. PICK r \in Requests :
            /\ requests' = [requests EXCEPT ![c] = r]
            /\ r.step = "end" /\ \A v \in r.resolved : ~RowLocked(v)
            /\ status' = status
      BY <1>6, EndBegins
    <2>2. requests'[c] = r
      BY <2>1 DEF TypeOK
    <2>3. RowsHeld(c)' \subseteq r.resolved
      BY <2>1, <2>2 DEF RowsHeld
    <2> QED
      BY <2>1, <2>3 DEF Serves, OwnRequest, OthersServe, ServedFromCalled
  <1>7. CASE EndSession(c)
    <2>1. ASSUME NEW d \in Clients \ {c}, requests[d].step = "serve"
          PROVE  requests[d].visit \notin requests[c].resolved
      <3>1. requests[d].visit \notin RowsHeld(c)
        BY <1>1, <2>1 DEF RowsHeldByOne
      <3> QED
        BY <1>1, <1>7, <2>1, <3>1 DEF EndSession, RowsHeld
    <2>2. OthersServe(c)
      BY <1>1, <1>7, <2>1 DEF EndSession, OthersServe
    <2>3. ServedFromCalled
      BY <1>7 DEF EndSession, ServedFromCalled
    <2> QED
      BY <1>7, <2>2, <2>3, WriteServes DEF EndSession
  <1> QED
    BY <1>2, <1>3, <1>4, <1>5, <1>6, <1>7 DEF SessionStep

\* What every step does to the requests that serve.
LEMMA StepServes ==
  ASSUME ServingInv, LockHolderIsCurrent, NEW c \in Clients, ClientStep(c)
  PROVE  Serves(c)
PROOF
  <1>0. TypeOK /\ ServersHoldTheirGuest /\ RowsHeldByOne /\ CommandsWereAllowed
    BY DEF ServingInv
  <1>1. CASE Abandon(c)
    BY <1>0, <1>1, IdleIsRequest, ReadServes DEF Abandon, Finish, Idle
  <1> QED
    BY <1>0, <1>1, GuestServes, AdmitServes, CommandServes, CallServes, SessionServes
       DEF ClientStep

\* Every step leaves each request that serves its guest called, and each locked row to one.
LEMMA ServingKept ==
  ASSUME TypeOK, ServersHoldTheirGuest, RowsHeldByOne, CommandsWereAllowed,
         NEW c \in Clients, Serves(c)
  PROVE  ServersHoldTheirGuest' /\ RowsHeldByOne' /\ CommandsWereAllowed'
PROOF
  <1>1. PICK r \in Requests :
          /\ requests' = [requests EXCEPT ![c] = r]
          /\ r.step = "serve" => status[r.visit] = "called" /\ status' = status
          /\ r.step = "command" => \/ r = requests[c]
                                   \/ r.seen \in VisitCommandSources[r.command]
          /\ r.step = "place" => r.seen \in VisitCommandSources.return_to_queue
    BY DEF Serves, OwnRequest
  <1>2. requests'[c] = r /\ \A d \in Clients \ {c} : requests'[d] = requests[d]
    BY <1>1 DEF TypeOK
  <1>3. CommandsWereAllowed'
    BY <1>1, <1>2 DEF CommandsWereAllowed
  <1>4. ASSUME NEW d \in Clients, requests'[d].step = "serve"
        PROVE  status'[requests'[d].visit] = "called"
    <2>1. CASE d = c
      BY <1>1, <1>2, <1>4, <2>1
    <2>2. CASE d # c
      <3>1. requests'[d] = requests[d]
        BY <1>2, <2>2
      <3>2. status[requests[d].visit] = "called"
        BY <1>4, <3>1 DEF ServersHoldTheirGuest
      <3>3. status'[requests[d].visit] = status[requests[d].visit]
        BY <1>4, <2>2, <3>1 DEF Serves, OthersServe
      <3> QED
        BY <3>1, <3>2, <3>3
    <2> QED
      BY <2>1, <2>2
  <1>5. \A d \in Clients \ {c} : RowsHeld(d)' = RowsHeld(d)
    BY <1>2 DEF RowsHeld
  <1>6. \A d \in Clients \ {c} : RowsHeld(c)' \cap RowsHeld(d) = {}
    BY DEF Serves, OwnRequest, RowLocked, RowsHeldByOne
  <1>7. RowsHeldByOne'
    BY <1>5, <1>6 DEF RowsHeldByOne
  <1> QED
    BY <1>3, <1>4, <1>7 DEF ServersHoldTheirGuest

\* A market day starts with no request in flight.
LEMMA ServingInit == Init => ServingInv
PROOF
  <1> SUFFICES ASSUME Init PROVE ServingInv
    OBVIOUS
  <1>1. TypeOK
    BY DayInit DEF DayInv
  <1>2. \A c \in Clients : requests[c].step = "idle"
    BY DEF Init, Idle
  <1> QED
    BY <1>1, <1>2 DEF ServingInv, ServersHoldTheirGuest, RowsHeldByOne, RowsHeld,
       CommandsWereAllowed

\* The invariant of serving is inductive, given that of the day.
LEMMA ServingInductive == DayInv /\ ServingInv /\ [Next]_vars => ServingInv'
PROOF
  <1>1. ASSUME DayInv, ServingInv, NEW c \in Clients, ClientStep(c) PROVE ServingInv'
    <2>1. /\ TypeOK /\ LockHolderIsCurrent /\ ServersHoldTheirGuest /\ RowsHeldByOne
          /\ CommandsWereAllowed
      BY <1>1 DEF DayInv, ServingInv
    <2>2. TypeOK'
      BY <1>1, <2>1, StepType
    <2>3. Serves(c)
      BY <1>1, <2>1, StepServes
    <2> QED
      BY <2>1, <2>2, <2>3, ServingKept DEF ServingInv
  <1>2. ASSUME ServingInv, UNCHANGED vars PROVE ServingInv'
    BY <1>2 DEF ServingInv, vars, TypeOK, ServersHoldTheirGuest, RowsHeldByOne, RowsHeld,
       CommandsWereAllowed
  <1> QED
    BY <1>1, <1>2 DEF Next, ClientStep

\* From the draw on, whoever is served was called or is added as served, however many
\* workers serve, call and return guests at once.
THEOREM ServedWereCalled == Spec => OnlyTheCalledAreServed
PROOF
  <1>1. DayInv /\ ServingInv /\ [Next]_vars => [ServedFromCalled]_vars
    <2> SUFFICES ASSUME DayInv, ServingInv, NEW c \in Clients, ClientStep(c)
                 PROVE  ServedFromCalled
      BY DEF Next, ClientStep
    <2> QED
      BY StepServes DEF DayInv, Serves
  <1>2. Spec => []ServingInv
    BY ServingInit, ServingInductive, DayInvariant, PTL DEF Spec
  <1>3. [ServedFromCalled]_vars =>
          [session \notin MayAcceptSelfRegistration =>
             \A v \in Visits :
               status'[v] = "served" /\ status[v] # "served" => status[v] \in {"called", "none"}]_vars
    BY DEF ServedFromCalled
  <1> QED
    BY <1>1, <1>2, <1>3, DayInvariant, PTL DEF Spec, OnlyTheCalledAreServed

-----------------------------------------------------------------------------
(* Who comes into the line of a session that is over, or ends.              *)

Resolved == session = "ended" \/ Ending

ComesIn(v) == status[v] \notin StillInLineStatuses /\ status'[v] \in StillInLineStatuses

MayStillCome(v) == status[v] = "no_show" \/ ChosenToBeCalled(v)

\* While a session ends, or has, none of the steps that wait for its lock is at work on it,
\* and nobody registers.
LEMMA ResolvedShutsOut ==
  ASSUME DayInv, Resolved, NEW c \in Clients
  PROVE  /\ requests[c].step \notin {"admit", "draw"}
         /\ ~Register(c)
         /\ \A v \in Visits : ~AdmitWithoutPlace(c, v, "lottery")
PROOF
  <1>0. OneLockHolder /\ PoolIsComplete /\ AdmitsInTime
    BY DEF DayInv
  <1>1. CASE Ending
    <2>1. PICK d \in Clients : requests[d].step = "end"
      BY <1>1 DEF Ending
    <2>2. SessionLocked
      BY <2>1 DEF SessionLocked, SessionLockSteps
    <2>3. requests[c].step \notin {"admit", "draw"}
      BY <1>0, <2>1 DEF OneLockHolder, SessionLockSteps, PlacingSteps
    <2> QED
      BY <2>2, <2>3 DEF Register, AdmitWithoutPlace
  <1>2. CASE session = "ended"
    <2>1. requests[c].step \notin {"admit", "draw"}
      BY <1>0, <1>2 DEF PoolIsComplete, AdmitsInTime
    <2>2. ~Register(c)
      BY <1>2 DEF Register, StillAccepts, MayAcceptSelfRegistration
    <2>3. \A v \in Visits : ~AdmitWithoutPlace(c, v, "lottery")
      BY <1>2 DEF AdmitWithoutPlace, AdmissionsFor
    <2> QED
      BY <2>1, <2>2, <2>3
  <1> QED
    BY <1>1, <1>2 DEF Resolved

\* A command brings into the line only those it returns to it: a no-show.
LEMMA OnlyReturnsComeIn ==
  ASSUME NEW command \in VisitCommands, NEW seen \in VisitCommandSources[command],
         seen \notin StillInLineStatuses, VisitCommandTarget[command] \in StillInLineStatuses
  PROVE  seen = "no_show"
PROOF
  BY DEF VisitCommands, VisitCommandSources, VisitCommandTarget, StillInLineStatuses,
     OutstandingVisitStatuses

\* Whoever comes into the line of a session that is over was a no-show or is called.
LEMMA OnlyTheseComeIn ==
  ASSUME DayInv, ServingInv, Resolved, NEW c \in Clients, ClientStep(c),
         NEW v \in Visits, ComesIn(v)
  PROVE  MayStillCome(v)
PROOF
  <1>0. /\ TypeOK /\ CommandsWereAllowed /\ requests[c] \in Requests
        /\ status \in [Visits -> Statuses]
    BY DEF ServingInv, TypeOK
  <1>1. status' # status
    BY DEF ComesIn
  <1>2. CASE GuestStep(c)
    <2>1. Cancel(c)
      BY <1>1, <1>2, ResolvedShutsOut DEF GuestStep, ReadRegistration, ReadCancel, Begin
    <2>2. status'[v] \in {status[v], "cancelled"}
      BY <1>0, <2>1 DEF Cancel, With
    <2> QED
      BY <2>2 DEF ComesIn, StillInLineStatuses, OutstandingVisitStatuses
  <1>3. CASE AdmitStep(c)
    <2>1. ~Admit(c)
      BY ResolvedShutsOut DEF Admit
    <2>2. PICK u \in Visits, admission \in {"lottery", "served"} : AdmitWithoutPlace(c, u, admission)
      BY <1>1, <1>3, <2>1 DEF AdmitStep, BeginAdmit, Begin
    <2>3. admission = "served"
      BY <2>2, ResolvedShutsOut
    <2>4. status'[v] \in {status[v], "served"}
      BY <1>0, <2>2, <2>3 DEF AdmitWithoutPlace, AdmissionVisitStatus, With
    <2> QED
      BY <2>4 DEF ComesIn, StillInLineStatuses, OutstandingVisitStatuses
  <1>4. CASE CommandStep(c)
    <2>1. CASE RunCommand(c)
      <3> DEFINE command == requests[c].command
                 seen    == requests[c].seen
      <3>1. requests[c].visit \in Visits /\ command \in VisitCommands
        BY <1>0, <2>1, RequestFields DEF RunCommand
      <3>2. /\ status' = With(requests[c].visit, VisitCommandTarget[command])
            /\ status[requests[c].visit] = seen /\ seen \in VisitCommandSources[command]
        BY <1>0, <2>1 DEF RunCommand, Untouched, CommandsWereAllowed
      <3> HIDE DEF command, seen
      <3>3. requests[c].visit = v /\ status'[v] = VisitCommandTarget[command] /\ status[v] = seen
        BY <1>0, <3>1, <3>2 DEF ComesIn, With
      <3> QED
        BY <3>1, <3>2, <3>3, OnlyReturnsComeIn DEF ComesIn, MayStillCome
    <2>2. CASE PlaceBack(c)
      <3>1. requests[c].visit \in Visits
        BY <1>0, <2>2, RequestFields DEF PlaceBack
      <3>2. /\ status' = With(requests[c].visit, "waiting")
            /\ status[requests[c].visit] \in {"called", "no_show"}
        BY <1>0, <2>2 DEF PlaceBack, Untouched, CommandsWereAllowed, VisitCommandSources
      <3>3. v = requests[c].visit
        BY <1>0, <3>1, <3>2 DEF ComesIn, With
      <3> QED
        BY <3>2, <3>3 DEF ComesIn, MayStillCome, StillInLineStatuses, OutstandingVisitStatuses
    <2> QED
      BY <1>1, <1>4, <2>1, <2>2 DEF CommandStep, ReadCommand, BeginPlace, Begin
  <1>5. CASE CallStep(c)
    <2>1. CASE Claim(c)
      <3>1. v \in requests[c].picked /\ requests[c].step = "claim"
        BY <2>1 DEF Claim, ComesIn
      <3> QED
        BY <3>1 DEF MayStillCome, ChosenToBeCalled
    <2>2. CASE ServeAndCallNext(c)
      <3>1. v \in requests[c].picked /\ requests[c].step = "serve"
        BY <2>2 DEF ServeAndCallNext, ComesIn, StillInLineStatuses, OutstandingVisitStatuses
      <3> QED
        BY <3>1 DEF MayStillCome, ChosenToBeCalled
    <2> QED
      BY <1>1, <1>5, <2>1, <2>2 DEF CallStep, ReadCallNext, PickNext, BeginServe, ChooseNext, Begin
  <1>6. CASE SessionStep(c)
    <2>1. \A winners \in SUBSET Visits : \A rank \in Rankings(winners) : ~Draw(c, winners, rank)
      BY ResolvedShutsOut DEF Draw
    <2>2. EndSession(c)
      BY <1>1, <1>6, <2>1 DEF SessionStep, BeginDraw, ReadSession, MoveSession, BeginEnd, Begin
    <2>3. status'[v] \in {status[v], "cancelled"}
      BY <2>2 DEF EndSession
    <2> QED
      BY <2>3 DEF ComesIn, StillInLineStatuses, OutstandingVisitStatuses
  <1>7. ~Abandon(c)
    BY <1>1 DEF Abandon
  <1> QED
    BY <1>2, <1>3, <1>4, <1>5, <1>6, <1>7 DEF ClientStep

\* Of the guests to be called next, the latest server's was waiting when those of all the others
\* had been called: none of them serves that guest.
LEMMA NoCircleMade ==
  ASSUME TypeOK, ServersHoldTheirGuest, ServersWaitInNoCircle, NEW c \in Clients, Serves(c)
  PROVE  ServersWaitInNoCircle'
PROOF
  <1>1. PICK r \in Requests :
          /\ requests' = [requests EXCEPT ![c] = r]
          /\ r.step = "serve" => \A p \in r.picked : status[p] = "waiting"
    BY DEF Serves, OwnRequest
  <1>2. requests'[c] = r /\ \A d \in Clients \ {c} : requests'[d] = requests[d]
    BY <1>1 DEF TypeOK
  <1> SUFFICES ASSUME NEW circle \in SUBSET Servers', circle # {}
               PROVE  \E e \in circle : \A d \in circle \ {e} :
                        requests'[d].visit \notin requests'[e].picked
    BY DEF ServersWaitInNoCircle
  <1>3. \A d \in circle : d \in Clients /\ requests'[d].step = "serve"
    BY DEF Servers
  <1>4. CASE c \in circle
    <2>1. \A d \in circle \ {c} : status[requests[d].visit] = "called" /\ requests'[d] = requests[d]
      BY <1>2, <1>3 DEF ServersHoldTheirGuest
    <2>2. \A p \in r.picked : status[p] = "waiting"
      BY <1>1, <1>2, <1>3, <1>4
    <2>3. \A d \in circle \ {c} : requests'[d].visit \notin requests'[c].picked
      BY <1>2, <2>1, <2>2
    <2> QED
      BY <1>4, <2>3
  <1>5. CASE c \notin circle
    <2>1. \A d \in circle : requests'[d] = requests[d]
      BY <1>2, <1>3, <1>5
    <2>2. circle \in SUBSET Servers
      BY <1>3, <2>1 DEF Servers
    <2>3. PICK e \in circle : \A d \in circle \ {e} : requests[d].visit \notin requests[e].picked
      BY <2>2 DEF ServersWaitInNoCircle
    <2> QED
      BY <2>1, <2>3
  <1> QED
    BY <1>4, <1>5

-----------------------------------------------------------------------------
(* Numbers in service.                                                      *)

\* What a request owes the line: no draw, numbers to write back that are still so, and
\* guests to call who have one.
Remembers(request) ==
  /\ request.step # "draw"
  /\ \/ request.step = "place"
     \/ request.step = "command" /\ request.command = "return_to_queue"
     => request.held # NoNumber /\ request.held = NumberOf(slot[request.visit])
  /\ request.step \in {"claim", "serve"} =>
       \A v \in request.picked : NumberOf(slot[v]) # NoNumber

NumbersStay == \A v \in Visits : Numbered(v) => NumberOf(slot'[v]) = NumberOf(slot[v])

\* A step of service: numbers stay, whoever it puts in line or calls has one, and the
\* request it writes, if it writes one, remembers what is so.
KeepsNumbers(c) ==
  /\ session' \in {"service_started", "ended"}
  /\ NumbersStay
  /\ \A v \in Visits : /\ status'[v] # "registered"
                       /\ status'[v] \in {"waiting", "called", "no_show"} =>
                            NumberOf(slot'[v]) # NoNumber
  /\ \E r \in Requests : requests' = [requests EXCEPT ![c] = r] /\ Remembers(r)'

\* A guest placed back under a number keeps it, and one placed without is given one.
LEMMA PlaceNumbers ==
  ASSUME NEW line \in Lines, NEW placement \in Placements, NEW s \in Slots
  PROVE  /\ NumberOf(s) # NoNumber => NumberOf(Place(line, placement, NumberOf(s))) = NumberOf(s)
         /\ NumberOf(Place(line, placement, NoNumber)) # NoNumber
PROOF
  <1>1. line.highestMain + 1 # 0 /\ line.highestPriority + 1 # 0
    BY LineAssumption DEF Lines
  <1>2. ASSUME NumberOf(s) # NoNumber
        PROVE  NumberOf(Place(line, placement, NumberOf(s))) = NumberOf(s)
    <2>1. CASE s.priority # 0
      BY <1>2, <2>1 DEF NumberOf, Place
    <2>2. CASE s.priority = 0
      BY <1>2, <2>2 DEF NumberOf, Place
    <2> QED
      BY <2>1, <2>2
  <1>3. NumberOf(Place(line, placement, NoNumber)) # NoNumber
    BY <1>1 DEF NumberOf, Place, NoNumber
  <1> QED
    BY <1>2, <1>3

\* Numbers that stay are remembered.
LEMMA RememberedStays ==
  ASSUME NEW r \in Requests, Remembers(r), NumbersStay
  PROVE  Remembers(r)'
PROOF
  <1>1. r.step \in {"place", "command"} => r.visit \in Visits
    BY RequestFields
  <1>2. r.step \in {"claim", "serve"} => r.picked \subseteq Visits
    BY RequestFields
  <1> QED
    BY <1>1, <1>2 DEF Remembers, NumbersStay, Numbered

\* The invariant of service, request by request.
LEMMA NumberedParts ==
  LineIsNumbered <=>
    /\ session \in {"service_started", "ended"}
    /\ \A v \in Visits : /\ status[v] # "registered"
                         /\ status[v] \in {"waiting", "called", "no_show"} => Numbered(v)
    /\ \A c \in Clients : Remembers(requests[c])
PROOF
  BY DEF LineIsNumbered, Remembers, Numbered

\* A step of service keeps its invariant.
LEMMA NumberedKept ==
  ASSUME TypeOK, LineIsNumbered, NEW c \in Clients, KeepsNumbers(c)
  PROVE  LineIsNumbered'
PROOF
  <1>1. PICK r \in Requests : requests' = [requests EXCEPT ![c] = r] /\ Remembers(r)'
    BY DEF KeepsNumbers
  <1>2. ASSUME NEW d \in Clients
        PROVE  \E q \in Requests : requests'[d] = q /\ Remembers(q)'
    <2>1. CASE d = c
      BY <1>1, <2>1 DEF TypeOK
    <2>2. CASE d # c
      <3>1. PICK q \in Requests : q = requests[d]
        BY DEF TypeOK
      <3>2. Remembers(q) /\ NumbersStay
        BY <3>1, NumberedParts DEF KeepsNumbers
      <3>3. requests'[d] = q
        BY <1>1, <2>2, <3>1 DEF TypeOK
      <3> QED
        BY <3>2, <3>3, RememberedStays
    <2> QED
      BY <2>1, <2>2
  <1> QED
    BY <1>2 DEF KeepsNumbers, LineIsNumbered, Remembers

\* A step that only writes its request.
LEMMA ReadKeepsNumbers ==
  ASSUME TypeOK, LineIsNumbered, NEW c \in Clients, NEW r \in Requests, Remembers(r),
         requests' = [requests EXCEPT ![c] = r], UNCHANGED <<session, status, slot>>
  PROVE  KeepsNumbers(c)
PROOF
  BY DEF KeepsNumbers, NumbersStay, LineIsNumbered, Remembers

\* A step that ends its request and leaves the numbers alone.
LEMMA WriteKeepsNumbers ==
  ASSUME TypeOK, LineIsNumbered, NEW c \in Clients, Finish(c), slot' = slot,
         session' \in {"service_started", "ended"},
         \A v \in Visits : \/ status'[v] = status[v]
                           \/ status'[v] \notin {"registered", "waiting", "called", "no_show"}
                           \/ status'[v] # "registered" /\ Numbered(v)
  PROVE  KeepsNumbers(c)
PROOF
  <1>1. Remembers(Idle)'
    BY DEF Remembers, Idle
  <1>2. NumbersStay
    BY DEF NumbersStay
  <1> QED
    BY <1>1, <1>2, IdleIsRequest DEF KeepsNumbers, LineIsNumbered, Finish, Numbered

\* Phones: registration is over, and a cancelled guest is out of the line.
LEMMA GuestKeepsNumbers ==
  ASSUME TypeOK, LineIsNumbered, NEW c \in Clients, GuestStep(c)
  PROVE  KeepsNumbers(c)
PROOF
  <1>0. session \in {"service_started", "ended"} /\ session \notin MayAcceptSelfRegistration
    BY DEF LineIsNumbered, MayAcceptSelfRegistration
  <1>1. ASSUME NEW v \in Visits, ReadCancel(c, v) PROVE KeepsNumbers(c)
    <2>1. PICK r \in Requests : r = [step |-> "cancel", visit |-> v]
      BY DEF Requests
    <2>2. Remembers(r)
      BY <2>1 DEF Remembers
    <2> QED
      BY <1>1, <2>1, <2>2, ReadKeepsNumbers DEF ReadCancel, Begin
  <1>2. CASE Cancel(c)
    <2>1. \A v \in Visits : status'[v] = status[v] \/ status'[v] = "cancelled"
      BY <1>2 DEF Cancel, With, TypeOK
    <2> QED
      BY <1>0, <1>2, <2>1, WriteKeepsNumbers DEF Cancel
  <1> QED
    BY <1>0, <1>1, <1>2 DEF GuestStep, ReadRegistration, Register, StillAccepts

\* A guest added by hand in service had no number, and is given one.
LEMMA AdmitKeepsNumbers ==
  ASSUME DayInv, LineIsNumbered, NEW c \in Clients, AdmitStep(c)
  PROVE  KeepsNumbers(c)
PROOF
  <1>0. TypeOK /\ session \in {"service_started", "ended"}
    BY DEF LineIsNumbered, DayInv
  <1>1. ASSUME NEW v \in Visits, NEW admission \in {"lottery", "served"},
               AdmitWithoutPlace(c, v, admission)
        PROVE  KeepsNumbers(c)
    <2>1. AdmissionVisitStatus[admission] = "served"
      BY <1>0, <1>1 DEF AdmitWithoutPlace, AdmissionsFor, AdmissionVisitStatus
    <2>2. \A u \in Visits : status'[u] = status[u] \/ status'[u] = "served"
      BY <1>0, <1>1, <2>1 DEF AdmitWithoutPlace, With, TypeOK
    <2>3. Finish(c) /\ slot' = slot /\ session' = session
      BY <1>0, <1>1 DEF AdmitWithoutPlace, Finish, TypeOK
    <2> QED
      BY <1>0, <2>2, <2>3, WriteKeepsNumbers
  <1>2. ASSUME NEW v \in Visits, NEW placement \in Placements, BeginAdmit(c, v, placement)
        PROVE  KeepsNumbers(c)
    <2>1. PICK line \in Lines : line = LineFor(v)
      BY <1>0, LineForType
    <2>2. PICK r \in Requests :
            r = [step |-> "admit", visit |-> v, placement |-> placement, line |-> line]
      BY DEF Requests
    <2>3. Remembers(r)
      BY <2>2 DEF Remembers
    <2> QED
      BY <1>0, <1>2, <2>1, <2>2, <2>3, ReadKeepsNumbers DEF BeginAdmit, Begin
  <1>3. CASE Admit(c)
    <2>1. PICK v \in Visits : v = requests[c].visit
      BY <1>0, <1>3, RequestFields DEF Admit, TypeOK
    <2>2. PICK line \in Lines : line = requests[c].line
      BY <1>0, <1>3, RequestFields DEF Admit, TypeOK
    <2>3. PICK placement \in Placements : placement = requests[c].placement
      BY <1>0, <1>3, RequestFields DEF Admit, TypeOK
    <2>4. NotInLine \in Slots
      BY LineAssumption DEF NotInLine, Slots
    <2>5. PICK given \in HeldNumbers \cup {NumberOf(Place(line, placement, NoNumber))} :
            given = NumberOf(Place(line, placement, NoNumber)) /\ given # NoNumber
      BY <2>4, PlaceNumbers
    <2>6. /\ slot'[v] = Place(line, placement, NoNumber)
          /\ \A u \in Visits \ {v} : slot'[u] = slot[u] /\ status'[u] = status[u]
          /\ status'[v] = "waiting" /\ session' = session /\ Finish(c)
      BY <1>0, <1>3, <2>1, <2>2, <2>3 DEF Admit, With, TypeOK, AdmissionVisitStatus
    <2>7. ~Numbered(v)
      BY <1>3, <2>1 DEF Admit, DayInv, NoVisitNoSlot, Numbered, NumberOf, NotInLine, NoNumber
    <2>8. NumbersStay
      BY <2>6, <2>7 DEF NumbersStay
    <2>9. Remembers(Idle)'
      BY DEF Remembers, Idle
    <2>10. \A u \in Visits : /\ status'[u] # "registered"
                             /\ status'[u] \in {"waiting", "called", "no_show"} =>
                                  NumberOf(slot'[u]) # NoNumber
      BY <2>5, <2>6 DEF LineIsNumbered
    <2> QED
      BY <1>0, <2>6, <2>8, <2>9, <2>10, IdleIsRequest DEF KeepsNumbers, Finish
  <1> QED
    BY <1>1, <1>2, <1>3 DEF AdmitStep

\* A guest put back in the line keeps the number they were called by.
LEMMA CommandKeepsNumbers ==
  ASSUME TypeOK, CommandsWereAllowed, LineIsNumbered, NEW c \in Clients, CommandStep(c)
  PROVE  KeepsNumbers(c)
PROOF
  <1>0. session \in {"service_started", "ended"} /\ requests[c] \in Requests
    BY DEF LineIsNumbered, TypeOK
  <1>1. ASSUME NEW v \in Visits, NEW command \in VisitCommands, ReadCommand(c, v, command)
        PROVE  KeepsNumbers(c)
    <2>1. PICK held \in HeldNumbers : held = NumberOf(slot[v])
      BY NumberOfType DEF TypeOK
    <2>2. PICK seen \in VisitStatuses : seen = status[v]
      BY <1>1 DEF ReadCommand, VisitCommands, VisitCommandSources, VisitStatuses
    <2>3. PICK r \in Requests :
            r = [step |-> "command", visit |-> v, command |-> command, seen |-> seen, held |-> held]
      BY DEF Requests
    <2>4. command = "return_to_queue" => held # NoNumber
      BY <1>1, <2>1 DEF ReadCommand, VisitCommandSources, LineIsNumbered
    <2>5. Remembers(r)
      BY <2>1, <2>3, <2>4 DEF Remembers
    <2> QED
      BY <1>1, <2>1, <2>2, <2>3, <2>5, ReadKeepsNumbers DEF ReadCommand, Begin
  <1>2. CASE RunCommand(c)
    <2>1. PICK v \in Visits : v = requests[c].visit
      BY <1>0, <1>2, RequestFields DEF RunCommand
    <2>2. PICK command \in VisitCommands : command = requests[c].command
      BY <1>0, <1>2, RequestFields DEF RunCommand
    <2>3. /\ Finish(c) /\ status' = With(v, VisitCommandTarget[command]) /\ slot' = slot
          /\ session' = session /\ status[v] = requests[c].seen
      BY <1>2, <2>1, <2>2 DEF RunCommand, Untouched
    <2>4. status[v] \in VisitCommandSources[command]
      BY <1>2, <2>2, <2>3 DEF CommandsWereAllowed, RunCommand
    <2>5. status[v] # "registered" /\ (status[v] \in {"waiting", "called", "no_show"} => Numbered(v))
      BY NumberedParts
    <2>6. \/ VisitCommandTarget[command] \notin {"registered", "waiting", "called", "no_show"}
          \/ VisitCommandTarget[command] # "registered" /\ Numbered(v)
      BY <2>4, <2>5 DEF VisitCommands, VisitCommandTarget, VisitCommandSources
    <2>7. \A u \in Visits : status'[u] = IF u = v THEN VisitCommandTarget[command] ELSE status[u]
      BY <2>3 DEF With, TypeOK
    <2> QED
      BY <1>0, <2>3, <2>6, <2>7, WriteKeepsNumbers
  <1>3. ASSUME NEW placement \in Placements, BeginPlace(c, placement) PROVE KeepsNumbers(c)
    <2>1. PICK v \in Visits : v = requests[c].visit
      BY <1>0, <1>3, RequestFields DEF BeginPlace
    <2>2. PICK line \in Lines : line = LineFor(v)
      BY LineForType
    <2>3. PICK seen \in VisitStatuses : seen = requests[c].seen
      BY <1>0, <1>3, RequestFields DEF BeginPlace
    <2>4. PICK held \in HeldNumbers : held = requests[c].held
      BY <1>0, <1>3, RequestFields DEF BeginPlace
    <2>5. PICK r \in Requests :
            r = [step |-> "place", visit |-> v, seen |-> seen, held |-> held,
                 placement |-> placement, line |-> line]
      BY DEF Requests
    <2>6. Remembers(requests[c])
      BY NumberedParts
    <2>7. held # NoNumber /\ held = NumberOf(slot[v])
      BY <1>3, <2>1, <2>4, <2>6 DEF BeginPlace, Remembers
    <2>8. Remembers(r)
      BY <2>5, <2>7 DEF Remembers
    <2>9. requests' = [requests EXCEPT ![c] = r] /\ UNCHANGED <<session, status, slot>>
      BY <1>3, <2>1, <2>2, <2>3, <2>4, <2>5 DEF BeginPlace
    <2> QED
      BY <2>8, <2>9, ReadKeepsNumbers
  <1>4. CASE PlaceBack(c)
    <2>1. PICK v \in Visits : v = requests[c].visit
      BY <1>0, <1>4, RequestFields DEF PlaceBack
    <2>2. PICK line \in Lines : line = requests[c].line
      BY <1>0, <1>4, RequestFields DEF PlaceBack
    <2>3. PICK placement \in Placements : placement = requests[c].placement
      BY <1>0, <1>4, RequestFields DEF PlaceBack
    <2>4. PICK s \in Slots : s = slot[v]
      BY DEF TypeOK
    <2>5. Remembers(requests[c])
      BY NumberedParts
    <2>6. requests[c].held = NumberOf(s) /\ NumberOf(s) # NoNumber
      BY <1>4, <2>1, <2>4, <2>5 DEF PlaceBack, Remembers
    <2>7. /\ slot'[v] = Place(line, placement, NumberOf(s))
          /\ \A u \in Visits \ {v} : slot'[u] = slot[u] /\ status'[u] = status[u]
          /\ status'[v] = "waiting" /\ session' = session /\ Finish(c)
      BY <1>4, <2>1, <2>2, <2>3, <2>6 DEF PlaceBack, With, TypeOK
    <2>8. NumberOf(slot'[v]) = NumberOf(s)
      BY <2>6, <2>7, PlaceNumbers
    <2>9. NumbersStay
      BY <2>4, <2>7, <2>8 DEF NumbersStay
    <2>10. Remembers(Idle)'
      BY DEF Remembers, Idle
    <2>11. \A u \in Visits : /\ status'[u] # "registered"
                             /\ status'[u] \in {"waiting", "called", "no_show"} =>
                                  NumberOf(slot'[u]) # NoNumber
      BY <2>6, <2>7, <2>8 DEF LineIsNumbered
    <2> QED
      BY <1>0, <2>7, <2>9, <2>10, <2>11, IdleIsRequest DEF KeepsNumbers, Finish
  <1> QED
    BY <1>1, <1>2, <1>3, <1>4 DEF CommandStep

\* Whoever is called was waiting when they were chosen, and numbers stay.
LEMMA CallKeepsNumbers ==
  ASSUME TypeOK, LineIsNumbered, NEW c \in Clients, CallStep(c)
  PROVE  KeepsNumbers(c)
PROOF
  <1>0. session \in {"service_started", "ended"} /\ Remembers(requests[c])
    BY NumberedParts
  <1>1. CASE ReadCallNext(c)
    <2>1. PICK r \in Requests : r = [step |-> "call"]
      BY DEF Requests
    <2>2. Remembers(r)
      BY <2>1 DEF Remembers
    <2> QED
      BY <1>1, <2>1, <2>2, ReadKeepsNumbers DEF ReadCallNext, Begin
  <1>2. ASSUME NEW picked \in SUBSET Visits, NEW count, IsNext(picked, count)
        PROVE  \A v \in picked : NumberOf(slot[v]) # NoNumber
    BY <1>2 DEF IsNext, Waiting, LineIsNumbered
  <1>3. ASSUME NEW count \in BatchSizes, PickNext(c, count) PROVE KeepsNumbers(c)
    <2>1. PICK picked \in SUBSET Visits :
            /\ IsNext(picked, count)
            /\ requests' = [requests EXCEPT ![c] = [step |-> "claim", picked |-> picked]]
            /\ UNCHANGED <<session, status, slot>>
      BY <1>3 DEF PickNext
    <2>2. PICK r \in Requests : r = [step |-> "claim", picked |-> picked]
      BY DEF Requests
    <2>3. Remembers(r)
      BY <1>2, <2>1, <2>2 DEF Remembers
    <2> QED
      BY <2>1, <2>2, <2>3, ReadKeepsNumbers
  <1>4. CASE Claim(c)
    <2>1. \A v \in requests[c].picked : NumberOf(slot[v]) # NoNumber
      BY <1>0, <1>4 DEF Claim, Remembers
    <2>2. \A v \in Visits : \/ status'[v] = status[v]
                            \/ status'[v] = "called" /\ Numbered(v)
      BY <1>4, <2>1 DEF Claim, Numbered
    <2> QED
      BY <1>0, <1>4, <2>2, WriteKeepsNumbers DEF Claim
  <1>5. ASSUME NEW v \in Visits, BeginServe(c, v) PROVE KeepsNumbers(c)
    <2>1. PICK r \in Requests :
            /\ requests' = [requests EXCEPT ![c] = r] /\ r.step = "serve" /\ r.picked = {}
            /\ UNCHANGED <<session, status, slot>>
      BY <1>5, ServeBegins
    <2>2. Remembers(r)
      BY <2>1 DEF Remembers
    <2> QED
      BY <2>1, <2>2, ReadKeepsNumbers
  <1>6. CASE ChooseNext(c)
    <2>1. PICK r \in Requests :
            /\ requests' = [requests EXCEPT ![c] = r] /\ r.step = "serve" /\ IsNext(r.picked, 1)
            /\ UNCHANGED <<session, status, slot>>
      BY <1>6, NextChosen
    <2>2. r.picked \in SUBSET Visits
      BY <2>1, RequestFields
    <2>3. Remembers(r)
      BY <1>2, <2>1, <2>2 DEF Remembers
    <2> QED
      BY <2>1, <2>3, ReadKeepsNumbers
  <1>7. CASE ServeAndCallNext(c)
    <2>1. \A v \in requests[c].picked : NumberOf(slot[v]) # NoNumber
      BY <1>0, <1>7 DEF ServeAndCallNext, Remembers
    <2>2. \A v \in Visits : \/ status'[v] \in {status[v], "served"}
                            \/ status'[v] = "called" /\ Numbered(v)
      BY <1>7, <2>1 DEF ServeAndCallNext, Numbered
    <2> QED
      BY <1>0, <1>7, <2>2, WriteKeepsNumbers DEF ServeAndCallNext
  <1> QED
    BY <1>1, <1>3, <1>4, <1>5, <1>6, <1>7 DEF CallStep

\* The draw is over, and a session in service only ends.
LEMMA SessionKeepsNumbers ==
  ASSUME TypeOK, LineIsNumbered, NEW c \in Clients, SessionStep(c)
  PROVE  KeepsNumbers(c)
PROOF
  <1>0. session \in {"service_started", "ended"} /\ Remembers(requests[c])
    BY NumberedParts
  <1>1. ~BeginDraw(c)
    BY <1>0 DEF BeginDraw, SessionCommandSources
  <1>2. \A winners \in SUBSET Visits : \A rank \in Rankings(winners) : ~Draw(c, winners, rank)
    BY <1>0 DEF Draw, Remembers
  <1>3. CASE ReadSession(c)
    <2>1. PICK r \in Requests : r = [step |-> "session", seen |-> session]
      BY DEF Requests, TypeOK
    <2>2. Remembers(r)
      BY <2>1 DEF Remembers
    <2> QED
      BY <1>3, <2>1, <2>2, ReadKeepsNumbers DEF ReadSession, Begin
  <1>4. \A target \in SessionStatuses : ~MoveSession(c, target)
    <2>1. AutomaticTargets(session) = {}
      BY <1>0 DEF AutomaticTargets
    <2>2. ManualTargets(session) = {}
      BY <1>0 DEF ManualTargets, SessionCommandSources
    <2> QED
      BY <2>1, <2>2 DEF MoveSession, Unmoved
  <1>5. CASE EndSession(c)
    <2>1. \A v \in Visits : status'[v] \in {status[v], "cancelled"}
      BY <1>5 DEF EndSession
    <2> QED
      BY <1>5, <2>1, WriteKeepsNumbers DEF EndSession
  <1>6. CASE BeginEnd(c)
    <2>1. PICK r \in Requests :
            /\ requests' = [requests EXCEPT ![c] = r] /\ r.step = "end"
            /\ UNCHANGED <<session, status, slot>>
      BY <1>6, EndBegins
    <2>2. Remembers(r)
      BY <2>1 DEF Remembers
    <2> QED
      BY <2>1, <2>2, ReadKeepsNumbers
  <1> QED
    BY <1>1, <1>2, <1>3, <1>4, <1>5, <1>6 DEF SessionStep

\* Every step of service keeps the numbers.
LEMMA StepKeepsNumbers ==
  ASSUME DayInv, ServingInv, LineIsNumbered, NEW c \in Clients, ClientStep(c)
  PROVE  KeepsNumbers(c)
PROOF
  <1>0. TypeOK /\ CommandsWereAllowed
    BY DEF ServingInv
  <1>1. CASE Abandon(c)
    <2>1. session \in {"service_started", "ended"}
      BY DEF LineIsNumbered
    <2> QED
      BY <1>0, <1>1, <2>1, WriteKeepsNumbers DEF Abandon
  <1> QED
    BY <1>0, <1>1, GuestKeepsNumbers, AdmitKeepsNumbers, CommandKeepsNumbers, CallKeepsNumbers,
       SessionKeepsNumbers DEF ClientStep

\* Service starts with the line the draw left.
LEMMA ServiceStarts == ServiceInit => DayInv /\ ServingInv /\ LineIsNumbered
PROOF
  <1> SUFFICES ASSUME ServiceInit PROVE DayInv /\ ServingInv /\ LineIsNumbered
    OBVIOUS
  <1>0. PICK drawn \in SUBSET Visits : \E rank \in Rankings(drawn) :
          /\ Cardinality(drawn) <= MaxOrder
          /\ slot = [v \in Visits |-> IF v \in drawn
                                       THEN [NotInLine EXCEPT !.main = rank[v], !.order = rank[v]]
                                       ELSE NotInLine]
          /\ \E left \in SUBSET (Visits \ drawn) :
               status = [v \in Visits |-> IF v \in drawn THEN "waiting"
                                          ELSE IF v \in left THEN "not_placed" ELSE "none"]
          /\ history = [v \in Visits |-> [last |-> status[v], replaced |-> FALSE]]
    BY DEF ServiceInit, DrawnLine
  <1>1. PICK rank \in Rankings(drawn) :
          /\ Cardinality(drawn) <= MaxOrder
          /\ slot = [v \in Visits |-> IF v \in drawn
                                       THEN [NotInLine EXCEPT !.main = rank[v], !.order = rank[v]]
                                       ELSE NotInLine]
          /\ \E left \in SUBSET (Visits \ drawn) :
               status = [v \in Visits |-> IF v \in drawn THEN "waiting"
                                          ELSE IF v \in left THEN "not_placed" ELSE "none"]
          /\ history = [v \in Visits |-> [last |-> status[v], replaced |-> FALSE]]
    BY <1>0
  <1>2. \A v \in drawn : rank[v] \in 1..MaxOrder
    <2>1. Cardinality(drawn) \in Nat /\ MaxOrder \in Nat
      BY LineAssumption, FS_Subset, FS_CardinalityType
    <2>2. \A v \in drawn : rank[v] \in 1..Cardinality(drawn)
      BY DEF Rankings
    <2>3. PICK n \in Nat : n = Cardinality(drawn) /\ n <= MaxOrder
      BY <1>1, <2>1
    <2>4. \A i \in 1..n : i \in 1..MaxOrder
      BY <2>1, <2>3
    <2> QED
      BY <2>2, <2>3, <2>4
  <1> DEFINE SlotOf(i) == [main |-> i, priority |-> 0, front |-> FALSE, order |-> i]
  <1>3. /\ \A v \in drawn : slot[v] = SlotOf(rank[v]) /\ status[v] = "waiting"
        /\ \A v \in Visits \ drawn : slot[v] = NotInLine /\ status[v] \in {"none", "not_placed"}
    BY <1>1 DEF NotInLine
  <1>4. NotInLine \in Slots /\ \A v \in drawn : SlotOf(rank[v]) \in Slots
    <2>1. \A i \in 1..MaxOrder : SlotOf(i) \in Slots
      BY LineAssumption DEF Slots
    <2>2. NotInLine \in Slots
      BY LineAssumption DEF NotInLine, Slots
    <2> QED
      BY <1>2, <2>1, <2>2
  <1>5. TypeOK
    <2>1. slot \in [Visits -> Slots]
      <3>1. \A v \in Visits : slot[v] \in Slots
        <4> SUFFICES ASSUME NEW v \in Visits PROVE slot[v] \in Slots
          OBVIOUS
        <4> HIDE DEF SlotOf
        <4>1. CASE v \in drawn
          BY <1>3, <1>4, <4>1
        <4>2. CASE v \notin drawn
          BY <1>3, <1>4, <4>2
        <4> QED
          BY <4>1, <4>2
      <3>2. slot = [v \in Visits |-> slot[v]]
        BY <1>1
      <3> QED
        BY <3>1, <3>2
    <2>2. status \in [Visits -> Statuses]
      <3>1. \A v \in Visits : status[v] \in Statuses
        BY <1>3 DEF Statuses, VisitStatuses
      <3> QED
        BY <1>1, <3>1
    <2>3. history \in [Visits -> [last : Statuses, replaced : BOOLEAN]]
      BY <1>1, <2>2
    <2> QED
      BY <2>1, <2>2, <2>3, IdleIsRequest DEF ServiceInit, TypeOK, SessionStatuses
  <1>6. /\ \A c \in Clients : requests[c] = Idle /\ requests[c].step = "idle"
        /\ session = "service_started"
    BY DEF ServiceInit, Idle
  <1>7. OneLockHolder /\ LockHolderIsCurrent /\ PoolIsComplete /\ AdmitsInTime
    BY <1>6 DEF OneLockHolder, LockHolderIsCurrent, PoolIsComplete, AdmitsInTime,
       SessionLockSteps, PlacingSteps
  <1>8. NoVisitNoSlot /\ NobodyLeftRegistered
    BY <1>3 DEF NoVisitNoSlot, NobodyLeftRegistered
  <1>9. ServersHoldTheirGuest /\ RowsHeldByOne /\ CommandsWereAllowed
    BY <1>6 DEF ServersHoldTheirGuest, RowsHeldByOne, RowsHeld, CommandsWereAllowed
  <1>10. LineIsNumbered
    <2>1. \A v \in drawn : NumberOf(slot[v]) # NoNumber
      <3> SUFFICES ASSUME NEW v \in drawn PROVE NumberOf(slot[v]) # NoNumber
        OBVIOUS
      <3>1. slot[v].priority = 0 /\ slot[v].main = rank[v] /\ rank[v] # 0
        <4>1. rank[v] # 0
          BY <1>2
        <4>2. slot[v] = [main |-> rank[v], priority |-> 0, front |-> FALSE, order |-> rank[v]]
          BY <1>3
        <4> QED
          BY <4>1, <4>2
      <3> QED
        BY <3>1 DEF NumberOf, NoNumber
    <2>2. \A c \in Clients : Remembers(requests[c])
      BY <1>6 DEF Remembers
    <2> QED
      BY <1>3, <1>6, <2>1, <2>2, NumberedParts DEF Numbered
  <1> QED
    BY <1>5, <1>7, <1>8, <1>9, <1>10 DEF DayInv, ServingInv

\* In service a number never changes once given, however many workers call, return and add
\* guests at once: what a request remembers of a number to write it back is still so.
THEOREM NumbersStayInService == ServiceSpec => NumberNeverChanges
PROOF
  <1>1. DayInv /\ ServingInv /\ LineIsNumbered /\ [Next]_vars => LineIsNumbered'
    <2>1. ASSUME DayInv, ServingInv, LineIsNumbered, NEW c \in Clients, ClientStep(c)
          PROVE  LineIsNumbered'
      BY <2>1, StepKeepsNumbers, NumberedKept DEF DayInv
    <2>2. ASSUME LineIsNumbered, UNCHANGED vars PROVE LineIsNumbered'
      BY <2>2 DEF vars, LineIsNumbered
    <2> QED
      BY <2>1, <2>2 DEF Next, ClientStep
  <1>2. DayInv /\ ServingInv /\ LineIsNumbered /\ [Next]_vars => [NumbersStay]_vars
    BY StepKeepsNumbers DEF Next, ClientStep, KeepsNumbers
  <1>3. [NumbersStay]_vars =>
          [\A v \in Visits : Numbered(v) => NumberOf(slot'[v]) = NumberOf(slot[v])]_vars
    BY DEF NumbersStay
  <1> QED
    BY <1>1, <1>2, <1>3, ServiceStarts, DayInductive, ServingInductive, PTL
       DEF ServiceSpec, NumberNeverChanges

\* From the UPDATE that ends a session on, nobody comes into its line but a returned no-show
\* and whoever was chosen to be called: every other command, admission and submission under
\* way finds the session or the guest moved on.
THEOREM ResolvedLineStays == Spec \/ ServiceSpec => ResolvedLineStaysEmpty
PROOF
  <1> DEFINE Shut == Resolved => \A v \in Visits : ComesIn(v) => MayStillCome(v)
  <1>1. DayInv /\ ServingInv /\ [Next]_vars => [Shut]_vars
    <2> SUFFICES ASSUME DayInv, ServingInv, NEW c \in Clients, ClientStep(c) PROVE Shut
      BY DEF Next, ClientStep
    <2> QED
      BY OnlyTheseComeIn
  <1>2. Spec \/ ServiceSpec => [](DayInv /\ ServingInv) /\ [][Next]_vars
    BY DayInit, ServingInit, ServiceStarts, DayInductive, ServingInductive, PTL
       DEF Spec, ServiceSpec
  <1>3. [Shut]_vars =>
          [session = "ended" \/ Ending =>
             \A v \in Visits :
               status[v] \notin StillInLineStatuses /\ status'[v] \in StillInLineStatuses =>
                 status[v] = "no_show" \/ ChosenToBeCalled(v)]_vars
    BY DEF Resolved, ComesIn, MayStillCome
  <1> QED
    BY <1>1, <1>2, <1>3, PTL DEF ResolvedLineStaysEmpty

\* However many workers serve a guest and call the next at once, on a whole market day or from a
\* drawn line, they never wait for one another in a circle.
THEOREM ServersNeverDeadlock == Spec \/ ServiceSpec => []ServersWaitInNoCircle
PROOF
  <1>1. (Init \/ ServiceInit) => DayInv /\ ServingInv /\ ServersWaitInNoCircle
    <2>1. ASSUME \A c \in Clients : requests[c].step = "idle"
          PROVE  ServersWaitInNoCircle
      BY <2>1 DEF ServersWaitInNoCircle, Servers
    <2>2. Init \/ ServiceInit => \A c \in Clients : requests[c].step = "idle"
      BY DEF Init, ServiceInit, Idle
    <2> QED
      BY <2>1, <2>2, DayInit, ServingInit, ServiceStarts
  <1>2. DayInv /\ ServingInv /\ ServersWaitInNoCircle /\ [Next]_vars => ServersWaitInNoCircle'
    <2>1. ASSUME DayInv, ServingInv, ServersWaitInNoCircle, NEW c \in Clients, ClientStep(c)
          PROVE  ServersWaitInNoCircle'
      BY <2>1, StepServes, NoCircleMade DEF DayInv, ServingInv
    <2>2. ASSUME ServersWaitInNoCircle, UNCHANGED vars PROVE ServersWaitInNoCircle'
      BY <2>2 DEF vars, ServersWaitInNoCircle, Servers
    <2> QED
      BY <2>1, <2>2 DEF Next, ClientStep
  <1> QED
    BY <1>1, <1>2, DayInductive, ServingInductive, PTL DEF Spec, ServiceSpec
============================================================================
