------------------------- MODULE GuestRecordsProofs -------------------------
(* That only a manager's code takes a record from the phone that holds it. *)
EXTENDS GuestRecords, TLAPS

\* What a worker's codes, and the requests to issue them, replace: nothing.
WorkersReplaceNothing ==
  /\ \A g \in Guests : claims[g].by = "worker" => claims[g].replaces = None
  /\ \A w \in Workers :
       requests[w].step = "issue" /\ requests[w].by = "worker" => requests[w].replaces = None

\* A code outstanding was issued by somebody.
CodesHaveIssuers == \A g \in Guests : claims[g].by = Nobody => claims[g].code = None

\* Nobody holds a record that is not there, and no code is outstanding for it.
OnlyKeptAreHeld ==
  \A g \in Guests : ~Exists(g) => guests[g].device = None /\ claims[g].code = None

\* The inductive invariant.
RecordsInv == TypeOK /\ WorkersReplaceNothing /\ CodesHaveIssuers /\ OnlyKeptAreHeld

\* What a request has read, by the step it has reached.
LEMMA RequestTypes ==
  ASSUME TypeOK, NEW x \in Phones \cup Workers
  PROVE  /\ requests[x].step = "register" =>
              requests[x] \in [step : {"register"}, guest : Guests, visit : Token]
         /\ requests[x].step = "issue" =>
              requests[x] \in [step : {"issue"}, guest : Guests, by : {"worker", "manager"},
                               now : Nat, replaces : Token]
         /\ requests[x].step = "subscribe" => requests[x] \in [step : {"subscribe"}, visit : Token]
         /\ requests[x].step = "delete" => requests[x] \in [step : {"delete"}, guest : Guests]
PROOF
  <1> requests[x] \in Requests
    BY DEF TypeOK
  <1> QED
    BY DEF Requests

\* A request that is over.
LEMMA IdleIsARequest == Idle \in Requests
PROOF
  BY DEF Idle, Requests

\* The credential given next fits the bound.
LEMMA FreshIsAToken ==
  ASSUME TypeOK, Give
  PROVE  Fresh \in Token /\ Fresh # None /\ tokens' \in Token
PROOF
  BY RecordsAssumption DEF TypeOK, Give, Fresh, Token, None

\* No credential is one the columns can hold.
LEMMA NoneIsAToken == None \in Token
PROOF
  BY RecordsAssumption DEF None, Token

\* An answer leaves the phones and the count of failures their types.
LEMMA AnswerTypes ==
  ASSUME TypeOK, NEW p \in Phones, NEW kept \in [device : Token, visit : Token], Answer(p, kept)
  PROVE  phones' \in [Phones -> [device : Token, visit : Token]] /\ failures' \in 0..MaxFailures
PROOF
  <1>1. failures \in 0..MaxFailures /\ phones \in [Phones -> [device : Token, visit : Token]]
    BY DEF TypeOK
  <1>2. CASE phones' = [phones EXCEPT ![p] = kept] /\ UNCHANGED failures
    BY <1>1, <1>2
  <1>3. CASE failures < MaxFailures /\ failures' = failures + 1 /\ UNCHANGED phones
    BY <1>1, <1>3, RecordsAssumption
  <1> QED
    BY <1>2, <1>3 DEF Answer

\* A visit just made.
LEMMA NewVisitTypes ==
  ASSUME NEW token \in Token, NEW g \in Guests
  PROVE  [id |-> token, guest |-> g, token |-> token, push |-> Nobody] \in Visits
PROOF
  BY DEF Visits

LEMMA NoClaimTypes ==
  NoClaim \in [code : Token, replaces : Token, expiresAt : Nat, by : {"worker", "manager", Nobody}]
PROOF
  BY NoneIsAToken DEF NoClaim

LEMMA RecordsInit == Init => RecordsInv
PROOF
  <1> SUFFICES ASSUME Init PROVE RecordsInv
    OBVIOUS
  <1>1. TypeOK
    <2>1. NoGuest \in [row : {"none", "kept", "deleted"}, device : Token, addedAt : Nat]
      BY NoneIsAToken DEF NoGuest
    <2>2. [device |-> None, visit |-> None] \in [device : Token, visit : Token]
      BY NoneIsAToken
    <2>3. 0 \in 0..MaxTime /\ 0 \in Token /\ 0 \in 0..MaxFailures
      BY RecordsAssumption DEF Token
    <2> QED
      BY <2>1, <2>2, <2>3, NoClaimTypes, IdleIsARequest DEF Init, TypeOK
  <1> QED
    BY <1>1 DEF Init, RecordsInv, WorkersReplaceNothing, CodesHaveIssuers, OnlyKeptAreHeld,
       NoClaim, NoGuest, Idle, Nobody, None

\* Every step keeps the types.
LEMMA RecordsTypes == RecordsInv /\ [Next]_vars => TypeOK'
PROOF
  <1> SUFFICES ASSUME RecordsInv, [Next]_vars PROVE TypeOK'
    OBVIOUS
  <1> TypeOK
    BY DEF RecordsInv
  <1> USE RecordsAssumption
  <1>1. CASE Tick
    BY <1>1 DEF Tick, TypeOK
  <1>2. CASE EndSession
    BY <1>2 DEF EndSession, TypeOK
  <1>3. ASSUME NEW g \in Guests, NEW withVisit \in BOOLEAN, AddGuest(g, withVisit)
        PROVE  TypeOK'
    <2>1. Fresh \in Token /\ tokens' \in Token /\ None \in Token
      BY <1>3, FreshIsAToken, NoneIsAToken DEF AddGuest
    <2>2. NewGuest(None) \in [row : {"none", "kept", "deleted"}, device : Token, addedAt : Nat]
      BY <2>1 DEF NewGuest, TypeOK
    <2>3. visits' \subseteq Visits
      BY <1>3, <2>1, NewVisitTypes DEF AddGuest, TypeOK
    <2> QED
      BY <1>3, <2>1, <2>2, <2>3 DEF AddGuest, TypeOK
  <1>4. ASSUME NEW p \in Phones, ReadRegistration(p)
        PROVE  TypeOK'
    <2>1. \A g \in Guests, id \in Token :
            [step |-> "register", guest |-> g, visit |-> id] \in Requests
      <3>1. \A g \in Guests, id \in Token :
              [step |-> "register", guest |-> g, visit |-> id]
                \in [step : {"register"}, guest : Guests, visit : Token]
        OBVIOUS
      <3> QED
        BY <3>1 DEF Requests
    <2>2. \A v \in visits : v.id \in Token
      BY DEF TypeOK, Visits
    <2>3. [step |-> "register_new"] \in Requests
      BY DEF Requests
    <2>4. \E request \in Requests : requests' = [requests EXCEPT ![p] = request]
      BY <1>4, <2>1, <2>2, <2>3, NoneIsAToken DEF ReadRegistration, Goto, Holders, VisitsOf
    <2> QED
      BY <1>4, <2>4 DEF ReadRegistration, TypeOK
  <1>5. ASSUME NEW p \in Phones, Register(p)
        PROVE  TypeOK'
    <2> DEFINE request == requests[p]
    <2>1. Fresh \in Token /\ tokens' \in Token
      BY <1>5, FreshIsAToken DEF Register
    <2>2. request.guest \in Guests
      BY <1>5, RequestTypes DEF Register
    <2>3. ASSUME NEW v \in Visits PROVE [v EXCEPT !.token = Fresh] \in Visits
      BY <2>1 DEF Visits
    <2>4. visits' \subseteq Visits
      BY <1>5, <2>1, <2>2, <2>3, NewVisitTypes DEF Register, TypeOK
    <2>5. phones' \in [Phones -> [device : Token, visit : Token]] /\ failures' \in 0..MaxFailures
      <3>1. [phones[p] EXCEPT !.visit = Fresh] \in [device : Token, visit : Token]
        BY <2>1 DEF TypeOK
      <3> QED
        BY <1>5, <3>1, AnswerTypes DEF Register
    <2>6. requests' \in [Phones \cup Workers -> Requests]
      BY <1>5, IdleIsARequest DEF Register, TypeOK, Goto
    <2> QED
      BY <1>5, <2>1, <2>4, <2>5, <2>6 DEF Register, TypeOK
  <1>6. ASSUME NEW p \in Phones, ReadSubscribe(p)
        PROVE  TypeOK'
    <2>1. \A id \in Token : [step |-> "subscribe", visit |-> id] \in Requests
      <3>1. \A id \in Token :
              [step |-> "subscribe", visit |-> id] \in [step : {"subscribe"}, visit : Token]
        OBVIOUS
      <3> QED
        BY <3>1 DEF Requests
    <2>2. \A v \in visits : v.id \in Token
      BY DEF TypeOK, Visits
    <2> QED
      BY <1>6, <2>1, <2>2 DEF ReadSubscribe, TypeOK, Goto
  <1>7. ASSUME NEW p \in Phones, Subscribe(p)
        PROVE  TypeOK'
    <2> DEFINE Moved(v) == [v EXCEPT !.push = IF v.id = requests[p].visit THEN p
                                             ELSE IF @ = p THEN Nobody ELSE @]
    <2>1. ASSUME NEW v \in Visits PROVE Moved(v) \in Visits
      BY DEF Visits
    <2>2. visits' = {Moved(v) : v \in visits}
      BY <1>7 DEF Subscribe
    <2> HIDE DEF Moved
    <2>3. visits' \subseteq Visits
      BY <2>1, <2>2 DEF TypeOK
    <2>4. requests' \in [Phones \cup Workers -> Requests]
      BY <1>7, IdleIsARequest DEF Subscribe, TypeOK, Goto
    <2> QED
      BY <1>7, <2>3, <2>4 DEF Subscribe, TypeOK
  <1>8. ASSUME NEW p \in Phones, NEW g \in Guests, RegisterNew(p, g)
        PROVE  TypeOK'
    <2>1. Fresh \in Token /\ tokens' \in Token
      BY <1>8, FreshIsAToken DEF RegisterNew
    <2>2. NewGuest(Fresh) \in [row : {"none", "kept", "deleted"}, device : Token, addedAt : Nat]
      BY <2>1 DEF NewGuest, TypeOK
    <2>3. visits' \subseteq Visits
      BY <1>8, <2>1, NewVisitTypes DEF RegisterNew, TypeOK
    <2>4. phones' \in [Phones -> [device : Token, visit : Token]] /\ failures' \in 0..MaxFailures
      BY <1>8, <2>1, AnswerTypes DEF RegisterNew
    <2>5. requests' \in [Phones \cup Workers -> Requests]
      BY <1>8, IdleIsARequest DEF RegisterNew, TypeOK, Goto
    <2> QED
      BY <1>8, <2>1, <2>2, <2>3, <2>4, <2>5 DEF RegisterNew, TypeOK
  <1>9. ASSUME NEW p \in Phones, NEW g \in Guests, Redeem(p, g)
        PROVE  TypeOK'
    <2>1. claims' \in [Guests -> [code : Token, replaces : Token, expiresAt : Nat,
                                 by : {"worker", "manager", Nobody}]]
      BY <1>9, NoClaimTypes DEF Redeem, TypeOK
    <2>2. CASE ~StillReplaceable(g)
      BY <1>9, <2>1, <2>2 DEF Redeem, TypeOK
    <2>3. CASE StillReplaceable(g)
      <3>1. Fresh \in Token /\ tokens' \in Token /\ None \in Token
        BY <1>9, <2>3, FreshIsAToken, NoneIsAToken DEF Redeem
      <3>2. ASSUME NEW v \in Visits PROVE Rekeyed(v) \in Visits
        BY <3>1 DEF Rekeyed, Visits
      <3>3. visits' \subseteq Visits
        BY <1>9, <2>3, <3>2 DEF Redeem, TypeOK, CurrentVisits, VisitsOf
      <3>4. guests' \in [Guests -> [row : {"none", "kept", "deleted"}, device : Token, addedAt : Nat]]
        <4>1. guests' = [guests EXCEPT ![g].device = Fresh]
          BY <1>9, <2>3 DEF Redeem
        <4>2. guests \in [Guests -> [row : {"none", "kept", "deleted"}, device : Token,
                                     addedAt : Nat]]
          BY DEF TypeOK
        <4>3. [guests[g] EXCEPT !.device = Fresh]
                \in [row : {"none", "kept", "deleted"}, device : Token, addedAt : Nat]
          BY <3>1, <4>2
        <4> QED
          BY <4>1, <4>2, <4>3
      <3>5. phones' \in [Phones -> [device : Token, visit : Token]] /\ failures' \in 0..MaxFailures
        <4>1. \A id \in Token : [device |-> Fresh, visit |-> id] \in [device : Token, visit : Token]
          BY <3>1
        <4> QED
          BY <1>9, <2>3, <3>1, <4>1, AnswerTypes DEF Redeem
      <3>6. /\ requests' = requests /\ clock' = clock /\ open' = open
            /\ overtaken' = overtaken
        BY <1>9 DEF Redeem
      <3> QED
        BY <2>1, <3>1, <3>3, <3>4, <3>5, <3>6 DEF TypeOK
    <2> QED
      BY <2>2, <2>3
  <1>10. ASSUME NEW w \in Workers, NEW g \in Guests, ReadDelete(w, g)
         PROVE  TypeOK'
    BY <1>10 DEF ReadDelete, TypeOK, Goto, Requests
  <1>11. ASSUME NEW w \in Workers, NEW g \in Guests, NEW authority \in {"worker", "manager"},
                ReadIssue(w, g, authority)
         PROVE  TypeOK'
    <2> DEFINE request == [step |-> "issue", guest |-> g, by |-> authority, now |-> clock,
                           replaces |-> guests[g].device]
    <2>1. clock \in Nat /\ guests[g].device \in Token
      BY DEF TypeOK
    <2>2. request \in [step : {"issue"}, guest : Guests, by : {"worker", "manager"},
                       now : Nat, replaces : Token]
      BY <2>1
    <2>3. request \in Requests
      BY <2>2 DEF Requests
    <2>4. requests' = [requests EXCEPT ![w] = request]
      BY <1>11 DEF ReadIssue, Goto
    <2> HIDE DEF request
    <2> QED
      BY <1>11, <2>3, <2>4 DEF ReadIssue, TypeOK
  <1>12. ASSUME NEW w \in Workers, Issue(w)
         PROVE  TypeOK'
    <2> DEFINE request == requests[w]
    <2>1. /\ request.guest \in Guests /\ request.by \in {"worker", "manager"}
          /\ request.replaces \in Token /\ ExpiresAt(request.now) \in Nat
      BY <1>12, RequestTypes DEF Issue, ExpiresAt
    <2>2. Fresh \in Token /\ tokens' \in Token
      BY <1>12, FreshIsAToken DEF Issue
    <2>3. claims' \in [Guests -> [code : Token, replaces : Token, expiresAt : Nat,
                                 by : {"worker", "manager", Nobody}]]
      BY <1>12, <2>1, <2>2 DEF Issue, TypeOK
    <2> QED
      BY <1>12, <2>2, <2>3, IdleIsARequest DEF Issue, TypeOK, Goto
  <1>13. ASSUME NEW w \in Workers, Delete(w)
         PROVE  TypeOK'
    <2>1. Deleted \in [row : {"none", "kept", "deleted"}, device : Token, addedAt : Nat]
      BY NoneIsAToken DEF Deleted, NoGuest
    <2> QED
      BY <1>13, <2>1, NoClaimTypes, IdleIsARequest DEF Delete, TypeOK, Goto
  <1>14. ASSUME NEW x \in Phones \cup Workers, Abandon(x)
         PROVE  TypeOK'
    BY <1>14, IdleIsARequest DEF Abandon, TypeOK, Goto
  <1>15. CASE UNCHANGED vars
    BY <1>15 DEF vars, TypeOK
  <1> QED
    BY <1>1, <1>2, <1>3, <1>4, <1>5, <1>6, <1>7, <1>8, <1>9, <1>10, <1>11, <1>12, <1>13, <1>14,
       <1>15 DEF Next

\* Every step keeps the rest of the invariant: a worker's code replaces nothing because its
\* request read a guest nobody held, whatever has become of the guest since.
LEMMA RecordsSteps ==
  RecordsInv /\ TypeOK' /\ [Next]_vars
    => (WorkersReplaceNothing /\ CodesHaveIssuers /\ OnlyKeptAreHeld)'
PROOF
  <1> SUFFICES ASSUME RecordsInv, TypeOK', [Next]_vars
               PROVE  (WorkersReplaceNothing /\ CodesHaveIssuers /\ OnlyKeptAreHeld)'
    OBVIOUS
  <1> USE DEF RecordsInv, WorkersReplaceNothing, CodesHaveIssuers, OnlyKeptAreHeld, Exists
  <1> TypeOK
    OBVIOUS
  <1>0. ASSUME UNCHANGED <<guests, claims, requests>>
        PROVE  (WorkersReplaceNothing /\ CodesHaveIssuers /\ OnlyKeptAreHeld)'
    BY <1>0
  <1>1. ASSUME NEW x \in Phones \cup Workers, NEW request, Goto(x, request),
               request.step # "issue", UNCHANGED <<guests, claims>>
        PROVE  (WorkersReplaceNothing /\ CodesHaveIssuers /\ OnlyKeptAreHeld)'
    BY <1>1 DEF Goto, TypeOK
  <1>2. CASE Tick \/ EndSession \/ UNCHANGED vars
    BY <1>0, <1>2 DEF Tick, EndSession, vars
  <1>3. ASSUME NEW g \in Guests, NEW withVisit \in BOOLEAN, AddGuest(g, withVisit)
        PROVE  (WorkersReplaceNothing /\ CodesHaveIssuers /\ OnlyKeptAreHeld)'
    BY <1>3 DEF AddGuest, NewGuest, TypeOK, None
  <1>4. ASSUME NEW p \in Phones, ReadRegistration(p) \/ Register(p) \/ ReadSubscribe(p) \/ Subscribe(p)
        PROVE  (WorkersReplaceNothing /\ CodesHaveIssuers /\ OnlyKeptAreHeld)'
    BY <1>1, <1>4 DEF ReadRegistration, Register, ReadSubscribe, Subscribe, Idle
  <1>5. ASSUME NEW p \in Phones, NEW g \in Guests, RegisterNew(p, g)
        PROVE  (WorkersReplaceNothing /\ CodesHaveIssuers /\ OnlyKeptAreHeld)'
    BY <1>5 DEF RegisterNew, NewGuest, Goto, Idle, TypeOK
  <1>6. ASSUME NEW p \in Phones, NEW g \in Guests, Redeem(p, g)
        PROVE  (WorkersReplaceNothing /\ CodesHaveIssuers /\ OnlyKeptAreHeld)'
    BY <1>6 DEF Redeem, NoClaim, TypeOK, None, Nobody, StillReplaceable
  <1>7. ASSUME NEW w \in Workers, NEW g \in Guests, NEW authority \in {"worker", "manager"},
               ReadIssue(w, g, authority)
        PROVE  (WorkersReplaceNothing /\ CodesHaveIssuers /\ OnlyKeptAreHeld)'
    BY <1>7 DEF ReadIssue, MayIssue, Goto, TypeOK
  <1>8. ASSUME NEW w \in Workers, Issue(w)
        PROVE  (WorkersReplaceNothing /\ CodesHaveIssuers /\ OnlyKeptAreHeld)'
    BY <1>8, RequestTypes DEF Issue, Goto, Idle, TypeOK, Nobody
  <1>9. ASSUME NEW w \in Workers, Delete(w)
        PROVE  (WorkersReplaceNothing /\ CodesHaveIssuers /\ OnlyKeptAreHeld)'
    <2>1. Deleted.row = "deleted" /\ Deleted.device = None
      BY DEF Deleted, NoGuest
    <2>2. NoClaim.by # "worker" /\ NoClaim.code = None
      BY DEF NoClaim, Nobody
    <2>3. Idle.step # "issue"
      BY DEF Idle
    <2> QED
      BY <1>9, <2>1, <2>2, <2>3 DEF Delete, Goto, TypeOK
  <1>10. ASSUME NEW w \in Workers, NEW g \in Guests, ReadDelete(w, g)
         PROVE  (WorkersReplaceNothing /\ CodesHaveIssuers /\ OnlyKeptAreHeld)'
    BY <1>1, <1>10 DEF ReadDelete
  <1>11. ASSUME NEW x \in Phones \cup Workers, Abandon(x)
         PROVE  (WorkersReplaceNothing /\ CodesHaveIssuers /\ OnlyKeptAreHeld)'
    BY <1>1, <1>11 DEF Abandon, Idle
  <1> QED
    BY <1>2, <1>3, <1>4, <1>5, <1>6, <1>7, <1>8, <1>9, <1>10, <1>11 DEF Next

LEMMA RecordsInductive == Spec => []RecordsInv
PROOF
  <1>1. RecordsInv /\ [Next]_vars => RecordsInv'
    BY RecordsTypes, RecordsSteps DEF RecordsInv
  <1> QED
    BY <1>1, RecordsInit, PTL DEF Spec

\* A step that takes a record from a device is a redemption of a manager's code for it.
LEMMA TakenByManagers ==
  RecordsInv /\ [Next]_vars =>
    \A g \in Guests :
      guests[g].device # None /\ Exists(g)' /\ guests'[g].device # guests[g].device =>
        claims[g].by = "manager" /\ claims[g].replaces = guests[g].device
PROOF
  <1> SUFFICES ASSUME RecordsInv, [Next]_vars, NEW g \in Guests, guests[g].device # None,
                      Exists(g)', guests'[g].device # guests[g].device
               PROVE  claims[g].by = "manager" /\ claims[g].replaces = guests[g].device
    OBVIOUS
  <1> TypeOK /\ Exists(g)
    BY DEF RecordsInv, OnlyKeptAreHeld
  <1>1. ASSUME NEW h \in Guests, NEW withVisit \in BOOLEAN, AddGuest(h, withVisit)
        PROVE  FALSE
    BY <1>1 DEF AddGuest, NewGuest, TypeOK, Exists
  <1>2. ASSUME NEW p \in Phones, NEW h \in Guests, RegisterNew(p, h)
        PROVE  FALSE
    BY <1>2 DEF RegisterNew, TypeOK, Exists
  <1>3. ASSUME NEW p \in Phones, NEW h \in Guests, Redeem(p, h)
        PROVE  claims[g].by = "manager" /\ claims[g].replaces = guests[g].device
    <2>1. h = g /\ StillReplaceable(g) /\ claims[g].code # None
      BY <1>3 DEF Redeem, TypeOK
    <2>2. claims[g].by # Nobody /\ claims[g].by # "worker"
      BY <2>1 DEF RecordsInv, WorkersReplaceNothing, CodesHaveIssuers, StillReplaceable
    <2> QED
      BY <2>1, <2>2 DEF TypeOK, StillReplaceable
  <1>4. ASSUME NEW w \in Workers, Delete(w)
        PROVE  FALSE
    BY <1>4, RequestTypes DEF Delete, TypeOK, Exists, Deleted, NoGuest
  <1>5. ASSUME UNCHANGED guests
        PROVE  FALSE
    BY <1>5
  <1> QED
    BY <1>1, <1>2, <1>3, <1>4, <1>5
       DEF Next, vars, Tick, EndSession, ReadRegistration, Register, ReadSubscribe, Subscribe,
           ReadDelete, ReadIssue, Issue, Abandon

\* Every variable keeps its type, within the bound on credentials.
THEOREM RecordsTypeCorrect == Spec => []TypeOK
PROOF
  BY RecordsInductive, PTL DEF RecordsInv

\* A record leaves its phone only by a manager's code issued against that phone, whatever
\* requests are in flight, however many codes were issued and whenever they are scanned.
THEOREM RecordsStayUnlessAManagerActs == Spec => OnlyManagersTakeRecords
PROOF
  BY RecordsInductive, TakenByManagers, PTL DEF Spec, OnlyManagersTakeRecords
-----------------------------------------------------------------------------
(* The phone that holds a record follows its visit.                         *)

\* Every credential anybody keeps was given, and a visit's identity is none of the next ones.
CredentialsWereGiven ==
  /\ \A g \in Guests : guests[g].device <= tokens
  /\ \A p \in Phones : phones[p].device <= tokens
  /\ \A v \in visits : v.id # None /\ v.id <= tokens
  /\ \A p \in Phones : requests[p].step = "register" => requests[p].visit <= tokens

\* A device's credential is one guest's and one phone's; a visit is known by its id.
CredentialsAreTheirOwn ==
  /\ \A g, h \in Guests : guests[g].device = guests[h].device /\ guests[g].device # None => g = h
  /\ \A p, q \in Phones : phones[p].device = phones[q].device /\ phones[p].device # None => p = q
  /\ \A u, v \in visits : u.id = v.id => u = v

\* A guest who is not kept has no visit.
VisitsAreOfKept == \A g \in Guests : ~Exists(g) => VisitsOf(g) = {}

\* A guest has one visit in the session.
OneVisitEach == \A u, v \in visits : u.guest = v.guest => u = v

Holds(p, g) == guests[g].device # None /\ guests[g].device = phones[p].device

\* What a registration read of a guest its phone still holds is still so: nobody else can
\* have written a visit of theirs.
ReadsAreCurrent ==
  \A p \in Phones :
    LET request == requests[p]
    IN  request.step = "register" =>
          /\ phones[p].device # None
          /\ \A v \in visits : v.id = request.visit => v.guest = request.guest
          /\ Holds(p, request.guest) =>
               \A v \in visits : v.guest = request.guest => v.id = request.visit

\* A phone follows the visit of the guest it holds, whatever it is doing.
HoldersFollow ==
  \A p \in Phones, g \in Guests :
    Holds(p, g) => \A v \in visits : v.guest = g => v.token = phones[p].visit

\* The inductive invariant of PhoneFollowsItsVisit.
PhonesInv ==
  /\ CredentialsWereGiven /\ CredentialsAreTheirOwn /\ VisitsAreOfKept
  /\ ~overtaken => OneVisitEach /\ ReadsAreCurrent
  /\ failures = 0 /\ ~overtaken /\ open => HoldersFollow

\* A step that begins no registration.
RegistersKept == \A p \in Phones : requests'[p].step = "register" => requests'[p] = requests[p]

\* Every visit there is was there, under its id, of its guest.
VisitsKept ==
  /\ \A v \in visits' : \E u \in visits : u.id = v.id /\ u.guest = v.guest
  /\ \A v, w \in visits' : v.id = w.id => v = w

LEMMA TokensAreNat == TypeOK => tokens \in Nat
PROOF
  BY RecordsAssumption DEF TypeOK, Token

\* What a request wrote in its own place it wrote in no phone's but its own.
LEMMA OthersKeepRegistering ==
  ASSUME TypeOK, NEW x \in Phones \cup Workers, NEW request, Goto(x, request),
         request.step # "register"
  PROVE  RegistersKept
PROOF
  BY DEF TypeOK, Goto, RegistersKept

\* A step that writes nobody's credentials, lets go of records and visits at most, and
\* begins no registration.
LEMMA PhonesRest ==
  ASSUME PhonesInv, TypeOK, TypeOK', UNCHANGED <<phones, overtaken>>, RegistersKept,
         \A g \in Guests : guests'[g].device \in {None, guests[g].device},
         VisitsKept, \A v \in visits' : \E u \in visits : u.id = v.id /\ u.guest = v.guest /\ u.token = v.token,
         VisitsAreOfKept', tokens <= tokens', open' => open, failures' = 0 => failures = 0
  PROVE  PhonesInv'
PROOF
  <1>0. tokens \in Nat /\ tokens' \in Nat /\ None = 0
    BY TokensAreNat DEF None, TypeOK, Token
  <1>1. CredentialsWereGiven'
    <2>1. /\ \A g \in Guests : guests[g].device \in Nat
          /\ \A p \in Phones : phones[p].device \in Nat
          /\ \A v \in visits : v.id \in Nat
      BY DEF TypeOK, Token, Visits
    <2>2. \A p \in Phones : requests[p].step = "register" => requests[p].visit \in Nat
      BY RequestTypes DEF Token
    <2>3. \A g \in Guests : guests'[g].device <= tokens'
      BY <1>0, <2>1 DEF PhonesInv, CredentialsWereGiven
    <2>4. \A p \in Phones : phones'[p].device <= tokens'
      BY <1>0, <2>1 DEF PhonesInv, CredentialsWereGiven
    <2>5. \A v \in visits' : v.id # None /\ v.id <= tokens'
      <3> SUFFICES ASSUME NEW v \in visits' PROVE v.id # None /\ v.id <= tokens'
        OBVIOUS
      <3>1. PICK u \in visits : u.id = v.id
        BY DEF VisitsKept
      <3>2. u.id # None /\ u.id <= tokens /\ u.id \in Nat
        BY <2>1 DEF PhonesInv, CredentialsWereGiven
      <3> QED
        BY <1>0, <3>1, <3>2
    <2>6. \A p \in Phones : requests'[p].step = "register" => requests'[p].visit <= tokens'
      BY <1>0, <2>2 DEF PhonesInv, CredentialsWereGiven, RegistersKept
    <2> QED
      BY <2>3, <2>4, <2>5, <2>6 DEF CredentialsWereGiven
  <1>2. CredentialsAreTheirOwn'
    BY DEF PhonesInv, CredentialsAreTheirOwn, VisitsKept
  <1>3. ASSUME ~overtaken' PROVE OneVisitEach'
    BY <1>3 DEF PhonesInv, OneVisitEach, VisitsKept
  <1>4. ASSUME NEW p \in Phones, NEW g \in Guests, Holds(p, g)' PROVE Holds(p, g)
    BY <1>4 DEF Holds
  <1>5. ASSUME ~overtaken' PROVE ReadsAreCurrent'
    <2> SUFFICES ASSUME NEW p \in Phones, requests'[p].step = "register"
                 PROVE  /\ phones'[p].device # None
                        /\ \A v \in visits' :
                             v.id = requests'[p].visit => v.guest = requests'[p].guest
                        /\ Holds(p, requests[p].guest)' =>
                             \A v \in visits' :
                               v.guest = requests'[p].guest => v.id = requests'[p].visit
      BY DEF ReadsAreCurrent, RegistersKept, Holds
    <2>1. requests'[p] = requests[p] /\ requests[p].guest \in Guests
      BY RequestTypes DEF RegistersKept
    <2> QED
      BY <1>4, <1>5, <2>1 DEF PhonesInv, ReadsAreCurrent, VisitsKept
  <1>6. ASSUME failures' = 0, ~overtaken', open' PROVE HoldersFollow'
    BY <1>4, <1>6 DEF PhonesInv, HoldersFollow
  <1> QED
    BY <1>1, <1>2, <1>3, <1>5, <1>6 DEF PhonesInv

\* A credential given next is nobody's yet.
LEMMA FreshIsNew ==
  ASSUME PhonesInv, TypeOK, Give
  PROVE  /\ tokens' = Fresh /\ Fresh # None
         /\ \A g \in Guests : guests[g].device # Fresh
         /\ \A p \in Phones : phones[p].device # Fresh
         /\ \A v \in visits : v.id # Fresh
         /\ \A p \in Phones : requests[p].step = "register" => requests[p].visit # Fresh
PROOF
  <1>1. tokens \in Nat /\ Fresh = tokens + 1 /\ None = 0 /\ tokens' = Fresh
    BY TokensAreNat DEF None, Fresh, Give
  <1>2. \A n : n <= tokens => n # Fresh
    BY <1>1
  <1> QED
    BY <1>1, <1>2 DEF PhonesInv, CredentialsWereGiven

\* A step that gives a credential: whoever keeps one that is not it kept it before.
LEMMA GivenAfter ==
  ASSUME PhonesInv, TypeOK, Give, RegistersKept,
         \A g \in Guests : guests'[g].device \in {Fresh, None, guests[g].device},
         \A p \in Phones : phones'[p].device \in {Fresh, phones[p].device},
         \A v \in visits' : v.id = Fresh \/ \E u \in visits : u.id = v.id
  PROVE  CredentialsWereGiven'
PROOF
  <1>1. tokens \in Nat /\ Fresh = tokens + 1 /\ None = 0 /\ tokens' = Fresh
    BY TokensAreNat DEF None, Fresh, Give
  <1>2. /\ \A g \in Guests : guests[g].device \in Nat
        /\ \A p \in Phones : phones[p].device \in Nat
        /\ \A v \in visits : v.id \in Nat
    BY DEF TypeOK, Token, Visits
  <1>3. \A p \in Phones : requests[p].step = "register" => requests[p].visit \in Nat
    BY RequestTypes DEF Token
  <1>4. \A n \in Nat : n <= tokens => n <= tokens'
    BY <1>1
  <1>5. None <= tokens' /\ Fresh <= tokens' /\ Fresh # None
    BY <1>1
  <1>6. \A g \in Guests : guests'[g].device <= tokens'
    BY <1>2, <1>4, <1>5 DEF PhonesInv, CredentialsWereGiven
  <1>7. \A p \in Phones : phones'[p].device <= tokens'
    BY <1>2, <1>4, <1>5 DEF PhonesInv, CredentialsWereGiven
  <1>8. \A v \in visits' : v.id # None /\ v.id <= tokens'
    BY <1>2, <1>4, <1>5 DEF PhonesInv, CredentialsWereGiven
  <1>9. \A p \in Phones : requests'[p].step = "register" => requests'[p].visit <= tokens'
    BY <1>3, <1>4 DEF PhonesInv, CredentialsWereGiven, RegistersKept
  <1> QED
    BY <1>6, <1>7, <1>8, <1>9 DEF CredentialsWereGiven

\* A record handed to the phone p: no other phone holds it any more, and p, if the answer
\* reached it, holds no other.
LEMMA HandedOver ==
  ASSUME PhonesInv, TypeOK, NEW p \in Phones, NEW g \in Guests, Give,
         guests'[g].device = Fresh, \A h \in Guests \ {g} : guests'[h] = guests[h],
         NEW kept \in [device : Token, visit : Token], kept.device = Fresh, Answer(p, kept)
  PROVE  /\ \A h, i \in Guests :
              guests'[h].device = guests'[i].device /\ guests'[h].device # None => h = i
         /\ \A q, r \in Phones :
              phones'[q].device = phones'[r].device /\ phones'[q].device # None => q = r
         /\ \A q \in Phones \ {p}, h \in Guests : Holds(q, h)' => h # g /\ Holds(q, h)
         /\ failures' = 0 =>
              /\ failures = 0 /\ phones'[p] = kept
              /\ \A h \in Guests : Holds(p, h)' => h = g
         /\ \A q \in Phones : phones'[q].device \in {Fresh, phones[q].device}
         /\ \A q \in Phones \ {p} : phones'[q] = phones[q]
PROOF
  <1>1. /\ Fresh # None
        /\ \A h \in Guests : guests[h].device # Fresh
        /\ \A q \in Phones : phones[q].device # Fresh
    BY FreshIsNew
  <1>2. CredentialsAreTheirOwn
    BY DEF PhonesInv
  <1>3. /\ \A q \in Phones \ {p} : phones'[q] = phones[q]
        /\ phones'[p] \in {kept, phones[p]}
        /\ failures' = 0 => failures = 0 /\ phones'[p] = kept
    <2>1. failures \in Nat /\ phones \in [Phones -> [device : Token, visit : Token]]
      BY RecordsAssumption DEF TypeOK
    <2>2. CASE phones' = [phones EXCEPT ![p] = kept] /\ UNCHANGED failures
      BY <2>1, <2>2
    <2>3. CASE failures' = failures + 1 /\ UNCHANGED phones
      BY <2>1, <2>3
    <2> QED
      BY <2>2, <2>3 DEF Answer
  <1>4. \A q \in Phones : phones'[q].device \in {Fresh, phones[q].device}
    BY <1>3
  <1>5. \A h, i \in Guests :
          guests'[h].device = guests'[i].device /\ guests'[h].device # None => h = i
    BY <1>1, <1>2 DEF CredentialsAreTheirOwn
  <1>6. \A q, r \in Phones :
          phones'[q].device = phones'[r].device /\ phones'[q].device # None => q = r
    BY <1>1, <1>2, <1>3 DEF CredentialsAreTheirOwn
  <1>7. \A q \in Phones \ {p}, h \in Guests : Holds(q, h)' => h # g /\ Holds(q, h)
    BY <1>1, <1>3 DEF Holds
  <1>8. failures' = 0 => \A h \in Guests : Holds(p, h)' => h = g
    BY <1>1, <1>3 DEF Holds
  <1> QED
    BY <1>3, <1>4, <1>5, <1>6, <1>7, <1>8

\* Adding a guest by hand: with a visit nobody follows, for nobody holds the record.
LEMMA AddGuestPhones ==
  ASSUME RecordsInv, RecordsInv', PhonesInv, NEW g \in Guests, NEW withVisit \in BOOLEAN, AddGuest(g, withVisit)
  PROVE  PhonesInv'
PROOF
  <1> DEFINE new == [id |-> Fresh, guest |-> g, token |-> Fresh, push |-> Nobody]
  <1>0. TypeOK /\ TypeOK' /\ ~Exists(g) /\ RegistersKept /\ UNCHANGED <<open, phones, requests, failures, overtaken>>
    BY DEF RecordsInv, AddGuest, RegistersKept, Exists
  <1>1. /\ \A h \in Guests \ {g} : guests'[h] = guests[h]
        /\ guests'[g].device = None /\ Exists(g)' /\ guests[g].device = None
    BY <1>0 DEF RecordsInv, OnlyKeptAreHeld, AddGuest, NewGuest, TypeOK, Exists
  <1>2. /\ visits' \subseteq visits \cup {new} /\ \A v \in visits : v.guest # g
        /\ new.id = Fresh /\ new.guest = g
    BY <1>0 DEF AddGuest, PhonesInv, VisitsAreOfKept, VisitsOf
  <1> HIDE DEF new
  <1>3. Give /\ Fresh # None /\ \A v \in visits : v.id # Fresh
    BY <1>0, FreshIsNew DEF AddGuest
  <1>4. CredentialsWereGiven'
    BY <1>0, <1>1, <1>2, <1>3, GivenAfter
  <1>5. CredentialsAreTheirOwn'
    BY <1>0, <1>1, <1>2, <1>3 DEF PhonesInv, CredentialsAreTheirOwn
  <1>6. VisitsAreOfKept'
    BY <1>1, <1>2 DEF PhonesInv, VisitsAreOfKept, VisitsOf, Exists
  <1>7. ASSUME NEW p \in Phones, NEW h \in Guests, Holds(p, h)' PROVE h # g /\ Holds(p, h)
    BY <1>0, <1>1, <1>7 DEF Holds
  <1>8. ASSUME ~overtaken PROVE OneVisitEach'
    BY <1>2, <1>8 DEF PhonesInv, OneVisitEach
  <1>9. ASSUME ~overtaken PROVE ReadsAreCurrent'
    <2> SUFFICES ASSUME NEW p \in Phones, requests[p].step = "register"
                 PROVE  /\ phones[p].device # None
                        /\ \A v \in visits' :
                             v.id = requests[p].visit => v.guest = requests[p].guest
                        /\ Holds(p, requests[p].guest)' =>
                             \A v \in visits' :
                               v.guest = requests[p].guest => v.id = requests[p].visit
      BY <1>0 DEF ReadsAreCurrent, Holds
    <2>1. requests[p].guest \in Guests /\ requests[p].visit # Fresh
      BY <1>0, <1>3, FreshIsNew, RequestTypes
    <2>2. /\ phones[p].device # None
          /\ \A v \in visits : v.id = requests[p].visit => v.guest = requests[p].guest
          /\ Holds(p, requests[p].guest) =>
               \A v \in visits : v.guest = requests[p].guest => v.id = requests[p].visit
      BY <1>9 DEF PhonesInv, ReadsAreCurrent
    <2>3. Holds(p, requests[p].guest)' => requests[p].guest # g /\ Holds(p, requests[p].guest)
      <3> DEFINE h == requests[p].guest
      <3>1. h' = h
        BY <1>0
      <3> QED
        BY <1>0, <1>1, <2>1 DEF Holds
    <2> QED
      BY <1>2, <2>1, <2>2, <2>3
  <1>10. ASSUME failures = 0, ~overtaken, open PROVE HoldersFollow'
    BY <1>0, <1>2, <1>7, <1>10 DEF PhonesInv, HoldersFollow
  <1> QED
    BY <1>0, <1>4, <1>5, <1>6, <1>8, <1>9, <1>10 DEF PhonesInv

\* What a request to register has read.
LEMMA WhatWasRead ==
  ASSUME TypeOK, ReadsAreCurrent, NEW p \in Phones, requests[p].step = "register"
  PROVE  /\ requests[p].guest \in Guests /\ phones[p].device # None
         /\ \A v \in visits : v.id = requests[p].visit => v.guest = requests[p].guest
         /\ Holds(p, requests[p].guest) =>
              \A v \in visits : v.guest = requests[p].guest => v.id = requests[p].visit
PROOF
  BY RequestTypes DEF ReadsAreCurrent

\* ReadsAreCurrent after a step, a phone at a time.
LEMMA ReadsAfter ==
  ASSUME RegistersKept,
         \A p \in Phones :
           requests[p].step = "register" /\ requests'[p] = requests[p] =>
             \A h \in Guests, id \in Token :
               h = requests[p].guest /\ id = requests[p].visit =>
                 /\ phones'[p].device # None
                 /\ \A v \in visits' : v.id = id => v.guest = h
                 /\ Holds(p, h)' => \A v \in visits' : v.guest = h => v.id = id,
         TypeOK
  PROVE  ReadsAreCurrent'
PROOF
  <1> SUFFICES ASSUME NEW p \in Phones, requests'[p].step = "register"
               PROVE  /\ phones'[p].device # None
                      /\ \A v \in visits' : v.id = requests'[p].visit => v.guest = requests'[p].guest
                      /\ Holds(p, requests[p].guest)' =>
                           \A v \in visits' : v.guest = requests'[p].guest => v.id = requests'[p].visit
    BY DEF ReadsAreCurrent, Holds
  <1>1. requests'[p] = requests[p]
    BY DEF RegistersKept
  <1>2. PICK h \in Guests : h = requests[p].guest
    BY <1>1, RequestTypes
  <1>3. PICK id \in Token : id = requests[p].visit
    BY <1>1, RequestTypes
  <1>4. /\ phones'[p].device # None
        /\ \A v \in visits' : v.id = id => v.guest = h
        /\ Holds(p, h)' => \A v \in visits' : v.guest = h => v.id = id
    BY <1>1, <1>2, <1>3
  <1> QED
    BY <1>1, <1>2, <1>3, <1>4 DEF Holds

\* A phone the server does not know is given a record of its own, and its visit.
LEMMA RegisterNewPhones ==
  ASSUME RecordsInv, RecordsInv', PhonesInv, NEW p \in Phones, NEW g \in Guests, RegisterNew(p, g)
  PROVE  PhonesInv'
PROOF
  <1> DEFINE new == [id |-> Fresh, guest |-> g, token |-> Fresh, push |-> Nobody]
             kept == [device |-> Fresh, visit |-> Fresh]
  <1>0. TypeOK /\ TypeOK' /\ ~Exists(g) /\ Give /\ UNCHANGED <<open, overtaken>>
    BY DEF RecordsInv, RegisterNew, Exists
  <1>1. /\ \A h \in Guests \ {g} : guests'[h] = guests[h]
        /\ guests'[g].device = Fresh /\ Exists(g)'
    BY <1>0 DEF RegisterNew, NewGuest, TypeOK, Exists
  <1>2. /\ visits' = visits \cup {new} /\ \A v \in visits : v.guest # g
        /\ new.id = Fresh /\ new.guest = g /\ new.token = Fresh
    BY <1>0 DEF RegisterNew, PhonesInv, VisitsAreOfKept, VisitsOf
  <1>3. Fresh # None /\ \A v \in visits : v.id # Fresh
    BY <1>0, FreshIsNew
  <1>4. RegistersKept /\ requests'[p].step # "register"
    <2>1. Goto(p, Idle) /\ Idle.step # "register" /\ requests \in [Phones \cup Workers -> Requests]
      BY <1>0 DEF RegisterNew, Idle, TypeOK
    <2> QED
      BY <1>0, <2>1, OthersKeepRegistering DEF Goto
  <1>5. /\ kept \in [device : Token, visit : Token] /\ kept.device = Fresh /\ kept.visit = Fresh
        /\ Answer(p, kept)
    BY <1>0, FreshIsAToken DEF RegisterNew
  <1> HIDE DEF new, kept
  <1>6. /\ \A h, i \in Guests :
              guests'[h].device = guests'[i].device /\ guests'[h].device # None => h = i
        /\ \A q, r \in Phones :
              phones'[q].device = phones'[r].device /\ phones'[q].device # None => q = r
        /\ \A q \in Phones \ {p}, h \in Guests : Holds(q, h)' => h # g /\ Holds(q, h)
        /\ failures' = 0 =>
              /\ failures = 0 /\ phones'[p] = kept
              /\ \A h \in Guests : Holds(p, h)' => h = g
        /\ \A q \in Phones : phones'[q].device \in {Fresh, phones[q].device}
        /\ \A q \in Phones \ {p} : phones'[q] = phones[q]
    BY <1>0, <1>1, <1>5, HandedOver
  <1>7. CredentialsWereGiven'
    <2>1. \A h \in Guests : guests'[h].device \in {Fresh, None, guests[h].device}
      BY <1>1
    <2>2. \A v \in visits' : v.id = Fresh \/ \E u \in visits : u.id = v.id
      BY <1>2
    <2> QED
      BY <1>0, <1>4, <1>6, <2>1, <2>2, GivenAfter
  <1>8. CredentialsAreTheirOwn'
    <2>1. \A u, v \in visits' : u.id = v.id => u = v
      BY <1>2, <1>3 DEF PhonesInv, CredentialsAreTheirOwn
    <2> QED
      BY <1>6, <2>1 DEF CredentialsAreTheirOwn
  <1>9. VisitsAreOfKept'
    BY <1>1, <1>2 DEF PhonesInv, VisitsAreOfKept, VisitsOf, Exists
  <1>10. ASSUME ~overtaken PROVE OneVisitEach'
    BY <1>2, <1>10 DEF PhonesInv, OneVisitEach
  <1>11. ASSUME ~overtaken PROVE ReadsAreCurrent'
    <2> SUFFICES ASSUME NEW q \in Phones, requests[q].step = "register", requests'[q] = requests[q],
                        NEW h \in Guests, NEW id \in Token,
                        h = requests[q].guest, id = requests[q].visit
                 PROVE  /\ phones'[q].device # None
                        /\ \A v \in visits' : v.id = id => v.guest = h
                        /\ Holds(q, h)' => \A v \in visits' : v.guest = h => v.id = id
      BY <1>0, <1>4, ReadsAfter
    <2>1. q # p /\ id # Fresh
      BY <1>0, <1>4, FreshIsNew
    <2>2. /\ phones[q].device # None
          /\ \A v \in visits : v.id = id => v.guest = h
          /\ Holds(q, h) => \A v \in visits : v.guest = h => v.id = id
      BY <1>0, <1>11, WhatWasRead DEF PhonesInv
    <2> QED
      BY <1>2, <1>6, <2>1, <2>2
  <1>12. ASSUME failures' = 0, ~overtaken, open PROVE HoldersFollow'
    <2> SUFFICES ASSUME NEW q \in Phones, NEW h \in Guests, Holds(q, h)', NEW v \in visits', v.guest = h
                 PROVE  v.token = phones'[q].visit
      BY DEF HoldersFollow
    <2>1. CASE q = p
      BY <1>2, <1>5, <1>6, <1>12, <2>1
    <2>2. CASE q # p
      BY <1>2, <1>6, <1>12, <2>2 DEF PhonesInv, HoldersFollow
    <2> QED
      BY <2>1, <2>2
  <1> QED
    BY <1>0, <1>7, <1>8, <1>9, <1>10, <1>11, <1>12 DEF PhonesInv

\* A code redeemed hands the record over with its visit.
LEMMA RedeemPhones ==
  ASSUME RecordsInv, RecordsInv', PhonesInv, NEW p \in Phones, NEW g \in Guests, Redeem(p, g),
         StillReplaceable(g)
  PROVE  PhonesInv'
PROOF
  <1> DEFINE kept == [device |-> Fresh, visit |-> IF CurrentVisits(g) = {} THEN None ELSE Fresh]
  <1>0. TypeOK /\ TypeOK' /\ Exists(g) /\ Give /\ UNCHANGED <<open, overtaken, requests>>
    BY FreshIsNew, FreshIsAToken DEF RecordsInv, Redeem, Exists, OnlyKeptAreHeld, StillReplaceable
  <1>1. /\ \A h \in Guests \ {g} : guests'[h] = guests[h]
        /\ guests'[g].device = Fresh /\ \A h \in Guests : Exists(h)' = Exists(h)
    <2>1. guests' = [guests EXCEPT ![g].device = Fresh]
      BY DEF Redeem
    <2>2. \A h \in Guests \ {g} : guests'[h] = guests[h]
      BY <1>0, <2>1 DEF TypeOK
    <2>3. /\ guests'[g] = [guests[g] EXCEPT !.device = Fresh]
          /\ guests[g] \in [row : {"none", "kept", "deleted"}, device : Token, addedAt : Nat]
      BY <1>0, <2>1 DEF TypeOK
    <2>4. guests'[g].device = Fresh /\ guests'[g].row = guests[g].row
      BY <2>3
    <2> QED
      BY <2>2, <2>4 DEF Exists
  <1>2. visits' = (visits \ CurrentVisits(g)) \cup {Rekeyed(v) : v \in CurrentVisits(g)}
    BY FreshIsNew, <1>0 DEF Redeem
  <1>3. /\ CurrentVisits(g) \subseteq VisitsOf(g)
        /\ \A v \in Visits : /\ Rekeyed(v).id = v.id /\ Rekeyed(v).guest = v.guest
                             /\ Rekeyed(v).token = Fresh
        /\ visits \subseteq Visits
    BY <1>0 DEF CurrentVisits, Rekeyed, Visits, TypeOK
  <1>4. \A v \in visits' :
          \E u \in visits : /\ u.id = v.id /\ u.guest = v.guest
                            /\ \/ v \in visits /\ u = v
                               \/ u.guest = g /\ v = Rekeyed(u) /\ v.token = Fresh
    <2> SUFFICES ASSUME NEW v \in visits'
                 PROVE  \E u \in visits : /\ u.id = v.id /\ u.guest = v.guest
                                          /\ \/ v \in visits /\ u = v
                                             \/ u.guest = g /\ v = Rekeyed(u) /\ v.token = Fresh
      OBVIOUS
    <2>1. CASE v \in visits
      BY <2>1
    <2>2. CASE \E u \in CurrentVisits(g) : v = Rekeyed(u)
      BY <1>3, <2>2 DEF VisitsOf
    <2> QED
      BY <1>2, <2>1, <2>2
  <1>5. RegistersKept /\ requests[p].step # "register"
    BY <1>0 DEF Redeem, Idle, RegistersKept
  <1>6. /\ kept \in [device : Token, visit : Token] /\ kept.device = Fresh
        /\ CurrentVisits(g) # {} => kept.visit = Fresh
        /\ Answer(p, kept)
    BY <1>0, FreshIsAToken, NoneIsAToken DEF Redeem
  <1> HIDE DEF kept
  <1>7. /\ \A h, i \in Guests :
              guests'[h].device = guests'[i].device /\ guests'[h].device # None => h = i
        /\ \A q, r \in Phones :
              phones'[q].device = phones'[r].device /\ phones'[q].device # None => q = r
        /\ \A q \in Phones \ {p}, h \in Guests : Holds(q, h)' => h # g /\ Holds(q, h)
        /\ failures' = 0 =>
              /\ failures = 0 /\ phones'[p] = kept
              /\ \A h \in Guests : Holds(p, h)' => h = g
        /\ \A q \in Phones : phones'[q].device \in {Fresh, phones[q].device}
        /\ \A q \in Phones \ {p} : phones'[q] = phones[q]
    BY <1>0, <1>1, <1>6, HandedOver
  <1>8. CredentialsWereGiven'
    <2>1. \A h \in Guests : guests'[h].device \in {Fresh, None, guests[h].device}
      BY <1>1
    <2>2. \A v \in visits' : v.id = Fresh \/ \E u \in visits : u.id = v.id
      BY <1>4
    <2> QED
      BY <1>0, <1>5, <1>7, <2>1, <2>2, GivenAfter
  <1>9. CredentialsAreTheirOwn'
    <2>1. \A u, v \in visits : u.id = v.id => u = v
      BY DEF PhonesInv, CredentialsAreTheirOwn
    <2>2. ASSUME NEW u \in visits', NEW v \in visits', u.id = v.id PROVE u = v
      <3>1. \A w \in CurrentVisits(g) : w \in visits /\ Rekeyed(w).id = w.id
        BY <1>3 DEF VisitsOf
      <3> QED
        BY <1>2, <2>1, <2>2, <3>1
    <2> QED
      BY <1>7, <2>2 DEF CredentialsAreTheirOwn
  <1>10. VisitsAreOfKept'
    BY <1>1, <1>4 DEF PhonesInv, VisitsAreOfKept, VisitsOf
  <1>11. ASSUME ~overtaken PROVE OneVisitEach'
    <2>1. \A u, v \in visits : u.guest = v.guest => u = v
      BY <1>11 DEF PhonesInv, OneVisitEach
    <2>2. \A u, v \in visits' : u.guest = v.guest => u.id = v.id
      BY <1>4, <2>1
    <2> QED
      BY <1>9, <2>2 DEF OneVisitEach, CredentialsAreTheirOwn
  <1>12. ASSUME ~overtaken PROVE ReadsAreCurrent'
    <2> SUFFICES ASSUME NEW q \in Phones, requests[q].step = "register", requests'[q] = requests[q],
                        NEW h \in Guests, NEW id \in Token,
                        h = requests[q].guest, id = requests[q].visit
                 PROVE  /\ phones'[q].device # None
                        /\ \A v \in visits' : v.id = id => v.guest = h
                        /\ Holds(q, h)' => \A v \in visits' : v.guest = h => v.id = id
      BY <1>0, <1>5, ReadsAfter
    <2>1. q # p
      BY <1>5
    <2>2. /\ phones[q].device # None
          /\ \A v \in visits : v.id = id => v.guest = h
          /\ Holds(q, h) => \A v \in visits : v.guest = h => v.id = id
      BY <1>0, <1>12, WhatWasRead DEF PhonesInv
    <2> QED
      BY <1>4, <1>7, <2>1, <2>2
  <1>13. ASSUME failures' = 0, ~overtaken, open PROVE HoldersFollow'
    <2>1. CurrentVisits(g) = VisitsOf(g)
      <3>1. \A v \in visits : v.id \in Nat
        BY <1>3 DEF Visits, Token
      <3>2. \A u, v \in VisitsOf(g) : u = v
        BY <1>13 DEF PhonesInv, OneVisitEach, VisitsOf
      <3>3. \A u, v \in VisitsOf(g) : u.id <= v.id
        BY <3>1, <3>2 DEF VisitsOf
      <3> QED
        BY <1>13, <3>3 DEF CurrentVisits
    <2> SUFFICES ASSUME NEW q \in Phones, NEW h \in Guests, Holds(q, h)', NEW v \in visits', v.guest = h
                 PROVE  v.token = phones'[q].visit
      BY DEF HoldersFollow
    <2>2. CASE q = p
      <3>1. h = g /\ phones'[p] = kept
        BY <1>7, <1>13, <2>2
      <3>2. v \notin visits \ VisitsOf(g)
        BY <3>1 DEF VisitsOf
      <3>3. PICK u \in CurrentVisits(g) : v = Rekeyed(u)
        BY <1>2, <2>1, <3>2
      <3> QED
        BY <1>3, <1>6, <2>2, <3>1, <3>3 DEF VisitsOf
    <2>3. CASE q # p
      <3>1. h # g /\ Holds(q, h) /\ failures = 0 /\ phones'[q] = phones[q]
        BY <1>7, <1>13, <2>3
      <3>2. v \in visits
        BY <1>4, <3>1
      <3> QED
        BY <1>13, <3>1, <3>2 DEF PhonesInv, HoldersFollow
    <2> QED
      BY <2>2, <2>3
  <1> QED
    BY <1>0, <1>8, <1>9, <1>10, <1>11, <1>12, <1>13 DEF PhonesInv

\* A registration reads the guest its phone holds, and the one visit they have.
LEMMA ReadRegistrationPhones ==
  ASSUME RecordsInv, PhonesInv, NEW p \in Phones, ReadRegistration(p)
  PROVE  PhonesInv'
PROOF
  <1>0. TypeOK /\ UNCHANGED <<open, guests, visits, phones, tokens, failures, overtaken>>
    BY DEF RecordsInv, ReadRegistration
  <1>1. /\ CredentialsAreTheirOwn' /\ VisitsAreOfKept'
        /\ ~overtaken => OneVisitEach'
        /\ failures = 0 /\ ~overtaken /\ open => HoldersFollow'
    BY <1>0 DEF PhonesInv, CredentialsAreTheirOwn, VisitsAreOfKept, OneVisitEach, HoldersFollow,
       Exists, VisitsOf, Holds
  <1>2. \A q \in Phones \ {p} : requests'[q] = requests[q]
    BY <1>0 DEF ReadRegistration, Goto, TypeOK
  <1>3. ASSUME requests'[p].step = "register"
        PROVE  \E g \in Holders(p) :
                 /\ requests'[p].guest = g
                 /\ \/ VisitsOf(g) = {} /\ requests'[p].visit = None
                    \/ \E v \in VisitsOf(g) : requests'[p].visit = v.id
    <2>1. \A request : Goto(p, request) => requests'[p] = request
      BY <1>0 DEF Goto, TypeOK
    <2>2. ASSUME Goto(p, [step |-> "register_new"]) PROVE FALSE
      <3>1. requests'[p] = [step |-> "register_new"]
        BY <2>1, <2>2
      <3>2. requests'[p].step = "register_new"
        BY <3>1
      <3> QED
        BY <1>3, <3>2
    <2>3. PICK g \in Holders(p) :
            \/ /\ VisitsOf(g) = {}
               /\ Goto(p, [step |-> "register", guest |-> g, visit |-> None])
            \/ \E v \in VisitsOf(g) :
                 Goto(p, [step |-> "register", guest |-> g, visit |-> v.id])
      BY <2>2 DEF ReadRegistration
    <2>4. CASE /\ VisitsOf(g) = {}
               /\ Goto(p, [step |-> "register", guest |-> g, visit |-> None])
      <3>1. requests'[p] = [step |-> "register", guest |-> g, visit |-> None]
        BY <2>1, <2>4
      <3> QED
        BY <2>4, <3>1
    <2>5. ASSUME NEW v \in VisitsOf(g), Goto(p, [step |-> "register", guest |-> g, visit |-> v.id])
          PROVE  requests'[p].guest = g /\ requests'[p].visit = v.id
      <3>1. requests'[p] = [step |-> "register", guest |-> g, visit |-> v.id]
        BY <2>1, <2>5
      <3> QED
        BY <3>1
    <2> QED
      BY <2>3, <2>4, <2>5
  <1>4. CredentialsWereGiven'
    <2>1. requests'[p].step = "register" => requests'[p].visit <= tokens
      BY <1>3, TokensAreNat, <1>0 DEF PhonesInv, CredentialsWereGiven, VisitsOf, None
    <2> QED
      BY <1>0, <1>2, <2>1 DEF PhonesInv, CredentialsWereGiven
  <1>5. ASSUME ~overtaken PROVE ReadsAreCurrent'
    <2> SUFFICES ASSUME NEW q \in Phones, requests'[q].step = "register"
                 PROVE  /\ phones[q].device # None
                        /\ \A v \in visits : v.id = requests'[q].visit => v.guest = requests'[q].guest
                        /\ \A v \in visits : v.guest = requests'[q].guest
                                               /\ Holds(q, requests[q].guest)' => v.id = requests'[q].visit
      BY <1>0 DEF ReadsAreCurrent, Holds
    <2>1. CASE q = p
      <3>1. PICK g \in Holders(p) :
              /\ requests'[p].guest = g
              /\ \/ VisitsOf(g) = {} /\ requests'[p].visit = None
                 \/ \E v \in VisitsOf(g) : requests'[p].visit = v.id
        BY <1>3, <2>1
      <3>2. phones[p].device # None
        BY DEF Holders
      <3>3. CASE VisitsOf(g) = {} /\ requests'[p].visit = None
        BY <2>1, <3>1, <3>2, <3>3 DEF PhonesInv, CredentialsWereGiven, VisitsOf
      <3>4. CASE \E v \in VisitsOf(g) : requests'[p].visit = v.id
        BY <1>5, <2>1, <3>1, <3>2, <3>4
           DEF PhonesInv, CredentialsAreTheirOwn, OneVisitEach, VisitsOf
      <3> QED
        BY <3>1, <3>3, <3>4
    <2>2. CASE q # p
      <3>1. requests'[q] = requests[q]
        BY <1>2, <2>2
      <3>2. /\ phones[q].device # None
            /\ \A v \in visits : v.id = requests[q].visit => v.guest = requests[q].guest
            /\ Holds(q, requests[q].guest) =>
                 \A v \in visits : v.guest = requests[q].guest => v.id = requests[q].visit
        BY <1>0, <1>5, <3>1, WhatWasRead DEF PhonesInv
      <3> QED
        BY <1>0, <3>1, <3>2 DEF Holds
    <2> QED
      BY <2>1, <2>2
  <1> QED
    BY <1>0, <1>1, <1>4, <1>5 DEF PhonesInv

\* A registration written: by the phone that still holds the record it follows the only
\* visit, and by another it is remembered as overtaken.
LEMMA RegisterPhones ==
  ASSUME RecordsInv, RecordsInv', PhonesInv, NEW p \in Phones, Register(p)
  PROVE  PhonesInv'
PROOF
  <1>0. TypeOK /\ TypeOK' /\ Give /\ UNCHANGED <<open, guests, claims>> /\ requests[p].step = "register"
    BY DEF RecordsInv, Register
  <1>1. PICK g \in Guests : g = requests[p].guest
    BY <1>0, RequestTypes
  <1>2. PICK visit \in Token : visit = requests[p].visit
    BY <1>0, RequestTypes
  <1>3. /\ Fresh # None /\ \A v \in visits : v.id # Fresh
        /\ visit # Fresh
    BY <1>0, <1>2, FreshIsNew
  <1> DEFINE found == {v \in visits : v.id = visit}
             new   == [id |-> Fresh, guest |-> g, token |-> Fresh, push |-> Nobody]
             Given(v) == [v EXCEPT !.token = Fresh]
             kept  == [phones[p] EXCEPT !.visit = Fresh]
  <1>4. /\ Exists(g)
        /\ visit # None => found # {}
        /\ visits' = (visits \ found) \cup IF visit = None THEN {new} ELSE {Given(v) : v \in found}
        /\ overtaken' = (overtaken \/ guests[g].device # phones[p].device)
        /\ Answer(p, kept) /\ Goto(p, Idle)
    BY <1>1, <1>2 DEF Register
  <1>5. /\ new.id = Fresh /\ new.guest = g /\ new.token = Fresh
        /\ \A v \in Visits : Given(v).id = v.id /\ Given(v).guest = v.guest /\ Given(v).token = Fresh
        /\ visits \subseteq Visits
        /\ kept \in [device : Token, visit : Token] /\ kept.device = phones[p].device
        /\ kept.visit = Fresh
    BY <1>0, FreshIsAToken DEF Visits, TypeOK
  <1> HIDE DEF new, Given, kept
  <1>6. \A v \in visits' :
          \/ visit = None /\ v = new
          \/ v \in visits /\ v.id # visit
          \/ \E u \in visits : u.id = visit /\ v = Given(u) /\ v.id = u.id /\ v.guest = u.guest
               /\ v.token = Fresh
    BY <1>4, <1>5
  <1>7. RegistersKept /\ requests'[p].step # "register"
    <2>1. Idle.step # "register" /\ requests \in [Phones \cup Workers -> Requests]
      BY <1>0 DEF Idle, TypeOK
    <2> QED
      BY <1>0, <1>4, <2>1, OthersKeepRegistering DEF Goto
  <1>8. /\ \A q \in Phones : phones'[q].device = phones[q].device
        /\ failures' = 0 => failures = 0 /\ phones'[p].visit = Fresh
        /\ \A q \in Phones \ {p} : phones'[q] = phones[q]
    <2>1. failures \in Nat /\ phones \in [Phones -> [device : Token, visit : Token]]
      BY <1>0, RecordsAssumption DEF TypeOK
    <2>2. CASE phones' = [phones EXCEPT ![p] = kept] /\ UNCHANGED failures
      BY <1>5, <2>1, <2>2
    <2>3. CASE failures' = failures + 1 /\ UNCHANGED phones
      BY <2>1, <2>3
    <2> QED
      BY <1>4, <2>2, <2>3 DEF Answer
  <1>9. \A q \in Phones, h \in Guests : Holds(q, h)' = Holds(q, h)
    BY <1>0, <1>8 DEF Holds
  <1>10. CredentialsWereGiven'
    <2>1. \A v \in visits' : v.id = Fresh \/ \E u \in visits : u.id = v.id
      BY <1>5, <1>6
    <2> QED
      BY <1>0, <1>7, <1>8, <2>1, GivenAfter
  <1>11. CredentialsAreTheirOwn'
    <2>1. \A u, v \in visits : u.id = v.id => u = v
      BY DEF PhonesInv, CredentialsAreTheirOwn
    <2>2. ASSUME NEW u \in visits', NEW v \in visits', u.id = v.id PROVE u = v
      BY <1>3, <1>5, <1>6, <2>1, <2>2
    <2> QED
      BY <1>0, <1>8, <2>2 DEF PhonesInv, CredentialsAreTheirOwn
  <1>12. VisitsAreOfKept'
    <2>1. \A h \in Guests : Exists(h)' = Exists(h)
      BY <1>0 DEF Exists
    <2>2. \A v \in visits' : v.guest = g \/ \E u \in visits : v.guest = u.guest
      BY <1>5, <1>6
    <2> QED
      <3> SUFFICES ASSUME NEW h \in Guests, ~Exists(h)', NEW v \in visits', v.guest = h PROVE FALSE
        BY DEF VisitsAreOfKept, VisitsOf
      <3>1. ~Exists(h)
        BY <2>1
      <3>2. \A u \in visits : u.guest # h
        BY <3>1 DEF PhonesInv, VisitsAreOfKept, VisitsOf
      <3> QED
        BY <1>4, <2>2, <3>1, <3>2
  <1>13. ASSUME ~overtaken'
         PROVE  /\ ~overtaken /\ Holds(p, g) /\ OneVisitEach
                /\ \A v \in visits : v.id = visit <=> v.guest = g
    <2>1. ~overtaken /\ guests[g].device = phones[p].device
      BY <1>4, <1>13
    <2>2. ReadsAreCurrent /\ OneVisitEach
      BY <2>1 DEF PhonesInv
    <2>3. Holds(p, g)
      BY <1>0, <2>1, <2>2, WhatWasRead DEF Holds
    <2> QED
      BY <1>0, <1>1, <1>2, <2>1, <2>2, <2>3, WhatWasRead
  <1>14. ASSUME ~overtaken'
         PROVE  \A v \in visits' :
                  \/ v.guest = g /\ v.token = Fresh /\ v.id = IF visit = None THEN Fresh ELSE visit
                  \/ v.guest # g /\ v \in visits
    <2> SUFFICES ASSUME NEW v \in visits'
                 PROVE  \/ v.guest = g /\ v.token = Fresh /\ v.id = IF visit = None THEN Fresh ELSE visit
                        \/ v.guest # g /\ v \in visits
      OBVIOUS
    <2>1. CASE visit = None /\ v = new
      BY <1>5, <2>1
    <2>2. CASE v \in visits /\ v.id # visit
      BY <1>13, <1>14, <2>2
    <2>3. CASE \E u \in visits : u.id = visit /\ v.id = u.id /\ v.guest = u.guest /\ v.token = Fresh
      BY <1>13, <1>14, <2>3 DEF PhonesInv, CredentialsWereGiven
    <2> QED
      BY <1>6, <2>1, <2>2, <2>3
  <1>15. ASSUME ~overtaken' PROVE OneVisitEach'
    BY <1>11, <1>13, <1>14, <1>15 DEF OneVisitEach, CredentialsAreTheirOwn
  <1>16. ASSUME ~overtaken' PROVE ReadsAreCurrent'
    <2> SUFFICES ASSUME NEW q \in Phones, requests[q].step = "register", requests'[q] = requests[q],
                        NEW h \in Guests, NEW id \in Token,
                        h = requests[q].guest, id = requests[q].visit
                 PROVE  /\ phones'[q].device # None
                        /\ \A v \in visits' : v.id = id => v.guest = h
                        /\ Holds(q, h)' => \A v \in visits' : v.guest = h => v.id = id
      BY <1>0, <1>7, ReadsAfter
    <2>1. q # p /\ id # Fresh
      BY <1>0, <1>7, FreshIsNew
    <2>2. /\ phones[q].device # None
          /\ \A v \in visits : v.id = id => v.guest = h
          /\ Holds(q, h) => \A v \in visits : v.guest = h => v.id = id
      BY <1>0, <1>13, <1>16, WhatWasRead DEF PhonesInv
    <2>3. ASSUME Holds(q, h) PROVE h # g
      BY <1>13, <1>16, <2>1, <2>3 DEF Holds, PhonesInv, CredentialsAreTheirOwn
    <2>4. ASSUME NEW v \in visits', v.id = id PROVE v.guest = h
      <3>1. CASE v \in visits
        BY <2>2, <2>4, <3>1
      <3>2. CASE v.guest = g /\ v.id = visit /\ visit # None
        <4>1. PICK u \in visits : u.id = visit
          BY <1>4, <3>2
        <4> QED
          BY <1>13, <1>16, <2>2, <2>4, <3>2, <4>1
      <3> QED
        BY <1>14, <1>16, <2>1, <2>4, <3>1, <3>2
    <2> QED
      BY <1>8, <1>9, <1>14, <1>16, <2>2, <2>3, <2>4
  <1>17. ASSUME failures' = 0, ~overtaken', open PROVE HoldersFollow'
    <2> SUFFICES ASSUME NEW q \in Phones, NEW h \in Guests, Holds(q, h), NEW v \in visits', v.guest = h
                 PROVE  v.token = phones'[q].visit
      BY <1>9 DEF HoldersFollow
    <2>1. CASE h = g
      <3>1. q = p
        BY <1>13, <1>17, <2>1 DEF Holds, PhonesInv, CredentialsAreTheirOwn
      <3> QED
        BY <1>8, <1>14, <1>17, <2>1, <3>1
    <2>2. CASE h # g
      <3>1. q # p
        BY <1>13, <1>17, <2>2 DEF Holds, PhonesInv, CredentialsAreTheirOwn
      <3> QED
        BY <1>8, <1>13, <1>14, <1>17, <2>2, <3>1 DEF PhonesInv, HoldersFollow
    <2> QED
      BY <2>1, <2>2
  <1> QED
    BY <1>0, <1>10, <1>11, <1>12, <1>15, <1>16, <1>17 DEF PhonesInv

\* The other steps give nobody a credential that anybody else keeps.
LEMMA OtherPhones ==
  ASSUME RecordsInv, RecordsInv', PhonesInv, UNCHANGED <<guests, visits, phones, overtaken>>,
         RegistersKept, tokens <= tokens', open' => open, failures' = failures
  PROVE  PhonesInv'
PROOF
  <1>1. TypeOK /\ TypeOK'
    BY DEF RecordsInv
  <1>2. VisitsKept
    BY DEF PhonesInv, CredentialsAreTheirOwn, VisitsKept
  <1>3. VisitsAreOfKept'
    BY DEF PhonesInv, VisitsAreOfKept, VisitsOf, Exists
  <1> QED
    BY <1>1, <1>2, <1>3, PhonesRest

\* A phone subscribed follows what it followed: pushes are no part of it.
LEMMA SubscribePhones ==
  ASSUME RecordsInv, RecordsInv', PhonesInv, NEW p \in Phones, Subscribe(p)
  PROVE  PhonesInv'
PROOF
  <1> DEFINE Moved(v) == [v EXCEPT !.push = IF v.id = requests[p].visit THEN p
                                           ELSE IF @ = p THEN Nobody ELSE @]
  <1>0. /\ TypeOK /\ TypeOK' /\ Goto(p, Idle)
        /\ UNCHANGED <<open, guests, phones, tokens, failures, overtaken>>
    BY DEF RecordsInv, Subscribe
  <1>1. visits' = {Moved(v) : v \in visits}
    BY DEF Subscribe
  <1>2. \A v \in visits : Moved(v).id = v.id /\ Moved(v).guest = v.guest /\ Moved(v).token = v.token
    BY <1>0 DEF TypeOK, Visits
  <1> HIDE DEF Moved
  <1>3. \A v \in visits' : \E u \in visits : u.id = v.id /\ u.guest = v.guest /\ u.token = v.token
    BY <1>1, <1>2
  <1>4. VisitsKept
    BY <1>1, <1>2 DEF VisitsKept, PhonesInv, CredentialsAreTheirOwn
  <1>5. VisitsAreOfKept'
    BY <1>0, <1>3 DEF PhonesInv, VisitsAreOfKept, VisitsOf, Exists
  <1>6. RegistersKept /\ tokens <= tokens'
    BY <1>0, OthersKeepRegistering, TokensAreNat DEF Idle
  <1> QED
    BY <1>0, <1>3, <1>4, <1>5, <1>6, PhonesRest

\* A record deleted goes with its visits.
LEMMA DeletePhones ==
  ASSUME RecordsInv, RecordsInv', PhonesInv, NEW w \in Workers, Delete(w)
  PROVE  PhonesInv'
PROOF
  <1>0. /\ TypeOK /\ TypeOK' /\ Goto(w, Idle) /\ requests[w].guest \in Guests
        /\ UNCHANGED <<open, phones, tokens, failures, overtaken>>
    BY RequestTypes DEF RecordsInv, Delete
  <1>1. PICK g \in Guests : g = requests[w].guest
    BY <1>0
  <1>2. guests' = [guests EXCEPT ![g] = Deleted] /\ visits' = visits \ VisitsOf(g)
    BY <1>1 DEF Delete
  <1>3. guests'[g].device = None /\ \A h \in Guests \ {g} : guests'[h] = guests[h]
    BY <1>0, <1>2 DEF TypeOK, Deleted, NoGuest
  <1>4. VisitsKept /\ \A v \in visits' : \E u \in visits : u.id = v.id /\ u.guest = v.guest /\ u.token = v.token
    BY <1>2 DEF VisitsKept, PhonesInv, CredentialsAreTheirOwn
  <1>5. VisitsAreOfKept'
    <2> SUFFICES ASSUME NEW h \in Guests, ~Exists(h)', NEW v \in visits', v.guest = h PROVE FALSE
      BY DEF VisitsAreOfKept, VisitsOf
    <2>1. h # g
      BY <1>2 DEF VisitsOf
    <2>2. ~Exists(h) /\ v \in visits
      BY <1>2, <1>3, <2>1 DEF Exists
    <2> QED
      BY <2>2 DEF PhonesInv, VisitsAreOfKept, VisitsOf
  <1>6. RegistersKept /\ tokens <= tokens'
    BY <1>0, OthersKeepRegistering, TokensAreNat DEF Idle
  <1>7. \A h \in Guests : guests'[h].device \in {None, guests[h].device}
    BY <1>3
  <1> QED
    BY <1>0, <1>4, <1>5, <1>6, <1>7, PhonesRest

LEMMA PhonesInit == Init => PhonesInv
PROOF
  BY DEF Init, PhonesInv, CredentialsWereGiven, CredentialsAreTheirOwn, VisitsAreOfKept,
     VisitsOf, OneVisitEach, ReadsAreCurrent, HoldersFollow, Holds, NoGuest, None, Idle

LEMMA PhonesSteps == RecordsInv /\ RecordsInv' /\ PhonesInv /\ [Next]_vars => PhonesInv'
PROOF
  <1> SUFFICES ASSUME RecordsInv, RecordsInv', PhonesInv, [Next]_vars PROVE PhonesInv'
    OBVIOUS
  <1>0. TypeOK /\ tokens \in Nat /\ tokens <= tokens + 1 /\ tokens <= tokens
    BY TokensAreNat DEF RecordsInv
  <1>1. CASE Tick \/ EndSession \/ UNCHANGED vars
    BY <1>0, <1>1, OtherPhones DEF Tick, EndSession, vars, RegistersKept
  <1>2. ASSUME NEW g \in Guests, NEW withVisit \in BOOLEAN, AddGuest(g, withVisit) PROVE PhonesInv'
    BY <1>2, AddGuestPhones
  <1>3. ASSUME NEW p \in Phones, ReadRegistration(p) \/ Register(p) \/ Subscribe(p) PROVE PhonesInv'
    BY <1>3, ReadRegistrationPhones, RegisterPhones, SubscribePhones
  <1>4. ASSUME NEW x \in Phones \cup Workers, NEW request, Goto(x, request),
               request.step # "register", UNCHANGED <<open, guests, visits, phones, failures, overtaken>>,
               tokens' = tokens \/ tokens' = tokens + 1
        PROVE  PhonesInv'
    BY <1>0, <1>4, OtherPhones, OthersKeepRegistering
  <1>5. ASSUME NEW p \in Phones, ReadSubscribe(p) PROVE PhonesInv'
    BY <1>4, <1>5 DEF ReadSubscribe
  <1>6. ASSUME NEW p \in Phones, NEW g \in Guests, RegisterNew(p, g) PROVE PhonesInv'
    BY <1>6, RegisterNewPhones
  <1>7. ASSUME NEW p \in Phones, NEW g \in Guests, Redeem(p, g) PROVE PhonesInv'
    <2>1. CASE StillReplaceable(g)
      BY <1>7, <2>1, RedeemPhones
    <2>2. CASE ~StillReplaceable(g)
      BY <1>0, <1>7, <2>2, OtherPhones DEF Redeem, RegistersKept
    <2> QED
      BY <2>1, <2>2
  <1>8. ASSUME NEW w \in Workers, NEW g \in Guests, ReadDelete(w, g) PROVE PhonesInv'
    BY <1>4, <1>8 DEF ReadDelete
  <1>9. ASSUME NEW w \in Workers, NEW g \in Guests, NEW authority \in {"worker", "manager"},
               ReadIssue(w, g, authority)
        PROVE  PhonesInv'
    BY <1>4, <1>9 DEF ReadIssue
  <1>10. ASSUME NEW w \in Workers, Issue(w) PROVE PhonesInv'
    BY <1>4, <1>10 DEF Issue, Give, Fresh, Idle
  <1>11. ASSUME NEW w \in Workers, Delete(w) PROVE PhonesInv'
    BY <1>11, DeletePhones
  <1>12. ASSUME NEW x \in Phones \cup Workers, Abandon(x) PROVE PhonesInv'
    BY <1>4, <1>12 DEF Abandon, Idle
  <1> QED
    BY <1>1, <1>2, <1>3, <1>5, <1>6, <1>7, <1>8, <1>9, <1>10, <1>11, <1>12 DEF Next

LEMMA PhonesInductive == Spec => []PhonesInv
PROOF
  BY RecordsInductive, PhonesInit, PhonesSteps, PTL DEF Spec

\* Until an answer is lost or a phone that lost the record writes a registration, the phone
\* that holds a record follows its visit, whatever requests of other phones and workers are in
\* flight.
THEOREM PhonesFollowTheirVisits == Spec => []PhoneFollowsItsVisit
PROOF
  <1>1. PhonesInv => PhoneFollowsItsVisit
    BY DEF PhonesInv, PhoneFollowsItsVisit, HoldersFollow, Holds, Holders, VisitsOf
  <1> QED
    BY <1>1, PhonesInductive, PTL
============================================================================
