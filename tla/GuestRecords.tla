---------------------------- MODULE GuestRecords ----------------------------
(***************************************************************************)
(* Who holds a guest's record: the credentials a phone and the database    *)
(* keep of it, the codes with which a worker or a manager puts a record on *)
(* a phone, registration from a phone, push subscriptions, and deletion.   *)
(*                                                                         *)
(* A request reads in one step and writes in a later one.  Writing is one  *)
(* step: each transaction that writes an existing record begins with the   *)
(* row of its guest or of its claim, which makes the others wait.          *)
(*                                                                         *)
(* A credential is a number never given before; the database keeps what    *)
(* it takes to recognise it.  There is one session, and it may end.        *)
(***************************************************************************)
EXTENDS Integers

CONSTANTS Guests, Phones, Workers,
          ClaimLifetime, \* guestClaimLifetimeMs
          WorkerWindow,  \* workerClaimWindowMs
          MaxTime,       \* the bound on the clock
          MaxTokens,     \* the bound on credentials given
          MaxFailures    \* the bound on answers lost

ASSUME RecordsAssumption ==
  /\ ClaimLifetime \in Nat \ {0} /\ WorkerWindow \in Nat
  /\ MaxTime \in Nat /\ MaxTokens \in Nat /\ MaxFailures \in Nat
  /\ Phones \cap Workers = {}

VARIABLES
  clock,
  open,     \* the session has not ended
  guests,   \* guests[g]: the guest's row
  visits,   \* the rows of visits
  claims,   \* claims[g]: the code outstanding for g, with who issued it
  phones,   \* phones[p]: the credentials p keeps
  requests, \* requests[x]: what the request of a phone or a worker has read so far
  tokens,   \* the last credential given
  failures, \* how many answers have been lost
  overtaken \* a registration was written for a record its phone no longer held

vars == <<clock, open, guests, visits, claims, phones, requests, tokens, failures, overtaken>>

None == 0

Nobody == "nobody"

NoGuest == [row |-> "none", device |-> None, addedAt |-> 0]

Deleted == [NoGuest EXCEPT !.row = "deleted"]

NewGuest(device) == [row |-> "kept", device |-> device, addedAt |-> clock]

NoClaim == [code |-> None, replaces |-> None, expiresAt |-> 0, by |-> Nobody]

Idle == [step |-> "idle"]

Exists(g) == guests[g].row = "kept"

Fresh == tokens + 1

\* A credential is given; MaxTokens leaves room for one.
Give == tokens < MaxTokens /\ tokens' = Fresh

Goto(x, request) == requests' = [requests EXCEPT ![x] = request]

VisitsOf(g) == {v \in visits : v.guest = g}

\* The answer arrives and is kept, or is lost.
Answer(p, kept) ==
  \/ /\ phones' = [phones EXCEPT ![p] = kept]
     /\ UNCHANGED failures
  \/ /\ failures < MaxFailures
     /\ failures' = failures + 1
     /\ UNCHANGED phones

-----------------------------------------------------------------------------
(* Adding and registering.                                                  *)

\* A worker adds a guest by hand, with or without a visit; no phone has their credentials.
AddGuest(g, withVisit) ==
  /\ guests[g].row = "none"
  /\ withVisit => open
  /\ Give
  /\ guests' = [guests EXCEPT ![g] = NewGuest(None)]
  /\ visits' = visits \cup IF withVisit
                           THEN {[id |-> Fresh, guest |-> g, token |-> Fresh, push |-> Nobody]}
                           ELSE {}
  /\ UNCHANGED <<clock, open, claims, phones, requests, failures, overtaken>>

\* findGuestByDeviceToken, and the guest's visit if any, before the transaction.
Holders(p) == {g \in Guests : guests[g].device # None /\ guests[g].device = phones[p].device}

ReadRegistration(p) ==
  /\ requests[p] = Idle
  /\ open
  /\ \/ /\ Holders(p) = {}
        /\ Goto(p, [step |-> "register_new"])
     \/ \E g \in Holders(p) :
          \/ /\ VisitsOf(g) = {}
             /\ Goto(p, [step |-> "register", guest |-> g, visit |-> None])
          \/ \E v \in VisitsOf(g) :
               Goto(p, [step |-> "register", guest |-> g, visit |-> v.id])
  /\ UNCHANGED <<clock, open, guests, visits, claims, phones, tokens, failures, overtaken>>

\* A phone the server does not know makes a record and a visit.
RegisterNew(p, g) ==
  /\ requests[p].step = "register_new"
  /\ open
  /\ guests[g].row = "none"
  /\ Give
  /\ guests' = [guests EXCEPT ![g] = NewGuest(Fresh)]
  /\ visits' = visits \cup {[id |-> Fresh, guest |-> g, token |-> Fresh, push |-> Nobody]}
  /\ Answer(p, [device |-> Fresh, visit |-> Fresh])
  /\ Goto(p, Idle)
  /\ UNCHANGED <<clock, open, claims, overtaken>>

\* The record is updated by id and the visit re-keyed or made; the phone is given the
\* visit's credential.  The device is not compared again.
Register(p) ==
  LET request == requests[p]
      found   == {v \in visits : v.id = request.visit}
  IN  /\ request.step = "register"
      /\ open
      /\ Exists(request.guest)
      /\ request.visit # None => found # {}
      /\ Give
      /\ visits' = (visits \ found)
           \cup IF request.visit = None
                THEN {[id |-> Fresh, guest |-> request.guest, token |-> Fresh, push |-> Nobody]}
                ELSE {[v EXCEPT !.token = Fresh] : v \in found}
      /\ overtaken' = (overtaken \/ guests[request.guest].device # phones[p].device)
      /\ Answer(p, [phones[p] EXCEPT !.visit = Fresh])
      /\ Goto(p, Idle)
      /\ UNCHANGED <<clock, open, guests, claims>>

-----------------------------------------------------------------------------
(* Codes.                                                                   *)

\* issueGuestClaim's checks.
MayIssue(guest, authority) ==
  \/ authority = "manager"
  \/ guest.device = None /\ clock <= guest.addedAt + WorkerWindow

ReadIssue(w, g, authority) ==
  /\ requests[w] = Idle
  /\ Exists(g)
  /\ MayIssue(guests[g], authority)
  /\ Goto(w, [step |-> "issue", guest |-> g, by |-> authority, now |-> clock,
              replaces |-> guests[g].device])
  /\ UNCHANGED <<clock, open, guests, visits, claims, phones, tokens, failures, overtaken>>

ExpiresAt(now) == now + ClaimLifetime

\* A guest has one code outstanding: a new one takes the place of the last.
Issue(w) ==
  LET request == requests[w]
  IN  /\ request.step = "issue"
      /\ Exists(request.guest)
      /\ Give
      /\ claims' = [claims EXCEPT ![request.guest] =
                      [code |-> Fresh, replaces |-> request.replaces, by |-> request.by,
                       expiresAt |-> ExpiresAt(request.now)]]
      /\ Goto(w, Idle)
      /\ UNCHANGED <<clock, open, guests, visits, phones, failures, overtaken>>

\* Mutant: a code hands over whatever its guest holds.
WhoeverHoldsIt(g) == TRUE

\* The guest still holds exactly what the code was issued against.
StillReplaceable(g) == guests[g].device = claims[g].replaces

\* Mutant: the visit keeps its credential.
NothingRekeyed(v) == v

\* Its old credential no longer matches, and its push subscription is dropped.
Rekeyed(v) == [v EXCEPT !.token = Fresh, !.push = Nobody]

\* currentMarketVisitForGuest: the newest visit of a session that has not ended.
CurrentVisits(g) ==
  {v \in VisitsOf(g) : open /\ \A u \in VisitsOf(g) : u.id <= v.id}

\* redeemGuestClaim: the code is spent whether or not it may replace what the guest holds.
Redeem(p, g) ==
  /\ claims[g].code # None
  /\ claims[g].expiresAt > clock
  /\ requests[p] = Idle
  /\ claims' = [claims EXCEPT ![g] = NoClaim]
  /\ \/ /\ StillReplaceable(g)
        /\ Give
        /\ guests' = [guests EXCEPT ![g].device = Fresh]
        /\ visits' = (visits \ CurrentVisits(g)) \cup {Rekeyed(v) : v \in CurrentVisits(g)}
        /\ Answer(p, [device |-> Fresh, visit |-> IF CurrentVisits(g) = {} THEN None ELSE Fresh])
     \/ /\ ~StillReplaceable(g)
        /\ UNCHANGED <<guests, visits, phones, tokens, failures>>
  /\ UNCHANGED <<clock, open, requests, overtaken>>

-----------------------------------------------------------------------------
(* Push subscriptions.                                                      *)

\* authorizedVisit.
ReadSubscribe(p) ==
  /\ requests[p] = Idle
  /\ \E v \in visits :
       v.token = phones[p].visit /\ Goto(p, [step |-> "subscribe", visit |-> v.id])
  /\ UNCHANGED <<clock, open, guests, visits, claims, phones, tokens, failures, overtaken>>

\* The endpoint is moved to the visit, and is the visit's only one.
Subscribe(p) ==
  LET id == requests[p].visit
  IN  /\ requests[p].step = "subscribe"
      /\ \E v \in visits : v.id = id
      /\ visits' = {[v EXCEPT !.push = IF v.id = id THEN p ELSE IF @ = p THEN Nobody ELSE @] :
                      v \in visits}
      /\ Goto(p, Idle)
      /\ UNCHANGED <<clock, open, guests, claims, phones, tokens, failures, overtaken>>

-----------------------------------------------------------------------------
(* Deletion, and the end of the session.                                    *)

\* previewWithin: the guest is in no session that has not ended.
ReadDelete(w, g) ==
  /\ requests[w] = Idle
  /\ Exists(g)
  /\ ~open \/ VisitsOf(g) = {}
  /\ Goto(w, [step |-> "delete", guest |-> g])
  /\ UNCHANGED <<clock, open, guests, visits, claims, phones, tokens, failures, overtaken>>

\* The two DELETEs: the visits, then the guest with their code.
Delete(w) ==
  LET g == requests[w].guest
  IN  /\ requests[w].step = "delete"
      /\ guests' = [guests EXCEPT ![g] = Deleted]
      /\ visits' = visits \ VisitsOf(g)
      /\ claims' = [claims EXCEPT ![g] = NoClaim]
      /\ Goto(w, Idle)
      /\ UNCHANGED <<clock, open, phones, tokens, failures, overtaken>>

\* A request is refused, or its process dies.
Abandon(x) ==
  /\ requests[x] # Idle
  /\ Goto(x, Idle)
  /\ UNCHANGED <<clock, open, guests, visits, claims, phones, tokens, failures, overtaken>>

EndSession ==
  /\ open
  /\ open' = FALSE
  /\ UNCHANGED <<clock, guests, visits, claims, phones, requests, tokens, failures, overtaken>>

Tick ==
  /\ clock < MaxTime
  /\ clock' = clock + 1
  /\ UNCHANGED <<open, guests, visits, claims, phones, requests, tokens, failures, overtaken>>

-----------------------------------------------------------------------------
Init ==
  /\ clock = 0
  /\ open = TRUE
  /\ guests = [g \in Guests |-> NoGuest]
  /\ visits = {}
  /\ claims = [g \in Guests |-> NoClaim]
  /\ phones = [p \in Phones |-> [device |-> None, visit |-> None]]
  /\ requests = [x \in Phones \cup Workers |-> Idle]
  /\ tokens = 0
  /\ failures = 0
  /\ overtaken = FALSE

Next ==
  \/ Tick \/ EndSession
  \/ \E g \in Guests, withVisit \in BOOLEAN : AddGuest(g, withVisit)
  \/ \E p \in Phones :
       \/ ReadRegistration(p) \/ Register(p) \/ ReadSubscribe(p) \/ Subscribe(p)
       \/ \E g \in Guests : RegisterNew(p, g) \/ Redeem(p, g)
  \/ \E w \in Workers :
       \/ \E g \in Guests : ReadDelete(w, g)
       \/ \E g \in Guests, authority \in {"worker", "manager"} : ReadIssue(w, g, authority)
       \/ Issue(w) \/ Delete(w)
  \/ \E x \in Phones \cup Workers : Abandon(x)

Spec == Init /\ [][Next]_vars

-----------------------------------------------------------------------------
(* Types.                                                                   *)

Token == 0..MaxTokens

Visits == [id : Token, guest : Guests, token : Token, push : Phones \cup {Nobody}]

Requests ==
  [step : {"idle", "register_new"}]
    \cup [step : {"register"}, guest : Guests, visit : Token]
    \cup [step : {"issue"}, guest : Guests, by : {"worker", "manager"}, now : Nat, replaces : Token]
    \cup [step : {"subscribe"}, visit : Token]
    \cup [step : {"delete"}, guest : Guests]

TypeOK ==
  /\ clock \in 0..MaxTime
  /\ open \in BOOLEAN
  /\ guests \in [Guests -> [row : {"none", "kept", "deleted"}, device : Token, addedAt : Nat]]
  /\ visits \subseteq Visits
  /\ claims \in [Guests -> [code : Token, replaces : Token, expiresAt : Nat,
                            by : {"worker", "manager", Nobody}]]
  /\ phones \in [Phones -> [device : Token, visit : Token]]
  /\ requests \in [Phones \cup Workers -> Requests]
  /\ tokens \in Token
  /\ failures \in 0..MaxFailures
  /\ overtaken \in BOOLEAN

-----------------------------------------------------------------------------
(* What holds.                                                              *)

\* A record leaves the phone that holds it only by a manager's code issued against that very
\* phone: a worker's code, whenever it was asked for and however late it is scanned, takes
\* it from nobody (issueGuestClaim reads the guest, redeemGuestClaim compares again).
OnlyManagersTakeRecords ==
  [][\A g \in Guests :
       guests[g].device # None /\ Exists(g)' /\ guests'[g].device # guests[g].device =>
         claims[g].by = "manager" /\ claims[g].replaces = guests[g].device]_vars

\* The phone that holds a record follows its visit in the session, whoever registered it
\* before; unless an answer was lost, or a phone that had already lost the record wrote a
\* registration it had begun (registerGuest does not compare the device again).
PhoneFollowsItsVisit ==
  failures = 0 /\ ~overtaken /\ open =>
    \A p \in Phones : \A g \in Holders(p) :
      requests[p] = Idle => \A v \in VisitsOf(g) : v.token = phones[p].visit

-----------------------------------------------------------------------------
(* What the documents say.                                                  *)

\* Nobody in a session that has not ended is deleted ("The check and the deletion share one
\* transaction, so neither can change between them").
NobodyIsDeletedMidSession ==
  [][open =>
       \A g \in Guests : Exists(g) /\ ~Exists(g)' => VisitsOf(g) = {}]_vars
============================================================================
