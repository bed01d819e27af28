-------------------------- MODULE WorkerDirectory --------------------------
(***************************************************************************)
(* Staff accounts, kept by an external directory.  Adding a worker or      *)
(* changing their access takes several calls, made one by one through the  *)
(* instance's queue; any call may fail, with or without its effect, and    *)
(* ends its request there.  Nothing locks the directory: requests about    *)
(* one account interleave, and owners are appointed outside the program.   *)
(***************************************************************************)
EXTENDS Naturals, Sequences, FiniteSets, Functions

CONSTANTS Accounts,        \* the accounts there may be
          Staff,           \* those there are at first
          FirstRoles,      \* the roles these may have
          Tasks,           \* what may be asked: who asks, of whose account, what
          Requests,        \* the requests that may be in flight at once
          Instances,       \* the function's instances
          MaxRequests,     \* the bound on requests
          MaxCallFailures, \* the bound on failing and rate-limited calls
          MaxOwners        \* the bound on owners appointed

ASSUME DirectoryAssumption ==
  /\ Staff \subseteq Accounts
  /\ Tasks \subseteq [actor : Accounts, target : Accounts,
                      command : {"worker", "admin", "remove"}, adds : BOOLEAN]
  /\ \A task \in Tasks : task.adds => task.command # "remove"
  /\ FirstRoles \subseteq SUBSET {"worker", "admin", "owner"}
  /\ MaxRequests \in Nat /\ MaxCallFailures \in Nat /\ MaxOwners \in Nat

VARIABLES
  accounts,     \* accounts[t]: the roles and the block of account t, if there is one
  requests,     \* requests[r]: what is left to do of a request
  queues,       \* queues[i]: the requests whose call waits in instance i
  pause,        \* pause[i]: how long the directory has told instance i to wait
  granted,      \* granted[t]: the roles of t by the last command that was alone with it
  begun,        \* how many requests there have been
  callFailures, \* how many calls have failed or were told to wait
  owners        \* how many owners have been appointed

directoryVars == <<accounts, requests, queues, pause, granted, begun, callFailures, owners>>

StaffRoles == {"worker", "admin"}

Roles == StaffRoles \cup {"owner"}

Absent == [exists |-> FALSE]

Account(roles, blocked) == [exists |-> TRUE, roles |-> roles, blocked |-> blocked]

Idle == [calls |-> <<>>]

\* The command a request last ran alone no longer says what the account's access is.
Unsure == {"unsure"}

-----------------------------------------------------------------------------
(* Requests, as the calls they have left.                                   *)

Authorize == <<"actor", "actorRoles">>

AddCalls == <<"roleId", "create", "assign", "unblock">>

\* Mutant: the account is blocked only once its roles have changed.
BlockedLast(removed) ==
  <<"roleId">> \o (IF removed = {} THEN <<>> ELSE <<"unassign">>) \o <<"assign", "block", "unblock">>

\* What follows the reading of an account's roles.
RoleCalls(removed) ==
  <<"roleId", "block">> \o (IF removed = {} THEN <<>> ELSE <<"unassign">>) \o <<"assign", "unblock">>

Reads == {"actor", "actorRoles", "roles", "roleId"}

Call(r) == Head(requests[r].calls)

\* A request has come to change its account: what it read there it takes to be so.
Works(r, t) == requests[r] # Idle /\ requests[r].target = t /\ requests[r].works

Begin(r, i, task) ==
  /\ begun < MaxRequests
  /\ requests[r] = Idle
  /\ requests' = [requests EXCEPT ![r] =
       [calls |-> Authorize, actor |-> task.actor, target |-> task.target,
        command |-> task.command, adds |-> task.adds, instance |-> i, active |-> FALSE,
        removed |-> {}, works |-> FALSE, alone |-> FALSE, attempt |-> 0]]
  /\ queues' = [queues EXCEPT ![i] = Append(@, r)]
  /\ begun' = begun + 1
  /\ UNCHANGED <<accounts, pause, granted, callFailures, owners>>

-----------------------------------------------------------------------------
(* The queue of an instance: one call at a time, in turn.                   *)

Turn(r) == requests[r] # Idle /\ Head(queues[requests[r].instance]) = r

\* Mutant: a request that ends in an error leaves the queue behind it waiting.
Poisoned(r, more) ==
  LET i == requests[r].instance
  IN  queues' = [queues EXCEPT ![i] = IF more THEN Append(Tail(@), r) ELSE @]

\* The call is answered, and the request's next one joins the queue, if there is one.
Leave(r, more) ==
  LET i == requests[r].instance
  IN  queues' = [queues EXCEPT ![i] = IF more THEN Append(Tail(@), r) ELSE Tail(@)]

Following(request) ==
  IF Tail(request.calls) = <<>> THEN Idle
  ELSE [request EXCEPT !.calls = Tail(@), !.attempt = 0]

GoOn(r, request) ==
  /\ requests' = [requests EXCEPT ![r] = Following(request)]
  /\ Leave(r, Following(request) # Idle)

\* The request is refused, or fails.
Stop(r) ==
  /\ requests' = [requests EXCEPT ![r] = Idle]
  /\ Leave(r, FALSE)

Failing ==
  /\ callFailures < MaxCallFailures
  /\ callFailures' = callFailures + 1

\* An answer may announce that the quota is spent.
Observe(i) ==
  \/ UNCHANGED <<pause, callFailures>>
  \/ Failing /\ \E wait \in {"short", "long"} : pause' = [pause EXCEPT ![i] = wait]

Answered(r) ==
  /\ Turn(r)
  /\ pause[requests[r].instance] = "none"
  /\ Observe(requests[r].instance)
  /\ UNCHANGED <<begun, owners>>

-----------------------------------------------------------------------------
(* Who may change whom.                                                     *)

\* Mutant: a special role beside an ordinary one makes no difference.
AnyStaff(roles) == roles = {} \/ roles \cap StaffRoles # {}

Editable(roles) == roles \subseteq StaffRoles

MayManage(roles) == roles \cap {"admin", "owner"} # {}

ReadActor(r) ==
  LET actor == accounts[requests[r].actor]
  IN  /\ Answered(r) /\ Call(r) = "actor"
      /\ IF actor.exists
         THEN GoOn(r, [requests[r] EXCEPT !.active = ~actor.blocked])
         ELSE Stop(r)
      /\ UNCHANGED <<accounts, granted>>

\* An active manager goes on, though not to their own account.
ReadActorRoles(r) ==
  LET request == requests[r]
      actor   == accounts[request.actor]
  IN  /\ Answered(r) /\ Call(r) = "actorRoles"
      /\ IF request.active /\ MayManage(actor.roles) /\ (request.adds \/ request.actor # request.target)
         THEN GoOn(r, [request EXCEPT !.calls = @ \o IF request.adds THEN AddCalls ELSE <<"roles">>])
         ELSE Stop(r)
      /\ UNCHANGED <<accounts, granted>>

\* The account's roles: what the request replaces, whatever becomes of them meanwhile.
ReadRoles(r) ==
  LET request == requests[r]
      t       == request.target
      others  == {q \in Requests \ {r} : Works(q, t)}
      removed == accounts[t].roles \ {request.command}
      calls   == IF request.command = "remove" THEN <<"roles", "block">>
                 ELSE <<"roles">> \o RoleCalls(removed)
      working == [request EXCEPT !.calls = calls, !.removed = removed, !.works = TRUE,
                                 !.alone = others = {}]
  IN  /\ Answered(r) /\ Call(r) = "roles"
      /\ IF accounts[t].exists /\ Editable(accounts[t].roles)
         THEN /\ requests' = [q \in Requests |->
                   CASE q = r         -> Following(working)
                     [] q \in others  -> [requests[q] EXCEPT !.alone = FALSE]
                     [] OTHER         -> requests[q]]
              /\ Leave(r, TRUE)
              /\ granted' = [granted EXCEPT ![t] = IF others = {} THEN @ ELSE Unsure]
         ELSE Stop(r) /\ UNCHANGED granted
      /\ UNCHANGED accounts

ReadRoleId(r) ==
  /\ Answered(r) /\ Call(r) = "roleId"
  /\ GoOn(r, requests[r])
  /\ UNCHANGED <<accounts, granted>>

-----------------------------------------------------------------------------
(* Writing.                                                                 *)

\* The directory has the account to write, or none yet to create.
Writable(r) == accounts[requests[r].target].exists # (Call(r) = "create")

Written(r) ==
  LET request == requests[r]
      account == accounts[request.target]
  IN  CASE Call(r) = "create"   -> Account({}, TRUE)
        [] Call(r) = "block"    -> [account EXCEPT !.blocked = TRUE]
        [] Call(r) = "unblock"  -> [account EXCEPT !.blocked = FALSE]
        [] Call(r) = "unassign" -> [account EXCEPT !.roles = @ \ request.removed]
        [] Call(r) = "assign"   -> [account EXCEPT !.roles = @ \cup {request.command}]

\* What the account's access is known to be: a request alone with it has settled it.
GrantedBy(r) ==
  LET request == requests[r]
  IN  CASE Call(r) = "create" -> {}
        [] Call(r) = "unblock" /\ request.alone -> {request.command}
        [] Call(r) = "block" /\ request.alone /\ request.command = "remove" -> {}
        [] OTHER -> granted[request.target]

Write(r) ==
  LET t == requests[r].target
  IN  /\ Call(r) \notin Reads
      /\ Writable(r)
      /\ accounts' = [accounts EXCEPT ![t] = Written(r)]
      /\ granted' = [granted EXCEPT ![t] = GrantedBy(r)]

MakeWrite(r) ==
  /\ Answered(r)
  /\ Write(r)
  /\ GoOn(r, IF Call(r) = "create" THEN [requests[r] EXCEPT !.works = TRUE, !.alone = TRUE]
             ELSE requests[r])

\* There is such an account already.
RefuseCreate(r) ==
  /\ Answered(r) /\ Call(r) = "create"
  /\ ~Writable(r)
  /\ Stop(r)
  /\ UNCHANGED <<accounts, granted>>

-----------------------------------------------------------------------------
(* What fails.                                                              *)

\* A call fails or its answer does not come in time: a write may have been made.
CallFails(r) ==
  /\ Failing
  /\ Turn(r) /\ pause[requests[r].instance] = "none"
  /\ Write(r) \/ UNCHANGED <<accounts, granted>>
  /\ Stop(r)
  /\ UNCHANGED <<pause, begun, owners>>

\* Over the quota: a read is tried again, twice; a write never.
RateLimited(r) ==
  LET request == requests[r]
      i       == request.instance
  IN  /\ Failing
      /\ Turn(r) /\ pause[i] = "none"
      /\ \E wait \in {"short", "long"} : pause' = [pause EXCEPT ![i] = wait]
      /\ IF Call(r) \in Reads /\ request.attempt < 2
         THEN /\ requests' = [requests EXCEPT ![r].attempt = @ + 1]
              /\ UNCHANGED queues
         ELSE Stop(r)
      /\ UNCHANGED <<accounts, granted, begun, owners>>

\* A call is not kept waiting through a long quota window.
FailClosed(r) ==
  /\ Turn(r) /\ pause[requests[r].instance] = "long"
  /\ Stop(r)
  /\ UNCHANGED <<accounts, pause, granted, begun, callFailures, owners>>

\* Time passes.
WaitShrinks(i) ==
  /\ pause[i] # "none"
  /\ pause' = [pause EXCEPT ![i] = IF @ = "long" THEN "short" ELSE "none"]
  /\ UNCHANGED <<accounts, requests, queues, granted, begun, callFailures, owners>>

\* Owners are appointed in the directory itself.
AppointOwner(t) ==
  /\ owners < MaxOwners
  /\ owners' = owners + 1
  /\ accounts[t].exists /\ "owner" \notin accounts[t].roles
  /\ accounts' = [accounts EXCEPT ![t].roles = @ \cup {"owner"}]
  /\ granted' = [granted EXCEPT ![t] = Unsure]
  /\ requests' = [r \in Requests |->
       IF Works(r, t) THEN [requests[r] EXCEPT !.alone = FALSE] ELSE requests[r]]
  /\ UNCHANGED <<queues, pause, begun, callFailures>>

-----------------------------------------------------------------------------
WDInit ==
  /\ accounts \in {a \in [Accounts -> {Absent} \cup {Account(roles, FALSE) : roles \in FirstRoles}] :
                     \A t \in Accounts : a[t].exists <=> t \in Staff}
  /\ requests = [r \in Requests |-> Idle]
  /\ queues = [i \in Instances |-> <<>>]
  /\ pause = [i \in Instances |-> "none"]
  /\ granted = [t \in Accounts |-> IF t \in Staff THEN accounts[t].roles ELSE {}]
  /\ begun = 0 /\ callFailures = 0 /\ owners = 0

Proceed(r) ==
  \/ ReadActor(r) \/ ReadActorRoles(r) \/ ReadRoles(r) \/ ReadRoleId(r)
  \/ MakeWrite(r) \/ RefuseCreate(r)
  \/ FailClosed(r)

WDNext ==
  \/ \E r \in Requests :
       \/ \E i \in Instances, task \in Tasks : Begin(r, i, task)
       \/ Proceed(r)
       \/ CallFails(r) \/ RateLimited(r)
  \/ \E i \in Instances : WaitShrinks(i)
  \/ \E t \in Accounts : AppointOwner(t)

WDSpec == WDInit /\ [][WDNext]_directoryVars

\* The directory answers, or the call's time is up; and quota windows end.
WDFairness ==
  /\ \A r \in Requests : WF_directoryVars(Proceed(r))
  /\ \A i \in Instances : WF_directoryVars(WaitShrinks(i))

RunningSpec == WDSpec /\ WDFairness

-----------------------------------------------------------------------------
(* Types.                                                                   *)

CallNames == Reads \cup {"create", "block", "unblock", "unassign", "assign"}

WDTypeOK ==
  /\ \A t \in Accounts :
       \/ accounts[t] = Absent
       \/ accounts[t] \in [exists : {TRUE}, roles : SUBSET Roles, blocked : BOOLEAN]
  /\ \A r \in Requests :
       LET request == requests[r]
       IN  request # Idle =>
             /\ request.calls # <<>> /\ \A k \in DOMAIN request.calls : request.calls[k] \in CallNames
             /\ [actor |-> request.actor, target |-> request.target,
                 command |-> request.command, adds |-> request.adds] \in Tasks
             /\ request.removed \subseteq StaffRoles /\ request.attempt \in 0..2
             /\ request.instance \in Instances
             /\ \E k \in DOMAIN queues[request.instance] : queues[request.instance][k] = r
  /\ pause \in [Instances -> {"none", "short", "long"}]
  /\ granted \in [Accounts -> (SUBSET Roles) \cup {Unsure}]
  /\ begun \in 0..MaxRequests /\ callFailures \in 0..MaxCallFailures /\ owners \in 0..MaxOwners

-----------------------------------------------------------------------------
(* What holds.                                                              *)

\* Wherever a request fails, an account that can be used has the role the last command gave
\* it, and no other: a failure part of the way leaves it blocked, and running the command
\* again puts it right.  (Two requests at work on one account may leave it otherwise.)
AccessIsAsGranted ==
  \A t \in Accounts :
    accounts[t].exists /\ ~accounts[t].blocked /\ granted[t] # Unsure =>
      accounts[t].roles = granted[t]

\* Owners stay owners, even one appointed while a request is at work on the account.
OwnersKeepTheirRole ==
  [][\A t \in Accounts :
       accounts[t].exists /\ "owner" \in accounts[t].roles => "owner" \in accounts'[t].roles]_directoryVars

\* An instance's queue holds each request it has not finished, once, and no other: so the call
\* at its head is always somebody's to make, and a request that fails, is refused or is tried
\* again leaves nobody behind it waiting for a turn that does not come.
QueuesHoldTheUnfinished ==
  /\ \A i \in Instances :
       /\ IsInjective(queues[i])
       /\ \A k \in DOMAIN queues[i] :
            LET r == queues[i][k]
            IN  r \in Requests /\ requests[r] # Idle /\ requests[r].instance = i
  /\ \A r \in Requests :
       requests[r] # Idle =>
         \E k \in DOMAIN queues[requests[r].instance] : queues[requests[r].instance][k] = r

\* Every request ends: a call that fails holds up nobody behind it, and no wait is for good.
EveryRequestEnds ==
  \A r \in Requests : requests[r] # Idle ~> requests[r] = Idle
=============================================================================
