CONSTANTS
  ann = ann
  bob = bob
  new = new
  Accounts = {ann, bob, new}
  Tasks <- SomeTasks
  Staff = {ann, bob}
  FirstRoles <- WorkerOrAdmin
  Requests = {a, b}
  Instances = {i}
  MaxRequests = 2
  MaxCallFailures = 2
  MaxOwners = 1
SPECIFICATION RunningSpec
INVARIANTS AccessIsAsGranted QueuesHoldTheUnfinished
PROPERTIES OwnersKeepTheirRole EveryRequestEnds
CHECK_DEADLOCK FALSE
