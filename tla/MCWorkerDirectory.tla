------------------------- MODULE MCWorkerDirectory -------------------------
(* A small instance of WorkerDirectory for TLC. *)
EXTENDS WorkerDirectory, TLC

CONSTANTS ann, bob, new

Task(actor, target, command, adds) ==
  [actor |-> actor, target |-> target, command |-> command, adds |-> adds]

\* Ann changes what bob may do, and bob what ann may; a worker is added, promoted meanwhile,
\* or turns out to have an account.
SomeTasks ==
  {Task(ann, bob, command, FALSE) : command \in {"worker", "admin", "remove"}}
    \cup {Task(bob, ann, "remove", FALSE), Task(ann, ann, "worker", FALSE)}
    \cup {Task(ann, new, "worker", TRUE), Task(ann, new, "admin", FALSE), Task(bob, ann, "admin", TRUE)}

WorkerOrAdmin == {{"worker"}, {"admin"}}
=============================================================================
