---------------------------- MODULE MCMarketDay ----------------------------
(* Small instances of MarketDay for TLC. *)
EXTENDS MarketDay, TLC

\* Visits and clients are interchangeable; every property checked under it is safety.
Symmetry == Permutations(Visits) \cup Permutations(Clients)

\* Registration and the draw: nobody runs the queue.
RegistrationNext ==
  \E c \in Clients : GuestStep(c) \/ AdmitStep(c) \/ SessionStep(c) \/ Abandon(c)

RegistrationSpec == Init /\ [][RegistrationNext]_vars

\* Service with nobody moving guests by hand: cancelling, calling and ending.
CallingNext ==
  \E c \in Clients : GuestStep(c) \/ CallStep(c) \/ SessionStep(c) \/ Abandon(c)

CallingSpec == ServiceInit /\ [][CallingNext]_vars
============================================================================
