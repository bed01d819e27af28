--------------------------- MODULE MCGuestRecords ---------------------------
(* A small instance of GuestRecords for TLC. *)
EXTENDS GuestRecords, TLC

\* Guests and phones are interchangeable, and every property checked under it is safety.
Symmetry == Permutations(Guests) \cup Permutations(Phones)
============================================================================
