------------------------- MODULE MCHouseholdService -------------------------
(* A small instance of HouseholdService for TLC. *)
EXTENDS HouseholdService, TLC

CONSTANTS first, second, other

\* Two tabs, of which one has session storage, and has two recorders.
TwoTabs == {"stores", "forgets"}

OneStores == {"stores"}

TwoAndOne == [v \in Views |-> IF v = other THEN "forgets" ELSE "stores"]
=============================================================================
