--------------------------- MODULE MCPrintStation ---------------------------
(* A small instance of PrintStation for TLC. *)
EXTENDS PrintStation

TwoTags == {1, 2}
=============================================================================
