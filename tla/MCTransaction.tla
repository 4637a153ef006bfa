--------------------------- MODULE MCTransaction ---------------------------
(* Instance of Transaction for TLC: calls and connections are model values.*)
EXTENDS Transaction
=============================================================================
