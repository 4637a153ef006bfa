------------------------------ MODULE MCListen ------------------------------
(* Instance of Listen for TLC: connections and stoppers are model values.  *)
EXTENDS Listen
=============================================================================
