---------------------------- MODULE MCExecution ----------------------------
(* Instance of Execution for TLC: calls are model values.                  *)
EXTENDS Execution
=============================================================================
