----------------------------- MODULE AtomicUnit -----------------------------
(* What a transaction promises its caller, without connections, contexts   *)
(* or metrics: a unit of work is applied as a whole or not at all, never   *)
(* against the will of its body, and nil is answered only once it is       *)
(* applied.  An error promises nothing about a unit whose body asked for a *)
(* commit: the acknowledgement may have been lost.                         *)
CONSTANT Calls

VARIABLES vote,    \* what the body of the unit asked for
          unit,    \* what became of its writes
          answer   \* what its caller was told

avars == <<vote, unit, answer>>

Init ==
  /\ vote = [c \in Calls |-> "undecided"]
  /\ unit = [c \in Calls |-> "pending"]
  /\ answer = [c \in Calls |-> "none"]

Vote(c) ==
  /\ vote[c] = "undecided"
  /\ \E v \in {"commit", "abort"} : vote' = [vote EXCEPT ![c] = v]
  /\ UNCHANGED <<unit, answer>>

Apply(c) ==
  /\ vote[c] = "commit" /\ unit[c] = "pending"
  /\ unit' = [unit EXCEPT ![c] = "applied"]
  /\ UNCHANGED <<vote, answer>>

Discard(c) ==
  /\ unit[c] = "pending"
  /\ unit' = [unit EXCEPT ![c] = "discarded"]
  /\ UNCHANGED <<vote, answer>>

Reply(c) ==
  /\ answer[c] = "none"
  /\ \E a \in {"nil", "error", "panic"} :
       /\ a = "nil" => unit[c] = "applied"
       /\ answer' = [answer EXCEPT ![c] = a]
  /\ UNCHANGED <<vote, unit>>

Next == \E c \in Calls : Vote(c) \/ Apply(c) \/ Discard(c) \/ Reply(c)

Spec == Init /\ [][Next]_avars
=============================================================================
