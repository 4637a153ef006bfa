---------------------------- MODULE AtLeastOnce ----------------------------
(* What a statement call promises its caller, without contexts, hooks or   *)
(* backoff: it takes effect on the server no more often than it may be     *)
(* tried, at least once before it is answered with nil, and not at all,    *)
(* before or after, if it is refused.  An answer ends nothing else: an     *)
(* attempt the caller lost may take effect after it.                       *)
EXTENDS Naturals

CONSTANTS Ops, Budget      \* the calls, and how often each may be tried

VARIABLES effects,         \* how often the statement took effect
          answer           \* what the caller was told

avars == <<effects, answer>>

Init ==
  /\ effects = [q \in Ops |-> 0]
  /\ answer = [q \in Ops |-> "none"]

Effect(q) ==
  /\ answer[q] # "refused" /\ effects[q] < Budget[q]
  /\ effects' = [effects EXCEPT ![q] = @ + 1]
  /\ UNCHANGED answer

Reply(q) ==
  /\ answer[q] = "none"
  /\ \E a \in {"nil", "error", "refused"} :
       /\ a = "nil" => effects[q] > 0
       /\ a = "refused" => effects[q] = 0
       /\ answer' = [answer EXCEPT ![q] = a]
  /\ UNCHANGED effects

Next == \E q \in Ops : Effect(q) \/ Reply(q)

Spec == Init /\ [][Next]_avars
=============================================================================
