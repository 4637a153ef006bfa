----------------------------- MODULE Execution -----------------------------
(* Statement calls (database/core.go, connection.go, view.go) under the    *)
(* retry policy (resilience.go), observed by hooks (hooks.go).             *)
(*                                                                         *)
(* A call is one use of the library by one goroutine:                      *)
(*   DBOps    DB.Execute, Query, QueryRow, Scalar and their Context forms: *)
(*            retried, observed by the hooks;                              *)
(*   ConnOps  the same on a Conn or a Tx: one attempt, observed;           *)
(*   ViewOps  DBView.Execute, ViewQuery, ViewQueryRow, ViewScalar: retried *)
(*            on a conn that has neither a hook registry nor a logger.     *)
(* Contexts end, links break and metrics are switched on and off between   *)
(* any two steps.                                                          *)
EXTENDS Naturals

CONSTANTS DBOps, ConnOps, ViewOps,  \* sets of calls, by entry point
          Enabled, MaxCount,        \* RetryPolicy
          HookCount                 \* number of Options.QueryHooks

Ops == DBOps \cup ConnOps \cup ViewOps

ASSUME OpsAssumption ==
  DBOps \cap ConnOps = {} /\ DBOps \cap ViewOps = {} /\ ConnOps \cap ViewOps = {}

ASSUME OptionsAssumption ==
  Enabled \in BOOLEAN /\ MaxCount \in Nat /\ HookCount \in Nat

Hooks == 1 .. HookCount + 1         \* the last one is the MetricsCollector

VARIABLES
  pc,       \* where each call is
  ctx,      \* the context it runs under: "live" or "done"
  attempt,  \* the local variable attempt of RetryPolicy.do
  err,      \* what the last attempt answered
  ret,      \* what the call answered
  started,  \* attempts begun
  late,     \* attempts begun after the context ended
  applied,  \* times the statement took effect on the server
  pending,  \* attempts the client lost and the server has not settled
  retries,  \* increments of hellnet.db.retries
  pre,      \* BeforeHook calls, by hook
  post,     \* AfterHook calls, by hook
  metrics   \* the collector is in the shared hookRegistry

policy == <<attempt, ret, retries>>
seen == <<started, late, pre, post>>
server == <<applied, pending>>
vars == <<pc, ctx, err, metrics, server, policy, seen>>

Errors == {"nil", "permanent", "server", "transport", "scan", "deadline", "canceled"}
PCs == {"before", "run", "track", "after", "decide", "sleep", "returned", "panicked"}

TypeOK ==
  /\ pc \in [Ops -> PCs]
  /\ ctx \in [Ops -> {"live", "done"}]
  /\ attempt \in [Ops -> 0 .. MaxCount]
  /\ err \in [Ops -> Errors]
  /\ ret \in [Ops -> {"none", "nil", "error", "aborted", "invalid"}]
  /\ started \in [Ops -> Nat] /\ late \in [Ops -> Nat]
  /\ applied \in [Ops -> Nat] /\ pending \in [Ops -> Nat]
  /\ retries \in [Ops -> Nat]
  /\ pre \in [Ops -> [Hooks -> Nat]] /\ post \in [Ops -> [Hooks -> Nat]]
  /\ metrics \in BOOLEAN

Init ==
  /\ pc = [q \in Ops |-> "before"]
  /\ ctx = [q \in Ops |-> "live"]
  /\ attempt = [q \in Ops |-> 0]
  /\ err = [q \in Ops |-> "nil"]
  /\ ret = [q \in Ops |-> "none"]
  /\ started = [q \in Ops |-> 0] /\ late = [q \in Ops |-> 0]
  /\ applied = [q \in Ops |-> 0] /\ pending = [q \in Ops |-> 0]
  /\ retries = [q \in Ops |-> 0]
  /\ pre = [q \in Ops |-> [h \in Hooks |-> 0]]
  /\ post = [q \in Ops |-> [h \in Hooks |-> 0]]
  /\ metrics \in BOOLEAN

Goto(q, p) == pc' = [pc EXCEPT ![q] = p]
Answer(q, a) == ret' = [ret EXCEPT ![q] = a]

-----------------------------------------------------------------------------
(* Hooks.  Each phase of an attempt iterates over its own snapshot.        *)

(* How many hooks the snapshot holds: hooks keep the order of their        *)
(* registration, and a view has no registry.                               *)
Snapshot(q) == IF q \in ViewOps THEN 0
               ELSE IF metrics THEN HookCount + 1 ELSE HookCount

\* Mutant of EachHook: one recover around the loop.
EachHookOneRecover(n, bad) == {h \in 1 .. n : \A b \in bad : h <= b}

(* The hooks called when those in bad panic: recover is individual.        *)
EachHook(n, bad) == 1 .. n

Called(count, q, hs) ==
  [count EXCEPT ![q] = [h \in Hooks |-> @[h] + IF h \in hs THEN 1 ELSE 0]]

FireBefore(q) ==
  /\ pc[q] = "before"
  /\ \E bad \in SUBSET Hooks : pre' = Called(pre, q, EachHook(Snapshot(q), bad))
  /\ started' = [started EXCEPT ![q] = @ + 1]
  /\ late' = [late EXCEPT ![q] = IF ctx[q] = "done" THEN @ + 1 ELSE @]
  /\ Goto(q, "run")
  /\ UNCHANGED <<ctx, err, server, metrics, policy, post>>

FireAfter(q) ==
  /\ pc[q] = "after"
  /\ \E bad \in SUBSET Hooks : post' = Called(post, q, EachHook(Snapshot(q), bad))
  /\ Goto(q, "decide")
  /\ UNCHANGED <<ctx, err, server, metrics, policy, started, late, pre>>

(* DB.EnableMetrics and MetricsHandle.Close, as the registry sees them.    *)
SwitchMetrics ==
  /\ metrics' = ~metrics
  /\ UNCHANGED <<pc, ctx, err, server, policy, seen>>

-----------------------------------------------------------------------------
(* One attempt: the runner, row mapping and track.                         *)

(* What an attempt may answer, and the number of effects it leaves certain *)
(* and open: nothing reaches the server under a context that ended before; *)
(* a link or a context that ends in between leaves it open whether and     *)
(* when the statement takes effect; a row that cannot be mapped, or that   *)
(* Scalar misses, is an error of a statement that took effect.             *)
Outcomes(q) ==
  IF late[q] > 0 THEN {<<"canceled", 0, 0>>}
  ELSE {<<"nil", 1, 0>>, <<"permanent", 0, 0>>, <<"server", 0, 0>>,
        <<"scan", 1, 0>>, <<"transport", 0, 1>>, <<"deadline", 0, 1>>}
       \cup (IF ctx[q] = "done" THEN {<<"canceled", 0, 1>>} ELSE {})

Run(q) ==
  /\ pc[q] = "run"
  /\ \E o \in Outcomes(q) :
       /\ err' = [err EXCEPT ![q] = o[1]]
       /\ applied' = [applied EXCEPT ![q] = @ + o[2]]
       /\ pending' = [pending EXCEPT ![q] = @ + o[3]]
  /\ Goto(q, "track")
  /\ UNCHANGED <<ctx, metrics, policy, seen>>

(* The server takes up, or drops, a statement whose client gave up, at any *)
(* time: during a later attempt, or after the call was answered.           *)
ServerSettles(q) ==
  /\ pending[q] > 0
  /\ pending' = [pending EXCEPT ![q] = @ - 1]
  /\ \E n \in {0, 1} : applied' = [applied EXCEPT ![q] = @ + n]
  /\ UNCHANGED <<pc, ctx, err, metrics, policy, seen>>

(* A slow statement is logged; the logger of a view is nil.                *)
Track(q) ==
  /\ pc[q] = "track"
  /\ \E slow \in BOOLEAN :
       Goto(q, IF slow /\ q \in ViewOps THEN "panicked" ELSE "after")
  /\ UNCHANGED <<ctx, err, server, metrics, policy, seen>>

-----------------------------------------------------------------------------
(* RetryPolicy.do.                                                         *)

Retried(q) == q \notin ConnOps /\ Enabled

\* Mutant of IsTransient: the context errors are not told apart.
IsTransientContext(e) == e \notin {"nil", "permanent"}

IsTransient(e) == e \notin {"nil", "canceled", "deadline", "permanent"}

\* Mutant of ShouldRetry: one attempt too many.
ShouldRetryOneMore(q) == Retried(q) /\ attempt[q] <= MaxCount /\ IsTransient(err[q])

\* Mutant of ShouldRetry: a call on a Conn or a Tx is retried as well.
ShouldRetryEverywhere(q) == Enabled /\ attempt[q] < MaxCount /\ IsTransient(err[q])

ShouldRetry(q) == Retried(q) /\ attempt[q] < MaxCount /\ IsTransient(err[q])

Decide(q) ==
  /\ pc[q] = "decide"
  /\ IF ShouldRetry(q)
     THEN /\ retries' = [retries EXCEPT ![q] = @ + 1]
          /\ Goto(q, "sleep")
          /\ UNCHANGED ret
     ELSE /\ Answer(q, IF err[q] = "nil" THEN "nil" ELSE "error")
          /\ Goto(q, "returned")
          /\ UNCHANGED retries
  /\ UNCHANGED <<ctx, attempt, err, server, metrics, seen>>

\* Mutant of SleepElapsed: the timer is stopped before the select.
SleepStoppedTimer(q) == FALSE /\ UNCHANGED vars

(* sleep: select takes either case when the context ended and the timer    *)
(* fired.                                                                  *)
SleepElapsed(q) ==
  /\ pc[q] = "sleep"
  /\ attempt' = [attempt EXCEPT ![q] = @ + 1]
  /\ Goto(q, "before")
  /\ UNCHANGED <<ctx, err, ret, server, retries, metrics, seen>>

\* Mutant of SleepAborted: the interrupted wait answers nil.
SleepAbortedNil(q) ==
  /\ pc[q] = "sleep" /\ ctx[q] = "done"
  /\ Answer(q, "nil") /\ Goto(q, "returned")
  /\ UNCHANGED <<ctx, attempt, err, server, retries, metrics, seen>>

SleepAborted(q) ==
  /\ pc[q] = "sleep" /\ ctx[q] = "done"
  /\ Answer(q, "aborted") /\ Goto(q, "returned")
  /\ UNCHANGED <<ctx, attempt, err, server, retries, metrics, seen>>

(* DBView.conn of a nil or zero view.                                      *)
InvalidView(q) ==
  /\ q \in ViewOps /\ pc[q] = "before" /\ started[q] = 0
  /\ Answer(q, "invalid") /\ Goto(q, "returned")
  /\ UNCHANGED <<ctx, attempt, err, server, retries, metrics, seen>>

CancelCtx(q) ==
  /\ ctx[q] = "live" /\ pc[q] \notin {"returned", "panicked"}
  /\ ctx' = [ctx EXCEPT ![q] = "done"]
  /\ UNCHANGED <<pc, err, server, metrics, policy, seen>>

-----------------------------------------------------------------------------
Step(q) == FireBefore(q) \/ Run(q) \/ Track(q) \/ FireAfter(q) \/ Decide(q)
             \/ SleepElapsed(q) \/ SleepAborted(q)

Next ==
  \/ \E q \in Ops : Step(q) \/ InvalidView(q) \/ CancelCtx(q) \/ ServerSettles(q)
  \/ SwitchMetrics

(* CommandTimeout bounds the runner, hooks return, and timers fire.        *)
Fairness == \A q \in Ops : WF_vars(Step(q))

Spec == Init /\ [][Next]_vars /\ Fairness

-----------------------------------------------------------------------------
(* Properties.                                                             *)

Budget == [q \in Ops |-> IF Retried(q) THEN MaxCount + 1 ELSE 1]

(* A call is tried at most 1 + RetryMaxCount times, once on a Conn or Tx   *)
(* and when retry is disabled, and hellnet.db.retries counts the attempts  *)
(* after the first, plus the one an ended context kept from happening.     *)
RetryAccounting ==
  \A q \in Ops :
    /\ started[q] <= Budget[q]
    /\ pc[q] \in {"returned", "panicked"} =>
         retries[q] = CASE started[q] = 0 -> 0
                        [] ret[q] = "aborted" -> started[q]
                        [] OTHER -> started[q] - 1

(* The end of the context races the backoff timer, and yet at most one     *)
(* attempt begins after it, whatever attempts were still allowed.          *)
OneLateAttempt == \A q \in Ops : late[q] <= 1

(* Hooks given in Options see every attempt of a DB, Conn or Tx call: one  *)
(* After for each Before, on every error path and whichever hooks panic.   *)
HookPairs ==
  \A q \in DBOps \cup ConnOps : \A h \in 1 .. HookCount :
    /\ pre[q][h] = started[q]
    /\ pc[q] \notin {"run", "track", "after"} => post[q][h] = started[q]

(* What the answer tells the caller: a call is refused when it sent no     *)
(* statement, or when the server itself rejected the only one it sent.     *)
Refused(q) ==
  \/ ret[q] = "invalid"
  \/ ret[q] = "error" /\ started[q] = 1 /\ err[q] \in {"permanent", "server"}

Answers == [q \in Ops |->
              IF Refused(q) THEN "refused"
              ELSE IF ret[q] = "aborted" \/ pc[q] = "panicked" THEN "error"
              ELSE ret[q]]

Contract == INSTANCE AtLeastOnce WITH effects <- applied, answer <- Answers

(* Attempts, lost answers, late effects, cancellations and backoff         *)
(* implement a statement that took effect before it is answered nil, takes *)
(* effect at most Budget times however late the server settles the lost    *)
(* attempts, and never once the caller was told that it was refused.       *)
RefinesAtLeastOnce == Contract!Spec

(* Every call returns: attempts are bounded and no sleep outlives its      *)
(* timer.                                                                  *)
EveryCallReturns == \A q \in Ops : <>(pc[q] \in {"returned", "panicked"})

(* "statements slower than Options.SlowQuery are logged at WARN level":    *)
(* the diagnostic never takes the call down.                               *)
SlowQueryOnlyLogs == \A q \in Ops : pc[q] # "panicked"
=============================================================================
