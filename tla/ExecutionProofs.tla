-------------------------- MODULE ExecutionProofs --------------------------
(* Proofs about Execution for any sets of calls, any retry policy and any  *)
(* number of hooks.                                                        *)
EXTENDS Execution, TLAPS

(* An attempt has begun and its AfterHook phase has not run.               *)
InFlight == {"run", "track", "after"}

(* How attempts, retries and answers agree, by where the call is.          *)
AttemptsOf(q) ==
  /\ pc[q] = "before" => started[q] = attempt[q] /\ retries[q] = attempt[q]
  /\ pc[q] \in InFlight \cup {"decide", "panicked"} =>
       started[q] = attempt[q] + 1 /\ retries[q] = attempt[q]
  /\ pc[q] = "sleep" =>
       /\ started[q] = attempt[q] + 1 /\ retries[q] = attempt[q] + 1
       /\ attempt[q] < MaxCount /\ Retried(q)
  /\ pc[q] = "returned" =>
       CASE ret[q] = "invalid" -> started[q] = 0 /\ retries[q] = 0
         [] ret[q] = "aborted" -> started[q] = attempt[q] + 1 /\ retries[q] = started[q]
         [] OTHER -> started[q] = attempt[q] + 1 /\ retries[q] = attempt[q]
  /\ attempt[q] > 0 => Retried(q)

(* What the server has done or may still do: no more than the attempts     *)
(* sent, and nothing when it rejected the only one.  The conjunct about    *)
(* "run" is what lets an attempt add its own effect.                       *)
EffectsOf(q) ==
  /\ ret[q] = "none" <=> pc[q] # "returned"
  /\ applied[q] + pending[q] <= started[q]
  /\ pc[q] = "run" => applied[q] + pending[q] <= attempt[q]
  /\ pc[q] \in {"track", "after", "decide"} /\ err[q] = "nil" => applied[q] > 0
  /\ started[q] = 1 /\ err[q] \in {"permanent", "server"} => applied[q] + pending[q] = 0

(* A call whose attempt began after its context ended is about to return.  *)
LateOf(q) ==
  /\ late[q] <= 1
  /\ pc[q] \in {"before", "sleep"} => late[q] = 0
  /\ late[q] > 0 /\ pc[q] \in {"track", "after", "decide"} => err[q] = "canceled"

HooksOf(q) ==
  q \notin ViewOps => \A h \in 1 .. HookCount :
    /\ pre[q][h] = started[q]
    /\ post[q][h] = IF pc[q] \in InFlight THEN attempt[q] ELSE started[q]

Attempts == \A q \in Ops : AttemptsOf(q)
Effected == \A q \in Ops : EffectsOf(q)
Late == \A q \in Ops : LateOf(q)
Hooked == \A q \in Ops : HooksOf(q)

IndInv == TypeOK /\ Attempts /\ Effected /\ Late /\ Hooked

USE OptionsAssumption

LEMMA InitInd == Init => IndInv
<1> SUFFICES ASSUME Init PROVE IndInv
  OBVIOUS
<1> USE DEF Init
<1>1. TypeOK BY DEF TypeOK, PCs, Errors
<1>2. Attempts BY DEF Attempts, AttemptsOf, InFlight
<1>3. Effected BY DEF Effected, EffectsOf
<1>4. Late BY DEF Late, LateOf
<1>5. Hooked BY DEF Hooked, HooksOf, InFlight, Hooks
<1> QED BY <1>1, <1>2, <1>3, <1>4, <1>5 DEF IndInv

(* Both phases call every hook of Options on a DB, Conn or Tx.             *)
LEMMA CalledAll ==
  ASSUME NEW f \in [Ops -> [Hooks -> Nat]], NEW q \in Ops, NEW bad \in SUBSET Hooks,
         NEW g, g = Called(f, q, EachHook(Snapshot(q), bad))
  PROVE  /\ g \in [Ops -> [Hooks -> Nat]]
         /\ \A p \in Ops : p # q => g[p] = f[p]
         /\ q \notin ViewOps => \A h \in 1 .. HookCount : g[q][h] = f[q][h] + 1
<1> DEFINE S == EachHook(Snapshot(q), bad)
<1>1. g = [f EXCEPT ![q] = [h \in Hooks |-> f[q][h] + IF h \in S THEN 1 ELSE 0]]
  BY DEF Called
<1>2. \A h \in 1 .. HookCount : h \in Hooks /\ (q \notin ViewOps => h \in S)
  BY DEF Hooks, EachHook, Snapshot
<1>3. f[q] \in [Hooks -> Nat]
  OBVIOUS
<1> HIDE DEF S
<1>4. g \in [Ops -> [Hooks -> Nat]]
  BY <1>1, <1>3
<1>5. \A p \in Ops : p # q => g[p] = f[p]
  BY <1>1
<1>6. q \notin ViewOps => \A h \in 1 .. HookCount : g[q][h] = f[q][h] + 1
  BY <1>1, <1>2, <1>3
<1> QED BY <1>4, <1>5, <1>6

LEMMA FireBeforeInd == ASSUME IndInv, NEW q \in Ops, FireBefore(q) PROVE IndInv'
<1> USE DEF IndInv, server, FireBefore, Goto, policy
<1>0. PICK bad \in SUBSET Hooks : pre' = Called(pre, q, EachHook(Snapshot(q), bad))
  OBVIOUS
<1>a. /\ pre' \in [Ops -> [Hooks -> Nat]]
      /\ \A p \in Ops : p # q => pre'[p] = pre[p]
      /\ q \notin ViewOps => \A h \in 1 .. HookCount : pre'[q][h] = pre[q][h] + 1
  <2>1. pre \in [Ops -> [Hooks -> Nat]] BY DEF TypeOK
  <2> QED BY ONLY <1>0, <2>1, CalledAll, q \in Ops
<1>1. TypeOK'
  <2>1. /\ pc' \in [Ops -> PCs] /\ started' \in [Ops -> Nat]
        /\ late' \in [Ops -> Nat]
    BY DEF TypeOK, PCs
  <2> QED BY <1>a, <2>1 DEF TypeOK
<1>2. Attempts' BY DEF Attempts, AttemptsOf, InFlight, TypeOK, Retried
<1>3. Effected'
  <2> SUFFICES ASSUME NEW p \in Ops PROVE EffectsOf(p)'
    BY DEF Effected
  <2>0. EffectsOf(p) /\ EffectsOf(q) /\ AttemptsOf(q) BY DEF Effected, Attempts
  <2>1. CASE p # q BY <2>0, <2>1 DEF EffectsOf, TypeOK
  <2>2. CASE p = q
    <3>1. /\ applied[q] \in Nat /\ pending[q] \in Nat /\ started[q] \in Nat
          /\ started'[q] = started[q] + 1 /\ pc'[q] = "run"
          /\ UNCHANGED <<applied, pending, attempt, ret, err>>
      BY DEF TypeOK
    <3> QED BY <2>0, <2>2, <3>1 DEF EffectsOf, AttemptsOf
  <2> QED BY <2>1, <2>2
<1>4. Late' BY DEF Late, LateOf, TypeOK
<1>5. Hooked'
  <2> SUFFICES ASSUME NEW p \in Ops, p \notin ViewOps, NEW h \in 1 .. HookCount
               PROVE  (/\ pre[p][h] = started[p]
                       /\ post[p][h] = IF pc[p] \in InFlight THEN attempt[p] ELSE started[p])'
    BY DEF Hooked, HooksOf
  <2>1. /\ pre[p][h] = started[p]
        /\ post[p][h] = IF pc[p] \in InFlight THEN attempt[p] ELSE started[p]
    BY DEF Hooked, HooksOf
  <2>2. CASE p = q BY <1>a, <2>1, <2>2 DEF InFlight, TypeOK, Attempts, AttemptsOf
  <2>3. CASE p # q BY <1>a, <2>1, <2>3 DEF TypeOK
  <2> QED BY <2>2, <2>3
<1> QED BY <1>1, <1>2, <1>3, <1>4, <1>5

LEMMA FireAfterInd == ASSUME IndInv, NEW q \in Ops, FireAfter(q) PROVE IndInv'
<1> USE DEF IndInv, server, FireAfter, Goto, policy
<1>0. PICK bad \in SUBSET Hooks : post' = Called(post, q, EachHook(Snapshot(q), bad))
  OBVIOUS
<1>a. /\ post' \in [Ops -> [Hooks -> Nat]]
      /\ \A p \in Ops : p # q => post'[p] = post[p]
      /\ q \notin ViewOps => \A h \in 1 .. HookCount : post'[q][h] = post[q][h] + 1
  <2>1. post \in [Ops -> [Hooks -> Nat]] BY DEF TypeOK
  <2> QED BY ONLY <1>0, <2>1, CalledAll, q \in Ops
<1>1. TypeOK' BY <1>a DEF TypeOK, PCs
<1>2. Attempts' BY DEF Attempts, AttemptsOf, InFlight, TypeOK, Retried
<1>3. Effected' BY DEF Effected, EffectsOf, TypeOK
<1>4. Late' BY DEF Late, LateOf, TypeOK
<1>5. Hooked'
  <2> SUFFICES ASSUME NEW p \in Ops, p \notin ViewOps, NEW h \in 1 .. HookCount
               PROVE  (/\ pre[p][h] = started[p]
                       /\ post[p][h] = IF pc[p] \in InFlight THEN attempt[p] ELSE started[p])'
    BY DEF Hooked, HooksOf
  <2>1. /\ pre[p][h] = started[p]
        /\ post[p][h] = IF pc[p] \in InFlight THEN attempt[p] ELSE started[p]
    BY DEF Hooked, HooksOf
  <2>2. CASE p = q BY <1>a, <2>1, <2>2 DEF InFlight, TypeOK, Attempts, AttemptsOf
  <2>3. CASE p # q BY <1>a, <2>1, <2>3 DEF TypeOK
  <2> QED BY <2>2, <2>3
<1> QED BY <1>1, <1>2, <1>3, <1>4, <1>5

LEMMA OutcomeFacts ==
  ASSUME NEW q \in Ops, NEW o \in Outcomes(q)
  PROVE  /\ o[1] \in Errors /\ o[2] \in {0, 1} /\ o[3] \in {0, 1} /\ o[2] + o[3] <= 1
         /\ late[q] > 0 => o[1] = "canceled"
         /\ o[1] = "nil" => o[2] = 1
         /\ o[1] \in {"permanent", "server"} => o[2] = 0 /\ o[3] = 0
<1>1. CASE late[q] > 0 BY <1>1 DEF Outcomes, Errors
<1>2. CASE ~(late[q] > 0) BY <1>2 DEF Outcomes, Errors
<1> QED BY <1>1, <1>2

LEMMA RunInd == ASSUME IndInv, NEW q \in Ops, Run(q) PROVE IndInv'
<1> USE DEF IndInv, server, Run, Goto, policy, seen
<1>0. PICK o \in Outcomes(q) :
        /\ err' = [err EXCEPT ![q] = o[1]]
        /\ applied' = [applied EXCEPT ![q] = @ + o[2]]
        /\ pending' = [pending EXCEPT ![q] = @ + o[3]]
  OBVIOUS
<1>a. /\ o[1] \in Errors /\ o[2] \in {0, 1} /\ o[3] \in {0, 1} /\ o[2] + o[3] <= 1
      /\ late[q] > 0 => o[1] = "canceled"
      /\ o[1] = "nil" => o[2] = 1
      /\ o[1] \in {"permanent", "server"} => o[2] = 0 /\ o[3] = 0
  BY OutcomeFacts
<1>1. TypeOK' BY <1>0, <1>a DEF TypeOK, PCs
<1>2. Attempts' BY DEF Attempts, AttemptsOf, InFlight, TypeOK, Retried
<1>3. Effected'
  <2> SUFFICES ASSUME NEW p \in Ops PROVE EffectsOf(p)'
    BY DEF Effected
  <2>0. EffectsOf(p) /\ EffectsOf(q) /\ AttemptsOf(q) BY DEF Effected, Attempts
  <2>1. CASE p # q BY <1>0, <2>0, <2>1 DEF EffectsOf, TypeOK
  <2>2. CASE p = q
    <3>1. /\ applied[q] \in Nat /\ pending[q] \in Nat /\ attempt[q] \in Nat
          /\ applied[q] + pending[q] <= attempt[q] /\ started[q] = attempt[q] + 1
      BY <2>0 DEF EffectsOf, AttemptsOf, InFlight, TypeOK
    <3>2. /\ applied'[q] = applied[q] + o[2] /\ pending'[q] = pending[q] + o[3]
          /\ err'[q] = o[1] /\ pc'[q] = "track" /\ ret' = ret /\ started' = started
      BY <1>0 DEF TypeOK
    <3> QED BY <1>a, <2>0, <2>2, <3>1, <3>2 DEF EffectsOf
  <2> QED BY <2>1, <2>2
<1>4. Late' BY <1>0, <1>a DEF Late, LateOf, TypeOK
<1>5. Hooked' BY DEF Hooked, HooksOf, InFlight, TypeOK
<1> QED BY <1>1, <1>2, <1>3, <1>4, <1>5

(* The server settles a lost attempt: the sum of effects done and open     *)
(* does not grow.                                                          *)
LEMMA ServerSettlesInd == ASSUME IndInv, NEW q \in Ops, ServerSettles(q) PROVE IndInv'
<1> USE DEF IndInv, server, ServerSettles, policy, seen
<1>0. PICK n \in {0, 1} : applied' = [applied EXCEPT ![q] = @ + n]
  OBVIOUS
<1>1. TypeOK' BY <1>0 DEF TypeOK
<1>2. Attempts' BY DEF Attempts, AttemptsOf, InFlight, Retried
<1>3. Effected'
  <2> SUFFICES ASSUME NEW p \in Ops PROVE EffectsOf(p)'
    BY DEF Effected
  <2>0. EffectsOf(p) BY DEF Effected
  <2>1. CASE p # q BY <1>0, <2>0, <2>1 DEF EffectsOf, TypeOK
  <2>2. CASE p = q BY <1>0, <2>0, <2>2 DEF EffectsOf, TypeOK
  <2> QED BY <2>1, <2>2
<1>4. Late' BY DEF Late, LateOf
<1>5. Hooked' BY DEF Hooked, HooksOf, InFlight
<1> QED BY <1>1, <1>2, <1>3, <1>4, <1>5

LEMMA TrackInd == ASSUME IndInv, NEW q \in Ops, Track(q) PROVE IndInv'
<1> USE DEF IndInv, server, Track, Goto, policy, seen
<1>0. PICK p \in {"panicked", "after"} :
        pc' = [pc EXCEPT ![q] = p] /\ (p = "panicked" => q \in ViewOps)
  OBVIOUS
<1>1. TypeOK' BY <1>0 DEF TypeOK, PCs
<1>2. Attempts' BY <1>0 DEF Attempts, AttemptsOf, InFlight, TypeOK, Retried
<1>3. Effected' BY <1>0 DEF Effected, EffectsOf, TypeOK
<1>4. Late' BY <1>0 DEF Late, LateOf, TypeOK
<1>5. Hooked' BY <1>0 DEF Hooked, HooksOf, InFlight, TypeOK
<1> QED BY <1>1, <1>2, <1>3, <1>4, <1>5

LEMMA DecideInd == ASSUME IndInv, NEW q \in Ops, Decide(q) PROVE IndInv'
<1> USE DEF IndInv, server, Decide, Goto, Answer, seen
<1>1. TypeOK'
  <2>1. pc' \in [Ops -> PCs]
    <3>1. CASE ShouldRetry(q)
      <4>1. pc' = [pc EXCEPT ![q] = "sleep"] BY <3>1
      <4> QED BY ONLY <4>1, TypeOK DEF TypeOK, PCs
    <3>2. CASE ~ShouldRetry(q)
      <4>1. pc' = [pc EXCEPT ![q] = "returned"] BY <3>2
      <4> QED BY ONLY <4>1, TypeOK DEF TypeOK, PCs
    <3> QED BY <3>1, <3>2
  <2>2. retries' \in [Ops -> Nat]
    <3>1. CASE ShouldRetry(q)
      <4>1. retries' = [retries EXCEPT ![q] = @ + 1] BY <3>1
      <4>2. retries \in [Ops -> Nat] BY DEF TypeOK
      <4> QED BY ONLY <4>1, <4>2
    <3>2. CASE ~ShouldRetry(q)
      <4>1. retries' = retries BY <3>2
      <4> QED BY ONLY <4>1, TypeOK DEF TypeOK
    <3> QED BY <3>1, <3>2
  <2>3. ret' \in [Ops -> {"none", "nil", "error", "aborted", "invalid"}] BY DEF TypeOK
  <2> QED BY <2>1, <2>2, <2>3 DEF TypeOK
<1>2. Attempts'
  <2> SUFFICES ASSUME NEW p \in Ops PROVE AttemptsOf(p)'
    BY DEF Attempts
  <2>0. AttemptsOf(p) BY DEF Attempts
  <2>1. CASE p # q BY <2>0, <2>1 DEF AttemptsOf, InFlight, TypeOK, Retried
  <2>2. CASE p = q /\ ShouldRetry(q)
    BY <2>0, <2>2 DEF AttemptsOf, InFlight, TypeOK, Retried, ShouldRetry
  <2>3. CASE p = q /\ ~ShouldRetry(q)
    BY <2>0, <2>3 DEF AttemptsOf, InFlight, TypeOK, Retried
  <2> QED BY <2>1, <2>2, <2>3
<1>3. Effected'
  <2> SUFFICES ASSUME NEW p \in Ops PROVE EffectsOf(p)'
    BY DEF Effected
  <2>0. EffectsOf(p) BY DEF Effected
  <2>1. CASE p # q BY <2>0, <2>1 DEF EffectsOf, TypeOK
  <2>2. CASE p = q BY <2>0, <2>2 DEF EffectsOf, TypeOK
  <2> QED BY <2>1, <2>2
<1>4. Late' BY DEF Late, LateOf, TypeOK, ShouldRetry, IsTransient
<1>5. Hooked' BY DEF Hooked, HooksOf, InFlight, TypeOK
<1> QED BY <1>1, <1>2, <1>3, <1>4, <1>5

LEMMA SleepElapsedInd == ASSUME IndInv, NEW q \in Ops, SleepElapsed(q) PROVE IndInv'
<1> USE DEF IndInv, server, SleepElapsed, Goto, seen
<1>0. attempt[q] < MaxCount /\ attempt[q] \in Nat
  BY DEF Attempts, AttemptsOf, TypeOK
<1>1. TypeOK' BY <1>0 DEF TypeOK, PCs
<1>2. Attempts' BY <1>0 DEF Attempts, AttemptsOf, InFlight, TypeOK, Retried
<1>3. Effected' BY DEF Effected, EffectsOf, TypeOK
<1>4. Late' BY DEF Late, LateOf, TypeOK
<1>5. Hooked' BY DEF Hooked, HooksOf, InFlight, TypeOK
<1> QED BY <1>1, <1>2, <1>3, <1>4, <1>5

LEMMA SleepAbortedInd == ASSUME IndInv, NEW q \in Ops, SleepAborted(q) PROVE IndInv'
<1> USE DEF IndInv, server, SleepAborted, Goto, Answer, seen
<1>1. TypeOK' BY DEF TypeOK, PCs
<1>2. Attempts' BY DEF Attempts, AttemptsOf, InFlight, TypeOK, Retried
<1>3. Effected' BY DEF Effected, EffectsOf, TypeOK
<1>4. Late' BY DEF Late, LateOf, TypeOK
<1>5. Hooked' BY DEF Hooked, HooksOf, InFlight, TypeOK
<1> QED BY <1>1, <1>2, <1>3, <1>4, <1>5

LEMMA InvalidViewInd == ASSUME IndInv, NEW q \in Ops, InvalidView(q) PROVE IndInv'
<1> USE DEF IndInv, server, InvalidView, Goto, Answer, seen
<1>1. TypeOK' BY DEF TypeOK, PCs
<1>2. Attempts' BY DEF Attempts, AttemptsOf, InFlight, TypeOK, Retried
<1>3. Effected' BY DEF Effected, EffectsOf, TypeOK
<1>4. Late' BY DEF Late, LateOf, TypeOK
<1>5. Hooked' BY DEF Hooked, HooksOf, InFlight, TypeOK
<1> QED BY <1>1, <1>2, <1>3, <1>4, <1>5

(* Steps outside the call: its context ends, metrics are switched.         *)
LEMMA OutsideInd ==
  ASSUME IndInv, (\E q \in Ops : CancelCtx(q)) \/ SwitchMetrics \/ UNCHANGED vars
  PROVE  IndInv'
<1> USE DEF IndInv, server, CancelCtx, SwitchMetrics, vars, policy, seen
<1>1. TypeOK' BY DEF TypeOK
<1>2. Attempts' BY DEF Attempts, AttemptsOf, InFlight, Retried
<1>3. Effected' BY DEF Effected, EffectsOf
<1>4. Late' BY DEF Late, LateOf
<1>5. Hooked' BY DEF Hooked, HooksOf, InFlight
<1> QED BY <1>1, <1>2, <1>3, <1>4, <1>5

LEMMA NextInd == IndInv /\ [Next]_vars => IndInv'
<1> SUFFICES ASSUME IndInv, [Next]_vars PROVE IndInv'
  OBVIOUS
<1>1. ASSUME NEW q \in Ops, Step(q) PROVE IndInv'
  BY <1>1, FireBeforeInd, RunInd, TrackInd, FireAfterInd, DecideInd,
     SleepElapsedInd, SleepAbortedInd DEF Step
<1>2. ASSUME NEW q \in Ops, InvalidView(q) \/ ServerSettles(q) PROVE IndInv'
  BY <1>2, InvalidViewInd, ServerSettlesInd
<1>3. CASE (\E q \in Ops : CancelCtx(q)) \/ SwitchMetrics \/ UNCHANGED vars
  BY <1>3, OutsideInd
<1> QED BY <1>1, <1>2, <1>3 DEF Next

LEMMA Inductive == Spec => []IndInv
<1>1. Init => IndInv BY InitInd
<1>2. IndInv /\ [Next]_vars => IndInv' BY NextInd
<1> QED BY <1>1, <1>2, PTL DEF Spec

(* The variables of a call keep their types; attempt of RetryPolicy.do     *)
(* never exceeds maxCount.                                                 *)
THEOREM TypeCorrect == Spec => []TypeOK
<1>1. IndInv => TypeOK BY DEF IndInv
<1> QED BY <1>1, Inductive, PTL

(* RetryPolicy.do tries a statement at most 1 + maxCount times, a Conn or  *)
(* Tx once, and the retries counter tells how often.                       *)
THEOREM AlwaysAccounted == Spec => []RetryAccounting
<1>1. IndInv => RetryAccounting
  <2> SUFFICES ASSUME IndInv, NEW q \in Ops
               PROVE  /\ started[q] <= Budget[q]
                      /\ pc[q] \in {"returned", "panicked"} =>
                           retries[q] = CASE started[q] = 0 -> 0
                                          [] ret[q] = "aborted" -> started[q]
                                          [] OTHER -> started[q] - 1
    BY DEF RetryAccounting
  <2>1. AttemptsOf(q) /\ EffectsOf(q) BY DEF IndInv, Attempts, Effected
  <2>2. /\ attempt[q] \in 0 .. MaxCount /\ pc[q] \in PCs
        /\ started[q] \in Nat /\ retries[q] \in Nat
    BY DEF IndInv, TypeOK
  <2>3. started[q] <= attempt[q] + 1
    BY <2>1, <2>2 DEF AttemptsOf, InFlight, PCs
  <2>4. started[q] <= Budget[q]
    BY <2>1, <2>2, <2>3 DEF AttemptsOf, Budget
  <2>5. ASSUME pc[q] \in {"returned", "panicked"}
        PROVE  retries[q] = CASE started[q] = 0 -> 0
                              [] ret[q] = "aborted" -> started[q]
                              [] OTHER -> started[q] - 1
    <3>1. CASE pc[q] = "panicked"
      BY <2>1, <2>2, <3>1 DEF AttemptsOf, EffectsOf
    <3>2. CASE pc[q] = "returned"
      BY <2>1, <2>2, <3>2 DEF AttemptsOf
    <3> QED BY <2>5, <3>1, <3>2
  <2> QED BY <2>4, <2>5
<1> QED BY <1>1, Inductive, PTL

(* The select of RetryPolicy.sleep lets at most one attempt begin after    *)
(* the context ended.                                                      *)
THEOREM AtMostOneLate == Spec => []OneLateAttempt
<1>1. IndInv => OneLateAttempt BY DEF IndInv, Late, LateOf, OneLateAttempt
<1> QED BY <1>1, Inductive, PTL

(* fireBefore and fireAfter of core.go reach each hook of Options once per *)
(* attempt.                                                                *)
THEOREM AlwaysPaired == Spec => []HookPairs
<1>1. IndInv => HookPairs
  <2> SUFFICES ASSUME IndInv, NEW q \in DBOps \cup ConnOps, NEW h \in 1 .. HookCount
               PROVE  /\ pre[q][h] = started[q]
                      /\ pc[q] \notin InFlight => post[q][h] = started[q]
    BY DEF HookPairs, InFlight
  <2>1. q \in Ops /\ q \notin ViewOps BY OpsAssumption DEF Ops
  <2> QED BY <2>1 DEF IndInv, Hooked, HooksOf
<1> QED BY <1>1, Inductive, PTL

-----------------------------------------------------------------------------
(* Refinement: Run and ServerSettles are an effect or a stutter, the steps *)
(* that answer are the reply, and everything else stutters.                *)

LEMMA InitSim == Init => Contract!Init
  BY DEF Init, Contract!Init, Answers, Refused

LEMMA QuietSim ==
  ASSUME applied' = applied, Answers' = Answers
  PROVE  UNCHANGED Contract!avars
  BY DEF Contract!avars

(* A step of a call that has not been answered, and that neither answers   *)
(* it nor makes it panic.                                                  *)
LEMMA SameAnswers ==
  ASSUME IndInv, NEW q \in Ops, NEW p \in PCs \ {"returned", "panicked"},
         pc[q] \notin {"returned", "panicked"}, pc' = [pc EXCEPT ![q] = p], ret' = ret,
         \A r \in Ops \ {q} : started'[r] = started[r] /\ err'[r] = err[r]
  PROVE  Answers' = Answers
<1>1. ret[q] = "none" BY DEF IndInv, Effected, EffectsOf
<1>2. pc \in [Ops -> PCs] BY DEF IndInv, TypeOK
<1>3. \A r \in Ops : Refused(r)' = Refused(r) BY <1>1 DEF Refused
<1> QED BY <1>1, <1>2, <1>3 DEF Answers

(* One more effect of a call that was not refused.                         *)
LEMMA EffectSim ==
  ASSUME NEW q \in Ops, applied' = [applied EXCEPT ![q] = @ + 1],
         applied[q] < Budget[q], Answers' = Answers, Answers[q] # "refused"
  PROVE  [Contract!Next]_Contract!avars
  BY DEF Contract!Next, Contract!Effect

LEMMA AddsAtMostOne ==
  ASSUME IndInv, NEW q \in Ops, NEW n \in {0, 1}, applied' = [applied EXCEPT ![q] = @ + n]
  PROVE  applied' = [applied EXCEPT ![q] = @ + 1] \/ applied' = applied
<1>1. applied \in [Ops -> Nat] BY DEF IndInv, TypeOK
<1>2. CASE n = 0 BY ONLY <1>1, <1>2, q \in Ops, applied' = [applied EXCEPT ![q] = @ + n]
<1>3. CASE n = 1 BY ONLY <1>3, applied' = [applied EXCEPT ![q] = @ + n]
<1> QED BY <1>2, <1>3

LEMMA StartedInBudget == ASSUME IndInv, NEW q \in Ops PROVE started[q] <= Budget[q]
<1>1. AttemptsOf(q) BY DEF IndInv, Attempts
<1>2. attempt[q] \in 0 .. MaxCount /\ pc[q] \in PCs /\ started[q] \in Nat
  BY DEF IndInv, TypeOK
<1>3. started[q] <= attempt[q] + 1 BY <1>1, <1>2 DEF AttemptsOf, InFlight, PCs
<1> QED BY <1>1, <1>2, <1>3 DEF AttemptsOf, Budget

LEMMA RunSim ==
  ASSUME IndInv, NEW q \in Ops, Run(q) PROVE [Contract!Next]_Contract!avars
<1> USE DEF Run, policy, seen, Goto
<1>1. Answers' = Answers
  <2>1. \A r \in Ops \ {q} : started'[r] = started[r] /\ err'[r] = err[r]
    BY DEF IndInv, TypeOK
  <2> QED BY <2>1, SameAnswers DEF PCs
<1>2. applied' = [applied EXCEPT ![q] = @ + 1] \/ applied' = applied
  <2>1. PICK o \in Outcomes(q) : applied' = [applied EXCEPT ![q] = @ + o[2]]
    OBVIOUS
  <2>2. o[2] \in {0, 1} BY OutcomeFacts
  <2> QED BY <2>1, <2>2, AddsAtMostOne
<1>3. CASE applied' = applied BY <1>1, <1>3, QuietSim
<1>4. CASE applied' = [applied EXCEPT ![q] = @ + 1]
  <2>1. /\ attempt[q] \in Nat /\ applied[q] \in Nat /\ pending[q] \in Nat
        /\ started[q] = attempt[q] + 1
        /\ applied[q] + pending[q] <= attempt[q] /\ ret[q] = "none"
    BY DEF IndInv, TypeOK, Effected, EffectsOf, Attempts, AttemptsOf, InFlight
  <2>2. Budget[q] \in Nat BY DEF Budget
  <2>3. applied[q] < Budget[q] BY <2>1, <2>2, StartedInBudget
  <2>4. Answers[q] # "refused" BY <2>1 DEF Answers, Refused
  <2> QED BY <1>1, <1>4, <2>3, <2>4, EffectSim
<1> QED BY <1>2, <1>3, <1>4

(* A late effect finds a call that was not refused and an attempt that had *)
(* none.                                                                   *)
LEMMA ServerSettlesSim ==
  ASSUME IndInv, NEW q \in Ops, ServerSettles(q) PROVE [Contract!Next]_Contract!avars
<1> USE DEF ServerSettles, policy, seen
<1>1. Answers' = Answers BY DEF Answers, Refused
<1>2. applied' = [applied EXCEPT ![q] = @ + 1] \/ applied' = applied
  BY AddsAtMostOne
<1>3. CASE applied' = applied BY <1>1, <1>3, QuietSim
<1>4. CASE applied' = [applied EXCEPT ![q] = @ + 1]
  <2>1. /\ applied[q] \in Nat /\ pending[q] \in Nat /\ started[q] \in Nat
        /\ pending[q] > 0 /\ applied[q] + pending[q] <= started[q]
    BY DEF IndInv, TypeOK, Effected, EffectsOf
  <2>2. Budget[q] \in Nat BY DEF Budget
  <2>3. applied[q] < Budget[q] BY <2>1, <2>2, StartedInBudget
  <2>4. EffectsOf(q) /\ AttemptsOf(q) BY DEF IndInv, Effected, Attempts
  <2>5. ~Refused(q) BY <2>1, <2>4 DEF EffectsOf, AttemptsOf, Refused
  <2>6. ret[q] # "refused" BY DEF IndInv, TypeOK
  <2>7. Answers[q] # "refused" BY <2>5, <2>6 DEF Answers
  <2> QED BY <1>1, <1>4, <2>3, <2>7, EffectSim
<1> QED BY <1>2, <1>3, <1>4

(* The steps that tell the caller something.                               *)
LEMMA ReplySim ==
  ASSUME NEW q \in Ops, applied' = applied, Answers[q] = "none",
         NEW a \in {"nil", "error", "refused"},
         Answers' = [Answers EXCEPT ![q] = a],
         a = "nil" => applied[q] > 0, a = "refused" => applied[q] = 0
  PROVE  [Contract!Next]_Contract!avars
  BY DEF Contract!Next, Contract!Reply

(* Only q is answered, and it had not been.                                *)
LEMMA OneAnswer ==
  ASSUME IndInv, NEW q \in Ops, ret[q] = "none", pc[q] # "panicked",
         \A r \in Ops \ {q} : ret'[r] = ret[r] /\ pc'[r] = pc[r],
         UNCHANGED <<started, err>>
  PROVE  Answers[q] = "none" /\ Answers' = [Answers EXCEPT ![q] = Answers'[q]]
<1>1. \A r \in Ops \ {q} : Answers'[r] = Answers[r] BY DEF Answers, Refused
<1>2. Answers[q] = "none" BY DEF Answers, Refused
<1> QED BY <1>1, <1>2 DEF Answers

LEMMA TrackSim ==
  ASSUME IndInv, NEW q \in Ops, Track(q) PROVE [Contract!Next]_Contract!avars
<1> USE DEF Track, policy, seen, server, Goto
<1>1. CASE pc' = [pc EXCEPT ![q] = "after"]
  BY <1>1, SameAnswers, QuietSim DEF PCs
<1>2. CASE pc' = [pc EXCEPT ![q] = "panicked"]
  <2>1. ret[q] = "none" /\ pc \in [Ops -> PCs]
    BY DEF IndInv, Effected, EffectsOf, TypeOK
  <2>2. Answers[q] = "none" /\ Answers' = [Answers EXCEPT ![q] = Answers'[q]]
    BY <1>2, <2>1, OneAnswer
  <2>3. Answers'[q] = "error" BY <1>2, <2>1 DEF Answers, Refused
  <2> QED BY <2>2, <2>3, ReplySim
<1> QED BY <1>1, <1>2

LEMMA DecideSim ==
  ASSUME IndInv, NEW q \in Ops, Decide(q) PROVE [Contract!Next]_Contract!avars
<1> USE DEF Decide, seen, server, Goto, Answer
<1>1. CASE ShouldRetry(q)
  BY <1>1, SameAnswers, QuietSim DEF PCs
<1>2. CASE ~ShouldRetry(q)
  <2>1. /\ ret[q] = "none" /\ (err[q] = "nil" => applied[q] > 0) /\ EffectsOf(q)
        /\ pc \in [Ops -> PCs] /\ applied[q] \in Nat /\ pending[q] \in Nat
        /\ ret \in [Ops -> {"none", "nil", "error", "aborted", "invalid"}]
    BY DEF IndInv, Effected, EffectsOf, TypeOK
  <2>2. Answers[q] = "none" /\ Answers' = [Answers EXCEPT ![q] = Answers'[q]]
    BY <1>2, <2>1, OneAnswer
  <2>3. CASE err[q] = "nil"
    <3>1. Answers'[q] = "nil" BY <1>2, <2>1, <2>3 DEF Answers, Refused
    <3> QED BY <2>1, <2>2, <2>3, <3>1, ReplySim
  <2>4. CASE err[q] # "nil"
    <3>1. ret'[q] = "error" /\ pc'[q] = "returned" BY <1>2, <2>1, <2>4
    <3>2. CASE Refused(q)'
      <4>1. Answers'[q] = "refused" BY <3>2 DEF Answers
      <4>2. applied[q] = 0 BY <2>1, <3>1, <3>2 DEF Refused, EffectsOf
      <4> QED BY <2>2, <4>1, <4>2, ReplySim
    <3>3. CASE ~Refused(q)'
      <4>1. Answers'[q] = "error" BY <3>1, <3>3 DEF Answers
      <4> QED BY <2>2, <4>1, ReplySim
    <3> QED BY <3>2, <3>3
  <2> QED BY <2>3, <2>4
<1> QED BY <1>1, <1>2

LEMMA SleepAbortedSim ==
  ASSUME IndInv, NEW q \in Ops, SleepAborted(q) PROVE [Contract!Next]_Contract!avars
<1> USE DEF SleepAborted, seen, server, Goto, Answer
<1>1. /\ ret[q] = "none" /\ pc \in [Ops -> PCs]
      /\ ret \in [Ops -> {"none", "nil", "error", "aborted", "invalid"}]
  BY DEF IndInv, Effected, EffectsOf, TypeOK
<1>2. Answers[q] = "none" /\ Answers' = [Answers EXCEPT ![q] = Answers'[q]]
  BY <1>1, OneAnswer
<1>3. Answers'[q] = "error" BY <1>1 DEF Answers, Refused
<1> QED BY <1>2, <1>3, ReplySim

LEMMA InvalidViewSim ==
  ASSUME IndInv, NEW q \in Ops, InvalidView(q) PROVE [Contract!Next]_Contract!avars
<1> USE DEF InvalidView, seen, server, Goto, Answer
<1>1. /\ ret[q] = "none" /\ pc \in [Ops -> PCs] /\ applied[q] \in Nat
      /\ ret \in [Ops -> {"none", "nil", "error", "aborted", "invalid"}]
      /\ pending[q] \in Nat /\ applied[q] + pending[q] <= started[q]
  BY DEF IndInv, Effected, EffectsOf, TypeOK
<1>2. Answers[q] = "none" /\ Answers' = [Answers EXCEPT ![q] = Answers'[q]]
  BY <1>1, OneAnswer
<1>3. Answers'[q] = "refused" BY <1>1 DEF Answers, Refused
<1>4. applied[q] = 0 BY <1>1
<1> QED BY <1>2, <1>3, <1>4, ReplySim

LEMMA NextSim == IndInv /\ [Next]_vars => [Contract!Next]_Contract!avars
<1> SUFFICES ASSUME IndInv, [Next]_vars PROVE [Contract!Next]_Contract!avars
  OBVIOUS
<1>1. ASSUME NEW q \in Ops, FireBefore(q) \/ FireAfter(q) \/ SleepElapsed(q)
      PROVE  [Contract!Next]_Contract!avars
  <2> USE DEF FireBefore, FireAfter, SleepElapsed, Goto, policy, seen, server
  <2>1. \A r \in Ops \ {q} : started'[r] = started[r] /\ err'[r] = err[r]
    BY <1>1 DEF IndInv, TypeOK
  <2>2. Answers' = Answers BY <1>1, <2>1, SameAnswers DEF PCs
  <2> QED BY <1>1, <2>2, QuietSim
<1>2. ASSUME NEW q \in Ops, Step(q) PROVE [Contract!Next]_Contract!avars
  BY <1>1, <1>2, RunSim, TrackSim, DecideSim, SleepAbortedSim DEF Step
<1>3. ASSUME NEW q \in Ops, InvalidView(q) \/ ServerSettles(q)
      PROVE  [Contract!Next]_Contract!avars
  BY <1>3, InvalidViewSim, ServerSettlesSim
<1>4. CASE (\E q \in Ops : CancelCtx(q)) \/ SwitchMetrics \/ UNCHANGED vars
  BY <1>4, QuietSim
     DEF CancelCtx, SwitchMetrics, vars, policy, seen, server, Answers, Refused
<1> QED BY <1>2, <1>3, <1>4 DEF Next

(* The calls of core.go, connection.go and view.go under RetryPolicy.do    *)
(* implement a statement that took effect when it is answered nil, at most *)
(* Budget times, and never when the caller is told it was refused: also    *)
(* when the server settles a lost attempt after the answer.                *)
THEOREM Refinement == Spec => RefinesAtLeastOnce
<1>1. Init => Contract!Init BY InitSim
<1>2. IndInv /\ [Next]_vars => [Contract!Next]_Contract!avars BY NextSim
<1> QED BY <1>1, <1>2, Inductive, PTL DEF Spec, RefinesAtLeastOnce, Contract!Spec

-----------------------------------------------------------------------------
(* The measure behind EveryCallReturns: how many steps a call has left.    *)

Rank(p) == CASE p = "before" -> 6 [] p = "run" -> 5 [] p = "track" -> 4
             [] p = "after" -> 3 [] p = "decide" -> 2 [] p = "sleep" -> 1
             [] OTHER -> 0

StepsLeft(q) == 6 * (Budget[q] - 1 - attempt[q]) + Rank(pc[q])

(* A call has between 0 and 6 * Budget steps left, which is 6 for each     *)
(* attempt the policy allows.                                              *)
StepsBounded == \A q \in Ops : StepsLeft(q) \in 0 .. 6 * Budget[q]

(* Whatever moves a call uses one of its steps up, and nothing gives one   *)
(* back: hooks that panic, contexts that end and metrics that are switched *)
(* never make RetryPolicy.do loop longer.                                  *)
UsesUp ==
  \A q \in Ops :
    /\ StepsLeft(q)' <= StepsLeft(q)
    /\ Step(q) \/ pc'[q] # pc[q] => StepsLeft(q)' < StepsLeft(q)

StepsUsedUp == [][UsesUp]_vars

LEMMA StepsInBounds == IndInv => StepsBounded
<1> SUFFICES ASSUME IndInv, NEW q \in Ops PROVE StepsLeft(q) \in 0 .. 6 * Budget[q]
  BY DEF StepsBounded
<1>1. attempt[q] \in 0 .. MaxCount /\ (attempt[q] > 0 => Retried(q))
  BY DEF IndInv, TypeOK, Attempts, AttemptsOf
<1>2. Budget[q] - 1 - attempt[q] \in 0 .. Budget[q] - 1 /\ Budget[q] \in Nat
  BY <1>1 DEF Budget
<1>3. Rank(pc[q]) \in 0 .. 6 BY DEF Rank
<1> QED BY <1>2, <1>3 DEF StepsLeft

(* A step of p that raises its rank is the one that begins an attempt.     *)
LEMMA OwnStepLowers ==
  ASSUME IndInv, NEW p \in Ops, Step(p) \/ InvalidView(p)
  PROVE  /\ \A q \in Ops \ {p} : pc'[q] = pc[q] /\ attempt'[q] = attempt[q]
         /\ StepsLeft(p)' < StepsLeft(p) /\ StepsLeft(p)' <= StepsLeft(p)
<1> USE DEF Goto, policy, seen
<1>0. /\ pc \in [Ops -> PCs] /\ attempt \in [Ops -> 0 .. MaxCount]
      /\ Budget[p] \in Nat /\ Budget' = Budget
  BY DEF IndInv, TypeOK, Budget, Retried
<1>1. CASE SleepElapsed(p)
  BY <1>0, <1>1 DEF SleepElapsed, StepsLeft, Rank, PCs
<1>2. CASE ~SleepElapsed(p)
  <2>1. attempt' = attempt
    BY <1>2 DEF Step, FireBefore, Run, Track, FireAfter, Decide, SleepAborted, InvalidView
  <2>2. \E s \in PCs : pc' = [pc EXCEPT ![p] = s] /\ Rank(s) < Rank(pc[p])
    BY <1>0, <1>2 DEF Step, FireBefore, Run, Track, FireAfter, Decide, SleepAborted,
       InvalidView, Rank, PCs
  <2>3. Rank(pc'[p]) < Rank(pc[p]) /\ \A q \in Ops \ {p} : pc'[q] = pc[q]
    BY <1>0, <2>2
  <2>4. Rank(pc'[p]) \in Nat /\ Rank(pc[p]) \in Nat BY DEF Rank
  <2> QED BY <1>0, <2>1, <2>3, <2>4 DEF StepsLeft
<1> QED BY <1>1, <1>2

(* Every call of RetryPolicy.do takes at most 6 * Budget steps, which is   *)
(* the safety half of EveryCallReturns; that a call takes its next step is *)
(* the scheduler's half.                                                   *)
THEOREM CallsRunOut == Spec => []StepsBounded /\ StepsUsedUp
<1>1. IndInv => StepsBounded BY StepsInBounds
<1>2. IndInv /\ [Next]_vars => [UsesUp]_vars
  <2> SUFFICES ASSUME IndInv, Next, NEW q \in Ops
               PROVE  /\ StepsLeft(q)' <= StepsLeft(q)
                      /\ Step(q) \/ pc'[q] # pc[q] => StepsLeft(q)' < StepsLeft(q)
    BY DEF UsesUp
  <2>1. CASE Step(q) \/ InvalidView(q) BY <2>1, OwnStepLowers
  <2>2. CASE ~(Step(q) \/ InvalidView(q))
    <3>1. ASSUME NEW p \in Ops, Step(p) \/ InvalidView(p)
          PROVE  pc'[q] = pc[q] /\ attempt'[q] = attempt[q]
      BY <2>2, <3>1, OwnStepLowers
    <3>2. ASSUME (\E p \in Ops : CancelCtx(p) \/ ServerSettles(p)) \/ SwitchMetrics
          PROVE  pc'[q] = pc[q] /\ attempt'[q] = attempt[q]
      BY <3>2 DEF CancelCtx, ServerSettles, SwitchMetrics, policy
    <3>3. pc'[q] = pc[q] /\ attempt'[q] = attempt[q] BY <3>1, <3>2 DEF Next
    <3>4. StepsLeft(q)' = StepsLeft(q) BY <3>3 DEF StepsLeft, Budget, Retried
    <3>5. StepsLeft(q) \in Nat BY StepsInBounds DEF StepsBounded, Budget
    <3> QED BY <2>2, <3>3, <3>4, <3>5
  <2> QED BY <2>1, <2>2
<1> QED BY <1>1, <1>2, Inductive, PTL DEF Spec, StepsUsedUp
=============================================================================
