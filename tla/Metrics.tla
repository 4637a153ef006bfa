------------------------------ MODULE Metrics ------------------------------
(* The life of the Prometheus collectors of one DB (database/metrics.go)   *)
(* in the shared hook registry (hooks.go): goroutines that call            *)
(* DB.EnableMetrics and MetricsHandle.Close at the same time, each with a  *)
(* collector of its own, on the registries they were given.                *)
(*                                                                         *)
(* A collector is named after the goroutine that enables it.  Every step   *)
(* takes one lock, of the hook registry or of a Prometheus registry, once. *)
EXTENDS Naturals

CONSTANTS Users,          \* goroutines: EnableMetrics, then handle.Close
          Regs,           \* Prometheus registries
          CollectorCount, \* len(MetricsCollector.Collect())
          None, Other     \* a free id, and one the application has taken

ASSUME NamesAssumption == None \notin Users /\ Other \notin Users /\ None # Other

ASSUME CountAssumption == CollectorCount \in Nat \ {0}

Ids == 1 .. CollectorCount

VARIABLES
  target,  \* the registry each user passes
  pc,      \* where each user is
  lo, hi,  \* its loops over Collect(): ids lo .. hi - 1 are registered
  reg,     \* registry -> id -> the user whose collector it holds
  hs,      \* collectors in hookRegistry.hs
  met,     \* hookRegistry.met
  sampler  \* pollLoop of each collector: "off", "on", "cancelled", "gone"

vars == <<target, pc, lo, hi, reg, hs, met, sampler>>

TypeOK ==
  /\ target \in [Users -> Regs]
  /\ pc \in [Users -> {"idle", "register", "undo", "observe", "sample",
                       "enabled", "remove", "unobserve", "unregister",
                       "closed", "refused"}]
  /\ lo \in [Users -> 1 .. CollectorCount + 1]
  /\ hi \in [Users -> 1 .. CollectorCount + 1]
  /\ reg \in [Regs -> [Ids -> Users \cup {None, Other}]]
  /\ hs \in SUBSET Users
  /\ met \in Users \cup {None}
  /\ sampler \in [Users -> {"off", "on", "cancelled", "gone"}]

Init ==
  /\ target \in [Users -> Regs]
  /\ pc = [u \in Users |-> "idle"]
  /\ lo = [u \in Users |-> 1] /\ hi = [u \in Users |-> 1]
  /\ reg \in [Regs -> [Ids -> {None, Other}]]
  /\ hs = {} /\ met = None
  /\ sampler = [u \in Users |-> "off"]

Goto(u, p) == pc' = [pc EXCEPT ![u] = p]

-----------------------------------------------------------------------------
(* DB.EnableMetrics.                                                       *)

(* The check reads met; it is set only at the end, under another lock.     *)
Check(u) ==
  /\ pc[u] = "idle"
  /\ Goto(u, IF met = None THEN "register" ELSE "refused")
  /\ UNCHANGED <<target, lo, hi, reg, hs, met, sampler>>

(* prometheus.Registerer tells collectors apart by what they describe: the *)
(* ids of two users are the same, and Unregister removes whoever has one.  *)
Held(u, i) == reg[target[u]][i]
Put(u, i, v) == reg' = [reg EXCEPT ![target[u]] = [@ EXCEPT ![i] = v]]

Register(u) ==
  /\ pc[u] = "register" /\ hi[u] \in Ids /\ Held(u, hi[u]) = None
  /\ Put(u, hi[u], u)
  /\ hi' = [hi EXCEPT ![u] = @ + 1]
  /\ UNCHANGED <<target, pc, lo, hs, met, sampler>>

\* Mutant of RegisterFails: the partial registrations stay.
RegisterFailsKeeps(u) ==
  /\ pc[u] = "register" /\ hi[u] \in Ids /\ Held(u, hi[u]) # None
  /\ Goto(u, "refused")
  /\ UNCHANGED <<target, lo, hi, reg, hs, met, sampler>>

\* Mutant of RegisterFails: all of Collect() is undone.
RegisterFailsUndoesAll(u) ==
  /\ pc[u] = "register" /\ hi[u] \in Ids /\ Held(u, hi[u]) # None
  /\ hi' = [hi EXCEPT ![u] = CollectorCount + 1]
  /\ Goto(u, "undo")
  /\ UNCHANGED <<target, lo, reg, hs, met, sampler>>

(* AlreadyRegisteredError: what was registered is undone, from the first.  *)
RegisterFails(u) ==
  /\ pc[u] = "register" /\ hi[u] \in Ids /\ Held(u, hi[u]) # None
  /\ Goto(u, "undo")
  /\ UNCHANGED <<target, lo, hi, reg, hs, met, sampler>>

Undo(u) ==
  /\ pc[u] = "undo" /\ lo[u] < hi[u]
  /\ Put(u, lo[u], None)
  /\ lo' = [lo EXCEPT ![u] = @ + 1]
  /\ UNCHANGED <<target, pc, hi, hs, met, sampler>>

Refuse(u) ==
  /\ pc[u] = "undo" /\ lo[u] = hi[u]
  /\ Goto(u, "refused")
  /\ UNCHANGED <<target, lo, hi, reg, hs, met, sampler>>

Add(u) ==
  /\ pc[u] = "register" /\ hi[u] = CollectorCount + 1
  /\ hs' = hs \cup {u}
  /\ Goto(u, "observe")
  /\ UNCHANGED <<target, lo, hi, reg, met, sampler>>

SetObserved(u) ==
  /\ pc[u] = "observe"
  /\ met' = u
  /\ Goto(u, "sample")
  /\ UNCHANGED <<target, lo, hi, reg, hs, sampler>>

StartSampler(u) ==
  /\ pc[u] = "sample"
  /\ sampler' = [sampler EXCEPT ![u] = "on"]
  /\ Goto(u, "enabled")
  /\ UNCHANGED <<target, lo, hi, reg, hs, met>>

-----------------------------------------------------------------------------
(* MetricsHandle.Close, the body of its once.                              *)

\* Mutant of Stop: the sampler's context is not cancelled.
StopForgotten(u) ==
  /\ pc[u] = "enabled"
  /\ Goto(u, "remove")
  /\ UNCHANGED <<target, lo, hi, reg, hs, met, sampler>>

Stop(u) ==
  /\ pc[u] = "enabled"
  /\ sampler' = [sampler EXCEPT ![u] = "cancelled"]
  /\ Goto(u, "remove")
  /\ UNCHANGED <<target, lo, hi, reg, hs, met>>

\* Mutant of Remove: the ids are given back before the hook is detached.
RemoveLast(u) ==
  /\ pc[u] = "remove"
  /\ IF lo[u] < hi[u]
     THEN /\ Put(u, lo[u], None)
          /\ lo' = [lo EXCEPT ![u] = @ + 1]
          /\ UNCHANGED <<pc, hs>>
     ELSE /\ hs' = hs \ {u}
          /\ Goto(u, "unobserve")
          /\ UNCHANGED <<lo, reg>>
  /\ UNCHANGED <<target, hi, met, sampler>>

Remove(u) ==
  /\ pc[u] = "remove"
  /\ hs' = hs \ {u}
  /\ Goto(u, "unobserve")
  /\ UNCHANGED <<target, lo, hi, reg, met, sampler>>

ClearObserved(u) ==
  /\ pc[u] = "unobserve"
  /\ met' = None
  /\ Goto(u, "unregister")
  /\ UNCHANGED <<target, lo, hi, reg, hs, sampler>>

\* Mutant of Unregister: one turn too many.
UnregisterOneMore(u) ==
  /\ pc[u] = "unregister" /\ lo[u] <= hi[u]
  /\ Put(u, lo[u], None)
  /\ lo' = [lo EXCEPT ![u] = @ + 1]
  /\ UNCHANGED <<target, pc, hi, hs, met, sampler>>

Unregister(u) ==
  /\ pc[u] = "unregister" /\ lo[u] < hi[u]
  /\ Put(u, lo[u], None)
  /\ lo' = [lo EXCEPT ![u] = @ + 1]
  /\ UNCHANGED <<target, pc, hi, hs, met, sampler>>

Closed(u) ==
  /\ pc[u] = "unregister" /\ lo[u] = hi[u]
  /\ Goto(u, "closed")
  /\ UNCHANGED <<target, lo, hi, reg, hs, met, sampler>>

(* pollLoop: a tick changes only the gauges; the end of the context is     *)
(* noticed at the next turn of the select.                                 *)
SamplerExits(u) ==
  /\ sampler[u] = "cancelled"
  /\ sampler' = [sampler EXCEPT ![u] = "gone"]
  /\ UNCHANGED <<target, pc, lo, hi, reg, hs, met>>

-----------------------------------------------------------------------------
Enable(u) == Register(u) \/ RegisterFails(u) \/ Undo(u) \/ Refuse(u)
               \/ Add(u) \/ SetObserved(u) \/ StartSampler(u)

Close(u) == Remove(u) \/ ClearObserved(u) \/ Unregister(u) \/ Closed(u)

Finished ==
  /\ \A u \in Users : pc[u] \in {"closed", "refused"} /\ sampler[u] # "cancelled"
  /\ UNCHANGED vars

Next ==
  \/ \E u \in Users : Check(u) \/ Enable(u) \/ Stop(u) \/ Close(u) \/ SamplerExits(u)
  \/ Finished

(* No step waits for anything but a lock held for a few instructions.      *)
Fairness ==
  \A u \in Users : WF_vars(Enable(u)) /\ WF_vars(Close(u)) /\ WF_vars(SamplerExits(u))

Spec == Init /\ [][Next]_vars /\ Fairness

-----------------------------------------------------------------------------
(* Properties.                                                             *)

(* From the last Register of an EnableMetrics to the first Unregister of   *)
(* its Close, every metric of that handle is in its registry: no undo and  *)
(* no Close of anybody else, which remove by id, takes one away.           *)
MetricsStayRegistered ==
  \A u \in Users :
    pc[u] \in {"observe", "sample", "enabled", "remove", "unobserve"} =>
      \A i \in Ids : Held(u, i) = u

(* A refused EnableMetrics and a finished Close leave nothing behind: no   *)
(* hook, no observed collector, no registered metric.                      *)
NothingLeftBehind ==
  \A u \in Users : pc[u] \in {"closed", "refused"} =>
    u \notin hs /\ met # u /\ \A r \in Regs, i \in Ids : reg[r][i] # u

(* When everybody passes the same registry it decides the race that the    *)
(* check on met leaves open: an enabled collector is the only hook and the *)
(* observed one, so each statement and each transaction is counted once.   *)
CountedByOne ==
  \A u \in Users :
    pc[u] = "enabled" /\ (\A v \in Users : target[v] = target[u]) =>
      hs = {u} /\ met = u

(* Metrics that the application registered itself are never removed.       *)
OthersUntouched ==
  [][\A r \in Regs, i \in Ids : reg[r][i] = Other => reg'[r][i] = Other]_vars

(* "feche-o ... para não deixar goroutine": Close ends the sampler.        *)
SamplerStops == \A u \in Users : pc[u] = "remove" ~> sampler[u] = "gone"
=============================================================================
