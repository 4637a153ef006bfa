--------------------------- MODULE MetricsProofs ---------------------------
(* Proofs about Metrics for any sets of users and registries and any       *)
(* number of collectors.                                                   *)
EXTENDS Metrics, TLAPS

(* Users that have registered everything and given nothing back.           *)
Full == {"observe", "sample", "enabled", "remove", "unobserve"}

(* How far the loops over Collect() are, by where the user is.             *)
LoopsOf(u) ==
  /\ lo[u] <= hi[u]
  /\ pc[u] \in {"idle", "register"} => lo[u] = 1
  /\ pc[u] = "idle" => hi[u] = 1
  /\ pc[u] \in Full => lo[u] = 1 /\ hi[u] = CollectorCount + 1
  /\ pc[u] \in {"closed", "refused"} => lo[u] = hi[u]

(* A registry holds exactly the ids a user has registered and not undone.  *)
OwnedBy(u) ==
  \A r \in Regs, i \in Ids :
    reg[r][i] = u <=> r = target[u] /\ lo[u] <= i /\ i < hi[u]

(* Who is in the hook registry, and who may be the observed collector.     *)
HookOf(u) ==
  /\ u \in hs <=> pc[u] \in {"observe", "sample", "enabled", "remove"}
  /\ met = u => pc[u] \in {"sample", "enabled", "remove", "unobserve"}
  /\ pc[u] \in {"sample", "enabled", "remove", "unobserve"}
       /\ (\A v \in Users : target[v] = target[u]) => met = u

Loops == \A u \in Users : LoopsOf(u)
Owned == \A u \in Users : OwnedBy(u)
Hooked == \A u \in Users : HookOf(u)

IndInv == TypeOK /\ Loops /\ Owned /\ Hooked

(* Two users that hold everything on one registry are the same.            *)
LEMMA Exclusive ==
  ASSUME IndInv, NEW u \in Users, NEW v \in Users,
         pc[u] \in Full, pc[v] \in Full, target[u] = target[v]
  PROVE  u = v
<1>1. 1 \in Ids BY CountAssumption DEF Ids
<1>2. LoopsOf(u) /\ LoopsOf(v) BY DEF IndInv, Loops
<1>3. OwnedBy(u) /\ OwnedBy(v) BY DEF IndInv, Owned
<1>4. target[u] \in Regs /\ target[v] \in Regs BY DEF IndInv, TypeOK
<1>5. reg[target[u]][1] = u
  BY <1>1, <1>2, <1>3, <1>4, CountAssumption DEF LoopsOf, OwnedBy
<1>6. reg[target[v]][1] = v
  BY <1>1, <1>2, <1>3, <1>4, CountAssumption DEF LoopsOf, OwnedBy
<1> QED BY <1>5, <1>6

LEMMA InitInd == Init => IndInv
<1> SUFFICES ASSUME Init PROVE IndInv
  OBVIOUS
<1> USE NamesAssumption, CountAssumption DEF Init
<1>0. 1 \in 1 .. CollectorCount + 1 OBVIOUS
<1>1. TypeOK BY <1>0 DEF TypeOK
<1>2. Loops
  <2> SUFFICES ASSUME NEW u \in Users PROVE LoopsOf(u)
    BY DEF Loops
  <2>1. pc[u] = "idle" /\ lo[u] = 1 /\ hi[u] = 1 OBVIOUS
  <2> QED BY <2>1 DEF LoopsOf, Full
<1>3. Owned
  <2> SUFFICES ASSUME NEW u \in Users, NEW r \in Regs, NEW i \in Ids
               PROVE  reg[r][i] = u <=> r = target[u] /\ lo[u] <= i /\ i < hi[u]
    BY DEF Owned, OwnedBy
  <2>1. reg[r][i] \in {None, Other} OBVIOUS
  <2>2. reg[r][i] # u BY <2>1
  <2>3. lo[u] = 1 /\ hi[u] = 1 /\ i \in Nat BY DEF Ids
  <2> QED BY <2>2, <2>3
<1>4. Hooked BY DEF Hooked, HookOf
<1> QED BY <1>1, <1>2, <1>3, <1>4 DEF IndInv

(* Steps that leave the registries and the loops alone.                    *)
LEMMA CheckInd == ASSUME IndInv, NEW u \in Users, Check(u) PROVE IndInv'
<1> USE DEF IndInv, Check, Goto
<1>1. TypeOK' BY DEF TypeOK
<1>2. Loops' BY DEF Loops, LoopsOf, Full, TypeOK
<1>3. Owned' BY DEF Owned, OwnedBy
<1>4. Hooked' BY DEF Hooked, HookOf, TypeOK
<1> QED BY <1>1, <1>2, <1>3, <1>4

LEMMA RegisterInd == ASSUME IndInv, NEW u \in Users, Register(u) PROVE IndInv'
<1> USE DEF IndInv, Register, Put, Held
<1> USE NamesAssumption, CountAssumption
<1>0. hi[u] \in Ids /\ hi'[u] = hi[u] + 1 /\ hi[u] + 1 \in 1 .. CollectorCount + 1
  BY DEF TypeOK, Ids
<1>1. TypeOK' BY <1>0 DEF TypeOK
<1>2. Loops' BY <1>0 DEF Loops, LoopsOf, Full, TypeOK, Ids
<1>3. Owned'
  <2> SUFFICES ASSUME NEW v \in Users, NEW r \in Regs, NEW i \in Ids
               PROVE  (reg[r][i] = v <=> r = target[v] /\ lo[v] <= i /\ i < hi[v])'
    BY DEF Owned, OwnedBy
  <2>1. reg[r][i] = v <=> r = target[v] /\ lo[v] <= i /\ i < hi[v]
    BY DEF Owned, OwnedBy
  <2>2. reg'[r][i] = IF r = target[u] /\ i = hi[u] THEN u ELSE reg[r][i]
    BY <1>0 DEF TypeOK
  <2>3. lo[v] \in Nat /\ hi[v] \in Nat /\ hi[u] \in Nat /\ i \in Nat /\ lo[u] <= hi[u]
    BY DEF TypeOK, Ids, Loops, LoopsOf
  <2>4. hi'[v] = IF v = u THEN hi[u] + 1 ELSE hi[v]
    BY DEF TypeOK
  <2>5. lo' = lo /\ target' = target
    OBVIOUS
  <2>6. reg[target[u]][hi[u]] = None
    OBVIOUS
  <2>7. CASE r = target[u] /\ i = hi[u]
    BY <2>7, <2>1, <2>2, <2>3, <2>4, <2>5, <2>6
  <2>8. CASE ~(r = target[u] /\ i = hi[u])
    BY <2>8, <2>1, <2>2, <2>3, <2>4, <2>5
  <2> QED BY <2>7, <2>8
<1>4. Hooked' BY DEF Hooked, HookOf, TypeOK
<1> QED BY <1>1, <1>2, <1>3, <1>4

(* An unregistration at lo: of Undo and of Unregister.                     *)
Drop(u) ==
  /\ lo[u] < hi[u]
  /\ Put(u, lo[u], None)
  /\ lo' = [lo EXCEPT ![u] = @ + 1]
  /\ UNCHANGED <<target, pc, hi, hs, met, sampler>>

LEMMA DropInd ==
  ASSUME IndInv, NEW u \in Users, Drop(u), pc[u] \in {"undo", "unregister"}
  PROVE  IndInv' /\ lo[u] \in Ids /\ reg[target[u]][lo[u]] = u
<1> USE DEF IndInv, Drop, Put
<1> USE NamesAssumption, CountAssumption
<1>0. lo[u] \in Ids /\ lo[u] + 1 \in 1 .. CollectorCount + 1 /\ lo'[u] = lo[u] + 1
  BY DEF TypeOK, Ids
<1>a. reg[target[u]][lo[u]] = u
  BY <1>0 DEF Owned, OwnedBy, TypeOK, Ids
<1>1. TypeOK' BY <1>0 DEF TypeOK
<1>2. Loops' BY <1>0 DEF Loops, LoopsOf, Full, TypeOK
<1>3. Owned'
  <2> SUFFICES ASSUME NEW v \in Users, NEW r \in Regs, NEW i \in Ids
               PROVE  (reg[r][i] = v <=> r = target[v] /\ lo[v] <= i /\ i < hi[v])'
    BY DEF Owned, OwnedBy
  <2>1. reg[r][i] = v <=> r = target[v] /\ lo[v] <= i /\ i < hi[v]
    BY DEF Owned, OwnedBy
  <2>2. reg'[r][i] = IF r = target[u] /\ i = lo[u] THEN None ELSE reg[r][i]
    BY <1>0 DEF TypeOK
  <2>3. lo[v] \in Nat /\ hi[v] \in Nat /\ lo[u] \in Nat /\ i \in Nat
    BY DEF TypeOK, Ids
  <2>4. lo'[v] = IF v = u THEN lo[u] + 1 ELSE lo[v]
    BY DEF TypeOK
  <2>5. hi' = hi /\ target' = target
    OBVIOUS
  <2>7. CASE r = target[u] /\ i = lo[u]
    BY <1>a, <2>7, <2>1, <2>2, <2>3, <2>4, <2>5
  <2>8. CASE ~(r = target[u] /\ i = lo[u])
    BY <2>8, <2>1, <2>2, <2>3, <2>4, <2>5
  <2> QED BY <2>7, <2>8
<1>4. Hooked' BY DEF Hooked, HookOf, TypeOK
<1> QED BY <1>0, <1>a, <1>1, <1>2, <1>3, <1>4

LEMMA UndoInd == ASSUME IndInv, NEW u \in Users, Undo(u) PROVE IndInv'
  BY DropInd DEF Undo, Drop

LEMMA UnregisterInd == ASSUME IndInv, NEW u \in Users, Unregister(u) PROVE IndInv'
  BY DropInd DEF Unregister, Drop

LEMMA RegisterFailsInd ==
  ASSUME IndInv, NEW u \in Users, RegisterFails(u) PROVE IndInv'
<1> USE DEF IndInv, RegisterFails, Goto
<1>1. TypeOK' BY DEF TypeOK
<1>2. Loops' BY DEF Loops, LoopsOf, Full, TypeOK
<1>3. Owned' BY DEF Owned, OwnedBy
<1>4. Hooked' BY DEF Hooked, HookOf, TypeOK
<1> QED BY <1>1, <1>2, <1>3, <1>4

LEMMA RefuseInd == ASSUME IndInv, NEW u \in Users, Refuse(u) PROVE IndInv'
<1> USE DEF IndInv, Refuse, Goto
<1>1. TypeOK' BY DEF TypeOK
<1>2. Loops' BY DEF Loops, LoopsOf, Full, TypeOK
<1>3. Owned' BY DEF Owned, OwnedBy
<1>4. Hooked' BY DEF Hooked, HookOf, TypeOK
<1> QED BY <1>1, <1>2, <1>3, <1>4

LEMMA AddInd == ASSUME IndInv, NEW u \in Users, Add(u) PROVE IndInv'
<1> USE DEF IndInv, Add, Goto
<1>1. TypeOK' BY DEF TypeOK
<1>2. Loops' BY DEF Loops, LoopsOf, Full, TypeOK
<1>3. Owned' BY DEF Owned, OwnedBy
<1>4. Hooked' BY DEF Hooked, HookOf, TypeOK
<1> QED BY <1>1, <1>2, <1>3, <1>4

(* Setting and clearing met: with one registry nobody else is in between.  *)
LEMMA SetObservedInd == ASSUME IndInv, NEW u \in Users, SetObserved(u) PROVE IndInv'
<1> USE DEF IndInv, SetObserved, Goto
<1>1. TypeOK' BY DEF TypeOK
<1>2. Loops' BY DEF Loops, LoopsOf, Full, TypeOK
<1>3. Owned' BY DEF Owned, OwnedBy
<1>4. Hooked'
  <2> SUFFICES ASSUME NEW v \in Users PROVE HookOf(v)'
    BY DEF Hooked
  <2>1. HookOf(v) BY DEF Hooked
  <2>2. CASE v = u BY <2>1, <2>2 DEF HookOf, TypeOK
  <2>3. CASE v # u
    <3>1. pc[v] \in Full /\ (\A w \in Users : target[w] = target[v]) => FALSE
      BY <2>3, Exclusive DEF Full
    <3> QED BY <2>1, <2>3, <3>1 DEF HookOf, TypeOK, Full
  <2> QED BY <2>2, <2>3
<1> QED BY <1>1, <1>2, <1>3, <1>4

LEMMA ClearObservedInd ==
  ASSUME IndInv, NEW u \in Users, ClearObserved(u) PROVE IndInv'
<1> USE DEF IndInv, ClearObserved, Goto
<1> USE NamesAssumption
<1>1. TypeOK' BY DEF TypeOK
<1>2. Loops' BY DEF Loops, LoopsOf, Full, TypeOK
<1>3. Owned' BY DEF Owned, OwnedBy
<1>4. Hooked'
  <2> SUFFICES ASSUME NEW v \in Users PROVE HookOf(v)'
    BY DEF Hooked
  <2>1. HookOf(v) BY DEF Hooked
  <2>2. CASE v = u BY <2>1, <2>2 DEF HookOf, TypeOK
  <2>3. CASE v # u
    <3>1. pc[v] \in Full /\ (\A w \in Users : target[w] = target[v]) => FALSE
      BY <2>3, Exclusive DEF Full
    <3> QED BY <2>1, <2>3, <3>1 DEF HookOf, TypeOK, Full
  <2> QED BY <2>2, <2>3
<1> QED BY <1>1, <1>2, <1>3, <1>4

LEMMA StartSamplerInd == ASSUME IndInv, NEW u \in Users, StartSampler(u) PROVE IndInv'
<1> USE DEF IndInv, StartSampler, Goto
<1>1. TypeOK' BY DEF TypeOK
<1>2. Loops' BY DEF Loops, LoopsOf, Full, TypeOK
<1>3. Owned' BY DEF Owned, OwnedBy
<1>4. Hooked' BY DEF Hooked, HookOf, TypeOK
<1> QED BY <1>1, <1>2, <1>3, <1>4

LEMMA StopInd == ASSUME IndInv, NEW u \in Users, Stop(u) PROVE IndInv'
<1> USE DEF IndInv, Stop, Goto
<1>1. TypeOK' BY DEF TypeOK
<1>2. Loops' BY DEF Loops, LoopsOf, Full, TypeOK
<1>3. Owned' BY DEF Owned, OwnedBy
<1>4. Hooked' BY DEF Hooked, HookOf, TypeOK
<1> QED BY <1>1, <1>2, <1>3, <1>4

LEMMA RemoveInd == ASSUME IndInv, NEW u \in Users, Remove(u) PROVE IndInv'
<1> USE DEF IndInv, Remove, Goto
<1>1. TypeOK' BY DEF TypeOK
<1>2. Loops' BY DEF Loops, LoopsOf, Full, TypeOK
<1>3. Owned' BY DEF Owned, OwnedBy
<1>4. Hooked' BY DEF Hooked, HookOf, TypeOK
<1> QED BY <1>1, <1>2, <1>3, <1>4

LEMMA ClosedInd == ASSUME IndInv, NEW u \in Users, Closed(u) PROVE IndInv'
<1> USE DEF IndInv, Closed, Goto
<1>1. TypeOK' BY DEF TypeOK
<1>2. Loops' BY DEF Loops, LoopsOf, Full, TypeOK
<1>3. Owned' BY DEF Owned, OwnedBy
<1>4. Hooked' BY DEF Hooked, HookOf, TypeOK
<1> QED BY <1>1, <1>2, <1>3, <1>4

LEMMA SamplerExitsInd == ASSUME IndInv, NEW u \in Users, SamplerExits(u) PROVE IndInv'
  BY DEF IndInv, SamplerExits, TypeOK, Loops, LoopsOf, Owned, OwnedBy, Hooked, HookOf

LEMMA StutterInd == ASSUME IndInv, UNCHANGED vars PROVE IndInv'
  BY DEF IndInv, vars, TypeOK, Loops, LoopsOf, Owned, OwnedBy, Hooked, HookOf

LEMMA NextInd == IndInv /\ [Next]_vars => IndInv'
<1> SUFFICES ASSUME IndInv, [Next]_vars PROVE IndInv'
  OBVIOUS
<1>1. ASSUME NEW u \in Users, Check(u) PROVE IndInv' BY <1>1, CheckInd
<1>2. ASSUME NEW u \in Users, Enable(u) PROVE IndInv'
  BY <1>2, RegisterInd, RegisterFailsInd, UndoInd, RefuseInd, AddInd,
     SetObservedInd, StartSamplerInd DEF Enable
<1>3. ASSUME NEW u \in Users, Stop(u) PROVE IndInv' BY <1>3, StopInd
<1>4. ASSUME NEW u \in Users, Close(u) PROVE IndInv'
  BY <1>4, RemoveInd, ClearObservedInd, UnregisterInd, ClosedInd DEF Close
<1>5. ASSUME NEW u \in Users, SamplerExits(u) PROVE IndInv' BY <1>5, SamplerExitsInd
<1>6. CASE Finished \/ UNCHANGED vars BY <1>6, StutterInd DEF Finished
<1> QED BY <1>1, <1>2, <1>3, <1>4, <1>5, <1>6 DEF Next

LEMMA Inductive == Spec => []IndInv
<1>1. Init => IndInv BY InitInd
<1>2. IndInv /\ [Next]_vars => IndInv' BY NextInd
<1> QED BY <1>1, <1>2, PTL DEF Spec

(* The variables of every EnableMetrics and Close keep their types.        *)
THEOREM TypeCorrect == Spec => []TypeOK
<1>1. IndInv => TypeOK BY DEF IndInv
<1> QED BY <1>1, Inductive, PTL

(* No undo and no Close of register/unregister (metrics.go) takes a metric *)
(* away from another handle.                                               *)
THEOREM AlwaysRegistered == Spec => []MetricsStayRegistered
<1>1. IndInv => MetricsStayRegistered
  <2> SUFFICES ASSUME IndInv, NEW u \in Users, pc[u] \in Full, NEW i \in Ids
               PROVE  reg[target[u]][i] = u
    BY DEF MetricsStayRegistered, Held, Full
  <2>1. lo[u] = 1 /\ hi[u] = CollectorCount + 1 BY DEF IndInv, Loops, LoopsOf
  <2>2. target[u] \in Regs BY DEF IndInv, TypeOK
  <2>3. lo[u] <= i /\ i < hi[u] BY <2>1, CountAssumption DEF Ids
  <2> QED BY <2>2, <2>3 DEF IndInv, Owned, OwnedBy
<1> QED BY <1>1, Inductive, PTL

(* A refused EnableMetrics and a finished Close leave neither a hook, nor  *)
(* an observed collector, nor a registered metric.                         *)
THEOREM AlwaysCleansUp == Spec => []NothingLeftBehind
<1>1. IndInv => NothingLeftBehind
  <2> SUFFICES ASSUME IndInv, NEW u \in Users, pc[u] \in {"closed", "refused"}
               PROVE  u \notin hs /\ met # u
                        /\ \A r \in Regs, i \in Ids : reg[r][i] # u
    BY DEF NothingLeftBehind
  <2>1. lo[u] = hi[u] /\ lo[u] \in Nat BY DEF IndInv, Loops, LoopsOf, TypeOK
  <2>2. u \notin hs /\ met # u BY DEF IndInv, Hooked, HookOf
  <2>3. \A r \in Regs, i \in Ids : reg[r][i] # u
    BY <2>1 DEF IndInv, Owned, OwnedBy, Ids
  <2> QED BY <2>2, <2>3
<1> QED BY <1>1, Inductive, PTL

(* With one Prometheus registry, concurrent calls of EnableMetrics leave   *)
(* one collector that is both the hook and the observed one.               *)
THEOREM AlwaysCountedByOne == Spec => []CountedByOne
<1>1. IndInv => CountedByOne
  <2> SUFFICES ASSUME IndInv, NEW u \in Users, pc[u] = "enabled",
                      \A v \in Users : target[v] = target[u]
               PROVE  hs = {u} /\ met = u
    BY DEF CountedByOne
  <2>1. u \in hs /\ met = u BY DEF IndInv, Hooked, HookOf
  <2>2. ASSUME NEW v \in hs PROVE v = u
    <3>1. v \in Users BY DEF IndInv, TypeOK
    <3>2. pc[v] \in Full BY <3>1 DEF IndInv, Hooked, HookOf, Full
    <3> QED BY <3>1, <3>2, Exclusive DEF Full
  <2> QED BY <2>1, <2>2
<1> QED BY <1>1, Inductive, PTL

(* No step of EnableMetrics or Close removes what the application itself   *)
(* registered.                                                             *)
THEOREM AlwaysOthersUntouched == Spec => OthersUntouched
<1> DEFINE Keeps == \A r \in Regs, i \in Ids : reg[r][i] = Other => reg'[r][i] = Other
<1>1. IndInv /\ [Next]_vars => [Keeps]_vars
  <2> SUFFICES ASSUME IndInv, [Next]_vars PROVE Keeps
    OBVIOUS
  <2>1. ASSUME NEW u \in Users, Register(u) PROVE Keeps
    BY <2>1, NamesAssumption DEF Register, Put, Held, IndInv, TypeOK
  <2>2. ASSUME NEW u \in Users, Drop(u), pc[u] \in {"undo", "unregister"} PROVE Keeps
    <3>1. reg[target[u]][lo[u]] = u BY <2>2, DropInd
    <3> QED BY <2>2, <3>1, NamesAssumption DEF Drop, Put, IndInv, TypeOK
  <2>3. CASE reg' = reg BY <2>3
  <2>4. ASSUME NEW u \in Users, Enable(u) PROVE Keeps
    BY <2>1, <2>2, <2>3, <2>4 DEF Enable, RegisterFails, Undo, Drop, Refuse, Add,
       SetObserved, StartSampler
  <2>5. ASSUME NEW u \in Users, Close(u) PROVE Keeps
    BY <2>2, <2>3, <2>5 DEF Close, Remove, ClearObserved, Unregister, Drop, Closed
  <2> QED BY <2>3, <2>4, <2>5 DEF Next, Check, Stop, SamplerExits, Finished, vars
<1> QED BY <1>1, Inductive, PTL DEF Spec, OthersUntouched

-----------------------------------------------------------------------------
(* The sampler, and the measure behind SamplerStops.                       *)

Closing == {"remove", "unobserve", "unregister", "closed"}

SamplerOf(u) ==
  /\ sampler[u] = "on" <=> pc[u] = "enabled"
  /\ sampler[u] \in {"cancelled", "gone"} <=> pc[u] \in Closing

(* The goroutine of pollLoop runs on exactly while its handle is enabled:  *)
(* a refused EnableMetrics never started one, and from the first step of   *)
(* Close on it is told to end.                                             *)
SamplerFollowsHandle == \A u \in Users : SamplerOf(u)

LEMMA SamplerInd ==
  ASSUME IndInv, SamplerFollowsHandle, [Next]_vars
  PROVE  SamplerFollowsHandle'
<1> SUFFICES ASSUME NEW v \in Users PROVE SamplerOf(v)'
  BY DEF SamplerFollowsHandle
<1> USE DEF SamplerFollowsHandle, SamplerOf, Closing, Goto
<1>0. TypeOK BY DEF IndInv
<1>1. ASSUME NEW u \in Users, Check(u) PROVE SamplerOf(v)'
  BY <1>0, <1>1 DEF Check, TypeOK
<1>2. ASSUME NEW u \in Users, Enable(u) PROVE SamplerOf(v)'
  BY <1>0, <1>2 DEF Enable, Register, RegisterFails, Undo, Refuse, Add, SetObserved,
     StartSampler, TypeOK
<1>3. ASSUME NEW u \in Users, Stop(u) PROVE SamplerOf(v)'
  BY <1>0, <1>3 DEF Stop, TypeOK
<1>4. ASSUME NEW u \in Users, Close(u) PROVE SamplerOf(v)'
  BY <1>0, <1>4 DEF Close, Remove, ClearObserved, Unregister, Closed, TypeOK
<1>5. ASSUME NEW u \in Users, SamplerExits(u) PROVE SamplerOf(v)'
  BY <1>0, <1>5 DEF SamplerExits, TypeOK
<1>6. CASE Finished \/ UNCHANGED vars BY <1>6 DEF Finished, vars
<1> QED BY <1>1, <1>2, <1>3, <1>4, <1>5, <1>6 DEF Next

(* EnableMetrics, StartSampler and Close agree about the goroutine.        *)
THEOREM SamplerAlwaysFollows == Spec => []SamplerFollowsHandle
<1>1. Init => SamplerFollowsHandle BY DEF Init, SamplerFollowsHandle, SamplerOf, Closing
<1>2. IndInv /\ SamplerFollowsHandle /\ [Next]_vars => SamplerFollowsHandle'
  BY SamplerInd
<1> QED BY <1>1, <1>2, Inductive, PTL DEF Spec

(* Steps that a user and its sampler have left.                            *)
Phase(u) ==
  CASE pc[u] = "idle" -> 2 * CollectorCount + 9
    [] pc[u] = "register" -> (CollectorCount + 1 - hi[u]) + CollectorCount + 8
    [] pc[u] = "observe" -> CollectorCount + 7
    [] pc[u] = "sample" -> CollectorCount + 6
    [] pc[u] = "enabled" -> CollectorCount + 5
    [] pc[u] = "remove" -> CollectorCount + 3
    [] pc[u] = "unobserve" -> CollectorCount + 2
    [] pc[u] \in {"undo", "unregister"} -> (hi[u] - lo[u]) + 1
    [] OTHER -> 0

StepsLeft(u) == Phase(u) + IF sampler[u] = "cancelled" THEN 1 ELSE 0

(* A user has at most the steps of one EnableMetrics and one Close, with   *)
(* both their loops over Collect().                                        *)
StepsBounded == \A u \in Users : StepsLeft(u) \in 0 .. 2 * CollectorCount + 9

UsesUp ==
  \E u \in Users : /\ StepsLeft(u)' < StepsLeft(u)
                   /\ \A v \in Users \ {u} : StepsLeft(v)' = StepsLeft(v)

(* Every step is one user's, who has fewer steps left then, and nobody     *)
(* else has more: users that take ids away from each other, undo and close *)
(* never send one another back.                                            *)
StepsUsedUp == [][UsesUp]_vars

LEMMA StepsInBounds == IndInv /\ SamplerFollowsHandle => StepsBounded
<1> SUFFICES ASSUME IndInv, SamplerFollowsHandle, NEW u \in Users
             PROVE  StepsLeft(u) \in 0 .. 2 * CollectorCount + 9
  BY DEF StepsBounded
<1>1. /\ lo[u] \in 1 .. CollectorCount + 1 /\ hi[u] \in 1 .. CollectorCount + 1
      /\ lo[u] <= hi[u] /\ CollectorCount \in Nat
  BY CountAssumption DEF IndInv, TypeOK, Loops, LoopsOf
<1>2. Phase(u) \in 0 .. 2 * CollectorCount + 9 BY <1>1 DEF Phase
<1>3. sampler[u] = "cancelled" => Phase(u) \in 0 .. 2 * CollectorCount + 8
  BY <1>1 DEF Phase, SamplerFollowsHandle, SamplerOf, Closing
<1> QED BY <1>1, <1>2, <1>3 DEF StepsLeft

(* What a step changes is the user's own.                                  *)
Own(u) ==
  \A v \in Users \ {u} :
    pc'[v] = pc[v] /\ lo'[v] = lo[v] /\ hi'[v] = hi[v] /\ sampler'[v] = sampler[v]

LEMMA OwnStepLowers ==
  ASSUME IndInv, SamplerFollowsHandle, NEW u \in Users,
         Check(u) \/ Enable(u) \/ Stop(u) \/ Close(u) \/ SamplerExits(u)
  PROVE  Own(u) /\ StepsLeft(u)' < StepsLeft(u)
<1> USE DEF Goto, Own, StepsLeft, Phase
<1>0. /\ TypeOK /\ LoopsOf(u) /\ SamplerOf(u) /\ CollectorCount \in Nat
      /\ lo[u] \in 1 .. CollectorCount + 1 /\ hi[u] \in 1 .. CollectorCount + 1
  BY CountAssumption DEF IndInv, TypeOK, Loops, SamplerFollowsHandle
<1>1. CASE Check(u) BY <1>0, <1>1 DEF Check, TypeOK, LoopsOf, Full
<1>2. CASE Register(u) BY <1>0, <1>2 DEF Register, TypeOK, Ids
<1>3. CASE RegisterFails(u) BY <1>0, <1>3 DEF RegisterFails, TypeOK, LoopsOf, Ids
<1>4. CASE Add(u) BY <1>0, <1>4 DEF Add, TypeOK
<1>5. CASE Undo(u) \/ Unregister(u) BY <1>0, <1>5 DEF Undo, Unregister, TypeOK
<1>6. CASE Refuse(u) \/ Closed(u) BY <1>0, <1>6 DEF Refuse, Closed, TypeOK
<1>7. CASE SetObserved(u) \/ Remove(u) BY <1>0, <1>7 DEF SetObserved, Remove, TypeOK
<1>8. CASE ClearObserved(u) BY <1>0, <1>8 DEF ClearObserved, TypeOK, LoopsOf, Full
<1>9. CASE StartSampler(u) \/ Stop(u)
  BY <1>0, <1>9 DEF StartSampler, Stop, TypeOK, SamplerOf, Closing
<1>10. CASE SamplerExits(u) BY <1>0, <1>10 DEF SamplerExits, TypeOK
<1> QED BY <1>1, <1>2, <1>3, <1>4, <1>5, <1>6, <1>7, <1>8, <1>9, <1>10 DEF Enable, Close

(* All users together take at most 2 * CollectorCount + 9 steps each: the  *)
(* safety half of SamplerStops and of every EnableMetrics and Close.       *)
THEOREM UsersRunOut == Spec => []StepsBounded /\ StepsUsedUp
<1>1. IndInv /\ SamplerFollowsHandle => StepsBounded BY StepsInBounds
<1>2. IndInv /\ SamplerFollowsHandle /\ [Next]_vars => [UsesUp]_vars
  <2> SUFFICES ASSUME IndInv, SamplerFollowsHandle, Next, ~UNCHANGED vars PROVE UsesUp
    OBVIOUS
  <2>1. PICK u \in Users : Check(u) \/ Enable(u) \/ Stop(u) \/ Close(u) \/ SamplerExits(u)
    BY DEF Next, Finished
  <2>2. Own(u) /\ StepsLeft(u)' < StepsLeft(u) BY <2>1, OwnStepLowers
  <2>3. \A v \in Users \ {u} : StepsLeft(v)' = StepsLeft(v)
    BY <2>2 DEF Own, StepsLeft, Phase
  <2> QED BY <2>2, <2>3 DEF UsesUp
<1> QED BY <1>1, <1>2, Inductive, SamplerAlwaysFollows, PTL DEF Spec, StepsUsedUp
=============================================================================
