------------------------- MODULE TransactionProofs -------------------------
(* Proofs about Transaction for any sets of calls and connections.         *)
EXTENDS Transaction, TLAPS

(* The call holds a connection, its pgx.Tx is not resolved yet.            *)
Active == {"begin", "fn", "rbctx", "rollback", "commit",
           "manual", "txcommit", "txrollback"}

Early == {"start", "begin", "fn", "manual"}

(* Which connection and which pgx.Tx a call has, by where it is.           *)
ShapeOf(c) ==
  /\ pc[c] = "start" => held[c] = NoConn /\ ~closed[c]
  /\ pc[c] \in {"start", "begin"} => tx[c] = "none"
  /\ pc[c] \in Active => held[c] # NoConn /\ ~closed[c]
  /\ pc[c] \in {"postcommit", "leave"} => closed[c]
  /\ pc[c] = "close" => held[c] # NoConn
  /\ pc[c] = "returned" => held[c] = NoConn
  /\ pc[c] \in {"postcommit", "unwind", "leave"} =>
       (held[c] = NoConn <=> c \in DBCalls /\ closed[c])
  /\ done[c] => closed[c]
  /\ c \in DBCalls => pc[c] # "close"
  /\ pc[c] \in {"manual", "txcommit", "txrollback"} => c \in ManualCalls

(* What the server did agrees with what the body asked for.                *)
OutcomeOf(c) ==
  /\ pc[c] \in Early => vote[c] = "undecided" /\ ret[c] = "none"
  /\ pc[c] \in {"commit", "txcommit"} => vote[c] = "commit" /\ ret[c] = "none"
  /\ pc[c] \notin Early \cup {"commit", "txcommit", "txrollback"} => ret[c] # "none"
  /\ ~closed[c] => tx[c] \notin {"committed", "indoubt"}
  /\ tx[c] \in {"committed", "indoubt"} => vote[c] = "commit"
  /\ ret[c] = "nil" => tx[c] = "committed"

Total(c) == rec[c]["commit"] + rec[c]["rollback"] + rec[c]["panic"]

(* What has been counted for a managed call, by where it is.               *)
CountOf(c) ==
  /\ done[c] => pc[c] \in {"unwind", "leave", "close", "returned"}
  /\ pc[c] \notin {"start", "begin", "close", "returned"} => tx[c] # "none"
  /\ pc[c] \in {"start", "begin", "fn", "rbctx", "rollback", "commit"} =>
       Total(c) = 0
  /\ pc[c] = "postcommit" => Total(c) = 1
  /\ pc[c] = "unwind" => Total(c) = IF done[c] THEN 1 ELSE 0
  /\ pc[c] \in {"leave", "close", "returned"} =>
       Total(c) = IF tx[c] = "none" THEN 0 ELSE 1
  /\ rec[c]["commit"] = 1 <=> ret[c] = "nil"
  /\ ret[c] # "nil" => rec[c]["commit"] = 0
  /\ pc[c] = "rbctx" \/ pc[c] = "rollback" \/ pc[c] = "postcommit" => ret[c] = "error"
  /\ pc[c] = "unwind" => ret[c] # "none" /\ (ret[c] = "nil" => done[c])

Shape == \A c \in Calls : ShapeOf(c)
Outcome == \A c \in Calls : OutcomeOf(c)
Count == \A c \in Calls \ ManualCalls : CountOf(c)

Pool ==
  /\ \A k \in Conns : k \notin idle <=> \E c \in Calls : held[c] = k
  /\ \A c, d \in Calls : held[c] = held[d] /\ held[c] # NoConn => c = d

IndInv == TypeOK /\ Shape /\ Pool /\ Outcome /\ Count

-----------------------------------------------------------------------------

(* One more increment of one counter of one call.                          *)
LEMMA RecordFacts ==
  ASSUME TypeOK, NEW c \in Calls, NEW r \in Results, Record(c, r)
  PROVE  /\ rec' \in [Calls -> [Results -> Nat]]
         /\ rec'[c][r] = rec[c][r] + 1
         /\ \A q \in Results \ {r} : rec'[c][q] = rec[c][q]
         /\ \A d \in Calls \ {c} : rec'[d] = rec[d]
BY DEF TypeOK, Record

LEMMA CompensateType ==
  ASSUME TypeOK, NEW c \in Calls, Compensate(c)
  PROVE  comp' \in [Calls -> Nat]
BY DEF TypeOK, Compensate

DriverTypes ==
  /\ closed \in [Calls -> BOOLEAN]
  /\ held \in [Calls -> Conns \cup {NoConn}]
  /\ idle \in SUBSET Conns
  /\ link \in [Conns -> {"up", "broken", "closed"}]
  /\ tx \in [Calls -> TxStates]

(* A step of the driver for call c leaves the other calls alone.           *)
OthersKept(c) ==
  \A d \in Calls \ {c} :
    closed'[d] = closed[d] /\ held'[d] = held[d] /\ tx'[d] = tx[d]

(* Resolving a pgx.Tx gives back what the call held and nothing else.      *)
LEMMA SettleEffect ==
  ASSUME TypeOK, Pool, NEW c \in Calls, held[c] \in Conns,
         NEW l \in {"up", "closed"}, Settle(c, l),
         tx' \in [Calls -> TxStates], \A d \in Calls \ {c} : tx'[d] = tx[d]
  PROVE  DriverTypes' /\ Pool' /\ OthersKept(c)
<1> USE ConnsAssumption
<1>1. closed' \in [Calls -> BOOLEAN] /\ held' \in [Calls -> Conns \cup {NoConn}]
  BY DEF TypeOK, Settle
<1>2. idle' \in SUBSET Conns
  BY DEF TypeOK, Settle
<1>3. Returned(l) \in {"up", "broken", "closed"}
  BY DEF Returned
<1>4. link' \in [Conns -> {"up", "broken", "closed"}]
  BY <1>3 DEF TypeOK, Settle
<1>5. Pool'
  <2>1. CASE c \in DBCalls
    <3>1. held' = [held EXCEPT ![c] = NoConn] /\ idle' = idle \cup {held[c]}
      BY <2>1 DEF Settle
    <3>2. ASSUME NEW k \in Conns
          PROVE  k \notin idle' <=> \E d \in Calls : held'[d] = k
      BY <3>1 DEF TypeOK, Pool
    <3>3. ASSUME NEW d \in Calls, NEW e \in Calls, held'[d] = held'[e],
                 held'[d] # NoConn
          PROVE  d = e
      BY <3>1, <3>3 DEF TypeOK, Pool
    <3> QED BY <3>2, <3>3 DEF Pool
  <2>2. CASE c \notin DBCalls
    BY <2>2 DEF Settle, Pool
  <2> QED BY <2>1, <2>2
<1>6. OthersKept(c)
  BY DEF TypeOK, Settle, OthersKept
<1> QED BY <1>1, <1>2, <1>4, <1>5, <1>6 DEF DriverTypes

LEMMA CommitEffect ==
  ASSUME TypeOK, Pool, NEW c \in Calls, held[c] \in Conns,
         NEW ok, PgxCommit(c, ok)
  PROVE  DriverTypes' /\ Pool' /\ OthersKept(c)
<1>1. \/ UNCHANGED tx
      \/ \E t \in TxStates : tx' = [tx EXCEPT ![c] = t]
  BY DEF TypeOK, PgxCommit, TxStates
<1>2. tx' \in [Calls -> TxStates] /\ \A d \in Calls \ {c} : tx'[d] = tx[d]
  BY <1>1 DEF TypeOK
<1>3. \E l \in {"up", "closed"} : Settle(c, l)
  BY DEF PgxCommit
<1> QED BY <1>2, <1>3, SettleEffect

LEMMA RollbackEffect ==
  ASSUME TypeOK, Pool, NEW c \in Calls, closed[c] \/ held[c] \in Conns,
         NEW usable, NEW ok, PgxRollback(c, usable, ok)
  PROVE  DriverTypes' /\ Pool' /\ OthersKept(c)
<1>1. CASE closed[c]
  <2>1. UNCHANGED driver
    BY <1>1 DEF PgxRollback
  <2> QED BY <2>1 DEF driver, TypeOK, DriverTypes, Pool, OthersKept
<1>2. CASE ~closed[c]
  <2>1. \/ UNCHANGED tx
        \/ tx' = [tx EXCEPT ![c] = "rolledback"]
    BY <1>2 DEF PgxRollback
  <2>2. tx' \in [Calls -> TxStates] /\ \A d \in Calls \ {c} : tx'[d] = tx[d]
    BY <2>1 DEF TypeOK, TxStates
  <2>3. \E l \in {"up", "closed"} : Settle(c, l)
    BY <1>2 DEF PgxRollback
  <2> QED BY <1>2, <2>2, <2>3, SettleEffect
<1> QED BY <1>1, <1>2

LEMMA AcquireInd ==
  ASSUME IndInv, NEW c \in Calls, Acquire(c)
  PROVE  IndInv'
<1> USE CallsAssumption, ConnsAssumption DEF IndInv, Calls, Acquire, Goto
<1> PICK k \in idle : /\ held' = [held EXCEPT ![c] = k]
                      /\ idle' = idle \ {k}
  OBVIOUS
<1>k. k \in Conns /\ k # NoConn
  BY DEF TypeOK
<1>1. TypeOK' BY DEF TypeOK, PCs, TxStates, Results, Shape, ShapeOf, Active
<1>2. Shape'
  <2> SUFFICES ASSUME NEW d \in Calls PROVE ShapeOf(d)'
    BY DEF Shape
  <2>1. CASE d = c
    BY <1>k, <2>1 DEF TypeOK, Shape, ShapeOf, Active
  <2>2. CASE d # c
    BY <2>2 DEF TypeOK, Shape, ShapeOf
  <2> QED BY <2>1, <2>2
<1>3. Pool' BY DEF TypeOK, Shape, ShapeOf, Pool, Active
<1>4. Outcome' BY DEF TypeOK, Shape, ShapeOf, Outcome, OutcomeOf, Active, Early
<1>5. Count'
  <2> SUFFICES ASSUME NEW d \in Calls \ ManualCalls PROVE CountOf(d)'
    BY DEF Count
  <2>1. CASE d = c
    BY <2>1 DEF TypeOK, Results, Shape, ShapeOf, Outcome, OutcomeOf, Count, CountOf, Total, Active, Early
  <2>2. CASE d # c
    BY <2>2 DEF TypeOK, Results, Count, CountOf, Total
  <2> QED BY <2>1, <2>2
<1> QED BY <1>1, <1>2, <1>3, <1>4, <1>5

LEMMA AcquireFailsInd ==
  ASSUME IndInv, NEW c \in Calls, AcquireFails(c)
  PROVE  IndInv'
<1> USE CallsAssumption, ConnsAssumption DEF IndInv, Calls, AcquireFails, Goto, Answer, driver
<1>1. TypeOK' BY DEF TypeOK, PCs, TxStates, Results, Shape, ShapeOf, Active
<1>2. Shape' BY DEF TypeOK, PCs, Shape, ShapeOf, Active, Results
<1>3. Pool' BY DEF TypeOK, Shape, ShapeOf, Pool, Active
<1>4. Outcome' BY DEF TypeOK, Shape, ShapeOf, Outcome, OutcomeOf, Active, Early
<1>5. Count' BY DEF TypeOK, Results, Shape, ShapeOf, Outcome, OutcomeOf, Count, CountOf, Total, Active, Early
<1> QED BY <1>1, <1>2, <1>3, <1>4, <1>5

LEMMA RejectLevelInd ==
  ASSUME IndInv, NEW c \in Calls, RejectLevel(c)
  PROVE  IndInv'
<1> USE CallsAssumption, ConnsAssumption DEF IndInv, Calls, RejectLevel, Goto, Answer, After, driver
<1>1. TypeOK' BY DEF TypeOK, PCs, TxStates, Results, Shape, ShapeOf, Active
<1>2. Shape' BY DEF TypeOK, PCs, Shape, ShapeOf, Active, Results
<1>3. Pool' BY DEF TypeOK, Shape, ShapeOf, Pool, Active
<1>4. Outcome' BY DEF TypeOK, Shape, ShapeOf, Outcome, OutcomeOf, Active, Early
<1>5. Count' BY DEF TypeOK, Results, Shape, ShapeOf, Outcome, OutcomeOf, Count, CountOf, Total, Active, Early
<1> QED BY <1>1, <1>2, <1>3, <1>4, <1>5

LEMMA BeginInd ==
  ASSUME IndInv, NEW c \in Calls, Begin(c)
  PROVE  IndInv'
<1> USE CallsAssumption, ConnsAssumption DEF IndInv, Calls, Begin, Goto, Reachable
<1>1. TypeOK' BY DEF TypeOK, PCs, TxStates, Results, Shape, ShapeOf, Active
<1>2. Shape' BY DEF TypeOK, PCs, Shape, ShapeOf, Active, Results
<1>3. Pool' BY DEF TypeOK, Shape, ShapeOf, Pool, Active
<1>4. Outcome' BY DEF TypeOK, Shape, ShapeOf, Outcome, OutcomeOf, Active, Early
<1>5. Count' BY DEF TypeOK, Results, Shape, ShapeOf, Outcome, OutcomeOf, Count, CountOf, Total, Active, Early
<1> QED BY <1>1, <1>2, <1>3, <1>4, <1>5

LEMMA BeginFailsInd ==
  ASSUME IndInv, NEW c \in Calls, BeginFails(c)
  PROVE  IndInv'
<1> USE CallsAssumption, ConnsAssumption DEF IndInv, Calls, BeginFails, Settle, Returned, Goto, Answer, After
<1>1. TypeOK' BY DEF TypeOK, PCs, TxStates, Results, Shape, ShapeOf, Active
<1>2. Shape' BY DEF TypeOK, PCs, Shape, ShapeOf, Active, Results
<1>3. Pool'
  <2>1. held[c] \in Conns /\ UNCHANGED tx /\ tx' \in [Calls -> TxStates]
    BY DEF TypeOK, Shape, ShapeOf, Active
  <2> QED BY <2>1, SettleEffect DEF BeginFails
<1>4. Outcome' BY DEF TypeOK, Shape, ShapeOf, Outcome, OutcomeOf, Active, Early
<1>5. Count' BY DEF TypeOK, Results, Shape, ShapeOf, Outcome, OutcomeOf, Count, CountOf, Total, Active, Early
<1> QED BY <1>1, <1>2, <1>3, <1>4, <1>5

LEMMA StatementErrorInd ==
  ASSUME IndInv, NEW c \in Calls, StatementError(c)
  PROVE  IndInv'
<1> USE CallsAssumption, ConnsAssumption DEF IndInv, Calls, StatementError, InBody, client
<1>1. TypeOK' BY DEF TypeOK, PCs, TxStates, Results, Shape, ShapeOf, Active
<1>2. Shape' BY DEF TypeOK, PCs, Shape, ShapeOf, Active, Results
<1>3. Pool' BY DEF TypeOK, Shape, ShapeOf, Pool, Active
<1>4. Outcome' BY DEF TypeOK, Shape, ShapeOf, Outcome, OutcomeOf, Active, Early
<1>5. Count' BY DEF TypeOK, Results, Shape, ShapeOf, Outcome, OutcomeOf, Count, CountOf, Total, Active, Early
<1> QED BY <1>1, <1>2, <1>3, <1>4, <1>5

LEMMA StatementLostInd ==
  ASSUME IndInv, NEW c \in Calls, StatementLost(c)
  PROVE  IndInv'
<1> USE CallsAssumption, ConnsAssumption DEF IndInv, Calls, StatementLost, InBody, client
<1>1. TypeOK' BY DEF TypeOK, PCs, TxStates, Results, Shape, ShapeOf, Active
<1>2. Shape' BY DEF TypeOK, PCs, Shape, ShapeOf, Active, Results
<1>3. Pool' BY DEF TypeOK, Shape, ShapeOf, Pool, Active
<1>4. Outcome' BY DEF TypeOK, Shape, ShapeOf, Outcome, OutcomeOf, Active, Early
<1>5. Count' BY DEF TypeOK, Results, Shape, ShapeOf, Outcome, OutcomeOf, Count, CountOf, Total, Active, Early
<1> QED BY <1>1, <1>2, <1>3, <1>4, <1>5

LEMMA FnNilInd ==
  ASSUME IndInv, NEW c \in Calls, FnNil(c)
  PROVE  IndInv'
<1> USE CallsAssumption, ConnsAssumption DEF IndInv, Calls, FnNil, Goto, driver
<1>1. TypeOK' BY DEF TypeOK, PCs, TxStates, Results, Shape, ShapeOf, Active
<1>2. Shape' BY DEF TypeOK, PCs, Shape, ShapeOf, Active, Results
<1>3. Pool' BY DEF TypeOK, Shape, ShapeOf, Pool, Active
<1>4. Outcome' BY DEF TypeOK, Shape, ShapeOf, Outcome, OutcomeOf, Active, Early
<1>5. Count' BY DEF TypeOK, Results, Shape, ShapeOf, Outcome, OutcomeOf, Count, CountOf, Total, Active, Early
<1> QED BY <1>1, <1>2, <1>3, <1>4, <1>5

LEMMA FnErrorInd ==
  ASSUME IndInv, NEW c \in Calls, FnError(c)
  PROVE  IndInv'
<1> USE CallsAssumption, ConnsAssumption DEF IndInv, Calls, FnError, Goto, Answer, driver
<1>1. TypeOK' BY DEF TypeOK, PCs, TxStates, Results, Shape, ShapeOf, Active
<1>2. Shape' BY DEF TypeOK, PCs, Shape, ShapeOf, Active, Results
<1>3. Pool' BY DEF TypeOK, Shape, ShapeOf, Pool, Active
<1>4. Outcome' BY DEF TypeOK, Shape, ShapeOf, Outcome, OutcomeOf, Active, Early
<1>5. Count' BY DEF TypeOK, Results, Shape, ShapeOf, Outcome, OutcomeOf, Count, CountOf, Total, Active, Early
<1> QED BY <1>1, <1>2, <1>3, <1>4, <1>5

LEMMA FnPanicInd ==
  ASSUME IndInv, NEW c \in Calls, FnPanic(c)
  PROVE  IndInv'
<1> USE CallsAssumption, ConnsAssumption DEF IndInv, Calls, FnPanic, Goto, Answer, driver
<1>1. TypeOK' BY DEF TypeOK, PCs, TxStates, Results, Shape, ShapeOf, Active
<1>2. Shape' BY DEF TypeOK, PCs, Shape, ShapeOf, Active, Results
<1>3. Pool' BY DEF TypeOK, Shape, ShapeOf, Pool, Active
<1>4. Outcome' BY DEF TypeOK, Shape, ShapeOf, Outcome, OutcomeOf, Active, Early
<1>5. Count'
  <2> SUFFICES ASSUME NEW d \in Calls \ ManualCalls PROVE CountOf(d)'
    BY DEF Count
  <2>1. CASE d = c
    BY <2>1 DEF TypeOK, Results, Shape, ShapeOf, Outcome, OutcomeOf, Count, CountOf, Total, Active, Early
  <2>2. CASE d # c
    BY <2>2 DEF TypeOK, Results, Count, CountOf, Total
  <2> QED BY <2>1, <2>2
<1> QED BY <1>1, <1>2, <1>3, <1>4, <1>5

LEMMA RollbackCtxInd ==
  ASSUME IndInv, NEW c \in Calls, RollbackCtx(c)
  PROVE  IndInv'
<1> USE CallsAssumption, ConnsAssumption DEF IndInv, Calls, RollbackCtx, Goto, driver
<1>1. TypeOK' BY DEF TypeOK, PCs, TxStates, Results, Shape, ShapeOf, Active
<1>2. Shape' BY DEF TypeOK, PCs, Shape, ShapeOf, Active, Results
<1>3. Pool' BY DEF TypeOK, Shape, ShapeOf, Pool, Active
<1>4. Outcome' BY DEF TypeOK, Shape, ShapeOf, Outcome, OutcomeOf, Active, Early
<1>5. Count'
  <2> SUFFICES ASSUME NEW d \in Calls \ ManualCalls PROVE CountOf(d)'
    BY DEF Count
  <2>1. CASE d = c
    BY <2>1 DEF TypeOK, Results, Shape, ShapeOf, Outcome, OutcomeOf, Count, CountOf, Total, Active, Early
  <2>2. CASE d # c
    BY <2>2 DEF TypeOK, Results, Count, CountOf, Total
  <2> QED BY <2>1, <2>2
<1> QED BY <1>1, <1>2, <1>3, <1>4, <1>5

LEMMA RollbackInd ==
  ASSUME IndInv, NEW c \in Calls, Rollback(c)
  PROVE  IndInv'
<1> USE CallsAssumption, ConnsAssumption DEF IndInv, Calls, Rollback, SetDone, Goto, driver
<1>e. DriverTypes' /\ Pool' /\ OthersKept(c)
  <2>1. held[c] \in Conns
    BY DEF TypeOK, Shape, ShapeOf, Active
  <2> QED BY <2>1, RollbackEffect DEF Rollback
<1>r. rec' \in [Calls -> [Results -> Nat]]
  BY RecordFacts DEF TypeOK, Results
<1>1. TypeOK'
  BY <1>e, <1>r DEF TypeOK, DriverTypes, PCs
<1>2. Shape'
  BY DEF PgxRollback, Settle, TypeOK, PCs, Shape, ShapeOf, Active
<1>3. Pool'
  BY <1>e
<1>4. Outcome'
  BY DEF PgxRollback, Settle, TypeOK, Shape, ShapeOf, Outcome, OutcomeOf, Active, Early
<1>5. Count'
  <2> SUFFICES ASSUME NEW d \in Calls \ ManualCalls PROVE CountOf(d)'
    BY DEF Count
  <2>1. CASE d = c
    BY <2>1, RecordFacts DEF PgxRollback, Settle, TypeOK, Results, Shape, ShapeOf, Outcome, OutcomeOf, Count, CountOf, Total, Active, Early
  <2>2. CASE d # c
    <3>1. rec'[d] = rec[d]
      BY <2>2, RecordFacts DEF TypeOK, Results
    <3>2. UNCHANGED <<pc[d], done[d], ret[d], tx[d]>>
      BY <1>e, <2>2 DEF TypeOK, OthersKept
    <3> QED BY <3>1, <3>2 DEF Count, CountOf, Total
  <2> QED BY <2>1, <2>2
<1> QED BY <1>1, <1>2, <1>3, <1>4, <1>5

LEMMA CommitInd ==
  ASSUME IndInv, NEW c \in Calls, Commit(c)
  PROVE  IndInv'
<1> USE CallsAssumption, ConnsAssumption DEF IndInv, Calls, Commit, SetDone, Answer, Goto
<1>e. DriverTypes' /\ Pool' /\ OthersKept(c)
  <2>1. held[c] \in Conns
    BY DEF TypeOK, Shape, ShapeOf, Active
  <2> QED BY <2>1, CommitEffect DEF Commit
<1>r. rec' \in [Calls -> [Results -> Nat]]
  BY RecordFacts DEF TypeOK, Results
<1>1. TypeOK'
  <2> HIDE DEF Calls
  <2>1. pc' \in [Calls -> PCs] /\ UNCHANGED <<base, rctx, vote>>
    BY DEF TypeOK, PCs
  <2>2. done' \in [Calls -> BOOLEAN]
    BY DEF TypeOK
  <2>3. ret' \in [Calls -> {"none", "nil", "error", "panic"}]
    BY DEF TypeOK
  <2>4. comp' \in [Calls -> Nat]
    BY CompensateType DEF TypeOK
  <2> QED BY <1>e, <1>r, <2>1, <2>2, <2>3, <2>4 DEF TypeOK, DriverTypes
<1>2. Shape'
  BY DEF PgxCommit, Settle, TypeOK, PCs, Shape, ShapeOf, Active
<1>3. Pool'
  BY <1>e
<1>4. Outcome'
  BY DEF PgxCommit, Settle, TypeOK, Shape, ShapeOf, Outcome, OutcomeOf, Active, Early
<1>5. Count'
  <2> SUFFICES ASSUME NEW d \in Calls \ ManualCalls PROVE CountOf(d)'
    BY DEF Count
  <2>1. CASE d = c
    <3>1. CASE PgxCommit(c, TRUE) /\ SetDone(c) /\ Record(c, "commit")
                 /\ Answer(c, "nil") /\ Goto(c, "unwind")
      BY <2>1, <3>1, RecordFacts DEF PgxCommit, Settle, TypeOK, Results, Shape, ShapeOf, Outcome, OutcomeOf, Count, CountOf, Total, Active, Early
    <3>2. CASE PgxCommit(c, FALSE) /\ UNCHANGED done /\ Record(c, "rollback")
                 /\ Answer(c, "error") /\ Goto(c, "postcommit")
      BY <2>1, <3>2, RecordFacts DEF PgxCommit, Settle, TypeOK, Results, Shape, ShapeOf, Outcome, OutcomeOf, Count, CountOf, Total, Active, Early
    <3> QED BY <3>1, <3>2
  <2>2. CASE d # c
    <3>1. rec'[d] = rec[d]
      BY <2>2, RecordFacts DEF TypeOK, Results
    <3>2. UNCHANGED <<pc[d], done[d], ret[d], tx[d]>>
      BY <1>e, <2>2 DEF TypeOK, OthersKept
    <3> QED BY <3>1, <3>2 DEF Count, CountOf, Total
  <2> QED BY <2>1, <2>2
<1> QED BY <1>1, <1>2, <1>3, <1>4, <1>5

LEMMA PostCommitRollbackInd ==
  ASSUME IndInv, NEW c \in Calls, PostCommitRollback(c)
  PROVE  IndInv'
<1> USE CallsAssumption, ConnsAssumption DEF IndInv, Calls, PostCommitRollback, PgxRollback, SetDone, Goto, driver
<1>1. TypeOK' BY DEF TypeOK, PCs, TxStates, Results, Shape, ShapeOf, Active
<1>2. Shape' BY DEF TypeOK, PCs, Shape, ShapeOf, Active, Results
<1>3. Pool' BY DEF TypeOK, Shape, ShapeOf, Pool, Active
<1>4. Outcome' BY DEF TypeOK, Shape, ShapeOf, Outcome, OutcomeOf, Active, Early
<1>5. Count' BY DEF TypeOK, Results, Shape, ShapeOf, Outcome, OutcomeOf, Count, CountOf, Total, Active, Early
<1> QED BY <1>1, <1>2, <1>3, <1>4, <1>5

LEMMA UnwindInd ==
  ASSUME IndInv, NEW c \in Calls, Unwind(c)
  PROVE  IndInv'
<1> USE CallsAssumption, ConnsAssumption DEF IndInv, Calls, Unwind, Goto, driver
<1>e. DriverTypes' /\ Pool' /\ OthersKept(c)
  <2>1. CASE done[c]
    BY <2>1 DEF TypeOK, DriverTypes, Pool, OthersKept
  <2>2. CASE ~done[c]
    <3>1. closed[c] \/ held[c] \in Conns
      BY DEF TypeOK, Shape, ShapeOf
    <3> QED BY <2>2, <3>1, RollbackEffect
  <2> QED BY <2>1, <2>2
<1>r. rec' \in [Calls -> [Results -> Nat]]
  BY RecordFacts DEF TypeOK, Results
<1>1. TypeOK'
  <2> HIDE DEF Calls
  <2>1. pc' \in [Calls -> PCs] /\ UNCHANGED <<base, rctx, vote>>
    BY DEF TypeOK, PCs
  <2>2. done' \in [Calls -> BOOLEAN]
    BY DEF TypeOK
  <2>3. ret' \in [Calls -> {"none", "nil", "error", "panic"}]
    BY DEF TypeOK
  <2>4. comp' \in [Calls -> Nat]
    BY CompensateType DEF TypeOK
  <2> QED BY <1>e, <1>r, <2>1, <2>2, <2>3, <2>4 DEF TypeOK, DriverTypes
<1>2. Shape'
  BY DEF PgxRollback, Settle, TypeOK, PCs, Shape, ShapeOf, Active
<1>3. Pool'
  BY <1>e
<1>4. Outcome'
  BY DEF PgxRollback, Settle, TypeOK, Shape, ShapeOf, Outcome, OutcomeOf, Active, Early
<1>5. Count'
  <2> SUFFICES ASSUME NEW d \in Calls \ ManualCalls PROVE CountOf(d)'
    BY DEF Count
  <2>1. CASE d = c
    BY <2>1, RecordFacts DEF PgxRollback, Settle, TypeOK, Results, Shape, ShapeOf, Outcome, OutcomeOf, Count, CountOf, Total, Active, Early
  <2>2. CASE d # c
    <3>1. rec'[d] = rec[d]
      BY <2>2, RecordFacts DEF TypeOK, Results
    <3>2. UNCHANGED <<pc[d], done[d], ret[d], tx[d]>>
      BY <1>e, <2>2 DEF TypeOK, OthersKept
    <3> QED BY <3>1, <3>2 DEF Count, CountOf, Total
  <2> QED BY <2>1, <2>2
<1> QED BY <1>1, <1>2, <1>3, <1>4, <1>5

LEMMA LeaveInd ==
  ASSUME IndInv, NEW c \in Calls, Leave(c)
  PROVE  IndInv'
<1> USE CallsAssumption, ConnsAssumption DEF IndInv, Calls, Leave, After, Goto, driver
<1>1. TypeOK' BY DEF TypeOK, PCs, TxStates, Results, Shape, ShapeOf, Active
<1>2. Shape' BY DEF TypeOK, PCs, Shape, ShapeOf, Active, Results
<1>3. Pool' BY DEF TypeOK, Shape, ShapeOf, Pool, Active
<1>4. Outcome' BY DEF TypeOK, Shape, ShapeOf, Outcome, OutcomeOf, Active, Early
<1>5. Count' BY DEF TypeOK, Results, Shape, ShapeOf, Outcome, OutcomeOf, Count, CountOf, Total, Active, Early
<1> QED BY <1>1, <1>2, <1>3, <1>4, <1>5

LEMMA AbandonInd ==
  ASSUME IndInv, NEW c \in Calls, Abandon(c)
  PROVE  IndInv'
<1> USE CallsAssumption, ConnsAssumption DEF IndInv, Calls, Abandon, Answer, Goto, driver
<1>1. TypeOK' BY DEF TypeOK, PCs, TxStates, Results, Shape, ShapeOf, Active
<1>2. Shape' BY DEF TypeOK, PCs, Shape, ShapeOf, Active, Results
<1>3. Pool' BY DEF TypeOK, Shape, ShapeOf, Pool, Active
<1>4. Outcome' BY DEF TypeOK, Shape, ShapeOf, Outcome, OutcomeOf, Active, Early
<1>5. Count' BY DEF TypeOK, Results, Shape, ShapeOf, Outcome, OutcomeOf, Count, CountOf, Total, Active, Early
<1> QED BY <1>1, <1>2, <1>3, <1>4, <1>5

LEMMA TxCommitInd ==
  ASSUME IndInv, NEW c \in Calls, TxCommit(c)
  PROVE  IndInv'
<1> USE CallsAssumption, ConnsAssumption DEF IndInv, Calls, TxCommit, Answer, Goto, driver
<1>e. DriverTypes' /\ Pool' /\ OthersKept(c)
  <2>1. held[c] \in Conns
    BY DEF TypeOK, Shape, ShapeOf, Active
  <2> QED BY <2>1, CommitEffect DEF TxCommit
<1>1. TypeOK'
  BY <1>e DEF TypeOK, DriverTypes, PCs
<1>2. Shape'
  BY DEF PgxCommit, Settle, TypeOK, PCs, Shape, ShapeOf, Active
<1>3. Pool'
  BY <1>e
<1>4. Outcome'
  BY DEF PgxCommit, Settle, TypeOK, Shape, ShapeOf, Outcome, OutcomeOf, Active, Early
<1>5. Count'
  BY <1>e DEF OthersKept, TypeOK, Count, CountOf, Total, Shape, ShapeOf
<1> QED BY <1>1, <1>2, <1>3, <1>4, <1>5

LEMMA TxRollbackInd ==
  ASSUME IndInv, NEW c \in Calls, TxRollback(c)
  PROVE  IndInv'
<1> USE CallsAssumption, ConnsAssumption DEF IndInv, Calls, TxRollback, Answer, Goto, driver
<1>e. DriverTypes' /\ Pool' /\ OthersKept(c)
  <2>1. held[c] \in Conns
    BY DEF TypeOK, Shape, ShapeOf, Active
  <2> QED BY <2>1, RollbackEffect DEF TxRollback
<1>1. TypeOK'
  BY <1>e DEF TypeOK, DriverTypes, PCs
<1>2. Shape'
  BY DEF PgxRollback, Settle, TypeOK, PCs, Shape, ShapeOf, Active
<1>3. Pool'
  BY <1>e
<1>4. Outcome'
  BY DEF PgxRollback, Settle, TypeOK, Shape, ShapeOf, Outcome, OutcomeOf, Active, Early
<1>5. Count'
  BY <1>e DEF OthersKept, TypeOK, Count, CountOf, Total, Shape, ShapeOf
<1> QED BY <1>1, <1>2, <1>3, <1>4, <1>5

LEMMA CloseInd ==
  ASSUME IndInv, NEW c \in Calls, Close(c)
  PROVE  IndInv'
<1> USE CallsAssumption, ConnsAssumption DEF IndInv, Calls, Close, Returned, Goto
<1>1. TypeOK' BY DEF TypeOK, PCs, TxStates, Results, Shape, ShapeOf, Active
<1>2. Shape' BY DEF TypeOK, PCs, Shape, ShapeOf, Active, Results
<1>3. Pool' BY DEF TypeOK, Shape, ShapeOf, Pool, Active
<1>4. Outcome' BY DEF TypeOK, Shape, ShapeOf, Outcome, OutcomeOf, Active, Early
<1>5. Count' BY DEF TypeOK, Results, Shape, ShapeOf, Outcome, OutcomeOf, Count, CountOf, Total, Active, Early
<1> QED BY <1>1, <1>2, <1>3, <1>4, <1>5

LEMMA ServerAbortInd ==
  ASSUME IndInv, NEW c \in Calls, ServerAbort(c)
  PROVE  IndInv'
<1> USE CallsAssumption, ConnsAssumption DEF IndInv, Calls, ServerAbort, client
<1>1. TypeOK' BY DEF TypeOK, PCs, TxStates, Results, Shape, ShapeOf, Active
<1>2. Shape' BY DEF TypeOK, PCs, Shape, ShapeOf, Active, Results
<1>3. Pool' BY DEF TypeOK, Shape, ShapeOf, Pool, Active
<1>4. Outcome' BY DEF TypeOK, Shape, ShapeOf, Outcome, OutcomeOf, Active, Early
<1>5. Count' BY DEF TypeOK, Results, Shape, ShapeOf, Outcome, OutcomeOf, Count, CountOf, Total, Active, Early
<1> QED BY <1>1, <1>2, <1>3, <1>4, <1>5

LEMMA ServerResolveInd ==
  ASSUME IndInv, NEW c \in Calls, ServerResolve(c)
  PROVE  IndInv'
<1> USE CallsAssumption, ConnsAssumption DEF IndInv, Calls, ServerResolve, client
<1>1. TypeOK' BY DEF TypeOK, PCs, TxStates, Results, Shape, ShapeOf, Active
<1>2. Shape' BY DEF TypeOK, PCs, Shape, ShapeOf, Active, Results
<1>3. Pool' BY DEF TypeOK, Shape, ShapeOf, Pool, Active
<1>4. Outcome' BY DEF TypeOK, Shape, ShapeOf, Outcome, OutcomeOf, Active, Early
<1>5. Count' BY DEF TypeOK, Results, Shape, ShapeOf, Outcome, OutcomeOf, Count, CountOf, Total, Active, Early
<1> QED BY <1>1, <1>2, <1>3, <1>4, <1>5

LEMMA CancelBaseInd ==
  ASSUME IndInv, NEW c \in Calls, CancelBase(c)
  PROVE  IndInv'
<1> USE CallsAssumption, ConnsAssumption DEF IndInv, Calls, CancelBase, client, driver
<1>1. TypeOK' BY DEF TypeOK, PCs, TxStates, Results, Shape, ShapeOf, Active
<1>2. Shape' BY DEF TypeOK, PCs, Shape, ShapeOf, Active, Results
<1>3. Pool' BY DEF TypeOK, Shape, ShapeOf, Pool, Active
<1>4. Outcome' BY DEF TypeOK, Shape, ShapeOf, Outcome, OutcomeOf, Active, Early
<1>5. Count' BY DEF TypeOK, Results, Shape, ShapeOf, Outcome, OutcomeOf, Count, CountOf, Total, Active, Early
<1> QED BY <1>1, <1>2, <1>3, <1>4, <1>5

LEMMA DecideInd ==
  ASSUME IndInv, NEW c \in Calls, NEW v \in {"commit", "abort"}, Decide(c, v)
  PROVE  IndInv'
<1> USE CallsAssumption, ConnsAssumption DEF IndInv, Calls, Decide, Goto, driver
<1>1. TypeOK' BY DEF TypeOK, PCs, TxStates, Results, Shape, ShapeOf, Active
<1>2. Shape' BY DEF TypeOK, PCs, Shape, ShapeOf, Active, Results
<1>3. Pool' BY DEF TypeOK, Shape, ShapeOf, Pool, Active
<1>4. Outcome' BY DEF TypeOK, Shape, ShapeOf, Outcome, OutcomeOf, Active, Early
<1>5. Count' BY DEF TypeOK, Results, Shape, ShapeOf, Outcome, OutcomeOf, Count, CountOf, Total, Active, Early
<1> QED BY <1>1, <1>2, <1>3, <1>4, <1>5

LEMMA LinkDownInd ==
  ASSUME IndInv, NEW k \in Conns, LinkDown(k)
  PROVE  IndInv'
<1> USE DEF IndInv, LinkDown, client
<1>1. TypeOK' BY DEF TypeOK
<1>2. Shape' /\ Pool' /\ Outcome' /\ Count'
  BY DEF Shape, ShapeOf, Pool, Outcome, OutcomeOf, Count, CountOf, Total
<1> QED BY <1>1, <1>2

LEMMA StutterInd ==
  ASSUME IndInv, UNCHANGED vars
  PROVE  IndInv'
<1> USE DEF IndInv, vars, client, driver
<1>1. TypeOK' BY DEF TypeOK
<1>2. Shape' /\ Pool' /\ Outcome' /\ Count'
  BY DEF Shape, ShapeOf, Pool, Outcome, OutcomeOf, Count, CountOf, Total
<1> QED BY <1>1, <1>2

LEMMA InitInd ==
  ASSUME Init
  PROVE  IndInv
<1> USE ConnsAssumption DEF Init, IndInv
<1>1. TypeOK BY DEF TypeOK, PCs, TxStates, Results
<1>2. Shape BY DEF Shape, ShapeOf, Active
<1>3. Pool BY DEF Pool
<1>4. Outcome BY DEF Outcome, OutcomeOf, Early
<1>5. Count BY DEF Count, CountOf, Total, Results
<1> QED BY <1>1, <1>2, <1>3, <1>4, <1>5

LEMMA NextInd ==
  ASSUME IndInv, [Next]_vars
  PROVE  IndInv'
<1>1. ASSUME NEW c \in Calls, Step(c) PROVE IndInv'
  BY <1>1, AcquireFailsInd, BeginInd, BeginFailsInd, FnNilInd, FnErrorInd,
     FnPanicInd, RollbackCtxInd, RollbackInd, CommitInd, PostCommitRollbackInd,
     UnwindInd, LeaveInd, DecideInd, AbandonInd, TxCommitInd, TxRollbackInd,
     CloseInd DEF Step
<1>2. ASSUME NEW c \in Calls,
             \/ Acquire(c) \/ RejectLevel(c) \/ Server(c) \/ StatementError(c)
             \/ StatementLost(c) \/ CancelBase(c)
      PROVE  IndInv'
  BY <1>2, AcquireInd, RejectLevelInd, ServerAbortInd, ServerResolveInd,
     StatementErrorInd, StatementLostInd, CancelBaseInd DEF Server
<1>3. ASSUME NEW k \in Conns, LinkDown(k) PROVE IndInv'
  BY <1>3, LinkDownInd
<1>4. CASE Finished \/ UNCHANGED vars
  BY <1>4, StutterInd DEF Finished
<1> QED BY <1>1, <1>2, <1>3, <1>4 DEF Next

LEMMA Inductive == Spec => []IndInv
BY InitInd, NextInd, PTL DEF Spec

-----------------------------------------------------------------------------
(* Every variable keeps its type in every reachable state.                 *)
THEOREM TypeCorrect == Spec => []TypeOK
<1>1. IndInv => TypeOK BY DEF IndInv
<1> QED BY <1>1, Inductive, PTL

(* No path through runTransactional, Conn.Transactional or a manual        *)
(* transaction leaks a pooled connection or gives it back twice.           *)
THEOREM NeverLeaks == Spec => []NoConnectionLeak
<1>1. IndInv => NoConnectionLeak
  BY DEF IndInv, NoConnectionLeak, Pool, Shape, ShapeOf
<1> QED BY <1>1, Inductive, PTL

(* nil means committed, and a failed or panicking fn is never committed.   *)
THEOREM AlwaysAllOrNothing == Spec => []AllOrNothing
<1>1. IndInv => AllOrNothing
  BY DEF IndInv, AllOrNothing, Outcome, OutcomeOf
<1> QED BY <1>1, Inductive, PTL

(* Every managed transaction is counted once, and as a commit exactly when *)
(* the caller is told nil.                                                 *)
THEOREM AlwaysCountedOnce == Spec => []CountedOnce
<1>1. IndInv => CountedOnce
  BY DEF IndInv, CountedOnce, Count, CountOf, Total
<1> QED BY <1>1, Inductive, PTL

-----------------------------------------------------------------------------
(* Refinement.  A step votes, resolves the writes of one call, tells one   *)
(* caller, or leaves all three alone.                                      *)

SimStep == [Atomic!Next]_(Atomic!avars)

LEMMA SilentSim ==
  ASSUME UNCHANGED <<vote, UnitMap, AnswerMap>>
  PROVE  SimStep
BY DEF SimStep, Atomic!avars

LEMMA VoteSim ==
  ASSUME NEW c \in Calls, vote[c] = "undecided",
         NEW v \in {"commit", "abort"}, vote' = [vote EXCEPT ![c] = v],
         UNCHANGED <<UnitMap, AnswerMap>>
  PROVE  SimStep
BY DEF SimStep, Atomic!Next, Atomic!Vote

LEMMA ResolveSim ==
  ASSUME TypeOK, NEW c \in Calls, tx[c] \notin {"committed", "rolledback"},
         NEW t \in TxStates, tx' = [tx EXCEPT ![c] = t],
         t = "committed" => vote[c] = "commit",
         UNCHANGED <<vote, AnswerMap>>
  PROVE  SimStep
<1>1. UnitMap[c] = "pending"
  BY DEF UnitMap, UnitOf, TypeOK, TxStates
<1>2. UnitMap' = [UnitMap EXCEPT ![c] = UnitOf(t)]
  BY DEF UnitMap, TypeOK
<1>3. CASE t = "committed"
  <2>1. Atomic!Apply(c)
    BY <1>1, <1>2, <1>3 DEF Atomic!Apply, UnitOf
  <2> QED BY <2>1 DEF SimStep, Atomic!Next
<1>4. CASE t = "rolledback"
  <2>1. Atomic!Discard(c)
    BY <1>1, <1>2, <1>4 DEF Atomic!Discard, UnitOf
  <2> QED BY <2>1 DEF SimStep, Atomic!Next
<1>5. CASE t \notin {"committed", "rolledback"}
  <2>1. UnitOf(t) = "pending"
    BY <1>5 DEF UnitOf, TxStates
  <2>2. UNCHANGED UnitMap
    BY <1>1, <1>2, <2>1 DEF UnitMap
  <2> QED BY <2>2, SilentSim
<1> QED BY <1>3, <1>4, <1>5

LEMMA ReplySim ==
  ASSUME NEW c \in Calls, AnswerMap[c] = "none",
         NEW a \in {"nil", "error", "panic"},
         AnswerMap' = [AnswerMap EXCEPT ![c] = a],
         a = "nil" => tx[c] = "committed", UNCHANGED <<vote, UnitMap>>
  PROVE  SimStep
<1>1. a = "nil" => UnitMap[c] = "applied"
  BY DEF UnitMap, UnitOf
<1>2. Atomic!Reply(c)
  BY <1>1 DEF Atomic!Reply
<1> QED BY <1>2 DEF SimStep, Atomic!Next

(* While a call has not returned, its answer is not visible.               *)
LEMMA NoAnswerYet ==
  ASSUME TypeOK, NEW c \in Calls, NEW p \in PCs \ {"returned"},
         pc[c] # "returned", pc' = [pc EXCEPT ![c] = p],
         UNCHANGED ret \/ \E a : ret' = [ret EXCEPT ![c] = a]
  PROVE  UNCHANGED AnswerMap
BY DEF TypeOK, AnswerMap

LEMMA ReturnSim ==
  ASSUME TypeOK, NEW c \in Calls, pc[c] # "returned",
         pc' = [pc EXCEPT ![c] = "returned"],
         NEW a \in {"nil", "error", "panic"}, ret' = [ret EXCEPT ![c] = a],
         a = "nil" => tx[c] = "committed", UNCHANGED <<vote, tx>>
  PROVE  SimStep
<1>1. AnswerMap[c] = "none"
  BY DEF AnswerMap
<1>2. AnswerMap' = [AnswerMap EXCEPT ![c] = a]
  BY DEF AnswerMap, TypeOK
<1>3. UNCHANGED UnitMap
  BY DEF UnitMap
<1> QED BY <1>1, <1>2, <1>3, ReplySim

LEMMA BodySim ==
  ASSUME IndInv, NEW c \in Calls,
         \/ FnNil(c) \/ FnError(c) \/ FnPanic(c) \/ Abandon(c)
         \/ \E v \in {"commit", "abort"} : Decide(c, v)
  PROVE  SimStep
<1> USE DEF FnNil, FnError, FnPanic, Abandon, Decide, Goto, Answer
<1>1. TypeOK /\ vote[c] = "undecided"
  BY DEF IndInv, Outcome, OutcomeOf, Early
<1>2. \E v \in {"commit", "abort"} : vote' = [vote EXCEPT ![c] = v]
  OBVIOUS
<1>3. \E p \in PCs \ {"returned"} : pc' = [pc EXCEPT ![c] = p]
  BY DEF PCs
<1>4. UNCHANGED AnswerMap
  BY <1>1, <1>3, NoAnswerYet
<1>5. UNCHANGED UnitMap
  BY DEF UnitMap, driver
<1> QED BY <1>1, <1>2, <1>4, <1>5, VoteSim

LEMMA CommitSim ==
  ASSUME IndInv, NEW c \in Calls, Commit(c) \/ TxCommit(c)
  PROVE  SimStep
<1>1. /\ TypeOK /\ ~closed[c] /\ vote[c] = "commit"
      /\ tx[c] \notin {"committed", "indoubt"}
  BY DEF IndInv, Shape, ShapeOf, Outcome, OutcomeOf, Active, Commit, TxCommit
<1>2. \E p \in PCs \ {"returned"} : pc' = [pc EXCEPT ![c] = p]
  BY DEF PCs, Commit, TxCommit, Goto
<1>3. UNCHANGED AnswerMap
  BY <1>1, <1>2, NoAnswerYet DEF Commit, TxCommit, Answer
<1>4. UNCHANGED vote /\ \E ok \in BOOLEAN : PgxCommit(c, ok)
  BY DEF Commit, TxCommit
<1>5. \/ UNCHANGED tx
      \/ \E t \in TxStates : tx' = [tx EXCEPT ![c] = t]
  BY <1>1, <1>4 DEF PgxCommit, TxStates, TypeOK
<1>6. CASE UNCHANGED tx \/ tx[c] = "rolledback"
  <2>1. UNCHANGED tx
    BY <1>1, <1>4, <1>6 DEF PgxCommit, TypeOK
  <2> QED BY <1>3, <1>4, <2>1, SilentSim DEF UnitMap
<1>7. CASE tx[c] # "rolledback" /\ \E t \in TxStates : tx' = [tx EXCEPT ![c] = t]
  BY <1>1, <1>3, <1>4, <1>7, ResolveSim
<1> QED BY <1>5, <1>6, <1>7

LEMMA RollbackSim ==
  ASSUME IndInv, NEW c \in Calls,
         Rollback(c) \/ PostCommitRollback(c) \/ Unwind(c) \/ TxRollback(c)
  PROVE  SimStep
<1> USE DEF Rollback, PostCommitRollback, Unwind, TxRollback
<1>1. TypeOK /\ (~closed[c] => tx[c] \notin {"committed", "indoubt"})
  BY DEF IndInv, Outcome, OutcomeOf
<1>2. \E p \in PCs \ {"returned"} : pc' = [pc EXCEPT ![c] = p]
  BY DEF PCs, Goto
<1>3. UNCHANGED AnswerMap /\ UNCHANGED vote
  BY <1>1, <1>2, NoAnswerYet DEF Answer
<1>4. \/ UNCHANGED tx
      \/ ~closed[c] /\ tx' = [tx EXCEPT ![c] = "rolledback"]
  BY DEF PgxRollback, driver
<1>5. CASE UNCHANGED tx \/ tx[c] = "rolledback"
  <2>1. UNCHANGED tx
    BY <1>1, <1>4, <1>5 DEF TypeOK
  <2> QED BY <1>3, <2>1, SilentSim DEF UnitMap
<1>6. CASE /\ tx[c] # "rolledback" /\ ~closed[c]
           /\ tx' = [tx EXCEPT ![c] = "rolledback"]
  BY <1>1, <1>3, <1>6, ResolveSim DEF TxStates
<1> QED BY <1>4, <1>5, <1>6

LEMMA ServerSim ==
  ASSUME IndInv, NEW c \in Calls, Server(c)
  PROVE  SimStep
<1>1. TypeOK /\ (tx[c] = "indoubt" => vote[c] = "commit")
  BY DEF IndInv, Outcome, OutcomeOf
<1>2. UNCHANGED vote /\ UNCHANGED AnswerMap
  BY DEF Server, ServerAbort, ServerResolve, client, AnswerMap
<1>3. \E t \in {"committed", "rolledback"} :
        /\ tx' = [tx EXCEPT ![c] = t]
        /\ t = "committed" => tx[c] = "indoubt"
  BY DEF Server, ServerAbort, ServerResolve
<1>4. tx[c] \notin {"committed", "rolledback"}
  BY DEF Server, ServerAbort, ServerResolve
<1> QED BY <1>1, <1>2, <1>3, <1>4, ResolveSim DEF TxStates

(* A call that ends: its caller learns the answer.                         *)
LEMMA EndSim ==
  ASSUME IndInv, NEW c \in Calls,
         \/ AcquireFails(c) \/ RejectLevel(c) \/ BeginFails(c)
         \/ Leave(c) \/ Close(c)
  PROVE  SimStep
<1> USE DEF AcquireFails, RejectLevel, BeginFails, Leave, Close, Goto, Answer
<1>1. TypeOK /\ (ret[c] = "nil" => tx[c] = "committed")
  BY DEF IndInv, Outcome, OutcomeOf
<1>2. /\ pc[c] # "returned" /\ UNCHANGED <<vote, tx>>
      /\ \E p \in {"close", "returned"} : pc' = [pc EXCEPT ![c] = p]
  BY DEF driver, After
<1>3. CASE pc' = [pc EXCEPT ![c] = "close"]
  <2>1. UNCHANGED AnswerMap
    BY <1>1, <1>2, <1>3, NoAnswerYet DEF PCs
  <2> QED BY <1>2, <2>1, SilentSim DEF UnitMap
<1>4. CASE pc' = [pc EXCEPT ![c] = "returned"]
  <2>1. CASE ret' = [ret EXCEPT ![c] = "error"]
    BY <1>1, <1>2, <1>4, <2>1, ReturnSim
  <2>2. CASE (Leave(c) \/ Close(c)) /\ UNCHANGED ret
    <3>1. ret[c] \in {"nil", "error", "panic"}
      BY <2>2 DEF IndInv, TypeOK, Outcome, OutcomeOf, Early
    <3>2. ret' = [ret EXCEPT ![c] = ret[c]]
      BY <1>1, <2>2 DEF TypeOK
    <3> QED BY <1>1, <1>2, <1>4, <3>1, <3>2, ReturnSim
  <2> QED BY <2>1, <2>2
<1> QED BY <1>2, <1>3, <1>4

LEMMA QuietSim ==
  ASSUME IndInv, NEW c \in Calls,
         \/ Acquire(c) \/ Begin(c) \/ StatementError(c) \/ StatementLost(c)
         \/ RollbackCtx(c) \/ CancelBase(c)
  PROVE  SimStep
<1> USE DEF Acquire, Begin, StatementError, StatementLost, RollbackCtx,
            CancelBase, Goto, client, driver
<1>1. TypeOK /\ (pc[c] = "begin" => tx[c] = "none")
  BY DEF IndInv, Shape, ShapeOf
<1>2. UNCHANGED vote /\ UNCHANGED AnswerMap
  BY <1>1 DEF TypeOK, AnswerMap
<1>3. \/ UNCHANGED tx
      \/ /\ tx[c] \in {"none", "open"}
         /\ \E t \in {"open", "failed"} : tx' = [tx EXCEPT ![c] = t]
  BY <1>1
<1>4. UNCHANGED UnitMap
  BY <1>1, <1>3 DEF UnitMap, UnitOf, TypeOK
<1> QED BY <1>2, <1>4, SilentSim

LEMMA NextSim ==
  ASSUME IndInv, [Next]_vars
  PROVE  SimStep
<1>1. ASSUME NEW c \in Calls, Step(c) PROVE SimStep
  BY <1>1, BodySim, CommitSim, RollbackSim, EndSim, QuietSim DEF Step
<1>2. ASSUME NEW c \in Calls,
             \/ Acquire(c) \/ RejectLevel(c) \/ Server(c) \/ StatementError(c)
             \/ StatementLost(c) \/ CancelBase(c)
      PROVE  SimStep
  BY <1>2, QuietSim, EndSim, ServerSim
<1>3. CASE Finished \/ UNCHANGED vars \/ \E k \in Conns : LinkDown(k)
  BY <1>3, SilentSim
     DEF Finished, LinkDown, vars, client, driver, UnitMap, AnswerMap
<1> QED BY <1>1, <1>2, <1>3 DEF Next

(* Racing calls on a shared pool implement atomic units of work: nil only  *)
(* for applied writes, and nothing applied that its body did not ask for.  *)
THEOREM Refinement == Spec => RefinesAtomicUnit
<1>1. Init => Atomic!Init
  BY DEF Init, Atomic!Init, UnitMap, UnitOf, AnswerMap
<1>2. IndInv /\ [Next]_vars => [Atomic!Next]_(Atomic!avars)
  BY NextSim DEF SimStep
<1> QED BY <1>1, <1>2, Inductive, PTL DEF Spec, RefinesAtomicUnit, Atomic!Spec

-----------------------------------------------------------------------------
(* The measure behind EveryCallSettles: how many steps a call has left at  *)
(* most.                                                                   *)

Rank(p) == CASE p = "start" -> 8 [] p = "begin" -> 7
             [] p \in {"fn", "manual"} -> 6 [] p \in {"rbctx", "commit"} -> 5
             [] p \in {"rollback", "postcommit", "txcommit", "txrollback"} -> 4
             [] p = "unwind" -> 3 [] p = "leave" -> 2 [] p = "close" -> 1
             [] OTHER -> 0

StepsUsedUp == \A c \in Calls : Step(c) \/ pc'[c] # pc[c] => Rank(pc'[c]) < Rank(pc[c])

(* A call moves in one direction: panics, refused commits and rollbacks    *)
(* that fail send it forward, to the next way of getting rid of the        *)
(* transaction, and never back to one it has tried.                        *)
NeverGoesBack == [][StepsUsedUp]_vars

LEMMA OwnStepLowers ==
  ASSUME IndInv, NEW c \in Calls, Step(c) \/ Acquire(c) \/ RejectLevel(c)
  PROVE  \E p \in PCs : pc' = [pc EXCEPT ![c] = p] /\ Rank(p) < Rank(pc[c])
<1> USE DEF Goto, Rank, PCs
<1>1. pc[c] \in PCs BY DEF IndInv, TypeOK
<1>2. CASE \/ Acquire(c) \/ RejectLevel(c) \/ AcquireFails(c) \/ Begin(c) \/ BeginFails(c)
  BY <1>1, <1>2 DEF Acquire, RejectLevel, AcquireFails, Begin, BeginFails, After
<1>3. CASE FnNil(c) \/ FnError(c) \/ FnPanic(c) \/ RollbackCtx(c) \/ Rollback(c)
  <2>1. CASE Rollback(c)
    <3>1. pc[c] = "rollback" /\ pc' = [pc EXCEPT ![c] = "unwind"] BY <2>1 DEF Rollback
    <3> QED BY <3>1
  <2>2. CASE FnNil(c) \/ FnError(c) \/ FnPanic(c) \/ RollbackCtx(c)
    BY <1>1, <2>2 DEF FnNil, FnError, FnPanic, RollbackCtx
  <2> QED BY <1>3, <2>1, <2>2
<1>4. CASE Commit(c) \/ PostCommitRollback(c) \/ Unwind(c) \/ Leave(c)
  <2>1. CASE Commit(c)
    <3>1. /\ pc[c] = "commit"
          /\ pc' = [pc EXCEPT ![c] = "unwind"] \/ pc' = [pc EXCEPT ![c] = "postcommit"]
      BY <2>1 DEF Commit
    <3> QED BY <3>1
  <2>2. CASE PostCommitRollback(c) \/ Unwind(c)
    <3>1. \/ pc[c] = "postcommit" /\ pc' = [pc EXCEPT ![c] = "unwind"]
          \/ pc[c] = "unwind" /\ pc' = [pc EXCEPT ![c] = "leave"]
      BY <2>2 DEF PostCommitRollback, Unwind
    <3> QED BY <3>1
  <2>3. CASE Leave(c)
    <3>1. pc[c] = "leave" /\ pc' = [pc EXCEPT ![c] = After(c)] BY <2>3 DEF Leave
    <3>2. After(c) = "returned" \/ After(c) = "close" BY DEF After
    <3>3. After(c) \in PCs /\ Rank(After(c)) < Rank(pc[c]) BY <3>1, <3>2
    <3> HIDE DEF Rank, PCs
    <3> QED BY <3>1, <3>3
  <2> QED BY <1>4, <2>1, <2>2, <2>3
<1>5. CASE \/ \E v \in {"commit", "abort"} : Decide(c, v)
           \/ Abandon(c) \/ TxCommit(c) \/ TxRollback(c) \/ Close(c)
  BY <1>1, <1>5 DEF Decide, Abandon, TxCommit, TxRollback, Close
<1> QED BY <1>2, <1>3, <1>4, <1>5 DEF Step

(* No path through runTransactional or a manual transaction is longer than *)
(* the 8 steps Rank starts from, whatever connections, contexts and the    *)
(* server do: the safety half of EveryCallSettles.                         *)
THEOREM CallsNeverGoBack == Spec => NeverGoesBack
<1>1. IndInv /\ [Next]_vars => [StepsUsedUp]_vars
  <2> SUFFICES ASSUME IndInv, Next, NEW c \in Calls, Step(c) \/ pc'[c] # pc[c]
               PROVE  Rank(pc'[c]) < Rank(pc[c])
    BY DEF StepsUsedUp
  <2>0. pc \in [Calls -> PCs] BY DEF IndInv, TypeOK
  <2>1. CASE Step(c) \/ Acquire(c) \/ RejectLevel(c) BY <2>0, <2>1, OwnStepLowers
  <2>2. CASE ~(Step(c) \/ Acquire(c) \/ RejectLevel(c))
    <3>1. ASSUME NEW d \in Calls, Step(d) \/ Acquire(d) \/ RejectLevel(d)
          PROVE  pc'[c] = pc[c]
      BY <2>0, <2>2, <3>1, OwnStepLowers
    <3>2. ASSUME \/ \E d \in Calls : \/ Server(d) \/ StatementError(d)
                                    \/ StatementLost(d) \/ CancelBase(d)
                 \/ \E k \in Conns : LinkDown(k)
                 \/ Finished
          PROVE  pc' = pc
      BY <3>2 DEF Server, ServerAbort, ServerResolve, StatementError, StatementLost,
         CancelBase, LinkDown, Finished, vars, client
    <3> QED BY <2>2, <3>1, <3>2 DEF Next
  <2> QED BY <2>1, <2>2
<1> QED BY <1>1, Inductive, PTL DEF Spec, NeverGoesBack
=============================================================================
