---------------------------- MODULE Transaction ----------------------------
(* Managed and manual transactions on a shared connection pool             *)
(* (database/transaction.go, database/connection.go).                      *)
(*                                                                         *)
(* A call is one use of the library by one goroutine:                      *)
(*   DBCalls      DB.Transactional, TransactionalContext,                  *)
(*                TransactionalLevel: the pool lends a connection to the   *)
(*                transaction and pgxpool.Tx gives it back;                *)
(*   ConnCalls    DB.Acquire, Conn.Transactional..., Conn.Close;           *)
(*   ManualCalls  DB.Acquire, Conn.Begin, Tx.Commit or Tx.Rollback,        *)
(*                Conn.Close.                                              *)
(* All calls race for the connections, any base context may be cancelled   *)
(* and any link may break between two steps.  The server decides on its    *)
(* own what becomes of a transaction whose client went away.               *)
EXTENDS Naturals

CONSTANTS DBCalls, ConnCalls, ManualCalls,  \* sets of calls, by entry point
          Conns,                            \* connection slots of the pool
          NoConn                            \* "holds no connection"

Calls == DBCalls \cup ConnCalls \cup ManualCalls

ASSUME CallsAssumption ==
  /\ DBCalls \cap ConnCalls = {}
  /\ DBCalls \cap ManualCalls = {}
  /\ ConnCalls \cap ManualCalls = {}

ASSUME ConnsAssumption == NoConn \notin Conns

VARIABLES
  pc,      \* where each call is
  base,    \* its base context: "live" or "done"
  held,    \* the pooled connection it holds
  idle,    \* slots the pool can lend
  link,    \* client side of a slot: "up", "broken" (not noticed), "closed"
  tx,      \* the server's view of the call's transaction
  closed,  \* the pgx.Tx was resolved: later calls answer ErrTxClosed
  done,    \* the local variable done of runTransactional
  rctx,    \* lineage of the context chosen by rollbackCtx
  vote,    \* what the body of the transaction asked for
  ret,     \* what the call will answer
  rec,     \* increments of db_transactions_total, by result
  comp     \* increments of db_rollback_compensations_total

client == <<pc, done, rctx, vote, ret, rec, comp>>
driver == <<held, idle, link, tx, closed>>
vars == <<client, driver, base>>

PCs == {"start", "begin", "fn", "rbctx", "rollback", "commit", "postcommit",
        "unwind", "leave", "manual", "txcommit", "txrollback", "close", "returned"}
TxStates == {"none", "open", "failed", "indoubt", "committed", "rolledback"}
Results == {"commit", "rollback", "panic"}

TypeOK ==
  /\ pc \in [Calls -> PCs]
  /\ base \in [Calls -> {"live", "done"}]
  /\ held \in [Calls -> Conns \cup {NoConn}]
  /\ idle \in SUBSET Conns
  /\ link \in [Conns -> {"up", "broken", "closed"}]
  /\ tx \in [Calls -> TxStates]
  /\ closed \in [Calls -> BOOLEAN]
  /\ done \in [Calls -> BOOLEAN]
  /\ rctx \in [Calls -> {"none", "base", "fresh"}]
  /\ vote \in [Calls -> {"undecided", "commit", "abort"}]
  /\ ret \in [Calls -> {"none", "nil", "error", "panic"}]
  /\ rec \in [Calls -> [Results -> Nat]]
  /\ comp \in [Calls -> Nat]

Init ==
  /\ pc = [c \in Calls |-> "start"]
  /\ base = [c \in Calls |-> "live"]
  /\ held = [c \in Calls |-> NoConn]
  /\ idle = Conns
  /\ link = [k \in Conns |-> "up"]
  /\ tx = [c \in Calls |-> "none"]
  /\ closed = [c \in Calls |-> FALSE]
  /\ done = [c \in Calls |-> FALSE]
  /\ rctx = [c \in Calls |-> "none"]
  /\ vote = [c \in Calls |-> "undecided"]
  /\ ret = [c \in Calls |-> "none"]
  /\ rec = [c \in Calls |-> [r \in Results |-> 0]]
  /\ comp = [c \in Calls |-> 0]

-----------------------------------------------------------------------------
(* pgx and pgxpool, as the library uses them.                              *)

(* The slot a connection leaves behind when it goes back to the pool: a    *)
(* closed one is destroyed, and the pool dials a new one in its place.     *)
Returned(l) == IF l = "closed" THEN "up" ELSE l

(* The pgx.Tx is resolved and leaves its connection in state l.  Only a    *)
(* transaction the pool began gives the connection back.                   *)
Settle(c, l) ==
  /\ closed' = [closed EXCEPT ![c] = TRUE]
  /\ IF c \in DBCalls
     THEN /\ held' = [held EXCEPT ![c] = NoConn]
          /\ idle' = idle \cup {held[c]}
          /\ link' = [link EXCEPT ![held[c]] = Returned(l)]
     ELSE /\ link' = [link EXCEPT ![held[c]] = l]
          /\ UNCHANGED <<held, idle>>

Reachable(c) == held[c] # NoConn /\ link[held[c]] = "up"

(* pgx.Tx.Commit under the base context; ok is err == nil.                 *)
PgxCommit(c, ok) ==
  LET live == base[c] = "live" /\ Reachable(c) IN
  \/ /\ ok /\ live /\ tx[c] = "open"          \* acknowledged
     /\ tx' = [tx EXCEPT ![c] = "committed"]
     /\ Settle(c, "up")
  \/ /\ ~ok /\ live                           \* refused, or answered ROLLBACK
     /\ tx' = [tx EXCEPT ![c] = "rolledback"]
     /\ Settle(c, "up")
  \/ /\ ~ok /\ live                           \* sent, the answer is lost
     /\ tx' = [tx EXCEPT ![c] = IF @ = "open" THEN "indoubt" ELSE @]
     /\ Settle(c, "closed")
  \/ /\ ~ok /\ ~live                          \* never reaches the server
     /\ Settle(c, "closed")
     /\ UNCHANGED tx

\* Mutant of PgxRollback: a resolved Tx releases its connection again.
PgxRollbackAgain(c, usable, ok) ==
  \/ /\ ok /\ usable /\ Reachable(c)
     /\ tx' = [tx EXCEPT ![c] = "rolledback"]
     /\ Settle(c, "up")
  \/ /\ ~ok
     /\ Settle(c, "closed")
     /\ UNCHANGED tx

(* pgx.Tx.Rollback; usable says whether its context is not done yet.       *)
PgxRollback(c, usable, ok) ==
  \/ /\ closed[c] /\ ~ok                      \* ErrTxClosed
     /\ UNCHANGED driver
  \/ /\ ~closed[c] /\ ok /\ usable /\ Reachable(c)
     /\ tx' = [tx EXCEPT ![c] = "rolledback"]
     /\ Settle(c, "up")
  \/ /\ ~closed[c] /\ ~ok                     \* the connection is killed
     /\ Settle(c, "closed")
     /\ UNCHANGED tx

(* The server drops the transaction of a client that went away ...         *)
ServerAbort(c) ==
  /\ tx[c] \in {"open", "failed"}
  /\ ~Reachable(c)
  /\ tx' = [tx EXCEPT ![c] = "rolledback"]
  /\ UNCHANGED <<client, base, held, idle, link, closed>>

(* ... and settles a commit whose answer never arrived.                    *)
ServerResolve(c) ==
  /\ tx[c] = "indoubt"
  /\ \E t \in {"committed", "rolledback"} : tx' = [tx EXCEPT ![c] = t]
  /\ UNCHANGED <<client, base, held, idle, link, closed>>

LinkDown(k) ==
  /\ link[k] = "up"
  /\ link' = [link EXCEPT ![k] = "broken"]
  /\ UNCHANGED <<client, base, held, idle, tx, closed>>

CancelBase(c) ==
  /\ base[c] = "live" /\ pc[c] # "returned"
  /\ base' = [base EXCEPT ![c] = "done"]
  /\ UNCHANGED <<client, driver>>

-----------------------------------------------------------------------------
(* Begin: the pool lends a connection, then BEGIN runs on it, both bounded *)
(* by ConnectionTimeout.                                                   *)

Goto(c, p) == pc' = [pc EXCEPT ![c] = p]

Answer(c, a) == ret' = [ret EXCEPT ![c] = a]

(* Where a call goes when runTransactional has returned.                   *)
After(c) == IF c \in DBCalls THEN "returned" ELSE "close"

Acquire(c) ==
  /\ pc[c] = "start" /\ base[c] = "live"
  /\ \E k \in idle : /\ held' = [held EXCEPT ![c] = k]
                     /\ idle' = idle \ {k}
  /\ Goto(c, "begin")
  /\ UNCHANGED <<base, link, tx, closed, done, rctx, vote, ret, rec, comp>>

AcquireFails(c) ==          \* pool exhausted until the timeout, base done
  /\ pc[c] = "start"
  /\ Answer(c, "error") /\ Goto(c, "returned")
  /\ UNCHANGED <<driver, base, done, rctx, vote, rec, comp>>

(* TransactionalLevel with a level parseIsolationLevel does not know.      *)
RejectLevel(c) ==
  /\ c \notin ManualCalls
  /\ pc[c] = IF c \in DBCalls THEN "start" ELSE "begin"
  /\ Answer(c, "error") /\ Goto(c, After(c))
  /\ UNCHANGED <<driver, base, done, rctx, vote, rec, comp>>

Begin(c) ==
  /\ pc[c] = "begin" /\ base[c] = "live" /\ Reachable(c)
  /\ tx' = [tx EXCEPT ![c] = "open"]
  /\ Goto(c, IF c \in ManualCalls THEN "manual" ELSE "fn")
  /\ UNCHANGED <<base, held, idle, link, closed, done, rctx, vote, ret, rec, comp>>

BeginFails(c) ==            \* pgx kills the connection
  /\ pc[c] = "begin"
  /\ Settle(c, "closed")
  /\ Answer(c, "error") /\ Goto(c, After(c))
  /\ UNCHANGED <<base, tx, done, rctx, vote, rec, comp>>

-----------------------------------------------------------------------------
(* The body of the transaction.  A statement that succeeds changes nothing *)
(* modelled here; the body may swallow the error of one that fails.        *)

InBody(c) == pc[c] \in {"fn", "manual"}

StatementError(c) ==        \* the server answers an error: 25P02 from now on
  /\ InBody(c) /\ tx[c] = "open" /\ base[c] = "live" /\ Reachable(c)
  /\ tx' = [tx EXCEPT ![c] = "failed"]
  /\ UNCHANGED <<client, base, held, idle, link, closed>>

StatementLost(c) ==         \* timeout, cancellation or transport: pgx closes
  /\ InBody(c) /\ link[held[c]] # "closed"
  /\ link' = [link EXCEPT ![held[c]] = "closed"]
  /\ UNCHANGED <<client, base, held, idle, tx, closed>>

-----------------------------------------------------------------------------
(* runTransactional after Begin.                                           *)

Record(c, r) == rec' = [rec EXCEPT ![c][r] = @ + 1]
Compensate(c) == comp' = [comp EXCEPT ![c] = @ + 1]
SetDone(c) == done' = [done EXCEPT ![c] = TRUE]

FnNil(c) ==
  /\ pc[c] = "fn"
  /\ vote' = [vote EXCEPT ![c] = "commit"]
  /\ Goto(c, "commit")
  /\ UNCHANGED <<driver, base, done, rctx, ret, rec, comp>>

\* Mutant of FnError: the error of fn is dropped and the commit goes out.
FnErrorCommits(c) ==
  /\ pc[c] = "fn"
  /\ vote' = [vote EXCEPT ![c] = "abort"]
  /\ Goto(c, "commit")
  /\ UNCHANGED <<driver, base, done, rctx, ret, rec, comp>>

FnError(c) ==
  /\ pc[c] = "fn"
  /\ vote' = [vote EXCEPT ![c] = "abort"]
  /\ Answer(c, "error") /\ Goto(c, "rbctx")
  /\ UNCHANGED <<driver, base, done, rctx, rec, comp>>

FnPanic(c) ==
  /\ pc[c] = "fn"
  /\ vote' = [vote EXCEPT ![c] = "abort"]
  /\ Answer(c, "panic") /\ Goto(c, "unwind")
  /\ UNCHANGED <<driver, base, done, rctx, rec, comp>>

(* rollbackCtx looks at the base context before the rollback uses it.      *)
RollbackCtx(c) ==
  /\ pc[c] = "rbctx"
  /\ rctx' = [rctx EXCEPT ![c] = IF base[c] = "done" THEN "fresh" ELSE "base"]
  /\ Goto(c, "rollback")
  /\ UNCHANGED <<driver, base, done, vote, ret, rec, comp>>

\* Mutant of Rollback: tried again until the driver reports success.
RollbackUntilDone(c) ==
  /\ pc[c] = "rollback"
  /\ \E ok \in BOOLEAN :
       /\ PgxRollback(c, rctx[c] = "fresh" \/ base[c] = "live", ok)
       /\ IF ok THEN SetDone(c) /\ Record(c, "rollback") /\ Goto(c, "unwind")
                ELSE UNCHANGED <<pc, done, rec>>
  /\ UNCHANGED <<base, rctx, vote, ret, comp>>

Rollback(c) ==
  /\ pc[c] = "rollback"
  /\ \E ok \in BOOLEAN :
       /\ PgxRollback(c, rctx[c] = "fresh" \/ base[c] = "live", ok)
       /\ IF ok THEN SetDone(c) /\ Record(c, "rollback")
                ELSE UNCHANGED <<done, rec>>
  /\ Goto(c, "unwind")
  /\ UNCHANGED <<base, rctx, vote, ret, comp>>

Commit(c) ==
  /\ pc[c] = "commit"
  /\ \/ /\ PgxCommit(c, TRUE)
        /\ SetDone(c) /\ Record(c, "commit")
        /\ Answer(c, "nil") /\ Goto(c, "unwind")
        /\ UNCHANGED comp
     \/ /\ PgxCommit(c, FALSE)
        /\ Compensate(c) /\ Record(c, "rollback")
        /\ Answer(c, "error") /\ Goto(c, "postcommit")
        /\ UNCHANGED done
  /\ UNCHANGED <<base, rctx, vote>>

\* Mutant of PostCommitRollback: done is not set.
PostCommitNotDone(c) ==
  /\ pc[c] = "postcommit"
  /\ \E ok \in BOOLEAN : PgxRollback(c, TRUE, ok)
  /\ Goto(c, "unwind")
  /\ UNCHANGED <<base, done, rctx, vote, ret, rec, comp>>

PostCommitRollback(c) ==
  /\ pc[c] = "postcommit"
  /\ \E ok \in BOOLEAN : PgxRollback(c, TRUE, ok)
  /\ SetDone(c) /\ Goto(c, "unwind")
  /\ UNCHANGED <<base, rctx, vote, ret, rec, comp>>

\* Mutant of Unwind: no deferred rollback.
UnwindOnly(c) ==
  /\ pc[c] = "unwind"
  /\ Goto(c, "leave")
  /\ UNCHANGED <<driver, base, done, rctx, vote, ret, rec, comp>>

(* The deferred function: compensates unless the transaction is resolved.  *)
Unwind(c) ==
  /\ pc[c] = "unwind"
  /\ IF done[c]
     THEN UNCHANGED <<driver, rec, comp>>
     ELSE /\ Compensate(c) /\ Record(c, "panic")
          /\ \E ok \in BOOLEAN : PgxRollback(c, TRUE, ok)
  /\ Goto(c, "leave")
  /\ UNCHANGED <<base, done, rctx, vote, ret>>

Leave(c) ==                 \* return, or go on panicking
  /\ pc[c] = "leave"
  /\ Goto(c, After(c))
  /\ UNCHANGED <<driver, base, done, rctx, vote, ret, rec, comp>>

-----------------------------------------------------------------------------
(* A transaction the caller drives, and Conn.Close.                        *)

Decide(c, v) ==
  /\ pc[c] = "manual"
  /\ vote' = [vote EXCEPT ![c] = v]
  /\ Goto(c, IF v = "commit" THEN "txcommit" ELSE "txrollback")
  /\ UNCHANGED <<driver, base, done, rctx, ret, rec, comp>>

TxCommit(c) ==
  /\ pc[c] = "txcommit"
  /\ \E ok \in BOOLEAN : /\ PgxCommit(c, ok)
                         /\ Answer(c, IF ok THEN "nil" ELSE "error")
  /\ Goto(c, "close")
  /\ UNCHANGED <<base, done, rctx, vote, rec, comp>>

(* Tx.Rollback itself answers nil when pgx rolled back.  The answer kept   *)
(* here is the unit's: "nil" is for committed, and whoever rolls back, or  *)
(* gives up, learns that it is not, as from an "error".                    *)
TxRollback(c) ==
  /\ pc[c] = "txrollback"
  /\ \E ok \in BOOLEAN : PgxRollback(c, base[c] = "live", ok)
  /\ Answer(c, "error") /\ Goto(c, "close")
  /\ UNCHANGED <<base, done, rctx, vote, rec, comp>>

Abandon(c) ==               \* the caller gives up without resolving the Tx
  /\ pc[c] = "manual"
  /\ vote' = [vote EXCEPT ![c] = "abort"]
  /\ Answer(c, "error") /\ Goto(c, "close")
  /\ UNCHANGED <<driver, base, done, rctx, rec, comp>>

\* Mutant of Close: refuses while the transaction is open.
CloseWhenResolved(c) ==
  /\ pc[c] = "close" /\ (tx[c] = "none" \/ closed[c])
  /\ held' = [held EXCEPT ![c] = NoConn]
  /\ idle' = idle \cup {held[c]}
  /\ link' = [link EXCEPT ![held[c]] = Returned(@)]
  /\ Goto(c, "returned")
  /\ UNCHANGED <<base, tx, closed, done, rctx, vote, ret, rec, comp>>

(* The pool destroys a connection released inside a transaction.           *)
Close(c) ==
  /\ pc[c] = "close"
  /\ LET k == held[c]
         inTx == tx[c] \in {"open", "failed"}
     IN  /\ idle' = idle \cup {k}
         /\ link' = [link EXCEPT ![k] = IF inTx THEN "up" ELSE Returned(@)]
  /\ held' = [held EXCEPT ![c] = NoConn]
  /\ Goto(c, "returned")
  /\ UNCHANGED <<base, tx, closed, done, rctx, vote, ret, rec, comp>>

-----------------------------------------------------------------------------
(* Every step of the library's own code, of a call that has begun.         *)
Step(c) ==
  \/ AcquireFails(c) \/ Begin(c) \/ BeginFails(c)
  \/ FnNil(c) \/ FnError(c) \/ FnPanic(c)
  \/ RollbackCtx(c) \/ Rollback(c) \/ Commit(c) \/ PostCommitRollback(c)
  \/ Unwind(c) \/ Leave(c)
  \/ \E v \in {"commit", "abort"} : Decide(c, v)
  \/ Abandon(c) \/ TxCommit(c) \/ TxRollback(c) \/ Close(c)

Server(c) == ServerAbort(c) \/ ServerResolve(c)

Finished ==
  /\ \A c \in Calls : /\ pc[c] = "returned"
                       /\ tx[c] \notin {"open", "failed", "indoubt"}
  /\ UNCHANGED vars

Next ==
  \/ \E c \in Calls : \/ Acquire(c) \/ RejectLevel(c) \/ Step(c) \/ Server(c)
                      \/ StatementError(c) \/ StatementLost(c) \/ CancelBase(c)
  \/ \E k \in Conns : LinkDown(k)
  \/ Finished

(* Every statement is bounded by a timeout, fn returns, and the server     *)
(* notices in the end that a client is gone.                               *)
Fairness == \A c \in Calls : WF_vars(Step(c)) /\ WF_vars(Server(c))

Spec == Init /\ [][Next]_vars /\ Fairness

-----------------------------------------------------------------------------
(* Properties.                                                             *)

(* A slot is out of the pool exactly while one call holds it, no two calls *)
(* hold the same one, and a call that returned holds none: panics, failed  *)
(* rollbacks and failed commits of runTransactional never leak the pooled  *)
(* connection, and no path gives it back twice.                            *)
NoConnectionLeak ==
  /\ \A k \in Conns : k \notin idle <=> \E c \in Calls : held[c] = k
  /\ \A c, d \in Calls : held[c] = held[d] /\ held[c] # NoConn => c = d
  /\ \A c \in Calls : pc[c] = "returned" => held[c] = NoConn

(* nil is answered only for a committed transaction, and a transaction     *)
(* whose fn failed or panicked is not committed, then or later, whatever   *)
(* connections, contexts and rollbacks did in between.                     *)
AllOrNothing ==
  \A c \in Calls : /\ ret[c] = "nil" => tx[c] = "committed"
                   /\ vote[c] = "abort" => tx[c] \notin {"committed", "indoubt"}

(* db_transactions_total counts every managed transaction that began       *)
(* exactly once by the time the call returns, and result=commit exactly    *)
(* when the caller is told nil: the deferred function, the fn-error and    *)
(* the commit-error branch never both count it.                            *)
CountedOnce ==
  \A c \in Calls \ ManualCalls :
    /\ pc[c] \in {"close", "returned"} =>
         rec[c]["commit"] + rec[c]["rollback"] + rec[c]["panic"]
           = IF tx[c] = "none" THEN 0 ELSE 1
    /\ rec[c]["commit"] = 1 <=> ret[c] = "nil"

(* Every call that got a connection returns, and by then or later the      *)
(* server holds no open transaction for it: no path through                *)
(* runTransactional waits for ever or leaves a session inside BEGIN.       *)
EveryCallSettles ==
  \A c \in Calls : pc[c] = "begin" ~>
    (pc[c] = "returned" /\ tx[c] \in {"none", "committed", "rolledback"})

(* What became of the writes of a call, and what its caller knows.         *)
UnitOf(t) == CASE t = "committed" -> "applied"
               [] t = "rolledback" -> "discarded"
               [] OTHER -> "pending"
UnitMap == [c \in Calls |-> UnitOf(tx[c])]
AnswerMap == [c \in Calls |-> IF pc[c] = "returned" THEN ret[c] ELSE "none"]

Atomic == INSTANCE AtomicUnit WITH unit <- UnitMap, answer <- AnswerMap

(* Calls that race for connections, lose links and contexts and wait for   *)
(* the server still behave as atomic units of work.                        *)
RefinesAtomicUnit == Atomic!Spec
=============================================================================
