------------------------------ MODULE Session ------------------------------
(* What keeps one connection busy: streams (database/iterate.go), batches  *)
(* (batch.go) and COPY (bulk.go), in the order one goroutine asks for      *)
(* them, up to the end of its transaction.  The kinds of session:          *)
(*   "pool"  Iter: each stream borrows a connection and gives it back when *)
(*           its rows are closed;                                          *)
(*   "conn"  ConnIter and BulkInsert on a Conn, until Conn.Close;          *)
(*   "tx"    TxIter and batches in the body of a transaction, which the    *)
(*           library commits or rolls back when the body returns.          *)
(* Timers fire, contexts end and the link breaks between any two steps.    *)
EXTENDS Naturals

CONSTANTS MaxOps,    \* operations of one session
          MaxRows,   \* rows of a result set, or of a COPY
          MaxQueue   \* statements of a batch

ASSUME BoundsAssumption == MaxOps \in Nat /\ MaxRows \in Nat /\ MaxQueue \in Nat

VARIABLES
  kind,     \* "pool", "conn" or "tx"
  pc,       \* where the goroutine is
  ops,      \* operations begun
  base,     \* the captured context: "live", "canceled" or "deadline"
  conn,     \* the connection is in the "pool" or "held"
  link,     \* it is connected
  busy,     \* what occupies it: "free", "rows" or "batch"
  tx,       \* the server's transaction
  stream,   \* the locals of runIter, with its context and its watchdog
  batch,    \* the batch sent last and its BatchResults
  asked,    \* statements of the batches that were sent
  applied,  \* statements and COPY rows that took effect
  told,     \* those the caller was told of
  answer,   \* what the transaction answered
  cause     \* why the connection was lost

wire == <<conn, link, busy, tx, cause>>
work == <<asked, applied, told, answer>>
vars == <<kind, pc, ops, base, wire, stream, batch, work>>

Ctx == {"live", "canceled", "deadline"}
IterPCs == {"query", "arm", "next", "disarm", "decode", "fn", "err", "close"}
Causes == {"none", "network", "base", "watchdog", "timeout", "own", "busy"}

NoStream == [total |-> 0, got |-> 0, seen |-> 0, first |-> TRUE, ctx |-> "live",
             wd |-> "off", err |-> "none", res |-> "none"]
NoBatch == [queued |-> 0, ran |-> 0, read |-> 0, failed |-> FALSE, open |-> FALSE,
            ctx |-> "live"]

StreamType ==
  [total : 0 .. MaxRows, got : 0 .. MaxRows, seen : 0 .. MaxRows, first : BOOLEAN, ctx : Ctx,
   wd : {"off", "armed", "stopped", "firing", "fired"},
   err : {"none", "canceled", "deadline", "network", "server"},
   res : {"none", "nil", "query", "decode", "consumer", "firstrow", "failed"}]
BatchType ==
  [queued : 0 .. MaxQueue, ran : 0 .. MaxQueue, read : 0 .. MaxQueue,
   failed : BOOLEAN, open : BOOLEAN, ctx : Ctx \cup {"timeout", "closed"}]

TypeOK ==
  /\ kind \in {"pool", "conn", "tx"}
  /\ pc \in IterPCs \cup {"body", "drain", "commit", "rollback", "done"}
  /\ ops \in 0 .. MaxOps
  /\ base \in Ctx
  /\ conn \in {"pool", "held"} /\ link \in BOOLEAN
  /\ busy \in {"free", "rows", "batch"}
  /\ tx \in {"none", "open", "failed", "committed", "rolledback"}
  /\ stream \in StreamType /\ batch \in BatchType
  /\ asked \in Nat /\ applied \in Nat /\ told \in Nat
  /\ answer \in {"none", "nil", "error"}
  /\ cause \in Causes

Init ==
  /\ kind \in {"pool", "conn", "tx"}
  /\ pc = "body" /\ ops = 0
  /\ base = "live"
  /\ conn = IF kind = "pool" THEN "pool" ELSE "held"
  /\ link = TRUE /\ busy = "free"
  /\ tx = IF kind = "tx" THEN "open" ELSE "none"
  /\ stream = NoStream /\ batch = NoBatch
  /\ asked = 0 /\ applied = 0 /\ told = 0
  /\ answer = "none" /\ cause = "none"

-----------------------------------------------------------------------------
(* The environment.                                                        *)

(* The captured context ends, and every context derived from it with it.   *)
EndBase(why) ==
  /\ base = "live" /\ pc # "done"
  /\ base' = why
  /\ stream' = [stream EXCEPT !.ctx = IF @ = "live" THEN why ELSE @]
  /\ batch' = [batch EXCEPT !.ctx = IF @ = "live" THEN why ELSE @]
  /\ UNCHANGED <<kind, pc, ops, wire, work>>

(* pgx closes a connection whose read or write was interrupted.            *)
Lose(why) ==
  /\ link' = FALSE
  /\ cause' = IF link THEN why ELSE cause

(* The network drops the connection.                                       *)
LinkDown ==
  /\ conn = "held" /\ link
  /\ Lose("network")
  /\ UNCHANGED <<kind, pc, ops, base, conn, busy, tx, stream, batch, work>>

(* An error answered by the server aborts the transaction it falls in.     *)
Aborted == IF tx = "open" THEN "failed" ELSE tx

(* A statement of this session reaches the server.                         *)
Usable == conn = "held" /\ link /\ busy = "free" /\ tx # "failed"

(* Whose cancellation an interrupted stream has seen.                      *)
StreamCause == IF ~link THEN "network" ELSE IF base # "live" THEN "base" ELSE "watchdog"

-----------------------------------------------------------------------------
(* runIter.                                                                *)

StartIter ==
  /\ pc = "body" /\ ops < MaxOps
  /\ ops' = ops + 1
  /\ stream' = [NoStream EXCEPT !.ctx = base]
  /\ pc' = "query"
  /\ UNCHANGED <<kind, base, wire, batch, work>>

(* Query answers with rows: the pool lends a connection if it is a pool's. *)
(* Nothing but the stream's context bounds the wait for it.                *)
QueryOk ==
  /\ pc = "query" /\ stream.ctx = "live"
  /\ kind = "pool" \/ Usable
  /\ conn' = "held" /\ link' = (kind = "pool" \/ link) /\ busy' = "rows"
  /\ \E n \in 0 .. MaxRows : stream' = [stream EXCEPT !.total = n]
  /\ pc' = "arm"
  /\ UNCHANGED <<kind, ops, base, tx, cause, batch, work>>

QueryAnswers == pc' = "body" /\ stream' = [stream EXCEPT !.res = "query"]

(* Query fails before anything is sent: no usable connection, no context.  *)
QueryRefused ==
  /\ pc = "query"
  /\ stream.ctx # "live" \/ (kind # "pool" /\ ~Usable)
  /\ QueryAnswers
  /\ UNCHANGED <<kind, ops, base, wire, batch, work>>

(* The server rejects the statement.                                       *)
QueryError ==
  /\ pc = "query" /\ stream.ctx = "live"
  /\ kind = "pool" \/ Usable
  /\ QueryAnswers
  /\ tx' = Aborted
  /\ UNCHANGED <<kind, ops, base, conn, link, busy, cause, batch, work>>

(* The context ends while the statement is on its way.  A pool replaces    *)
(* the connection it had lent.                                             *)
QueryLost ==
  /\ pc = "query" /\ kind # "pool" /\ Usable /\ stream.ctx # "live"
  /\ QueryAnswers
  /\ Lose("base")
  /\ UNCHANGED <<kind, ops, base, conn, busy, tx, batch, work>>

(* time.AfterFunc(CommandTimeout, scancel).                                *)
Arm ==
  /\ pc = "arm"
  /\ stream' = [stream EXCEPT !.wd = "armed"]
  /\ pc' = "next"
  /\ UNCHANGED <<kind, ops, base, wire, batch, work>>

(* CommandTimeout has passed.  The timer starts a goroutine, which Stop no *)
(* longer stops, ...                                                       *)
WatchdogFires ==
  /\ stream.wd = "armed"
  /\ stream' = [stream EXCEPT !.wd = "firing"]
  /\ UNCHANGED <<kind, pc, ops, base, wire, batch, work>>

WatchdogLeavesContext ==
  /\ stream.wd = "firing"
  /\ stream' = [stream EXCEPT !.wd = "fired"]
  /\ UNCHANGED <<kind, pc, ops, base, wire, batch, work>>

(* ... and which calls scancel.                                            *)
WatchdogCancels ==
  /\ stream.wd = "firing"
  /\ stream' = [stream EXCEPT !.wd = "fired", !.ctx = IF @ = "live" THEN "canceled" ELSE @]
  /\ UNCHANGED <<kind, pc, ops, base, wire, batch, work>>

StopWatchdog(w) == IF w = "armed" THEN "stopped" ELSE w

(* rows.Next reads a row: one already received is read even if the context *)
(* has ended meanwhile.                                                    *)
Row ==
  /\ pc = "next" /\ link /\ stream.got < stream.total
  /\ stream' = [stream EXCEPT !.got = @ + 1]
  /\ pc' = "disarm"
  /\ UNCHANGED <<kind, ops, base, wire, batch, work>>

(* Closed rows free the connection, and give a pool's connection back.     *)
RowsClosed ==
  /\ busy' = "free"
  /\ conn' = IF kind = "pool" THEN "pool" ELSE conn

(* rows.Next answers false and closes the rows: the result set is complete *)
Complete ==
  /\ pc = "next" /\ link /\ stream.got = stream.total
  /\ RowsClosed
  /\ pc' = "err"
  /\ UNCHANGED <<kind, ops, base, link, tx, cause, stream, batch, work>>

(* ..., or the context ended or the link broke, ...                        *)
Interrupted ==
  /\ pc = "next" /\ (stream.ctx # "live" \/ ~link)
  /\ RowsClosed /\ Lose(StreamCause)
  /\ stream' = [stream EXCEPT !.err = IF stream.ctx = "live" THEN "network" ELSE stream.ctx]
  /\ pc' = "err"
  /\ UNCHANGED <<kind, ops, base, tx, batch, work>>

(* ... or the server answered with an error.                               *)
StreamError ==
  /\ pc = "next" /\ link
  /\ RowsClosed
  /\ tx' = Aborted
  /\ stream' = [stream EXCEPT !.err = "server"]
  /\ pc' = "err"
  /\ UNCHANGED <<kind, ops, base, link, cause, batch, work>>

DisarmForgotten ==
  /\ pc = "disarm"
  /\ stream' = [stream EXCEPT !.first = FALSE]
  /\ pc' = "decode"
  /\ UNCHANGED <<kind, ops, base, wire, batch, work>>

(* disarmAfter: only the first row disarms.                                *)
Disarm ==
  /\ pc = "disarm"
  /\ stream' = [stream EXCEPT !.wd = IF stream.first THEN StopWatchdog(@) ELSE @,
                              !.first = FALSE]
  /\ pc' = "decode"
  /\ UNCHANGED <<kind, ops, base, wire, batch, work>>

(* A row that does not fit the struct ends the iteration.                  *)
DecodeFails ==
  /\ pc = "decode"
  /\ stream' = [stream EXCEPT !.res = "decode"]
  /\ pc' = "close"
  /\ UNCHANGED <<kind, ops, base, wire, batch, work>>

(* The row is handed to fn, ...                                            *)
Decode ==
  /\ pc = "decode"
  /\ stream' = [stream EXCEPT !.seen = @ + 1]
  /\ pc' = "fn"
  /\ UNCHANGED <<kind, ops, base, wire, batch, work>>

(* ... which answers nil ...                                               *)
FnContinues ==
  /\ pc = "fn"
  /\ pc' = "next"
  /\ UNCHANGED <<kind, ops, base, wire, stream, batch, work>>

(* ... or stops the iteration.                                             *)
FnStops ==
  /\ pc = "fn"
  /\ stream' = [stream EXCEPT !.res = "consumer"]
  /\ pc' = "close"
  /\ UNCHANGED <<kind, ops, base, wire, batch, work>>

RowsErrIgnored ==
  /\ pc = "err"
  /\ stream' = [stream EXCEPT !.res = "nil"]
  /\ pc' = "close"
  /\ UNCHANGED <<kind, ops, base, wire, batch, work>>

(* rows.Err after the loop.                                                *)
RowsErr ==
  /\ pc = "err"
  /\ stream' = [stream EXCEPT !.res =
       CASE stream.err = "none" -> "nil"
         [] stream.first /\ stream.err = "deadline" -> "firstrow"
         [] OTHER -> "failed"]
  /\ pc' = "close"
  /\ UNCHANGED <<kind, ops, base, wire, batch, work>>

(* The deferred calls, last first: watchdog.Stop; rows.Close; scancel, when *)
(* nothing depends on the context any more.  Rows that the loop has read   *)
(* to their end are closed already.                                        *)
Return == pc' = "body" /\ stream' = [stream EXCEPT !.wd = StopWatchdog(@)]

AlreadyClosed ==
  /\ pc = "close" /\ busy # "rows"
  /\ Return
  /\ UNCHANGED <<kind, ops, base, wire, batch, work>>

(* rows.Close reads what is left of the result set, an error included, ... *)
CloseRows ==
  /\ pc = "close" /\ busy = "rows" /\ link
  /\ RowsClosed /\ tx' \in {tx, Aborted}
  /\ Return
  /\ UNCHANGED <<kind, ops, base, link, cause, batch, work>>

CloseAfterCancel ==
  /\ pc = "close" /\ busy = "rows"
  /\ RowsClosed /\ Lose(StreamCause)
  /\ Return
  /\ UNCHANGED <<kind, ops, base, tx, batch, work>>

(* ... unless the stream's context ends or the link breaks.                *)
CloseInterrupted ==
  /\ pc = "close" /\ busy = "rows" /\ (stream.ctx # "live" \/ ~link)
  /\ RowsClosed /\ Lose(StreamCause)
  /\ Return
  /\ UNCHANGED <<kind, ops, base, tx, batch, work>>

-----------------------------------------------------------------------------
(* Batches of a transaction.                                               *)

(* Tx.SendBatch: the statements queued are sent under a context of their   *)
(* own, and the connection is busy until the results are closed.           *)
SendBatch ==
  /\ pc = "body" /\ kind = "tx" /\ ops < MaxOps
  /\ link /\ busy = "free" /\ base = "live"
  /\ \E n \in 1 .. MaxQueue :
       /\ batch' = [NoBatch EXCEPT !.queued = n, !.open = TRUE]
       /\ asked' = asked + n
  /\ ops' = ops + 1 /\ busy' = "batch"
  /\ UNCHANGED <<kind, pc, base, conn, link, tx, cause, stream, applied, told, answer>>

(* Nothing is sent on a connection that is busy, lost or without a         *)
(* context: BatchResults answers the error to every call.                  *)
SendBatchRefused ==
  /\ pc = "body" /\ kind = "tx" /\ ops < MaxOps
  /\ ~link \/ busy # "free" \/ base # "live"
  /\ ops' = ops + 1
  /\ UNCHANGED <<kind, pc, base, wire, stream, batch, work>>

(* Nor for an empty batch: pgx answers results that have nothing to read   *)
(* and nothing to close.                                                   *)
SendBatchEmpty ==
  /\ pc = "body" /\ kind = "tx" /\ ops < MaxOps
  /\ ops' = ops + 1
  /\ UNCHANGED <<kind, pc, base, wire, stream, batch, work>>

(* Preparing the statements fails, or CommandTimeout interrupts it.        *)
SendBatchFails ==
  /\ pc = "body" /\ kind = "tx" /\ ops < MaxOps
  /\ link /\ busy = "free" /\ base = "live"
  /\ \/ tx' = Aborted /\ UNCHANGED <<link, cause>>
     \/ Lose("timeout") /\ UNCHANGED tx
  /\ ops' = ops + 1
  /\ UNCHANGED <<kind, pc, base, conn, busy, stream, batch, work>>

(* The server works through the batch in queue order ...                   *)
ServerRuns ==
  /\ busy = "batch" /\ link /\ tx = "open"
  /\ ~batch.failed /\ batch.ran < batch.queued
  /\ batch' = [batch EXCEPT !.ran = @ + 1]
  /\ applied' = applied + 1
  /\ UNCHANGED <<kind, pc, ops, base, wire, stream, asked, told, answer>>

(* ... and skips the rest of it after an error.                            *)
ServerRejects ==
  /\ busy = "batch" /\ link
  /\ ~batch.failed /\ batch.ran < batch.queued
  /\ batch' = [batch EXCEPT !.failed = TRUE]
  /\ tx' = Aborted
  /\ UNCHANGED <<kind, pc, ops, base, conn, link, busy, cause, stream, work>>

(* CommandTimeout has passed since SendBatch.                              *)
BatchTimeout ==
  /\ batch.open /\ batch.ctx = "live"
  /\ batch' = [batch EXCEPT !.ctx = "timeout"]
  /\ UNCHANGED <<kind, pc, ops, base, wire, stream, work>>

(* Whose cancellation interrupts the reading of results.                   *)
BatchCause ==
  CASE batch.ctx = "closed" -> "own"
    [] batch.ctx = "timeout" -> "timeout"
    [] OTHER -> "base"

ReadResultPastEnd ==
  /\ pc = "body" /\ batch.open /\ link
  /\ batch.read < batch.ran \/ batch.failed
  /\ batch' = [batch EXCEPT !.read = @ + 1]
  /\ told' = IF batch.read < batch.ran THEN told + 1 ELSE told
  /\ UNCHANGED <<kind, pc, ops, base, wire, stream, asked, applied, answer>>

(* ExecResult and RowScan take the next result, the error of the statement *)
(* that failed included, ...                                               *)
ReadResult ==
  /\ pc = "body" /\ batch.open /\ link /\ batch.read < batch.queued
  /\ batch.read < batch.ran \/ batch.failed
  /\ batch' = [batch EXCEPT !.read = @ + 1]
  /\ told' = IF batch.read < batch.ran THEN told + 1 ELSE told
  /\ UNCHANGED <<kind, pc, ops, base, wire, stream, asked, applied, answer>>

(* ... unless the batch's context ends first.                              *)
ReadInterrupted ==
  /\ pc = "body" /\ batch.open /\ link /\ batch.read < batch.queued
  /\ batch.ctx # "live"
  /\ Lose(BatchCause)
  /\ UNCHANGED <<kind, pc, ops, base, conn, busy, tx, stream, batch, work>>

CloseBatchUncancelled ==
  /\ pc = "body" /\ batch.open
  /\ pc' = "drain"
  /\ UNCHANGED <<kind, ops, base, wire, stream, batch, work>>

(* BatchResults.Close: the context is cancelled first ...                  *)
CloseBatch ==
  /\ pc = "body" /\ batch.open
  /\ batch' = [batch EXCEPT !.ctx = IF @ = "live" THEN "closed" ELSE @]
  /\ pc' = "drain"
  /\ UNCHANGED <<kind, ops, base, wire, stream, work>>

(* ... and the results are closed then: what is left of them is read, ...  *)
Drain ==
  /\ pc = "drain" /\ link
  /\ batch.failed \/ batch.ran = batch.queued
  /\ batch' = [batch EXCEPT !.open = FALSE]
  /\ busy' = "free"
  /\ pc' = "body"
  /\ UNCHANGED <<kind, ops, base, conn, link, tx, cause, stream, work>>

(* ... if the cancellation does not interrupt it.                          *)
DrainInterrupted ==
  /\ pc = "drain" /\ (batch.ctx # "live" \/ ~link)
  /\ Lose(BatchCause)
  /\ batch' = [batch EXCEPT !.open = FALSE]
  /\ busy' = "free"
  /\ pc' = "body"
  /\ UNCHANGED <<kind, ops, base, conn, tx, stream, work>>

-----------------------------------------------------------------------------
(* COPY on a Conn.                                                         *)

(* Conn.BulkInsert copies all rows and reports their number, ...           *)
BulkInsert ==
  /\ pc = "body" /\ kind = "conn" /\ ops < MaxOps
  /\ Usable /\ base = "live"
  /\ \E n \in 0 .. MaxRows : applied' = applied + n /\ told' = told + n
  /\ ops' = ops + 1
  /\ UNCHANGED <<kind, pc, base, wire, stream, batch, asked, answer>>

(* ... is refused by its checks, the connection or the server, ...         *)
BulkFails ==
  /\ pc = "body" /\ kind = "conn" /\ ops < MaxOps
  /\ ops' = ops + 1
  /\ UNCHANGED <<kind, pc, base, wire, stream, batch, work>>

(* ... or is interrupted by its context: the server has then copied        *)
(* everything or nothing.                                                  *)
BulkLost ==
  /\ pc = "body" /\ kind = "conn" /\ ops < MaxOps
  /\ Usable
  /\ Lose("timeout")
  /\ \E n \in 0 .. MaxRows : applied' \in {applied, applied + n}
  /\ ops' = ops + 1
  /\ UNCHANGED <<kind, pc, base, conn, busy, tx, stream, batch, asked, told, answer>>

-----------------------------------------------------------------------------
(* The end of the session.                                                 *)

(* The body returns: nil commits, an error rolls back.  A session without  *)
(* a transaction just gives its connection back.                           *)
BodyReturns ==
  /\ pc = "body"
  /\ \/ kind = "tx" /\ pc' \in {"commit", "rollback"} /\ UNCHANGED conn
     \/ kind # "tx" /\ pc' = "done" /\ conn' = "pool"
  /\ UNCHANGED <<kind, ops, base, link, busy, tx, cause, stream, batch, work>>

(* The transaction ends and its connection goes back to the pool.          *)
Settle(state, a) ==
  /\ tx' = state /\ answer' = a
  /\ conn' = "pool" /\ pc' = "done"
  /\ UNCHANGED <<kind, ops, base, busy, stream, batch, asked, applied, told>>

CommitErrorSwallowed ==
  /\ pc = "commit" /\ link /\ busy = "free" /\ base = "live"
  /\ \/ tx = "open" /\ Settle("committed", "nil")
     \/ tx = "failed" /\ Settle("rolledback", "nil")
  /\ UNCHANGED <<link, cause>>

(* pgx.Tx.Commit: an aborted transaction answers the COMMIT with ROLLBACK. *)
CommitAnswered ==
  /\ pc = "commit" /\ link /\ busy = "free" /\ base = "live"
  /\ \/ tx = "open" /\ Settle("committed", "nil")
     \/ tx = "failed" /\ Settle("rolledback", "error")
  /\ UNCHANGED <<link, cause>>

(* The answer is lost: the server may have committed.                      *)
CommitLost ==
  /\ pc = "commit" /\ link /\ busy = "free"
  /\ \E state \in {"rolledback"} \cup (IF tx = "open" THEN {"committed"} ELSE {}) :
       Settle(state, "error")
  /\ Lose("network")

(* Neither COMMIT nor ROLLBACK can be sent: pgx closes the connection, and *)
(* the server rolls back.                                                  *)
CannotEnd ==
  /\ pc \in {"commit", "rollback"}
  /\ ~link \/ busy # "free" \/ base # "live"
  /\ Settle("rolledback", "error")
  /\ Lose(IF busy # "free" THEN "busy" ELSE "base")

Rollback ==
  /\ pc = "rollback" /\ link /\ busy = "free"
  /\ Settle("rolledback", "error")
  /\ UNCHANGED <<link, cause>>

Finished == pc = "done" /\ UNCHANGED vars

-----------------------------------------------------------------------------
Runtime == WatchdogFires \/ WatchdogCancels \/ BatchTimeout

(* Steps the goroutine takes by itself, or that a context ends for it.     *)
Client ==
  \/ QueryRefused \/ QueryLost \/ Arm \/ Interrupted \/ Disarm
  \/ DecodeFails \/ Decode \/ FnContinues \/ FnStops \/ RowsErr
  \/ AlreadyClosed \/ CloseInterrupted
  \/ DrainInterrupted \/ CommitAnswered \/ CommitLost \/ CannotEnd \/ Rollback

(* Steps that wait for the pool or the server.                             *)
Server ==
  \/ QueryOk \/ QueryError \/ Row \/ Complete \/ StreamError
  \/ CloseRows \/ ServerRuns \/ ServerRejects \/ Drain

(* What the body of the session chooses to do.                             *)
Body ==
  \/ StartIter \/ SendBatch \/ SendBatchRefused \/ SendBatchEmpty \/ SendBatchFails
  \/ ReadResult \/ ReadInterrupted \/ CloseBatch
  \/ BulkInsert \/ BulkFails \/ BulkLost \/ BodyReturns

Next ==
  \/ \E why \in {"canceled", "deadline"} : EndBase(why)
  \/ LinkDown
  \/ Runtime \/ Client \/ Server \/ Body \/ Finished

(* The goroutine runs and the watchdog's timer fires; nothing obliges the  *)
(* server or the pool to answer.                                           *)
Spec ==
  /\ Init /\ [][Next]_vars
  /\ WF_vars(Client) /\ WF_vars(WatchdogFires) /\ WF_vars(WatchdogCancels)

-----------------------------------------------------------------------------
(* Properties.                                                             *)

(* A stream that answers nil has handed every row to the consumer: a       *)
(* stream cut short by the watchdog, by a context or by the network is     *)
(* never taken for a complete one (runIter looks at rows.Err).             *)
NoSilentTruncation == stream.res = "nil" => stream.seen = stream.total

(* Once the consumer has seen a row, the watchdog of CommandTimeout does   *)
(* not go off any more: the rest of the stream is uncapped (disarmAfter).  *)
UncappedAfterFirstRow ==
  [][stream.wd = "armed" /\ stream'.wd = "firing" => stream.seen = 0]_vars

(* A consumer that stops early, or a row that cannot be decoded, does not  *)
(* cost a healthy connection: rows.Close comes before scancel, so that the *)
(* rest of the result set is read and the connection stays usable, unless  *)
(* the captured context ended or the watchdog had gone off.                *)
EarlyStopSparesConnection ==
  [][pc = "close" /\ pc' = "body" /\ link /\ ~link'
       => base # "live" \/ stream.wd = "fired"]_vars

(* Every result that ExecResult or BulkInsert reports is of a statement    *)
(* that the server has executed.                                           *)
ReportedWasDone == told <= applied

(* A transaction that answers nil has executed every statement of every    *)
(* batch it sent, whether or not the body looked at the results: a batch   *)
(* that failed has aborted the transaction, and one that is not closed     *)
(* keeps the connection too busy to commit.                                *)
CommitMeansApplied == answer = "nil" => applied = asked /\ ~batch.open

(* The first row, the end of the result set or an error comes within       *)
(* CommandTimeout even if the server never answers.                        *)
FirstRowBounded == (pc = "next" /\ stream.first) ~> (pc # "next" \/ ~stream.first)

(* BatchResults.Close returns without waiting for the server or for        *)
(* CommandTimeout: that is what the cancellation before it achieves.       *)
CloseReturns == (pc = "drain") ~> (pc = "body")

(* What batch.go says of Close: unread results are drained and the         *)
(* connection becomes usable again.                                        *)
CloseKeepsConnection ==
  [][pc = "drain" /\ pc' = "body" /\ link /\ batch.ctx = "closed" /\ batch.read < batch.queued
       => link']_vars
=============================================================================
