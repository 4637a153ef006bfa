--------------------------- MODULE SessionProofs ---------------------------
(* Proofs about Session for any number of operations, rows and statements. *)
EXTENDS Session, TLAPS

(* Rows received and rows handed over, by where runIter is.                *)
RowsInv ==
  /\ stream.got <= stream.total
  /\ pc \in {"query", "arm"} => stream.got = 0 /\ stream.seen = 0
  /\ pc \in {"next", "fn", "err"} => stream.seen = stream.got
  /\ pc \in {"disarm", "decode"} => stream.seen + 1 = stream.got
  /\ pc = "err" /\ stream.err = "none" => stream.got = stream.total
  /\ pc \in IterPCs \ {"close"} => stream.res = "none"
  /\ stream.res = "nil" => stream.seen = stream.total

(* The watchdog is armed only until the first row, and the context of a    *)
(* stream ends only with the captured one or through the watchdog.         *)
WatchdogInv ==
  /\ pc \in {"query", "arm"} => stream.first /\ stream.wd = "off"
  /\ pc \in {"decode", "fn"} => ~stream.first
  /\ stream.first => stream.seen = 0
  /\ ~stream.first => stream.wd # "armed"
  /\ stream.ctx # "live" => base # "live" \/ stream.wd = "fired"

(* Who occupies the connection.                                            *)
BusyInv ==
  /\ pc \in {"arm", "next", "disarm", "decode", "fn"} => busy = "rows"
  /\ batch.open => busy = "batch" /\ kind = "tx"
  /\ answer # "none" => pc = "done"

(* Results that the server has produced and the caller has not read.       *)
Unread == IF batch.read < batch.ran THEN batch.ran - batch.read ELSE 0

(* The ledger of statements: what was told is covered by what was applied, *)
(* and on a healthy transaction only the batch that is running is missing  *)
(* from what was asked.                                                    *)
LedgerInv ==
  /\ told + Unread <= applied
  /\ tx = "open" => kind = "tx"
  /\ batch.failed => tx # "open"
  /\ tx = "open" /\ link =>
       asked + (IF busy = "batch" THEN batch.ran ELSE 0)
         = applied + (IF busy = "batch" THEN batch.queued ELSE 0)
  /\ answer = "nil" => tx = "committed" /\ applied = asked /\ ~batch.open

IndInv == TypeOK /\ RowsInv /\ WatchdogInv /\ BusyInv /\ LedgerInv

-----------------------------------------------------------------------------
(* What a new stream and a new batch start from, and the initial state.    *)
LEMMA FreshStream ==
  ASSUME NEW b \in Ctx
  PROVE  [total |-> 0, got |-> 0, seen |-> 0, first |-> TRUE, ctx |-> b, wd |-> "off",
          err |-> "none", res |-> "none"] \in StreamType
BY BoundsAssumption DEF StreamType

LEMMA FreshBatch ==
  ASSUME NEW n \in 1 .. MaxQueue
  PROVE  [queued |-> n, ran |-> 0, read |-> 0, failed |-> FALSE, open |-> TRUE,
          ctx |-> "live"] \in BatchType
BY BoundsAssumption DEF BatchType, Ctx

LEMMA InitInd == Init => IndInv
<1> USE BoundsAssumption DEF Init
<1>1. Init => TypeOK BY DEF TypeOK, StreamType, BatchType, NoStream, NoBatch, Ctx, Causes, IterPCs
<1>2. Init => RowsInv BY DEF RowsInv, NoStream, IterPCs
<1>3. Init => WatchdogInv BY DEF WatchdogInv, NoStream
<1>4. Init => BusyInv BY DEF BusyInv, NoBatch
<1>5. Init => LedgerInv BY DEF LedgerInv, Unread, NoBatch
<1> QED BY <1>1, <1>2, <1>3, <1>4, <1>5 DEF IndInv

-----------------------------------------------------------------------------
(* The network and the timers.                                             *)
LEMMA LinkDownInd == IndInv /\ LinkDown => IndInv'
<1> SUFFICES ASSUME IndInv, LinkDown PROVE IndInv'
  OBVIOUS
<1> USE DEF IndInv, LinkDown, Lose, wire, work
<1>1. TypeOK'
  <2> USE BoundsAssumption DEF TypeOK
  <2>1. link' \in BOOLEAN /\ cause' \in Causes BY DEF Causes
  <2>2. stream' \in StreamType BY DEF StreamType, RowsInv, Ctx
  <2>3. batch' \in BatchType BY DEF BatchType, Ctx
  <2> QED BY <2>1, <2>2, <2>3 DEF IterPCs
<1>2. RowsInv' BY DEF RowsInv, TypeOK, StreamType, IterPCs
<1>3. WatchdogInv' BY DEF WatchdogInv, TypeOK, StreamType, RowsInv
<1>4. BusyInv' BY DEF BusyInv, TypeOK, BatchType
<1>5. LedgerInv' BY DEF LedgerInv, TypeOK, BatchType, BusyInv, Unread
<1> QED BY <1>1, <1>2, <1>3, <1>4, <1>5

LEMMA WatchdogFiresInd == IndInv /\ WatchdogFires => IndInv'
<1> SUFFICES ASSUME IndInv, WatchdogFires PROVE IndInv'
  OBVIOUS
<1> USE DEF IndInv, WatchdogFires, wire, work
<1>1. TypeOK' BY BoundsAssumption DEF TypeOK, StreamType, BatchType, RowsInv, Ctx, IterPCs, Causes
<1>2. RowsInv' BY DEF RowsInv, TypeOK, StreamType, IterPCs
<1>3. WatchdogInv' BY DEF WatchdogInv, TypeOK, StreamType, RowsInv
<1>4. BusyInv' BY DEF BusyInv, TypeOK, BatchType
<1>5. LedgerInv' BY DEF LedgerInv, TypeOK, BatchType, BusyInv, Unread
<1> QED BY <1>1, <1>2, <1>3, <1>4, <1>5

LEMMA WatchdogCancelsInd == IndInv /\ WatchdogCancels => IndInv'
<1> SUFFICES ASSUME IndInv, WatchdogCancels PROVE IndInv'
  OBVIOUS
<1> USE DEF IndInv, WatchdogCancels, wire, work
<1>1. TypeOK'
  <2> USE BoundsAssumption DEF TypeOK
  <2>1. link' \in BOOLEAN /\ cause' \in Causes BY DEF Causes
  <2>2. stream' \in StreamType BY DEF StreamType, RowsInv, Ctx
  <2>3. batch' \in BatchType BY DEF BatchType, Ctx
  <2> QED BY <2>1, <2>2, <2>3 DEF IterPCs
<1>2. RowsInv' BY DEF RowsInv, TypeOK, StreamType, IterPCs
<1>3. WatchdogInv' BY DEF WatchdogInv, TypeOK, StreamType, RowsInv
<1>4. BusyInv' BY DEF BusyInv, TypeOK, BatchType
<1>5. LedgerInv' BY DEF LedgerInv, TypeOK, BatchType, BusyInv, Unread
<1> QED BY <1>1, <1>2, <1>3, <1>4, <1>5

LEMMA BatchTimeoutInd == IndInv /\ BatchTimeout => IndInv'
<1> SUFFICES ASSUME IndInv, BatchTimeout PROVE IndInv'
  OBVIOUS
<1> USE DEF IndInv, BatchTimeout, wire, work
<1>1. TypeOK' BY BoundsAssumption DEF TypeOK, StreamType, BatchType, RowsInv, Ctx, IterPCs, Causes
<1>2. RowsInv' BY DEF RowsInv, TypeOK, StreamType, IterPCs
<1>3. WatchdogInv' BY DEF WatchdogInv, TypeOK, StreamType, RowsInv
<1>4. BusyInv' BY DEF BusyInv, TypeOK, BatchType
<1>5. LedgerInv' BY DEF LedgerInv, TypeOK, BatchType, BusyInv, Unread
<1> QED BY <1>1, <1>2, <1>3, <1>4, <1>5

-----------------------------------------------------------------------------
(* The start of a stream, up to the arming of its watchdog.                *)
LEMMA StartIterInd == IndInv /\ StartIter => IndInv'
<1> SUFFICES ASSUME IndInv, StartIter PROVE IndInv'
  OBVIOUS
<1> USE DEF IndInv, StartIter, NoStream, wire, work
<1>1. TypeOK'
  <2>1. stream' = [total |-> 0, got |-> 0, seen |-> 0, first |-> TRUE, ctx |-> base,
                   wd |-> "off", err |-> "none", res |-> "none"]
    OBVIOUS
  <2>2. stream' \in StreamType BY <2>1, FreshStream DEF TypeOK
  <2>3. ops' \in 0 .. MaxOps BY BoundsAssumption DEF TypeOK
  <2> QED BY <2>2, <2>3 DEF TypeOK, IterPCs
<1>2. RowsInv' BY DEF RowsInv, TypeOK, StreamType, IterPCs
<1>3. WatchdogInv' BY DEF WatchdogInv, TypeOK, StreamType, RowsInv
<1>4. BusyInv' BY DEF BusyInv, TypeOK, BatchType
<1>5. LedgerInv' BY DEF LedgerInv, TypeOK, BatchType, BusyInv, Unread
<1> QED BY <1>1, <1>2, <1>3, <1>4, <1>5

LEMMA QueryOkInd == IndInv /\ QueryOk => IndInv'
<1> SUFFICES ASSUME IndInv, QueryOk PROVE IndInv'
  OBVIOUS
<1> USE DEF IndInv, QueryOk, Usable, wire, work
<1>1. TypeOK' BY BoundsAssumption DEF TypeOK, StreamType, BatchType, RowsInv, Ctx, IterPCs, Causes
<1>2. RowsInv' BY DEF RowsInv, TypeOK, StreamType, IterPCs
<1>3. WatchdogInv' BY DEF WatchdogInv, TypeOK, StreamType, RowsInv
<1>4. BusyInv' BY DEF BusyInv, TypeOK, BatchType
<1>5. LedgerInv' BY DEF LedgerInv, TypeOK, BatchType, BusyInv, Unread
<1> QED BY <1>1, <1>2, <1>3, <1>4, <1>5

LEMMA QueryRefusedInd == IndInv /\ QueryRefused => IndInv'
<1> SUFFICES ASSUME IndInv, QueryRefused PROVE IndInv'
  OBVIOUS
<1> USE DEF IndInv, QueryRefused, QueryAnswers, wire, work
<1>1. TypeOK' BY BoundsAssumption DEF TypeOK, StreamType, BatchType, RowsInv, Ctx, IterPCs, Causes
<1>2. RowsInv' BY DEF RowsInv, TypeOK, StreamType, IterPCs
<1>3. WatchdogInv' BY DEF WatchdogInv, TypeOK, StreamType, RowsInv
<1>4. BusyInv' BY DEF BusyInv, TypeOK, BatchType
<1>5. LedgerInv' BY DEF LedgerInv, TypeOK, BatchType, BusyInv, Unread
<1> QED BY <1>1, <1>2, <1>3, <1>4, <1>5

LEMMA QueryErrorInd == IndInv /\ QueryError => IndInv'
<1> SUFFICES ASSUME IndInv, QueryError PROVE IndInv'
  OBVIOUS
<1> USE DEF IndInv, QueryError, QueryAnswers, Aborted, wire, work
<1>1. TypeOK' BY BoundsAssumption DEF TypeOK, StreamType, BatchType, RowsInv, Ctx, IterPCs, Causes
<1>2. RowsInv' BY DEF RowsInv, TypeOK, StreamType, IterPCs
<1>3. WatchdogInv' BY DEF WatchdogInv, TypeOK, StreamType, RowsInv
<1>4. BusyInv' BY DEF BusyInv, TypeOK, BatchType
<1>5. LedgerInv' BY DEF LedgerInv, TypeOK, BatchType, BusyInv, Unread
<1> QED BY <1>1, <1>2, <1>3, <1>4, <1>5

LEMMA QueryLostInd == IndInv /\ QueryLost => IndInv'
<1> SUFFICES ASSUME IndInv, QueryLost PROVE IndInv'
  OBVIOUS
<1> USE DEF IndInv, QueryLost, QueryAnswers, Lose, wire, work
<1>1. TypeOK'
  <2> USE BoundsAssumption DEF TypeOK
  <2>1. link' \in BOOLEAN /\ cause' \in Causes BY DEF Causes
  <2>2. stream' \in StreamType BY DEF StreamType, RowsInv, Ctx
  <2>3. batch' \in BatchType BY DEF BatchType, Ctx
  <2> QED BY <2>1, <2>2, <2>3 DEF IterPCs
<1>2. RowsInv' BY DEF RowsInv, TypeOK, StreamType, IterPCs
<1>3. WatchdogInv' BY DEF WatchdogInv, TypeOK, StreamType, RowsInv
<1>4. BusyInv' BY DEF BusyInv, TypeOK, BatchType
<1>5. LedgerInv' BY DEF LedgerInv, TypeOK, BatchType, BusyInv, Unread
<1> QED BY <1>1, <1>2, <1>3, <1>4, <1>5

LEMMA ArmInd == IndInv /\ Arm => IndInv'
<1> SUFFICES ASSUME IndInv, Arm PROVE IndInv'
  OBVIOUS
<1> USE DEF IndInv, Arm, wire, work
<1>1. TypeOK' BY BoundsAssumption DEF TypeOK, StreamType, BatchType, RowsInv, Ctx, IterPCs, Causes
<1>2. RowsInv' BY DEF RowsInv, TypeOK, StreamType, IterPCs
<1>3. WatchdogInv' BY DEF WatchdogInv, TypeOK, StreamType, RowsInv
<1>4. BusyInv' BY DEF BusyInv, TypeOK, BatchType
<1>5. LedgerInv' BY DEF LedgerInv, TypeOK, BatchType, BusyInv, Unread
<1> QED BY <1>1, <1>2, <1>3, <1>4, <1>5

-----------------------------------------------------------------------------
(* The loop of runIter and its deferred calls.  Each step moves the two    *)
(* row counters as RowsInv says, and only Disarm and Return touch an armed *)
(* watchdog.                                                               *)
LEMMA RowInd == IndInv /\ Row => IndInv'
<1> SUFFICES ASSUME IndInv, Row PROVE IndInv'
  OBVIOUS
<1> USE DEF IndInv, Row, wire, work
<1>1. TypeOK' BY BoundsAssumption DEF TypeOK, StreamType, BatchType, RowsInv, Ctx, IterPCs, Causes
<1>2. RowsInv' BY DEF RowsInv, TypeOK, StreamType, IterPCs
<1>3. WatchdogInv' BY DEF WatchdogInv, TypeOK, StreamType, RowsInv
<1>4. BusyInv' BY DEF BusyInv, TypeOK, BatchType
<1>5. LedgerInv' BY DEF LedgerInv, TypeOK, BatchType, BusyInv, Unread
<1> QED BY <1>1, <1>2, <1>3, <1>4, <1>5

LEMMA CompleteInd == IndInv /\ Complete => IndInv'
<1> SUFFICES ASSUME IndInv, Complete PROVE IndInv'
  OBVIOUS
<1> USE DEF IndInv, Complete, RowsClosed, wire, work
<1>1. TypeOK' BY BoundsAssumption DEF TypeOK, StreamType, BatchType, RowsInv, Ctx, IterPCs, Causes
<1>2. RowsInv' BY DEF RowsInv, TypeOK, StreamType, IterPCs
<1>3. WatchdogInv' BY DEF WatchdogInv, TypeOK, StreamType, RowsInv
<1>4. BusyInv' BY DEF BusyInv, TypeOK, BatchType
<1>5. LedgerInv' BY DEF LedgerInv, TypeOK, BatchType, BusyInv, Unread
<1> QED BY <1>1, <1>2, <1>3, <1>4, <1>5

LEMMA InterruptedInd == IndInv /\ Interrupted => IndInv'
<1> SUFFICES ASSUME IndInv, Interrupted PROVE IndInv'
  OBVIOUS
<1> USE DEF IndInv, Interrupted, RowsClosed, Lose, StreamCause, wire, work
<1>1. TypeOK'
  <2> USE BoundsAssumption DEF TypeOK
  <2>1. link' \in BOOLEAN /\ cause' \in Causes BY DEF Causes
  <2>2. stream' \in StreamType BY DEF StreamType, RowsInv, Ctx
  <2>3. batch' \in BatchType BY DEF BatchType, Ctx
  <2> QED BY <2>1, <2>2, <2>3 DEF IterPCs
<1>2. RowsInv'
  <2>1. stream'.err # "none" /\ stream'.res = stream.res
        /\ stream'.got = stream.got /\ stream'.seen = stream.seen /\ stream'.total = stream.total
    BY DEF TypeOK, StreamType, Ctx
  <2> QED BY <2>1 DEF RowsInv, IterPCs
<1>3. WatchdogInv' BY DEF WatchdogInv, TypeOK, StreamType, RowsInv
<1>4. BusyInv' BY DEF BusyInv, TypeOK, BatchType
<1>5. LedgerInv' BY DEF LedgerInv, TypeOK, BatchType, BusyInv, Unread
<1> QED BY <1>1, <1>2, <1>3, <1>4, <1>5

LEMMA StreamErrorInd == IndInv /\ StreamError => IndInv'
<1> SUFFICES ASSUME IndInv, StreamError PROVE IndInv'
  OBVIOUS
<1> USE DEF IndInv, StreamError, RowsClosed, Aborted, wire, work
<1>1. TypeOK' BY BoundsAssumption DEF TypeOK, StreamType, BatchType, RowsInv, Ctx, IterPCs, Causes
<1>2. RowsInv' BY DEF RowsInv, TypeOK, StreamType, IterPCs
<1>3. WatchdogInv' BY DEF WatchdogInv, TypeOK, StreamType, RowsInv
<1>4. BusyInv' BY DEF BusyInv, TypeOK, BatchType
<1>5. LedgerInv' BY DEF LedgerInv, TypeOK, BatchType, BusyInv, Unread
<1> QED BY <1>1, <1>2, <1>3, <1>4, <1>5

LEMMA DisarmInd == IndInv /\ Disarm => IndInv'
<1> SUFFICES ASSUME IndInv, Disarm PROVE IndInv'
  OBVIOUS
<1> USE DEF IndInv, Disarm, StopWatchdog, wire, work
<1>1. TypeOK'
  <2> USE BoundsAssumption DEF TypeOK
  <2>1. link' \in BOOLEAN /\ cause' \in Causes BY DEF Causes
  <2>2. stream' \in StreamType BY DEF StreamType, RowsInv, Ctx
  <2>3. batch' \in BatchType BY DEF BatchType, Ctx
  <2> QED BY <2>1, <2>2, <2>3 DEF IterPCs
<1>2. RowsInv' BY DEF RowsInv, TypeOK, StreamType, IterPCs
<1>3. WatchdogInv' BY DEF WatchdogInv, TypeOK, StreamType, RowsInv
<1>4. BusyInv' BY DEF BusyInv, TypeOK, BatchType
<1>5. LedgerInv' BY DEF LedgerInv, TypeOK, BatchType, BusyInv, Unread
<1> QED BY <1>1, <1>2, <1>3, <1>4, <1>5

LEMMA DecodeFailsInd == IndInv /\ DecodeFails => IndInv'
<1> SUFFICES ASSUME IndInv, DecodeFails PROVE IndInv'
  OBVIOUS
<1> USE DEF IndInv, DecodeFails, wire, work
<1>1. TypeOK' BY BoundsAssumption DEF TypeOK, StreamType, BatchType, RowsInv, Ctx, IterPCs, Causes
<1>2. RowsInv' BY DEF RowsInv, TypeOK, StreamType, IterPCs
<1>3. WatchdogInv' BY DEF WatchdogInv, TypeOK, StreamType, RowsInv
<1>4. BusyInv' BY DEF BusyInv, TypeOK, BatchType
<1>5. LedgerInv' BY DEF LedgerInv, TypeOK, BatchType, BusyInv, Unread
<1> QED BY <1>1, <1>2, <1>3, <1>4, <1>5

LEMMA DecodeInd == IndInv /\ Decode => IndInv'
<1> SUFFICES ASSUME IndInv, Decode PROVE IndInv'
  OBVIOUS
<1> USE DEF IndInv, Decode, wire, work
<1>1. TypeOK' BY BoundsAssumption DEF TypeOK, StreamType, BatchType, RowsInv, Ctx, IterPCs, Causes
<1>2. RowsInv' BY DEF RowsInv, TypeOK, StreamType, IterPCs
<1>3. WatchdogInv' BY DEF WatchdogInv, TypeOK, StreamType, RowsInv
<1>4. BusyInv' BY DEF BusyInv, TypeOK, BatchType
<1>5. LedgerInv' BY DEF LedgerInv, TypeOK, BatchType, BusyInv, Unread
<1> QED BY <1>1, <1>2, <1>3, <1>4, <1>5

LEMMA FnContinuesInd == IndInv /\ FnContinues => IndInv'
<1> SUFFICES ASSUME IndInv, FnContinues PROVE IndInv'
  OBVIOUS
<1> USE DEF IndInv, FnContinues, wire, work
<1>1. TypeOK' BY BoundsAssumption DEF TypeOK, StreamType, BatchType, RowsInv, Ctx, IterPCs, Causes
<1>2. RowsInv' BY DEF RowsInv, TypeOK, StreamType, IterPCs
<1>3. WatchdogInv' BY DEF WatchdogInv, TypeOK, StreamType, RowsInv
<1>4. BusyInv' BY DEF BusyInv, TypeOK, BatchType
<1>5. LedgerInv' BY DEF LedgerInv, TypeOK, BatchType, BusyInv, Unread
<1> QED BY <1>1, <1>2, <1>3, <1>4, <1>5

LEMMA FnStopsInd == IndInv /\ FnStops => IndInv'
<1> SUFFICES ASSUME IndInv, FnStops PROVE IndInv'
  OBVIOUS
<1> USE DEF IndInv, FnStops, wire, work
<1>1. TypeOK' BY BoundsAssumption DEF TypeOK, StreamType, BatchType, RowsInv, Ctx, IterPCs, Causes
<1>2. RowsInv' BY DEF RowsInv, TypeOK, StreamType, IterPCs
<1>3. WatchdogInv' BY DEF WatchdogInv, TypeOK, StreamType, RowsInv
<1>4. BusyInv' BY DEF BusyInv, TypeOK, BatchType
<1>5. LedgerInv' BY DEF LedgerInv, TypeOK, BatchType, BusyInv, Unread
<1> QED BY <1>1, <1>2, <1>3, <1>4, <1>5

LEMMA RowsErrInd == IndInv /\ RowsErr => IndInv'
<1> SUFFICES ASSUME IndInv, RowsErr PROVE IndInv'
  OBVIOUS
<1> USE DEF IndInv, RowsErr, wire, work
<1>1. TypeOK' BY BoundsAssumption DEF TypeOK, StreamType, BatchType, RowsInv, Ctx, IterPCs, Causes
<1>2. RowsInv' BY DEF RowsInv, TypeOK, StreamType, IterPCs
<1>3. WatchdogInv' BY DEF WatchdogInv, TypeOK, StreamType, RowsInv
<1>4. BusyInv' BY DEF BusyInv, TypeOK, BatchType
<1>5. LedgerInv' BY DEF LedgerInv, TypeOK, BatchType, BusyInv, Unread
<1> QED BY <1>1, <1>2, <1>3, <1>4, <1>5

LEMMA AlreadyClosedInd == IndInv /\ AlreadyClosed => IndInv'
<1> SUFFICES ASSUME IndInv, AlreadyClosed PROVE IndInv'
  OBVIOUS
<1> USE DEF IndInv, AlreadyClosed, Return, StopWatchdog, wire, work
<1>1. TypeOK' BY BoundsAssumption DEF TypeOK, StreamType, BatchType, RowsInv, Ctx, IterPCs, Causes
<1>2. RowsInv' BY DEF RowsInv, TypeOK, StreamType, IterPCs
<1>3. WatchdogInv' BY DEF WatchdogInv, TypeOK, StreamType, RowsInv
<1>4. BusyInv' BY DEF BusyInv, TypeOK, BatchType
<1>5. LedgerInv' BY DEF LedgerInv, TypeOK, BatchType, BusyInv, Unread
<1> QED BY <1>1, <1>2, <1>3, <1>4, <1>5

LEMMA CloseRowsInd == IndInv /\ CloseRows => IndInv'
<1> SUFFICES ASSUME IndInv, CloseRows PROVE IndInv'
  OBVIOUS
<1> USE DEF IndInv, CloseRows, RowsClosed, Aborted, Return, StopWatchdog, wire, work
<1>1. TypeOK' BY BoundsAssumption DEF TypeOK, StreamType, BatchType, RowsInv, Ctx, IterPCs, Causes
<1>2. RowsInv' BY DEF RowsInv, TypeOK, StreamType, IterPCs
<1>3. WatchdogInv' BY DEF WatchdogInv, TypeOK, StreamType, RowsInv
<1>4. BusyInv' BY DEF BusyInv, TypeOK, BatchType
<1>5. LedgerInv' BY DEF LedgerInv, TypeOK, BatchType, BusyInv, Unread
<1> QED BY <1>1, <1>2, <1>3, <1>4, <1>5

LEMMA CloseInterruptedInd == IndInv /\ CloseInterrupted => IndInv'
<1> SUFFICES ASSUME IndInv, CloseInterrupted PROVE IndInv'
  OBVIOUS
<1> USE DEF IndInv, CloseInterrupted, RowsClosed, Lose, StreamCause, Return, StopWatchdog, wire, work
<1>1. TypeOK'
  <2> USE BoundsAssumption DEF TypeOK
  <2>1. link' \in BOOLEAN /\ cause' \in Causes BY DEF Causes
  <2>2. stream' \in StreamType BY DEF StreamType, RowsInv, Ctx
  <2>3. batch' \in BatchType BY DEF BatchType, Ctx
  <2> QED BY <2>1, <2>2, <2>3 DEF IterPCs
<1>2. RowsInv' BY DEF RowsInv, TypeOK, StreamType, IterPCs
<1>3. WatchdogInv' BY DEF WatchdogInv, TypeOK, StreamType, RowsInv
<1>4. BusyInv' BY DEF BusyInv, TypeOK, BatchType
<1>5. LedgerInv' BY DEF LedgerInv, TypeOK, BatchType, BusyInv, Unread
<1> QED BY <1>1, <1>2, <1>3, <1>4, <1>5

-----------------------------------------------------------------------------
(* Batches: the ledger moves one statement at a time.                      *)
LEMMA SendBatchInd == IndInv /\ SendBatch => IndInv'
<1> SUFFICES ASSUME IndInv, SendBatch PROVE IndInv'
  OBVIOUS
<1> USE DEF IndInv, SendBatch, NoBatch, wire, work
<1>1. TypeOK'
  <2>1. PICK n \in 1 .. MaxQueue :
          /\ batch' = [queued |-> n, ran |-> 0, read |-> 0, failed |-> FALSE,
                       open |-> TRUE, ctx |-> "live"]
          /\ asked' = asked + n
    OBVIOUS
  <2>2. batch' \in BatchType BY <2>1, FreshBatch
  <2>3. asked' \in Nat /\ ops' \in 0 .. MaxOps BY <2>1, BoundsAssumption DEF TypeOK
  <2> QED BY <2>2, <2>3 DEF TypeOK
<1>2. RowsInv' BY DEF RowsInv, TypeOK, StreamType, IterPCs
<1>3. WatchdogInv' BY DEF WatchdogInv, TypeOK, StreamType, RowsInv
<1>4. BusyInv' BY DEF BusyInv, TypeOK, BatchType
<1>5. LedgerInv' BY DEF LedgerInv, TypeOK, BatchType, BusyInv, Unread
<1> QED BY <1>1, <1>2, <1>3, <1>4, <1>5

LEMMA SendBatchQuietInd == IndInv /\ (SendBatchRefused \/ SendBatchEmpty) => IndInv'
<1> SUFFICES ASSUME IndInv, SendBatchRefused \/ SendBatchEmpty PROVE IndInv'
  OBVIOUS
<1> USE DEF IndInv, SendBatchRefused, SendBatchEmpty, wire, work
<1>1. TypeOK' BY BoundsAssumption DEF TypeOK, StreamType, BatchType, RowsInv, Ctx, IterPCs, Causes
<1>2. RowsInv' BY DEF RowsInv, TypeOK, StreamType, IterPCs
<1>3. WatchdogInv' BY DEF WatchdogInv, TypeOK, StreamType, RowsInv
<1>4. BusyInv' BY DEF BusyInv, TypeOK, BatchType
<1>5. LedgerInv' BY DEF LedgerInv, TypeOK, BatchType, BusyInv, Unread
<1> QED BY <1>1, <1>2, <1>3, <1>4, <1>5

LEMMA SendBatchFailsInd == IndInv /\ SendBatchFails => IndInv'
<1> SUFFICES ASSUME IndInv, SendBatchFails PROVE IndInv'
  OBVIOUS
<1> USE DEF IndInv, SendBatchFails, Aborted, Lose, wire, work
<1>1. TypeOK'
  <2>1. link' \in BOOLEAN /\ cause' \in Causes BY DEF TypeOK, Causes
  <2>2. tx' \in {"none", "open", "failed", "committed", "rolledback"} BY DEF TypeOK
  <2>3. ops' \in 0 .. MaxOps BY BoundsAssumption DEF TypeOK
  <2> QED BY <2>1, <2>2, <2>3 DEF TypeOK
<1>2. RowsInv' BY DEF RowsInv, TypeOK, StreamType, IterPCs
<1>3. WatchdogInv' BY DEF WatchdogInv, TypeOK, StreamType, RowsInv
<1>4. BusyInv' BY DEF BusyInv, TypeOK, BatchType
<1>5. LedgerInv' BY DEF LedgerInv, TypeOK, BatchType, BusyInv, Unread
<1> QED BY <1>1, <1>2, <1>3, <1>4, <1>5

LEMMA ServerRunsInd == IndInv /\ ServerRuns => IndInv'
<1> SUFFICES ASSUME IndInv, ServerRuns PROVE IndInv'
  OBVIOUS
<1> USE DEF IndInv, ServerRuns, wire, work
<1>1. TypeOK' BY BoundsAssumption DEF TypeOK, StreamType, BatchType, RowsInv, Ctx, IterPCs, Causes
<1>2. RowsInv' BY DEF RowsInv, TypeOK, StreamType, IterPCs
<1>3. WatchdogInv' BY DEF WatchdogInv, TypeOK, StreamType, RowsInv
<1>4. BusyInv' BY DEF BusyInv, TypeOK, BatchType
<1>5. LedgerInv' BY DEF LedgerInv, TypeOK, BatchType, BusyInv, Unread
<1> QED BY <1>1, <1>2, <1>3, <1>4, <1>5

LEMMA ServerRejectsInd == IndInv /\ ServerRejects => IndInv'
<1> SUFFICES ASSUME IndInv, ServerRejects PROVE IndInv'
  OBVIOUS
<1> USE DEF IndInv, ServerRejects, Aborted, wire, work
<1>1. TypeOK'
  <2> USE BoundsAssumption DEF TypeOK
  <2>1. link' \in BOOLEAN /\ cause' \in Causes BY DEF Causes
  <2>2. stream' \in StreamType BY DEF StreamType, RowsInv, Ctx
  <2>3. batch' \in BatchType BY DEF BatchType, Ctx
  <2> QED BY <2>1, <2>2, <2>3 DEF IterPCs
<1>2. RowsInv' BY DEF RowsInv, TypeOK, StreamType, IterPCs
<1>3. WatchdogInv' BY DEF WatchdogInv, TypeOK, StreamType, RowsInv
<1>4. BusyInv' BY DEF BusyInv, TypeOK, BatchType
<1>5. LedgerInv' BY DEF LedgerInv, TypeOK, BatchType, BusyInv, Unread
<1> QED BY <1>1, <1>2, <1>3, <1>4, <1>5

LEMMA ReadResultInd == IndInv /\ ReadResult => IndInv'
<1> SUFFICES ASSUME IndInv, ReadResult PROVE IndInv'
  OBVIOUS
<1> USE DEF IndInv, ReadResult, wire, work
<1>1. TypeOK' BY BoundsAssumption DEF TypeOK, StreamType, BatchType, RowsInv, Ctx, IterPCs, Causes
<1>2. RowsInv' BY DEF RowsInv, TypeOK, StreamType, IterPCs
<1>3. WatchdogInv' BY DEF WatchdogInv, TypeOK, StreamType, RowsInv
<1>4. BusyInv' BY DEF BusyInv, TypeOK, BatchType
<1>5. LedgerInv' BY DEF LedgerInv, TypeOK, BatchType, BusyInv, Unread
<1> QED BY <1>1, <1>2, <1>3, <1>4, <1>5

LEMMA ReadInterruptedInd == IndInv /\ ReadInterrupted => IndInv'
<1> SUFFICES ASSUME IndInv, ReadInterrupted PROVE IndInv'
  OBVIOUS
<1> USE DEF IndInv, ReadInterrupted, Lose, BatchCause, wire, work
<1>1. TypeOK'
  <2> USE BoundsAssumption DEF TypeOK
  <2>1. link' \in BOOLEAN /\ cause' \in Causes BY DEF Causes
  <2>2. stream' \in StreamType BY DEF StreamType, RowsInv, Ctx
  <2>3. batch' \in BatchType BY DEF BatchType, Ctx
  <2> QED BY <2>1, <2>2, <2>3 DEF IterPCs
<1>2. RowsInv' BY DEF RowsInv, TypeOK, StreamType, IterPCs
<1>3. WatchdogInv' BY DEF WatchdogInv, TypeOK, StreamType, RowsInv
<1>4. BusyInv' BY DEF BusyInv, TypeOK, BatchType
<1>5. LedgerInv' BY DEF LedgerInv, TypeOK, BatchType, BusyInv, Unread
<1> QED BY <1>1, <1>2, <1>3, <1>4, <1>5

LEMMA CloseBatchInd == IndInv /\ CloseBatch => IndInv'
<1> SUFFICES ASSUME IndInv, CloseBatch PROVE IndInv'
  OBVIOUS
<1> USE DEF IndInv, CloseBatch, wire, work
<1>1. TypeOK' BY BoundsAssumption DEF TypeOK, StreamType, BatchType, RowsInv, Ctx, IterPCs, Causes
<1>2. RowsInv' BY DEF RowsInv, TypeOK, StreamType, IterPCs
<1>3. WatchdogInv' BY DEF WatchdogInv, TypeOK, StreamType, RowsInv
<1>4. BusyInv' BY DEF BusyInv, TypeOK, BatchType
<1>5. LedgerInv' BY DEF LedgerInv, TypeOK, BatchType, BusyInv, Unread
<1> QED BY <1>1, <1>2, <1>3, <1>4, <1>5

LEMMA DrainInd == IndInv /\ Drain => IndInv'
<1> SUFFICES ASSUME IndInv, Drain PROVE IndInv'
  OBVIOUS
<1> USE DEF IndInv, Drain, wire, work
<1>1. TypeOK'
  <2> USE BoundsAssumption DEF TypeOK
  <2>1. link' \in BOOLEAN /\ cause' \in Causes BY DEF Causes
  <2>2. stream' \in StreamType BY DEF StreamType, RowsInv, Ctx
  <2>3. batch' \in BatchType BY DEF BatchType, Ctx
  <2> QED BY <2>1, <2>2, <2>3 DEF IterPCs
<1>2. RowsInv' BY DEF RowsInv, TypeOK, StreamType, IterPCs
<1>3. WatchdogInv' BY DEF WatchdogInv, TypeOK, StreamType, RowsInv
<1>4. BusyInv' BY DEF BusyInv, TypeOK, BatchType
<1>5. LedgerInv' BY DEF LedgerInv, TypeOK, BatchType, BusyInv, Unread
<1> QED BY <1>1, <1>2, <1>3, <1>4, <1>5

LEMMA DrainInterruptedInd == IndInv /\ DrainInterrupted => IndInv'
<1> SUFFICES ASSUME IndInv, DrainInterrupted PROVE IndInv'
  OBVIOUS
<1> USE DEF IndInv, DrainInterrupted, Lose, BatchCause, wire, work
<1>1. TypeOK'
  <2> USE BoundsAssumption DEF TypeOK
  <2>1. link' \in BOOLEAN /\ cause' \in Causes BY DEF Causes
  <2>2. stream' \in StreamType BY DEF StreamType, RowsInv, Ctx
  <2>3. batch' \in BatchType BY DEF BatchType, Ctx
  <2> QED BY <2>1, <2>2, <2>3 DEF IterPCs
<1>2. RowsInv' BY DEF RowsInv, TypeOK, StreamType, IterPCs
<1>3. WatchdogInv' BY DEF WatchdogInv, TypeOK, StreamType, RowsInv
<1>4. BusyInv' BY DEF BusyInv, TypeOK, BatchType
<1>5. LedgerInv' BY DEF LedgerInv, TypeOK, BatchType, BusyInv, Unread
<1> QED BY <1>1, <1>2, <1>3, <1>4, <1>5

-----------------------------------------------------------------------------
(* COPY and the end of the session.                                        *)
LEMMA BulkInsertInd == IndInv /\ BulkInsert => IndInv'
<1> SUFFICES ASSUME IndInv, BulkInsert PROVE IndInv'
  OBVIOUS
<1> USE DEF IndInv, BulkInsert, Usable, wire, work
<1>1. TypeOK' BY BoundsAssumption DEF TypeOK, StreamType, BatchType, RowsInv, Ctx, IterPCs, Causes
<1>2. RowsInv' BY DEF RowsInv, TypeOK, StreamType, IterPCs
<1>3. WatchdogInv' BY DEF WatchdogInv, TypeOK, StreamType, RowsInv
<1>4. BusyInv' BY DEF BusyInv, TypeOK, BatchType
<1>5. LedgerInv' BY DEF LedgerInv, TypeOK, BatchType, BusyInv, Unread
<1> QED BY <1>1, <1>2, <1>3, <1>4, <1>5

LEMMA BulkFailsInd == IndInv /\ BulkFails => IndInv'
<1> SUFFICES ASSUME IndInv, BulkFails PROVE IndInv'
  OBVIOUS
<1> USE DEF IndInv, BulkFails, wire, work
<1>1. TypeOK' BY BoundsAssumption DEF TypeOK, StreamType, BatchType, RowsInv, Ctx, IterPCs, Causes
<1>2. RowsInv' BY DEF RowsInv, TypeOK, StreamType, IterPCs
<1>3. WatchdogInv' BY DEF WatchdogInv, TypeOK, StreamType, RowsInv
<1>4. BusyInv' BY DEF BusyInv, TypeOK, BatchType
<1>5. LedgerInv' BY DEF LedgerInv, TypeOK, BatchType, BusyInv, Unread
<1> QED BY <1>1, <1>2, <1>3, <1>4, <1>5

LEMMA BulkLostInd == IndInv /\ BulkLost => IndInv'
<1> SUFFICES ASSUME IndInv, BulkLost PROVE IndInv'
  OBVIOUS
<1> USE DEF IndInv, BulkLost, Usable, Lose, wire, work
<1>1. TypeOK'
  <2> USE BoundsAssumption DEF TypeOK
  <2>1. link' \in BOOLEAN /\ cause' \in Causes BY DEF Causes
  <2>2. stream' \in StreamType BY DEF StreamType, RowsInv, Ctx
  <2>3. batch' \in BatchType BY DEF BatchType, Ctx
  <2> QED BY <2>1, <2>2, <2>3 DEF IterPCs
<1>2. RowsInv' BY DEF RowsInv, TypeOK, StreamType, IterPCs
<1>3. WatchdogInv' BY DEF WatchdogInv, TypeOK, StreamType, RowsInv
<1>4. BusyInv' BY DEF BusyInv, TypeOK, BatchType
<1>5. LedgerInv'
  <2>1. applied' \in Nat /\ applied <= applied' BY DEF TypeOK
  <2>2. Unread' = Unread /\ Unread \in Nat BY DEF Unread, TypeOK, BatchType
  <2>3. told + Unread <= applied' BY <2>1, <2>2 DEF LedgerInv, TypeOK
  <2>4. ~link' /\ answer # "nil" BY DEF BusyInv
  <2> QED BY <2>2, <2>3, <2>4 DEF LedgerInv
<1> QED BY <1>1, <1>2, <1>3, <1>4, <1>5

LEMMA BodyReturnsInd == IndInv /\ BodyReturns => IndInv'
<1> SUFFICES ASSUME IndInv, BodyReturns PROVE IndInv'
  OBVIOUS
<1> USE DEF IndInv, BodyReturns, wire, work
<1>1. TypeOK' BY BoundsAssumption DEF TypeOK, StreamType, BatchType, RowsInv, Ctx, IterPCs, Causes
<1>2. RowsInv' BY DEF RowsInv, TypeOK, StreamType, IterPCs
<1>3. WatchdogInv' BY DEF WatchdogInv, TypeOK, StreamType, RowsInv
<1>4. BusyInv' BY DEF BusyInv, TypeOK, BatchType
<1>5. LedgerInv' BY DEF LedgerInv, TypeOK, BatchType, BusyInv, Unread
<1> QED BY <1>1, <1>2, <1>3, <1>4, <1>5

LEMMA CommitAnsweredInd == IndInv /\ CommitAnswered => IndInv'
<1> SUFFICES ASSUME IndInv, CommitAnswered PROVE IndInv'
  OBVIOUS
<1> USE DEF IndInv, CommitAnswered, Settle, wire, work
<1>1. TypeOK' BY BoundsAssumption DEF TypeOK, StreamType, BatchType, RowsInv, Ctx, IterPCs, Causes
<1>2. RowsInv' BY DEF RowsInv, TypeOK, StreamType, IterPCs
<1>3. WatchdogInv' BY DEF WatchdogInv, TypeOK, StreamType, RowsInv
<1>4. BusyInv' BY DEF BusyInv, TypeOK, BatchType
<1>5. LedgerInv' BY DEF LedgerInv, TypeOK, BatchType, BusyInv, Unread
<1> QED BY <1>1, <1>2, <1>3, <1>4, <1>5

LEMMA CommitLostInd == IndInv /\ CommitLost => IndInv'
<1> SUFFICES ASSUME IndInv, CommitLost PROVE IndInv'
  OBVIOUS
<1> USE DEF IndInv, CommitLost, Settle, Lose, wire, work
<1>1. TypeOK' BY BoundsAssumption DEF TypeOK, StreamType, BatchType, RowsInv, Ctx, IterPCs, Causes
<1>2. RowsInv' BY DEF RowsInv, TypeOK, StreamType, IterPCs
<1>3. WatchdogInv' BY DEF WatchdogInv, TypeOK, StreamType, RowsInv
<1>4. BusyInv' BY DEF BusyInv, TypeOK, BatchType
<1>5. LedgerInv' BY DEF LedgerInv, TypeOK, BatchType, BusyInv, Unread
<1> QED BY <1>1, <1>2, <1>3, <1>4, <1>5

LEMMA CannotEndInd == IndInv /\ CannotEnd => IndInv'
<1> SUFFICES ASSUME IndInv, CannotEnd PROVE IndInv'
  OBVIOUS
<1> USE DEF IndInv, CannotEnd, Settle, Lose, wire, work
<1>1. TypeOK'
  <2> USE BoundsAssumption DEF TypeOK
  <2>1. link' \in BOOLEAN /\ cause' \in Causes BY DEF Causes
  <2>2. stream' \in StreamType BY DEF StreamType, RowsInv, Ctx
  <2>3. batch' \in BatchType BY DEF BatchType, Ctx
  <2> QED BY <2>1, <2>2, <2>3 DEF IterPCs
<1>2. RowsInv' BY DEF RowsInv, TypeOK, StreamType, IterPCs
<1>3. WatchdogInv' BY DEF WatchdogInv, TypeOK, StreamType, RowsInv
<1>4. BusyInv' BY DEF BusyInv, TypeOK, BatchType
<1>5. LedgerInv' BY DEF LedgerInv, TypeOK, BatchType, BusyInv, Unread
<1> QED BY <1>1, <1>2, <1>3, <1>4, <1>5

LEMMA RollbackInd == IndInv /\ Rollback => IndInv'
<1> SUFFICES ASSUME IndInv, Rollback PROVE IndInv'
  OBVIOUS
<1> USE DEF IndInv, Rollback, Settle, wire, work
<1>1. TypeOK' BY BoundsAssumption DEF TypeOK, StreamType, BatchType, RowsInv, Ctx, IterPCs, Causes
<1>2. RowsInv' BY DEF RowsInv, TypeOK, StreamType, IterPCs
<1>3. WatchdogInv' BY DEF WatchdogInv, TypeOK, StreamType, RowsInv
<1>4. BusyInv' BY DEF BusyInv, TypeOK, BatchType
<1>5. LedgerInv' BY DEF LedgerInv, TypeOK, BatchType, BusyInv, Unread
<1> QED BY <1>1, <1>2, <1>3, <1>4, <1>5

-----------------------------------------------------------------------------
(* The captured context, and all steps together.                           *)
LEMMA EndBaseInd ==
  ASSUME IndInv, NEW why \in {"canceled", "deadline"}, EndBase(why) PROVE IndInv'
<1> USE DEF IndInv, EndBase, wire, work
<1>1. TypeOK'
  <2>1. stream' \in StreamType /\ batch' \in BatchType BY DEF TypeOK, StreamType, BatchType, Ctx
  <2> QED BY <2>1 DEF TypeOK, Ctx
<1>2. RowsInv' BY DEF RowsInv, TypeOK, StreamType
<1>3. WatchdogInv' BY DEF WatchdogInv, TypeOK, StreamType
<1>4. BusyInv' BY DEF BusyInv, TypeOK, BatchType
<1>5. LedgerInv' BY DEF LedgerInv, Unread, TypeOK, BatchType
<1> QED BY <1>1, <1>2, <1>3, <1>4, <1>5

LEMMA StutterInd == IndInv /\ UNCHANGED vars => IndInv'
BY DEF IndInv, TypeOK, RowsInv, WatchdogInv, BusyInv, LedgerInv, Unread, vars, wire, work

LEMMA NextInd == IndInv /\ [Next]_vars => IndInv'
<1> SUFFICES ASSUME IndInv, [Next]_vars PROVE IndInv'
  OBVIOUS
<1>1. CASE \E why \in {"canceled", "deadline"} : EndBase(why) BY <1>1, EndBaseInd
<1>2. CASE LinkDown BY <1>2, LinkDownInd
<1>3. CASE Runtime
  BY <1>3, WatchdogFiresInd, WatchdogCancelsInd, BatchTimeoutInd DEF Runtime
<1>4. CASE Client
  BY <1>4, QueryRefusedInd, QueryLostInd, ArmInd, InterruptedInd, DisarmInd, DecodeFailsInd,
     DecodeInd, FnContinuesInd, FnStopsInd, RowsErrInd, AlreadyClosedInd, CloseInterruptedInd,
     DrainInterruptedInd, CommitAnsweredInd, CommitLostInd, CannotEndInd, RollbackInd
     DEF Client
<1>5. CASE Server
  BY <1>5, QueryOkInd, QueryErrorInd, RowInd, CompleteInd, StreamErrorInd, CloseRowsInd,
     ServerRunsInd, ServerRejectsInd, DrainInd DEF Server
<1>6. CASE Body
  BY <1>6, StartIterInd, SendBatchInd, SendBatchQuietInd, SendBatchFailsInd, ReadResultInd,
     ReadInterruptedInd, CloseBatchInd, BulkInsertInd, BulkFailsInd, BulkLostInd, BodyReturnsInd
     DEF Body
<1>7. CASE Finished \/ UNCHANGED vars BY <1>7, StutterInd DEF Finished
<1> QED BY <1>1, <1>2, <1>3, <1>4, <1>5, <1>6, <1>7 DEF Next

LEMMA Inductive == Spec => []IndInv
BY InitInd, NextInd, PTL DEF Spec

(* Every variable of a session keeps its type: no stream receives or hands *)
(* over more rows than its result set has, and no batch runs or answers    *)
(* more statements than were queued.                                       *)
THEOREM TypeCorrect == Spec => []TypeOK
BY Inductive, PTL DEF IndInv

(* A stream that answers nil was complete (rows.Err in runIter).           *)
THEOREM NeverTruncates == Spec => []NoSilentTruncation
<1>1. IndInv => NoSilentTruncation BY DEF IndInv, RowsInv, NoSilentTruncation
<1> QED BY <1>1, Inductive, PTL

(* Whatever ExecResult or BulkInsert reports, the server has executed.     *)
THEOREM AlwaysDone == Spec => []ReportedWasDone
<1>1. IndInv => ReportedWasDone
  BY DEF IndInv, LedgerInv, Unread, TypeOK, BatchType, ReportedWasDone
<1> QED BY <1>1, Inductive, PTL

(* A transaction that answers nil has executed all it sent in batches.     *)
THEOREM CommitAlwaysApplied == Spec => []CommitMeansApplied
<1>1. IndInv => CommitMeansApplied BY DEF IndInv, LedgerInv, CommitMeansApplied
<1> QED BY <1>1, Inductive, PTL

(* The watchdog goes off only before the first row (disarmAfter).          *)
THEOREM AlwaysUncapped == Spec => UncappedAfterFirstRow
<1>1. IndInv => (stream.wd = "armed" => stream.seen = 0) BY DEF IndInv, WatchdogInv, TypeOK, StreamType
<1>2. IndInv /\ [Next]_vars
        => [stream.wd = "armed" /\ stream'.wd = "firing" => stream.seen = 0]_vars
  BY <1>1
<1> QED BY <1>2, Inductive, PTL DEF Spec, UncappedAfterFirstRow

(* Closing a stream early costs the connection only if the captured        *)
(* context ended or the watchdog had gone off.                             *)
THEOREM AlwaysSpares == Spec => EarlyStopSparesConnection
<1> DEFINE Spares == pc = "close" /\ pc' = "body" /\ link /\ ~link'
                       => base # "live" \/ stream.wd = "fired"
<1>1. IndInv /\ [Next]_vars => [Spares]_vars
  <2> SUFFICES ASSUME IndInv, [Next]_vars, pc = "close", pc' = "body", link, ~link'
               PROVE  base # "live" \/ stream.wd = "fired"
    BY DEF vars, wire
  <2>1. CASE CloseInterrupted BY <2>1 DEF CloseInterrupted, IndInv, WatchdogInv
  <2>2. ~AlreadyClosed BY DEF AlreadyClosed, wire
  <2>3. ~CloseRows BY DEF CloseRows
  <2>4. ~Server
    BY <2>3 DEF Server, QueryOk, QueryError, Row, Complete, StreamError, ServerRuns, ServerRejects, Drain
  <2>5. ~Body
    BY DEF Body, StartIter, SendBatch, SendBatchRefused, SendBatchEmpty, SendBatchFails, ReadResult,
       ReadInterrupted, CloseBatch, BulkInsert, BulkFails, BulkLost, BodyReturns
  <2>6. CASE Client
    BY <2>1, <2>2, <2>6 DEF Client, QueryRefused, QueryLost, Arm, Interrupted, Disarm, DecodeFails,
       Decode, FnContinues, FnStops, RowsErr, DrainInterrupted, CommitAnswered, CommitLost,
       CannotEnd, Rollback
  <2>7. CASE UNCHANGED pc BY <2>7
  <2> QED
    BY <2>4, <2>5, <2>6, <2>7 DEF Next, EndBase, LinkDown, Runtime, WatchdogFires,
       WatchdogCancels, BatchTimeout, Finished, vars
<1> QED BY <1>1, Inductive, PTL DEF Spec, EarlyStopSparesConnection

-----------------------------------------------------------------------------
(* What a lost connection costs.                                           *)

Ends == pc = "done" => conn = "pool"

(* Whoever lost the connection of a transaction, the Close of a batch, the *)
(* watchdog of a stream, a context or the network, the transaction does    *)
(* not answer nil: runTransactional cannot commit on another connection.   *)
LostConnectionNeverNil == answer = "nil" => link

LEMMA LostInd ==
  ASSUME IndInv, Ends, LostConnectionNeverNil, [Next]_vars
  PROVE  Ends' /\ LostConnectionNeverNil'
<1> USE DEF Ends, LostConnectionNeverNil, wire, work
<1>0. (answer # "none" => pc = "done") /\ answer \in {"none", "nil", "error"}
  BY DEF IndInv, BusyInv, TypeOK
<1>1. CASE UNCHANGED <<pc, conn, link, answer>> BY <1>1
<1>2. CASE LinkDown BY <1>0, <1>2 DEF LinkDown, Lose
<1>3. CASE pc # "done" /\ pc' # "done" /\ UNCHANGED answer BY <1>0, <1>3
<1>4. CASE BodyReturns BY <1>0, <1>4 DEF BodyReturns
<1>5. CASE CommitAnswered \/ CommitLost \/ CannotEnd \/ Rollback
  BY <1>5 DEF CommitAnswered, CommitLost, CannotEnd, Rollback, Settle
<1>6. CASE Runtime BY <1>1, <1>6 DEF Runtime, WatchdogFires, WatchdogCancels, BatchTimeout
<1>7. CASE Client
  BY <1>3, <1>5, <1>7 DEF Client, QueryRefused, QueryLost, QueryAnswers, Arm, Interrupted, Disarm,
     DecodeFails, Decode, FnContinues, FnStops, RowsErr, AlreadyClosed, CloseInterrupted,
     Return, DrainInterrupted
<1>8. CASE Server
  BY <1>1, <1>3, <1>8 DEF Server, QueryOk, QueryError, QueryAnswers, Row, Complete, StreamError,
     CloseRows, Return, ServerRuns, ServerRejects, Drain
<1>9. CASE Body
  BY <1>1, <1>3, <1>4, <1>9 DEF Body, StartIter, SendBatch, SendBatchRefused, SendBatchEmpty, SendBatchFails,
     ReadResult, ReadInterrupted, CloseBatch, BulkInsert, BulkFails, BulkLost
<1>10. CASE Finished \/ UNCHANGED vars \/ \E why \in {"canceled", "deadline"} : EndBase(why)
  BY <1>1, <1>10 DEF Finished, vars, EndBase
<1> QED BY <1>2, <1>6, <1>7, <1>8, <1>9, <1>10 DEF Next

(* The extent of the connection that BatchResults.Close may cost: its      *)
(* transaction answers an error.                                           *)
THEOREM LostNeverNil == Spec => []LostConnectionNeverNil
<1>1. Init => Ends /\ LostConnectionNeverNil BY DEF Init, Ends, LostConnectionNeverNil
<1>2. IndInv /\ Ends /\ LostConnectionNeverNil /\ [Next]_vars
        => Ends' /\ LostConnectionNeverNil'
  BY LostInd
<1> QED BY <1>1, <1>2, Inductive, PTL DEF Spec

-----------------------------------------------------------------------------
(* The measure of runIter.                                                 *)

RowsLeft == stream.total - stream.got

StepsLeft ==
  CASE pc = "query" -> 4 * MaxRows + 5
    [] pc = "arm" -> 4 * RowsLeft + 4
    [] pc = "next" -> 4 * RowsLeft + 3
    [] pc = "disarm" -> 4 * RowsLeft + 6
    [] pc = "decode" -> 4 * RowsLeft + 5
    [] pc = "fn" -> 4 * RowsLeft + 4
    [] pc = "err" -> 2
    [] pc = "close" -> 1
    [] OTHER -> 0

(* A stream has at most four steps for each row of its result set and five *)
(* more.                                                                   *)
StepsBounded == StepsLeft \in 0 .. 4 * MaxRows + 5

UsesUp ==
  pc \in IterPCs => /\ pc' = pc => StepsLeft' = StepsLeft
                    /\ pc' # pc => StepsLeft' < StepsLeft

(* Each step of runIter uses one of them up, and neither the watchdog nor  *)
(* an ending context nor a link that breaks gives one back.                *)
StepsUsedUp == [][UsesUp]_vars

LEMMA StepsInBounds == IndInv => StepsBounded
<1> SUFFICES ASSUME IndInv PROVE StepsBounded
  OBVIOUS
<1>1. /\ stream.total \in 0 .. MaxRows /\ stream.got \in 0 .. MaxRows /\ stream.got <= stream.total
      /\ MaxRows \in Nat /\ (pc \in {"disarm", "decode"} => stream.got > 0)
      /\ (pc = "fn" => stream.seen = stream.got)
  BY BoundsAssumption DEF IndInv, TypeOK, StreamType, RowsInv
<1> QED BY <1>1 DEF StepsBounded, StepsLeft, RowsLeft

LEMMA StreamStepLowers ==
  ASSUME IndInv, Next, pc \in IterPCs
  PROVE  UsesUp
<1> USE DEF UsesUp, StepsLeft, RowsLeft, IterPCs
<1>0. /\ stream.total \in 0 .. MaxRows /\ stream.got \in 0 .. MaxRows /\ stream.got <= stream.total
      /\ MaxRows \in Nat /\ stream \in StreamType
  BY BoundsAssumption DEF IndInv, TypeOK, StreamType, RowsInv
<1>1. CASE /\ pc' = pc
           /\ stream'.total = stream.total /\ stream'.got = stream.got
  BY <1>1
<1>2. CASE pc = "query" /\ (pc' = "body" \/ QueryOk)
  BY <1>0, <1>2 DEF QueryOk, StreamType
<1>3. CASE Arm \/ Disarm
  <2>1. /\ stream'.total = stream.total /\ stream'.got = stream.got
        /\ (pc = "arm" /\ pc' = "next") \/ (pc = "disarm" /\ pc' = "decode")
    BY <1>0, <1>3 DEF Arm, Disarm, StreamType
  <2> QED BY <1>0, <2>1
<1>4. CASE Row BY <1>0, <1>4 DEF Row, StreamType
<1>5. CASE Complete \/ Interrupted \/ StreamError
  BY <1>0, <1>5 DEF Complete, Interrupted, StreamError
<1>6. CASE DecodeFails \/ Decode BY <1>0, <1>6 DEF DecodeFails, Decode, StreamType
<1>7. CASE FnContinues \/ FnStops BY <1>0, <1>7 DEF FnContinues, FnStops
<1>8. CASE RowsErr \/ AlreadyClosed \/ CloseInterrupted \/ CloseRows
  BY <1>8 DEF RowsErr, AlreadyClosed, CloseInterrupted, CloseRows, Return
<1>9. CASE Runtime
  <2>1. pc' = pc /\ stream'.total = stream.total /\ stream'.got = stream.got
    BY <1>0, <1>9 DEF Runtime, WatchdogFires, WatchdogCancels, BatchTimeout, StreamType
  <2> QED BY <1>1, <2>1
<1>10. CASE LinkDown \/ Finished \/ \E why \in {"canceled", "deadline"} : EndBase(why)
  <2>1. pc' = pc /\ stream'.total = stream.total /\ stream'.got = stream.got
    BY <1>0, <1>10 DEF LinkDown, Finished, EndBase, vars, StreamType
  <2> QED BY <1>1, <2>1
<1>11. CASE ServerRuns \/ ServerRejects
  BY <1>1, <1>11 DEF ServerRuns, ServerRejects
<1>12. CASE Client
  BY <1>2, <1>3, <1>5, <1>6, <1>7, <1>8, <1>12 DEF Client, QueryRefused, QueryLost, QueryAnswers,
     DrainInterrupted, CommitAnswered, CommitLost, CannotEnd, Rollback
<1>13. CASE Server
  BY <1>2, <1>4, <1>5, <1>8, <1>11, <1>13 DEF Server, QueryError, QueryOk, QueryAnswers, Drain
<1>14. ~Body
  BY DEF Body, StartIter, SendBatch, SendBatchRefused, SendBatchEmpty, SendBatchFails, ReadResult,
     ReadInterrupted, CloseBatch, BulkInsert, BulkFails, BulkLost, BodyReturns
<1> QED BY <1>9, <1>10, <1>12, <1>13, <1>14 DEF Next

(* runIter comes to an end within 4 * MaxRows + 5 of its own steps: the    *)
(* safety half of FirstRowBounded.                                         *)
THEOREM StreamsRunOut == Spec => []StepsBounded /\ StepsUsedUp
<1>1. IndInv => StepsBounded BY StepsInBounds
<1>2. IndInv /\ [Next]_vars => [UsesUp]_vars
  BY StreamStepLowers DEF UsesUp
<1> QED BY <1>1, <1>2, Inductive, PTL DEF Spec, StepsUsedUp
=============================================================================
