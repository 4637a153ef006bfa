------------------------------- MODULE Listen -------------------------------
(* LISTEN/NOTIFY on a pinned connection (database/listen.go): the fetch    *)
(* goroutine listenLoop, the callers of the returned stop function, and    *)
(* the pool that lends replacement connections.                            *)
(*                                                                         *)
(* A connection may die between any two steps, the base context may be     *)
(* cancelled at any time, and the caller may run statements of its own on  *)
(* the pinned Conn, which pgx then reports as busy to the loop.            *)
EXTENDS Naturals

CONSTANTS Conns,           \* connection slots: the pinned one and the pool's
          Pinned,          \* the connection of the Conn that listens
          NoConn,
          Stoppers,        \* goroutines that call stop, once each
          ReacquireAfter, RetryDelay, MaxBackoff  \* ListenOptions, normalized

ASSUME ConnsAssumption == Pinned \in Conns /\ NoConn \notin Conns

ASSUME OptionsAssumption ==
  /\ ReacquireAfter \in Nat \ {0}
  /\ RetryDelay \in Nat \ {0}
  /\ MaxBackoff \in Nat /\ MaxBackoff >= RetryDelay

VARIABLES
  reconnect, \* ListenWithReconnect rather than Listen
  pooled,    \* the Conn came from DB.Acquire: reacquireFn is set
  pc,        \* where listenLoop is
  c,         \* its local variable c
  failures,  \* its local variable failures, saturating at ReacquireAfter
  backoff,   \* its local variable backoff
  fresh,     \* the connection relistenOnFreshConn has borrowed
  cur,       \* listenSession.c
  repl,      \* the connection listenSession.release gives back
  stopCh,    \* closed by the first stop
  spc,       \* where each stop is
  uctx,      \* lineage of its UNLISTEN context
  target,    \* the connection it reads from the session
  uerr,      \* its UNLISTEN failed: stop will return an error
  rel,       \* the connection it took from the session and has to give back
  base,      \* the stored context: "live" or "done"
  link,      \* "up" or "dead"
  listening, \* server side: the session is registered on the channel
  idle,      \* slots the pool can lend
  open       \* the pinned Conn was not closed by the caller

loop == <<pc, c, failures, backoff, fresh>>
session == <<cur, repl>>
stops == <<stopCh, spc, uctx, target, uerr, rel>>
conns == <<link, listening, idle, open>>
env == <<reconnect, pooled, base>>
vars == <<loop, session, stops, conns, env>>

TypeOK ==
  /\ reconnect \in BOOLEAN /\ pooled \in BOOLEAN /\ stopCh \in BOOLEAN
  /\ pc \in {"new", "top", "wait", "failed", "sleep", "relisten", "reacquire",
             "fresh", "exited", "refused"}
  /\ c \in Conns /\ cur \in Conns
  /\ failures \in 0 .. ReacquireAfter
  /\ backoff \in RetryDelay .. MaxBackoff
  /\ fresh \in Conns \cup {NoConn} /\ repl \in Conns \cup {NoConn}
  /\ spc \in [Stoppers -> {"idle", "join", "unlisten", "release", "giveback",
                          "stopped", "panic"}]
  /\ uctx \in [Stoppers -> {"none", "base", "fresh"}]
  /\ target \in [Stoppers -> Conns \cup {NoConn}]
  /\ uerr \in [Stoppers -> BOOLEAN]
  /\ rel \in [Stoppers -> Conns \cup {NoConn}]
  /\ base \in {"live", "done"}
  /\ link \in [Conns -> {"up", "dead"}]
  /\ listening \in [Conns -> BOOLEAN]
  /\ idle \in SUBSET Conns /\ open \in BOOLEAN

Init ==
  /\ reconnect \in BOOLEAN /\ pooled \in BOOLEAN
  /\ pc = "new" /\ c = Pinned /\ failures = 0 /\ backoff = RetryDelay
  /\ fresh = NoConn /\ cur = Pinned /\ repl = NoConn
  /\ stopCh = FALSE
  /\ spc = [s \in Stoppers |-> "idle"]
  /\ uctx = [s \in Stoppers |-> "none"]
  /\ target = [s \in Stoppers |-> NoConn]
  /\ uerr = [s \in Stoppers |-> FALSE]
  /\ rel = [s \in Stoppers |-> NoConn]
  /\ base = "live"
  /\ link = [k \in Conns |-> "up"]
  /\ listening = [k \in Conns |-> FALSE]
  /\ idle = Conns \ {Pinned} /\ open = TRUE

-----------------------------------------------------------------------------
(* Connections, as pgx and pgxpool handle them.                            *)

(* A statement that (un)registers session k, under a usable context or not:*)
(* it succeeds, fails before it is sent, or takes the connection down.     *)
Succeeds(k, usable, on) ==
  /\ usable /\ link[k] = "up"
  /\ listening' = [listening EXCEPT ![k] = on]
  /\ UNCHANGED <<link, idle, open>>

Fails(k, usable) ==
  \/ /\ ~usable \/ k = Pinned              \* context done, or conn busy
     /\ UNCHANGED conns
  \/ /\ link' = [link EXCEPT ![k] = "dead"]
     /\ listening' = [listening EXCEPT ![k] = FALSE]
     /\ UNCHANGED <<idle, open>>

(* pgxpool.Conn.Release: a dead connection is replaced by a new one.       *)
Release(k) ==
  /\ idle' = idle \cup {k}
  /\ link' = [link EXCEPT ![k] = "up"]
  /\ listening' = [listening EXCEPT ![k] = @ /\ link[k] = "up"]

LinkDown(k) ==
  /\ link[k] = "up"
  /\ link' = [link EXCEPT ![k] = "dead"]
  /\ listening' = [listening EXCEPT ![k] = FALSE]
  /\ UNCHANGED <<loop, session, stops, idle, open, env>>

CancelBase ==
  /\ base = "live" /\ base' = "done"
  /\ UNCHANGED <<loop, session, stops, conns, reconnect, pooled>>

-----------------------------------------------------------------------------
(* listen: the initial LISTEN runs in the caller.                          *)

Listen ==
  /\ pc = "new"
  /\ Succeeds(Pinned, base = "live", TRUE)
  /\ pc' = "top"
  /\ UNCHANGED <<c, failures, backoff, fresh, session, stops, env>>

ListenRefused ==    \* bad channel or handler, context done, LISTEN failed
  /\ pc = "new"
  /\ Fails(Pinned, base = "live")
  /\ pc' = "refused"
  /\ UNCHANGED <<c, failures, backoff, fresh, session, stops, env>>

-----------------------------------------------------------------------------
(* listenLoop.                                                             *)

\* Mutant of Top: the stored context is not looked at.
TopIgnoresContext ==
  /\ pc = "top"
  /\ c' = cur
  /\ pc' = IF stopCh THEN "exited" ELSE "wait"
  /\ UNCHANGED <<failures, backoff, fresh, session, stops, conns, env>>

Top ==
  /\ pc = "top"
  /\ c' = cur
  /\ pc' = IF base = "done" \/ stopCh THEN "exited" ELSE "wait"
  /\ UNCHANGED <<failures, backoff, fresh, session, stops, conns, env>>

Notified ==         \* the handler runs on a goroutine of its own
  /\ pc = "wait" /\ link[c] = "up" /\ listening[c]
  /\ backoff' = RetryDelay /\ pc' = "top"
  /\ UNCHANGED <<c, failures, fresh, session, stops, conns, env>>

Tick ==             \* notifyTick elapsed, or the context ended
  /\ pc = "wait" /\ pc' = "top"
  /\ UNCHANGED <<c, failures, backoff, fresh, session, stops, conns, env>>

WaitFails ==        \* transport error, or conn busy
  /\ pc = "wait" /\ (link[c] = "dead" \/ c = Pinned)
  /\ pc' = "failed"
  /\ UNCHANGED <<c, failures, backoff, fresh, session, stops, conns, env>>

GiveUpOrRetry ==
  /\ pc = "failed"
  /\ pc' = IF stopCh \/ ~reconnect THEN "exited" ELSE "sleep"
  /\ failures' = 0
  /\ UNCHANGED <<c, backoff, fresh, session, stops, conns, env>>

(* sleepCancellable: select takes either case when both are ready.         *)

\* Mutant of SleepElapsed: the growth is not capped.
SleepUncapped ==
  /\ pc = "sleep" /\ pc' = "relisten"
  /\ backoff' = 2 * backoff
  /\ UNCHANGED <<c, failures, fresh, session, stops, conns, env>>

SleepElapsed ==
  /\ pc = "sleep" /\ pc' = "relisten"
  /\ backoff' = IF 2 * backoff < MaxBackoff THEN 2 * backoff ELSE MaxBackoff
  /\ UNCHANGED <<c, failures, fresh, session, stops, conns, env>>

\* Mutant of SleepStopped: the backoff sleep does not watch stopCh.
SleepDeaf == FALSE /\ UNCHANGED vars

SleepStopped ==
  /\ pc = "sleep" /\ stopCh
  /\ pc' = "exited"
  /\ UNCHANGED <<c, failures, backoff, fresh, session, stops, conns, env>>

Relisten ==
  /\ pc = "relisten"
  /\ Succeeds(c, base = "live", TRUE)
  /\ pc' = "top"
  /\ UNCHANGED <<c, failures, backoff, fresh, session, stops, env>>

\* Mutant of RelistenFails: the counter starts again at every attempt.
RelistenNeverCounts ==
  /\ pc = "relisten"
  /\ Fails(c, base = "live")
  /\ failures' = 0
  /\ pc' = IF pooled /\ failures' >= ReacquireAfter THEN "reacquire" ELSE "sleep"
  /\ UNCHANGED <<c, backoff, fresh, session, stops, env>>

RelistenFails ==
  /\ pc = "relisten"
  /\ Fails(c, base = "live")
  /\ failures' = IF failures < ReacquireAfter THEN failures + 1 ELSE failures
  /\ pc' = IF pooled /\ failures' >= ReacquireAfter THEN "reacquire" ELSE "sleep"
  /\ UNCHANGED <<c, backoff, fresh, session, stops, env>>

-----------------------------------------------------------------------------
(* relistenOnFreshConn.                                                    *)

Reacquire ==
  /\ pc = "reacquire" /\ base = "live"
  /\ \E k \in idle : fresh' = k /\ idle' = idle \ {k}
  /\ pc' = "fresh"
  /\ UNCHANGED <<c, failures, backoff, session, stops, link, listening, open, env>>

ReacquireFails ==
  /\ pc = "reacquire"
  /\ failures' = 0 /\ pc' = "sleep"
  /\ UNCHANGED <<c, backoff, fresh, session, stops, conns, env>>

\* Mutant of Swap: releases what it has just stored, not the previous one.
SwapReleasesNew ==
  /\ pc = "fresh" /\ base = "live" /\ link[fresh] = "up"
  /\ cur' = fresh /\ repl' = fresh
  /\ IF repl = NoConn
     THEN /\ listening' = [listening EXCEPT ![fresh] = TRUE]
          /\ UNCHANGED <<idle, link>>
     ELSE Release(fresh)
  /\ fresh' = NoConn /\ pc' = "top"
  /\ UNCHANGED <<c, failures, backoff, stops, open, env>>

(* LISTEN succeeded on the fresh connection; the previous replacement, if  *)
(* any, goes back to the pool.                                             *)
Swap ==
  /\ pc = "fresh" /\ base = "live" /\ link[fresh] = "up"
  /\ cur' = fresh /\ repl' = fresh
  /\ IF repl = NoConn
     THEN /\ listening' = [listening EXCEPT ![fresh] = TRUE]
          /\ UNCHANGED <<idle, link>>
     ELSE /\ idle' = idle \cup {repl}
          /\ link' = [link EXCEPT ![repl] = "up"]
          /\ listening' = [listening EXCEPT ![fresh] = TRUE,
                                            ![repl] = @ /\ link[repl] = "up"]
  /\ fresh' = NoConn /\ pc' = "top"
  /\ UNCHANGED <<c, failures, backoff, stops, open, env>>

\* Mutant of FreshFails: the borrowed connection is not given back.
FreshKept ==
  /\ pc = "fresh"
  /\ failures' = 0 /\ fresh' = NoConn /\ pc' = "sleep"
  /\ UNCHANGED <<c, backoff, session, stops, conns, env>>

(* LISTEN failed: before it was sent if the context is done, and otherwise *)
(* the connection died with it; either way the session is not registered.  *)
FreshFails ==
  /\ pc = "fresh"
  /\ Release(fresh)
  /\ failures' = 0 /\ fresh' = NoConn /\ pc' = "sleep"
  /\ UNCHANGED <<c, backoff, session, stops, open, env>>

-----------------------------------------------------------------------------
(* stop, and Conn.Close.                                                   *)

StopRequest(s) ==
  /\ spc[s] = "idle" /\ pc \notin {"new", "refused"}
  /\ stopCh' = TRUE
  /\ spc' = [spc EXCEPT ![s] = "join"]
  /\ UNCHANGED <<uctx, target, uerr, rel, loop, session, conns, env>>

\* Mutant of StopJoined: UNLISTEN goes to the Conn, not to the session.
StopJoinedPinned(s) ==
  /\ spc[s] = "join" /\ pc = "exited"
  /\ uctx' = [uctx EXCEPT ![s] = IF base = "done" THEN "fresh" ELSE "base"]
  /\ target' = [target EXCEPT ![s] = Pinned]
  /\ spc' = [spc EXCEPT ![s] = "unlisten"]
  /\ UNCHANGED <<stopCh, uerr, rel, loop, session, conns, env>>

(* doneCh is closed: rollbackCtx, then session.current.                    *)
StopJoined(s) ==
  /\ spc[s] = "join" /\ pc = "exited"
  /\ uctx' = [uctx EXCEPT ![s] = IF base = "done" THEN "fresh" ELSE "base"]
  /\ target' = [target EXCEPT ![s] = cur]
  /\ spc' = [spc EXCEPT ![s] = "unlisten"]
  /\ UNCHANGED <<stopCh, uerr, rel, loop, session, conns, env>>

(* A released pgxpool.Conn has no resource: using it panics.  Two stops    *)
(* that send UNLISTEN at the same time find the connection busy.           *)
Unlisten(s) ==
  /\ spc[s] = "unlisten"
  /\ LET usable == uctx[s] = "fresh" \/ base = "live" IN
     IF target[s] \in idle
     THEN /\ spc' = [spc EXCEPT ![s] = "panic"]
          /\ UNCHANGED <<uerr, conns>>
     ELSE /\ \/ Succeeds(target[s], usable, FALSE) /\ UNCHANGED uerr
             \/ /\ \/ Fails(target[s], usable)
                   \/ /\ \E t \in Stoppers \ {s} : spc[t] = "unlisten"
                      /\ UNCHANGED conns
                /\ uerr' = [uerr EXCEPT ![s] = TRUE]
          /\ spc' = [spc EXCEPT ![s] = "release"]
  /\ UNCHANGED <<stopCh, uctx, target, rel, loop, session, env>>

(* releaseReplacement takes the release function out of the session under  *)
(* the mutex and calls it after unlocking: another stop may run, and even  *)
(* return, in between.                                                     *)

ReleaseReplacement(s) ==
  /\ spc[s] = "release"
  /\ rel' = [rel EXCEPT ![s] = repl]
  /\ repl' = NoConn
  /\ spc' = [spc EXCEPT ![s] = "giveback"]
  /\ UNCHANGED <<stopCh, uctx, target, uerr, cur, loop, conns, env>>

GiveBack(s) ==
  /\ spc[s] = "giveback"
  /\ IF rel[s] = NoConn THEN UNCHANGED <<idle, link, listening>> ELSE Release(rel[s])
  /\ rel' = [rel EXCEPT ![s] = NoConn]
  /\ spc' = [spc EXCEPT ![s] = "stopped"]
  /\ UNCHANGED <<stopCh, uctx, target, uerr, session, loop, open, env>>

(* Conn.Close itself looks at nothing: that the caller closes the Conn     *)
(* only when LISTEN was refused or every stop has returned is assumed here.*)
CloseConn ==
  /\ open /\ open' = FALSE
  /\ \/ pc = "refused"
     \/ pc = "exited" /\ \A s \in Stoppers : spc[s] = "stopped"
  /\ IF pooled
     THEN Release(Pinned)
     ELSE /\ link' = [link EXCEPT ![Pinned] = "dead"]
          /\ listening' = [listening EXCEPT ![Pinned] = FALSE]
          /\ UNCHANGED idle
  /\ UNCHANGED <<loop, session, stops, env>>

-----------------------------------------------------------------------------
LoopStep ==
  \/ Top \/ Tick \/ WaitFails \/ GiveUpOrRetry
  \/ SleepElapsed \/ SleepStopped \/ Relisten \/ RelistenFails
  \/ Reacquire \/ ReacquireFails \/ Swap \/ FreshFails

StopStep(s) ==
  StopJoined(s) \/ Unlisten(s) \/ ReleaseReplacement(s) \/ GiveBack(s)

Finished == (~open \/ \E s \in Stoppers : spc[s] = "panic") /\ UNCHANGED vars

Next ==
  \/ Listen \/ ListenRefused \/ LoopStep \/ Notified
  \/ \E s \in Stoppers : StopRequest(s) \/ StopStep(s)
  \/ CloseConn \/ CancelBase
  \/ \E k \in Conns : LinkDown(k)
  \/ Finished

(* Every blocking call of the loop and of stop is bounded by a timeout.    *)
(* select is fair to stopCh when both of its cases keep becoming ready.    *)
(* The last two are the caller's: a pool that is asked again and again     *)
(* lends a connection in the end, and LISTEN on one succeeds in the end.   *)
Fairness ==
  /\ WF_vars(LoopStep) /\ SF_vars(SleepStopped)
  /\ \A s \in Stoppers : WF_vars(StopStep(s))
  /\ SF_vars(Reacquire) /\ SF_vars(Swap)

Spec == Init /\ [][Next]_vars /\ Fairness

-----------------------------------------------------------------------------
(* Properties.                                                             *)

Running == {"top", "wait", "failed", "sleep", "relisten", "reacquire", "fresh"}

(* The loop never works on a connection the pool could lend to somebody    *)
(* else, across every swap and release of a replacement, and the session   *)
(* names the connection it works on.                                       *)
LoopHoldsItsConn ==
  pc \in Running => /\ cur \notin idle
                    /\ pc # "top" => c = cur
                    /\ pc = "fresh" => fresh \notin idle \cup {cur}

(* Once a stop has returned, every slot but the pinned one is back in the  *)
(* pool, however many replacements were borrowed, except the one another   *)
(* stop has taken out of the session and is about to give back: "the       *)
(* replacement is released by stop()", not always by the one that returned.*)
NoReplacementLeak ==
  (\E s \in Stoppers : spc[s] = "stopped") =>
    \A k \in Conns \ {Pinned} :
      k \in idle \/ \E t \in Stoppers : spc[t] = "giveback" /\ rel[t] = k

(* A replacement goes back to the pool only after its session was          *)
(* unregistered, by UNLISTEN or by losing the link, unless a stop reports  *)
(* that its UNLISTEN failed: swap itself sends no UNLISTEN.                *)
ReplacementsUnregistered ==
  \A k \in idle \ {Pinned} : listening[k] => \E s \in Stoppers : uerr[s]

(* Whatever the loop is doing, a stop ends: it returns, or, if another one *)
(* returned before it (PanicNeedsEarlierStop), it may panic.               *)
StopReturns ==
  \A s \in Stoppers : spc[s] = "join" ~> spc[s] \in {"stopped", "panic"}

(* If the connections in the pool stay alive from some time on,            *)
(* ListenWithReconnect on a pooled Conn gets back to waiting after a lost  *)
(* connection, on the pinned one or on a replacement, unless it is stopped *)
(* or its context ends.                                                    *)
Recovers ==
  <>[](\A k \in idle : link[k] = "up") =>
    ((pc = "failed" /\ reconnect /\ pooled) ~>
       (pc \in {"top", "exited"} \/ base = "done"))

(* A cancelled base context ends the loop of a plain Listen.               *)
ContextEndsListen ==
  (base = "done" /\ pc \in Running /\ ~reconnect) ~> (pc = "exited")

(* "Second stop must be safe (idempotent ...)": a stop never uses a        *)
(* connection that was given back to the pool.                             *)
SecondStopSafe == \A s \in Stoppers : spc[s] # "panic"

(* How far that goes: a stop uses a connection that was given back only if *)
(* the listener had swapped and another stop has returned before.  The     *)
(* first stop, and every stop of a listener that still works on its pinned *)
(* connection, is safe.                                                    *)
PanicNeedsEarlierStop ==
  \A s \in Stoppers :
    spc[s] = "panic" => cur # Pinned /\ \E t \in Stoppers \ {s} : spc[t] = "stopped"
=============================================================================
