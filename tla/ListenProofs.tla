---------------------------- MODULE ListenProofs ----------------------------
(* Proofs about Listen for any connections, stoppers and listen options.   *)
EXTENDS Listen, TLAPS

(* Out of the pool are the pinned connection until it is closed, the       *)
(* replacement of the session, the connection being tried and the one a    *)
(* stop has taken from the session; the four are different.                *)
Slots ==
  /\ repl # Pinned /\ fresh # Pinned
  /\ fresh # NoConn <=> pc = "fresh"
  /\ fresh # NoConn => fresh # repl
  /\ \A s \in Stoppers : rel[s] # NoConn =>
       /\ spc[s] = "giveback" /\ rel[s] = cur /\ rel[s] # Pinned
       /\ \A t \in Stoppers \ {s} : rel[t] = NoConn
  /\ \A k \in Conns \ {Pinned} :
       k \in idle <=> k # repl /\ k # fresh /\ \A s \in Stoppers : rel[s] # k
  /\ Pinned \in idle <=> ~open /\ pooled

(* The session works on the replacement if there is one; stops only touch  *)
(* it when the loop has ended.                                             *)
Session ==
  /\ pc \notin {"exited", "refused"} =>
       open /\ cur = IF repl = NoConn THEN Pinned ELSE repl
  /\ repl # NoConn => cur = repl
  /\ pc = "new" \/ pc \in Running \ {"top"} => c = cur
  /\ \A s \in Stoppers : /\ spc[s] \notin {"idle", "join"} => pc = "exited"
                         /\ spc[s] \in {"giveback", "stopped"} => repl = NoConn

(* While the loop tries to recover a replacement, that connection is dead. *)
Registered ==
  /\ \A k \in Conns : link[k] = "dead" => ~listening[k]
  /\ pc \in {"failed", "sleep", "relisten", "reacquire", "fresh"} /\ c # Pinned
       => link[c] = "dead"
  /\ \A k \in idle \ {Pinned} : listening[k] => \E s \in Stoppers : uerr[s]
  /\ fresh # NoConn => (listening[fresh] => \E s \in Stoppers : uerr[s])
  /\ \A s \in Stoppers : spc[s] = "unlisten" /\ repl # NoConn => target[s] = repl
  /\ \A s \in Stoppers : spc[s] = "release" /\ repl # NoConn /\ listening[repl]
                           => \E t \in Stoppers : uerr[t]
  /\ \A s \in Stoppers : rel[s] # NoConn /\ listening[rel[s]]
                           => \E t \in Stoppers : uerr[t]

(* A stop works on the session's connection, which nobody but a stop that  *)
(* has returned gave back.                                                 *)
Stopped ==
  /\ \A s \in Stoppers : spc[s] = "unlisten" => target[s] = cur
  /\ repl = NoConn /\ cur # Pinned =>
       \E s \in Stoppers : spc[s] = "stopped" \/ rel[s] = cur
  /\ ~open => pc = "refused" \/ \A s \in Stoppers : spc[s] = "stopped"
  /\ PanicNeedsEarlierStop

IndInv == TypeOK /\ Slots /\ Session /\ Registered /\ Stopped

-----------------------------------------------------------------------------

ConnTypes ==
  /\ link \in [Conns -> {"up", "dead"}]
  /\ listening \in [Conns -> BOOLEAN]
  /\ idle \in SUBSET Conns

LEMMA ReleaseTypes ==
  ASSUME TypeOK, NEW k \in Conns, Release(k)
  PROVE  ConnTypes'
<1>1. link' \in [Conns -> {"up", "dead"}] /\ idle' \in SUBSET Conns
  BY DEF TypeOK, Release
<1>2. listening' \in [Conns -> BOOLEAN]
  BY DEF TypeOK, Release
<1> QED BY <1>1, <1>2 DEF ConnTypes

LEMMA FailsTypes ==
  ASSUME TypeOK, NEW k \in Conns, NEW usable, Fails(k, usable)
  PROVE  ConnTypes' /\ open' \in BOOLEAN
BY DEF TypeOK, Fails, conns, ConnTypes

LEMMA ListenInd ==
  ASSUME IndInv, Listen
  PROVE  IndInv'
<1> USE ConnsAssumption, OptionsAssumption DEF IndInv, Listen, Succeeds, session, stops, env
<1>1. TypeOK' BY DEF TypeOK, Slots, Session
<1>2. Slots' BY DEF TypeOK, Slots, Session, Running
<1>3. Session' BY DEF TypeOK, Slots, Session, Running
<1>4. Registered' BY DEF TypeOK, Slots, Session, Registered, Running
<1>5. Stopped' BY DEF TypeOK, Slots, Session, Stopped, PanicNeedsEarlierStop
<1> QED BY <1>1, <1>2, <1>3, <1>4, <1>5

LEMMA ListenRefusedInd ==
  ASSUME IndInv, ListenRefused
  PROVE  IndInv'
<1> USE ConnsAssumption, OptionsAssumption DEF IndInv, ListenRefused, Fails, conns, session, stops, env
<1>1. TypeOK' BY DEF TypeOK, Slots, Session
<1>2. Slots' BY DEF TypeOK, Slots, Session, Running
<1>3. Session' BY DEF TypeOK, Slots, Session, Running
<1>4. Registered'
  <2>1. /\ UNCHANGED <<c, repl, fresh, idle, spc, target, uerr, rel>>
        /\ fresh = NoConn /\ pc' = "refused"
        /\ \/ UNCHANGED <<link, listening>>
           \/ /\ link' = [link EXCEPT ![Pinned] = "dead"]
              /\ listening' = [listening EXCEPT ![Pinned] = FALSE]
    BY DEF loop, Slots, Session, TypeOK
  <2> QED BY <2>1 DEF TypeOK, Slots, Session, Registered
<1>5. Stopped' BY DEF TypeOK, Slots, Session, Stopped, PanicNeedsEarlierStop
<1> QED BY <1>1, <1>2, <1>3, <1>4, <1>5

LEMMA TopInd ==
  ASSUME IndInv, Top
  PROVE  IndInv'
<1> USE ConnsAssumption, OptionsAssumption DEF IndInv, Top, conns, session, stops, env
<1>1. TypeOK' BY DEF TypeOK, Slots, Session
<1>2. Slots' BY DEF TypeOK, Slots, Session, Running
<1>3. Session' BY DEF TypeOK, Slots, Session, Running
<1>4. Registered' BY DEF TypeOK, Slots, Session, Registered, Running
<1>5. Stopped' BY DEF TypeOK, Slots, Session, Stopped, PanicNeedsEarlierStop
<1> QED BY <1>1, <1>2, <1>3, <1>4, <1>5

LEMMA NotifiedInd ==
  ASSUME IndInv, Notified
  PROVE  IndInv'
<1> USE ConnsAssumption, OptionsAssumption DEF IndInv, Notified, conns, session, stops, env
<1>1. TypeOK' BY DEF TypeOK, Slots, Session
<1>2. Slots' BY DEF TypeOK, Slots, Session, Running
<1>3. Session' BY DEF TypeOK, Slots, Session, Running
<1>4. Registered' BY DEF TypeOK, Slots, Session, Registered, Running
<1>5. Stopped' BY DEF TypeOK, Slots, Session, Stopped, PanicNeedsEarlierStop
<1> QED BY <1>1, <1>2, <1>3, <1>4, <1>5

LEMMA TickInd ==
  ASSUME IndInv, Tick
  PROVE  IndInv'
<1> USE ConnsAssumption, OptionsAssumption DEF IndInv, Tick, conns, session, stops, env
<1>1. TypeOK' BY DEF TypeOK, Slots, Session
<1>2. Slots' BY DEF TypeOK, Slots, Session, Running
<1>3. Session' BY DEF TypeOK, Slots, Session, Running
<1>4. Registered' BY DEF TypeOK, Slots, Session, Registered, Running
<1>5. Stopped' BY DEF TypeOK, Slots, Session, Stopped, PanicNeedsEarlierStop
<1> QED BY <1>1, <1>2, <1>3, <1>4, <1>5

LEMMA WaitFailsInd ==
  ASSUME IndInv, WaitFails
  PROVE  IndInv'
<1> USE ConnsAssumption, OptionsAssumption DEF IndInv, WaitFails, conns, session, stops, env
<1>1. TypeOK' BY DEF TypeOK, Slots, Session
<1>2. Slots' BY DEF TypeOK, Slots, Session, Running
<1>3. Session' BY DEF TypeOK, Slots, Session, Running
<1>4. Registered' BY DEF TypeOK, Slots, Session, Registered, Running
<1>5. Stopped' BY DEF TypeOK, Slots, Session, Stopped, PanicNeedsEarlierStop
<1> QED BY <1>1, <1>2, <1>3, <1>4, <1>5

LEMMA GiveUpOrRetryInd ==
  ASSUME IndInv, GiveUpOrRetry
  PROVE  IndInv'
<1> USE ConnsAssumption, OptionsAssumption DEF IndInv, GiveUpOrRetry, conns, session, stops, env
<1>1. TypeOK' BY DEF TypeOK, Slots, Session
<1>2. Slots' BY DEF TypeOK, Slots, Session, Running
<1>3. Session' BY DEF TypeOK, Slots, Session, Running
<1>4. Registered' BY DEF TypeOK, Slots, Session, Registered, Running
<1>5. Stopped' BY DEF TypeOK, Slots, Session, Stopped, PanicNeedsEarlierStop
<1> QED BY <1>1, <1>2, <1>3, <1>4, <1>5

LEMMA SleepElapsedInd ==
  ASSUME IndInv, SleepElapsed
  PROVE  IndInv'
<1> USE ConnsAssumption, OptionsAssumption DEF IndInv, SleepElapsed, conns, session, stops, env
<1>1. TypeOK' BY DEF TypeOK, Slots, Session
<1>2. Slots' BY DEF TypeOK, Slots, Session, Running
<1>3. Session' BY DEF TypeOK, Slots, Session, Running
<1>4. Registered' BY DEF TypeOK, Slots, Session, Registered, Running
<1>5. Stopped' BY DEF TypeOK, Slots, Session, Stopped, PanicNeedsEarlierStop
<1> QED BY <1>1, <1>2, <1>3, <1>4, <1>5

LEMMA SleepStoppedInd ==
  ASSUME IndInv, SleepStopped
  PROVE  IndInv'
<1> USE ConnsAssumption, OptionsAssumption DEF IndInv, SleepStopped, conns, session, stops, env
<1>1. TypeOK' BY DEF TypeOK, Slots, Session
<1>2. Slots' BY DEF TypeOK, Slots, Session, Running
<1>3. Session' BY DEF TypeOK, Slots, Session, Running
<1>4. Registered' BY DEF TypeOK, Slots, Session, Registered, Running
<1>5. Stopped' BY DEF TypeOK, Slots, Session, Stopped, PanicNeedsEarlierStop
<1> QED BY <1>1, <1>2, <1>3, <1>4, <1>5

LEMMA RelistenInd ==
  ASSUME IndInv, Relisten
  PROVE  IndInv'
<1> USE ConnsAssumption, OptionsAssumption DEF IndInv, Relisten, Succeeds, session, stops, env
<1>1. TypeOK' BY DEF TypeOK, Slots, Session
<1>2. Slots' BY DEF TypeOK, Slots, Session, Running
<1>3. Session' BY DEF TypeOK, Slots, Session, Running
<1>4. Registered' BY DEF TypeOK, Slots, Session, Registered, Running
<1>5. Stopped' BY DEF TypeOK, Slots, Session, Stopped, PanicNeedsEarlierStop
<1> QED BY <1>1, <1>2, <1>3, <1>4, <1>5

LEMMA RelistenFailsInd ==
  ASSUME IndInv, RelistenFails
  PROVE  IndInv'
<1> USE ConnsAssumption, OptionsAssumption DEF IndInv, RelistenFails, Fails, conns, session, stops, env
<1>1. TypeOK'
  <2>1. ConnTypes' /\ open' \in BOOLEAN
    BY FailsTypes DEF TypeOK
  <2>2. failures' \in 0 .. ReacquireAfter
    BY DEF TypeOK
  <2> QED BY <2>1, <2>2 DEF TypeOK, ConnTypes
<1>2. Slots' BY DEF TypeOK, Slots, Session, Running
<1>3. Session' BY DEF TypeOK, Slots, Session, Running
<1>4. Registered'
  <2>1. /\ UNCHANGED <<c, repl, fresh, idle, spc, target, uerr>>
        /\ pc' \in {"sleep", "reacquire"}
        /\ \/ UNCHANGED <<link, listening>>
           \/ /\ link' = [link EXCEPT ![c] = "dead"]
              /\ listening' = [listening EXCEPT ![c] = FALSE]
    BY DEF loop
  <2> QED BY <2>1 DEF TypeOK, Slots, Session, Registered
<1>5. Stopped' BY DEF TypeOK, Slots, Session, Stopped, PanicNeedsEarlierStop
<1> QED BY <1>1, <1>2, <1>3, <1>4, <1>5

LEMMA ReacquireInd ==
  ASSUME IndInv, Reacquire
  PROVE  IndInv'
<1> USE ConnsAssumption, OptionsAssumption DEF IndInv, Reacquire, session, stops, env
<1>1. TypeOK' BY DEF TypeOK, Slots, Session
<1>2. Slots' BY DEF TypeOK, Slots, Session, Running
<1>3. Session' BY DEF TypeOK, Slots, Session, Running
<1>4. Registered' BY DEF TypeOK, Slots, Session, Registered, Running
<1>5. Stopped' BY DEF TypeOK, Slots, Session, Stopped, PanicNeedsEarlierStop
<1> QED BY <1>1, <1>2, <1>3, <1>4, <1>5

LEMMA ReacquireFailsInd ==
  ASSUME IndInv, ReacquireFails
  PROVE  IndInv'
<1> USE ConnsAssumption, OptionsAssumption DEF IndInv, ReacquireFails, conns, session, stops, env
<1>1. TypeOK' BY DEF TypeOK, Slots, Session
<1>2. Slots' BY DEF TypeOK, Slots, Session, Running
<1>3. Session' BY DEF TypeOK, Slots, Session, Running
<1>4. Registered' BY DEF TypeOK, Slots, Session, Registered, Running
<1>5. Stopped' BY DEF TypeOK, Slots, Session, Stopped, PanicNeedsEarlierStop
<1> QED BY <1>1, <1>2, <1>3, <1>4, <1>5

LEMMA SwapInd ==
  ASSUME IndInv, Swap
  PROVE  IndInv'
<1> USE ConnsAssumption DEF IndInv, Swap, session, stops, env
<1>1. /\ TypeOK /\ fresh \in Conns /\ fresh # repl /\ fresh # Pinned
      /\ repl # NoConn => repl \in Conns /\ repl # Pinned /\ link[repl] = "dead"
      /\ link[fresh] = "up"
  BY DEF TypeOK, Slots, Session, Registered, Running
<1>2. CASE repl = NoConn
  <2>1. /\ UNCHANGED <<idle, link>>
        /\ listening' = [listening EXCEPT ![fresh] = TRUE]
    BY <1>2
  <2>2. TypeOK' BY <1>1, <2>1 DEF TypeOK
  <2>3. Slots' BY <1>1, <1>2, <2>1 DEF TypeOK, Slots, Session
  <2>4. Session' BY <1>1, <1>2, <2>1 DEF TypeOK, Slots, Session, Running
  <2>5. Registered' BY <1>1, <1>2, <2>1 DEF TypeOK, Slots, Session, Registered
  <2>6. Stopped' BY <1>1, <1>2, <2>1 DEF TypeOK, Session, Running, Stopped, PanicNeedsEarlierStop
  <2> QED BY <2>2, <2>3, <2>4, <2>5, <2>6
<1>3. CASE repl # NoConn
  <2>1. /\ idle' = idle \cup {repl}
        /\ link' = [link EXCEPT ![repl] = "up"]
        /\ listening' = [listening EXCEPT ![fresh] = TRUE, ![repl] = FALSE]
    BY <1>1, <1>3 DEF TypeOK, Registered
  <2>2. TypeOK' BY <1>1, <1>3, <2>1 DEF TypeOK
  <2>3. Slots' BY <1>1, <1>3, <2>1 DEF TypeOK, Slots, Session
  <2>4. Session' BY <1>1, <1>3, <2>1 DEF TypeOK, Slots, Session, Running
  <2>5. Registered' BY <1>1, <1>3, <2>1 DEF TypeOK, Slots, Session, Registered
  <2>6. Stopped' BY <1>1, <1>3, <2>1 DEF TypeOK, Session, Running, Stopped, PanicNeedsEarlierStop
  <2> QED BY <2>2, <2>3, <2>4, <2>5, <2>6
<1> QED BY <1>2, <1>3

LEMMA FreshFailsInd ==
  ASSUME IndInv, FreshFails
  PROVE  IndInv'
<1> USE ConnsAssumption, OptionsAssumption DEF IndInv, FreshFails, Release, session, stops, env
<1>1. TypeOK' BY DEF TypeOK, Slots, Session
<1>2. Slots' BY DEF TypeOK, Slots, Session, Running
<1>3. Session' BY DEF TypeOK, Slots, Session, Running
<1>4. Registered' BY DEF TypeOK, Slots, Session, Registered, Running
<1>5. Stopped' BY DEF TypeOK, Slots, Session, Stopped, PanicNeedsEarlierStop
<1> QED BY <1>1, <1>2, <1>3, <1>4, <1>5

LEMMA CancelBaseInd ==
  ASSUME IndInv, CancelBase
  PROVE  IndInv'
<1> USE ConnsAssumption, OptionsAssumption DEF IndInv, CancelBase, conns, loop, session, stops, env
<1>1. TypeOK' BY DEF TypeOK, Slots, Session
<1>2. Slots' BY DEF TypeOK, Slots, Session, Running
<1>3. Session' BY DEF TypeOK, Slots, Session, Running
<1>4. Registered' BY DEF TypeOK, Slots, Session, Registered, Running
<1>5. Stopped' BY DEF TypeOK, Slots, Session, Stopped, PanicNeedsEarlierStop
<1> QED BY <1>1, <1>2, <1>3, <1>4, <1>5

LEMMA CloseConnInd ==
  ASSUME IndInv, CloseConn
  PROVE  IndInv'
<1> USE ConnsAssumption, OptionsAssumption DEF IndInv, CloseConn, Release, loop, session, stops, env
<1>1. TypeOK'
  <2>1. ConnTypes'
    BY ReleaseTypes DEF TypeOK, ConnTypes
  <2> QED BY <2>1 DEF TypeOK, ConnTypes
<1>2. Slots' BY DEF TypeOK, Slots, Session, Running
<1>3. Session' BY DEF TypeOK, Slots, Session, Running
<1>4. Registered' BY DEF TypeOK, Slots, Session, Registered, Running
<1>5. Stopped' BY DEF TypeOK, Slots, Session, Stopped, PanicNeedsEarlierStop
<1> QED BY <1>1, <1>2, <1>3, <1>4, <1>5

LEMMA StopRequestInd ==
  ASSUME IndInv, NEW s \in Stoppers, StopRequest(s)
  PROVE  IndInv'
<1> USE ConnsAssumption, OptionsAssumption DEF IndInv, StopRequest, conns, loop, session, stops, env
<1>1. TypeOK' BY DEF TypeOK, Slots, Session
<1>2. Slots' BY DEF TypeOK, Slots, Session, Running
<1>3. Session' BY DEF TypeOK, Slots, Session, Running
<1>4. Registered' BY DEF TypeOK, Slots, Session, Registered, Running
<1>5. Stopped' BY DEF TypeOK, Slots, Session, Stopped, PanicNeedsEarlierStop
<1> QED BY <1>1, <1>2, <1>3, <1>4, <1>5

LEMMA StopJoinedInd ==
  ASSUME IndInv, NEW s \in Stoppers, StopJoined(s)
  PROVE  IndInv'
<1> USE ConnsAssumption, OptionsAssumption DEF IndInv, StopJoined, conns, loop, session, stops, env
<1>1. TypeOK' BY DEF TypeOK, Slots, Session
<1>2. Slots' BY DEF TypeOK, Slots, Session, Running
<1>3. Session' BY DEF TypeOK, Slots, Session, Running
<1>4. Registered' BY DEF TypeOK, Slots, Session, Registered, Running
<1>5. Stopped' BY DEF TypeOK, Slots, Session, Stopped, PanicNeedsEarlierStop
<1> QED BY <1>1, <1>2, <1>3, <1>4, <1>5

LEMMA UnlistenInd ==
  ASSUME IndInv, NEW s \in Stoppers, Unlisten(s)
  PROVE  IndInv'
<1> USE ConnsAssumption, OptionsAssumption DEF IndInv, Unlisten, Succeeds, Fails, conns, loop, session, stops, env
<1>1. TypeOK'
  <2>1. /\ spc' \in [Stoppers -> {"idle", "join", "unlisten", "release", "giveback",
                                "stopped", "panic"}]
        /\ uerr' \in [Stoppers -> BOOLEAN]
    BY DEF TypeOK
  <2>2. target[s] \in Conns
    BY DEF TypeOK, Stopped
  <2>3. ConnTypes' /\ open' \in BOOLEAN
    BY <2>2 DEF TypeOK, ConnTypes
  <2> QED BY <2>1, <2>3 DEF TypeOK, ConnTypes
<1>2. Slots' BY DEF TypeOK, Slots, Session, Running
<1>3. Session' BY DEF TypeOK, Slots, Session, Running
<1>4. Registered' BY DEF TypeOK, Slots, Session, Registered, Running
<1>5. Stopped' BY DEF TypeOK, Slots, Session, Stopped, PanicNeedsEarlierStop
<1> QED BY <1>1, <1>2, <1>3, <1>4, <1>5

LEMMA ReleaseReplacementInd ==
  ASSUME IndInv, NEW s \in Stoppers, ReleaseReplacement(s)
  PROVE  IndInv'
<1> USE ConnsAssumption, OptionsAssumption DEF IndInv, ReleaseReplacement, conns, loop, env
<1>1. TypeOK' BY DEF TypeOK
<1>2. Slots' BY DEF TypeOK, Slots, Session, Running
<1>3. Session' BY DEF TypeOK, Slots, Session, Running
<1>4. Registered' BY DEF TypeOK, Slots, Session, Registered, Running
<1>5. Stopped' BY DEF TypeOK, Slots, Session, Stopped, PanicNeedsEarlierStop
<1> QED BY <1>1, <1>2, <1>3, <1>4, <1>5

LEMMA GiveBackInd ==
  ASSUME IndInv, NEW s \in Stoppers, GiveBack(s)
  PROVE  IndInv'
<1> USE ConnsAssumption, OptionsAssumption DEF IndInv, GiveBack, Release, loop, session, env
<1>1. TypeOK'
  <2>1. ConnTypes'
    BY ReleaseTypes DEF TypeOK, ConnTypes
  <2> QED BY <2>1 DEF TypeOK, ConnTypes
<1>2. Slots' BY DEF TypeOK, Slots, Session, Running
<1>3. Session' BY DEF TypeOK, Slots, Session, Running
<1>4. Registered' BY DEF TypeOK, Slots, Session, Registered, Running
<1>5. Stopped' BY DEF TypeOK, Slots, Session, Stopped, PanicNeedsEarlierStop
<1> QED BY <1>1, <1>2, <1>3, <1>4, <1>5

LEMMA LinkDownInd ==
  ASSUME IndInv, NEW k \in Conns, LinkDown(k)
  PROVE  IndInv'
<1> USE ConnsAssumption, OptionsAssumption DEF IndInv, LinkDown, loop, session, stops, env
<1>1. TypeOK' BY DEF TypeOK, Slots, Session
<1>2. Slots' BY DEF TypeOK, Slots, Session, Running
<1>3. Session' BY DEF TypeOK, Slots, Session, Running
<1>4. Registered' BY DEF TypeOK, Slots, Session, Registered, Running
<1>5. Stopped' BY DEF TypeOK, Slots, Session, Stopped, PanicNeedsEarlierStop
<1> QED BY <1>1, <1>2, <1>3, <1>4, <1>5

LEMMA StutterInd ==
  ASSUME IndInv, UNCHANGED vars
  PROVE  IndInv'
<1> USE DEF IndInv, vars, loop, session, stops, conns, env
<1>1. TypeOK' BY DEF TypeOK
<1>2. Slots' /\ Session' /\ Registered' /\ Stopped'
  BY DEF Slots, Session, Registered, Running, Stopped, PanicNeedsEarlierStop
<1> QED BY <1>1, <1>2

LEMMA InitInd ==
  ASSUME Init
  PROVE  IndInv
<1> USE ConnsAssumption, OptionsAssumption DEF Init, IndInv
<1>1. TypeOK
  <2>1. failures \in 0 .. ReacquireAfter /\ backoff \in RetryDelay .. MaxBackoff
    OBVIOUS
  <2>2. /\ spc \in [Stoppers -> {"idle", "join", "unlisten", "release", "giveback",
                               "stopped", "panic"}]
        /\ uctx \in [Stoppers -> {"none", "base", "fresh"}]
        /\ target \in [Stoppers -> Conns \cup {NoConn}]
        /\ uerr \in [Stoppers -> BOOLEAN]
        /\ rel \in [Stoppers -> Conns \cup {NoConn}]
    OBVIOUS
  <2>3. link \in [Conns -> {"up", "dead"}] /\ listening \in [Conns -> BOOLEAN]
    OBVIOUS
  <2> QED BY <2>1, <2>2, <2>3 DEF TypeOK
<1>2. Slots /\ Session /\ Registered /\ Stopped
  BY DEF Slots, Session, Registered, Running, Stopped, PanicNeedsEarlierStop
<1> QED BY <1>1, <1>2

LEMMA NextInd ==
  ASSUME IndInv, [Next]_vars
  PROVE  IndInv'
<1>1. CASE LoopStep
  BY <1>1, TopInd, TickInd, WaitFailsInd, GiveUpOrRetryInd, SleepElapsedInd,
     SleepStoppedInd, RelistenInd, RelistenFailsInd, ReacquireInd,
     ReacquireFailsInd, SwapInd, FreshFailsInd DEF LoopStep
<1>2. ASSUME NEW s \in Stoppers, StopRequest(s) \/ StopStep(s) PROVE IndInv'
  BY <1>2, StopRequestInd, StopJoinedInd, UnlistenInd, ReleaseReplacementInd, GiveBackInd
     DEF StopStep
<1>3. CASE Listen \/ ListenRefused \/ Notified \/ CloseConn \/ CancelBase
  BY <1>3, ListenInd, ListenRefusedInd, NotifiedInd, CloseConnInd, CancelBaseInd
<1>4. ASSUME NEW k \in Conns, LinkDown(k) PROVE IndInv'
  BY <1>4, LinkDownInd
<1>5. CASE Finished \/ UNCHANGED vars
  BY <1>5, StutterInd DEF Finished
<1> QED BY <1>1, <1>2, <1>3, <1>4, <1>5 DEF Next

LEMMA Inductive == Spec => []IndInv
BY InitInd, NextInd, PTL DEF Spec

-----------------------------------------------------------------------------
(* Every variable keeps its type; the backoff stays between RetryDelay and *)
(* MaxBackoff.                                                             *)
THEOREM TypeCorrect == Spec => []TypeOK
<1>1. IndInv => TypeOK BY DEF IndInv
<1> QED BY <1>1, Inductive, PTL

(* listenLoop works on a connection nobody else can be lent, through any   *)
(* number of swaps.                                                        *)
THEOREM LoopAlwaysHoldsItsConn == Spec => []LoopHoldsItsConn
<1>1. IndInv => LoopHoldsItsConn
  BY ConnsAssumption
     DEF IndInv, TypeOK, Slots, Session, LoopHoldsItsConn, Running
<1> QED BY <1>1, Inductive, PTL

(* With any number of concurrent stops, once one has returned nothing but  *)
(* the pinned connection is out of the pool, or else the replacement       *)
(* another stop has taken from the session and gives back next.            *)
THEOREM NeverLeaksReplacement == Spec => []NoReplacementLeak
<1>1. IndInv => NoReplacementLeak
  <2> SUFFICES ASSUME IndInv, NEW s \in Stoppers, spc[s] = "stopped",
                      NEW k \in Conns \ {Pinned}, k \notin idle
               PROVE  \E t \in Stoppers : spc[t] = "giveback" /\ rel[t] = k
    BY DEF NoReplacementLeak
  <2>1. pc = "exited" /\ repl = NoConn /\ fresh = NoConn
    BY DEF IndInv, Slots, Session
  <2>2. PICK t \in Stoppers : rel[t] = k
    BY <2>1, ConnsAssumption DEF IndInv, Slots
  <2> QED BY <2>2, ConnsAssumption DEF IndInv, Slots
<1> QED BY <1>1, Inductive, PTL

(* A replacement in the pool is not registered unless an UNLISTEN failed.  *)
THEOREM AlwaysUnregistered == Spec => []ReplacementsUnregistered
<1>1. IndInv => ReplacementsUnregistered
  BY DEF IndInv, Registered, ReplacementsUnregistered
<1> QED BY <1>1, Inductive, PTL

(* stop: for any number of concurrent stops, only one that follows another *)
(* and finds a swapped session meets a released connection.                *)
THEOREM PanicAlwaysFollowsStop == Spec => []PanicNeedsEarlierStop
<1>1. IndInv => PanicNeedsEarlierStop BY DEF IndInv, Stopped
<1> QED BY <1>1, Inductive, PTL
=============================================================================
