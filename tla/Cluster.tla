------------------------------ MODULE Cluster ------------------------------
(* A cluster (database/replica.go) and the DBs it is made of               *)
(* (database/database.go): the application builds a primary and replicas,  *)
(* hands them to NewCluster, and any number of goroutines read and write   *)
(* through it.  Members are built from the options of the application, or, *)
(* for a replica, from the effective options of the primary.               *)
EXTENDS Options, FiniteSets

CONSTANTS MaxReplicas,         \* bound: replicas of a cluster
          Readers,             \* goroutines
          Explicit, Env,       \* options and environments to start from
          Counter,             \* values of the round-robin counter (2^32)
          MaxReads,            \* bound: reads of a behaviour
          None,                \* no ticket, no DB yet
          Nil                  \* a nil *DB

(* What may be in an Options value and in the environment.                 *)
OptionsOf(numbers, booleans) ==
  [creds : booleans, min : numbers, max : numbers, command : numbers,
   connection : numbers, enabled : booleans, retries : numbers, delay : numbers,
   slow : numbers]
OptionsType == OptionsOf(Int, BOOLEAN)
EnvType == OptionsOf(Int \cup {Unset, Invalid}, BOOLEAN \cup {Unset, Invalid})

ASSUME ClusterAssumption ==
  /\ MaxReplicas \in Nat /\ MaxReads \in Nat /\ Counter \in Nat \ {0}
  /\ IsFiniteSet(Readers)
  /\ None \notin Int /\ None # Nil
  /\ \A o \in Explicit : o \in OptionsType
  /\ \A e \in Env : e \in EnvType

VARIABLES
  replicas, \* number of replicas
  opts,     \* the options that the application passes to New
  dbs,      \* the members built so far: None, Nil or a DB
  cluster,  \* "building", "refused" or "ready"
  rr,       \* the counter
  wraps,    \* times the counter has wrapped
  ticket,   \* the value a reader has drawn and not used yet
  served,   \* reads routed, by member
  written   \* the members that writes were routed to

vars == <<replicas, opts, dbs, cluster, rr, wraps, ticket, served, written>>

Members == 0 .. replicas       \* 0 is the primary

IsDB(m) == dbs[m] \notin {None, Nil}

TypeOK ==
  /\ replicas \in 0 .. MaxReplicas
  /\ opts \in OptionsType
  /\ DOMAIN dbs = Members
  /\ \A m \in Members : IsDB(m) =>
       dbs[m] \in [options : OptionsType, pool : [MinConns : Int, MaxConns : Int]]
  /\ cluster \in {"building", "refused", "ready"}
  /\ rr \in 0 .. Counter - 1 /\ wraps \in Nat
  /\ ticket \in [Readers -> (0 .. Counter - 1) \cup {None}]
  /\ served \in [Members -> Nat]
  /\ written \in SUBSET Members

(* New without options reads the environment.                              *)
Init ==
  /\ replicas \in 0 .. MaxReplicas
  /\ opts \in Explicit \cup {LoadFromEnv(e) : e \in Env}
  /\ dbs = [m \in Members |-> None]
  /\ cluster = "building"
  /\ rr = 0 /\ wraps = 0
  /\ ticket = [g \in Readers |-> None]
  /\ served = [m \in Members |-> 0]
  /\ written = {}

-----------------------------------------------------------------------------
(* newDB: options that are not valid give an error and a nil DB, ...       *)
NewDB(o) == LET d == WithDefaults(o) IN IF Validate(d) THEN Built(d) ELSE Nil

Build(m, db) ==
  /\ cluster = "building" /\ dbs[m] = None
  /\ dbs' = [dbs EXCEPT ![m] = db]
  /\ UNCHANGED <<replicas, opts, cluster, rr, wraps, ticket, served, written>>

New(m) == Build(m, NewDB(opts))

(* ... and so does a DSN or a pool that cannot be made.                    *)
NewFails(m) == Build(m, Nil)

(* A replica is built from the effective options of the primary, with the  *)
(* credentials that DB.Options leaves out.                                 *)
NewLikePrimary(m) ==
  /\ m # 0 /\ IsDB(0)
  /\ Build(m, NewDB([EffectiveOptions(dbs[0]) EXCEPT !.creds = TRUE]))

NewClusterUnchecked ==
  /\ cluster = "building" /\ \A m \in Members : dbs[m] # None
  /\ cluster' = IF dbs[0] # Nil THEN "ready" ELSE "refused"
  /\ UNCHANGED <<replicas, opts, dbs, rr, wraps, ticket, served, written>>

(* Every pointer is checked.                                               *)
NewCluster ==
  /\ cluster = "building" /\ \A m \in Members : dbs[m] # None
  /\ cluster' = IF \A m \in Members : dbs[m] # Nil THEN "ready" ELSE "refused"
  /\ UNCHANGED <<replicas, opts, dbs, rr, wraps, ticket, served, written>>

(* The replica that a value of the counter stands for.                     *)
Target(t) == 1 + (t % replicas)

DrawStale(g) ==
  /\ cluster = "ready" /\ replicas > 0
  /\ ticket[g] = None /\ wraps * Counter + rr < MaxReads
  /\ ticket' = [ticket EXCEPT ![g] = rr]
  /\ \E seen \in {rr} \cup ({ticket[h] : h \in Readers} \ {None}) :
       /\ rr' = (seen + 1) % Counter
       /\ wraps' = IF seen + 1 = Counter THEN wraps + 1 ELSE wraps
  /\ UNCHANGED <<replicas, opts, dbs, cluster, served, written>>

(* Replica draws from the counter, atomically, ...                         *)
Draw(g) ==
  /\ cluster = "ready" /\ replicas > 0
  /\ ticket[g] = None /\ wraps * Counter + rr < MaxReads
  /\ ticket' = [ticket EXCEPT ![g] = rr]
  /\ rr' = (rr + 1) % Counter
  /\ wraps' = IF rr + 1 = Counter THEN wraps + 1 ELSE wraps
  /\ UNCHANGED <<replicas, opts, dbs, cluster, served, written>>

(* ... and the read goes where the value drawn says, in any order, ...     *)
Route(g) ==
  /\ ticket[g] # None
  /\ served' = [served EXCEPT ![Target(ticket[g])] = @ + 1]
  /\ ticket' = [ticket EXCEPT ![g] = None]
  /\ UNCHANGED <<replicas, opts, dbs, cluster, rr, wraps, written>>

(* ... or to the primary if there is no replica.                           *)
ReadPrimary ==
  /\ cluster = "ready" /\ replicas = 0 /\ served[0] < MaxReads
  /\ served' = [served EXCEPT ![0] = @ + 1]
  /\ UNCHANGED <<replicas, opts, dbs, cluster, rr, wraps, ticket, written>>

(* Execute, Transactional and TransactionalLevel.                          *)
Write ==
  /\ cluster = "ready"
  /\ written' = written \cup {0}
  /\ UNCHANGED <<replicas, opts, dbs, cluster, rr, wraps, ticket, served>>

(* An application that was refused a cluster gives up; reads are bounded.  *)
Finished ==
  /\ cluster = "refused" \/ served[0] = MaxReads \/ wraps * Counter + rr = MaxReads
  /\ UNCHANGED vars

Next ==
  \/ \E m \in Members : New(m) \/ NewFails(m) \/ NewLikePrimary(m)
  \/ NewCluster
  \/ \E g \in Readers : Draw(g) \/ Route(g)
  \/ ReadPrimary \/ Write \/ Finished

Spec == Init /\ [][Next]_vars

-----------------------------------------------------------------------------
(* Properties.                                                             *)

(* Reads a replica got or is about to get.                                 *)
InFlight(r) == {g \in Readers : ticket[g] # None /\ Target(ticket[g]) = r}
Given(r) == served[r] + Cardinality(InFlight(r))

(* However the readers interleave, no replica is ahead of another by more  *)
(* than one read, and one more for each time the counter has wrapped: 2^32 *)
(* is no multiple of every number of replicas, so the rotation starts anew *)
(* at each wrap (Cluster.Replica).                                         *)
EvenSpread == \A r, s \in Members \ {0} : Given(r) <= Given(s) + 1 + wraps

(* What pgxpool accepts.                                                   *)
Fits(pool) ==
  /\ 0 <= pool.MinConns /\ pool.MinConns <= pool.MaxConns
  /\ pool.MaxConns \in 1 .. MaxInt32

(* Nobody is routed to a member that New did not build, or built with pool *)
(* sizes that pgxpool refuses: NewCluster has looked at every pointer, and *)
(* newDB has clamped what was configured.  Reads leave the primary alone   *)
(* if there is a replica, and writes leave the replicas alone.             *)
RoutedToBuilt ==
  /\ \A m \in Members : Given(m) > 0 \/ m \in written => IsDB(m) /\ Fits(dbs[m].pool)
  /\ replicas > 0 => served[0] = 0
  /\ written \subseteq {0}

(* Replicas that are built from the application's options, and replicas    *)
(* that are built from the effective options of the primary, are           *)
(* configured as the primary is: withDefaults is idempotent.               *)
MembersAlike == \A m, n \in Members : IsDB(m) /\ IsDB(n) => dbs[m] = dbs[n]

(* A disabled retry stays disabled if the number of retries or the delay   *)
(* says that it was disabled on purpose (defaultRetryEnabled).             *)
RetryOffHonoured ==
  \A m \in Members :
    IsDB(m) /\ ~opts.enabled
    /\ (opts.retries \notin {0, Default.retries} \/ opts.delay \notin {0, Default.delay})
    => ~dbs[m].options.enabled
=============================================================================
