--------------------------- MODULE ClusterProofs ---------------------------
(* Proofs about Cluster and Options for any options, any numbers of        *)
(* replicas and readers, and any width of the round-robin counter.         *)
EXTENDS Cluster, FiniteSetTheorems, TLAPS

-----------------------------------------------------------------------------
(* Options.                                                                *)

(* The defaults, field by field.                                           *)
LEMMA Defaults ==
  /\ Default.min = 10 /\ Default.max = 100 /\ Default.command = 30000
  /\ Default.connection = 15000 /\ Default.retries = 3 /\ Default.delay = 100
  /\ Default.slow = 500
BY DEF Default

LEMMA DefaultEnabled == Default.enabled \in BOOLEAN
BY DEF Default

LEMMA EnvBool ==
  ASSUME NEW v \in BOOLEAN \cup {Unset, Invalid}, NEW fallback \in BOOLEAN
  PROVE  EnvValue(v, fallback) \in BOOLEAN
BY Zenon DEF EnvValue

LEMMA LoadType == ASSUME NEW e \in EnvType PROVE LoadFromEnv(e) \in OptionsType
<1> DEFINE Number == Int \cup {Unset, Invalid}
<1>0. /\ e.min \in Number /\ e.max \in Number /\ e.command \in Number
      /\ e.connection \in Number /\ e.retries \in Number /\ e.delay \in Number
      /\ e.slow \in Number
  BY DEF EnvType, OptionsOf
<1>1. /\ EnvValue(e.min, Default.min) \in Int /\ EnvValue(e.max, Default.max) \in Int
      /\ EnvValue(e.command, Default.command) \in Int
      /\ EnvValue(e.connection, Default.connection) \in Int
      /\ EnvValue(e.retries, Default.retries) \in Int
      /\ EnvValue(e.delay, Default.delay) \in Int /\ EnvValue(e.slow, Default.slow) \in Int
  BY <1>0, Defaults DEF EnvValue
<1>2. e.creds \in BOOLEAN \cup {Unset, Invalid} /\ e.enabled \in BOOLEAN \cup {Unset, Invalid}
  BY DEF EnvType, OptionsOf
<1>3. EnvValue(e.creds, FALSE) \in BOOLEAN BY <1>2, EnvBool
<1>4. EnvValue(e.enabled, Default.enabled) \in BOOLEAN BY <1>2, EnvBool, DefaultEnabled
<1> QED BY <1>1, <1>3, <1>4 DEF LoadFromEnv, OptionsType, OptionsOf

LEMMA FillType == ASSUME NEW o \in OptionsType PROVE FillNumbers(o) \in OptionsType
<1>2. /\ o.min \in Int /\ o.max \in Int /\ o.command \in Int /\ o.connection \in Int
      /\ o.retries \in Int /\ o.delay \in Int /\ o.slow \in Int
  BY DEF OptionsType, OptionsOf
<1>3. /\ Fill(o.min, Default.min) \in Int /\ Fill(o.max, Default.max) \in Int
      /\ Fill(o.command, Default.command) \in Int
      /\ Fill(o.connection, Default.connection) \in Int
      /\ Fill(o.retries, Default.retries) \in Int
      /\ Fill(o.delay, Default.delay) \in Int /\ Fill(o.slow, Default.slow) \in Int
  BY <1>2, Defaults DEF Fill
<1> QED BY <1>3 DEF FillNumbers, OptionsType, OptionsOf

LEMMA RetryType == ASSUME NEW o \in OptionsType PROVE DefaultRetryEnabled(o) \in OptionsType
<1> DEFINE e == o.enabled \/ (o.retries = Default.retries /\ o.delay = Default.delay)
<1>1. e \in BOOLEAN OBVIOUS
<1>2. DefaultRetryEnabled(o) = [o EXCEPT !.enabled = e] BY DEF DefaultRetryEnabled
<1> HIDE DEF e
<1> QED BY <1>1, <1>2 DEF OptionsType, OptionsOf

LEMMA WithDefaultsType == ASSUME NEW o \in OptionsType PROVE WithDefaults(o) \in OptionsType
BY FillType, RetryType DEF WithDefaults

(* What is filled already stays as it is.                                  *)
LEMMA FillsOnce ==
  ASSUME NEW o \in OptionsType,
         o.min # 0, o.max # 0, o.command # 0, o.connection # 0, o.retries # 0, o.delay # 0, o.slow # 0
  PROVE  FillNumbers(o) = o
<1>1. /\ Fill(o.min, Default.min) = o.min /\ Fill(o.max, Default.max) = o.max
      /\ Fill(o.command, Default.command) = o.command
      /\ Fill(o.connection, Default.connection) = o.connection
      /\ Fill(o.retries, Default.retries) = o.retries
      /\ Fill(o.delay, Default.delay) = o.delay /\ Fill(o.slow, Default.slow) = o.slow
  BY DEF Fill
<1> QED BY <1>1 DEF FillNumbers, OptionsType, OptionsOf

LEMMA Filled ==
  ASSUME NEW o \in OptionsType
  PROVE  LET d == FillNumbers(o)
         IN  /\ d.min # 0 /\ d.max # 0 /\ d.command # 0 /\ d.connection # 0
             /\ d.retries = Fill(o.retries, Default.retries) /\ d.retries # 0
             /\ d.delay = Fill(o.delay, Default.delay) /\ d.delay # 0
             /\ d.slow # 0 /\ d.enabled = o.enabled
BY Defaults DEF FillNumbers, Fill, OptionsType, OptionsOf

(* defaultRetryEnabled changes one field, and that one once.               *)
LEMMA RetryFields ==
  ASSUME NEW o \in OptionsType
  PROVE  LET d == DefaultRetryEnabled(o)
         IN  /\ d.min = o.min /\ d.max = o.max /\ d.command = o.command
             /\ d.connection = o.connection /\ d.retries = o.retries
             /\ d.delay = o.delay /\ d.slow = o.slow /\ d.creds = o.creds
BY DEF DefaultRetryEnabled, OptionsType, OptionsOf

LEMMA RetryEnabledIs ==
  ASSUME NEW o \in OptionsType
  PROVE  DefaultRetryEnabled(o).enabled
           = (o.enabled \/ (o.retries = Default.retries /\ o.delay = Default.delay))
BY DEF DefaultRetryEnabled, OptionsType, OptionsOf

LEMMA RetryOnce ==
  ASSUME NEW o \in OptionsType
  PROVE  DefaultRetryEnabled(DefaultRetryEnabled(o)) = DefaultRetryEnabled(o)
<1> DEFINE d == DefaultRetryEnabled(o)
           e == d.enabled \/ (d.retries = Default.retries /\ d.delay = Default.delay)
<1>1. d \in OptionsType BY RetryType
<1>2. d.retries = o.retries /\ d.delay = o.delay BY RetryFields
<1>3. d.enabled = (o.enabled \/ (o.retries = Default.retries /\ o.delay = Default.delay))
  BY RetryEnabledIs
<1>4. d.enabled \in BOOLEAN BY <1>1 DEF OptionsType, OptionsOf
<1>5. e = d.enabled BY <1>2, <1>3, <1>4, Zenon
<1>6. DefaultRetryEnabled(d) = [d EXCEPT !.enabled = e] BY DEF DefaultRetryEnabled
<1> HIDE DEF d, e
<1>7. [d EXCEPT !.enabled = d.enabled] = d BY <1>1 DEF OptionsType, OptionsOf
<1> QED BY <1>5, <1>6, <1>7 DEF d

LEMMA Idempotent ==
  ASSUME NEW o \in OptionsType PROVE WithDefaults(WithDefaults(o)) = WithDefaults(o)
<1> DEFINE f == FillNumbers(o)
           d == WithDefaults(o)
<1>1. f \in OptionsType /\ d \in OptionsType BY FillType, WithDefaultsType
<1>2. d = DefaultRetryEnabled(f) BY DEF WithDefaults
<1> HIDE DEF f, d
<1>3. d.min # 0 /\ d.max # 0 /\ d.command # 0 /\ d.connection # 0
      /\ d.retries # 0 /\ d.delay # 0 /\ d.slow # 0
  BY <1>1, <1>2, RetryFields, Filled DEF f
<1>4. FillNumbers(d) = d BY <1>1, <1>3, FillsOnce
<1>5. DefaultRetryEnabled(d) = d BY <1>1, <1>2, RetryOnce
<1> QED BY <1>4, <1>5 DEF WithDefaults, d

LEMMA PoolSizesFit ==
  ASSUME NEW o \in OptionsType
  PROVE  LET p == PoolSizes(o)
         IN  /\ p \in [MinConns : Int, MaxConns : Int]
             /\ 0 <= p.MinConns /\ p.MinConns <= p.MaxConns
             /\ p.MaxConns \in 1 .. MaxInt32
BY OptionsAssumption DEF PoolSizes, AtLeast, AtMost, OptionsType, OptionsOf

-----------------------------------------------------------------------------
(* Remainders.                                                             *)

LEMMA Division ==
  ASSUME NEW n \in Nat \ {0}, NEW x \in Nat
  PROVE  /\ x = n * (x \div n) + (x % n) /\ x \div n \in Int
         /\ x % n \in Nat /\ x % n < n
OBVIOUS

LEMMA NoMultiple ==
  ASSUME NEW n \in Nat \ {0}, NEW d \in Int, n * d < n, -n < n * d PROVE d = 0
OBVIOUS

LEMMA Unique ==
  ASSUME NEW n \in Nat \ {0}, NEW p \in Int, NEW q \in Int,
         NEW j \in 0 .. n - 1, NEW k \in 0 .. n - 1, n * p + j = n * q + k
  PROVE  j = k
<1>1. n * (p - q) = k - j OBVIOUS
<1>2. n * (p - q) < n /\ -n < n * (p - q) BY <1>1
<1>3. p - q = 0 BY <1>2, NoMultiple
<1> QED BY <1>3, <1>1

LEMMA ModStep ==
  ASSUME NEW n \in Nat \ {0}, NEW x \in Nat
  PROVE  (x + 1) % n = IF (x % n) + 1 = n THEN 0 ELSE (x % n) + 1
<1> DEFINE q == x \div n        k == x % n
           p == (x + 1) \div n  j == (x + 1) % n
<1>1. x = n * q + k /\ q \in Int /\ k \in Nat /\ k < n BY Division
<1>2. x + 1 = n * p + j /\ p \in Int /\ j \in Nat /\ j < n BY Division
<1> HIDE DEF q, k, p, j
<1>3. CASE k + 1 < n
  <2>1. n * p + j = n * q + (k + 1) BY <1>1, <1>2
  <2>2. j \in 0 .. n - 1 /\ k + 1 \in 0 .. n - 1 BY <1>1, <1>2, <1>3
  <2>3. j = k + 1 BY <2>1, <2>2, <1>1, <1>2, Unique
  <2> QED BY <2>3, <1>3, <1>1 DEF k, j
<1>4. CASE k + 1 = n
  <2>1. n * p + j = n * (q + 1) + 0 BY <1>1, <1>2, <1>4
  <2>2. j \in 0 .. n - 1 /\ 0 \in 0 .. n - 1 /\ q + 1 \in Int BY <1>1, <1>2
  <2>3. j = 0 BY <2>1, <2>2, <1>2, Unique
  <2> QED BY <2>3, <1>4 DEF k, j
<1> QED BY <1>1, <1>3, <1>4

LEMMA SmallMod == ASSUME NEW n \in Nat \ {0}, NEW x \in 0 .. n - 1 PROVE x % n = x
<1>1. x = n * (x \div n) + (x % n) /\ x \div n \in Int /\ x % n \in 0 .. n - 1 BY Division
<1>2. n * (x \div n) + (x % n) = n * 0 + x BY <1>1
<1> QED BY <1>1, <1>2, Unique

-----------------------------------------------------------------------------
(* The inductive invariant.                                                *)

(* Every member is what New makes of the application's options.            *)
BuiltAlike == \A m \in Members : IsDB(m) => dbs[m] = NewDB(opts)

(* Nothing is routed before NewCluster, which has looked at every member.  *)
Routed ==
  /\ cluster = "ready" => \A m \in Members : IsDB(m)
  /\ cluster # "ready" => /\ rr = 0 /\ wraps = 0 /\ written = {}
                          /\ \A g \in Readers : ticket[g] = None
                          /\ \A m \in Members : served[m] = 0
  /\ replicas = 0 => \A g \in Readers : ticket[g] = None
  /\ replicas > 0 => served[0] = 0
  /\ written \subseteq {0}

(* Whether a rotation that stands at replica x + 1 has passed r and not s. *)
Ahead(x, r, s) == IF r <= x /\ x < s THEN 1 ELSE 0

(* By how much r, the earlier one of two replicas, is ahead: by the        *)
(* rotation under way, and by each one that a wrap has cut short.          *)
Balanced ==
  \A r, s \in 1 .. replicas : r < s =>
    Given(r) = Given(s) + Ahead(rr % replicas, r, s)
                 + (IF Ahead(Counter % replicas, r, s) = 1 THEN wraps ELSE 0)

IndInv == TypeOK /\ BuiltAlike /\ Routed /\ Balanced

LEMMA NewDBIs ==
  ASSUME NEW o \in OptionsType, NewDB(o) # Nil
  PROVE  /\ Validate(WithDefaults(o))
         /\ NewDB(o) = [options |-> WithDefaults(o), pool |-> PoolSizes(WithDefaults(o))]
BY DEF NewDB, Built

LEMMA DBType ==
  ASSUME NEW o \in OptionsType, NewDB(o) # Nil
  PROVE  NewDB(o) \in [options : OptionsType, pool : [MinConns : Int, MaxConns : Int]]
<1>1. WithDefaults(o) \in OptionsType BY WithDefaultsType
<1>2. PoolSizes(WithDefaults(o)) \in [MinConns : Int, MaxConns : Int] BY <1>1, PoolSizesFit
<1> QED BY <1>1, <1>2, NewDBIs

(* A DB built from the effective options of another one is like it.        *)
LEMMA LikePrimary ==
  ASSUME NEW o \in OptionsType, NewDB(o) # Nil
  PROVE  NewDB([EffectiveOptions(NewDB(o)) EXCEPT !.creds = TRUE]) = NewDB(o)
<1> DEFINE d == WithDefaults(o)
<1>1. d \in OptionsType BY WithDefaultsType
<1>2. Validate(d) /\ NewDB(o).options = d BY NewDBIs
<1>3. d.creds = TRUE BY <1>1, <1>2 DEF Validate, OptionsType, OptionsOf
<1>4. NewDB(o) = Built(d) BY <1>2 DEF NewDB
<1>5. WithDefaults(d) = d BY Idempotent
<1> HIDE DEF d
<1>6. [[d EXCEPT !.creds = FALSE] EXCEPT !.creds = TRUE] = d
  BY <1>1, <1>3 DEF OptionsType, OptionsOf
<1>7. NewDB(d) = Built(d) BY <1>2, <1>5 DEF NewDB
<1> QED BY <1>2, <1>4, <1>6, <1>7 DEF EffectiveOptions

-----------------------------------------------------------------------------
(* The initial state, and construction.                                    *)

LEMMA InFlightType ==
  ASSUME NEW r
  PROVE  IsFiniteSet(InFlight(r)) /\ Cardinality(InFlight(r)) \in Nat
<1>1. InFlight(r) \in SUBSET Readers BY DEF InFlight
<1>2. IsFiniteSet(InFlight(r)) BY <1>1, FS_Subset, ClusterAssumption
<1> QED BY <1>2, FS_CardinalityType

LEMMA NoneInFlight ==
  ASSUME NEW r, \A g \in Readers : ticket[g] = None
  PROVE  Cardinality(InFlight(r)) = 0
<1>1. InFlight(r) = {} BY DEF InFlight
<1> QED BY <1>1, FS_EmptySet

LEMMA FreshBalanced ==
  ASSUME \A g \in Readers : ticket[g] = None, \A m \in Members : served[m] = 0,
         rr = 0, wraps = 0, replicas \in Nat
  PROVE  Balanced
<1> SUFFICES ASSUME NEW r \in 1 .. replicas, NEW s \in 1 .. replicas, r < s
             PROVE  Given(r) = Given(s) + Ahead(rr % replicas, r, s)
                      + (IF Ahead(Counter % replicas, r, s) = 1 THEN wraps ELSE 0)
  BY DEF Balanced
<1>1. Given(r) = 0 /\ Given(s) = 0 BY NoneInFlight DEF Given, Members
<1>2. rr % replicas = 0 BY SmallMod
<1>3. Ahead(0, r, s) = 0 BY DEF Ahead
<1> QED BY <1>1, <1>2, <1>3

LEMMA InitInd == Init => IndInv
<1> SUFFICES ASSUME Init PROVE IndInv
  OBVIOUS
<1>1. opts \in OptionsType BY LoadType, ClusterAssumption DEF Init
<1>2. \A m \in Members : ~IsDB(m) BY DEF Init, IsDB
<1>3. TypeOK BY <1>1, <1>2, ClusterAssumption DEF Init, TypeOK, Members
<1>4. BuiltAlike BY <1>2 DEF BuiltAlike
<1>5. Routed BY DEF Init, Routed, Members
<1>6. Balanced BY FreshBalanced DEF Init, Members, TypeOK
<1> QED BY <1>3, <1>4, <1>5, <1>6 DEF IndInv

LEMMA BuildInd ==
  ASSUME IndInv, NEW m \in Members, NEW db, Build(m, db), db = Nil \/ db = NewDB(opts)
  PROVE  IndInv'
<1> USE DEF IndInv
<1>1. Members' = Members BY DEF Build, Members
<1>2. dbs' = [dbs EXCEPT ![m] = db] /\ DOMAIN dbs = Members BY DEF Build, TypeOK
<1>3. BuiltAlike' BY <1>1, <1>2 DEF BuiltAlike, IsDB, Build
<1>4. \A k \in Members : IsDB(k)' =>
        dbs'[k] \in [options : OptionsType, pool : [MinConns : Int, MaxConns : Int]]
  BY <1>1, <1>3, DBType DEF BuiltAlike, IsDB, Build, TypeOK
<1>5. TypeOK' BY <1>1, <1>2, <1>4 DEF TypeOK, Build
<1>6. Routed' BY <1>1 DEF Routed, Build
<1>7. Balanced' BY DEF Balanced, Build, Given, InFlight, Target, Ahead
<1> QED BY <1>3, <1>5, <1>6, <1>7

LEMMA NewInd ==
  ASSUME IndInv, NEW m \in Members, New(m) \/ NewFails(m) \/ NewLikePrimary(m) PROVE IndInv'
<1>1. CASE New(m) \/ NewFails(m) BY <1>1, BuildInd DEF New, NewFails
<1>2. CASE NewLikePrimary(m)
  <2>1. opts \in OptionsType /\ 0 \in Members BY DEF IndInv, TypeOK, Members
  <2>2. dbs[0] = NewDB(opts) /\ dbs[0] # Nil
    BY <1>2, <2>1 DEF NewLikePrimary, IndInv, BuiltAlike, IsDB
  <2>3. NewDB([EffectiveOptions(dbs[0]) EXCEPT !.creds = TRUE]) = NewDB(opts)
    BY <2>1, <2>2, LikePrimary
  <2> QED BY <1>2, <2>3, BuildInd DEF NewLikePrimary
<1> QED BY <1>1, <1>2

LEMMA NewClusterInd == IndInv /\ NewCluster => IndInv'
<1> SUFFICES ASSUME IndInv, NewCluster PROVE IndInv'
  OBVIOUS
<1> USE DEF IndInv, NewCluster
<1>1. TypeOK' BY DEF TypeOK, Members, IsDB
<1>2. BuiltAlike' BY DEF BuiltAlike, Members, IsDB
<1>3. Routed' BY DEF Routed, Members, IsDB
<1>4. Balanced' BY DEF Balanced, Given, InFlight, Target
<1> QED BY <1>1, <1>2, <1>3, <1>4

-----------------------------------------------------------------------------
(* Reads and writes.                                                       *)

(* One step of the rotation puts its replica ahead of the others by what   *)
(* Ahead says.                                                             *)
LEMMA Rotate ==
  ASSUME NEW n \in Nat \ {0}, NEW k \in 0 .. n - 1,
         NEW r \in 1 .. n, NEW s \in 1 .. n, r < s
  PROVE  (IF r = 1 + k THEN 1 ELSE 0) + Ahead(k, r, s)
           = (IF s = 1 + k THEN 1 ELSE 0) + Ahead(IF k + 1 = n THEN 0 ELSE k + 1, r, s)
BY DEF Ahead

LEMMA TargetType ==
  ASSUME replicas \in Nat \ {0}, NEW t \in Nat PROVE Target(t) \in 1 .. replicas
<1>1. t % replicas \in Nat /\ t % replicas < replicas BY Division
<1> QED BY <1>1 DEF Target

LEMMA DrawGiven ==
  ASSUME TypeOK, NEW g \in Readers, Draw(g), NEW r \in Members
  PROVE  Given(r)' = Given(r) + (IF r = Target(rr) THEN 1 ELSE 0)
<1>1. ticket[g] = None /\ ticket' = [ticket EXCEPT ![g] = rr] /\ replicas' = replicas
      /\ served' = served
  BY DEF Draw
<1>2. rr # None BY ClusterAssumption DEF TypeOK
<1>3. g \notin InFlight(r) BY <1>1 DEF InFlight
<1>4. InFlight(r)' = IF r = Target(rr) THEN InFlight(r) \cup {g} ELSE InFlight(r)
  BY <1>1, <1>2, <1>3 DEF InFlight, Target, TypeOK
<1>5. Cardinality(InFlight(r)') = Cardinality(InFlight(r)) + (IF r = Target(rr) THEN 1 ELSE 0)
  BY <1>3, <1>4, InFlightType, FS_AddElement
<1>6. served[r] \in Nat /\ Cardinality(InFlight(r)) \in Nat BY InFlightType DEF TypeOK
<1> QED BY <1>1, <1>5, <1>6 DEF Given

LEMMA RouteGiven ==
  ASSUME TypeOK, NEW g \in Readers, Route(g), replicas > 0, NEW r \in Members
  PROVE  Given(r)' = Given(r)
<1> DEFINE t == Target(ticket[g])
<1>1. ticket[g] # None /\ ticket' = [ticket EXCEPT ![g] = None] /\ replicas' = replicas
      /\ served' = [served EXCEPT ![t] = @ + 1]
  BY DEF Route
<1>2. g \in InFlight(r) <=> r = t BY <1>1 DEF InFlight
<1>3. InFlight(r)' = InFlight(r) \ {g} BY <1>1 DEF InFlight, Target, TypeOK
<1>4. Cardinality(InFlight(r)') = Cardinality(InFlight(r)) - (IF r = t THEN 1 ELSE 0)
  <2>1. IsFiniteSet(InFlight(r)) BY InFlightType
  <2>2. Cardinality(InFlight(r) \ {g})
          = IF g \in InFlight(r) THEN Cardinality(InFlight(r)) - 1 ELSE Cardinality(InFlight(r))
    BY <2>1, FS_RemoveElement
  <2> HIDE DEF t
  <2> QED BY <1>2, <1>3, <2>2, InFlightType
<1>5. served[r] \in Nat /\ Cardinality(InFlight(r)) \in Nat BY InFlightType DEF TypeOK
<1>6. served'[r] = served[r] + (IF r = t THEN 1 ELSE 0) BY <1>1, <1>5 DEF TypeOK
<1> HIDE DEF t
<1> QED BY <1>4, <1>5, <1>6 DEF Given

LEMMA DrawBalanced ==
  ASSUME IndInv, NEW g \in Readers, Draw(g) PROVE Balanced'
<1> DEFINE n == replicas
           k == rr % n
<1>0. /\ n \in Nat \ {0} /\ rr \in 0 .. Counter - 1 /\ rr \in Nat /\ wraps \in Nat
      /\ Counter \in Nat \ {0} /\ replicas' = replicas
      /\ rr' = (rr + 1) % Counter /\ wraps' = IF rr + 1 = Counter THEN wraps + 1 ELSE wraps
  BY ClusterAssumption DEF IndInv, TypeOK, Draw
<1> SUFFICES ASSUME NEW r \in 1 .. n, NEW s \in 1 .. n, r < s
             PROVE  Given(r)' = Given(s)' + Ahead(rr' % n, r, s)
                        + (IF Ahead(Counter % n, r, s) = 1 THEN wraps' ELSE 0)
  BY <1>0 DEF Balanced, Ahead
<1>2. /\ Given(r)' = Given(r) + (IF r = 1 + k THEN 1 ELSE 0)
      /\ Given(s)' = Given(s) + (IF s = 1 + k THEN 1 ELSE 0)
  BY <1>0, DrawGiven DEF IndInv, Members, Target
<1>3. Given(r) \in Nat /\ Given(s) \in Nat
  BY <1>0, InFlightType DEF IndInv, TypeOK, Given, Members
<1>4. Given(r) = Given(s) + Ahead(k, r, s) + (IF Ahead(Counter % n, r, s) = 1 THEN wraps ELSE 0)
  BY DEF IndInv, Balanced
<1>5. k \in 0 .. n - 1 /\ (rr + 1) % n = IF k + 1 = n THEN 0 ELSE k + 1
  <2>1. k \in Nat /\ k < n BY <1>0, Division
  <2>2. (rr + 1) % n = IF k + 1 = n THEN 0 ELSE k + 1 BY <1>0, ModStep
  <2> HIDE DEF k, n
  <2> QED BY <1>0, <2>1, <2>2
<1>6. (IF r = 1 + k THEN 1 ELSE 0) + Ahead(k, r, s)
        = (IF s = 1 + k THEN 1 ELSE 0) + Ahead((rr + 1) % n, r, s)
  BY <1>0, <1>5, Rotate
<1>7. \A x : Ahead(x, r, s) \in {0, 1} BY DEF Ahead
<1> HIDE DEF k, n
<1>8. Given(r)' = Given(s)' + Ahead((rr + 1) % n, r, s)
                    + (IF Ahead(Counter % n, r, s) = 1 THEN wraps ELSE 0)
  <2> DEFINE a == Ahead(k, r, s)  b == Ahead((rr + 1) % n, r, s)
             w == IF Ahead(Counter % n, r, s) = 1 THEN wraps ELSE 0
  <2>1. a \in {0, 1} /\ b \in {0, 1} /\ w \in Nat BY <1>0, <1>7
  <2> HIDE DEF a, b, w
  <2>2. Given(r) = Given(s) + a + w BY <1>4 DEF a, w
  <2>3. (IF r = 1 + k THEN 1 ELSE 0) + a = (IF s = 1 + k THEN 1 ELSE 0) + b BY <1>6 DEF a, b
  <2>4. Given(r)' = Given(s)' + b + w BY <1>2, <1>3, <2>1, <2>2, <2>3
  <2> QED BY <2>4 DEF b, w
<1>9. CASE rr + 1 # Counter
  <2>1. rr' = rr + 1 /\ wraps' = wraps BY <1>0, <1>9, SmallMod
  <2> QED BY <1>8, <2>1
<1>10. CASE rr + 1 = Counter
  <2>1. rr' = 0
    <3>1. (rr % Counter) + 1 = Counter BY <1>0, <1>10, SmallMod
    <3> QED BY <1>0, <3>1, ModStep
  <2>2. rr' % n = 0 BY <1>0, <2>1, SmallMod
  <2>3. Ahead(0, r, s) = 0 BY DEF Ahead
  <2>4. Given(s)' \in Nat BY <1>2, <1>3
  <2> QED BY <1>0, <1>7, <1>8, <1>10, <2>2, <2>3, <2>4
<1> QED BY <1>9, <1>10

LEMMA DrawInd == ASSUME IndInv, NEW g \in Readers, Draw(g) PROVE IndInv'
<1>1. TypeOK'
  <2>1. rr \in 0 .. Counter - 1 /\ wraps \in Nat /\ Counter \in Nat \ {0}
    BY ClusterAssumption DEF IndInv, TypeOK
  <2>2. /\ rr' = (rr + 1) % Counter
        /\ wraps' = IF rr + 1 = Counter THEN wraps + 1 ELSE wraps
        /\ ticket' = [ticket EXCEPT ![g] = rr]
        /\ UNCHANGED <<replicas, opts, dbs, cluster, served, written>>
    BY DEF Draw
  <2>3. rr' \in 0 .. Counter - 1 /\ wraps' \in Nat BY <2>1, <2>2, Division
  <2>4. ticket' \in [Readers -> (0 .. Counter - 1) \cup {None}]
    BY <2>1, <2>2 DEF IndInv, TypeOK
  <2> QED BY <2>2, <2>3, <2>4 DEF IndInv, TypeOK, Members, IsDB
<1>2. BuiltAlike' BY DEF Draw, IndInv, BuiltAlike, Members, IsDB
<1>3. Routed'
  <2>1. cluster = "ready" /\ replicas > 0
        /\ UNCHANGED <<replicas, opts, dbs, cluster, served, written>>
    BY DEF Draw
  <2> QED BY <2>1 DEF IndInv, TypeOK, Routed, Members, IsDB
<1> QED BY <1>1, <1>2, <1>3, DrawBalanced DEF IndInv

LEMMA RouteInd == ASSUME IndInv, NEW g \in Readers, Route(g) PROVE IndInv'
<1> DEFINE t == Target(ticket[g])
<1>1. /\ cluster = "ready" /\ replicas \in Nat \ {0} /\ ticket[g] \in Nat
  BY DEF IndInv, Route, Routed, TypeOK
<1>2. t \in 1 .. replicas BY <1>1, TargetType
<1>3. /\ served' = [served EXCEPT ![t] = @ + 1] /\ ticket' = [ticket EXCEPT ![g] = None]
      /\ UNCHANGED <<replicas, opts, dbs, cluster, rr, wraps, written>>
  BY DEF Route
<1> HIDE DEF t
<1>4. TypeOK' BY <1>1, <1>2, <1>3 DEF IndInv, TypeOK, Members, IsDB
<1>5. BuiltAlike' BY <1>3 DEF IndInv, BuiltAlike, Members, IsDB
<1>6. Routed' BY <1>1, <1>2, <1>3 DEF IndInv, TypeOK, Routed, Members, IsDB
<1>7. Balanced'
  <2>1. \A r \in 1 .. replicas : Given(r)' = Given(r)
    BY <1>1, RouteGiven DEF IndInv, Members
  <2> QED BY <1>3, <2>1 DEF IndInv, Balanced, Ahead
<1> QED BY <1>4, <1>5, <1>6, <1>7 DEF IndInv

LEMMA ReadPrimaryInd == IndInv /\ ReadPrimary => IndInv'
<1> SUFFICES ASSUME IndInv, ReadPrimary PROVE IndInv'
  OBVIOUS
<1> USE DEF IndInv, ReadPrimary
<1>1. TypeOK' BY DEF TypeOK, Members, IsDB
<1>2. BuiltAlike' BY DEF BuiltAlike, Members, IsDB
<1>3. Routed' BY DEF Routed, TypeOK, Members, IsDB
<1>4. Balanced' BY DEF Balanced
<1> QED BY <1>1, <1>2, <1>3, <1>4

LEMMA WriteInd == IndInv /\ Write => IndInv'
<1> SUFFICES ASSUME IndInv, Write PROVE IndInv'
  OBVIOUS
<1> USE DEF IndInv, Write
<1>1. TypeOK' BY DEF TypeOK, Members, IsDB
<1>2. BuiltAlike' BY DEF BuiltAlike, Members, IsDB
<1>3. Routed' BY DEF Routed, Members, IsDB
<1>4. Balanced' BY DEF Balanced, Given, InFlight, Target
<1> QED BY <1>1, <1>2, <1>3, <1>4

LEMMA StutterInd == IndInv /\ UNCHANGED vars => IndInv'
<1> SUFFICES ASSUME IndInv, UNCHANGED vars PROVE IndInv'
  OBVIOUS
<1> USE DEF IndInv, vars
<1>1. TypeOK' BY DEF TypeOK, Members, IsDB
<1>2. BuiltAlike' BY DEF BuiltAlike, Members, IsDB
<1>3. Routed' BY DEF Routed, Members, IsDB
<1>4. Balanced' BY DEF Balanced, Given, InFlight, Target
<1> QED BY <1>1, <1>2, <1>3, <1>4

LEMMA Inductive == Spec => []IndInv
<1>1. IndInv /\ [Next]_vars => IndInv'
  BY NewInd, NewClusterInd, DrawInd, RouteInd, ReadPrimaryInd, WriteInd, StutterInd
     DEF Next, Finished
<1> QED BY InitInd, <1>1, PTL DEF Spec

-----------------------------------------------------------------------------
(* Theorems.                                                               *)

(* Every variable keeps its type: options from the environment are         *)
(* numbers and truth values whatever the environment holds, and the        *)
(* counter stays within its width.                                         *)
THEOREM TypeCorrect == Spec => []TypeOK
BY Inductive, PTL DEF IndInv

(* Cluster.Replica spreads concurrent reads evenly, up to one read for     *)
(* each wrap of the counter, for any number of replicas and any width.     *)
THEOREM AlwaysEven == Spec => []EvenSpread
<1>1. IndInv => EvenSpread
  <2> SUFFICES ASSUME IndInv, NEW r \in Members \ {0}, NEW s \in Members \ {0}
               PROVE  Given(r) <= Given(s) + 1 + wraps
    BY DEF EvenSpread
  <2>1. /\ r \in 1 .. replicas /\ s \in 1 .. replicas /\ wraps \in Nat
        /\ Given(r) \in Nat /\ Given(s) \in Nat
    BY InFlightType DEF IndInv, TypeOK, Members, Given
  <2>2. \A x : Ahead(x, r, s) \in {0, 1} /\ Ahead(x, s, r) \in {0, 1} BY DEF Ahead
  <2>3. CASE r < s
    <3>1. Given(r) = Given(s) + Ahead(rr % replicas, r, s)
                       + (IF Ahead(Counter % replicas, r, s) = 1 THEN wraps ELSE 0)
      BY <2>1, <2>3 DEF IndInv, Balanced
    <3> QED BY <2>1, <2>2, <3>1
  <2>4. CASE s < r
    <3>1. Given(s) = Given(r) + Ahead(rr % replicas, s, r)
                       + (IF Ahead(Counter % replicas, s, r) = 1 THEN wraps ELSE 0)
      BY <2>1, <2>4 DEF IndInv, Balanced
    <3> QED BY <2>1, <2>2, <3>1
  <2>5. CASE r = s BY <2>1, <2>5
  <2> QED BY <2>1, <2>3, <2>4, <2>5
<1> QED BY <1>1, Inductive, PTL

LEMMA BuiltFits ==
  ASSUME IndInv, NEW m \in Members, IsDB(m) PROVE Fits(dbs[m].pool)
<1>1. opts \in OptionsType /\ dbs[m] = NewDB(opts) /\ NewDB(opts) # Nil
  BY DEF IndInv, TypeOK, BuiltAlike, IsDB
<1>2. dbs[m].pool = PoolSizes(WithDefaults(opts)) BY <1>1, NewDBIs
<1>3. WithDefaults(opts) \in OptionsType BY <1>1, WithDefaultsType
<1> QED BY <1>2, <1>3, PoolSizesFit DEF Fits

(* Reads and writes reach only members that New has built, with pools that *)
(* pgxpool accepts whatever was configured.                                *)
THEOREM AlwaysRouted == Spec => []RoutedToBuilt
<1>1. IndInv => RoutedToBuilt
  <2> SUFFICES ASSUME IndInv PROVE RoutedToBuilt
    OBVIOUS
  <2>1. ASSUME NEW m \in Members, Given(m) > 0 \/ m \in written PROVE IsDB(m)
    <3>1. CASE cluster = "ready" BY <3>1 DEF IndInv, Routed
    <3>2. CASE cluster # "ready"
      <4>1. Cardinality(InFlight(m)) = 0 /\ served[m] = 0 /\ written = {}
        BY <3>2, NoneInFlight DEF IndInv, Routed
      <4> QED BY <2>1, <4>1 DEF Given
    <3> QED BY <3>1, <3>2
  <2> QED BY <2>1, BuiltFits DEF RoutedToBuilt, IndInv, Routed
<1> QED BY <1>1, Inductive, PTL

(* A replica built from the primary's effective options is configured as   *)
(* the primary is.                                                         *)
THEOREM AlwaysAlike == Spec => []MembersAlike
<1>1. IndInv => MembersAlike BY DEF IndInv, BuiltAlike, MembersAlike
<1> QED BY <1>1, Inductive, PTL

(* Retries that were disabled on purpose stay disabled.                    *)
THEOREM RetryAlwaysHonoured == Spec => []RetryOffHonoured
<1>1. IndInv => RetryOffHonoured
  <2> SUFFICES ASSUME IndInv, NEW m \in Members, IsDB(m), ~opts.enabled,
                      opts.retries \notin {0, Default.retries}
                        \/ opts.delay \notin {0, Default.delay}
               PROVE  ~dbs[m].options.enabled
    BY DEF RetryOffHonoured
  <2> DEFINE f == FillNumbers(opts)
  <2>1. opts \in OptionsType /\ dbs[m] = NewDB(opts) /\ NewDB(opts) # Nil
    BY DEF IndInv, TypeOK, BuiltAlike, IsDB
  <2>2. dbs[m].options = DefaultRetryEnabled(f) BY <2>1, NewDBIs DEF WithDefaults
  <2>3. f \in OptionsType BY <2>1, FillType
  <2>4. /\ f.retries = Fill(opts.retries, Default.retries)
        /\ f.delay = Fill(opts.delay, Default.delay) /\ f.enabled = opts.enabled
    BY <2>1, Filled
  <2>5. f.retries # Default.retries \/ f.delay # Default.delay BY <2>4 DEF Fill
  <2>6. DefaultRetryEnabled(f).enabled
          = (f.enabled \/ (f.retries = Default.retries /\ f.delay = Default.delay))
    BY <2>3, RetryEnabledIs
  <2> HIDE DEF f
  <2> QED BY <2>2, <2>4, <2>5, <2>6
<1> QED BY <1>1, Inductive, PTL
=============================================================================
