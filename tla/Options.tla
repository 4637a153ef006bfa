------------------------------ MODULE Options ------------------------------
(* What an Options value or the DATABASE_* environment means: Default,     *)
(* LoadFromEnv, withDefaults, Validate and the pool sizes of newDB         *)
(* (database/database.go, internal/env/env.go).  Durations are numbers of  *)
(* milliseconds; that all of database, user name and password are given is *)
(* one Boolean.  Zero and FALSE are the zero values of Go.                 *)
EXTENDS Integers

CONSTANTS Unset, Invalid,  \* a variable that is not set, or cannot be parsed
          MaxInt32         \* the largest pool size

ASSUME OptionsAssumption ==
  /\ Unset \notin Int \cup BOOLEAN /\ Invalid \notin Int \cup BOOLEAN
  /\ MaxInt32 \in Nat \ {0}

Default ==
  [creds |-> FALSE, min |-> 10, max |-> 100, command |-> 30000, connection |-> 15000,
   enabled |-> TRUE, retries |-> 3, delay |-> 100, slow |-> 500]

(* env.Int, env.Bool and env.Duration: the fallback stands in for a        *)
(* variable that is unset or invalid.                                      *)
EnvValue(v, fallback) == IF v \in {Unset, Invalid} THEN fallback ELSE v

(* LoadFromEnv, which is Options.from over the defaults.                   *)
LoadFromEnv(env) ==
  [creds |-> EnvValue(env.creds, FALSE),
   min |-> EnvValue(env.min, Default.min), max |-> EnvValue(env.max, Default.max),
   command |-> EnvValue(env.command, Default.command),
   connection |-> EnvValue(env.connection, Default.connection),
   enabled |-> EnvValue(env.enabled, Default.enabled),
   retries |-> EnvValue(env.retries, Default.retries),
   delay |-> EnvValue(env.delay, Default.delay), slow |-> EnvValue(env.slow, Default.slow)]

(* A field that was left at its zero value takes its default.              *)
Fill(v, default) == IF v = 0 THEN default ELSE v

FillNumbers(o) ==
  [o EXCEPT !.min = Fill(@, Default.min), !.max = Fill(@, Default.max),
            !.command = Fill(@, Default.command),
            !.connection = Fill(@, Default.connection),
            !.retries = Fill(@, Default.retries), !.delay = Fill(@, Default.delay),
            !.slow = Fill(@, Default.slow)]

(* defaultRetryEnabled.                                                    *)
DefaultRetryEnabled(o) ==
  [o EXCEPT !.enabled =
     o.enabled \/ (o.retries = Default.retries /\ o.delay = Default.delay)]

RetryBeforeNumbers(o) == FillNumbers(DefaultRetryEnabled(o))

WithDefaults(o) == DefaultRetryEnabled(FillNumbers(o))

Validate(o) == o.creds /\ o.max > 0

AtLeast(a, b) == IF a < b THEN b ELSE a
AtMost(a, b) == IF a > b THEN b ELSE a

(* cfg.MinConns and cfg.MaxConns: there is room for one connection more    *)
(* than the minimum, within an int32.                                      *)
PoolSizes(o) ==
  LET minSize == AtMost(AtLeast(o.min, 0), MaxInt32)
      maxSize == AtLeast(o.max, minSize + 1)
  IN  [MinConns |-> minSize, MaxConns |-> AtMost(maxSize, MaxInt32)]

(* A DB as newDB builds it from validated options.                         *)
Built(o) == [options |-> o, pool |-> PoolSizes(o)]

(* DB.Options: the effective configuration without the password.           *)
EffectiveOptions(db) == [db.options EXCEPT !.creds = FALSE]
=============================================================================
