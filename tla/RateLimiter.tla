---------------------------- MODULE RateLimiter ------------------------------
(***************************************************************************)
(* RateLimiter.check of src/ai_service/limits.py: a fixed-window counter in *)
(* Redis, one key per tenant and minute.  INCR and EXPIRE are two calls of  *)
(* a client that can be overtaken, be slow past the end of the minute or    *)
(* fail in between; a key whose time to live runs out starts again at 0.    *)
(***************************************************************************)
EXTENDS Integers, FiniteSets

CONSTANTS
  Tenants,
  Callers,         \* processes of the AI service
  Limit,           \* requests per tenant and minute
  TicksPerMinute,  \* 60 seconds
  Ttl,             \* the 65 seconds of EXPIRE, in the same ticks
  MaxMinute,       \* bound: the last minute
  MaxChecks,       \* bound: calls of check()
  MaxFailures,     \* bound: calls that Redis or the process cuts short
  Persistent       \* the time to live of a key that EXPIRE did not reach

ASSUME LimitAssumption == Limit \in Nat \ {0}
ASSUME TimeAssumption ==
  /\ TicksPerMinute \in Nat \ {0}
  /\ Ttl \in Nat /\ TicksPerMinute < Ttl /\ Ttl <= 2 * TicksPerMinute
  /\ MaxMinute \in Nat
ASSUME BoundAssumption == MaxChecks \in Nat /\ MaxFailures \in Nat
ASSUME PersistentAssumption == Persistent \notin 0..Ttl
ASSUME CallersAssumption == IsFiniteSet(Callers)

Keys == Tenants \X (0..MaxMinute)

VARIABLES
  minute, second,    \* time.time()
  count,             \* value of each key, 0 where there is no key
  ttl,               \* time each key has left
  pc, key,           \* where each caller stands, and the key it works on
  granted, refused,  \* history: answers True and False
  lost,              \* history: increments whose caller failed before it knew
  orphans,           \* history: keys whose first caller failed before EXPIRE
  checks, failed     \* history: calls, and calls cut short, so far

clock == <<minute, second>>
redis == <<count, ttl>>
answers == <<granted, refused>>
failures == <<lost, orphans, failed>>
vars == <<clock, redis, pc, key, answers, failures, checks>>

\* A window matters for as long as the minute lasts, and the overlap.
Open(k) == \/ k[2] = minute
           \/ k[2] + 1 = minute /\ second < Ttl - TicksPerMinute

Check(c, t) ==
  /\ pc[c] = "idle"
  /\ checks < MaxChecks
  /\ checks' = checks + 1
  /\ key' = [key EXCEPT ![c] = <<t, minute>>]
  /\ pc' = [pc EXCEPT ![c] = "counting"]
  /\ UNCHANGED <<clock, redis, answers, failures>>

\* INCR creates a key without a time to live, and keeps the one a key has.
Counted(c) ==
  /\ pc[c] = "counting"
  /\ count' = [count EXCEPT ![key[c]] = @ + 1]
  /\ ttl' = ttl

\* Mutant: one request fewer.
AllowedBelow(n) == n < Limit

Allowed(n) == n <= Limit

Answer(c, yes) ==
  /\ granted' = [granted EXCEPT ![key[c]] = @ + (IF yes THEN 1 ELSE 0)]
  /\ refused' = [refused EXCEPT ![key[c]] = @ + (IF yes THEN 0 ELSE 1)]
  /\ pc' = [pc EXCEPT ![c] = "idle"]

\* Mutant: the counter is taken to start at 0.
SecondIsFirst(n) == n = 2

First(n) == n = 1

\* The first caller of a window still has to set the time to live.
Incr(c) ==
  /\ Counted(c)
  /\ IF First(count'[key[c]])
     THEN pc' = [pc EXCEPT ![c] = "expiring"] /\ UNCHANGED answers
     ELSE Answer(c, Allowed(count'[key[c]]))
  /\ UNCHANGED <<clock, key, failures, checks>>

\* Mutant: the overlap alone.
OverlapOnly == Ttl - TicksPerMinute

Lifetime == Ttl

\* EXPIRE does nothing to a key that is gone.
Expire(c) ==
  /\ pc[c] = "expiring"
  /\ ttl' = [ttl EXCEPT ![key[c]] =
               IF count[key[c]] = 0 THEN @ ELSE Lifetime]
  /\ Answer(c, TRUE)
  /\ UNCHANGED <<clock, count, key, failures, checks>>

\* The connection breaks or the process dies, before INCR, after it, or
\* between INCR and EXPIRE.
Fails(c) ==
  /\ failed < MaxFailures
  /\ failed' = failed + 1
  /\ \/ /\ pc[c] = "counting"
        /\ UNCHANGED <<redis, lost, orphans>>
     \/ /\ Counted(c)
        /\ lost' = [lost EXCEPT ![key[c]] = @ + 1]
        /\ orphans' = IF First(count'[key[c]]) THEN orphans \union {key[c]}
                      ELSE orphans
     \/ /\ pc[c] = "expiring"
        /\ lost' = [lost EXCEPT ![key[c]] = @ + 1]
        /\ orphans' = orphans \union {key[c]}
        /\ UNCHANGED redis
  /\ pc' = [pc EXCEPT ![c] = "idle"]
  /\ UNCHANGED <<clock, key, answers, checks>>

Aged(n) == IF n = Persistent THEN n ELSE n - 1

Tick ==
  /\ IF second + 1 = TicksPerMinute
     THEN minute < MaxMinute /\ second' = 0 /\ minute' = minute + 1
     ELSE second' = second + 1 /\ UNCHANGED minute
  /\ ttl' = [k \in Keys |-> IF Aged(ttl[k]) = 0 THEN Persistent ELSE Aged(ttl[k])]
  /\ count' = [k \in Keys |-> IF Aged(ttl[k]) = 0 THEN 0 ELSE count[k]]
  /\ UNCHANGED <<pc, key, answers, failures, checks>>

Init ==
  /\ minute = 0 /\ second = 0
  /\ count = [k \in Keys |-> 0]
  /\ ttl = [k \in Keys |-> Persistent]
  /\ pc = [c \in Callers |-> "idle"]
  /\ key \in [Callers -> Tenants \X {0}]
  /\ granted = [k \in Keys |-> 0] /\ refused = [k \in Keys |-> 0]
  /\ lost = [k \in Keys |-> 0] /\ orphans = {}
  /\ checks = 0 /\ failed = 0

Next ==
  \/ Tick
  \/ \E c \in Callers : Incr(c) \/ Expire(c) \/ Fails(c)
  \/ \E c \in Callers, t \in Tenants : Check(c, t)

Spec == Init /\ [][Next]_vars

TypeOK ==
  /\ minute \in 0..MaxMinute /\ second \in 0..(TicksPerMinute - 1)
  /\ count \in [Keys -> Nat]
  /\ ttl \in [Keys -> (1..Ttl) \union {Persistent}]
  /\ pc \in [Callers -> {"idle", "counting", "expiring"}]
  /\ key \in [Callers -> Keys]
  /\ granted \in [Keys -> Nat] /\ refused \in [Keys -> Nat]
  /\ lost \in [Keys -> Nat] /\ orphans \subseteq Keys
  /\ checks \in 0..MaxChecks /\ failed \in 0..MaxFailures

Expiring(k) == {c \in Callers : pc[c] = "expiring" /\ key[c] = k}

\* A tenant gets at most Limit answers True for one minute, callers included
\* that are still to set the time to live, and however late they ask; only
\* one who asks when the overlap has passed too may find a fresh counter.
WithinLimit ==
  \A k \in Keys :
    Open(k) => granted[k] + Cardinality(Expiring(k)) <= Limit

\* Nobody is refused for another's requests, or before the limit is reached:
\* a refusal means that Limit increments were granted, are about to be, or
\* were lost by callers that failed.
RefusedOnlyWhenFull ==
  \A k \in Keys : refused[k] > 0 =>
    granted[k] + lost[k] + Cardinality(Expiring(k)) >= Limit

\* A key that would live for ever has its first caller still on the way to
\* EXPIRE, or was left by one that failed.
LeaksNeedAFailure ==
  \A k \in Keys : count[k] > 0 /\ ttl[k] = Persistent =>
    k \in orphans \/ Expiring(k) # {}
==============================================================================
