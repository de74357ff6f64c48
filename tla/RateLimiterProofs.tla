-------------------------- MODULE RateLimiterProofs --------------------------
(***************************************************************************)
(* Proofs about RateLimiter, for any tenants and callers, any limit, and    *)
(* any time to live longer than a minute.                                   *)
(*                                                                         *)
(* The inductive invariant says of each key how its value relates to the    *)
(* answers given (Spent), that an open key cannot run out of time (Lives),  *)
(* and that a key without a time to live has an owner (Owned).              *)
(***************************************************************************)
EXTENDS RateLimiter, FiniteSetTheorems, TLAPS

Waiting(k) == Cardinality(Expiring(k))

\* An open key has counted every True of its window; a key of any age that
\* counted to n has n answers, waiting callers or losses to show for it.
Spent(k) ==
  /\ Open(k) => /\ granted[k] + Waiting(k) <= count[k]
                /\ granted[k] + Waiting(k) <= Limit
  /\ count[k] <= Limit => granted[k] + lost[k] + Waiting(k) >= count[k]
  /\ count[k] > Limit => granted[k] + lost[k] + Waiting(k) >= Limit
  /\ refused[k] > 0 => granted[k] + lost[k] + Waiting(k) >= Limit

\* Keys of minutes to come are untouched; an open key outlives its window.
Lives(k) ==
  /\ count[k] = 0 => ttl[k] = Persistent
  /\ minute < k[2] => count[k] = 0 /\ granted[k] = 0
  /\ k[2] = minute /\ ttl[k] # Persistent => ttl[k] >= Ttl - second
  /\ k[2] + 1 = minute /\ second < Ttl - TicksPerMinute /\ ttl[k] # Persistent
       => ttl[k] >= Ttl - TicksPerMinute - second

Owned(k) ==
  count[k] > 0 /\ ttl[k] = Persistent => k \in orphans \/ Expiring(k) # {}

IInv ==
  /\ TypeOK
  /\ \A c \in Callers : key[c][2] <= minute
  /\ \A k \in Keys : Spent(k) /\ Lives(k) /\ Owned(k)

USE LimitAssumption, TimeAssumption, BoundAssumption, PersistentAssumption,
    CallersAssumption

\* A key is a tenant and a minute.
LEMMA Parts == \A k \in Keys : k[1] \in Tenants /\ k[2] \in 0..MaxMinute
  BY DEF Keys

\* The callers on the way to EXPIRE are finitely many, and leave their set or
\* join it one at a time.
LEMMA Sizes ==
  ASSUME NEW k
  PROVE  /\ IsFiniteSet(Expiring(k))
         /\ Waiting(k) \in Nat
         /\ Waiting(k) = 0 <=> Expiring(k) = {}
<1>1. Expiring(k) \in SUBSET Callers
  BY DEF Expiring
<1>2. IsFiniteSet(Expiring(k))
  BY <1>1, FS_Subset
<1> QED
  BY <1>2, FS_CardinalityType, FS_EmptySet DEF Waiting

LEMMA SizesNext ==
  ASSUME NEW k
  PROVE  /\ IsFiniteSet(Expiring(k)')
         /\ Waiting(k)' \in Nat
         /\ Waiting(k)' = 0 <=> Expiring(k)' = {}
<1>1. Expiring(k)' \in SUBSET Callers
  BY DEF Expiring
<1>2. IsFiniteSet(Expiring(k)')
  BY <1>1, FS_Subset
<1> QED
  BY <1>2, FS_CardinalityType, FS_EmptySet DEF Waiting

LEMMA Same ==
  ASSUME NEW k, Expiring(k)' = Expiring(k)
  PROVE  Waiting(k)' = Waiting(k)
  BY DEF Waiting

LEMMA Joins ==
  ASSUME NEW k, NEW c, c \notin Expiring(k), Expiring(k)' = Expiring(k) \union {c}
  PROVE  Waiting(k)' = Waiting(k) + 1
  BY Sizes, FS_AddElement DEF Waiting

LEMMA Leaves ==
  ASSUME NEW k, NEW c, c \in Expiring(k), Expiring(k)' = Expiring(k) \ {c}
  PROVE  Waiting(k)' = Waiting(k) - 1
<1>1. Cardinality(Expiring(k) \ {c}) = Cardinality(Expiring(k)) - 1
  BY Sizes, FS_RemoveElement
<1> QED
  BY <1>1 DEF Waiting

\* The initial state satisfies the inductive invariant.
LEMMA InitIInv == Init => IInv
<1> SUFFICES ASSUME Init PROVE IInv
  OBVIOUS
<1>1. TypeOK
  BY DEF Init, TypeOK, Keys
<1>2. ASSUME NEW c \in Callers PROVE key[c][2] <= minute
  BY DEF Init
<1>3. ASSUME NEW k \in Keys PROVE Spent(k) /\ Lives(k) /\ Owned(k)
  <2>1. Expiring(k) = {}
    BY DEF Init, Expiring
  <2> QED
    BY <1>3, <2>1, Sizes DEF Init, Spent, Lives, Owned
<1> QED
  BY <1>1, <1>2, <1>3 DEF IInv

\* Every step keeps the ranges.
LEMMA TypeStep == TypeOK /\ [Next]_vars => TypeOK'
<1> SUFFICES ASSUME TypeOK, [Next]_vars PROVE TypeOK'
  OBVIOUS
<1> USE DEF TypeOK
<1>1. CASE UNCHANGED vars
  BY <1>1 DEF vars, clock, redis, answers, failures
<1>2. CASE Tick
  BY <1>2 DEF Tick, Aged, answers, failures
<1>3. ASSUME NEW c \in Callers, NEW t \in Tenants, Check(c, t) PROVE TypeOK'
  BY <1>3 DEF Check, clock, redis, answers, failures, Keys
<1>4. ASSUME NEW c \in Callers, Incr(c) PROVE TypeOK'
  BY <1>4 DEF Incr, Counted, Answer, clock, answers, failures
<1>5. ASSUME NEW c \in Callers, Expire(c) PROVE TypeOK'
  BY <1>5 DEF Expire, Answer, Lifetime, clock, failures
<1>6. ASSUME NEW c \in Callers, Fails(c) PROVE TypeOK'
  BY <1>6 DEF Fails, Counted, clock, redis, answers
<1> QED
  BY <1>1, <1>2, <1>3, <1>4, <1>5, <1>6 DEF Next

\* Every step keeps what is known of every key.
LEMMA KeysStep == IInv /\ [Next]_vars => IInv'
<1> SUFFICES ASSUME IInv, [Next]_vars PROVE IInv'
  OBVIOUS
<1>0. TypeOK /\ TypeOK'
  BY TypeStep DEF IInv
<1>C. \A c \in Callers : key[c][2] <= minute
  BY DEF IInv
<1>K. \A k \in Keys : Spent(k) /\ Lives(k) /\ Owned(k)
  BY DEF IInv
<1>1. CASE UNCHANGED vars
  <2>1. ASSUME NEW k \in Keys PROVE (Spent(k) /\ Lives(k) /\ Owned(k))'
    <3>1. Expiring(k)' = Expiring(k)
      BY <1>1 DEF vars, Expiring
    <3> QED
      BY <1>1, <1>K, <3>1, Same DEF vars, clock, redis, answers, failures,
        Spent, Lives, Owned, Open
  <2> QED
    BY <1>0, <1>1, <1>C, <2>1 DEF IInv, vars, clock
<1>2. CASE Tick
  <2>1. \A c \in Callers : key'[c][2] <= minute'
    BY <1>0, <1>2, <1>C, Parts DEF Tick, TypeOK
  <2>2. ASSUME NEW k \in Keys PROVE (Spent(k) /\ Lives(k) /\ Owned(k))'
    <3>1. Expiring(k)' = Expiring(k) /\ Waiting(k)' = Waiting(k)
      BY <1>2, Same DEF Tick, Expiring
    <3>2. minute < k[2] => Expiring(k) = {} /\ Waiting(k) = 0
      <4>1. \A c \in Callers : key[c] = k => ~(minute < k[2])
        BY <1>0, <1>C, Parts DEF TypeOK
      <4>2. minute < k[2] => Expiring(k) = {}
        BY <4>1 DEF Expiring
      <4> QED
        BY <4>2, Sizes
    <3>3. /\ k[2] \in Nat /\ Waiting(k) \in Nat /\ granted[k] \in Nat
          /\ refused[k] \in Nat /\ lost[k] \in Nat /\ count[k] \in Nat
          /\ minute \in Nat /\ second \in Nat /\ minute' \in Nat /\ second' \in Nat
          /\ ttl[k] \in (1..Ttl) \union {Persistent}
      BY <1>0, Sizes, Parts DEF TypeOK
    <3>4. \/ second' = second + 1 /\ minute' = minute /\ second' < TicksPerMinute
          \/ second' = 0 /\ minute' = minute + 1 /\ second + 1 = TicksPerMinute
      BY <1>0, <1>2 DEF Tick, TypeOK
    <3>5. /\ granted'[k] = granted[k] /\ refused'[k] = refused[k]
          /\ lost'[k] = lost[k] /\ orphans' = orphans
      BY <1>2 DEF Tick, answers, failures
    <3>6. \/ /\ ttl[k] = Persistent \/ ttl[k] > 1
             /\ count'[k] = count[k]
             /\ ttl'[k] = IF ttl[k] = Persistent THEN Persistent ELSE ttl[k] - 1
          \/ /\ ttl[k] = 1 /\ ttl[k] # Persistent
             /\ count'[k] = 0 /\ ttl'[k] = Persistent
      BY <1>2, <3>3 DEF Tick, Aged
    <3>7. Lives(k)'
      BY <1>K, <3>3, <3>4, <3>5, <3>6 DEF Lives
    <3>8. Spent(k)'
      BY <1>K, <3>1, <3>2, <3>3, <3>4, <3>5, <3>6 DEF Spent, Lives, Open
    <3>9. Owned(k)'
      BY <1>K, <3>1, <3>3, <3>5, <3>6 DEF Owned
    <3> QED
      BY <3>7, <3>8, <3>9
  <2> QED
    BY <1>0, <2>1, <2>2 DEF IInv
<1>3. ASSUME NEW c \in Callers, NEW t \in Tenants, Check(c, t) PROVE IInv'
  <2>1. \A d \in Callers : key'[d][2] <= minute'
    BY <1>0, <1>3, <1>C DEF Check, clock, TypeOK
  <2>2. ASSUME NEW k \in Keys PROVE (Spent(k) /\ Lives(k) /\ Owned(k))'
    <3>1. Expiring(k)' = Expiring(k)
      BY <1>0, <1>3 DEF Check, Expiring, TypeOK
    <3> QED
      BY <1>3, <1>K, <3>1, Same DEF Check, clock, redis, answers, failures,
        Spent, Lives, Owned, Open
  <2> QED
    BY <1>0, <2>1, <2>2 DEF IInv
<1>4. ASSUME NEW c \in Callers, Incr(c) PROVE IInv'
  <2>1. \A d \in Callers : key'[d][2] <= minute'
    BY <1>4, <1>C DEF Incr, clock
  <2>2. ASSUME NEW k \in Keys PROVE (Spent(k) /\ Lives(k) /\ Owned(k))'
    <3>3. /\ k[2] \in Nat /\ Waiting(k) \in Nat /\ granted[k] \in Nat
          /\ refused[k] \in Nat /\ lost[k] \in Nat /\ count[k] \in Nat
          /\ minute \in Nat /\ second \in Nat
      BY <1>0, Sizes, Parts DEF TypeOK
    <3>4. minute' = minute /\ second' = second /\ ttl' = ttl /\ lost' = lost
          /\ orphans' = orphans /\ key' = key
      BY <1>4 DEF Incr, Counted, clock, failures
    <3>5. CASE k # key[c]
      <4>1. Expiring(k)' = Expiring(k)
        BY <1>0, <1>4, <3>5 DEF Incr, Answer, Expiring, TypeOK
      <4>2. count'[k] = count[k] /\ granted'[k] = granted[k]
            /\ refused'[k] = refused[k]
        BY <1>0, <1>4, <3>5 DEF Incr, Counted, Answer, answers, TypeOK
      <4> QED
        BY <1>K, <3>4, <4>1, <4>2, Same DEF Spent, Lives, Owned, Open
    <3>6. CASE k = key[c] /\ First(count'[k])
      <4>1. count'[k] = count[k] + 1 /\ count[k] = 0
            /\ granted' = granted /\ refused' = refused
        BY <1>0, <1>4, <3>3, <3>6 DEF Incr, Counted, answers, First, TypeOK
      <4>2. c \notin Expiring(k) /\ Expiring(k)' = Expiring(k) \union {c}
        BY <1>0, <1>4, <3>6 DEF Incr, Counted, Expiring, TypeOK
      <4>3. Waiting(k)' = Waiting(k) + 1 /\ Expiring(k)' # {}
        BY <4>2, Joins
      <4>4. Lives(k)'
        BY <1>K, <1>C, <3>3, <3>4, <3>6, <4>1 DEF Lives
      <4>5. Spent(k)'
        BY <1>K, <3>3, <3>4, <4>1, <4>3 DEF Spent, Open
      <4> QED
        BY <4>3, <4>4, <4>5 DEF Owned
    <3>7. CASE k = key[c] /\ ~First(count'[k])
      <4>1. /\ count'[k] = count[k] + 1 /\ count[k] > 0
            /\ granted'[k] = granted[k] + (IF count'[k] <= Limit THEN 1 ELSE 0)
            /\ refused'[k] = refused[k] + (IF count'[k] <= Limit THEN 0 ELSE 1)
        BY <1>0, <1>4, <3>3, <3>7 DEF Incr, Counted, Answer, Allowed, First, TypeOK
      <4>2. Expiring(k)' = Expiring(k)
        BY <1>0, <1>4, <3>7 DEF Incr, Counted, Answer, Expiring, TypeOK
      <4>3. Waiting(k)' = Waiting(k)
        BY <4>2, Same
      <4>4. Lives(k)'
        BY <1>K, <1>C, <3>3, <3>4, <3>7, <4>1 DEF Lives
      <4>5. Spent(k)'
        BY <1>K, <3>3, <3>4, <4>1, <4>3 DEF Spent, Open
      <4> QED
        BY <1>K, <3>4, <4>1, <4>2, <4>4, <4>5 DEF Owned
    <3> QED
      BY <3>5, <3>6, <3>7
  <2> QED
    BY <1>0, <2>1, <2>2 DEF IInv
<1>5. ASSUME NEW c \in Callers, Expire(c) PROVE IInv'
  <2>1. \A d \in Callers : key'[d][2] <= minute'
    BY <1>5, <1>C DEF Expire, clock
  <2>2. ASSUME NEW k \in Keys PROVE (Spent(k) /\ Lives(k) /\ Owned(k))'
    <3>3. /\ k[2] \in Nat /\ Waiting(k) \in Nat /\ granted[k] \in Nat
          /\ refused[k] \in Nat /\ lost[k] \in Nat /\ count[k] \in Nat
          /\ minute \in Nat /\ second \in Nat
      BY <1>0, Sizes, Parts DEF TypeOK
    <3>4. minute' = minute /\ second' = second /\ count' = count /\ lost' = lost
          /\ orphans' = orphans /\ key' = key
      BY <1>5 DEF Expire, clock, failures
    <3>5. CASE k # key[c]
      <4>1. Expiring(k)' = Expiring(k)
        BY <1>0, <1>5, <3>5 DEF Expire, Answer, Expiring, TypeOK
      <4>2. ttl'[k] = ttl[k] /\ granted'[k] = granted[k] /\ refused'[k] = refused[k]
        BY <1>0, <1>5, <3>5 DEF Expire, Answer, TypeOK
      <4> QED
        BY <1>K, <3>4, <4>1, <4>2, Same DEF Spent, Lives, Owned, Open
    <3>6. CASE k = key[c]
      <4>1. /\ granted'[k] = granted[k] + 1 /\ refused'[k] = refused[k]
            /\ ttl'[k] = IF count[k] = 0 THEN ttl[k] ELSE Ttl
        BY <1>0, <1>5, <3>6 DEF Expire, Answer, Lifetime, TypeOK
      <4>2. c \in Expiring(k) /\ Expiring(k)' = Expiring(k) \ {c}
        BY <1>0, <1>5, <3>6 DEF Expire, Answer, Expiring, TypeOK
      <4>3. Waiting(k)' = Waiting(k) - 1
        BY <4>2, Leaves
      <4>4. Ttl # Persistent
        OBVIOUS
      <4>5. Lives(k)'
        BY <1>0, <1>K, <1>C, <3>3, <3>4, <3>6, <4>1 DEF Lives, TypeOK
      <4>6. Spent(k)'
        BY <1>K, <3>3, <3>4, <4>1, <4>3 DEF Spent, Open
      <4> QED
        BY <3>3, <3>4, <4>1, <4>4, <4>5, <4>6 DEF Owned
    <3> QED
      BY <3>5, <3>6
  <2> QED
    BY <1>0, <2>1, <2>2 DEF IInv
<1>6. ASSUME NEW c \in Callers, Fails(c) PROVE IInv'
  <2>1. \A d \in Callers : key'[d][2] <= minute'
    BY <1>6, <1>C DEF Fails, clock
  <2>2. ASSUME NEW k \in Keys PROVE (Spent(k) /\ Lives(k) /\ Owned(k))'
    <3>3. /\ k[2] \in Nat /\ Waiting(k) \in Nat /\ granted[k] \in Nat
          /\ refused[k] \in Nat /\ lost[k] \in Nat /\ count[k] \in Nat
          /\ minute \in Nat /\ second \in Nat
      BY <1>0, Sizes, Parts DEF TypeOK
    <3>4. minute' = minute /\ second' = second /\ granted' = granted
          /\ refused' = refused /\ ttl' = ttl /\ key' = key
          /\ orphans \subseteq orphans'
      BY <1>6 DEF Fails, Counted, clock, answers, redis
    <3>5. CASE k # key[c] \/ (pc[c] = "counting" /\ UNCHANGED <<redis, lost, orphans>>)
      <4>1. Expiring(k)' = Expiring(k)
        BY <1>0, <1>6, <3>5 DEF Fails, Counted, Expiring, TypeOK
      <4>2. count'[k] = count[k] /\ lost'[k] = lost[k]
        BY <1>0, <1>6, <3>5 DEF Fails, Counted, redis, TypeOK
      <4> QED
        BY <1>K, <3>4, <4>1, <4>2, Same DEF Spent, Lives, Owned, Open
    <3>6. CASE k = key[c] /\ Counted(c) /\ lost' = [lost EXCEPT ![key[c]] = @ + 1]
               /\ orphans' = IF First(count'[key[c]]) THEN orphans \union {key[c]}
                             ELSE orphans
      <4>1. count'[k] = count[k] + 1 /\ lost'[k] = lost[k] + 1
        BY <1>0, <3>6 DEF Counted, TypeOK
      <4>2. Expiring(k)' = Expiring(k)
        BY <1>0, <1>6, <3>6 DEF Fails, Counted, Expiring, TypeOK
      <4>3. Waiting(k)' = Waiting(k)
        BY <4>2, Same
      <4>4. Lives(k)'
        BY <1>K, <1>C, <3>3, <3>4, <3>6, <4>1 DEF Lives
      <4>5. Spent(k)'
        BY <1>K, <3>3, <3>4, <4>1, <4>3 DEF Spent, Open
      <4>6. Owned(k)'
        BY <1>K, <3>3, <3>4, <3>6, <4>1, <4>2 DEF Owned, First
      <4> QED
        BY <4>4, <4>5, <4>6
    <3>7. CASE k = key[c] /\ pc[c] = "expiring" /\ count' = count
               /\ lost' = [lost EXCEPT ![key[c]] = @ + 1]
               /\ orphans' = orphans \union {key[c]}
      <4>1. lost'[k] = lost[k] + 1 /\ k \in orphans'
        BY <1>0, <3>7 DEF TypeOK
      <4>2. c \in Expiring(k) /\ Expiring(k)' = Expiring(k) \ {c}
        BY <1>0, <1>6, <3>7 DEF Fails, Expiring, TypeOK
      <4>3. Waiting(k)' = Waiting(k) - 1
        BY <4>2, Leaves
      <4>4. Lives(k)'
        BY <1>K, <3>4, <3>7 DEF Lives
      <4>5. Spent(k)'
        BY <1>K, <3>3, <3>4, <3>7, <4>1, <4>3 DEF Spent, Open
      <4> QED
        BY <4>1, <4>4, <4>5 DEF Owned
    <3> QED
      BY <1>6, <3>5, <3>6, <3>7 DEF Fails, redis
  <2> QED
    BY <1>0, <2>1, <2>2 DEF IInv
<1> QED
  BY <1>1, <1>2, <1>3, <1>4, <1>5, <1>6 DEF Next

\* The inductive invariant holds in every reachable state.
THEOREM Inductive == Spec => []IInv
  BY InitIInv, KeysStep, PTL DEF Spec

\* Every key, caller and counter keeps its range (TypeOK).
THEOREM TypeCorrect == Spec => []TypeOK
<1>1. IInv => TypeOK
  BY DEF IInv
<1> QED
  BY <1>1, Inductive, PTL

\* For any limit and any number of callers, slow ones and failing ones
\* included, a tenant is granted at most Limit calls of one minute.
THEOREM WithinLimitHolds == Spec => []WithinLimit
<1>1. IInv => WithinLimit
  BY DEF IInv, Spent, WithinLimit, Waiting
<1> QED
  BY <1>1, Inductive, PTL

\* A refusal means that the tenant's own calls have used the limit up.
THEOREM RefusedOnlyWhenFullHolds == Spec => []RefusedOnlyWhenFull
<1>1. IInv => RefusedOnlyWhenFull
  BY DEF IInv, Spent, RefusedOnlyWhenFull, Waiting
<1> QED
  BY <1>1, Inductive, PTL

\* A key without a time to live is still in its first caller's hands, or was
\* left by one that failed.
THEOREM LeaksNeedAFailureHolds == Spec => []LeaksNeedAFailure
<1>1. IInv => LeaksNeedAFailure
  BY DEF IInv, Owned, LeaksNeedAFailure
<1> QED
  BY <1>1, Inductive, PTL
==============================================================================
