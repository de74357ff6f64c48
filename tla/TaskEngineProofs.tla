-------------------------- MODULE TaskEngineProofs ---------------------------
(***************************************************************************)
(* Proofs about TaskEngine for any number of events, keys and workers, any   *)
(* MAX_RETRIES and any number of faults of every kind.                       *)
(***************************************************************************)
EXTENDS TaskEngine, FiniteSetTheorems, TLAPS

\* Typing.  Every column, message and local copy keeps its range, whatever
\* faults occur: attempts is never negative and Celery's retry counter stays
\* within max_retries.
THEOREM TypeCorrect == Spec => []TypeOK
<1> USE KeyOfAssumption, MaxRetriesAssumption, MaxFaultsAssumption,
        NoneAssumption
<1>1. Init => TypeOK
  BY DEF Init, TypeOK, EmitterStages, WorkerStages, Status, FaultKinds
<1>2. TypeOK /\ [Next]_vars => TypeOK'
  <2> SUFFICES ASSUME TypeOK, [Next]_vars
               PROVE  TypeOK'
    OBVIOUS
  <2> USE DEF TypeOK
  <2>f. ASSUME NEW f \in FaultKinds, Fault(f)
        PROVE  /\ faults' \in [FaultKinds -> Nat]
               /\ \A g \in FaultKinds : faults'[g] <= MaxFaults[g]
    BY <2>f DEF Fault
  <2>j. ASSUME NEW w \in Workers, pc[w] # "idle"
        PROVE  /\ job[w] \in Job
               /\ TaskOf(w) \in Keys
               /\ job[w].msg \in Message
               /\ job[w].attempts \in Nat
    BY <2>j DEF Job, Message, TaskOf
  <2>1. ASSUME NEW e \in Events, Emit(e) PROVE TypeOK'
    BY <2>1 DEF Emit, EmitterStages, rowVars, workVars, histVars
  <2>2. ASSUME NEW e \in Events, Rollback(e) PROVE TypeOK'
    BY <2>2 DEF Rollback, EmitterStages, rowVars, workVars, histVars
  <2>3. ASSUME NEW e \in Events, Commit(e) PROVE TypeOK'
    BY <2>3 DEF Commit, EmitterStages, rowVars, workVars, histVars
  <2>4. ASSUME NEW e \in Events, GetOrCreate(e) PROVE TypeOK'
    BY <2>4 DEF GetOrCreate, EmitterStages, Status, workVars, histVars
  <2>5. ASSUME NEW e \in Events, Delay(e) PROVE TypeOK'
    BY <2>5 DEF Delay, EmitterStages, Message, FaultKinds, rowVars, workVars,
                histVars
  <2>6. ASSUME NEW e \in Events, EmitterCrash(e) PROVE TypeOK'
    BY <2>6, <2>f DEF EmitterCrash, FaultKinds, EmitterStages, rowVars,
                      workVars, histVars
  <2>7. ASSUME NEW m \in queue, Redeliver(m) PROVE TypeOK'
    <3>1. faults["duplicate"] + 1 \in 0..MaxFaults["duplicate"]
      BY <2>7 DEF Redeliver, Fault, FaultKinds
    <3>2. queue' \subseteq Message
      BY <2>7, <3>1 DEF Redeliver, Message
    <3> QED
      BY <2>7, <2>f, <3>2 DEF Redeliver, FaultKinds, emitVars, rowVars,
                              workVars, histVars
  <2>8. ASSUME NEW w \in Workers, NEW m \in queue, Dequeue(w, m)
        PROVE  TypeOK'
    <3>1. m \in Message /\ m.key \in Keys /\ attempts[m.key] \in Nat
      BY DEF Message
    <3>2. [msg |-> m, attempts |-> attempts[m.key]] \in Job
      BY <3>1 DEF Job
    <3>3. /\ pc' \in [Workers -> WorkerStages]
          /\ job' \in [Workers -> Job \cup {None}]
      BY <2>8, <3>2 DEF Dequeue, workVars, WorkerStages
    <3>4. \A v \in Workers : pc'[v] = "idle" <=> job'[v] = None
      BY <2>8, <3>2, <3>3 DEF Dequeue, workVars, WorkerStages
    <3> QED
      BY <2>8, <3>3, <3>4 DEF Dequeue, emitVars, rowVars, histVars
  <2>9. ASSUME NEW w \in Workers, MarkRunning(w) PROVE TypeOK'
    <3>1. /\ TaskOf(w) \in Keys /\ NextAttempt(w) \in Nat
          /\ [msg |-> job[w].msg, attempts |-> NextAttempt(w)] \in Job
      BY <2>9, <2>j DEF MarkRunning, NextAttempt, Job
    <3> QED
      BY <2>9, <3>1 DEF MarkRunning, WorkerStages, Status, emitVars
  <2>10. ASSUME NEW w \in Workers, HandlerReturns(w) PROVE TypeOK'
    BY <2>10, <2>j DEF HandlerReturns, WorkerStages, emitVars, rowVars
  <2>11. ASSUME NEW w \in Workers, HandlerRaises(w) PROVE TypeOK'
    BY <2>11 DEF HandlerRaises, WorkerStages, emitVars, rowVars, histVars
  <2>12. ASSUME NEW w \in Workers, MarkDone(w) PROVE TypeOK'
    BY <2>12, <2>j DEF MarkDone, MarksDone, Finish, WorkerStages, Status,
                       emitVars, histVars
  <2>13. ASSUME NEW w \in Workers, MarkDead(w) PROVE TypeOK'
    BY <2>13, <2>j DEF MarkDead, AuditLogged, Finish, WorkerStages, Status,
                       emitVars, histVars
  <2>14. ASSUME NEW w \in Workers, MarkFailed(w) PROVE TypeOK'
    BY <2>14, <2>j DEF MarkFailed, WorkerStages, Status, emitVars, histVars
  <2>15. ASSUME NEW w \in Workers, Retry(w) PROVE TypeOK'
    <3>1. job[w].msg.retries < MaxRetries =>
            [key |-> job[w].msg.key, retries |-> job[w].msg.retries + 1,
             copy |-> job[w].msg.copy] \in Message
      BY <2>15, <2>j DEF Retry, Message
    <3>2. queue' \subseteq Message
      BY <2>15, <3>1 DEF Retry, CeleryRetries
    <3> QED
      BY <2>15, <3>2 DEF Retry, Finish, WorkerStages, emitVars, rowVars,
                         histVars
  <2>16. ASSUME NEW w \in Workers, SaveFails(w) PROVE TypeOK'
    <3>1. /\ pc' \in [Workers -> WorkerStages]
          /\ job' \in [Workers -> Job \cup {None}]
      BY <2>16 DEF SaveFails, Finish, WorkerStages
    <3>2. \A v \in Workers : pc'[v] = "idle" <=> job'[v] = None
      BY <2>16, <3>1 DEF SaveFails, Finish, WorkerStages
    <3> QED
      BY <2>16, <2>f, <3>1, <3>2 DEF SaveFails, FaultKinds, emitVars, rowVars,
                                     histVars
  <2>17. ASSUME NEW w \in Workers, WorkerCrash(w) PROVE TypeOK'
    BY <2>17, <2>f DEF WorkerCrash, Finish, FaultKinds, WorkerStages,
                       emitVars, rowVars, histVars
  <2>18. ASSUME NEW k \in Keys, Requeue(k) PROVE TypeOK'
    BY <2>18, <2>f DEF Requeue, Decisions, FaultKinds, Status, emitVars, workVars,
                       histVars
  <2>19. CASE UNCHANGED vars
    BY <2>19 DEF vars, emitVars, rowVars, workVars, histVars
  <2> QED
    BY <2>1, <2>2, <2>3, <2>4, <2>5, <2>6, <2>7, <2>8, <2>9, <2>10, <2>11,
       <2>12, <2>13, <2>14, <2>15, <2>16, <2>17, <2>18, <2>19
       DEF Next, EmitterStep, WorkerStep
<1> QED
  BY <1>1, <1>2, PTL DEF Spec

------------------------------------------------------------------------------
\* Typing facts about one message and one busy worker, used below.
LEMMA Messages ==
  ASSUME TypeOK
  PROVE  /\ \A m \in queue :
              /\ m.key \in Keys /\ m.retries \in Nat
              /\ m = [key |-> m.key, retries |-> m.retries, copy |-> m.copy]
         /\ \A w \in Workers : Busy(w) =>
              /\ TaskOf(w) \in Keys
              /\ job[w].attempts \in Nat
              /\ job[w].msg.retries \in Nat
              /\ job[w].msg.key = TaskOf(w)
BY DEF TypeOK, Busy, TaskOf, Job, Message

\* Faults are never forgotten: a behaviour without replay so far had none
\* before its last step either.
LEMMA ReplayIsForGood ==
  ASSUME TypeOK, [Next]_vars, Unreplayed'
  PROVE  Unreplayed
<1> USE MaxFaultsAssumption DEF Unreplayed, TypeOK, FaultKinds
<1>1. ASSUME NEW f \in FaultKinds, Fault(f) PROVE Unreplayed
  BY <1>1 DEF Fault
<1>2. ASSUME UNCHANGED faults PROVE Unreplayed
  BY <1>2
<1> HIDE DEF Unreplayed, FaultKinds
<1>3. {"emitter", "worker", "save", "duplicate", "requeue"} \subseteq FaultKinds
  BY DEF FaultKinds
<1>4. ASSUME NEW e \in Events,
             Emit(e) \/ Rollback(e) \/ Commit(e) \/ EmitterStep(e)
               \/ EmitterCrash(e)
      PROVE  Unreplayed
  BY <1>1, <1>2, <1>3, <1>4 DEF Emit, Rollback, Commit, EmitterStep,
     GetOrCreate, Delay, EmitterCrash
<1>5. ASSUME NEW w \in Workers, WorkerStep(w) \/ SaveFails(w) \/ WorkerCrash(w)
      PROVE  Unreplayed
  BY <1>1, <1>2, <1>3, <1>5 DEF WorkerStep, Dequeue, MarkRunning,
     HandlerReturns, HandlerRaises, MarkDone, MarkDead, MarkFailed, Retry,
     SaveFails, WorkerCrash
<1>6. ASSUME NEW m \in queue, Redeliver(m) PROVE Unreplayed
  BY <1>1, <1>3, <1>6 DEF Redeliver
<1>7. ASSUME NEW k \in Keys, Requeue(k) PROVE Unreplayed
  BY <1>1, <1>3, <1>7 DEF Requeue
<1>8. CASE UNCHANGED vars
  BY <1>2, <1>8 DEF vars
<1> QED
  BY <1>4, <1>5, <1>6, <1>7, <1>8 DEF Next

\* A step that replays nothing keeps one carrier per task, and the row, the
\* messages and the workers' copies in agreement.
LEMMA OnceKept ==
  ASSUME TypeOK, Once, TypeOK', Unreplayed', [Next]_vars
  PROVE  Once'
<1> USE KeyOfAssumption, MaxRetriesAssumption, MaxFaultsAssumption,
        NoneAssumption
<1> USE DEF emitVars, rowVars, workVars, histVars
<1>t. /\ emitter \in [Events -> EmitterStages]
      /\ status \in [Keys -> Status \cup {"absent"}]
      /\ attempts \in [Keys -> Nat] /\ audits \in [Keys -> Nat]
      /\ starts \in [Keys -> Nat] /\ completions \in [Keys -> Nat]
      /\ pc \in [Workers -> WorkerStages]
      /\ job \in [Workers -> Job \cup {None}]
      /\ faults \in [FaultKinds -> Nat]
      /\ faults["save"] \in Nat
      /\ \A e \in Events : KeyOf[e] \in Keys
  BY DEF TypeOK, FaultKinds
<1>q. ASSUME NEW m \in queue
      PROVE  /\ m.key \in Keys /\ m.retries \in Nat
             /\ m = [key |-> m.key, retries |-> m.retries, copy |-> m.copy]
  BY Messages
<1>j. ASSUME NEW w \in Workers, Busy(w)
      PROVE  /\ TaskOf(w) \in Keys
             /\ job[w].attempts \in Nat
             /\ job[w].msg.retries \in Nat
             /\ job[w].msg.key = TaskOf(w)
  BY <1>j, Messages
<1>1. ASSUME NEW e \in Events, Emit(e)
      PROVE  Once'
  <2> USE DEF Once
  <2>1. Exclusive'
    BY <1>1, <1>t, <1>q, <1>j DEF Emit, Exclusive, Publishing, Busy, TaskOf
  <2>2. CarriedRows'
    BY <1>1, <1>t, <1>q, <1>j
       DEF Emit, Exclusive, CarriedRows, PublishingRow, QueuedRow, HeldRow,
           Row, Publishing, Busy, TaskOf
  <2>3. \A k \in Keys : Row(k)'
    BY <1>1, <1>t, <1>q, <1>j
       DEF Emit, CarriedRows, PublishingRow, QueuedRow, HeldRow, Row, Publishing, Busy, TaskOf
  <2> QED
    BY <2>1, <2>2, <2>3
<1>2. ASSUME NEW e \in Events, Rollback(e)
      PROVE  Once'
  <2> USE DEF Once
  <2>1. Exclusive'
    BY <1>2, <1>t, <1>q, <1>j
       DEF Rollback, Exclusive, Publishing, Busy, TaskOf
  <2>2. CarriedRows'
    BY <1>2, <1>t, <1>q, <1>j
       DEF Rollback, Exclusive, CarriedRows, PublishingRow, QueuedRow,
           HeldRow, Row, Publishing, Busy, TaskOf
  <2>3. \A k \in Keys : Row(k)'
    BY <1>2, <1>t, <1>q, <1>j
       DEF Rollback, CarriedRows, PublishingRow, QueuedRow, HeldRow, Row,
           Publishing, Busy, TaskOf
  <2> QED
    BY <2>1, <2>2, <2>3
<1>3. ASSUME NEW e \in Events, Commit(e)
      PROVE  Once'
  <2> USE DEF Once
  <2>1. Exclusive'
    BY <1>3, <1>t, <1>q, <1>j
       DEF Commit, Exclusive, Publishing, Busy, TaskOf
  <2>2. CarriedRows'
    BY <1>3, <1>t, <1>q, <1>j
       DEF Commit, Exclusive, CarriedRows, PublishingRow, QueuedRow,
           HeldRow, Row, Publishing, Busy, TaskOf
  <2>3. \A k \in Keys : Row(k)'
    BY <1>3, <1>t, <1>q, <1>j
       DEF Commit, CarriedRows, PublishingRow, QueuedRow, HeldRow, Row,
           Publishing, Busy, TaskOf
  <2> QED
    BY <2>1, <2>2, <2>3
<1>4. ASSUME NEW e \in Events, GetOrCreate(e)
      PROVE  Once'
  <2> USE DEF Once
  <2>0. /\ \A f \in Events : Publishing(f) => status[KeyOf[f]] # "absent"
        /\ \A m \in queue : status[m.key] # "absent"
        /\ \A w \in Workers : Busy(w) => status[TaskOf(w)] # "absent"
    BY <1>t DEF CarriedRows, PublishingRow, QueuedRow, HeldRow, Busy,
                WorkerStages
  <2>1. Exclusive'
    BY <1>4, <1>t, <1>q, <1>j, <2>0
       DEF GetOrCreate, Creates, Exclusive, Publishing, Busy, TaskOf
  <2>2. CarriedRows'
    BY <1>4, <1>t, <1>q, <1>j
       DEF GetOrCreate, CallbackRuns, Creates, Exclusive, CarriedRows,
           PublishingRow, QueuedRow, HeldRow, Row, Publishing, Busy, TaskOf
  <2>3. \A k \in Keys : Row(k)'
    BY <1>4, <1>t, <1>q, <1>j
       DEF GetOrCreate, CallbackRuns, Creates, CarriedRows, PublishingRow,
           QueuedRow, HeldRow, Row, Publishing, Busy, TaskOf
  <2> QED
    BY <2>1, <2>2, <2>3
<1>5. ASSUME NEW e \in Events, Delay(e)
      PROVE  Once'
  <2> USE DEF Once
  <2>1. Exclusive'
    BY <1>5, <1>t, <1>q, <1>j DEF Delay, Exclusive, Publishing, Busy, TaskOf
  <2>2. CarriedRows'
    BY <1>5, <1>t, <1>q, <1>j
       DEF Delay, Exclusive, CarriedRows, PublishingRow, QueuedRow, HeldRow,
           Row, Publishing, Busy, TaskOf
  <2>3. \A k \in Keys : Row(k)'
    BY <1>5, <1>t, <1>q, <1>j
       DEF Delay, CarriedRows, PublishingRow, QueuedRow, HeldRow, Row,
           Publishing, Busy, TaskOf
  <2> QED
    BY <2>1, <2>2, <2>3
<1>6. ASSUME NEW e \in Events, EmitterCrash(e)
      PROVE  Once'
  <2> USE DEF Once
  <2>1. Exclusive'
    BY <1>6, <1>t, <1>q, <1>j
       DEF EmitterCrash, Fault, FaultKinds, Exclusive, Publishing, Busy,
           TaskOf
  <2>2. CarriedRows'
    BY <1>6, <1>t, <1>q, <1>j
       DEF EmitterCrash, Fault, FaultKinds, Exclusive, CarriedRows,
           PublishingRow, QueuedRow, HeldRow, Row, Publishing, Busy, TaskOf
  <2>3. \A k \in Keys : Row(k)'
    BY <1>6, <1>t, <1>q, <1>j
       DEF EmitterCrash, Fault, FaultKinds, CarriedRows, PublishingRow,
           QueuedRow, HeldRow, Row, Publishing, Busy, TaskOf
  <2> QED
    BY <2>1, <2>2, <2>3
<1>7. ASSUME NEW w \in Workers, NEW m \in queue, Dequeue(w, m)
      PROVE  Once'
  <2> USE DEF Once
  <2>1. Exclusive'
    BY <1>7, <1>t, <1>q, <1>j
       DEF Dequeue, AlreadyDone, Exclusive, Publishing, Busy, TaskOf
  <2>2. CarriedRows'
    BY <1>7, <1>t, <1>q, <1>j
       DEF Dequeue, AlreadyDone, Exclusive, CarriedRows, PublishingRow,
           QueuedRow, HeldRow, Row, Publishing, Busy, TaskOf
  <2>3. \A k \in Keys : Row(k)'
    BY <1>7, <1>t, <1>q, <1>j
       DEF Dequeue, AlreadyDone, CarriedRows, PublishingRow, QueuedRow,
           HeldRow, Row, Publishing, Busy, TaskOf
  <2> QED
    BY <2>1, <2>2, <2>3
<1>8. ASSUME NEW w \in Workers, MarkRunning(w)
      PROVE  Once'
  <2> USE DEF Once
  <2>1. Exclusive'
    BY <1>8, <1>t, <1>q, <1>j
       DEF MarkRunning, NextAttempt, Exclusive, Publishing, Busy, TaskOf
  <2>2. CarriedRows'
    BY <1>8, <1>t, <1>q, <1>j
       DEF MarkRunning, NextAttempt, Exclusive, CarriedRows, PublishingRow,
           QueuedRow, HeldRow, Row, Publishing, Busy, TaskOf
  <2>3. \A k \in Keys : Row(k)'
    BY <1>8, <1>t, <1>q, <1>j
       DEF MarkRunning, NextAttempt, CarriedRows, PublishingRow, QueuedRow,
           HeldRow, Row, Publishing, Busy, TaskOf
  <2> QED
    BY <2>1, <2>2, <2>3
<1>9. ASSUME NEW w \in Workers, HandlerReturns(w)
      PROVE  Once'
  <2> USE DEF Once
  <2>1. Exclusive'
    BY <1>9, <1>t, <1>q, <1>j
       DEF HandlerReturns, Exclusive, Publishing, Busy, TaskOf
  <2>2. CarriedRows'
    BY <1>9, <1>t, <1>q, <1>j
       DEF HandlerReturns, Exclusive, CarriedRows, PublishingRow, QueuedRow,
           HeldRow, Row, Publishing, Busy, TaskOf
  <2>3. \A k \in Keys : Row(k)'
    BY <1>9, <1>t, <1>q, <1>j
       DEF HandlerReturns, CarriedRows, PublishingRow, QueuedRow, HeldRow,
           Row, Publishing, Busy, TaskOf
  <2> QED
    BY <2>1, <2>2, <2>3
<1>10. ASSUME NEW w \in Workers, HandlerRaises(w)
      PROVE  Once'
  <2> USE DEF Once
  <2>1. Exclusive'
    BY <1>10, <1>t, <1>q, <1>j
       DEF HandlerRaises, Exclusive, Publishing, Busy, TaskOf
  <2>2. CarriedRows'
    BY <1>10, <1>t, <1>q, <1>j
       DEF HandlerRaises, Exclusive, CarriedRows, PublishingRow, QueuedRow,
           HeldRow, Row, Publishing, Busy, TaskOf
  <2>3. \A k \in Keys : Row(k)'
    BY <1>10, <1>t, <1>q, <1>j
       DEF HandlerRaises, CarriedRows, PublishingRow, QueuedRow, HeldRow,
           Row, Publishing, Busy, TaskOf
  <2> QED
    BY <2>1, <2>2, <2>3
<1>11. ASSUME NEW w \in Workers, MarkDone(w)
      PROVE  Once'
  <2> USE DEF Once
  <2>1. Exclusive'
    BY <1>11, <1>t, <1>q, <1>j
       DEF MarkDone, MarksDone, Finish, Exclusive, Publishing, Busy, TaskOf
  <2>2. CarriedRows'
    BY <1>11, <1>t, <1>q, <1>j
       DEF MarkDone, MarksDone, Finish, Exclusive, CarriedRows,
           PublishingRow, QueuedRow, HeldRow, Row, Publishing, Busy, TaskOf
  <2>3. \A k \in Keys : Row(k)'
    BY <1>11, <1>t, <1>q, <1>j
       DEF MarkDone, MarksDone, Finish, CarriedRows, PublishingRow,
           QueuedRow, HeldRow, Row, Publishing, Busy, TaskOf
  <2> QED
    BY <2>1, <2>2, <2>3
<1>12. ASSUME NEW w \in Workers, MarkDead(w)
      PROVE  Once'
  <2> USE DEF Once
  <2>1. Exclusive'
    BY <1>12, <1>t, <1>q, <1>j
       DEF MarkDead, AuditLogged, Exhausted, Finish, Exclusive, Publishing,
           Busy, TaskOf
  <2>2. CarriedRows'
    BY <1>12, <1>t, <1>q, <1>j
       DEF MarkDead, AuditLogged, Exhausted, Finish, Exclusive, CarriedRows,
           PublishingRow, QueuedRow, HeldRow, Row, Publishing, Busy, TaskOf
  <2>3. \A k \in Keys : Row(k)'
    BY <1>12, <1>t, <1>q, <1>j
       DEF MarkDead, AuditLogged, Exhausted, Finish, CarriedRows,
           PublishingRow, QueuedRow, HeldRow, Row, Publishing, Busy,
           TaskOf
  <2> QED
    BY <2>1, <2>2, <2>3
<1>13. ASSUME NEW w \in Workers, MarkFailed(w)
      PROVE  Once'
  <2> USE DEF Once
  <2>1. Exclusive'
    BY <1>13, <1>t, <1>q, <1>j
       DEF MarkFailed, Exhausted, Exclusive, Publishing, Busy, TaskOf
  <2>2. CarriedRows'
    BY <1>13, <1>t, <1>q, <1>j
       DEF MarkFailed, Exhausted, Exclusive, CarriedRows, PublishingRow,
           QueuedRow, HeldRow, Row, Publishing, Busy, TaskOf
  <2>3. \A k \in Keys : Row(k)'
    BY <1>13, <1>t, <1>q, <1>j
       DEF MarkFailed, Exhausted, CarriedRows, PublishingRow, QueuedRow,
           HeldRow, Row, Publishing, Busy, TaskOf
  <2> QED
    BY <2>1, <2>2, <2>3
<1>14. ASSUME NEW w \in Workers, Retry(w)
      PROVE  Once'
  <2> USE DEF Once
  <2>1. Exclusive'
    BY <1>14, <1>t, <1>q, <1>j
       DEF Retry, CeleryRetries, Finish, Exclusive, Publishing, Busy, TaskOf
  <2>2. CarriedRows'
    BY <1>14, <1>t, <1>q, <1>j
       DEF Retry, CeleryRetries, Finish, Exclusive, CarriedRows,
           PublishingRow, QueuedRow, HeldRow, Row, Publishing, Busy, TaskOf
  <2>3. \A k \in Keys : Row(k)'
    BY <1>14, <1>t, <1>q, <1>j
       DEF Retry, CeleryRetries, Finish, CarriedRows, PublishingRow,
           QueuedRow, HeldRow, Row, Publishing, Busy, TaskOf
  <2> QED
    BY <2>1, <2>2, <2>3
<1>15. ASSUME NEW w \in Workers, SaveFails(w)
      PROVE  Once'
  <2> USE DEF Once
  <2>1. Exclusive'
    BY <1>15, <1>t, <1>q, <1>j
       DEF SaveFails, Fault, FaultKinds, Finish, Exclusive, Publishing,
           Busy, TaskOf
  <2>2. CarriedRows'
    BY <1>15, <1>t, <1>q, <1>j
       DEF SaveFails, Fault, FaultKinds, Finish, Exclusive, CarriedRows,
           PublishingRow, QueuedRow, HeldRow, Row, Publishing, Busy, TaskOf
  <2>3. \A k \in Keys : Row(k)'
    BY <1>15, <1>t, <1>q, <1>j
       DEF SaveFails, Fault, FaultKinds, Finish, CarriedRows, PublishingRow,
           QueuedRow, HeldRow, Row, Publishing, Busy, TaskOf
  <2> QED
    BY <2>1, <2>2, <2>3
<1>16. ASSUME NEW w \in Workers, WorkerCrash(w)
      PROVE  Once'
  <2> USE DEF Once
  <2>1. Exclusive'
    BY <1>16, <1>t, <1>q, <1>j
       DEF WorkerCrash, Fault, FaultKinds, Finish, Exclusive, Publishing,
           Busy, TaskOf
  <2>2. CarriedRows'
    BY <1>16, <1>t, <1>q, <1>j
       DEF WorkerCrash, Fault, FaultKinds, Finish, Exclusive, CarriedRows,
           PublishingRow, QueuedRow, HeldRow, Row, Publishing, Busy, TaskOf
  <2>3. \A k \in Keys : Row(k)'
    BY <1>16, <1>t, <1>q, <1>j
       DEF WorkerCrash, Fault, FaultKinds, Finish, CarriedRows,
           PublishingRow, QueuedRow, HeldRow, Row, Publishing, Busy,
           TaskOf
  <2> QED
    BY <2>1, <2>2, <2>3
<1>17. ASSUME NEW m \in queue, Redeliver(m) PROVE FALSE
  BY <1>17 DEF Redeliver, Fault, Unreplayed, TypeOK, FaultKinds
<1>18. ASSUME NEW k \in Keys, Requeue(k) PROVE FALSE
  BY <1>18 DEF Requeue, Fault, Unreplayed, TypeOK, FaultKinds
<1>19. CASE UNCHANGED vars
  BY <1>19 DEF vars, Once, Exclusive, CarriedRows, PublishingRow, QueuedRow,
               HeldRow, Row, Publishing, Busy, TaskOf
<1> QED
  BY <1>1, <1>2, <1>3, <1>4, <1>5, <1>6, <1>7, <1>8, <1>9, <1>10, <1>11,
     <1>12, <1>13, <1>14, <1>15, <1>16, <1>17, <1>18, <1>19
     DEF Next, EmitterStep, WorkerStep

\* What holds under every fault: carriers have rows, rows have owners that
\* committed, and settled rows tell the truth.
LEMMA AlwaysKept ==
  ASSUME TypeOK, Always, TypeOK', [Next]_vars
  PROVE  Always'
<1> USE KeyOfAssumption, NoneAssumption
<1> USE DEF emitVars, rowVars, workVars, histVars
<1>t. /\ emitter \in [Events -> EmitterStages]
      /\ status \in [Keys -> Status \cup {"absent"}]
      /\ audits \in [Keys -> Nat] /\ completions \in [Keys -> Nat]
      /\ owner \in [Keys -> Events \cup {None}]
      /\ pc \in [Workers -> WorkerStages]
      /\ job \in [Workers -> Job \cup {None}]
      /\ \A e \in Events : KeyOf[e] \in Keys
      /\ \A m \in queue : m.key \in Keys
      /\ \A w \in Workers : Busy(w) => TaskOf(w) \in Keys
  BY Messages DEF TypeOK
<1> USE DEF Always, Owned, SettledIsTrue, Publishing, Busy, TaskOf
<1>1. ASSUME NEW e \in Events, Emit(e) PROVE Always'
  BY <1>1, <1>t DEF Emit
<1>2. ASSUME NEW e \in Events, Rollback(e) PROVE Always'
  BY <1>2, <1>t DEF Rollback
<1>3. ASSUME NEW e \in Events, Commit(e) PROVE Always'
  BY <1>3, <1>t DEF Commit
<1>4. ASSUME NEW e \in Events, GetOrCreate(e) PROVE Always'
  BY <1>4, <1>t DEF GetOrCreate, Creates, CallbackRuns
<1>5. ASSUME NEW e \in Events, Delay(e) PROVE Always'
  BY <1>5, <1>t DEF Delay
<1>6. ASSUME NEW e \in Events, EmitterCrash(e) PROVE Always'
  BY <1>6, <1>t DEF EmitterCrash
<1>7. ASSUME NEW m \in queue, Redeliver(m) PROVE Always'
  BY <1>7, <1>t DEF Redeliver
<1>8. ASSUME NEW w \in Workers, NEW m \in queue, Dequeue(w, m) PROVE Always'
  BY <1>8, <1>t DEF Dequeue
<1>9. ASSUME NEW w \in Workers, MarkRunning(w) PROVE Always'
  BY <1>9, <1>t DEF MarkRunning
<1>10. ASSUME NEW w \in Workers, HandlerReturns(w) PROVE Always'
  BY <1>10, <1>t DEF HandlerReturns
<1>11. ASSUME NEW w \in Workers, HandlerRaises(w) PROVE Always'
  BY <1>11, <1>t DEF HandlerRaises
<1>12. ASSUME NEW w \in Workers, MarkDone(w) PROVE Always'
  BY <1>12, <1>t DEF MarkDone, MarksDone, Finish
<1>13. ASSUME NEW w \in Workers, MarkDead(w) PROVE Always'
  BY <1>13, <1>t DEF MarkDead, AuditLogged, Finish
<1>14. ASSUME NEW w \in Workers, MarkFailed(w) PROVE Always'
  BY <1>14, <1>t DEF MarkFailed
<1>15. ASSUME NEW w \in Workers, Retry(w) PROVE Always'
  BY <1>15, <1>t DEF Retry, Finish
<1>16. ASSUME NEW w \in Workers, SaveFails(w) PROVE Always'
  BY <1>16, <1>t DEF SaveFails, Finish
<1>17. ASSUME NEW w \in Workers, WorkerCrash(w) PROVE Always'
  BY <1>17, <1>t DEF WorkerCrash, Finish
<1>18. ASSUME NEW k \in Keys, Requeue(k) PROVE Always'
  BY <1>18, <1>t DEF Requeue, Decisions
<1>19. CASE UNCHANGED vars
  BY <1>19 DEF vars
<1> QED
  BY <1>1, <1>2, <1>3, <1>4, <1>5, <1>6, <1>7, <1>8, <1>9, <1>10, <1>11,
     <1>12, <1>13, <1>14, <1>15, <1>16, <1>17, <1>18, <1>19
     DEF Next, EmitterStep, WorkerStep

\* The inductive invariant holds in every reachable state.
THEOREM Inductive == Spec => []IInv
<1>1. Init => IInv
  <2> SUFFICES ASSUME Init PROVE IInv
    OBVIOUS
  <2>1. TypeOK
    BY KeyOfAssumption, MaxRetriesAssumption, MaxFaultsAssumption,
       NoneAssumption
       DEF Init, TypeOK, EmitterStages, WorkerStages, Status, FaultKinds
  <2>2. Once
    BY MaxRetriesAssumption
       DEF Init, Once, Exclusive, CarriedRows, Row, Publishing, Busy,
           FaultKinds
  <2>3. Always
    BY DEF Init, Always, Owned, SettledIsTrue, Publishing, Busy
  <2> QED
    BY <2>1, <2>2, <2>3 DEF IInv
<1>2. IInv /\ TypeOK' /\ [Next]_vars => IInv'
  BY ReplayIsForGood, OnceKept, AlwaysKept DEF IInv
<1> QED
  BY <1>1, <1>2, TypeCorrect, PTL DEF Spec

------------------------------------------------------------------------------
(* What the inductive invariant says.                                        *)

\* At most one emitter, message or worker is ever responsible for a task, and
\* none once it is done or dead, as long as nothing is replayed.
THEOREM OneCarrierHolds == Spec => []OneCarrier
<1>1. IInv => OneCarrier
  <2> SUFFICES ASSUME TypeOK, Once, NEW k \in Keys
               PROVE  /\ \A c, d \in Carriers(k) : c = d
                      /\ status[k] \in Settled \cup {"absent"} =>
                           Carriers(k) = {}
    BY DEF OneCarrier, IInv
  <2> DEFINE E == {e \in Events : emitter[e] = "created" /\ KeyOf[e] = k}
             M == {m \in queue : m.key = k}
             W == {w \in Workers : pc[w] # "idle" /\ TaskOf(w) = k}
  <2>1. Carriers(k) = E \cup M \cup W
    BY DEF Carriers
  <2>2. /\ \A c, d \in E : c = d
        /\ \A c, d \in M : c = d
        /\ \A c, d \in W : c = d
        /\ E = {} \/ M = {}
        /\ E = {} \/ W = {}
        /\ M = {} \/ W = {}
    BY DEF Once, Exclusive, Publishing, Busy
  <2>3. ASSUME status[k] \in Settled \cup {"absent"}
        PROVE  E = {} /\ M = {} /\ W = {}
    <3>1. E = {}
      BY <2>3 DEF Once, CarriedRows, PublishingRow, Publishing, Settled
    <3>2. M = {}
      BY <2>3 DEF Once, CarriedRows, QueuedRow, Settled
    <3>3. W = {}
      BY <2>3 DEF Once, TypeOK, WorkerStages, CarriedRows, HeldRow, Busy,
                  Settled
    <3> QED
      BY <3>1, <3>2, <3>3
  <2> HIDE DEF E, M, W
  <2> QED
    BY <2>1, <2>2, <2>3
<1> QED
  BY <1>1, Inductive, PTL

\* The attempts column counts the starts of the handler and stays within
\* MAX_RETRIES, as long as nothing is replayed.
THEOREM AttemptsCountStartsHolds == Spec => []AttemptsCountStarts
<1>1. IInv => AttemptsCountStarts
  BY DEF IInv, Once, Row, AttemptsCountStarts
<1> QED
  BY <1>1, Inductive, PTL

\* A dead task has exactly one audit row and no other task has any, as long as
\* nothing is replayed.
THEOREM DeadIsAuditedOnceHolds == Spec => []DeadIsAuditedOnce
<1>1. IInv => DeadIsAuditedOnce
  BY DEF IInv, Once, Row, DeadIsAuditedOnce
<1> QED
  BY <1>1, Inductive, PTL

\* Done means that the handler returned, dead that the death was audited,
\* under crashes, failed saves, duplicate deliveries and requeues.
THEOREM SettledIsTrueHolds == Spec => []SettledIsTrue
<1>1. IInv => SettledIsTrue
  BY DEF IInv, Always
<1> QED
  BY <1>1, Inductive, PTL

\* Nothing runs for an event whose transaction is open or rolled back, under
\* every fault.
THEOREM OnlyCommittedEventsRunHolds == Spec => []OnlyCommittedEventsRun
<1>1. IInv => OnlyCommittedEventsRun
  BY DEF IInv, Always, Owned, Carriers, Publishing, Busy,
         OnlyCommittedEventsRun
<1> QED
  BY <1>1, Inductive, PTL

------------------------------------------------------------------------------
(* Under every fault: how often a handler may still return.                  *)

\* What may still make the handler of a task return: an emitter about to publish
\* its message, a message, and a worker whose handler has not returned.
Publishers(k) == {e \in Events : Publishing(e) /\ KeyOf[e] = k}
Queued(k) == {m \in queue : m.key = k}
Executing(k) == {w \in Workers : Busy(w) /\ TaskOf(w) = k /\ pc[w] # "succeeded"}

\* Each of them came from the one row, or from a duplicate; and a worker whose
\* handler returned may fail to save that, and handle the task again.
Pending(k) ==
  Cardinality(Publishers(k)) + Cardinality(Queued(k)) + Cardinality(Executing(k))
Allowed(k) ==
  IF status[k] = "absent" THEN 0 ELSE 1 + faults["save"] + faults["duplicate"]
Covered ==
  \A k \in Keys :
    /\ IsFiniteSet(Publishers(k)) /\ IsFiniteSet(Queued(k)) /\ IsFiniteSet(Executing(k))
    /\ completions[k] + Pending(k) <= Allowed(k)

\* By how much a set grows that changes in x at most.
Gain(x, S, T) ==
  IF x \in S THEN IF x \in T THEN 0 ELSE -1
             ELSE IF x \in T THEN 1 ELSE 0

\* Two sets that differ in one element at most.
LEMMA DifferInOne ==
  ASSUME NEW S, NEW T, NEW x, IsFiniteSet(S), T \ {x} = S \ {x}
  PROVE  /\ IsFiniteSet(T) /\ Cardinality(S) \in Nat /\ Cardinality(T) \in Nat
         /\ Cardinality(T) = Cardinality(S) + Gain(x, S, T)
<1> DEFINE R == S \ {x}
<1>1. /\ IsFiniteSet(R) /\ Cardinality(S) \in Nat /\ Cardinality(R) \in Nat
      /\ Cardinality(R) = IF x \in S THEN Cardinality(S) - 1 ELSE Cardinality(S)
  BY FS_RemoveElement, FS_CardinalityType
<1>2. T = IF x \in T THEN R \union {x} ELSE R
  OBVIOUS
<1>3. x \notin R
  OBVIOUS
<1> HIDE DEF R
<1>4. /\ IsFiniteSet(R \union {x})
      /\ Cardinality(R \union {x}) = Cardinality(R) + 1
  BY <1>1, <1>3, FS_AddElement
<1>5. CASE x \in T
  <2>1. T = R \union {x}
    BY <1>2, <1>5
  <2> QED
    BY <1>1, <1>4, <1>5, <2>1 DEF Gain
<1>6. CASE x \notin T
  BY <1>1, <1>2, <1>6 DEF Gain
<1> QED
  BY <1>5, <1>6

\* A step in which each kind of carrier changes in one at most.
LEMMA Recount ==
  ASSUME Covered, NEW k \in Keys, NEW e, NEW m, NEW w,
         Publishers(k)' \ {e} = Publishers(k) \ {e},
         Queued(k)' \ {m} = Queued(k) \ {m},
         Executing(k)' \ {w} = Executing(k) \ {w}
  PROVE  /\ IsFiniteSet(Publishers(k)') /\ IsFiniteSet(Queued(k)')
         /\ IsFiniteSet(Executing(k)')
         /\ Pending(k) \in Nat /\ Pending(k)' \in Nat
         /\ Pending(k)' = Pending(k) + Gain(e, Publishers(k), Publishers(k)')
                            + Gain(m, Queued(k), Queued(k)')
                            + Gain(w, Executing(k), Executing(k)')
<1>1. /\ IsFiniteSet(Publishers(k)) /\ IsFiniteSet(Queued(k))
      /\ IsFiniteSet(Executing(k))
  BY DEF Covered
<1>2. /\ IsFiniteSet(Publishers(k)') /\ Cardinality(Publishers(k)) \in Nat
      /\ Cardinality(Publishers(k)') \in Nat
      /\ Cardinality(Publishers(k)')
           = Cardinality(Publishers(k)) + Gain(e, Publishers(k), Publishers(k)')
  BY <1>1, DifferInOne
<1>3. /\ IsFiniteSet(Queued(k)') /\ Cardinality(Queued(k)) \in Nat
      /\ Cardinality(Queued(k)') \in Nat
      /\ Cardinality(Queued(k)') = Cardinality(Queued(k)) + Gain(m, Queued(k), Queued(k)')
  BY <1>1, DifferInOne
<1>4. /\ IsFiniteSet(Executing(k)') /\ Cardinality(Executing(k)) \in Nat
      /\ Cardinality(Executing(k)') \in Nat
      /\ Cardinality(Executing(k)')
           = Cardinality(Executing(k)) + Gain(w, Executing(k), Executing(k)')
  BY <1>1, DifferInOne
<1> HIDE DEF Gain
<1>5. \A x, S, T : Gain(x, S, T) \in Int
  BY DEF Gain
<1> QED
  BY <1>2, <1>3, <1>4, <1>5 DEF Pending

\* A step that adds no carrier and no return, and does not take back a fault.
LEMMA Fewer ==
  ASSUME Covered, NEW k \in Keys,
         Publishers(k)' \subseteq Publishers(k), Queued(k)' \subseteq Queued(k),
         Executing(k)' \subseteq Executing(k)
  PROVE  /\ IsFiniteSet(Publishers(k)') /\ IsFiniteSet(Queued(k)')
         /\ IsFiniteSet(Executing(k)')
         /\ Pending(k) \in Nat /\ Pending(k)' \in Nat /\ Pending(k)' <= Pending(k)
<1>1. /\ IsFiniteSet(Publishers(k)) /\ IsFiniteSet(Queued(k))
      /\ IsFiniteSet(Executing(k))
  BY DEF Covered
<1>2. /\ IsFiniteSet(Publishers(k)') /\ Cardinality(Publishers(k)) \in Nat
      /\ Cardinality(Publishers(k)') \in Nat
      /\ Cardinality(Publishers(k)') <= Cardinality(Publishers(k))
  BY <1>1, FS_Subset, FS_CardinalityType
<1>3. /\ IsFiniteSet(Queued(k)') /\ Cardinality(Queued(k)) \in Nat
      /\ Cardinality(Queued(k)') \in Nat
      /\ Cardinality(Queued(k)') <= Cardinality(Queued(k))
  BY <1>1, FS_Subset, FS_CardinalityType
<1>4. /\ IsFiniteSet(Executing(k)') /\ Cardinality(Executing(k)) \in Nat
      /\ Cardinality(Executing(k)') \in Nat
      /\ Cardinality(Executing(k)') <= Cardinality(Executing(k))
  BY <1>1, FS_Subset, FS_CardinalityType
<1> QED
  BY <1>2, <1>3, <1>4 DEF Pending

\* Every step keeps the count.
LEMMA CoveredKept ==
  ASSUME TypeOK, Always, Covered, TypeOK', [Next]_vars
  PROVE  Covered'
<1> USE KeyOfAssumption, NoneAssumption
<1> USE DEF emitVars, rowVars, workVars, histVars
<1>t. /\ emitter \in [Events -> EmitterStages]
      /\ status \in [Keys -> Status \cup {"absent"}]
      /\ pc \in [Workers -> WorkerStages]
      /\ job \in [Workers -> Job \cup {None}]
      /\ \A e \in Events : KeyOf[e] \in Keys
      /\ \A m \in queue : m.key \in Keys
      /\ \A w \in Workers : Busy(w) => TaskOf(w) \in Keys
  BY Messages DEF TypeOK
<1>n. /\ \A k \in Keys : completions[k] \in Nat /\ completions'[k] \in Nat
      /\ faults["save"] \in Nat /\ faults'["save"] \in Nat
      /\ faults["duplicate"] \in Nat /\ faults'["duplicate"] \in Nat
      /\ completions \in [Keys -> Nat]
  BY DEF TypeOK, FaultKinds
<1>f. ASSUME NEW f \in FaultKinds, Fault(f)
      PROVE  /\ faults'[f] = faults[f] + 1
             /\ \A g \in FaultKinds \ {f} : faults'[g] = faults[g]
  BY <1>f DEF Fault, TypeOK
<1>s. \A k \in Keys : Allowed(k) \in Nat /\ Allowed(k)' \in Nat
                      /\ completions[k] + Pending(k) <= Allowed(k)
  BY <1>n DEF Allowed, Covered
\* Nothing is added.
<1> DEFINE Still == /\ \A k \in Keys :
                         /\ Publishers(k)' \subseteq Publishers(k)
                         /\ Queued(k)' \subseteq Queued(k)
                         /\ Executing(k)' \subseteq Executing(k)
                         /\ completions'[k] = completions[k]
                         /\ status[k] # "absent" => status'[k] # "absent"
                    /\ faults["save"] <= faults'["save"]
                    /\ faults["duplicate"] <= faults'["duplicate"]
<1>h. ASSUME Still PROVE Covered'
  <2> SUFFICES ASSUME NEW k \in Keys
               PROVE  /\ IsFiniteSet(Publishers(k)') /\ IsFiniteSet(Queued(k)')
                      /\ IsFiniteSet(Executing(k)')
                      /\ completions'[k] + Pending(k)' <= Allowed(k)'
    BY DEF Covered
  <2>1. Allowed(k) <= Allowed(k)'
    BY <1>h, <1>n DEF Allowed
  <2>2. /\ IsFiniteSet(Publishers(k)') /\ IsFiniteSet(Queued(k)')
        /\ IsFiniteSet(Executing(k)')
        /\ Pending(k) \in Nat /\ Pending(k)' \in Nat /\ Pending(k)' <= Pending(k)
    BY <1>h, Fewer
  <2>3. completions'[k] = completions[k]
    BY <1>h
  <2> QED
    BY <1>n, <1>s, <2>1, <2>2, <2>3
\* One carrier is added, or a return, for one that goes or one more that is allowed.
<1>b. ASSUME NEW k \in Keys, NEW e, NEW m, NEW w,
             Publishers(k)' \ {e} = Publishers(k) \ {e},
             Queued(k)' \ {m} = Queued(k) \ {m},
             Executing(k)' \ {w} = Executing(k) \ {w},
             completions'[k] + Gain(e, Publishers(k), Publishers(k)')
                             + Gain(m, Queued(k), Queued(k)')
                             + Gain(w, Executing(k), Executing(k)')
               <= completions[k] + Allowed(k)' - Allowed(k)
      PROVE  /\ IsFiniteSet(Publishers(k)') /\ IsFiniteSet(Queued(k)')
             /\ IsFiniteSet(Executing(k)')
             /\ completions'[k] + Pending(k)' <= Allowed(k)'
  <2>1. /\ IsFiniteSet(Publishers(k)') /\ IsFiniteSet(Queued(k)')
        /\ IsFiniteSet(Executing(k)')
        /\ Pending(k) \in Nat /\ Pending(k)' \in Nat
        /\ Pending(k)' = Pending(k) + Gain(e, Publishers(k), Publishers(k)')
                           + Gain(m, Queued(k), Queued(k)')
                           + Gain(w, Executing(k), Executing(k)')
    BY <1>b, Recount
  <2>2. \A x, S, T : Gain(x, S, T) \in Int
    BY DEF Gain
  <2> QED
    BY <1>b, <1>n, <1>s, <2>1, <2>2
<1> DEFINE Good(k) == /\ IsFiniteSet(Publishers(k)') /\ IsFiniteSet(Queued(k)')
                      /\ IsFiniteSet(Executing(k)')
                      /\ completions'[k] + Pending(k)' <= Allowed(k)'
<1>g. (\A k \in Keys : Good(k)) => Covered'
  BY DEF Covered
<1> HIDE DEF Good
<1> USE DEF Publishers, Queued, Executing, Publishing, Busy, TaskOf
<1>1. ASSUME NEW e \in Events, Emit(e) PROVE Covered'
  <2>1. Still
    BY <1>1, <1>t, <1>n DEF Emit
  <2> QED
    BY <2>1, <1>h
<1>2. ASSUME NEW e \in Events, Rollback(e) PROVE Covered'
  <2>1. Still
    BY <1>2, <1>t, <1>n DEF Rollback
  <2> QED
    BY <2>1, <1>h
<1>3. ASSUME NEW e \in Events, Commit(e) PROVE Covered'
  <2>1. Still
    BY <1>3, <1>t, <1>n DEF Commit
  <2> QED
    BY <2>1, <1>h
<1>6. ASSUME NEW e \in Events, EmitterCrash(e) PROVE Covered'
  <2>1. Still
    BY <1>6, <1>t, <1>n, <1>f DEF EmitterCrash, FaultKinds
  <2> QED
    BY <2>1, <1>h
<1>9. ASSUME NEW w \in Workers, MarkRunning(w) PROVE Covered'
  <2>1. Still
    BY <1>9, <1>t, <1>n DEF MarkRunning
  <2> QED
    BY <2>1, <1>h
<1>11. ASSUME NEW w \in Workers, HandlerRaises(w) PROVE Covered'
  <2>1. Still
    BY <1>11, <1>t, <1>n DEF HandlerRaises
  <2> QED
    BY <2>1, <1>h
<1>12. ASSUME NEW w \in Workers, MarkDone(w) PROVE Covered'
  <2>1. Still
    BY <1>12, <1>t, <1>n DEF MarkDone, MarksDone, Finish
  <2> QED
    BY <2>1, <1>h
<1>13. ASSUME NEW w \in Workers, MarkDead(w) PROVE Covered'
  <2>1. Still
    BY <1>13, <1>t, <1>n DEF MarkDead, Finish
  <2> QED
    BY <2>1, <1>h
<1>14. ASSUME NEW w \in Workers, MarkFailed(w) PROVE Covered'
  <2>1. Still
    BY <1>14, <1>t, <1>n DEF MarkFailed
  <2> QED
    BY <2>1, <1>h
<1>17. ASSUME NEW w \in Workers, WorkerCrash(w) PROVE Covered'
  <2>1. Still
    BY <1>17, <1>t, <1>n, <1>f DEF WorkerCrash, Finish, FaultKinds
  <2> QED
    BY <2>1, <1>h
<1>18. ASSUME NEW k \in Keys, Requeue(k) PROVE Covered'
  <2>1. Still
    BY <1>18, <1>t, <1>n, <1>f DEF Requeue, Decisions, FaultKinds
  <2> QED
    BY <2>1, <1>h
<1>19. CASE UNCHANGED vars
  <2>1. Still
    BY <1>19, <1>t, <1>n DEF vars
  <2> QED
    BY <2>1, <1>h
\* get_or_create: the row and its first carrier.
<1>4. ASSUME NEW e \in Events, GetOrCreate(e) PROVE Covered'
  <2>1. CASE ~Creates(KeyOf[e])
    <3>1. Still
      BY <1>4, <2>1, <1>t, <1>n DEF GetOrCreate, CallbackRuns
    <3> QED
      BY <3>1, <1>h
  <2>2. CASE Creates(KeyOf[e])
    <3> SUFFICES ASSUME NEW k \in Keys PROVE Good(k)
      BY <1>g
    <3>1. /\ UNCHANGED <<queue, pc, job, completions, faults>>
          /\ emitter' = [emitter EXCEPT ![e] = "created"]
          /\ status' = [status EXCEPT ![KeyOf[e]] = "pending"]
          /\ status[KeyOf[e]] = "absent"
      BY <1>4, <2>2 DEF GetOrCreate, Creates
    <3>2. /\ Publishers(k)' \ {e} = Publishers(k) \ {e}
          /\ Queued(k)' = Queued(k) /\ Executing(k)' = Executing(k)
      BY <3>1, <1>t
    <3>3. /\ Gain(e, Publishers(k), Publishers(k)') <= Allowed(k)' - Allowed(k)
          /\ Gain(e, Publishers(k), Publishers(k)') \in Int
      BY <3>1, <1>t, <1>n DEF Gain, Allowed
    <3>4. /\ Gain(e, Queued(k), Queued(k)') = 0
          /\ Gain(e, Executing(k), Executing(k)') = 0
      BY <3>2 DEF Gain
    <3>5. completions'[k] = completions[k]
      BY <3>1
    <3> HIDE DEF Publishers, Queued, Executing
    <3> QED
      BY <3>2, <3>3, <3>4, <3>5, <1>b, <1>n, <1>s DEF Good
  <2> QED
    BY <2>1, <2>2
\* delay: a message for the emitter.
<1>5. ASSUME NEW e \in Events, Delay(e) PROVE Covered'
  <2> SUFFICES ASSUME NEW k \in Keys PROVE Good(k)
    BY <1>g
  <2> DEFINE n == [key |-> KeyOf[e], retries |-> 0, copy |-> 0]
  <2>1. /\ UNCHANGED <<status, pc, job, completions, faults>>
        /\ emitter[e] = "created"
        /\ emitter' = [emitter EXCEPT ![e] = "returned"]
        /\ queue' = queue \cup {n}
    BY <1>5 DEF Delay
  <2>2. /\ Publishers(k)' \ {e} = Publishers(k) \ {e}
        /\ Queued(k)' \ {n} = Queued(k) \ {n} /\ Executing(k)' = Executing(k)
    BY <2>1, <1>t
  <2>3. /\ Gain(e, Publishers(k), Publishers(k)') = IF k = KeyOf[e] THEN -1 ELSE 0
        /\ Gain(e, Executing(k), Executing(k)') = 0
    BY <2>1, <2>2, <1>t DEF Gain
  <2>4. Gain(n, Queued(k), Queued(k)') \in (IF k = KeyOf[e] THEN {0, 1} ELSE {0})
    BY <2>1 DEF Gain
  <2>5. completions'[k] = completions[k] /\ Allowed(k)' = Allowed(k)
    BY <2>1 DEF Allowed
  <2> HIDE DEF Publishers, Queued, Executing, n
  <2> QED
    BY <2>2, <2>3, <2>4, <2>5, <1>b, <1>n, <1>s DEF Good
\* A duplicate: one more message, one more return allowed.
<1>7. ASSUME NEW m \in queue, Redeliver(m) PROVE Covered'
  <2> SUFFICES ASSUME NEW k \in Keys PROVE Good(k)
    BY <1>g
  <2> DEFINE n == [key |-> m.key, retries |-> m.retries,
                   copy |-> faults["duplicate"] + 1]
  <2>1. /\ UNCHANGED <<status, emitter, pc, job, completions>>
        /\ queue' = queue \cup {n}
        /\ faults'["save"] = faults["save"]
        /\ faults'["duplicate"] = faults["duplicate"] + 1
    BY <1>7, <1>f DEF Redeliver, FaultKinds
  <2>2. /\ Publishers(k)' = Publishers(k)
        /\ Queued(k)' \ {n} = Queued(k) \ {n} /\ Executing(k)' = Executing(k)
    BY <2>1, <1>t
  <2>3. /\ Gain(n, Publishers(k), Publishers(k)') = 0
        /\ Gain(n, Executing(k), Executing(k)') = 0
    BY <2>2 DEF Gain
  <2>4. Gain(n, Queued(k), Queued(k)') \in (IF k = m.key THEN {0, 1} ELSE {0})
    BY <2>1 DEF Gain
  <2>5. /\ completions'[k] = completions[k]
        /\ Allowed(k)' >= Allowed(k)
        /\ k = m.key => Allowed(k)' = Allowed(k) + 1
    BY <2>1, <1>n DEF Allowed, Always
  <2> HIDE DEF Publishers, Queued, Executing, n
  <2> QED
    BY <2>2, <2>3, <2>4, <2>5, <1>b, <1>n, <1>s DEF Good
\* A worker for the message it takes.
<1>8. ASSUME NEW w \in Workers, NEW m \in queue, Dequeue(w, m) PROVE Covered'
  <2> SUFFICES ASSUME NEW k \in Keys PROVE Good(k)
    BY <1>g
  <2>1. UNCHANGED <<status, emitter, completions, faults>> /\ queue' = queue \ {m}
    BY <1>8 DEF Dequeue
  <2>2. /\ pc[w] = "idle"
        /\ \/ UNCHANGED <<pc, job>>
           \/ /\ pc' = [pc EXCEPT ![w] = "loaded"]
              /\ job' = [job EXCEPT ![w] = [msg |-> m, attempts |-> attempts[m.key]]]
    BY <1>8 DEF Dequeue
  <2>3. /\ Publishers(k)' = Publishers(k)
        /\ Queued(k)' \ {m} = Queued(k) \ {m}
        /\ Executing(k)' \ {w} = Executing(k) \ {w}
    BY <2>1, <2>2, <1>t
  <2>4. Gain(w, Publishers(k), Publishers(k)') = 0
    BY <2>3 DEF Gain
  <2>5. Gain(m, Queued(k), Queued(k)') = IF k = m.key THEN -1 ELSE 0
    BY <2>1 DEF Gain
  <2>6. Gain(w, Executing(k), Executing(k)') \in (IF k = m.key THEN {0, 1} ELSE {0})
    BY <2>2, <1>t DEF Gain
  <2>7. completions'[k] = completions[k] /\ Allowed(k)' = Allowed(k)
    BY <2>1 DEF Allowed
  <2> HIDE DEF Publishers, Queued, Executing
  <2> QED
    BY <2>3, <2>4, <2>5, <2>6, <2>7, <1>b, <1>n, <1>s DEF Good
\* A return for a worker whose handler has not returned.
<1>10. ASSUME NEW w \in Workers, HandlerReturns(w) PROVE Covered'
  <2> SUFFICES ASSUME NEW k \in Keys PROVE Good(k)
    BY <1>g
  <2>1. /\ UNCHANGED <<status, emitter, queue, job, faults>> /\ pc[w] = "running"
        /\ pc' = [pc EXCEPT ![w] = "succeeded"]
        /\ completions' = [completions EXCEPT ![TaskOf(w)] = @ + 1]
    BY <1>10 DEF HandlerReturns
  <2>2. /\ Publishers(k)' = Publishers(k) /\ Queued(k)' = Queued(k)
        /\ Executing(k)' \ {w} = Executing(k) \ {w}
    BY <2>1, <1>t
  <2>3. Gain(w, Publishers(k), Publishers(k)') = 0 /\ Gain(w, Queued(k), Queued(k)') = 0
    BY <2>2 DEF Gain
  <2>4. Gain(w, Executing(k), Executing(k)') = IF k = TaskOf(w) THEN -1 ELSE 0
    BY <2>1, <1>t DEF Gain
  <2>5. completions'[k] = IF k = TaskOf(w) THEN completions[k] + 1 ELSE completions[k]
    BY <2>1, <1>n
  <2>6. Allowed(k)' = Allowed(k)
    BY <2>1 DEF Allowed
  <2> HIDE DEF Publishers, Queued, Executing, TaskOf
  <2> QED
    BY <2>2, <2>3, <2>4, <2>5, <2>6, <1>b, <1>n, <1>s DEF Good
\* The next message for the worker that failed.
<1>15. ASSUME NEW w \in Workers, Retry(w) PROVE Covered'
  <2> SUFFICES ASSUME NEW k \in Keys PROVE Good(k)
    BY <1>g
  <2> DEFINE n == [key |-> job[w].msg.key, retries |-> job[w].msg.retries + 1,
                   copy |-> job[w].msg.copy]
  <2>1. /\ UNCHANGED <<status, emitter, completions, faults>> /\ pc[w] = "retrying"
        /\ pc' = [pc EXCEPT ![w] = "idle"] /\ job' = [job EXCEPT ![w] = None]
        /\ queue' = queue \/ queue' = queue \cup {n}
    BY <1>15 DEF Retry, Finish
  <2>2. /\ Publishers(k)' = Publishers(k)
        /\ Queued(k)' \ {n} = Queued(k) \ {n}
        /\ Executing(k)' \ {w} = Executing(k) \ {w}
    BY <2>1, <1>t
  <2>3. Gain(w, Publishers(k), Publishers(k)') = 0
    BY <2>2 DEF Gain
  <2>4. Gain(n, Queued(k), Queued(k)') \in (IF k = TaskOf(w) THEN {0, 1} ELSE {0})
    BY <2>1 DEF Gain
  <2>5. Gain(w, Executing(k), Executing(k)') = IF k = TaskOf(w) THEN -1 ELSE 0
    BY <2>1, <1>t DEF Gain
  <2>6. completions'[k] = completions[k] /\ Allowed(k)' = Allowed(k)
    BY <2>1 DEF Allowed
  <2> HIDE DEF Publishers, Queued, Executing, TaskOf, n
  <2> QED
    BY <2>2, <2>3, <2>4, <2>5, <2>6, <1>b, <1>n, <1>s DEF Good
\* A failed save of "done": the handler is taken to have failed.
<1>16. ASSUME NEW w \in Workers, SaveFails(w) PROVE Covered'
  <2>1. /\ UNCHANGED <<status, emitter, queue, completions>>
        /\ faults'["duplicate"] = faults["duplicate"]
        /\ faults'["save"] = faults["save"] + 1
    BY <1>16, <1>f DEF SaveFails, FaultKinds
  <2>2. CASE /\ pc[w] = "succeeded" /\ pc' = [pc EXCEPT ![w] = "raised"]
             /\ UNCHANGED job
    <3> SUFFICES ASSUME NEW k \in Keys PROVE Good(k)
      BY <1>g
    <3>1. /\ Publishers(k)' = Publishers(k) /\ Queued(k)' = Queued(k)
          /\ Executing(k)' \ {w} = Executing(k) \ {w}
      BY <2>1, <2>2, <1>t
    <3>2. /\ Gain(w, Publishers(k), Publishers(k)') = 0
          /\ Gain(w, Queued(k), Queued(k)') = 0
      BY <3>1 DEF Gain
    <3>3. Gain(w, Executing(k), Executing(k)') = IF k = TaskOf(w) THEN 1 ELSE 0
      BY <2>2, <1>t DEF Gain
    <3>4. status[TaskOf(w)] # "absent"
      BY <2>2 DEF Always
    <3>5. /\ completions'[k] = completions[k] /\ Allowed(k)' >= Allowed(k)
          /\ k = TaskOf(w) => Allowed(k)' = Allowed(k) + 1
      BY <2>1, <3>4, <1>n DEF Allowed
    <3> HIDE DEF Publishers, Queued, Executing, TaskOf
    <3> QED
      BY <3>1, <3>2, <3>3, <3>5, <1>b, <1>n, <1>s DEF Good
  <2>3. CASE Finish(w)
    <3>1. Still
      BY <2>1, <2>3, <1>t, <1>n DEF Finish
    <3> QED
      BY <3>1, <1>h
  <2> QED
    BY <1>16, <2>2, <2>3 DEF SaveFails
<1> QED
  BY <1>1, <1>2, <1>3, <1>4, <1>5, <1>6, <1>7, <1>8, <1>9, <1>10, <1>11,
     <1>12, <1>13, <1>14, <1>15, <1>16, <1>17, <1>18, <1>19
     DEF Next, EmitterStep, WorkerStep

\* The handler returns normally once, plus once for every failed save and every
\* message delivered twice, whatever dies or is requeued: each return uses up
\* a carrier, and carriers come from the row's creation, from duplicates and from
\* failed saves only.
THEOREM CompletesOnceHolds == Spec => []CompletesOnce
<1>1. Init => Covered
  <2> SUFFICES ASSUME Init, NEW k \in Keys
               PROVE  /\ Publishers(k) = {} /\ Queued(k) = {} /\ Executing(k) = {}
                      /\ completions[k] = 0 /\ Allowed(k) = 0
    BY FS_EmptySet DEF Covered, Pending
  <2> QED
    BY DEF Init, Publishers, Queued, Executing, Publishing, Busy, Allowed
<1>2. IInv /\ IInv' /\ Covered /\ [Next]_vars => Covered'
  BY CoveredKept DEF IInv
<1>3. IInv /\ Covered => CompletesOnce
  <2> SUFFICES ASSUME IInv, Covered, NEW k \in Keys
               PROVE  completions[k] <= 1 + faults["save"] + faults["duplicate"]
    BY DEF CompletesOnce
  <2>1. /\ completions[k] \in Nat /\ faults["save"] \in Nat
        /\ faults["duplicate"] \in Nat
    BY DEF IInv, TypeOK, FaultKinds
  <2>2. /\ Cardinality(Publishers(k)) \in Nat /\ Cardinality(Queued(k)) \in Nat
        /\ Cardinality(Executing(k)) \in Nat
    BY FS_CardinalityType DEF Covered
  <2>3. completions[k] + Pending(k) <= Allowed(k)
    BY DEF Covered
  <2>4. Pending(k) \in Nat
    BY <2>2 DEF Pending
  <2> QED
    BY <2>1, <2>3, <2>4 DEF Allowed
<1> QED
  BY <1>1, <1>2, <1>3, Inductive, PTL DEF Spec

------------------------------------------------------------------------------
(* The life cycle.                                                           *)

\* Every step of the engine is a step of the README's life cycle of one task,
\* or leaves status, attempts and audit rows alone; after a replay, the row
\* keeps what Overrun still promises.
THEOREM Refinement == Spec => FollowsLifecycle
<1> USE KeyOfAssumption, MaxRetriesAssumption, MaxFaultsAssumption
<1>1. Init => Lifecycle!LifeInit
  BY DEF Init, Lifecycle!LifeInit, Unreplayed, FaultKinds
<1>2. IInv /\ IInv' /\ [Next]_vars
        => [Lifecycle!LifeNext]_(Lifecycle!lifeVars)
  <2> SUFFICES ASSUME IInv, IInv', [Next]_vars
               PROVE  Lifecycle!LifeNext \/ UNCHANGED Lifecycle!lifeVars
    OBVIOUS
  <2> USE DEF emitVars, rowVars, workVars, histVars, Lifecycle!lifeVars
  <2>1. /\ status \in [Keys -> Status \cup {"absent"}]
        /\ attempts \in [Keys -> Nat] /\ audits \in [Keys -> Nat]
        /\ faults \in [FaultKinds -> Nat]
        /\ \A e \in Events : KeyOf[e] \in Keys
    BY DEF IInv, TypeOK
  <2>2. \A w \in Workers : Busy(w) =>
          /\ TaskOf(w) \in Keys
          /\ job[w].attempts \in Nat
          /\ status[TaskOf(w)] # "absent"
          /\ Unreplayed => HeldRow(w)
    BY Messages DEF IInv, Always, Once, CarriedRows
  <2>3. ASSUME NEW f \in {"emitter", "worker", "save"}, Fault(f)
        PROVE  Unreplayed' = Unreplayed
    BY <2>1, <2>3 DEF Fault, Unreplayed, FaultKinds
  <2>4. ASSUME UNCHANGED faults PROVE Unreplayed' = Unreplayed
    BY <2>4 DEF Unreplayed
  <2>5. ASSUME NEW e \in Events, GetOrCreate(e)
        PROVE  Lifecycle!LifeNext \/ UNCHANGED Lifecycle!lifeVars
    BY <2>1, <2>4, <2>5 DEF GetOrCreate, Creates, Lifecycle!LifeNext,
                            Lifecycle!Create
  <2>6. ASSUME NEW w \in Workers, MarkRunning(w)
        PROVE  Lifecycle!Start(TaskOf(w)) \/ Lifecycle!Overrun(TaskOf(w))
    <3>1. CASE Unreplayed
      BY <2>1, <2>2, <2>4, <2>6, <3>1
         DEF MarkRunning, NextAttempt, Busy, HeldRow, Lifecycle!Start
    <3>2. CASE ~Unreplayed
      <4> DEFINE k == TaskOf(w)
                 n == NextAttempt(w)
      <4>1. /\ k \in Keys /\ status[k] # "absent"
            /\ status' = [status EXCEPT ![k] = "running"]
            /\ attempts' = [attempts EXCEPT ![k] = n]
            /\ UNCHANGED audits /\ UNCHANGED faults
        BY <2>2, <2>6 DEF MarkRunning, Busy
      <4> HIDE DEF k, n
      <4>2. attempts'[k] = n
        BY <2>1, <4>1
      <4>3. attempts' = [attempts EXCEPT ![k] = attempts'[k]]
        BY <4>1, <4>2
      <4>4. Lifecycle!Overrun(k)
        BY <2>4, <3>2, <4>1, <4>3 DEF Lifecycle!Overrun
      <4> QED
        BY <4>4 DEF k
    <3> QED
      BY <3>1, <3>2
  <2>7. ASSUME NEW w \in Workers, MarkDone(w)
        PROVE  Lifecycle!Succeed(TaskOf(w)) \/ Lifecycle!Overrun(TaskOf(w))
    BY <2>1, <2>2, <2>4, <2>7
       DEF MarkDone, MarksDone, Busy, HeldRow, Lifecycle!Succeed,
           Lifecycle!Overrun
  <2>8. ASSUME NEW w \in Workers, MarkDead(w)
        PROVE  Lifecycle!Die(TaskOf(w)) \/ Lifecycle!Overrun(TaskOf(w))
    BY <2>1, <2>2, <2>4, <2>8
       DEF MarkDead, AuditLogged, Busy, HeldRow, Lifecycle!Die,
           Lifecycle!Overrun
  <2>9. ASSUME NEW w \in Workers, MarkFailed(w)
        PROVE  Lifecycle!Fail(TaskOf(w)) \/ Lifecycle!Overrun(TaskOf(w))
    BY <2>1, <2>2, <2>4, <2>9
       DEF MarkFailed, Exhausted, Busy, HeldRow, Lifecycle!Fail,
           Lifecycle!Overrun
  <2>10. ASSUME NEW w \in Workers,
                MarkRunning(w) \/ MarkDone(w) \/ MarkDead(w) \/ MarkFailed(w)
         PROVE  Lifecycle!LifeNext
    <3>1. TaskOf(w) \in Keys
      BY <2>2, <2>10 DEF MarkRunning, MarkDone, MarksDone, MarkDead,
                         MarkFailed, Busy
    <3> QED
      BY <2>6, <2>7, <2>8, <2>9, <2>10, <3>1 DEF Lifecycle!LifeNext
  <2>11. ASSUME NEW e \in Events,
                Emit(e) \/ Rollback(e) \/ Commit(e) \/ Delay(e)
                  \/ EmitterCrash(e)
         PROVE  UNCHANGED Lifecycle!lifeVars
    BY <2>3, <2>4, <2>11 DEF Emit, Rollback, Commit, Delay, EmitterCrash
  <2>12. ASSUME NEW w \in Workers, NEW m \in queue, Dequeue(w, m)
         PROVE  UNCHANGED Lifecycle!lifeVars
    BY <2>4, <2>12 DEF Dequeue
  <2>13. ASSUME NEW w \in Workers,
                HandlerReturns(w) \/ HandlerRaises(w) \/ Retry(w)
                  \/ SaveFails(w) \/ WorkerCrash(w)
         PROVE  UNCHANGED Lifecycle!lifeVars
    BY <2>3, <2>4, <2>13 DEF HandlerReturns, HandlerRaises, Retry, SaveFails,
                             WorkerCrash
  <2>14. ASSUME NEW m \in queue, Redeliver(m)
         PROVE  Lifecycle!Redelivered
    BY <2>1, <2>14 DEF Redeliver, Fault, FaultKinds, Unreplayed,
                       Lifecycle!Redelivered
  <2>15. ASSUME NEW k \in Keys, Requeue(k) PROVE Lifecycle!Requeued(k)
    <3>1. (~Unreplayed)' /\ UNCHANGED <<attempts, audits>>
      BY <2>1, <2>15 DEF Requeue, Fault, FaultKinds, Unreplayed, rowVars
    <3>2. /\ status[k] = "dead"
          /\ \E decision \in {"pending", "cancelled"} :
               status' = [status EXCEPT ![k] = decision]
      BY <2>15 DEF Requeue, Decisions
    <3> QED
      BY <3>1, <3>2, Zenon DEF Lifecycle!Requeued
  <2>16. CASE UNCHANGED vars
    BY <2>4, <2>16 DEF vars
  <2> QED
    BY <2>5, <2>10, <2>11, <2>12, <2>13, <2>14, <2>15, <2>16
       DEF Next, EmitterStep, WorkerStep, Lifecycle!LifeNext
<1> QED
  BY <1>1, <1>2, Inductive, PTL DEF Spec, FollowsLifecycle, Lifecycle!LifeSpec
==============================================================================
