----------------------------- MODULE TaskEngine ------------------------------
(***************************************************************************)
(* The workflow engine of src/workflows: emit_event and its on_commit       *)
(* callback enqueue_task, the TaskRecord rows, the Celery messages that     *)
(* carry run_handler, and the worker processes that execute it.             *)
(*                                                                         *)
(* A worker works on a copy of the row it read (the Python object `tr`) and *)
(* writes absolute values back, so the read, every save and the publication *)
(* of the retry are separate steps.  The broker and the Celery machinery    *)
(* are external: a message is acknowledged when a worker takes it           *)
(* (task_acks_late is not set), and a message may be delivered twice.       *)
(***************************************************************************)
EXTENDS Integers

CONSTANTS
  Events,       \* the events the application may emit
  Keys,         \* idempotency keys
  KeyOf,        \* the key make_idempotency_key builds for an event's task
  Workers,      \* Celery worker processes
  MaxRetries,   \* MAX_RETRIES of workflows/tasks.py
  MaxFaults,    \* how often each kind of fault may happen
  None          \* no event, no job

FaultKinds == {"emitter", "worker", "save", "duplicate", "requeue"}

ASSUME KeyOfAssumption == KeyOf \in [Events -> Keys]
ASSUME MaxRetriesAssumption == MaxRetries \in Nat \ {0}
ASSUME MaxFaultsAssumption == MaxFaults \in [FaultKinds -> Nat]

VARIABLES
  emitter,      \* where the process that emits each event stands
  status,       \* TaskRecord.status, "absent" when there is no row
  attempts,     \* TaskRecord.attempts
  audits,       \* number of audit rows "workflow.task.dead" of a task
  owner,        \* TaskRecord.event
  queue,        \* messages of the broker that call run_handler
  pc, job,      \* where each worker stands, and the message and row it holds
  starts,       \* history: handler starts of a task
  completions,  \* history: normal returns of a task's handler
  faults        \* history: faults so far

emitVars == <<emitter, owner>>
rowVars == <<status, attempts, audits>>
workVars == <<pc, job>>
histVars == <<starts, completions>>
vars == <<emitVars, rowVars, queue, workVars, histVars, faults>>

\* TaskRecord.Status, and the status an operator sets by hand.
Status == {"pending", "running", "done", "failed", "dead", "cancelled"}
Settled == {"done", "dead"}
EmitterStages ==
  {"idle", "open", "committed", "created", "returned", "aborted", "crashed"}
WorkerStages ==
  {"idle", "loaded", "running", "succeeded", "permanent", "raised", "retrying"}
Message == [key : Keys, retries : 0..MaxRetries,
            copy : 0..MaxFaults["duplicate"]]
Job == [msg : Message, attempts : Nat]

ASSUME NoneAssumption == None \notin Events /\ None \notin Job

Fault(kind) ==
  /\ faults[kind] < MaxFaults[kind]
  /\ faults' = [faults EXCEPT ![kind] = @ + 1]

------------------------------------------------------------------------------
(* Emitting an event: a request or a task inside transaction.atomic().       *)

\* The message published at once instead of from the callback.
EmitAndDelay(e) ==
  /\ emitter[e] = "idle"
  /\ emitter' = [emitter EXCEPT ![e] = "open"]
  /\ queue' = queue \cup {[key |-> KeyOf[e], retries |-> 0, copy |-> 0]}
  /\ UNCHANGED <<owner, rowVars, workVars, histVars, faults>>

Emit(e) ==
  /\ emitter[e] = "idle"
  /\ emitter' = [emitter EXCEPT ![e] = "open"]
  /\ UNCHANGED <<owner, rowVars, queue, workVars, histVars, faults>>

Rollback(e) ==
  /\ emitter[e] = "open"
  /\ emitter' = [emitter EXCEPT ![e] = "aborted"]
  /\ UNCHANGED <<owner, rowVars, queue, workVars, histVars, faults>>

\* The Event row becomes durable; the on_commit callback has still to run.
Commit(e) ==
  /\ emitter[e] = "open"
  /\ emitter' = [emitter EXCEPT ![e] = "committed"]
  /\ UNCHANGED <<owner, rowVars, queue, workVars, histVars, faults>>

\* transaction.on_commit: the callback runs after the commit, never before.
CallbackRuns(e) == emitter[e] = "committed"

\* get_or_create: the unique key admits one row.
AlwaysCreates(k) == TRUE
Creates(k) == status[k] = "absent"

\* enqueue_task: only the process that created the row goes on.
GetOrCreate(e) ==
  LET k == KeyOf[e] IN
  /\ CallbackRuns(e)
  /\ \/ /\ Creates(k)
        /\ status' = [status EXCEPT ![k] = "pending"]
        /\ owner' = [owner EXCEPT ![k] = e]
        /\ emitter' = [emitter EXCEPT ![e] = "created"]
     \/ /\ ~Creates(k)
        /\ emitter' = [emitter EXCEPT ![e] = "returned"]
        /\ UNCHANGED <<status, owner>>
  /\ UNCHANGED <<attempts, audits, queue, workVars, histVars, faults>>

\* enqueue_task: run_handler.delay(tr.id), the broker gets the first message.
Delay(e) ==
  /\ emitter[e] = "created"
  /\ queue' = queue \cup {[key |-> KeyOf[e], retries |-> 0, copy |-> 0]}
  /\ emitter' = [emitter EXCEPT ![e] = "returned"]
  /\ UNCHANGED <<owner, rowVars, workVars, histVars, faults>>

\* The process dies, or the broker refuses the message, after the commit.
EmitterCrash(e) ==
  /\ emitter[e] \in {"committed", "created"}
  /\ emitter' = [emitter EXCEPT ![e] = "crashed"]
  /\ Fault("emitter")
  /\ UNCHANGED <<owner, rowVars, queue, workVars, histVars>>

EmitterStep(e) == GetOrCreate(e) \/ Delay(e)

------------------------------------------------------------------------------
(* The broker.                                                               *)

Redeliver(m) ==
  /\ Fault("duplicate")
  /\ queue' = queue \cup {[key |-> m.key, retries |-> m.retries,
                           copy |-> faults["duplicate"] + 1]}
  /\ UNCHANGED <<emitVars, rowVars, workVars, histVars>>

------------------------------------------------------------------------------
(* run_handler in a worker process.                                          *)

TaskOf(w) == job[w].msg.key

\* The worker's process is free again; what it held is forgotten.
Finish(w) ==
  /\ pc' = [pc EXCEPT ![w] = "idle"]
  /\ job' = [job EXCEPT ![w] = None]

\* A worker takes a message and reads the row; a done task needs no work.
AlreadyDone(k) == status[k] = "done"

Dequeue(w, m) ==
  /\ pc[w] = "idle"
  /\ queue' = queue \ {m}
  /\ IF AlreadyDone(m.key)
     THEN UNCHANGED workVars
     ELSE /\ pc' = [pc EXCEPT ![w] = "loaded"]
          /\ job' = [job EXCEPT ![w] = [msg |-> m,
                                        attempts |-> attempts[m.key]]]
  /\ UNCHANGED <<emitVars, rowVars, histVars, faults>>

\* services.mark_running: the attempts of the copy plus one, not of the row.
SameAttempt(w) == job[w].attempts
NextAttempt(w) == job[w].attempts + 1

MarkRunning(w) ==
  LET k == TaskOf(w)
      n == NextAttempt(w) IN
  /\ pc[w] = "loaded"
  /\ status' = [status EXCEPT ![k] = "running"]
  /\ attempts' = [attempts EXCEPT ![k] = n]
  /\ job' = [job EXCEPT ![w] = [msg |-> job[w].msg, attempts |-> n]]
  /\ pc' = [pc EXCEPT ![w] = "running"]
  /\ starts' = [starts EXCEPT ![k] = @ + 1]
  /\ UNCHANGED <<emitVars, audits, queue, completions, faults>>

HandlerReturns(w) ==
  /\ pc[w] = "running"
  /\ pc' = [pc EXCEPT ![w] = "succeeded"]
  /\ completions' = [completions EXCEPT ![TaskOf(w)] = @ + 1]
  /\ UNCHANGED <<emitVars, rowVars, queue, job, starts, faults>>

\* PermanentError, or any other exception (HandlerNotFound among them).
HandlerRaises(w) ==
  /\ pc[w] = "running"
  /\ \E outcome \in {"permanent", "raised"} :
       pc' = [pc EXCEPT ![w] = outcome]
  /\ UNCHANGED <<emitVars, rowVars, queue, job, histVars, faults>>

MarksDoneAnyway(w) == pc[w] \in {"succeeded", "permanent"}
MarksDone(w) == pc[w] = "succeeded"

MarkDone(w) ==
  /\ MarksDone(w)
  /\ status' = [status EXCEPT ![TaskOf(w)] = "done"]
  /\ Finish(w)
  /\ UNCHANGED <<emitVars, attempts, audits, queue, histVars, faults>>

\* tr.attempts >= MAX_RETRIES ends the retries of an ordinary failure.
ExhaustedLate(w) == job[w].attempts > MaxRetries
Exhausted(w) == job[w].attempts >= MaxRetries

AuditLost(k) == audits[k]
AuditLogged(k) == audits[k] + 1

\* services.mark_dead: status and audit row in one transaction.
MarkDead(w) ==
  LET k == TaskOf(w) IN
  /\ pc[w] = "permanent" \/ (pc[w] = "raised" /\ Exhausted(w))
  /\ status' = [status EXCEPT ![k] = "dead"]
  /\ audits' = [audits EXCEPT ![k] = AuditLogged(k)]
  /\ Finish(w)
  /\ UNCHANGED <<emitVars, attempts, queue, histVars, faults>>

MarkFailed(w) ==
  /\ pc[w] = "raised"
  /\ ~Exhausted(w)
  /\ status' = [status EXCEPT ![TaskOf(w)] = "failed"]
  /\ pc' = [pc EXCEPT ![w] = "retrying"]
  /\ UNCHANGED <<emitVars, attempts, audits, queue, job, histVars, faults>>

\* self.retry: Celery publishes the next message unless its own count of
\* retries is used up, in which case the exception just leaves the task.
RetriesOnce(m) == m.retries < 1
CeleryRetries(m) == m.retries < MaxRetries

Retry(w) ==
  LET m == job[w].msg IN
  /\ pc[w] = "retrying"
  /\ IF CeleryRetries(m)
     THEN queue' = queue \cup {[key |-> m.key, retries |-> m.retries + 1,
                                copy |-> m.copy]}
     ELSE UNCHANGED queue
  /\ Finish(w)
  /\ UNCHANGED <<emitVars, rowVars, histVars, faults>>

\* A save or its transaction fails.  mark_done is inside the try block, so the
\* failure is handled like one of the handler; the others leave the task.
SaveFails(w) ==
  /\ Fault("save")
  /\ \/ /\ pc[w] = "succeeded"
        /\ pc' = [pc EXCEPT ![w] = "raised"]
        /\ UNCHANGED job
     \/ /\ pc[w] \in {"loaded", "permanent", "raised"}
        /\ Finish(w)
  /\ UNCHANGED <<emitVars, rowVars, queue, histVars>>

\* The worker process is killed; its message was acknowledged already.
WorkerCrash(w) ==
  /\ pc[w] # "idle"
  /\ Finish(w)
  /\ Fault("worker")
  /\ UNCHANGED <<emitVars, rowVars, queue, histVars>>

WorkerStep(w) ==
  \/ \E m \in queue : Dequeue(w, m)
  \/ MarkRunning(w) \/ HandlerReturns(w) \/ HandlerRaises(w)
  \/ MarkDone(w) \/ MarkDead(w) \/ MarkFailed(w) \/ Retry(w)

------------------------------------------------------------------------------
\* ops/runbooks/incident.md: an operator sets a dead task to pending or to
\* cancelled by hand; no message is published for it.
Decisions == {"pending", "cancelled"}

Requeue(k) ==
  /\ status[k] = "dead"
  /\ \E decision \in Decisions : status' = [status EXCEPT ![k] = decision]
  /\ Fault("requeue")
  /\ UNCHANGED <<emitVars, attempts, audits, queue, workVars, histVars>>

Init ==
  /\ emitter = [e \in Events |-> "idle"]
  /\ status = [k \in Keys |-> "absent"]
  /\ attempts = [k \in Keys |-> 0]
  /\ audits = [k \in Keys |-> 0]
  /\ owner = [k \in Keys |-> None]
  /\ queue = {}
  /\ pc = [w \in Workers |-> "idle"]
  /\ job = [w \in Workers |-> None]
  /\ starts = [k \in Keys |-> 0]
  /\ completions = [k \in Keys |-> 0]
  /\ faults = [f \in FaultKinds |-> 0]

Next ==
  \/ \E e \in Events : Emit(e) \/ Rollback(e) \/ Commit(e) \/ EmitterStep(e)
                         \/ EmitterCrash(e)
  \/ \E m \in queue : Redeliver(m)
  \/ \E w \in Workers : WorkerStep(w) \/ SaveFails(w) \/ WorkerCrash(w)
  \/ \E k \in Keys : Requeue(k)

Spec == Init /\ [][Next]_vars

\* The callback of a committed transaction runs, and the workers go on
\* consuming and executing: nothing else is scheduled by the system.
FairSpec ==
  /\ Spec
  /\ \A e \in Events : WF_vars(EmitterStep(e))
  /\ \A w \in Workers : WF_vars(WorkerStep(w))

------------------------------------------------------------------------------
(* Properties.                                                               *)

TypeOK ==
  /\ emitter \in [Events -> EmitterStages]
  /\ status \in [Keys -> Status \cup {"absent"}]
  /\ attempts \in [Keys -> Nat]
  /\ audits \in [Keys -> Nat]
  /\ owner \in [Keys -> Events \cup {None}]
  /\ queue \subseteq Message
  /\ pc \in [Workers -> WorkerStages]
  /\ job \in [Workers -> Job \cup {None}]
  /\ \A w \in Workers : pc[w] = "idle" <=> job[w] = None
  /\ starts \in [Keys -> Nat]
  /\ completions \in [Keys -> Nat]
  /\ faults \in [FaultKinds -> Nat]
  /\ \A f \in FaultKinds : faults[f] <= MaxFaults[f]

\* What may still make the task of key k run: an emitter about to publish its
\* first message, a message in the broker, a worker that holds one.
Carriers(k) ==
  {e \in Events : emitter[e] = "created" /\ KeyOf[e] = k}
    \cup {m \in queue : m.key = k}
    \cup {w \in Workers : pc[w] # "idle" /\ TaskOf(w) = k}

\* Every message was delivered once and no dead task was touched by hand, so far.
Unreplayed == faults["duplicate"] = 0 /\ faults["requeue"] = 0

\* At most one process or message is ever responsible for a TaskRecord, and
\* none once it is done or dead: the unique key and the `created` flag of
\* enqueue_task, and one retry per failed run, are all the locking there is.
OneCarrier ==
  Unreplayed =>
    \A k \in Keys :
      /\ \A c, d \in Carriers(k) : c = d
      /\ status[k] \in Settled \cup {"absent"} => Carriers(k) = {}

\* The attempts column, which mark_running writes from a copy of the row,
\* counts the starts of the handler and never passes MAX_RETRIES, until two
\* copies of one message are at work.
AttemptsCountStarts ==
  Unreplayed =>
    \A k \in Keys : attempts[k] = starts[k] /\ attempts[k] <= MaxRetries

\* A dead task has exactly one audit row workflow.task.dead, and no other
\* task has one, until something is replayed.
DeadIsAuditedOnce ==
  Unreplayed =>
    \A k \in Keys : audits[k] = IF status[k] = "dead" THEN 1 ELSE 0

\* A settled status tells the truth whatever is delivered twice, requeued or
\* killed: the handler of a done task returned normally, and the death of a
\* dead task is in the audit log.
SettledIsTrue ==
  \A k \in Keys :
    /\ status[k] = "done" => completions[k] > 0
    /\ status[k] = "dead" => audits[k] > 0

\* The handler returns normally at most once, plus once for every mark_done
\* that fails after it (run_handler treats that as a failed handler) and for
\* every message delivered twice; a requeue by hand adds nothing.
CompletesOnce ==
  \A k \in Keys : completions[k] <= 1 + faults["save"] + faults["duplicate"]

\* No row, message or run exists for an event whose transaction is still open
\* or was rolled back (transaction.on_commit in emit_event).
OnlyCommittedEventsRun ==
  \A k \in Keys :
    IF status[k] = "absent"
    THEN owner[k] = None /\ Carriers(k) = {}
    ELSE owner[k] \in Events
           /\ emitter[owner[k]] \in {"created", "returned", "crashed"}

\* The engine carries out the life cycle of the README for every task.
Lifecycle == INSTANCE TaskLifecycle WITH
    Keys <- Keys, MaxRetries <- MaxRetries, status <- status,
    attempts <- attempts, audits <- audits, replayed <- ~Unreplayed
FollowsLifecycle == Lifecycle!LifeSpec

\* README: automation that "fires reliably": the task of the first committed
\* event of a key gets done or dead, retries end and nobody waits for anybody,
\* unless a process died or a save failed.
FiresReliably ==
  \A e \in Events :
    (emitter[e] = "committed" /\ status[KeyOf[e]] = "absent")
      ~> \/ status[KeyOf[e]] \in Settled
         \/ faults["emitter"] + faults["worker"] + faults["save"] > 0

------------------------------------------------------------------------------
(* The inductive invariant behind the properties above: Always holds under   *)
(* every fault, Once as long as nothing is replayed.                         *)

Publishing(e) == emitter[e] = "created"
Busy(w) == pc[w] # "idle"

\* Two carriers of one task are the same carrier.
Exclusive ==
  /\ \A m, n \in queue : m.key = n.key => m = n
  /\ \A v, w \in Workers :
       Busy(v) /\ Busy(w) /\ TaskOf(v) = TaskOf(w) => v = w
  /\ \A e, f \in Events :
       Publishing(e) /\ Publishing(f) /\ KeyOf[e] = KeyOf[f] => e = f
  /\ \A m \in queue, w \in Workers : Busy(w) => TaskOf(w) # m.key
  /\ \A m \in queue, e \in Events : Publishing(e) => KeyOf[e] # m.key
  /\ \A w \in Workers, e \in Events :
       Busy(w) /\ Publishing(e) => TaskOf(w) # KeyOf[e]

\* What the row of a task looks like while something carries it.
PublishingRow(e) == status[KeyOf[e]] = "pending"

QueuedRow(m) ==
  /\ status[m.key] \in {"pending", "failed"}
  /\ attempts[m.key] = m.retries
  /\ m.retries < MaxRetries
  /\ completions[m.key] <= faults["save"]

HeldRow(w) ==
  LET k == TaskOf(w)
      sent == job[w].msg.retries IN
  /\ job[w].attempts = attempts[k]
  /\ pc[w] = "loaded" =>
       /\ status[k] \in {"pending", "failed"}
       /\ attempts[k] = sent
       /\ sent < MaxRetries
  /\ pc[w] # "loaded" => attempts[k] = sent + 1
  /\ pc[w] \in {"running", "succeeded", "permanent", "raised"} =>
       status[k] = "running"
  /\ pc[w] = "retrying" => status[k] = "failed" /\ attempts[k] < MaxRetries
  /\ IF pc[w] = "succeeded" THEN completions[k] > 0
                            ELSE completions[k] <= faults["save"]

CarriedRows ==
  /\ \A e \in Events : Publishing(e) => PublishingRow(e)
  /\ \A m \in queue : QueuedRow(m)
  /\ \A w \in Workers : Busy(w) => HeldRow(w)

\* What holds of a row whoever carries it.
Row(k) ==
  /\ attempts[k] = starts[k] /\ attempts[k] <= MaxRetries
  /\ status[k] \in {"absent", "pending"} =>
       attempts[k] = 0 /\ completions[k] = 0
  /\ audits[k] = IF status[k] = "dead" THEN 1 ELSE 0
  /\ completions[k] <= 1 + faults["save"]
  /\ status[k] = "done" => completions[k] > 0

Owned(k) ==
  IF status[k] = "absent"
  THEN owner[k] = None
  ELSE owner[k] \in Events
         /\ emitter[owner[k]] \in {"created", "returned", "crashed"}

Once ==
  /\ Exclusive
  /\ CarriedRows
  /\ \A k \in Keys : Row(k)

\* Whoever carries a task has its row, a worker about to save "done" has seen
\* the handler return, and a settled row has its witness.
Always ==
  /\ \A e \in Events : Publishing(e) => status[KeyOf[e]] # "absent"
  /\ \A m \in queue : status[m.key] # "absent"
  /\ \A w \in Workers :
       Busy(w) => /\ status[TaskOf(w)] # "absent"
                  /\ pc[w] = "succeeded" => completions[TaskOf(w)] > 0
  /\ \A k \in Keys : Owned(k)
  /\ SettledIsTrue

IInv == TypeOK /\ Always /\ (Unreplayed => Once)
==============================================================================
