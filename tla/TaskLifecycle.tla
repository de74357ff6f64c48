---------------------------- MODULE TaskLifecycle ----------------------------
(***************************************************************************)
(* What the workflow engine promises about one TaskRecord, whatever         *)
(* processes and messages carry it out: the state diagram of the project's  *)
(* README ("Task Retry & Dead-Letter Flow"), the bound on the attempts and  *)
(* the audit row that goes with a dead task.  Once a message was delivered  *)
(* twice, or an operator set a dead task to pending or cancelled, less is   *)
(* promised: the row may be in several hands (Overrun).                     *)
(***************************************************************************)
EXTENDS Integers

CONSTANTS Keys,        \* idempotency keys
          MaxRetries   \* attempts a task gets before it is given up

VARIABLES status, attempts, audits,
          replayed     \* something has been delivered or started again

lifeVars == <<status, attempts, audits, replayed>>

Start(k) ==
  /\ status[k] \in {"pending", "failed"}
  /\ attempts[k] < MaxRetries
  /\ status' = [status EXCEPT ![k] = "running"]
  /\ attempts' = [attempts EXCEPT ![k] = @ + 1]
  /\ UNCHANGED <<audits, replayed>>

Create(k) ==
  /\ status[k] = "absent"
  /\ status' = [status EXCEPT ![k] = "pending"]
  /\ UNCHANGED <<attempts, audits, replayed>>

Succeed(k) ==
  /\ status[k] = "running"
  /\ status' = [status EXCEPT ![k] = "done"]
  /\ UNCHANGED <<attempts, audits, replayed>>

Fail(k) ==
  /\ status[k] = "running"
  /\ attempts[k] < MaxRetries
  /\ status' = [status EXCEPT ![k] = "failed"]
  /\ UNCHANGED <<attempts, audits, replayed>>

Die(k) ==
  /\ status[k] = "running"
  /\ status' = [status EXCEPT ![k] = "dead"]
  /\ audits' = [audits EXCEPT ![k] = @ + 1]
  /\ UNCHANGED <<attempts, replayed>>

Redelivered ==
  /\ replayed' = TRUE
  /\ UNCHANGED <<status, attempts, audits>>

Requeued(k) ==
  /\ status[k] = "dead"
  /\ \E decision \in {"pending", "cancelled"} :
       status' = [status EXCEPT ![k] = decision]
  /\ replayed' = TRUE
  /\ UNCHANGED <<attempts, audits>>

\* One of several runs of a replayed task starts or ends, whatever the others
\* have made of the row: each end still says what became of that run.
Overrun(k) ==
  /\ replayed
  /\ status[k] # "absent"
  /\ \/ /\ status' = [status EXCEPT ![k] = "running"]
        /\ attempts' = [attempts EXCEPT ![k] = attempts'[k]]
        /\ UNCHANGED audits
     \/ /\ \E end \in {"done", "failed"} :
             status' = [status EXCEPT ![k] = end]
        /\ UNCHANGED <<attempts, audits>>
     \/ /\ status' = [status EXCEPT ![k] = "dead"]
        /\ audits' = [audits EXCEPT ![k] = @ + 1]
        /\ UNCHANGED attempts
  /\ UNCHANGED replayed

LifeInit ==
  /\ status = [k \in Keys |-> "absent"]
  /\ attempts = [k \in Keys |-> 0]
  /\ audits = [k \in Keys |-> 0]
  /\ replayed = FALSE

LifeNext ==
  \/ Redelivered
  \/ \E k \in Keys : \/ Create(k) \/ Start(k) \/ Succeed(k) \/ Fail(k)
                     \/ Die(k) \/ Requeued(k) \/ Overrun(k)

LifeSpec == LifeInit /\ [][LifeNext]_lifeVars
==============================================================================
