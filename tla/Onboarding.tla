----------------------------- MODULE Onboarding ------------------------------
(***************************************************************************)
(* Onboarding of one client (src/onboarding): the client is created, the    *)
(* workflow engine runs start_onboarding for its event, the handler creates *)
(* an OnboardingRun and publishes one run_step message per template step,   *)
(* and workers carry out the steps and count them on the run.               *)
(*                                                                         *)
(* The engine is modelled by what it may do with the handler: run it once,  *)
(* again after it raised, and again after it returned when mark_done failed *)
(* (TaskEngine!SaveFails).  The messages are published inside the handler's *)
(* transaction, so a worker may look for a run that it cannot see yet.      *)
(***************************************************************************)
EXTENDS Integers, FiniteSets, Sequences

CONSTANTS
  Template,    \* kinds of the default template's steps, in their order
  Configured,  \* what the tenant has active: subset of {"email", "nextcloud"}
  Workers,     \* Celery worker processes
  MaxStarts,   \* executions of the handler the engine may make
  StepRetries, \* max_retries of run_step
  MaxCrashes,  \* workers that may be killed
  MaxRepeats,  \* replays of the handler and duplicate deliveries, together
  MaxUnanswered \* mails that go out although the call that sends them raises

Kinds == {"welcome_email", "doc_request", "setup_task"}
FaultKinds == {"worker", "duplicate", "replay", "answer"}

ASSUME TemplateAssumption == Template \in Seq(STRING)
ASSUME ConfiguredAssumption == Configured \subseteq {"email", "nextcloud"}
ASSUME MaxStartsAssumption == MaxStarts \in Nat
ASSUME StepRetriesAssumption == StepRetries \in Nat
ASSUME WorkersAssumption == IsFiniteSet(Workers)
ASSUME FaultsAssumption ==
  MaxCrashes \in Nat /\ MaxRepeats \in Nat /\ MaxUnanswered \in Nat

Steps == 1..Len(Template)
Runs == 1..MaxStarts
Idle == [msg |-> [run |-> 0, step |-> 0, retries |-> 0, copy |-> 0], seen |-> 0]

VARIABLES
  client,    \* how the client came to be: "none", "service" or "api"
  handler,   \* start_onboarding: "none", "due", "open", "returned", "failed"
  starts,    \* executions of the handler; the latest one works on this run
  sent,      \* steps the open execution has published
  row,       \* each run's row: "absent", "open", "committed", "rolledback"
  status, completed, \* columns of the runs
  queue,     \* messages of the broker that call run_step
  pc, job,   \* where each worker stands; its message and what it read
  mails,     \* history: e-mails sent for a run's step
  records,   \* TaskRecord keys of the setup steps, unique
  ran,       \* history: steps of a run whose handler returned
  lost,      \* history: messages that found no run
  faults

handlerVars == <<client, handler, starts, sent, row>>
runVars == <<status, completed>>
workVars == <<pc, job>>
effectVars == <<mails, records, ran, lost>>
vars == <<handlerVars, runVars, queue, workVars, effectVars, faults>>

Fault(kind) ==
  /\ CASE kind = "worker" -> faults["worker"] < MaxCrashes
       [] kind = "answer" -> faults["answer"] < MaxUnanswered
       [] OTHER -> faults["duplicate"] + faults["replay"] < MaxRepeats
  /\ faults' = [faults EXCEPT ![kind] = @ + 1]

------------------------------------------------------------------------------
(* Creating the client and running its handler.                              *)

\* services.create_client: the client, its event and the audit row commit
\* together, and the engine owes the event a run of the handler.
CreateClient ==
  /\ client = "none"
  /\ client' = "service"
  /\ handler' = "due"
  /\ UNCHANGED <<starts, sent, row, runVars, queue, workVars, effectVars,
                 faults>>

\* POST /api/clients: perform_create saves the row and nothing else.
PerformCreate ==
  /\ client = "none"
  /\ client' = "api"
  /\ UNCHANGED <<handler, starts, sent, row, runVars, queue, workVars,
                 effectVars, faults>>

\* The transaction of start_onboarding opens and inserts the run.
OpenRun ==
  /\ handler = "due"
  /\ starts < MaxStarts
  /\ starts' = starts + 1
  /\ handler' = "open"
  /\ sent' = 0
  /\ row' = [row EXCEPT ![starts + 1] = "open"]
  /\ status' = [status EXCEPT ![starts + 1] = "running"]
  /\ UNCHANGED <<client, completed, queue, workVars, effectVars, faults>>

\* The message names a run, committed or not.
PublishStep ==
  /\ handler = "open"
  /\ sent < Len(Template)
  /\ sent' = sent + 1
  /\ queue' = queue \cup {[run |-> starts, step |-> sent + 1,
                           retries |-> 0, copy |-> 0]}
  /\ UNCHANGED <<client, handler, starts, row, runVars, workVars, effectVars,
                 faults>>

CommitRun ==
  /\ handler = "open"
  /\ sent = Len(Template)
  /\ row' = [row EXCEPT ![starts] = "committed"]
  /\ handler' = "returned"
  /\ UNCHANGED <<client, starts, sent, runVars, queue, workVars, effectVars,
                 faults>>

AutocommitRun == [row EXCEPT ![starts] = "committed"]
DropRun == [row EXCEPT ![starts] = "rolledback"]

\* An insert, a publication or the commit raises: the run is rolled back, the
\* messages are not, and the engine retries the handler or gives it up.
HandlerRaises ==
  /\ handler = "open"
  /\ row' = DropRun
  /\ handler' = IF starts < MaxStarts THEN "due" ELSE "failed"
  /\ UNCHANGED <<client, starts, sent, runVars, queue, workVars, effectVars,
                 faults>>

\* mark_done failed after the handler returned: the engine runs it again.
Replay ==
  /\ handler = "returned"
  /\ starts < MaxStarts
  /\ handler' = "due"
  /\ Fault("replay")
  /\ UNCHANGED <<client, starts, sent, row, runVars, queue, workVars,
                 effectVars>>

HandlerStep == OpenRun \/ PublishStep \/ CommitRun

------------------------------------------------------------------------------
(* run_step in a worker.                                                     *)

Finish(w) ==
  /\ pc' = [pc EXCEPT ![w] = "idle"]
  /\ job' = [job EXCEPT ![w] = Idle]

RunOf(w) == job[w].msg.run
StepOf(w) == job[w].msg.step
KindOf(w) == Template[StepOf(w)]

\* OnboardingRun.objects.get sees committed rows only.
RowExists(r) == row[r] # "rolledback"
Visible(r) == row[r] = "committed"

\* Reads the run outside the try block: a missing run ends the task for good,
\* and so does a kind without a handler.
TakeStep(w, m) ==
  /\ pc[w] = "idle"
  /\ queue' = queue \ {m}
  /\ lost' = IF Visible(m.run) THEN lost ELSE lost \cup {<<m.run, m.step>>}
  /\ IF Visible(m.run) /\ Template[m.step] \in Kinds
     THEN /\ pc' = [pc EXCEPT ![w] = "handling"]
          /\ job' = [job EXCEPT ![w] = [msg |-> m, seen |-> completed[m.run]]]
     ELSE UNCHANGED workVars
  /\ UNCHANGED <<handlerVars, runVars, mails, records, ran, faults>>

\* The welcome mail needs an e-mail integration, the document request
\* Nextcloud as well; without them the step returns as if it had been done.
Sends(kind) ==
  \/ kind = "welcome_email" /\ "email" \in Configured
  \/ kind = "doc_request" /\ Configured = {"email", "nextcloud"}

OneMail(w) == [mails EXCEPT ![RunOf(w)][StepOf(w)] = @ + 1]

\* The step's handler returns.  The setup task inserts a row under a unique
\* key, so it can return only once per run and step.
StepReturns(w) ==
  LET r == RunOf(w)
      s == StepOf(w) IN
  /\ pc[w] = "handling"
  /\ KindOf(w) = "setup_task" => <<r, s>> \notin records
  /\ mails' = IF Sends(KindOf(w)) THEN OneMail(w) ELSE mails
  /\ records' = IF KindOf(w) = "setup_task" THEN records \cup {<<r, s>>}
                                            ELSE records
  /\ ran' = [ran EXCEPT ![r] = @ \cup {s}]
  /\ pc' = [pc EXCEPT ![w] = "counting"]
  /\ UNCHANGED <<handlerVars, runVars, queue, job, lost, faults>>

LastTry(m) == m.retries >= StepRetries

\* Another message, until max_retries is reached.
RetryStep(w) ==
  LET m == job[w].msg IN
  /\ pc[w] = "handling"
  /\ queue' = IF LastTry(m) THEN queue
              ELSE queue \cup {[m EXCEPT !.retries = @ + 1]}
  /\ Finish(w)
  /\ UNCHANGED <<handlerVars, runVars, records, ran, lost>>

\* The step's handler raises before it has done anything.
StepRaises(w) ==
  /\ RetryStep(w)
  /\ UNCHANGED <<mails, faults>>

\* The mail server takes the mail and its answer is lost: the adapter raises,
\* and the step is tried again like one that sent nothing.
SendUnanswered(w) ==
  /\ RetryStep(w)
  /\ Sends(KindOf(w))
  /\ mails' = OneMail(w)
  /\ Fault("answer")

\* _mark_step_complete increments in the database (F()), not on the copy.
SeenPlusOne(w) == job[w].seen + 1
RowPlusOne(w) == completed[RunOf(w)] + 1

CountStep(w) ==
  /\ pc[w] = "counting"
  /\ completed' = [completed EXCEPT ![RunOf(w)] = RowPlusOne(w)]
  /\ pc' = [pc EXCEPT ![w] = "closing"]
  /\ UNCHANGED <<handlerVars, status, queue, job, effectVars, faults>>

\* ... reads the run again and closes it when the count has reached the total.
OnLastButOne(r) == completed[r] >= Len(Template) - 1
AllCounted(r) == Len(Template) > 0 /\ completed[r] >= Len(Template)

CloseRun(w) ==
  /\ pc[w] = "closing"
  /\ status' = IF AllCounted(RunOf(w))
               THEN [status EXCEPT ![RunOf(w)] = "done"] ELSE status
  /\ Finish(w)
  /\ UNCHANGED <<handlerVars, completed, queue, effectVars, faults>>

\* A worker that dies in a step's handler may have sent its mail.
WorkerCrash(w) ==
  /\ pc[w] # "idle"
  /\ mails' \in {mails} \cup
        (IF pc[w] = "handling" /\ Sends(KindOf(w)) THEN {OneMail(w)} ELSE {})
  /\ Finish(w)
  /\ Fault("worker")
  /\ UNCHANGED <<handlerVars, runVars, queue, records, ran, lost>>

Redeliver(m) ==
  /\ Fault("duplicate")
  /\ queue' = queue \cup {[m EXCEPT !.copy = faults["duplicate"] + 1]}
  /\ UNCHANGED <<handlerVars, runVars, workVars, effectVars>>

WorkerStep(w) ==
  \/ \E m \in queue : TakeStep(w, m)
  \/ StepReturns(w) \/ StepRaises(w) \/ CountStep(w) \/ CloseRun(w)

------------------------------------------------------------------------------
Init ==
  /\ client = "none" /\ handler = "none" /\ starts = 0 /\ sent = 0
  /\ row = [r \in Runs |-> "absent"]
  /\ status = [r \in Runs |-> "absent"]
  /\ completed = [r \in Runs |-> 0]
  /\ queue = {}
  /\ pc = [w \in Workers |-> "idle"]
  /\ job = [w \in Workers |-> Idle]
  /\ mails = [r \in Runs |-> [s \in Steps |-> 0]]
  /\ records = {}
  /\ ran = [r \in Runs |-> {}]
  /\ lost = {}
  /\ faults = [f \in FaultKinds |-> 0]

Next ==
  \/ CreateClient \/ PerformCreate
  \/ HandlerStep \/ HandlerRaises \/ Replay
  \/ \E m \in queue : Redeliver(m)
  \/ \E w \in Workers : WorkerStep(w) \/ SendUnanswered(w) \/ WorkerCrash(w)

Spec == Init /\ [][Next]_vars

\* The engine runs a due handler (TaskEngine!FiresReliably) and the workers
\* consume and execute.  Creating clients is up to the users.
FairSpec ==
  /\ Spec
  /\ WF_vars(HandlerStep)
  /\ \A w \in Workers : WF_vars(WorkerStep(w))

------------------------------------------------------------------------------
(* Properties.                                                               *)

Message == [run : Runs, step : Steps, retries : 0..StepRetries,
            copy : 0..MaxRepeats]

TypeOK ==
  /\ client \in {"none", "service", "api"}
  /\ handler \in {"none", "due", "open", "returned", "failed"}
  /\ starts \in 0..MaxStarts /\ sent \in 0..Len(Template)
  /\ handler = "open" => starts > 0
  /\ row \in [Runs -> {"absent", "open", "committed", "rolledback"}]
  /\ status \in [Runs -> {"absent", "running", "done"}]
  /\ completed \in [Runs -> Nat]
  /\ queue \subseteq Message
  /\ pc \in [Workers -> {"idle", "handling", "counting", "closing"}]
  /\ job \in [Workers -> [msg : Message, seen : Nat] \cup {Idle}]
  /\ \A w \in Workers : pc[w] = "idle" <=> job[w] = Idle
  /\ mails \in [Runs -> [Steps -> Nat]]
  /\ records \subseteq Runs \X Steps
  /\ ran \in [Runs -> SUBSET Steps]
  /\ lost \subseteq Runs \X Steps
  /\ faults \in [FaultKinds -> Nat]

Counting(r) == {w \in Workers : pc[w] = "counting" /\ RunOf(w) = r}

\* completed_steps is "the number of steps whose handler has succeeded" but for
\* the workers about to count one, those that died there and the messages
\* delivered twice: concurrent completions lose no increment.
CompletedCountsSteps ==
  \A r \in Runs :
    LET total == completed[r] + Cardinality(Counting(r)) IN
    /\ total <= Cardinality(ran[r]) + faults["duplicate"]
    /\ total + faults["worker"] >= Cardinality(ran[r])

\* A run is done only when each of its steps has been carried out, unless a
\* message was delivered twice.
DoneMeansAllRan ==
  \A r \in Runs :
    status[r] = "done" => ran[r] = Steps \/ faults["duplicate"] > 0

\* Whatever a rolled-back handler left in the broker, no mail and no task is
\* ever produced for a run that is not in the database.
NoEffectWithoutRun ==
  \A r \in Runs, s \in Steps :
    mails[r][s] > 0 \/ <<r, s>> \in records => row[r] = "committed"

\* A client is sent the mail of a step once per run of the handler that
\* committed, once more per duplicate delivery and once more per mail whose
\* answer was lost; a handler that raised committed nothing.
MailsOncePerReplay ==
  /\ \A r \in Runs, s \in Steps :
       mails[r][s] <= 1 + faults["duplicate"] + faults["answer"]
  /\ Cardinality({r \in Runs : row[r] = "committed"}) <= 1 + faults["replay"]

\* A run whose steps have all been carried out is closed eventually, unless a
\* worker died: the last worker to count sees the whole count.
AllRanLeadsToDone ==
  \A r \in Runs : (Steps # {} /\ ran[r] = Steps)
                    ~> (status[r] = "done" \/ faults["worker"] > 0)

\* Refinement: whatever the handler, the broker and the workers do, the runs in
\* the database live as RunLifecycle promises.
Life == INSTANCE RunLifecycle WITH
          there <- {r \in Runs : row[r] = "committed"},
          closed <- {r \in Runs : status[r] = "done"},
          letters <- mails,
          repeats <- faults["duplicate"],
          unanswered <- faults["answer"],
          replays <- faults["replay"],
          Mailing <- {s \in Steps : Sends(Template[s])},
          Single <- {s \in Steps : Template[s] = "setup_task"}

FollowsRunLifecycle == Life!LifeSpec

\* README: "transaction.on_commit ensures tasks are only enqueued after
\* successful DB commit": no step of a run is thrown away for want of its row.
NoStepLost ==
  \A r \in Runs, s \in Steps : row[r] = "committed" => <<r, s>> \notin lost
==============================================================================
