-------------------------- MODULE OnboardingProofs --------------------------
(***************************************************************************)
(* Proofs about Onboarding, for any template, integrations, workers,        *)
(* crashes, replays and duplicates: what a rolled-back handler left in the  *)
(* broker does nothing, the count of a run is the number of its steps       *)
(* carried out but for what crashes and duplicates explain, a run is done   *)
(* only when all of them were, and the runs live as RunLifecycle promises.  *)
(***************************************************************************)
EXTENDS Onboarding, FiniteSetTheorems, TLAPS

Jobs == [msg : Message, seen : Nat]
Stops == {"idle", "handling", "counting", "closing"}

\* An idle worker's job is no message of the broker.
LEMMA NoJob == Idle \notin Jobs /\ Len(Template) \in Nat
<1>1. Idle \notin Jobs
  BY DEF Idle, Jobs, Message, Runs
<1> QED
  BY <1>1, TemplateAssumption

\* A fault counts itself.
LEMMA FaultTypes ==
  ASSUME TypeOK, NEW kind \in FaultKinds, Fault(kind)
  PROVE  /\ faults' \in [FaultKinds -> Nat]
         /\ faults'[kind] = faults[kind] + 1
         /\ \A f \in FaultKinds \ {kind} : faults'[f] = faults[f]
  BY DEF Fault, TypeOK

\* A worker with a job has its message.
LEMMA Busy ==
  ASSUME TypeOK, NEW w \in Workers, pc[w] # "idle"
  PROVE  /\ job[w] \in Jobs /\ job[w].msg \in Message /\ job[w].seen \in Nat
         /\ RunOf(w) \in Runs /\ StepOf(w) \in Steps
<1>1. job[w] \in Jobs
  BY DEF TypeOK, Jobs
<1> QED
  BY <1>1 DEF Jobs, Message, RunOf, StepOf

\* One mail more for the step a worker is handling.
LEMMA MailMore ==
  ASSUME TypeOK, NEW w \in Workers, pc[w] # "idle"
  PROVE  /\ OneMail(w) \in [Runs -> [Steps -> Nat]]
         /\ OneMail(w)[RunOf(w)][StepOf(w)] = mails[RunOf(w)][StepOf(w)] + 1
         /\ \A r \in Runs : r # RunOf(w) => OneMail(w)[r] = mails[r]
         /\ \A r \in Runs, s \in Steps :
              ~(r = RunOf(w) /\ s = StepOf(w)) => OneMail(w)[r][s] = mails[r][s]
<1>1. RunOf(w) \in Runs /\ StepOf(w) \in Steps
  BY Busy
<1>2. PICK old : old = mails[RunOf(w)][StepOf(w)]
  OBVIOUS
<1>3. old + 1 \in Nat
  BY <1>1, <1>2 DEF TypeOK
<1>4. OneMail(w) = [mails EXCEPT ![RunOf(w)] = [mails[RunOf(w)] EXCEPT ![StepOf(w)] = old + 1]]
  BY <1>2 DEF OneMail
<1> QED
  BY <1>1, <1>2, <1>3, <1>4 DEF TypeOK

\* What the death of a worker may do to the mails.
LEMMA CrashMails ==
  ASSUME NEW w \in Workers, WorkerCrash(w)
  PROVE  mails' = mails \/ (pc[w] = "handling" /\ Sends(KindOf(w)) /\ mails' = OneMail(w))
  BY DEF WorkerCrash

\* The part of TypeOK about the workers.
WorkTypes ==
  /\ pc \in [Workers -> Stops]
  /\ job \in [Workers -> Jobs \cup {Idle}]
  /\ \A w \in Workers : pc[w] = "idle" <=> job[w] = Idle

LEMMA FinishTypes ==
  ASSUME TypeOK, NEW w \in Workers, Finish(w)
  PROVE  WorkTypes'
  BY NoJob DEF Finish, TypeOK, WorkTypes, Jobs, Stops

\* Every step keeps the ranges.
LEMMA TypeStep == TypeOK /\ [Next]_vars => TypeOK'
<1> SUFFICES ASSUME TypeOK, [Next]_vars PROVE TypeOK'
  OBVIOUS
<1> USE NoJob, MaxStartsAssumption, StepRetriesAssumption, FaultsAssumption
<1>0. ASSUME WorkTypes', queue' \subseteq Message,
             UNCHANGED <<client, handler, starts, sent, row>>,
             status' \in [Runs -> {"absent", "running", "done"}],
             completed' \in [Runs -> Nat],
             mails' \in [Runs -> [Steps -> Nat]], records' \subseteq Runs \X Steps,
             ran' \in [Runs -> SUBSET Steps], lost' \subseteq Runs \X Steps,
             faults' \in [FaultKinds -> Nat]
      PROVE  TypeOK'
  BY <1>0 DEF TypeOK, WorkTypes, Jobs, Stops
<1>w. WorkTypes /\ (UNCHANGED workVars => WorkTypes')
  BY DEF TypeOK, WorkTypes, Jobs, Stops, workVars
<1>1. ASSUME CreateClient \/ PerformCreate PROVE TypeOK'
  BY <1>1 DEF CreateClient, PerformCreate, TypeOK, runVars, workVars, effectVars
<1>2. ASSUME OpenRun PROVE TypeOK'
  <2>1. starts + 1 \in Runs /\ starts' \in 0..MaxStarts
    BY <1>2 DEF OpenRun, TypeOK, Runs
  <2> QED
    BY <1>2, <2>1 DEF OpenRun, TypeOK, workVars, effectVars
<1>3. ASSUME PublishStep PROVE TypeOK'
  <2> DEFINE m == [run |-> starts, step |-> sent + 1, retries |-> 0, copy |-> 0]
  <2>1. sent' \in 0..Len(Template) /\ sent + 1 \in Steps
    BY <1>3 DEF PublishStep, TypeOK, Steps
  <2>2. starts \in Runs
    BY <1>3 DEF PublishStep, TypeOK, Runs
  <2>3. m \in Message
    BY <2>1, <2>2 DEF Message
  <2>4. queue' \subseteq Message
    BY <1>3, <2>3 DEF PublishStep, TypeOK
  <2> QED
    BY <1>3, <2>1, <2>4 DEF PublishStep, TypeOK, runVars, workVars, effectVars
<1>4. ASSUME CommitRun PROVE TypeOK'
  BY <1>4 DEF CommitRun, TypeOK, runVars, workVars, effectVars
<1>5. ASSUME HandlerRaises PROVE TypeOK'
  BY <1>5 DEF HandlerRaises, DropRun, TypeOK, runVars, workVars, effectVars
<1>6. ASSUME Replay PROVE TypeOK'
  <2>1. faults' \in [FaultKinds -> Nat]
    BY <1>6, FaultTypes DEF Replay, FaultKinds
  <2> QED
    BY <1>6, <2>1 DEF Replay, TypeOK, runVars, workVars, effectVars
<1>7. ASSUME NEW m \in queue, Redeliver(m) PROVE TypeOK'
  <2>1. faults' \in [FaultKinds -> Nat]
    BY <1>7, FaultTypes DEF Redeliver, FaultKinds
  <2>2. faults["duplicate"] + 1 \in 0..MaxRepeats
    BY <1>7 DEF Redeliver, Fault, TypeOK, FaultKinds
  <2>3. m \in Message
    BY DEF TypeOK
  <2>4. [m EXCEPT !.copy = faults["duplicate"] + 1] \in Message
    BY <2>2, <2>3 DEF Message
  <2>5. queue' \subseteq Message
    BY <1>7, <2>4 DEF Redeliver, TypeOK
  <2> QED
    BY <1>0, <1>w, <1>7, <2>1, <2>5 DEF Redeliver, TypeOK, handlerVars, runVars, effectVars
<1>8. ASSUME NEW w \in Workers, NEW m \in queue, TakeStep(w, m) PROVE TypeOK'
  <2>1. m \in Message /\ m.run \in Runs /\ m.step \in Steps
    BY DEF TypeOK, Message
  <2>2. lost' \subseteq Runs \X Steps
    <3>1. lost' = lost \/ lost' = lost \cup {<<m.run, m.step>>}
      BY <1>8 DEF TakeStep
    <3> QED
      BY <2>1, <3>1 DEF TypeOK
  <2>3. WorkTypes'
    <3> DEFINE j == [msg |-> m, seen |-> completed[m.run]]
    <3>1. j \in Jobs
      BY <2>1 DEF Jobs, TypeOK
    <3> HIDE DEF j
    <3>2. \/ pc' = [pc EXCEPT ![w] = "handling"] /\ job' = [job EXCEPT ![w] = j]
          \/ UNCHANGED workVars
      BY <1>8 DEF TakeStep, j
    <3> QED
      BY <1>w, <3>1, <3>2 DEF WorkTypes, Stops
  <2>4. queue' \subseteq Message
    BY <1>8 DEF TakeStep, TypeOK
  <2> QED
    BY <1>0, <1>8, <2>2, <2>3, <2>4 DEF TakeStep, TypeOK, handlerVars, runVars
<1>9. ASSUME NEW w \in Workers, StepReturns(w) PROVE TypeOK'
  <2>1. RunOf(w) \in Runs /\ StepOf(w) \in Steps
    BY <1>9, Busy DEF StepReturns
  <2>2. mails' \in [Runs -> [Steps -> Nat]]
    BY <1>9, MailMore DEF StepReturns, TypeOK
  <2>3. records' \subseteq Runs \X Steps
    <3>1. records' = records \/ records' = records \cup {<<RunOf(w), StepOf(w)>>}
      BY <1>9 DEF StepReturns
    <3> QED
      BY <2>1, <3>1 DEF TypeOK
  <2>4. ran' \in [Runs -> SUBSET Steps]
    BY <1>9, <2>1 DEF StepReturns, TypeOK
  <2>5. WorkTypes'
    BY <1>9, <1>w DEF StepReturns, WorkTypes, Stops
  <2> QED
    BY <1>0, <1>9, <2>2, <2>3, <2>4, <2>5 DEF StepReturns, TypeOK, handlerVars, runVars
<1>10. ASSUME NEW w \in Workers, RetryStep(w) PROVE queue' \subseteq Message /\ WorkTypes'
  <2> DEFINE m == job[w].msg
  <2>1. m \in Message
    BY <1>10, Busy DEF RetryStep
  <2>2. queue' \subseteq Message
    <3>1. CASE LastTry(m)
      BY <1>10, <3>1 DEF RetryStep, TypeOK
    <3>2. CASE ~LastTry(m)
      <4>1. m.retries + 1 \in 0..StepRetries
        BY <2>1, <3>2 DEF LastTry, Message
      <4>2. [m EXCEPT !.retries = @ + 1] \in Message
        BY <2>1, <4>1 DEF Message
      <4> QED
        BY <1>10, <3>2, <4>2 DEF RetryStep, TypeOK
    <3> QED
      BY <3>1, <3>2
  <2>3. WorkTypes'
    BY <1>10, FinishTypes DEF RetryStep
  <2> QED
    BY <2>2, <2>3
<1>15. ASSUME NEW w \in Workers, StepRaises(w) PROVE TypeOK'
  <2>1. queue' \subseteq Message /\ WorkTypes'
    BY <1>10, <1>15 DEF StepRaises
  <2> QED
    BY <1>0, <1>15, <2>1 DEF StepRaises, RetryStep, TypeOK, handlerVars, runVars
<1>16. ASSUME NEW w \in Workers, SendUnanswered(w) PROVE TypeOK'
  <2>1. queue' \subseteq Message /\ WorkTypes'
    BY <1>10, <1>16 DEF SendUnanswered
  <2>2. mails' \in [Runs -> [Steps -> Nat]]
    BY <1>16, MailMore DEF SendUnanswered, RetryStep
  <2>3. faults' \in [FaultKinds -> Nat]
    BY <1>16, FaultTypes DEF SendUnanswered, FaultKinds
  <2> QED
    BY <1>0, <1>16, <2>1, <2>2, <2>3 DEF SendUnanswered, RetryStep, TypeOK, handlerVars, runVars
<1>11. ASSUME NEW w \in Workers, CountStep(w) PROVE TypeOK'
  <2>1. RunOf(w) \in Runs
    BY <1>11, Busy DEF CountStep
  <2>2. completed' \in [Runs -> Nat]
    BY <1>11, <2>1 DEF CountStep, RowPlusOne, TypeOK
  <2>3. WorkTypes'
    BY <1>11, <1>w DEF CountStep, WorkTypes, Stops
  <2> QED
    BY <1>0, <1>11, <2>2, <2>3 DEF CountStep, TypeOK, handlerVars, effectVars
<1>12. ASSUME NEW w \in Workers, CloseRun(w) PROVE TypeOK'
  <2>1. WorkTypes'
    BY <1>12, FinishTypes DEF CloseRun
  <2> QED
    BY <1>0, <1>12, <2>1 DEF CloseRun, TypeOK, handlerVars, effectVars
<1>13. ASSUME NEW w \in Workers, WorkerCrash(w) PROVE TypeOK'
  <2>1. WorkTypes' /\ faults' \in [FaultKinds -> Nat]
    BY <1>13, FinishTypes, FaultTypes DEF WorkerCrash, FaultKinds
  <2>2. mails' \in [Runs -> [Steps -> Nat]]
    BY <1>13, CrashMails, MailMore DEF TypeOK
  <2> QED
    BY <1>0, <1>13, <2>1, <2>2 DEF WorkerCrash, TypeOK, handlerVars, runVars
<1>14. CASE UNCHANGED vars
  BY <1>14 DEF vars, TypeOK, handlerVars, runVars, workVars, effectVars
<1> QED
  BY <1>1, <1>2, <1>3, <1>4, <1>5, <1>6, <1>7, <1>8, <1>9, <1>11, <1>12,
     <1>13, <1>14, <1>15, <1>16
  DEF Next, HandlerStep, WorkerStep

\* Every variable keeps its range; a worker has a message exactly while it is
\* not idle, and no transaction is open before the handler ever ran.
THEOREM TypeCorrect == Spec => []TypeOK
<1>1. Init => TypeOK
  <2> SUFFICES ASSUME Init PROVE TypeOK
    OBVIOUS
  <2>1. /\ handler = "none" /\ starts \in 0..MaxStarts /\ sent \in 0..Len(Template)
    BY NoJob, MaxStartsAssumption DEF Init
  <2> QED
    BY <2>1 DEF Init, TypeOK
<1> QED
  BY <1>1, TypeStep, PTL DEF Spec

------------------------------------------------------------------------------
(* Runs that are not in the database.                                        *)

\* The message was published by the latest execution of the handler, or by an
\* earlier one.
Published(m) ==
  /\ m.run < starts \/ (m.run = starts /\ m.step <= sent)
  /\ m.copy <= faults["duplicate"]

Nothing(r) ==
  ran[r] = {} /\ \A s \in Steps : mails[r][s] = 0 /\ <<r, s>> \notin records

Lineage ==
  /\ handler = "open" => row[starts] = "open"
  /\ \A r \in Runs : r > starts => row[r] = "absent"
  /\ \A r \in Runs : row[r] # "committed" => Nothing(r)
  /\ \A m \in queue : Published(m)
  /\ \A w \in Workers : pc[w] # "idle" =>
       row[RunOf(w)] = "committed" /\ Published(job[w].msg)

\* Every step of the workers and of the broker keeps the lineage.
LEMMA LineageStep == TypeOK /\ Lineage /\ [Next]_vars => Lineage'
<1> SUFFICES ASSUME TypeOK, Lineage, [Next]_vars PROVE Lineage'
  OBVIOUS
<1> USE MaxStartsAssumption, NoJob
<1>0. TypeOK'
  BY TypeStep
<1>t. /\ starts \in Nat /\ sent \in Nat /\ faults["duplicate"] \in Nat
      /\ starts' \in Nat /\ sent' \in Nat /\ faults'["duplicate"] \in Nat
      /\ \A m \in Message : m.run \in Nat /\ m.step \in Nat /\ m.copy \in Nat
  <2>1. /\ starts \in Nat /\ sent \in Nat /\ faults["duplicate"] \in Nat
    BY DEF TypeOK, FaultKinds
  <2>2. /\ starts' \in Nat /\ sent' \in Nat /\ faults'["duplicate"] \in Nat
    BY <1>0 DEF TypeOK, FaultKinds
  <2>3. ASSUME NEW m \in Message PROVE m.run \in Nat /\ m.step \in Nat /\ m.copy \in Nat
    BY <2>3, FaultsAssumption DEF Message, Runs, Steps
  <2> QED
    BY <2>1, <2>2, <2>3
<1>p. ASSUME NEW m, Published(m), faults["duplicate"] <= faults'["duplicate"], m \in Message,
             starts < starts' \/ (starts' = starts /\ sent <= sent')
      PROVE  Published(m)'
  <2>1. /\ m.run \in Nat /\ m.step \in Nat /\ m.copy \in Nat
        /\ starts \in Nat /\ starts' \in Nat /\ sent \in Nat /\ sent' \in Nat
        /\ faults["duplicate"] \in Nat /\ faults'["duplicate"] \in Nat
    BY <1>p, <1>t
  <2>2. m.run < starts \/ (m.run = starts /\ m.step <= sent)
    BY <1>p DEF Published
  <2>3. m.copy <= faults'["duplicate"]
    <3>1. m.copy <= faults["duplicate"]
      BY <1>p DEF Published
    <3> QED
      BY <1>p, <2>1, <3>1
  <2>4. m.run < starts' \/ (m.run = starts' /\ m.step <= sent')
    BY <1>p, <2>1, <2>2
  <2> QED
    BY <2>3, <2>4 DEF Published
<1>q. queue \subseteq Message /\ \A w \in Workers : pc[w] # "idle" => job[w].msg \in Message
  BY Busy DEF TypeOK
\* The handler's steps: what was published and done stays.
<1>1. ASSUME UNCHANGED <<workVars, effectVars>>,
             handler' = "open" => row'[starts'] = "open",
             \A r \in Runs : r > starts' => row'[r] = "absent",
             \A r \in Runs : row[r] = "committed" => row'[r] = "committed",
             \A m \in queue' : Published(m)',
             faults["duplicate"] <= faults'["duplicate"],
             starts < starts' \/ (starts' = starts /\ sent <= sent')
      PROVE  Lineage'
  <2>1. \A r \in Runs : row'[r] # "committed" => Nothing(r)'
    BY <1>1 DEF Lineage, Nothing, effectVars
  <2>2. ASSUME NEW w \in Workers, pc'[w] # "idle"
        PROVE  (RunOf(w))' = RunOf(w) /\ row'[RunOf(w)] = "committed" /\ Published(job[w].msg)'
    <3>1. pc' = pc /\ job' = job
      BY <1>1 DEF workVars
    <3>2. RunOf(w) \in Runs /\ row[RunOf(w)] = "committed"
      BY <2>2, <3>1, Busy DEF Lineage
    <3>3. Published(job[w].msg)'
      BY <1>1, <1>p, <1>q, <2>2, <3>1 DEF Lineage
    <3> QED
      BY <1>1, <3>1, <3>2, <3>3 DEF RunOf
  <2>3. job' = job
    BY <1>1 DEF workVars
  <2> QED
    BY <1>1, <2>1, <2>2, <2>3 DEF Lineage
<1>2. ASSUME CreateClient \/ PerformCreate PROVE Lineage'
  <2>1. /\ handler' # "open" \/ handler' = handler
        /\ starts' = starts /\ sent' = sent /\ row' = row /\ queue' = queue
        /\ faults' = faults /\ UNCHANGED <<workVars, effectVars>>
    BY <1>2 DEF CreateClient, PerformCreate
  <2>2. \A m \in queue : Published(m)'
    BY <2>1 DEF Lineage, Published
  <2> QED
    BY <1>1, <1>t, <2>1, <2>2 DEF Lineage
<1>3. ASSUME OpenRun PROVE Lineage'
  <2>1. /\ starts' = starts + 1 /\ sent' = 0 /\ queue' = queue /\ faults' = faults
        /\ row' = [row EXCEPT ![starts + 1] = "open"] /\ starts + 1 \in Runs
        /\ UNCHANGED <<workVars, effectVars>>
    BY <1>3, <1>t DEF OpenRun, Runs
  <2>2. row[starts + 1] = "absent" /\ row'[starts'] = "open"
    BY <1>t, <2>1 DEF Lineage, TypeOK
  <2>3. \A r \in Runs : r > starts' => row'[r] = "absent"
    BY <1>t, <2>1 DEF Lineage, TypeOK, Runs
  <2>4. \A r \in Runs : row[r] = "committed" => row'[r] = "committed"
    BY <2>1, <2>2 DEF TypeOK
  <2>5. \A m \in queue : Published(m)'
    BY <1>p, <1>q, <1>t, <2>1 DEF Lineage
  <2> QED
    BY <1>1, <1>t, <2>1, <2>2, <2>3, <2>4, <2>5
<1>4. ASSUME PublishStep PROVE Lineage'
  <2>0. PICK m : m = [run |-> starts, step |-> sent + 1, retries |-> 0, copy |-> 0]
    OBVIOUS
  <2>1. /\ handler' = handler /\ starts' = starts /\ sent' = sent + 1 /\ row' = row
        /\ queue' = queue \cup {m} /\ faults' = faults /\ UNCHANGED <<workVars, effectVars>>
    BY <1>4, <2>0 DEF PublishStep
  <2>2. Published(m)'
    BY <1>t, <2>0, <2>1 DEF Published
  <2>3. \A n \in queue : Published(n)'
    BY <1>p, <1>q, <1>t, <2>1 DEF Lineage
  <2> QED
    BY <1>1, <1>t, <2>1, <2>2, <2>3 DEF Lineage
<1>5. ASSUME CommitRun \/ HandlerRaises PROVE Lineage'
  <2>1. /\ handler = "open" /\ handler' # "open" /\ starts' = starts /\ sent' = sent
        /\ queue' = queue /\ faults' = faults /\ UNCHANGED <<workVars, effectVars>>
        /\ \E x : row' = [row EXCEPT ![starts] = x]
    BY <1>5 DEF CommitRun, HandlerRaises, DropRun
  <2>2. row[starts] = "open"
    BY <2>1 DEF Lineage
  <2>3. /\ \A r \in Runs : row[r] = "committed" => row'[r] = "committed"
        /\ \A r \in Runs : r > starts' => row'[r] = "absent"
    BY <1>t, <2>1, <2>2 DEF Lineage, TypeOK, Runs
  <2>4. \A m \in queue : Published(m)'
    BY <2>1 DEF Lineage, Published
  <2> QED
    BY <1>1, <1>t, <2>1, <2>3, <2>4
<1>6. ASSUME Replay PROVE Lineage'
  <2>1. /\ handler' # "open" /\ starts' = starts /\ sent' = sent /\ row' = row
        /\ queue' = queue /\ UNCHANGED <<workVars, effectVars>>
    BY <1>6 DEF Replay
  <2>2. faults'["duplicate"] = faults["duplicate"]
    BY <1>6, FaultTypes DEF Replay, FaultKinds
  <2>3. \A m \in queue : Published(m)'
    BY <2>1, <2>2 DEF Lineage, Published
  <2> QED
    BY <1>1, <1>t, <2>1, <2>2, <2>3 DEF Lineage
<1>7. ASSUME NEW m \in queue, Redeliver(m) PROVE Lineage'
  <2>0. PICK n : n = [m EXCEPT !.copy = faults["duplicate"] + 1]
    OBVIOUS
  <2>1. /\ UNCHANGED handlerVars /\ queue' = queue \cup {n} /\ UNCHANGED <<workVars, effectVars>>
    BY <1>7, <2>0 DEF Redeliver
  <2>2. faults'["duplicate"] = faults["duplicate"] + 1
    BY <1>7, FaultTypes DEF Redeliver, FaultKinds
  <2>3. n.run = m.run /\ n.step = m.step /\ n.copy = faults["duplicate"] + 1
    BY <1>q, <2>0 DEF Message
  <2>4. Published(m)' /\ \A k \in queue : Published(k)'
    BY <1>p, <1>q, <1>t, <2>1, <2>2 DEF Lineage, handlerVars
  <2>5. Published(n)'
    BY <1>t, <2>2, <2>3, <2>4 DEF Published
  <2> QED
    BY <1>1, <1>t, <2>1, <2>2, <2>4, <2>5 DEF Lineage, handlerVars
\* The workers' steps.
<1>10. ASSUME NEW w \in Workers, UNCHANGED handlerVars,
              faults'["duplicate"] = faults["duplicate"],
              \A r \in Runs : row[r] # "committed" => Nothing(r)',
              \A m \in queue' : Published(m),
              \A v \in Workers \ {w} : pc'[v] = pc[v] /\ job'[v] = job[v],
              pc'[w] = "idle" \/ (row[job'[w].msg.run] = "committed" /\ Published(job'[w].msg))
       PROVE  Lineage'
  <2>1. \A m : Published(m)' <=> Published(m)
    BY <1>10 DEF Published, handlerVars
  <2>2. ASSUME NEW v \in Workers, pc'[v] # "idle"
        PROVE  row'[job'[v].msg.run] = "committed" /\ Published(job'[v].msg)
    BY <1>10, <2>2 DEF Lineage, handlerVars, RunOf
  <2> QED
    BY <1>10, <2>1, <2>2 DEF Lineage, handlerVars, RunOf
<1>e. ASSUME NEW w \in Workers, pc[w] # "idle", mails' = mails \/ mails' = OneMail(w),
             UNCHANGED <<records, ran>>
      PROVE  \A r \in Runs : row[r] # "committed" => Nothing(r)'
  <2>1. row[RunOf(w)] = "committed"
    BY <1>e DEF Lineage
  <2>2. \A r \in Runs : r # RunOf(w) => mails'[r] = mails[r]
    BY <1>e, MailMore
  <2> QED
    BY <1>e, <2>1, <2>2 DEF Lineage, Nothing
<1>11. ASSUME NEW w \in Workers, Finish(w)
       PROVE  /\ pc'[w] = "idle"
              /\ \A v \in Workers \ {w} : pc'[v] = pc[v] /\ job'[v] = job[v]
  BY <1>11 DEF Finish, TypeOK
<1>12. ASSUME NEW w \in Workers, NEW m \in queue, TakeStep(w, m) PROVE Lineage'
  <2>1. UNCHANGED handlerVars /\ faults' = faults /\ queue' = queue \ {m}
        /\ UNCHANGED <<mails, records, ran>>
    BY <1>12 DEF TakeStep
  <2>2. \A v \in Workers \ {w} : pc'[v] = pc[v] /\ job'[v] = job[v]
    BY <1>12 DEF TakeStep, TypeOK, workVars
  <2>3. pc'[w] = "idle" \/ (job'[w].msg = m /\ row[m.run] = "committed")
    BY <1>12 DEF TakeStep, TypeOK, workVars, Visible
  <2> QED
    BY <1>10, <2>1, <2>2, <2>3 DEF Lineage, Nothing
<1>13. ASSUME NEW w \in Workers, StepReturns(w) PROVE Lineage'
  <2>1. /\ UNCHANGED handlerVars /\ faults' = faults /\ queue' = queue /\ job' = job
        /\ pc[w] # "idle" /\ \A v \in Workers \ {w} : pc'[v] = pc[v]
    BY <1>13 DEF StepReturns, TypeOK
  <2>2. row[RunOf(w)] = "committed" /\ Published(job[w].msg)
    BY <2>1 DEF Lineage
  <2>3. \A r \in Runs : r # RunOf(w) =>
          /\ ran'[r] = ran[r] /\ mails'[r] = mails[r]
          /\ \A s \in Steps : <<r, s>> \in records' <=> <<r, s>> \in records
    BY <1>13, MailMore DEF StepReturns, TypeOK
  <2>4. \A r \in Runs : row[r] # "committed" => Nothing(r)'
    BY <2>2, <2>3 DEF Lineage, Nothing
  <2> QED
    BY <1>10, <2>1, <2>2, <2>4 DEF Lineage, RunOf
<1>14. ASSUME NEW w \in Workers, StepRaises(w) \/ SendUnanswered(w) PROVE Lineage'
  <2> DEFINE m == job[w].msg
             n == [m EXCEPT !.retries = @ + 1]
  <2>1. /\ UNCHANGED handlerVars /\ UNCHANGED <<records, ran>>
        /\ mails' = mails \/ mails' = OneMail(w)
        /\ pc[w] # "idle" /\ Finish(w) /\ queue' \subseteq queue \cup {n}
    BY <1>14 DEF StepRaises, SendUnanswered, RetryStep
  <2>5. faults'["duplicate"] = faults["duplicate"]
    BY <1>14, FaultTypes DEF StepRaises, SendUnanswered, FaultKinds
  <2>6. \A r \in Runs : row[r] # "committed" => Nothing(r)'
    BY <1>e, <2>1
  <2>2. Published(m) /\ m \in Message
    BY <1>q, <2>1 DEF Lineage
  <2>3. n.run = m.run /\ n.step = m.step /\ n.copy = m.copy
    BY <2>2 DEF Message
  <2>4. Published(n)
    BY <2>2, <2>3 DEF Published
  <2> HIDE DEF m, n
  <2> QED
    BY <1>10, <1>11, <2>1, <2>4, <2>5, <2>6 DEF Lineage
<1>15. ASSUME NEW w \in Workers, CountStep(w) PROVE Lineage'
  <2>1. /\ UNCHANGED handlerVars /\ faults' = faults /\ queue' = queue /\ job' = job
        /\ UNCHANGED effectVars
        /\ pc[w] # "idle" /\ \A v \in Workers \ {w} : pc'[v] = pc[v]
    BY <1>15 DEF CountStep, TypeOK
  <2> QED
    BY <1>10, <2>1 DEF Lineage, RunOf, Nothing, effectVars
<1>16. ASSUME NEW w \in Workers, CloseRun(w) \/ WorkerCrash(w) PROVE Lineage'
  <2>1. /\ UNCHANGED handlerVars /\ queue' = queue /\ UNCHANGED <<records, ran>>
        /\ Finish(w) /\ pc[w] # "idle"
    BY <1>16 DEF CloseRun, WorkerCrash, effectVars
  <2>2. faults'["duplicate"] = faults["duplicate"]
    BY <1>16, FaultTypes DEF CloseRun, WorkerCrash, FaultKinds
  <2>3. mails' = mails \/ mails' = OneMail(w)
    BY <1>16, CrashMails DEF CloseRun, effectVars
  <2>4. \A r \in Runs : row[r] # "committed" => Nothing(r)'
    BY <1>e, <2>1, <2>3
  <2> QED
    BY <1>10, <1>11, <2>1, <2>2, <2>4 DEF Lineage
<1>17. CASE UNCHANGED vars
  <2>1. \A m : Published(m)' <=> Published(m)
    BY <1>17 DEF Published, vars, handlerVars
  <2> QED
    BY <1>17, <2>1 DEF Lineage, Nothing, RunOf, vars, handlerVars, workVars, effectVars
<1> QED
  BY <1>2, <1>3, <1>4, <1>5, <1>6, <1>7, <1>12, <1>13, <1>14, <1>15, <1>16, <1>17
  DEF Next, HandlerStep, WorkerStep

\* Nothing is published, running or done before the handler ran.
LEMMA LineageInit == Init => Lineage
  BY DEF Init, Lineage, Nothing

\* No mail and no task comes of a run that was rolled back, whatever its
\* handler left in the broker.
THEOREM NoEffectWithoutRunHolds == Spec => []NoEffectWithoutRun
<1>1. Lineage => NoEffectWithoutRun
  BY DEF Lineage, Nothing, NoEffectWithoutRun
<1> QED
  BY <1>1, TypeCorrect, LineageInit, LineageStep, PTL DEF Spec

------------------------------------------------------------------------------
(* Deliveries.  A delivery is a message whatever its retries; it waits in the *)
(* queue or is being handled, in one place at a time.                         *)

Tok(m) == <<<<m.run, m.step>>, m.copy>>
Tokens == (Runs \X Steps) \X (0..MaxRepeats)
Handling == {w \in Workers : pc[w] = "handling"}
Alive == {Tok(m) : m \in queue} \cup {Tok(job[w].msg) : w \in Handling}

Unique ==
  /\ \A m, n \in queue : Tok(m) = Tok(n) => m = n
  /\ \A m \in queue, w \in Handling : Tok(m) # Tok(job[w].msg)
  /\ \A v, w \in Handling : Tok(job[v].msg) = Tok(job[w].msg) => v = w

LEMMA TokFields ==
  ASSUME NEW m \in Message
  PROVE  /\ Tok(m) \in Tokens
         /\ Tok(m)[1] = <<m.run, m.step>> /\ Tok(m)[2] = m.copy
         /\ Tok(m)[1][1] = m.run /\ Tok(m)[1][2] = m.step
         /\ m.run \in Nat /\ m.step \in Nat /\ m.copy \in Nat
  BY FaultsAssumption, MaxStartsAssumption DEF Tok, Tokens, Message, Runs, Steps

LEMMA AliveFinite == TypeOK => Alive \subseteq Tokens /\ IsFiniteSet(Alive)
<1> SUFFICES ASSUME TypeOK PROVE Alive \subseteq Tokens /\ IsFiniteSet(Alive)
  OBVIOUS
<1>1. \A m \in queue : Tok(m) \in Tokens
  BY TokFields DEF TypeOK
<1>2. \A w \in Handling : Tok(job[w].msg) \in Tokens
  BY Busy, TokFields DEF Handling
<1>3. Alive \subseteq Tokens
  BY <1>1, <1>2 DEF Alive
<1>4. IsFiniteSet(Runs) /\ IsFiniteSet(Steps) /\ IsFiniteSet(0..MaxRepeats)
  BY FS_Interval, MaxStartsAssumption, FaultsAssumption, NoJob DEF Runs, Steps
<1>5. IsFiniteSet(Runs \X Steps)
  BY <1>4, FS_Product
<1>6. IsFiniteSet(Tokens)
  BY <1>4, <1>5, FS_Product DEF Tokens
<1> QED
  BY <1>3, <1>6, FS_Subset

\* A worker that takes, gives up or ends a delivery makes no other.
LEMMA Fewer ==
  ASSUME TypeOK, Unique, queue' \subseteq queue, Handling' \subseteq Handling,
         \A w \in Handling' : job'[w].msg = job[w].msg
  PROVE  Unique' /\ Alive' \subseteq Alive
<1>1. Unique'
  BY DEF Unique, Tok
<1> QED
  BY <1>1 DEF Alive, Tok

\* What is published, and what is delivered again, is a new delivery; a worker
\* whose handler returns has its own for the last time.
Grows(t) == Alive' = Alive \cup {t} /\ t \notin Alive
Again(m) == <<<<m.run, m.step>>, faults["duplicate"] + 1>>

LEMMA AddOne ==
  ASSUME TypeOK, TypeOK', Unique, NEW n \in Message, Tok(n) \notin Alive,
         queue' = queue \cup {n}, UNCHANGED workVars
  PROVE  Unique' /\ Alive' = Alive \cup {Tok(n)}
<1>1. Handling' = Handling /\ job' = job
  BY DEF Handling, workVars
<1>2. /\ \A m \in queue : Tok(m) # Tok(n)
      /\ \A w \in Handling : Tok(job[w].msg) # Tok(n)
  BY DEF Alive
<1>3. /\ \A k, m \in queue' : Tok(k) = Tok(m) => k = m
      /\ \A m \in queue', w \in Handling : Tok(m) # Tok(job[w].msg)
  BY <1>2 DEF Unique
<1>4. Unique'
  BY <1>1, <1>3 DEF Unique, Tok
<1>5. Alive' = Alive \cup {Tok(n)}
  BY <1>1 DEF Alive, Tok
<1> QED
  BY <1>4, <1>5

LEMMA Fresh ==
  ASSUME TypeOK, Lineage, NEW t \in Alive
  PROVE  \E m \in Message : t = Tok(m) /\ Published(m)
<1>1. CASE \E m \in queue : t = Tok(m)
  BY <1>1 DEF Lineage, TypeOK
<1>2. CASE \E w \in Handling : t = Tok(job[w].msg)
  BY <1>2, Busy DEF Lineage, Handling
<1> QED
  BY <1>1, <1>2 DEF Alive

LEMMA PublishGrows ==
  ASSUME TypeOK, TypeOK', Lineage, Unique, PublishStep
  PROVE  Unique' /\ Grows(<<<<starts, sent + 1>>, 0>>)
<1>0. PICK n : n = [run |-> starts, step |-> sent + 1, retries |-> 0, copy |-> 0]
  OBVIOUS
<1>1. queue' = queue \cup {n} /\ UNCHANGED workVars
  BY <1>0 DEF PublishStep
<1>2. n \in Message
  BY <1>1 DEF TypeOK
<1>3. Tok(n) = <<<<starts, sent + 1>>, 0>>
  BY <1>0 DEF Tok
<1>4. ASSUME Tok(n) \in Alive PROVE FALSE
  <2>1. PICK m \in Message : Tok(n) = Tok(m) /\ Published(m)
    BY <1>4, Fresh
  <2>2. m.run = starts /\ m.step = sent + 1
    BY <1>0, <1>2, <2>1, TokFields
  <2>3. sent \in Nat /\ starts \in Nat
    BY NoJob, MaxStartsAssumption DEF TypeOK
  <2> QED
    BY <2>1, <2>2, <2>3 DEF Published
<1> QED
  BY <1>1, <1>2, <1>3, <1>4, AddOne DEF Grows

LEMMA RedeliverGrows ==
  ASSUME TypeOK, TypeOK', Lineage, Unique, NEW m \in queue, Redeliver(m)
  PROVE  Unique' /\ Grows(Again(m))
<1>0. PICK n : n = [m EXCEPT !.copy = faults["duplicate"] + 1]
  OBVIOUS
<1>1. queue' = queue \cup {n} /\ UNCHANGED workVars
  BY <1>0 DEF Redeliver
<1>2. n \in Message /\ m \in Message
  BY <1>1 DEF TypeOK
<1>3. Tok(n) = Again(m) /\ n.copy = faults["duplicate"] + 1
  BY <1>0, <1>2 DEF Tok, Again, Message
<1>4. ASSUME Tok(n) \in Alive PROVE FALSE
  <2>1. PICK k \in Message : Tok(n) = Tok(k) /\ Published(k)
    BY <1>4, Fresh
  <2>2. k.copy = faults["duplicate"] + 1
    BY <1>2, <1>3, <2>1, TokFields
  <2>3. faults["duplicate"] \in Nat
    BY DEF TypeOK, FaultKinds
  <2> QED
    BY <2>1, <2>2, <2>3 DEF Published
<1> QED
  BY <1>1, <1>2, <1>3, <1>4, AddOne DEF Grows

LEMMA ReturnShrinks ==
  ASSUME TypeOK, Unique, NEW w \in Workers, StepReturns(w)
  PROVE  /\ Unique' /\ Alive' = Alive \ {Tok(job[w].msg)}
         /\ Tok(job[w].msg) \in Alive
<1>1. /\ w \in Handling /\ queue' = queue /\ job' = job
      /\ Handling' = Handling \ {w}
  BY DEF StepReturns, Handling, TypeOK
<1>2. Unique' /\ Alive' \subseteq Alive
  BY <1>1, Fewer
<1>3. Tok(job[w].msg) \in Alive
  BY <1>1 DEF Alive
<1>4. Tok(job[w].msg) \notin Alive'
  BY <1>1 DEF Alive, Unique, Tok
<1>5. \A t \in Alive : t # Tok(job[w].msg) => t \in Alive'
  BY <1>1 DEF Alive, Tok
<1> QED
  BY <1>2, <1>3, <1>4, <1>5

LEMMA RaiseKeeps ==
  ASSUME TypeOK, TypeOK', Unique, NEW w \in Workers, RetryStep(w)
  PROVE  Unique' /\ Alive' \subseteq Alive
<1>0. PICK n : n = [job[w].msg EXCEPT !.retries = @ + 1]
  OBVIOUS
<1>1. /\ w \in Handling /\ Handling' = Handling \ {w}
      /\ \A v \in Handling' : job'[v] = job[v]
      /\ queue' = queue \/ queue' = queue \cup {n}
  BY <1>0 DEF RetryStep, Finish, Handling, TypeOK
<1>2. CASE queue' = queue
  BY <1>1, <1>2, Fewer
<1>3. CASE queue' = queue \cup {n}
  <2>1. job[w].msg \in Message
    BY <1>1, Busy DEF Handling
  <2>2. Tok(n) = Tok(job[w].msg)
    BY <1>0, <2>1 DEF Tok, Message
  <2>3. /\ \A m \in queue : Tok(m) # Tok(n)
        /\ \A v \in Handling' : Tok(job'[v].msg) # Tok(n)
    BY <1>1, <2>2 DEF Unique
  <2>4. /\ \A k, m \in queue' : Tok(k) = Tok(m) => k = m
        /\ \A m \in queue', v \in Handling' : Tok(m) # Tok(job'[v].msg)
        /\ \A u, v \in Handling' : Tok(job'[u].msg) = Tok(job'[v].msg) => u = v
    BY <1>1, <1>3, <2>3 DEF Unique
  <2>5. Unique'
    BY <2>4 DEF Unique, Tok
  <2>6. Alive' \subseteq Alive
    BY <1>1, <1>3, <2>2 DEF Alive, Tok
  <2> QED
    BY <2>5, <2>6
<1> QED
  BY <1>1, <1>2, <1>3

LEMMA TakeKeeps ==
  ASSUME TypeOK, Unique, NEW w \in Workers, NEW m \in queue, TakeStep(w, m)
  PROVE  Unique' /\ Alive' \subseteq Alive
<1>1. /\ pc[w] = "idle" /\ queue' = queue \ {m} /\ w \notin Handling
      /\ \A v \in Workers \ {w} : pc'[v] = pc[v] /\ job'[v] = job[v]
      /\ pc'[w] = "idle" \/ (pc'[w] = "handling" /\ job'[w].msg = m)
  BY DEF TakeStep, TypeOK, workVars, Handling
<1>2. CASE pc'[w] = "idle"
  BY <1>1, <1>2, Fewer DEF Handling
<1>3. CASE pc'[w] = "handling" /\ job'[w].msg = m
  <2>1. Handling' = Handling \cup {w} /\ \A v \in Handling : v # w /\ job'[v] = job[v]
    BY <1>1, <1>3 DEF Handling
  <2>2. /\ \A k, n \in queue' : Tok(k) = Tok(n) => k = n
        /\ \A k \in queue', v \in Handling' : Tok(k) # Tok(job'[v].msg)
        /\ \A u, v \in Handling' : Tok(job'[u].msg) = Tok(job'[v].msg) => u = v
    BY <1>1, <1>3, <2>1 DEF Unique
  <2>3. Unique'
    BY <2>2 DEF Unique, Tok
  <2>4. Alive' \subseteq Alive
    BY <1>1, <1>3, <2>1 DEF Alive, Tok
  <2> QED
    BY <2>3, <2>4
<1> QED
  BY <1>1, <1>2, <1>3

\* A worker that dies in a step's handler takes the delivery with it.
LEMMA CrashShrinks ==
  ASSUME TypeOK, Unique, NEW w \in Workers, WorkerCrash(w)
  PROVE  /\ Unique' /\ Alive' \subseteq Alive
         /\ pc[w] = "handling" => /\ Alive' \subseteq Alive \ {Tok(job[w].msg)}
                                 /\ Tok(job[w].msg) \in Alive
<1>1. /\ queue' = queue /\ Handling' = Handling \ {w}
      /\ \A v \in Handling' : job'[v] = job[v]
  BY DEF WorkerCrash, Finish, Handling, TypeOK
<1>2. Unique' /\ Alive' \subseteq Alive
  BY <1>1, Fewer
<1>3. CASE pc[w] = "handling"
  <2>1. w \in Handling
    BY <1>3 DEF Handling
  <2>2. Tok(job[w].msg) \in Alive
    BY <2>1 DEF Alive
  <2>3. Tok(job[w].msg) \notin Alive'
    BY <1>1, <2>1 DEF Alive, Unique, Tok
  <2> QED
    BY <1>2, <2>2, <2>3
<1> QED
  BY <1>2, <1>3

\* The other steps make no delivery and run no handler of a step.
Quiet ==
  /\ Alive' \subseteq Alive /\ mails' = mails /\ ran' = ran
  /\ faults'["duplicate"] = faults["duplicate"]
  /\ faults'["answer"] = faults["answer"]

LEMMA QuietSteps ==
  ASSUME TypeOK, TypeOK', Unique, [Next]_vars, ~PublishStep,
         \A m \in queue : ~Redeliver(m),
         \A w \in Workers : ~StepReturns(w) /\ ~SendUnanswered(w) /\ ~WorkerCrash(w)
  PROVE  Unique' /\ Quiet
<1>1. ASSUME queue' = queue, UNCHANGED workVars PROVE Unique' /\ Alive' \subseteq Alive
  BY <1>1, Fewer DEF workVars, Handling
<1>2. CASE CreateClient \/ PerformCreate \/ OpenRun \/ CommitRun \/ HandlerRaises
  <2>1. queue' = queue /\ UNCHANGED <<workVars, effectVars, faults>>
    BY <1>2 DEF CreateClient, PerformCreate, OpenRun, CommitRun, HandlerRaises
  <2> QED
    BY <1>1, <2>1 DEF Quiet, effectVars
<1>3. CASE Replay
  <2>1. queue' = queue /\ UNCHANGED <<workVars, effectVars>>
    BY <1>3 DEF Replay
  <2>2. faults'["duplicate"] = faults["duplicate"] /\ faults'["answer"] = faults["answer"]
    BY <1>3, FaultTypes DEF Replay, FaultKinds
  <2> QED
    BY <1>1, <2>1, <2>2 DEF Quiet, effectVars
<1>4. ASSUME NEW w \in Workers, NEW m \in queue, TakeStep(w, m) PROVE Unique' /\ Quiet
  BY <1>4, TakeKeeps DEF Quiet, TakeStep
<1>5. ASSUME NEW w \in Workers, StepRaises(w) PROVE Unique' /\ Quiet
  BY <1>5, RaiseKeeps DEF Quiet, StepRaises, RetryStep
<1>6. ASSUME NEW w \in Workers, CountStep(w) PROVE Unique' /\ Quiet
  <2>1. queue' = queue /\ job' = job /\ Handling' \subseteq Handling
    BY <1>6 DEF CountStep, Handling, TypeOK
  <2> QED
    BY <1>6, <2>1, Fewer DEF Quiet, CountStep, effectVars
<1>7. ASSUME NEW w \in Workers, CloseRun(w) PROVE Unique' /\ Quiet
  <2>1. queue' = queue /\ UNCHANGED effectVars /\ faults' = faults /\ Finish(w)
    BY <1>7 DEF CloseRun
  <2>2. Handling' \subseteq Handling /\ \A v \in Handling' : job'[v] = job[v]
    BY <2>1 DEF Finish, Handling, TypeOK
  <2> QED
    BY <2>1, <2>2, Fewer DEF Quiet, effectVars
<1>8. CASE UNCHANGED vars
  BY <1>1, <1>8 DEF Quiet, vars, effectVars
<1> QED
  BY <1>2, <1>3, <1>4, <1>5, <1>6, <1>7, <1>8 DEF Next, HandlerStep, WorkerStep

LEMMA UniqueStep == TypeOK /\ TypeOK' /\ Lineage /\ Unique /\ [Next]_vars => Unique'
<1> SUFFICES ASSUME TypeOK, TypeOK', Lineage, Unique, [Next]_vars PROVE Unique'
  OBVIOUS
<1>1. ASSUME NEW w \in Workers, SendUnanswered(w) PROVE Unique'
  BY <1>1, RaiseKeeps DEF SendUnanswered
<1> QED
  BY <1>1, PublishGrows, RedeliverGrows, ReturnShrinks, CrashShrinks, QuietSteps

------------------------------------------------------------------------------
(* Counting.                                                                  *)

LEMMA Within ==
  ASSUME NEW S, NEW T, IsFiniteSet(S), T \subseteq S
  PROVE  /\ IsFiniteSet(T) /\ Cardinality(T) \in Nat /\ Cardinality(S) \in Nat
         /\ Cardinality(T) <= Cardinality(S)
  BY FS_Subset, FS_CardinalityType

LEMMA Grow ==
  ASSUME NEW S, NEW T, NEW x, IsFiniteSet(S), T \subseteq S \cup {x}
  PROVE  /\ IsFiniteSet(T) /\ Cardinality(T) \in Nat /\ Cardinality(S) \in Nat
         /\ Cardinality(T) <= Cardinality(S) + 1
<1>1. /\ IsFiniteSet(S \cup {x}) /\ Cardinality(S) \in Nat
      /\ Cardinality(S \cup {x}) <= Cardinality(S) + 1
  <2>1. Cardinality(S) \in Nat
    BY FS_CardinalityType
  <2>2. /\ IsFiniteSet(S \cup {x})
        /\ Cardinality(S \cup {x}) = IF x \in S THEN Cardinality(S) ELSE Cardinality(S) + 1
    BY FS_AddElement
  <2> QED
    BY <2>1, <2>2
<1>2. /\ IsFiniteSet(T) /\ Cardinality(T) \in Nat /\ Cardinality(S \cup {x}) \in Nat
      /\ Cardinality(T) <= Cardinality(S \cup {x})
  BY <1>1, Within
<1> QED
  BY <1>1, <1>2

LEMMA Drop ==
  ASSUME NEW S, NEW T, NEW x \in S, IsFiniteSet(S), T \subseteq S \ {x}
  PROVE  /\ IsFiniteSet(T) /\ Cardinality(T) \in Nat /\ Cardinality(S) \in Nat
         /\ Cardinality(T) + 1 <= Cardinality(S)
<1>1. /\ IsFiniteSet(S \ {x}) /\ Cardinality(S) \in Nat
      /\ Cardinality(S \ {x}) = Cardinality(S) - 1
  BY FS_RemoveElement, FS_CardinalityType
<1>2. /\ IsFiniteSet(T) /\ Cardinality(T) \in Nat /\ Cardinality(S \ {x}) \in Nat
      /\ Cardinality(T) <= Cardinality(S \ {x})
  BY <1>1, Within
<1> QED
  BY <1>1, <1>2

\* Deliveries of a step, and those of a run that would count a step again.
Letters(r, s) == {t \in Alive : t[1] = <<r, s>>}
Twice(r) == {t \in Alive : t[1][1] = r /\ (t[2] > 0 \/ t[1][2] \in ran[r])}

\* A mail and what may still send it came of the publication, of a duplicate or
\* of a try whose answer was lost.
Excused == 1 + faults["duplicate"] + faults["answer"]
Mailed(r, s) == mails[r][s] + Cardinality(Letters(r, s)) <= Excused

LEMMA MailedStep ==
  ASSUME TypeOK, TypeOK', Lineage, Unique, [Next]_vars,
         NEW r \in Runs, NEW s \in Steps, Mailed(r, s)
  PROVE  Mailed(r, s)'
<1>0. /\ mails[r][s] \in Nat /\ mails'[r][s] \in Nat
      /\ Excused \in Nat /\ Excused' \in Nat
      /\ faults["duplicate"] \in Nat /\ faults'["duplicate"] \in Nat
      /\ faults["answer"] \in Nat /\ faults'["answer"] \in Nat
  <2>1. mails[r][s] \in Nat /\ mails'[r][s] \in Nat
    BY DEF TypeOK
  <2>2. /\ faults["duplicate"] \in Nat /\ faults'["duplicate"] \in Nat
        /\ faults["answer"] \in Nat /\ faults'["answer"] \in Nat
    BY DEF TypeOK, FaultKinds
  <2> QED
    BY <2>1, <2>2 DEF Excused
<1>1. IsFiniteSet(Letters(r, s))
  BY AliveFinite, FS_Subset DEF Letters
<1>2. CASE Quiet
  <2>1. Letters(r, s)' \subseteq Letters(r, s)
    BY <1>2 DEF Quiet, Letters
  <2>2. /\ Cardinality(Letters(r, s)') <= Cardinality(Letters(r, s))
        /\ Cardinality(Letters(r, s)') \in Nat /\ Cardinality(Letters(r, s)) \in Nat
    BY <1>1, <2>1, Within
  <2>3. mails' = mails /\ Excused' = Excused
    BY <1>2 DEF Quiet, Excused
  <2> QED
    BY <1>0, <2>2, <2>3 DEF Mailed
<1>3. CASE PublishStep
  <2>1. Grows(<<<<starts, sent + 1>>, 0>>) /\ mails' = mails /\ Excused' = Excused
    BY <1>3, PublishGrows DEF PublishStep, effectVars, Excused
  <2>0. Excused >= 1
    BY <1>0 DEF Excused
  <2>2. CASE r = starts /\ s = sent + 1
    <3>1. mails[r][s] = 0
      BY <1>3, <2>2 DEF PublishStep, Lineage, Nothing
    <3>2. Letters(r, s) = {}
      <4> SUFFICES ASSUME NEW t \in Letters(r, s) PROVE FALSE
        OBVIOUS
      <4>1. PICK m \in Message : t = Tok(m) /\ Published(m)
        BY Fresh DEF Letters
      <4>2. m.run = r /\ m.step = s
        BY <4>1, TokFields DEF Letters
      <4>3. sent \in Nat /\ starts \in Nat
        BY NoJob, MaxStartsAssumption DEF TypeOK
      <4> QED
        BY <2>2, <4>1, <4>2, <4>3 DEF Published
    <3>3. Letters(r, s)' \subseteq {<<<<starts, sent + 1>>, 0>>}
      BY <2>1, <3>2 DEF Grows, Letters
    <3>4. Cardinality(Letters(r, s)') <= 1 /\ Cardinality(Letters(r, s)') \in Nat
      <4> DEFINE one == {<<<<starts, sent + 1>>, 0>>}
      <4>1. IsFiniteSet(one) /\ Cardinality(one) = 1
        BY FS_Singleton
      <4> HIDE DEF one
      <4>2. Letters(r, s)' \subseteq one
        BY <3>3 DEF one
      <4> QED
        BY <4>1, <4>2, Within
    <3> QED
      BY <1>0, <2>0, <2>1, <3>1, <3>4 DEF Mailed
  <2>3. CASE ~(r = starts /\ s = sent + 1)
    <3>1. Letters(r, s)' \subseteq Letters(r, s)
      BY <2>1, <2>3 DEF Grows, Letters
    <3>2. /\ Cardinality(Letters(r, s)') <= Cardinality(Letters(r, s))
          /\ Cardinality(Letters(r, s)') \in Nat /\ Cardinality(Letters(r, s)) \in Nat
      BY <1>1, <3>1, Within
    <3> QED
      BY <1>0, <2>1, <3>2 DEF Mailed
  <2> QED
    BY <2>2, <2>3
<1>4. ASSUME NEW m \in queue, Redeliver(m) PROVE Mailed(r, s)'
  <2>1. Grows(Again(m)) /\ mails' = mails
    BY <1>4, RedeliverGrows DEF Redeliver, effectVars
  <2>2. Excused' = Excused + 1
    <3>1. /\ faults'["duplicate"] = faults["duplicate"] + 1
          /\ faults'["answer"] = faults["answer"]
      BY <1>4, FaultTypes DEF Redeliver, FaultKinds
    <3> QED
      BY <1>0, <3>1 DEF Excused
  <2>3. Letters(r, s)' \subseteq Letters(r, s) \cup {Again(m)}
    BY <2>1 DEF Grows, Letters
  <2>4. /\ Cardinality(Letters(r, s)') <= Cardinality(Letters(r, s)) + 1
        /\ Cardinality(Letters(r, s)') \in Nat /\ Cardinality(Letters(r, s)) \in Nat
    BY <1>1, <2>3, Grow
  <2> QED
    BY <1>0, <2>1, <2>2, <2>4 DEF Mailed
\* The last mail of a delivery.
<1>5. ASSUME NEW w \in Workers, pc[w] = "handling", Tok(job[w].msg) \in Alive,
             Alive' \subseteq Alive \ {Tok(job[w].msg)},
             mails' = mails \/ mails' = OneMail(w), Excused' = Excused
      PROVE  Mailed(r, s)'
  <2>1. PICK t : t = Tok(job[w].msg)
    OBVIOUS
  <2>2. Alive' \subseteq Alive \ {t} /\ t \in Alive /\ Excused' = Excused
    BY <1>5, <2>1
  <2>3. job[w].msg \in Message /\ RunOf(w) = job[w].msg.run /\ StepOf(w) = job[w].msg.step
    BY <1>5, Busy DEF RunOf, StepOf
  <2>4. t[1] = <<RunOf(w), StepOf(w)>>
    BY <2>1, <2>3, TokFields
  <2>5. CASE r = RunOf(w) /\ s = StepOf(w)
    <3>1. mails'[r][s] <= mails[r][s] + 1
      BY <1>0, <1>5, <2>5, MailMore
    <3>2. Letters(r, s)' \subseteq Letters(r, s) \ {t} /\ t \in Letters(r, s)
      BY <2>2, <2>4, <2>5 DEF Letters
    <3>3. /\ Cardinality(Letters(r, s)') + 1 <= Cardinality(Letters(r, s))
          /\ Cardinality(Letters(r, s)') \in Nat /\ Cardinality(Letters(r, s)) \in Nat
      BY <1>1, <3>2, Drop
    <3> QED
      BY <1>0, <2>2, <3>1, <3>3 DEF Mailed
  <2>6. CASE ~(r = RunOf(w) /\ s = StepOf(w))
    <3>1. mails'[r][s] = mails[r][s]
      BY <1>5, <2>6, MailMore
    <3>2. Letters(r, s)' \subseteq Letters(r, s)
      BY <2>2 DEF Letters
    <3>3. /\ Cardinality(Letters(r, s)') <= Cardinality(Letters(r, s))
          /\ Cardinality(Letters(r, s)') \in Nat /\ Cardinality(Letters(r, s)) \in Nat
      BY <1>1, <3>2, Within
    <3> QED
      BY <1>0, <2>2, <3>1, <3>3 DEF Mailed
  <2> QED
    BY <2>5, <2>6
<1>6. ASSUME NEW w \in Workers, StepReturns(w) PROVE Mailed(r, s)'
  <2>1. /\ pc[w] = "handling" /\ Excused' = Excused
        /\ mails' = mails \/ mails' = OneMail(w)
    BY <1>6 DEF StepReturns, Excused
  <2>2. Alive' = Alive \ {Tok(job[w].msg)} /\ Tok(job[w].msg) \in Alive
    BY <1>6, ReturnShrinks
  <2> QED
    BY <1>5, <2>1, <2>2
<1>7. ASSUME NEW w \in Workers, WorkerCrash(w) PROVE Mailed(r, s)'
  <2>1. Excused' = Excused
    <3>1. /\ faults'["duplicate"] = faults["duplicate"]
          /\ faults'["answer"] = faults["answer"]
      BY <1>7, FaultTypes DEF WorkerCrash, FaultKinds
    <3> QED
      BY <3>1 DEF Excused
  <2>2. CASE pc[w] = "handling"
    BY <1>5, <1>7, <2>1, <2>2, CrashMails, CrashShrinks
  <2>3. CASE pc[w] # "handling"
    <3>1. mails' = mails
      BY <1>7, <2>3, CrashMails
    <3>2. Letters(r, s)' \subseteq Letters(r, s)
      BY <1>7, CrashShrinks DEF Letters
    <3>3. /\ Cardinality(Letters(r, s)') <= Cardinality(Letters(r, s))
          /\ Cardinality(Letters(r, s)') \in Nat /\ Cardinality(Letters(r, s)) \in Nat
      BY <1>1, <3>2, Within
    <3> QED
      BY <1>0, <2>1, <3>1, <3>3 DEF Mailed
  <2> QED
    BY <2>2, <2>3
<1>8. ASSUME NEW w \in Workers, SendUnanswered(w) PROVE Mailed(r, s)'
  <2>1. Excused' = Excused + 1
    <3>1. /\ faults'["duplicate"] = faults["duplicate"]
          /\ faults'["answer"] = faults["answer"] + 1
      BY <1>8, FaultTypes DEF SendUnanswered, FaultKinds
    <3> QED
      BY <1>0, <3>1 DEF Excused
  <2>2. mails'[r][s] <= mails[r][s] + 1
    BY <1>0, <1>8, MailMore DEF SendUnanswered, RetryStep
  <2>3. Letters(r, s)' \subseteq Letters(r, s)
    BY <1>8, RaiseKeeps DEF Letters, SendUnanswered
  <2>4. /\ Cardinality(Letters(r, s)') <= Cardinality(Letters(r, s))
        /\ Cardinality(Letters(r, s)') \in Nat /\ Cardinality(Letters(r, s)) \in Nat
    BY <1>1, <2>3, Within
  <2> QED
    BY <1>0, <2>1, <2>2, <2>4 DEF Mailed
<1> QED
  BY <1>2, <1>3, <1>4, <1>6, <1>7, <1>8, QuietSteps

\* The count of a run: no increment is lost but by a worker that died, and none
\* is made twice but for a duplicate, past or still to come.
Total(r) == completed[r] + Cardinality(Counting(r))
Tally(r) ==
  /\ Total(r) + Cardinality(Twice(r)) <= Cardinality(ran[r]) + faults["duplicate"]
  /\ Total(r) + faults["worker"] >= Cardinality(ran[r])

LEMMA Sizes ==
  ASSUME TypeOK, NEW r \in Runs
  PROVE  /\ IsFiniteSet(Counting(r)) /\ Cardinality(Counting(r)) \in Nat
         /\ IsFiniteSet(Twice(r)) /\ Cardinality(Twice(r)) \in Nat
         /\ IsFiniteSet(ran[r]) /\ Cardinality(ran[r]) \in Nat
         /\ completed[r] \in Nat /\ faults["duplicate"] \in Nat /\ faults["worker"] \in Nat
<1>1. IsFiniteSet(Counting(r)) /\ Cardinality(Counting(r)) \in Nat
  BY WorkersAssumption, Within DEF Counting
<1>2. IsFiniteSet(Twice(r)) /\ Cardinality(Twice(r)) \in Nat
  BY AliveFinite, Within DEF Twice
<1>3. IsFiniteSet(Steps)
  BY FS_Interval, NoJob DEF Steps
<1>4. IsFiniteSet(ran[r]) /\ Cardinality(ran[r]) \in Nat
  BY <1>3, Within DEF TypeOK
<1> QED
  BY <1>1, <1>2, <1>4 DEF TypeOK, FaultKinds

\* A step that counts nothing.
LEMMA TallyQuiet ==
  ASSUME TypeOK, NEW r \in Runs, Tally(r), Alive' \subseteq Alive, ran'[r] = ran[r],
         Counting(r)' = Counting(r), completed'[r] = completed[r],
         faults'["duplicate"] = faults["duplicate"], faults'["worker"] = faults["worker"]
  PROVE  Tally(r)'
<1>1. Twice(r)' \subseteq Twice(r)
  BY DEF Twice
<1>2. Cardinality(Twice(r)') <= Cardinality(Twice(r)) /\ Cardinality(Twice(r)') \in Nat
  BY <1>1, Sizes, Within
<1> QED
  BY <1>2, Sizes DEF Tally, Total

\* Who counts after a step that leaves the other workers alone.
LEMMA CountingOthers ==
  ASSUME NEW r \in Runs, NEW w \in Workers,
         \A v \in Workers \ {w} : pc'[v] = pc[v] /\ job'[v] = job[v]
  PROVE  /\ Counting(r)' \ {w} = Counting(r) \ {w}
         /\ w \in Counting(r) <=> pc[w] = "counting" /\ RunOf(w) = r
         /\ w \in Counting(r)' <=> pc'[w] = "counting" /\ (RunOf(w))' = r
  BY DEF Counting, RunOf

\* A step's handler returns: its worker is about to count it.
LEMMA TallyReturns ==
  ASSUME TypeOK, TypeOK', Lineage, Unique, NEW r \in Runs, Tally(r),
         NEW w \in Workers, StepReturns(w)
  PROVE  Tally(r)'
<1>0. PICK t : t = Tok(job[w].msg)
  OBVIOUS
<1>1. Alive' = Alive \ {t} /\ t \in Alive
  BY <1>0, ReturnShrinks
<1>2. job[w].msg \in Message /\ RunOf(w) = job[w].msg.run /\ StepOf(w) = job[w].msg.step
  BY Busy DEF StepReturns, RunOf, StepOf
<1>3. /\ t[1] = <<RunOf(w), StepOf(w)>> /\ t[1][1] = RunOf(w) /\ t[1][2] = StepOf(w)
      /\ t[2] = job[w].msg.copy /\ t[2] \in Nat
  BY <1>0, <1>2, TokFields
<1>4. /\ faults' = faults /\ completed' = completed /\ job' = job
      /\ pc[w] = "handling" /\ pc'[w] = "counting"
      /\ \A v \in Workers \ {w} : pc'[v] = pc[v]
  BY DEF StepReturns, TypeOK, runVars
<1>5. CASE r # RunOf(w)
  <2>1. ran'[r] = ran[r]
    BY <1>5 DEF StepReturns, TypeOK
  <2>2. Counting(r)' = Counting(r)
    BY <1>4, <1>5 DEF Counting, RunOf
  <2> QED
    BY <1>1, <1>4, <2>1, <2>2, TallyQuiet
<1>6. CASE r = RunOf(w)
  <2>1. Counting(r)' = Counting(r) \cup {w} /\ w \notin Counting(r)
    BY <1>4, <1>6 DEF Counting, RunOf
  <2>2. Cardinality(Counting(r)') = Cardinality(Counting(r)) + 1
    BY <2>1, Sizes, FS_AddElement
  <2>3. CASE StepOf(w) \in ran[r]
    <3>1. ran'[r] = ran[r]
      <4>1. ran' = [ran EXCEPT ![r] = ran[r] \cup {StepOf(w)}]
        BY <1>6 DEF StepReturns
      <4>2. ran[r] \cup {StepOf(w)} = ran[r]
        BY <2>3
      <4> QED
        BY <4>1, <4>2 DEF TypeOK
    <3>2. Twice(r)' \subseteq Twice(r) \ {t} /\ t \in Twice(r)
      BY <1>1, <1>3, <1>6, <2>3, <3>1 DEF Twice
    <3>3. /\ Cardinality(Twice(r)') + 1 <= Cardinality(Twice(r))
          /\ Cardinality(Twice(r)') \in Nat
      BY <3>2, Sizes, Drop
    <3> QED
      BY <1>4, <2>2, <3>1, <3>3, Sizes DEF Tally, Total
  <2>4. CASE StepOf(w) \notin ran[r]
    <3>1. ran'[r] = ran[r] \cup {StepOf(w)}
      BY <1>6 DEF StepReturns, TypeOK
    <3>2. Cardinality(ran'[r]) = Cardinality(ran[r]) + 1
      BY <2>4, <3>1, Sizes, FS_AddElement
    <3>3. PICK o : o = <<<<RunOf(w), StepOf(w)>>, 0>>
      OBVIOUS
    <3>4. ASSUME NEW x \in Twice(r)', x \notin Twice(r) PROVE x = o
      <4>1. /\ x \in Alive /\ x[1][1] = r /\ x[1][2] = StepOf(w) /\ ~(x[2] > 0)
        BY <1>1, <3>1, <3>4 DEF Twice
      <4>2. PICK m \in Message : x = Tok(m)
        BY <4>1, Fresh
      <4>3. m.run = r /\ m.step = StepOf(w) /\ m.copy = 0
        BY <4>1, <4>2, TokFields
      <4> QED
        BY <1>6, <3>3, <4>2, <4>3 DEF Tok
    <3>5. CASE t[2] > 0
      <4>1. Twice(r)' \subseteq (Twice(r) \ {t}) \cup {o} /\ t \in Twice(r)
        BY <1>1, <1>3, <1>6, <3>4, <3>5 DEF Twice
      <4> DEFINE rest == Twice(r) \ {t}
      <4>2. /\ IsFiniteSet(rest) /\ Cardinality(rest) \in Nat
            /\ Cardinality(rest) + 1 <= Cardinality(Twice(r))
        BY <4>1, Sizes, Drop
      <4> HIDE DEF rest
      <4>3. Twice(r)' \subseteq rest \cup {o}
        BY <4>1 DEF rest
      <4>4. Cardinality(Twice(r)') <= Cardinality(rest) + 1 /\ Cardinality(Twice(r)') \in Nat
        BY <4>2, <4>3, Grow
      <4> QED
        BY <1>4, <2>2, <3>2, <4>2, <4>4, Sizes DEF Tally, Total
    <3>6. CASE ~(t[2] > 0)
      <4>1. t = o
        <5>1. job[w].msg.copy = 0
          BY <1>3, <3>6
        <5> QED
          BY <1>0, <1>2, <3>3, <5>1 DEF Tok
      <4>2. Twice(r)' \subseteq Twice(r)
        BY <1>1, <3>4, <4>1 DEF Twice
      <4>3. Cardinality(Twice(r)') <= Cardinality(Twice(r)) /\ Cardinality(Twice(r)') \in Nat
        BY <4>2, Sizes, Within
      <4> QED
        BY <1>4, <2>2, <3>2, <4>3, Sizes DEF Tally, Total
    <3> QED
      BY <3>5, <3>6
  <2> QED
    BY <2>3, <2>4
<1> QED
  BY <1>5, <1>6

\* Every step keeps the tally of every run.
LEMMA TallyStep ==
  ASSUME TypeOK, TypeOK', Lineage, Unique, [Next]_vars, NEW r \in Runs, Tally(r)
  PROVE  Tally(r)'
<1>1. ASSUME pc' = pc, job' = job PROVE Counting(r)' = Counting(r)
  BY <1>1 DEF Counting, RunOf
<1>2. CASE CreateClient \/ PerformCreate \/ OpenRun \/ CommitRun \/ HandlerRaises
           \/ Replay \/ UNCHANGED vars
  <2>1. UNCHANGED <<queue, completed, pc, job, ran>>
    BY <1>2 DEF CreateClient, PerformCreate, OpenRun, CommitRun, HandlerRaises, Replay,
       vars, runVars, workVars, effectVars
  <2>2. /\ faults'["duplicate"] = faults["duplicate"]
        /\ faults'["worker"] = faults["worker"]
    <3>1. CASE Replay
      BY <3>1, FaultTypes DEF Replay, FaultKinds
    <3>2. CASE ~Replay
      BY <1>2, <3>2 DEF CreateClient, PerformCreate, OpenRun, CommitRun, HandlerRaises, vars
    <3> QED
      BY <3>1, <3>2
  <2>3. Alive' \subseteq Alive
    BY <2>1, Fewer DEF Handling
  <2> QED
    BY <1>1, <2>1, <2>2, <2>3, TallyQuiet
<1>3. CASE PublishStep
  <2>1. /\ Grows(<<<<starts, sent + 1>>, 0>>)
        /\ faults' = faults /\ completed' = completed /\ ran' = ran
        /\ pc' = pc /\ job' = job
    BY <1>3, PublishGrows DEF PublishStep, runVars, workVars, effectVars
  <2>2. starts \in Runs => ran[starts] = {}
    BY <1>3 DEF PublishStep, Lineage, Nothing
  <2>3. Twice(r)' \subseteq Twice(r)
    BY <2>1, <2>2 DEF Grows, Twice
  <2>4. Cardinality(Twice(r)') <= Cardinality(Twice(r)) /\ Cardinality(Twice(r)') \in Nat
    BY <2>3, Sizes, Within
  <2> QED
    BY <1>1, <2>1, <2>4, Sizes DEF Tally, Total
<1>4. ASSUME NEW m \in queue, Redeliver(m) PROVE Tally(r)'
  <2>1. /\ Grows(Again(m)) /\ completed' = completed /\ ran' = ran /\ pc' = pc /\ job' = job
    BY <1>4, RedeliverGrows DEF Redeliver, runVars, workVars, effectVars
  <2>2. /\ faults'["duplicate"] = faults["duplicate"] + 1
        /\ faults'["worker"] = faults["worker"]
    BY <1>4, FaultTypes DEF Redeliver, FaultKinds
  <2>3. Twice(r)' \subseteq Twice(r) \cup {Again(m)}
    BY <2>1 DEF Grows, Twice
  <2>4. Cardinality(Twice(r)') <= Cardinality(Twice(r)) + 1 /\ Cardinality(Twice(r)') \in Nat
    BY <2>3, Sizes, Grow
  <2> QED
    BY <1>1, <2>1, <2>2, <2>4, Sizes DEF Tally, Total
<1>5. ASSUME NEW w \in Workers, NEW m \in queue, TakeStep(w, m) PROVE Tally(r)'
  <2>1. /\ pc[w] = "idle" /\ pc'[w] \in {"idle", "handling"}
        /\ \A v \in Workers \ {w} : pc'[v] = pc[v] /\ job'[v] = job[v]
    BY <1>5 DEF TakeStep, TypeOK, workVars
  <2>2. w \notin Counting(r) /\ w \notin Counting(r)'
    BY <2>1 DEF Counting
  <2>3. Counting(r)' = Counting(r)
    BY <2>1, <2>2, CountingOthers
  <2> QED
    BY <1>5, <2>3, TakeKeeps, TallyQuiet DEF TakeStep, runVars
<1>6. ASSUME NEW w \in Workers, Finish(w) PROVE
          /\ \A v \in Workers \ {w} : pc'[v] = pc[v] /\ job'[v] = job[v]
          /\ pc'[w] = "idle" /\ w \notin Counting(r)'
          /\ Counting(r)' \ {w} = Counting(r) \ {w}
  <2>1. /\ \A v \in Workers \ {w} : pc'[v] = pc[v] /\ job'[v] = job[v]
        /\ pc'[w] = "idle"
    BY <1>6 DEF Finish, TypeOK
  <2> QED
    BY <2>1, CountingOthers
<1>7. ASSUME NEW w \in Workers, StepRaises(w) \/ SendUnanswered(w) PROVE Tally(r)'
  <2>1. Finish(w) /\ pc[w] = "handling" /\ UNCHANGED <<runVars, ran>> /\ RetryStep(w)
    BY <1>7 DEF StepRaises, SendUnanswered, RetryStep
  <2>2. Counting(r)' = Counting(r)
    BY <1>6, <2>1 DEF Counting
  <2>3. /\ faults'["duplicate"] = faults["duplicate"]
        /\ faults'["worker"] = faults["worker"]
    BY <1>7, FaultTypes DEF StepRaises, SendUnanswered, FaultKinds
  <2> QED
    BY <2>1, <2>2, <2>3, RaiseKeeps, TallyQuiet DEF runVars
<1>8. ASSUME NEW w \in Workers, CountStep(w) PROVE Tally(r)'
  <2>1. /\ pc[w] = "counting" /\ pc'[w] = "closing" /\ job' = job /\ queue' = queue
        /\ \A v \in Workers \ {w} : pc'[v] = pc[v]
        /\ faults' = faults /\ ran' = ran
        /\ completed' = [completed EXCEPT ![RunOf(w)] = completed[RunOf(w)] + 1]
    BY <1>8 DEF CountStep, RowPlusOne, TypeOK, effectVars
  <2>2. Alive' \subseteq Alive
    BY <2>1, Fewer DEF Handling
  <2>3. CASE r # RunOf(w)
    <3>1. Counting(r)' = Counting(r) /\ completed'[r] = completed[r]
      BY <2>1, <2>3 DEF Counting, RunOf, TypeOK
    <3> QED
      BY <2>1, <2>2, <3>1, TallyQuiet
  <2>4. CASE r = RunOf(w)
    <3>1. Counting(r)' = Counting(r) \ {w} /\ w \in Counting(r)
      BY <2>1, <2>4 DEF Counting, RunOf
    <3>2. Cardinality(Counting(r)') = Cardinality(Counting(r)) - 1
      BY <3>1, Sizes, FS_RemoveElement
    <3>3. completed'[r] = completed[r] + 1
      BY <2>1, <2>4 DEF TypeOK
    <3>4. Twice(r)' \subseteq Twice(r)
      BY <2>1, <2>2 DEF Twice
    <3>5. Cardinality(Twice(r)') <= Cardinality(Twice(r)) /\ Cardinality(Twice(r)') \in Nat
      BY <3>4, Sizes, Within
    <3> QED
      BY <2>1, <3>2, <3>3, <3>5, Sizes DEF Tally, Total
  <2> QED
    BY <2>3, <2>4
<1>9. ASSUME NEW w \in Workers, CloseRun(w) PROVE Tally(r)'
  <2>1. Finish(w) /\ pc[w] = "closing" /\ UNCHANGED <<completed, queue, effectVars, faults>>
    BY <1>9 DEF CloseRun
  <2>2. Counting(r)' = Counting(r)
    BY <1>6, <2>1 DEF Counting
  <2>3. Alive' \subseteq Alive
    BY <1>6, <2>1, Fewer DEF Handling
  <2> QED
    BY <2>1, <2>2, <2>3, TallyQuiet DEF effectVars
<1>10. ASSUME NEW w \in Workers, WorkerCrash(w) PROVE Tally(r)'
  <2>1. Finish(w) /\ UNCHANGED <<runVars, queue, ran>>
    BY <1>10 DEF WorkerCrash
  <2>2. /\ faults'["duplicate"] = faults["duplicate"]
        /\ faults'["worker"] = faults["worker"] + 1
    BY <1>10, FaultTypes DEF WorkerCrash, FaultKinds
  <2>3. Counting(r)' \subseteq Counting(r) /\ Counting(r) \subseteq Counting(r)' \cup {w}
    BY <1>6, <2>1
  <2>4. /\ Cardinality(Counting(r)') <= Cardinality(Counting(r))
        /\ IsFiniteSet(Counting(r)') /\ Cardinality(Counting(r)') \in Nat
    BY <2>3, Sizes, Within
  <2>5. Cardinality(Counting(r)) <= Cardinality(Counting(r)') + 1
    BY <2>3, <2>4, Grow
  <2>6. Alive' \subseteq Alive
    BY <1>6, <2>1, Fewer DEF Handling
  <2>7. Twice(r)' \subseteq Twice(r)
    BY <2>1, <2>6 DEF Twice
  <2>8. Cardinality(Twice(r)') <= Cardinality(Twice(r)) /\ Cardinality(Twice(r)') \in Nat
    BY <2>7, Sizes, Within
  <2> QED
    BY <2>1, <2>2, <2>4, <2>5, <2>8, Sizes DEF Tally, Total, runVars
<1> QED
  BY <1>2, <1>3, <1>4, <1>5, <1>7, <1>8, <1>9, <1>10, TallyReturns
  DEF Next, HandlerStep, WorkerStep

\* Runs in the database, and runs that are done.
Commits == {r \in Runs : row[r] = "committed"}
Replays ==
  /\ client = "none" => handler = "none"
  /\ Cardinality(Commits) <= faults["replay"] + (IF handler = "returned" THEN 1 ELSE 0)
Closed == \A r \in Runs : status[r] = "done" => completed[r] >= Len(Template)

LEMMA ReplaysStep ==
  ASSUME TypeOK, TypeOK', Lineage, Replays, [Next]_vars
  PROVE  Replays'
<1>0. faults["replay"] \in Nat /\ faults'["replay"] \in Nat
  BY DEF TypeOK, FaultKinds
<1>1. IsFiniteSet(Commits)
  <2>1. IsFiniteSet(Runs)
    BY FS_Interval, MaxStartsAssumption DEF Runs
  <2> QED
    BY <2>1, Within DEF Commits
<1>2. ASSUME Commits' \subseteq Commits, faults'["replay"] = faults["replay"],
             handler = "returned" => handler' = "returned",
             client' = "none" => handler' = "none"
      PROVE  Replays'
  <2>1. /\ Cardinality(Commits') <= Cardinality(Commits)
        /\ Cardinality(Commits') \in Nat /\ Cardinality(Commits) \in Nat
    BY <1>1, <1>2, Within
  <2> QED
    BY <1>0, <1>2, <2>1 DEF Replays
<1>3. CASE CreateClient \/ PerformCreate
  BY <1>2, <1>3 DEF CreateClient, PerformCreate, Commits, Replays
<1>4. CASE OpenRun \/ PublishStep \/ HandlerRaises
  <2>1. /\ handler # "none" /\ handler # "returned" /\ handler' # "none"
        /\ faults' = faults /\ client' = client
    BY <1>4 DEF OpenRun, PublishStep, HandlerRaises
  <2>2. Commits' \subseteq Commits
    BY <1>4 DEF OpenRun, PublishStep, HandlerRaises, DropRun, Commits, TypeOK
  <2> QED
    BY <1>2, <2>1, <2>2 DEF Replays
<1>5. CASE CommitRun
  <2>1. /\ handler = "open" /\ handler' = "returned" /\ faults' = faults /\ client' = client
        /\ Commits' \subseteq Commits \cup {starts}
    BY <1>5 DEF CommitRun, Commits, TypeOK
  <2>2. /\ Cardinality(Commits') <= Cardinality(Commits) + 1
        /\ Cardinality(Commits') \in Nat /\ Cardinality(Commits) \in Nat
    BY <1>1, <2>1, Grow
  <2> QED
    BY <1>0, <2>1, <2>2 DEF Replays
<1>6. CASE Replay
  <2>1. /\ handler = "returned" /\ handler' = "due" /\ client' = client /\ Commits' = Commits
    BY <1>6 DEF Replay, Commits
  <2>2. faults'["replay"] = faults["replay"] + 1
    BY <1>6, FaultTypes DEF Replay, FaultKinds
  <2>3. Cardinality(Commits) \in Nat
    BY <1>1, FS_CardinalityType
  <2> QED
    BY <1>0, <2>1, <2>2, <2>3 DEF Replays
<1>7. ASSUME UNCHANGED handlerVars, faults'["replay"] = faults["replay"] PROVE Replays'
  BY <1>2, <1>7 DEF handlerVars, Commits, Replays
<1>8. ASSUME NEW m \in queue, Redeliver(m) PROVE Replays'
  BY <1>7, <1>8, FaultTypes DEF Redeliver, FaultKinds
<1>9. ASSUME NEW w \in Workers, WorkerCrash(w) PROVE Replays'
  BY <1>7, <1>9, FaultTypes DEF WorkerCrash, FaultKinds
<1>10. ASSUME NEW w \in Workers, WorkerStep(w) PROVE Replays'
  BY <1>7, <1>10
  DEF WorkerStep, TakeStep, StepReturns, StepRaises, RetryStep, CountStep, CloseRun
<1>11. CASE UNCHANGED vars
  BY <1>7, <1>11 DEF vars
<1>12. ASSUME NEW w \in Workers, SendUnanswered(w) PROVE Replays'
  BY <1>7, <1>12, FaultTypes DEF SendUnanswered, RetryStep, FaultKinds
<1> QED
  BY <1>3, <1>4, <1>5, <1>6, <1>8, <1>9, <1>10, <1>11, <1>12 DEF Next, HandlerStep

LEMMA ClosedStep ==
  ASSUME TypeOK, TypeOK', Closed, [Next]_vars
  PROVE  Closed'
<1>0. /\ Len(Template) \in Nat
      /\ \A r \in Runs : completed[r] \in Nat /\ completed'[r] \in Nat
  BY NoJob DEF TypeOK
<1>1. ASSUME \A r \in Runs : completed[r] <= completed'[r],
             \A r \in Runs : status'[r] = "done" =>
                 status[r] = "done" \/ completed'[r] >= Len(Template)
      PROVE  Closed'
  BY <1>0, <1>1 DEF Closed
<1>2. ASSUME UNCHANGED runVars PROVE Closed'
  BY <1>2 DEF runVars, Closed
<1>3. CASE OpenRun
  <2>1. completed' = completed /\ \A r \in Runs : status'[r] = "done" => status[r] = "done"
    BY <1>3 DEF OpenRun, TypeOK
  <2> QED
    BY <1>0, <1>1, <2>1
<1>4. ASSUME NEW w \in Workers, CountStep(w) PROVE Closed'
  <2>1. status' = status /\ \A r \in Runs : completed[r] <= completed'[r]
    BY <1>0, <1>4 DEF CountStep, RowPlusOne, TypeOK
  <2> QED
    BY <1>1, <2>1
<1>5. ASSUME NEW w \in Workers, CloseRun(w) PROVE Closed'
  <2>1. completed' = completed
    BY <1>5 DEF CloseRun
  <2>2. \A r \in Runs : status'[r] = "done" =>
            status[r] = "done" \/ completed'[r] >= Len(Template)
    BY <1>5, <2>1 DEF CloseRun, AllCounted, TypeOK
  <2> QED
    BY <1>0, <1>1, <2>1, <2>2
<1>6. ASSUME NEW w \in Workers,
             StepReturns(w) \/ StepRaises(w) \/ SendUnanswered(w) \/ WorkerCrash(w)
      PROVE  Closed'
  BY <1>2, <1>6 DEF StepReturns, StepRaises, SendUnanswered, RetryStep, WorkerCrash
<1>7. ASSUME NEW w \in Workers, NEW m \in queue, TakeStep(w, m) PROVE Closed'
  BY <1>2, <1>7 DEF TakeStep
<1>8. CASE CreateClient \/ PerformCreate \/ PublishStep \/ CommitRun \/ HandlerRaises
           \/ Replay \/ (\E m \in queue : Redeliver(m)) \/ UNCHANGED vars
  BY <1>2, <1>8 DEF CreateClient, PerformCreate, PublishStep, CommitRun, HandlerRaises,
     Replay, Redeliver, vars
<1> QED
  BY <1>3, <1>4, <1>5, <1>6, <1>7, <1>8 DEF Next, HandlerStep, WorkerStep

------------------------------------------------------------------------------
(* The inductive invariant and what follows.                                  *)

IInv ==
  /\ Lineage /\ Unique /\ Replays /\ Closed
  /\ \A r \in Runs : Tally(r)
  /\ \A r \in Runs, s \in Steps : Mailed(r, s)

LEMMA InvInit == Init => IInv
<1> SUFFICES ASSUME Init PROVE IInv
  OBVIOUS
<1>0. Cardinality({}) = 0
  BY FS_EmptySet
<1>1. Lineage
  BY LineageInit
<1>2. Handling = {} /\ Alive = {} /\ Unique
  BY DEF Init, Handling, Alive, Unique
<1>3. Replays /\ Closed
  <2>1. Commits = {} /\ faults["replay"] = 0 /\ client = "none" /\ handler = "none"
    BY DEF Init, Commits, FaultKinds
  <2>2. Cardinality(Commits) = 0
    BY <1>0, <2>1
  <2>3. Replays
    BY <2>1, <2>2 DEF Replays
  <2>4. Closed
    BY DEF Init, Closed
  <2> QED
    BY <2>3, <2>4
<1>4. ASSUME NEW r \in Runs PROVE Tally(r)
  <2>1. Counting(r) = {} /\ Twice(r) = {} /\ ran[r] = {} /\ completed[r] = 0
    BY <1>2 DEF Init, Counting, Twice
  <2> QED
    BY <1>0, <2>1 DEF Tally, Total, Init, FaultKinds
<1>5. ASSUME NEW r \in Runs, NEW s \in Steps PROVE Mailed(r, s)
  <2>1. Letters(r, s) = {} /\ mails[r][s] = 0
    BY <1>2 DEF Init, Letters
  <2> QED
    BY <1>0, <2>1 DEF Mailed, Excused, Init, FaultKinds
<1> QED
  BY <1>1, <1>2, <1>3, <1>4, <1>5 DEF IInv

\* Beyond the types: where each delivery is, what it may still do to the count
\* and the mails of its run, and which runs are in the database.
THEOREM Inductive == Spec => []IInv
<1>1. TypeOK /\ TypeOK' /\ IInv /\ [Next]_vars => IInv'
  <2> SUFFICES ASSUME TypeOK, TypeOK', IInv, [Next]_vars PROVE IInv'
    OBVIOUS
  <2>1. Lineage /\ Unique /\ Replays /\ Closed
    BY DEF IInv
  <2>2. Lineage' /\ Unique' /\ Replays' /\ Closed'
    BY <2>1, LineageStep, UniqueStep, ReplaysStep, ClosedStep
  <2>3. \A r \in Runs : Tally(r)'
    BY <2>1, TallyStep DEF IInv
  <2>4. \A r \in Runs, s \in Steps : Mailed(r, s)'
    BY <2>1, MailedStep DEF IInv
  <2> QED
    BY <2>2, <2>3, <2>4 DEF IInv
<1> QED
  BY <1>1, InvInit, TypeCorrect, PTL DEF Spec

\* The steps of the template, counted.
LEMMA StepCount == IsFiniteSet(Steps) /\ Cardinality(Steps) = Len(Template)
<1>1. Len(Template) \in Nat
  BY NoJob
<1>2. /\ IsFiniteSet(1..Len(Template))
      /\ Cardinality(1..Len(Template)) =
           IF 1 > Len(Template) THEN 0 ELSE Len(Template) - 1 + 1
  BY <1>1, FS_Interval
<1> QED
  BY <1>1, <1>2 DEF Steps

\* completed_steps counts the steps whose handler returned, but for the workers
\* that died before counting and the messages that were delivered twice.
THEOREM CompletedCountsStepsHolds == Spec => []CompletedCountsSteps
<1>1. TypeOK /\ IInv => CompletedCountsSteps
  <2> SUFFICES ASSUME TypeOK, IInv, NEW r \in Runs
               PROVE  /\ Total(r) <= Cardinality(ran[r]) + faults["duplicate"]
                      /\ Total(r) + faults["worker"] >= Cardinality(ran[r])
    BY DEF CompletedCountsSteps, Total
  <2>1. Tally(r)
    BY DEF IInv
  <2> QED
    BY <2>1, Sizes DEF Tally, Total
<1> QED
  BY <1>1, Inductive, TypeCorrect, PTL

\* A done run has had all its steps carried out unless a message was delivered
\* twice.
THEOREM DoneMeansAllRanHolds == Spec => []DoneMeansAllRan
<1>1. TypeOK /\ IInv => DoneMeansAllRan
  <2> SUFFICES ASSUME TypeOK, IInv, NEW r \in Runs, status[r] = "done",
                      ~(faults["duplicate"] > 0)
               PROVE  ran[r] = Steps
    BY DEF DoneMeansAllRan
  <2>1. Tally(r) /\ completed[r] >= Len(Template)
    BY DEF IInv, Closed
  <2>2. Cardinality(ran[r]) >= Len(Template)
    BY <2>1, Sizes, NoJob DEF Tally, Total
  <2>3. IsFiniteSet(Steps) /\ Cardinality(Steps) = Len(Template)
    BY StepCount
  <2>4. ran[r] \in SUBSET Steps
    BY DEF TypeOK
  <2>5. /\ Cardinality(ran[r]) <= Cardinality(Steps)
        /\ Cardinality(ran[r]) \in Nat
        /\ Cardinality(Steps) = Cardinality(ran[r]) => Steps = ran[r]
    BY <2>3, <2>4, FS_Subset, Sizes
  <2> QED
    BY <2>2, <2>3, <2>5, NoJob
<1> QED
  BY <1>1, Inductive, TypeCorrect, PTL

\* A step's mail is sent once, and once more per duplicate and per lost answer;
\* the handler commits once, and once more per replay.
THEOREM MailsOncePerReplayHolds == Spec => []MailsOncePerReplay
<1>1. TypeOK /\ IInv => MailsOncePerReplay
  <2> SUFFICES ASSUME TypeOK, IInv PROVE MailsOncePerReplay
    OBVIOUS
  <2>1. ASSUME NEW r \in Runs, NEW s \in Steps
        PROVE  mails[r][s] <= 1 + faults["duplicate"] + faults["answer"]
    <3>1. Mailed(r, s)
      BY DEF IInv
    <3>2. Cardinality(Letters(r, s)) \in Nat
      BY AliveFinite, Within DEF Letters
    <3> QED
      BY <3>1, <3>2 DEF Mailed, Excused, TypeOK, FaultKinds
  <2>2. Cardinality(Commits) <= 1 + faults["replay"]
    <3>1. Cardinality(Commits) \in Nat
      <4>1. IsFiniteSet(Runs)
        BY FS_Interval, MaxStartsAssumption DEF Runs
      <4> QED
        BY <4>1, Within DEF Commits
    <3> QED
      BY <3>1 DEF IInv, Replays, TypeOK, FaultKinds
  <2> QED
    BY <2>1, <2>2 DEF MailsOncePerReplay, Commits
<1> QED
  BY <1>1, Inductive, TypeCorrect, PTL

------------------------------------------------------------------------------
(* The life of the runs.                                                      *)

\* A run that is done or replayed is in the database; a setup step that has been
\* carried out has its row, so it cannot be carried out again.
Reached ==
  /\ handler = "returned" => starts \in Runs /\ row[starts] = "committed"
  /\ \A r \in Runs : status[r] = "done" => row[r] = "committed"
  /\ \A r \in Runs : \A s \in ran[r] :
       Template[s] = "setup_task" => <<r, s>> \in records

LEMMA ReachedStep ==
  ASSUME TypeOK, Lineage, Reached, [Next]_vars
  PROVE  Reached'
<1> USE DEF Reached
<1>1. CASE CreateClient \/ PerformCreate
  BY <1>1 DEF CreateClient, PerformCreate, TypeOK, runVars, effectVars
<1>2. CASE OpenRun
  <2>1. starts + 1 \in Runs /\ starts + 1 > starts
    BY <1>2, MaxStartsAssumption DEF OpenRun, TypeOK, Runs
  <2>2. row[starts + 1] = "absent"
    BY <2>1 DEF Lineage
  <2>3. /\ handler' # "returned" /\ UNCHANGED <<records, ran>>
        /\ row' = [row EXCEPT ![starts + 1] = "open"]
        /\ status' = [status EXCEPT ![starts + 1] = "running"]
    BY <1>2 DEF OpenRun, effectVars
  <2>4. \A r \in Runs : status'[r] = "done" => row'[r] = "committed"
    BY <2>1, <2>2, <2>3 DEF TypeOK
  <2> QED
    BY <2>3, <2>4
<1>3. CASE PublishStep
  BY <1>3 DEF PublishStep, runVars, effectVars
<1>4. CASE CommitRun \/ HandlerRaises
  <2>1. handler = "open" /\ starts \in Runs /\ row[starts] = "open"
    BY <1>4, MaxStartsAssumption DEF CommitRun, HandlerRaises, Lineage, TypeOK, Runs
  <2>2. /\ UNCHANGED <<starts, status, records, ran>>
        /\ \E x \in {"committed", "rolledback"} : row' = [row EXCEPT ![starts] = x]
        /\ handler' = "returned" => row' = [row EXCEPT ![starts] = "committed"]
    BY <1>4 DEF CommitRun, HandlerRaises, DropRun, runVars, effectVars
  <2>3. \A r \in Runs : row[r] = "committed" => row'[r] = "committed"
    BY <2>1, <2>2 DEF TypeOK
  <2>4. handler' = "returned" => row'[starts] = "committed"
    BY <2>1, <2>2 DEF TypeOK
  <2> QED
    BY <2>1, <2>2, <2>3, <2>4
<1>5. CASE Replay
  BY <1>5 DEF Replay, runVars, effectVars
<1>6. ASSUME NEW w \in Workers, StepReturns(w) PROVE Reached'
  <2> DEFINE r == RunOf(w)  s == StepOf(w)
  <2>1. r \in Runs /\ s \in Steps
    BY <1>6, Busy DEF StepReturns
  <2>2. /\ UNCHANGED <<handlerVars, status>> /\ records \subseteq records'
        /\ Template[s] = "setup_task" => <<r, s>> \in records'
        /\ ran' = [ran EXCEPT ![r] = ran[r] \cup {s}]
    BY <1>6 DEF StepReturns, runVars, KindOf
  <2> HIDE DEF r, s
  <2>3. \A q \in Runs : \A t \in ran'[q] : t \in ran[q] \/ (q = r /\ t = s)
    BY <2>1, <2>2 DEF TypeOK
  <2> QED
    BY <2>2, <2>3 DEF handlerVars
<1>7. ASSUME NEW w \in Workers, CloseRun(w) PROVE Reached'
  <2>1. row[RunOf(w)] = "committed"
    BY <1>7 DEF CloseRun, Lineage
  <2>2. /\ UNCHANGED <<handlerVars, records, ran>>
        /\ status' = status \/ status' = [status EXCEPT ![RunOf(w)] = "done"]
    BY <1>7 DEF CloseRun, effectVars
  <2> QED
    BY <2>1, <2>2 DEF handlerVars, TypeOK
<1>8. ASSUME NEW w \in Workers,
             StepRaises(w) \/ SendUnanswered(w) \/ CountStep(w) \/ WorkerCrash(w)
      PROVE  Reached'
  BY <1>8 DEF StepRaises, SendUnanswered, RetryStep, CountStep, WorkerCrash,
     handlerVars, runVars, effectVars
<1>9. ASSUME NEW w \in Workers, NEW m \in queue, TakeStep(w, m) PROVE Reached'
  BY <1>9 DEF TakeStep, handlerVars, runVars
<1>10. CASE (\E m \in queue : Redeliver(m)) \/ UNCHANGED vars
  BY <1>10 DEF Redeliver, vars, handlerVars, runVars, effectVars
<1> QED
  BY <1>1, <1>2, <1>3, <1>4, <1>5, <1>6, <1>7, <1>8, <1>9, <1>10
  DEF Next, HandlerStep, WorkerStep

\* RunLifecycle counts as this module does.
LEMMA SameCount == \A S : Life!Cardinality(S) = Cardinality(S)
  BY DEF Life!Cardinality, Cardinality

\* The runs of the life are those of the database.
LEMMA Others ==
  ASSUME Commits' = Commits, {r \in Runs : status'[r] = "done"} = {r \in Runs : status[r] = "done"},
         ran' = ran, mails' = mails,
         UNCHANGED <<faults["duplicate"], faults["answer"], faults["replay"]>>
  PROVE  UNCHANGED Life!lifeVars
  BY DEF Commits, Life!lifeVars

\* A handler that commits makes its run appear.
LEMMA Appears ==
  ASSUME TypeOK, IInv, CommitRun
  PROVE  \E r \in Runs : Life!Appear(r)
<1>1. /\ starts \in Runs /\ row[starts] = "open"
      /\ row' = [row EXCEPT ![starts] = "committed"]
      /\ UNCHANGED <<ran, mails, status, faults>>
  BY MaxStartsAssumption DEF CommitRun, IInv, Lineage, TypeOK, Runs, runVars, effectVars
<1>2. Cardinality(Commits) <= faults["replay"]
  <2>1. Cardinality(Commits) <= faults["replay"] + 0
    BY DEF CommitRun, IInv, Replays
  <2> QED
    BY <2>1 DEF TypeOK, FaultKinds
<1>3. Commits' = Commits \cup {starts} /\ starts \notin Commits
  BY <1>1 DEF Commits, TypeOK
<1>4. PICK r \in Runs : r = starts
  BY <1>1
<1>5. Life!Appear(r)
  BY <1>1, <1>2, <1>3, <1>4, SameCount DEF Life!Appear, Commits
<1> QED
  BY <1>5

\* A step that is being handled has a delivery of its own left to mail.
LEMMA OneLeft ==
  ASSUME TypeOK, IInv, NEW w \in Workers, pc[w] = "handling"
  PROVE  mails[RunOf(w)][StepOf(w)] <= faults["duplicate"] + faults["answer"]
<1> DEFINE r == RunOf(w)  s == StepOf(w)
<1>1. r \in Runs /\ s \in Steps
  BY Busy
<1>2. Tok(job[w].msg) \in Letters(r, s)
  <2>1. Tok(job[w].msg) \in Alive
    BY DEF Alive, Handling
  <2>2. Tok(job[w].msg)[1] = <<r, s>>
    BY Busy, TokFields DEF RunOf, StepOf
  <2> QED
    BY <2>1, <2>2 DEF Letters
<1>3. Cardinality(Letters(r, s)) \in Nat /\ Cardinality(Letters(r, s)) >= 1
  <2>1. IsFiniteSet(Letters(r, s))
    BY AliveFinite, Within DEF Letters
  <2>2. Cardinality({}) = 0
    BY FS_EmptySet
  <2>3. Cardinality({}) + 1 <= Cardinality(Letters(r, s)) /\ Cardinality(Letters(r, s)) \in Nat
    BY <1>2, <2>1, Drop
  <2> QED
    BY <2>2, <2>3
<1>4. mails[r][s] + Cardinality(Letters(r, s)) <= Excused
  BY <1>1 DEF IInv, Mailed
<1>5. mails[r][s] \in Nat /\ faults["duplicate"] \in Nat /\ faults["answer"] \in Nat
  BY <1>1 DEF TypeOK, FaultKinds
<1> QED
  BY <1>3, <1>4, <1>5 DEF Excused

\* A step's handler carries out its step: its mail has a delivery of its own
\* left, and its row was not there.
LEMMA Carries ==
  ASSUME TypeOK, IInv, Reached, NEW w \in Workers, StepReturns(w)
  PROVE  \E r \in Runs, s \in Steps : Life!Carry(r, s)
<1> DEFINE r == RunOf(w)  s == StepOf(w)
<1>1. r \in Runs /\ s \in Steps /\ row[r] = "committed"
  BY Busy DEF StepReturns, IInv, Lineage
<1>2. Template[s] = "setup_task" => s \notin ran[r]
  BY <1>1 DEF StepReturns, KindOf, Reached
<1>3. mails[r][s] <= faults["duplicate"] + faults["answer"]
  BY OneLeft DEF StepReturns
<1>4. /\ mails' = IF Sends(Template[s]) THEN [mails EXCEPT ![r][s] = mails[r][s] + 1] ELSE mails
      /\ ran' = [ran EXCEPT ![r] = ran[r] \cup {s}]
      /\ UNCHANGED <<row, status, faults>>
  BY DEF StepReturns, OneMail, KindOf, handlerVars, runVars
<1> HIDE DEF r, s
<1>5. Life!Carry(r, s)
  BY <1>1, <1>2, <1>3, <1>4 DEF Life!Carry, Life!MayWrite, Life!OneLetter
<1> QED
  BY <1>1, <1>5

\* A mail that goes out with a worker that dies, or whose answer is lost.
LEMMA Writes ==
  ASSUME TypeOK, IInv, NEW w \in Workers, pc[w] = "handling", Sends(KindOf(w)),
         mails' = OneMail(w), UNCHANGED <<row, status, ran>>,
         faults'["duplicate"] = faults["duplicate"], faults'["replay"] = faults["replay"],
         faults'["answer"] \in {faults["answer"], faults["answer"] + 1}
  PROVE  \E r \in Runs, s \in Steps : Life!Write(r, s)
<1> DEFINE r == RunOf(w)  s == StepOf(w)
<1>1. r \in Runs /\ s \in Steps /\ row[r] = "committed"
  BY Busy DEF IInv, Lineage
<1>2. mails[r][s] <= faults["duplicate"] + faults["answer"]
  BY OneLeft
<1>3. mails' = [mails EXCEPT ![r][s] = mails[r][s] + 1] /\ Sends(Template[s])
  BY DEF OneMail, KindOf
<1> HIDE DEF r, s
<1>4. Life!Write(r, s)
  BY <1>1, <1>2, <1>3 DEF Life!Write, Life!MayWrite, Life!OneLetter
<1> QED
  BY <1>1, <1>4

\* A worker that reports a run as done has seen enough of its steps counted.
LEMMA Closes ==
  ASSUME TypeOK, IInv, NEW w \in Workers, CloseRun(w), AllCounted(RunOf(w))
  PROVE  \E r \in Runs : Life!Close(r)
<1>0. PICK r \in Runs : r = RunOf(w)
  BY Busy DEF CloseRun
<1>1. r \in Runs /\ row[r] = "committed"
  BY <1>0 DEF CloseRun, IInv, Lineage
<1>2. Len(Template) > 0 /\ completed[r] >= Len(Template)
  BY <1>0 DEF AllCounted
<1>3. /\ status' = [status EXCEPT ![r] = "done"]
      /\ UNCHANGED <<row, ran, mails, faults>>
  BY <1>0 DEF CloseRun, handlerVars, effectVars
<1>4. Cardinality(Steps) <= Cardinality(ran[r]) + faults["duplicate"]
  <2>1. Tally(r)
    BY <1>1 DEF IInv
  <2> QED
    BY <1>1, <1>2, <2>1, Sizes, StepCount, NoJob DEF Tally, Total
<1>5. Steps # {}
  <2>1. 1 \in Steps
    BY <1>2, NoJob DEF Steps
  <2> QED
    BY <2>1
<1>6. {q \in Runs : status'[q] = "done"} = {q \in Runs : status[q] = "done"} \cup {r}
  BY <1>1, <1>3 DEF TypeOK
<1>7. Life!Close(r)
  BY <1>1, <1>3, <1>4, <1>5, <1>6, SameCount DEF Life!Close
<1> QED
  BY <1>7

\* Every step of the handler, the broker and the workers is a step of
\* RunLifecycle or leaves its variables alone: what a client's runs promise holds
\* for any template, workers, crashes, replays and duplicates.
THEOREM Refinement == Spec => FollowsRunLifecycle
<1>1. Init => Life!LifeInit /\ Reached
  BY DEF Init, Life!LifeInit, Reached, FaultKinds
<1>2. TypeOK /\ IInv /\ Reached /\ [Next]_vars => [Life!LifeNext]_(Life!lifeVars)
  <2> SUFFICES ASSUME TypeOK, IInv, Reached, [Next]_vars
               PROVE  Life!LifeNext \/ UNCHANGED Life!lifeVars
    OBVIOUS
  <2>1. CASE CreateClient \/ PerformCreate
    BY <2>1, Others DEF CreateClient, PerformCreate, runVars, effectVars, Commits
  <2>2. CASE OpenRun
    <3>1. starts + 1 \in Runs /\ starts + 1 > starts
      BY <2>2, MaxStartsAssumption DEF OpenRun, TypeOK, Runs
    <3>2. row[starts + 1] = "absent" /\ status[starts + 1] # "done"
      BY <3>1 DEF IInv, Lineage, Reached
    <3>3. /\ row' = [row EXCEPT ![starts + 1] = "open"]
          /\ status' = [status EXCEPT ![starts + 1] = "running"]
          /\ UNCHANGED <<ran, mails, faults>>
      BY <2>2 DEF OpenRun, effectVars
    <3>4. Commits' = Commits
      BY <3>1, <3>2, <3>3 DEF Commits, TypeOK
    <3>5. {r \in Runs : status'[r] = "done"} = {r \in Runs : status[r] = "done"}
      BY <3>1, <3>2, <3>3 DEF TypeOK
    <3> QED
      BY <3>3, <3>4, <3>5, Others
  <2>3. CASE PublishStep
    BY <2>3, Others DEF PublishStep, runVars, effectVars, Commits
  <2>4. CASE CommitRun
    BY <2>4, Appears DEF Life!LifeNext
  <2>5. CASE HandlerRaises
    <3>1. starts \in Runs /\ row[starts] = "open"
      BY <2>5, MaxStartsAssumption DEF HandlerRaises, IInv, Lineage, TypeOK, Runs
    <3>2. row' = [row EXCEPT ![starts] = "rolledback"] /\ UNCHANGED <<ran, mails, status, faults>>
      BY <2>5 DEF HandlerRaises, DropRun, runVars, effectVars
    <3>3. Commits' = Commits
      BY <3>1, <3>2 DEF Commits, TypeOK
    <3> QED
      BY <3>2, <3>3, Others
  <2>6. CASE Replay
    <3>1. /\ faults'["replay"] = faults["replay"] + 1
          /\ faults'["duplicate"] = faults["duplicate"]
          /\ faults'["answer"] = faults["answer"]
      BY <2>6, FaultTypes DEF Replay, FaultKinds
    <3>2. UNCHANGED <<row, ran, mails, status>> /\ handler = "returned"
      BY <2>6 DEF Replay, runVars, effectVars
    <3>3. Life!Replayed
      BY <3>1, <3>2 DEF Life!Replayed, Reached
    <3> QED
      BY <3>3 DEF Life!LifeNext
  <2>7. ASSUME NEW m \in queue, Redeliver(m) PROVE Life!LifeNext
    <3>1. /\ faults'["duplicate"] = faults["duplicate"] + 1
          /\ faults'["replay"] = faults["replay"]
          /\ faults'["answer"] = faults["answer"]
      BY <2>7, FaultTypes DEF Redeliver, FaultKinds
    <3>2. UNCHANGED <<row, ran, mails, status>>
      BY <2>7 DEF Redeliver, handlerVars, runVars, effectVars
    <3>3. Life!Repeated
      BY <3>1, <3>2 DEF Life!Repeated
    <3> QED
      BY <3>3 DEF Life!LifeNext
  <2>8. ASSUME NEW w \in Workers, NEW m \in queue, TakeStep(w, m)
        PROVE  UNCHANGED Life!lifeVars
    BY <2>8, Others DEF TakeStep, handlerVars, runVars, Commits
  <2>9. ASSUME NEW w \in Workers, StepReturns(w) PROVE Life!LifeNext
    BY <2>9, Carries DEF Life!LifeNext
  <2>10. ASSUME NEW w \in Workers, StepRaises(w) \/ CountStep(w)
         PROVE  UNCHANGED Life!lifeVars
    BY <2>10, Others
    DEF StepRaises, RetryStep, CountStep, handlerVars, runVars, effectVars, Commits
  <2>11. ASSUME NEW w \in Workers, CloseRun(w)
         PROVE  Life!LifeNext \/ UNCHANGED Life!lifeVars
    <3>1. CASE AllCounted(RunOf(w))
      BY <2>11, <3>1, Closes DEF Life!LifeNext
    <3>2. CASE ~AllCounted(RunOf(w))
      BY <2>11, <3>2, Others DEF CloseRun, handlerVars, effectVars, Commits
    <3> QED
      BY <3>1, <3>2
  <2>12. ASSUME NEW w \in Workers, WorkerCrash(w)
         PROVE  Life!LifeNext \/ UNCHANGED Life!lifeVars
    <3>1. /\ faults'["duplicate"] = faults["duplicate"]
          /\ faults'["replay"] = faults["replay"]
          /\ faults'["answer"] = faults["answer"]
      BY <2>12, FaultTypes DEF WorkerCrash, FaultKinds
    <3>2. UNCHANGED <<row, status, ran>>
      BY <2>12 DEF WorkerCrash, handlerVars, runVars
    <3>3. CASE mails' = mails
      BY <3>1, <3>2, <3>3, Others DEF Commits
    <3>4. CASE pc[w] = "handling" /\ Sends(KindOf(w)) /\ mails' = OneMail(w)
      <4>1. \E r \in Runs, s \in Steps : Life!Write(r, s)
        BY <3>1, <3>2, <3>4, Writes
      <4> QED
        BY <4>1 DEF Life!LifeNext
    <3> QED
      BY <2>12, <3>3, <3>4, CrashMails
  <2>14. ASSUME NEW w \in Workers, SendUnanswered(w) PROVE Life!LifeNext
    <3>1. /\ faults'["duplicate"] = faults["duplicate"]
          /\ faults'["replay"] = faults["replay"]
          /\ faults'["answer"] = faults["answer"] + 1
      BY <2>14, FaultTypes DEF SendUnanswered, FaultKinds
    <3>2. UNCHANGED <<row, status, ran>> /\ pc[w] = "handling"
      BY <2>14 DEF SendUnanswered, RetryStep, handlerVars, runVars
    <3>3. \E r \in Runs, s \in Steps : Life!Write(r, s)
      BY <2>14, <3>1, <3>2, Writes DEF SendUnanswered
    <3> QED
      BY <3>3 DEF Life!LifeNext
  <2>13. CASE UNCHANGED vars
    BY <2>13, Others DEF vars, handlerVars, runVars, effectVars, Commits
  <2> QED
    BY <2>1, <2>2, <2>3, <2>4, <2>5, <2>6, <2>7, <2>8, <2>9, <2>10, <2>11, <2>12, <2>13,
       <2>14
    DEF Next, HandlerStep, WorkerStep
<1>3. TypeOK /\ IInv /\ Reached /\ [Next]_vars => Reached'
  BY ReachedStep DEF IInv
<1> QED
  BY <1>1, <1>2, <1>3, TypeCorrect, Inductive, PTL DEF Spec, FollowsRunLifecycle, Life!LifeSpec
==============================================================================
