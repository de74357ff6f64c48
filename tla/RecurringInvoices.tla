-------------------------- MODULE RecurringInvoices --------------------------
(***************************************************************************)
(* The daily scan check_recurring_invoices (src/invoices/tasks.py) over the *)
(* tenant's RecurringSchedule rows, next to the people who pause, resume or *)
(* edit a schedule through the API.                                         *)
(*                                                                         *)
(* Once a scan is started, by Beat or by hand, a worker reads the due       *)
(* schedules at once, issues one invoice after the other (InvoiceIssue      *)
(* models how) and saves next_run, consecutive_failures and is_active of    *)
(* the copy it read.  Days are numbers, and a cadence is a number of days.  *)
(***************************************************************************)
EXTENDS Integers

CONSTANTS
  Schedules,      \* recurring schedules
  Cadence,        \* days between two invoices of a schedule
  Hopeless,       \* schedules whose invoices can never be issued
  Scans,          \* executions of the scan that may overlap
  People,         \* requests that edit a schedule
  FailureLimit,   \* MAX_CONSECUTIVE_FAILURES
  LastDay,        \* bound on the days
  Budget,         \* bound on what does not happen every day
  None

Incidents == {"slip", "refusal", "death", "edit", "delete"}

ASSUME CadenceAssumption == Cadence \in [Schedules -> Nat \ {0}]
ASSUME FailureLimitAssumption == FailureLimit \in Nat \ {0}
ASSUME BoundAssumption == LastDay \in Nat /\ Budget \in [Incidents -> Nat]
ASSUME NoneAssumption == None \notin Schedules

VARIABLES
  day,
  present,   \* schedules that have a row
  row,       \* RecurringSchedule: next_run, consecutive_failures, is_active
  stage, today, todo, current, copy,  \* each scan: its date, rows, copies
  draft,     \* the copy each person's request read, None when there is none
  numbers,   \* invoice numbers AUTO-<schedule>-<day> in the database
  issued,    \* invoices issued, as <<schedule, day>>
  streak,    \* history: failed attempts since a schedule's last success
  failed,    \* history: all failed attempts
  resting,   \* history: schedules paused while no scan worked on them
  left       \* incidents that may still happen

NewRows ==
  [c \in Schedules |-> [next |-> 0, failures |-> 0, active |-> TRUE]]

tableVars == <<present, row>>
scanVars == <<stage, today, todo, current, copy>>
bookVars == <<numbers, issued, streak, failed>>
vars == <<day, tableVars, scanVars, draft, bookVars, resting, left>>

Spend(incident) ==
  left[incident] > 0 /\ left' = [left EXCEPT ![incident] = @ - 1]

\* Midnight; a slip is a midnight that a running scan sees.
Tick ==
  /\ day < LastDay
  /\ day' = day + 1
  /\ IF \A s \in Scans : stage[s] = "idle" THEN UNCHANGED left ELSE Spend("slip")
  /\ UNCHANGED <<tableVars, scanVars, draft, bookVars, resting>>

------------------------------------------------------------------------------
(* The scan.                                                                 *)

DueAnyway == {c \in present : row[c].next <= day}
Due == {c \in present : row[c].active /\ row[c].next <= day}

\* The query: is_active and next_run <= today, all rows at once.
BeginScan(s) ==
  /\ stage[s] = "idle"
  /\ Due # {}
  /\ today' = [today EXCEPT ![s] = day]
  /\ todo' = [todo EXCEPT ![s] = Due]
  /\ copy' = [copy EXCEPT ![s] = row]
  /\ stage' = [stage EXCEPT ![s] = "looping"]
  /\ UNCHANGED <<day, tableVars, current, draft, bookVars, resting, left>>

FirstOnly(s, c) == {}
Rest(s, c) == todo[s] \ {c}

NextRow(s, c) ==
  /\ stage[s] = "looping"
  /\ todo' = [todo EXCEPT ![s] = Rest(s, c)]
  /\ current' = [current EXCEPT ![s] = c]
  /\ stage' = [stage EXCEPT ![s] = "creating"]
  /\ UNCHANGED <<day, tableVars, today, copy, draft, bookVars, resting, left>>

\* The copy after an attempt: next_run counts from the scan's own date, and
\* FailureLimit failures in a row disable the schedule.
OneTooFew(s, c, failures) ==
  [next |-> today[s] + Cadence[c], failures |-> failures,
   active |-> copy[s][c].active /\ failures < FailureLimit - 1]
OneDayEarly(s, c, failures) ==
  [next |-> today[s] + Cadence[c] - 1, failures |-> failures,
   active |-> copy[s][c].active /\ failures < FailureLimit]
Advanced(s, c, failures) ==
  [next |-> today[s] + Cadence[c], failures |-> failures,
   active |-> copy[s][c].active /\ failures < FailureLimit]

Keeps(failures) == failures
Resets(failures) == 0

Succeeded(s) ==
  LET c == current[s] IN
  /\ copy' = [copy EXCEPT ![s][c] = Advanced(s, c, Resets(@.failures))]
  /\ streak' = [streak EXCEPT ![c] = 0]
  /\ stage' = [stage EXCEPT ![s] = "saving"]
  /\ UNCHANGED failed

Failed(s) ==
  LET c == current[s] IN
  /\ copy' = [copy EXCEPT ![s][c] = Advanced(s, c, @.failures + 1)]
  /\ streak' = [streak EXCEPT ![c] = @ + 1]
  /\ failed' = [failed EXCEPT ![c] = @ + 1]
  /\ stage' = [stage EXCEPT ![s] = "saving"]

\* issue_invoice_from_schedule: the number holds the date of the moment, and
\* a second invoice of that number is refused.  The row is kept even when
\* issuing it fails afterwards.
CreateInvoice(s) ==
  LET n == <<current[s], day>> IN
  /\ stage[s] = "creating"
  /\ \/ n \in numbers /\ Failed(s) /\ UNCHANGED numbers
     \/ /\ n \notin numbers
        /\ numbers' = numbers \cup {n}
        /\ stage' = [stage EXCEPT ![s] = "issuing"]
        /\ UNCHANGED <<copy, streak, failed>>
  /\ UNCHANGED <<day, tableVars, today, todo, current, draft, issued, resting, left>>

IssueSucceeds(s) ==
  /\ stage[s] = "issuing"
  /\ current[s] \notin Hopeless
  /\ issued' = issued \cup {<<current[s], day>>}
  /\ Succeeded(s)
  /\ UNCHANGED <<day, tableVars, today, todo, current, draft, numbers, resting, left>>

IssueFails(s) ==
  /\ stage[s] = "issuing"
  /\ \/ current[s] \in Hopeless /\ UNCHANGED left
     \/ current[s] \notin Hopeless /\ Spend("refusal")
  /\ Failed(s)
  /\ UNCHANGED <<day, tableVars, today, todo, current, draft, numbers, issued, resting>>

\* A scan that ends forgets its rows.
Leave(s) ==
  /\ stage' = [stage EXCEPT ![s] = "idle"]
  /\ current' = [current EXCEPT ![s] = None]
  /\ todo' = [todo EXCEPT ![s] = {}]
  /\ today' = [today EXCEPT ![s] = 0]
  /\ copy' = [copy EXCEPT ![s] = NewRows]
  /\ UNCHANGED <<day, tableVars, draft, bookVars, resting>>

\* sched.save(update_fields=[...]): the three columns, from the copy.
SaveRow(s) ==
  /\ stage[s] = "saving"
  /\ current[s] \in present
  /\ row' = [row EXCEPT ![current[s]] = copy[s][current[s]]]
  /\ current' = [current EXCEPT ![s] = None]
  /\ stage' = [stage EXCEPT ![s] = "looping"]
  /\ UNCHANGED <<day, present, today, todo, copy, draft, bookVars, resting, left>>

\* The save of a row deleted meanwhile raises outside the try block, and the
\* schedules behind it wait for another scan.
SaveRefused(s) ==
  /\ stage[s] = "saving"
  /\ current[s] \notin present
  /\ Leave(s)
  /\ UNCHANGED left

EndScan(s) ==
  /\ stage[s] = "looping"
  /\ todo[s] = {}
  /\ Leave(s)
  /\ UNCHANGED left

\* The worker dies anywhere in the scan.
ScanDies(s) ==
  /\ stage[s] # "idle"
  /\ Spend("death")
  /\ Leave(s)

RunScan(s) ==
  \/ EndScan(s) \/ CreateInvoice(s) \/ IssueSucceeds(s) \/ IssueFails(s)
  \/ SaveRow(s) \/ SaveRefused(s)
  \/ \E c \in todo[s] : NextRow(s, c)

ScanStep(s) == BeginScan(s) \/ RunScan(s)

------------------------------------------------------------------------------
(* PATCH on a schedule: the view reads the row, the serializer saves every   *)
(* column of that copy with a new is_active or next_run, and inserts a row   *)
(* deleted meanwhile again.  DELETE removes the row.                         *)

LoadForEdit(u, c) ==
  /\ draft[u] = None /\ c \in present
  /\ Spend("edit")
  /\ draft' = [draft EXCEPT ![u] = [schedule |-> c, read |-> row[c]]]
  /\ UNCHANGED <<day, tableVars, scanVars, bookVars, resting>>

Held(c) == \E s \in Scans : c \in todo[s] \/ current[s] = c

SaveEdit(u, active) ==
  LET c == draft[u].schedule IN
  /\ draft[u] # None
  /\ \E next \in {draft[u].read.next, day} :
       row' = [row EXCEPT ![c] = [draft[u].read EXCEPT !.active = active,
                                                      !.next = next]]
  /\ present' = present \cup {c}
  /\ draft' = [draft EXCEPT ![u] = None]
  /\ resting' = IF active THEN resting \ {c}
                ELSE IF Held(c) THEN resting ELSE resting \cup {c}
  /\ UNCHANGED <<day, scanVars, bookVars, left>>

Delete(c) ==
  /\ c \in present
  /\ Spend("delete")
  /\ present' = present \ {c}
  /\ UNCHANGED <<day, row, scanVars, draft, bookVars, resting>>

Init ==
  /\ day = 0
  /\ present = Schedules
  /\ row = NewRows
  /\ stage = [s \in Scans |-> "idle"]
  /\ today = [s \in Scans |-> 0]
  /\ todo = [s \in Scans |-> {}]
  /\ current = [s \in Scans |-> None]
  /\ copy = [s \in Scans |-> NewRows]
  /\ draft = [u \in People |-> None]
  /\ numbers = {} /\ issued = {} /\ resting = {}
  /\ streak = [c \in Schedules |-> 0] /\ failed = streak
  /\ left = Budget

Next ==
  \/ Tick
  \/ \E s \in Scans : ScanStep(s) \/ ScanDies(s)
  \/ \E c \in Schedules : Delete(c) \/ \E u \in People : LoadForEdit(u, c)
  \/ \E u \in People, active \in BOOLEAN : SaveEdit(u, active)

Spec == Init /\ [][Next]_vars

\* A worker runs a scan it has begun to its end.  That one begins is not
\* assumed: the schedule of the Beat entry is a string, "0 0 * * *", which
\* Celery does not take for a crontab.
FairSpec == Spec /\ \A s \in Scans : WF_vars(RunScan(s))

------------------------------------------------------------------------------
(* Properties.                                                               *)

Row == [next : Nat, failures : Nat, active : BOOLEAN]

TypeOK ==
  /\ day \in 0..LastDay /\ present \subseteq Schedules
  /\ row \in [Schedules -> Row] /\ copy \in [Scans -> [Schedules -> Row]]
  /\ stage \in [Scans -> {"idle", "looping", "creating", "issuing", "saving"}]
  /\ today \in [Scans -> 0..day]
  /\ todo \in [Scans -> SUBSET Schedules]
  /\ current \in [Scans -> Schedules \cup {None}]
  /\ \A s \in Scans :
       /\ current[s] = None <=> stage[s] \in {"idle", "looping"}
       /\ current[s] \notin todo[s]
       /\ stage[s] = "idle" => todo[s] = {} /\ copy[s] = NewRows
  /\ draft \in [People -> [schedule : Schedules, read : Row] \cup {None}]
  /\ numbers \cup issued \subseteq Schedules \X (0..day)
  /\ streak \in [Schedules -> Nat] /\ failed \in [Schedules -> Nat]
  /\ resting \subseteq Schedules /\ left \in [Incidents -> Nat]

\* None of these incidents has happened.
Spared(incidents) == \A i \in incidents : left[i] = Budget[i]

\* consecutive_failures counts the attempts that failed since the last
\* success, and a schedule is active exactly while they are fewer than
\* MAX_CONSECUTIVE_FAILURES: neither refusals nor slips nor the other
\* schedules of the scan disturb the count, as long as no scan dies and nobody
\* edits.
DisabledAfterLimit ==
  Spared({"death", "edit"}) =>
    \A c \in present : (\A s \in Scans : current[s] # c) =>
      /\ row[c].failures = streak[c]
      /\ row[c].active <=> streak[c] < FailureLimit

\* RecurringSchedule: "Schedule that generates invoices on a cadence": two
\* invoices of a schedule are at least its cadence apart, however many
\* attempts fail in between, while every scan ends before midnight, none dies
\* and nobody edits.
InvoicesOnCadence ==
  Spared({"slip", "death", "edit"}) =>
    \A i, j \in issued :
      i[1] = j[1] /\ i[2] < j[2] => j[2] - i[2] >= Cadence[i[1]]

\* No schedule is disabled before MAX_CONSECUTIVE_FAILURES of its attempts
\* failed, whatever a scan that dies forgets, while nobody edits.
NeverDisabledEarly ==
  Spared({"edit"}) =>
    \A c \in Schedules : ~row[c].active => failed[c] >= FailureLimit

\* A pause made while no scan works on the schedule stays: no scan takes the
\* schedule up or activates it, until an edit does.  (One made while a scan
\* works on the schedule is overwritten by the scan's save.)
PauseIsKept ==
  \A c \in resting : ~row[c].active /\ ~Held(c)

\* A schedule that a scan found due is advanced past the day of the scan, or
\* disabled, before the scan ends: schedules that always fail, invoices that
\* are refused and edits in the middle of the scan do not keep it from its
\* turn.  (A scan that dies or meets a deleted row leaves the rest to the next.)
DueIsHandled ==
  \A s \in Scans, c \in Schedules :
    c \in todo[s] ~>
      \/ stage[s] # "idle" /\ row[c].next > today[s]
      \/ ~row[c].active
      \/ ~Spared({"death", "delete"})
==============================================================================
