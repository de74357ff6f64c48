------------------------------ MODULE Followups ------------------------------
(***************************************************************************)
(* Reminders (src/followups): rows created by invoices, by the API or by    *)
(* the AI service as drafts; the requests of people who approve, cancel,    *)
(* edit or delete them; and the hourly scan process_due_reminders, which    *)
(* reads the due rows once and then sends, saves and audits one by one.     *)
(*                                                                         *)
(* A request reads the row (get_object) and writes it later; so does the    *)
(* scan.  An edit saves every column of the copy it read, the other writes  *)
(* only the status.                                                         *)
(***************************************************************************)
EXTENDS Integers, FiniteSets

CONSTANTS
  Reminders,   \* reminders that may come to exist
  Silent,      \* those without recipient_email: nothing is sent for them
  Broken,      \* those whose text or e-mail adapter cannot be built
  Requests,    \* requests that may be in progress at a time
  Operations,  \* what they do: subset of {"approve", "cancel", "edit"}
  Scans,       \* executions of the scan that may overlap
  MaxMishaps,  \* bound: edits, and scans that die or whose send raises
  None

ASSUME KindAssumption == Silent \subseteq Reminders /\ Broken \subseteq Reminders
ASSUME OperationsAssumption == Operations \subseteq {"approve", "cancel", "edit"}
ASSUME BoundAssumption == MaxMishaps \in Nat
ASSUME NoneAssumption == None \notin Reminders
ASSUME ProcessAssumption ==
  IsFiniteSet(Requests) /\ Requests # {} /\ IsFiniteSet(Scans)

VARIABLES
  status,    \* Reminder.status, or "absent" or "deleted"
  due,       \* due_at has passed
  request,   \* each request: what it does, to which row, the status it read
  stage, todo, current,  \* each scan's loop: rows read and not yet handled
  drafted,   \* history: reminders the AI service drafted
  approved,  \* history: drafts a person approved
  mails,     \* history: e-mails sent per reminder
  audits,    \* audit rows followup.sent per reminder
  edits, faults

scanVars == <<stage, todo, current>>
histVars == <<drafted, approved, mails, audits>>
vars == <<status, due, request, scanVars, histVars, edits, faults>>

Statuses == {"draft", "pending", "sent", "cancelled"}
Free == [op |-> "none", reminder |-> None, seen |-> "absent"]

------------------------------------------------------------------------------
(* Rows come to exist.                                                       *)

\* schedule_invoice_reminder, or POST /api/reminders.
Create(r) ==
  /\ status[r] = "absent"
  /\ status' = [status EXCEPT ![r] = "pending"]
  /\ UNCHANGED <<due, request, scanVars, histVars, edits, faults>>

\* create_draft_reminder, called for the AI service's agent.
CreateDraft(r) ==
  /\ status[r] = "absent"
  /\ status' = [status EXCEPT ![r] = "draft"]
  /\ drafted' = drafted \cup {r}
  /\ UNCHANGED <<due, request, scanVars, approved, mails, audits, edits,
                 faults>>

ComeDue(r) ==
  /\ ~due[r]
  /\ due' = [due EXCEPT ![r] = TRUE]
  /\ UNCHANGED <<status, request, scanVars, histVars, edits, faults>>

------------------------------------------------------------------------------
(* Requests of the tenant's people.                                          *)

\* get_object: the view holds a copy of the row from here on.
GetObject(q, op, r) ==
  /\ request[q] = Free
  /\ status[r] \in Statuses
  /\ op = "edit" => edits + faults < MaxMishaps
  /\ edits' = IF op = "edit" THEN edits + 1 ELSE edits
  /\ request' = [request EXCEPT ![q] =
                   [op |-> op, reminder |-> r, seen |-> status[r]]]
  /\ UNCHANGED <<status, due, scanVars, histVars, faults>>

\* save(update_fields=["status"]) raises when the row is gone.
SaveStatus(r, new) ==
  status' = IF status[r] \in Statuses THEN [status EXCEPT ![r] = new]
                                      ELSE status

Respond(q) == request' = [request EXCEPT ![q] = Free]

\* cancel: any status but cancelled becomes cancelled.
Cancel(q) ==
  LET r == request[q].reminder IN
  /\ request[q].op = "cancel"
  /\ IF request[q].seen # "cancelled" THEN SaveStatus(r, "cancelled")
                                      ELSE UNCHANGED status
  /\ Respond(q)
  /\ UNCHANGED <<due, scanVars, histVars, edits, faults>>

NotYetSent(q) == request[q].seen # "sent"
IsDraft(q) == request[q].seen = "draft"

\* approve: approve_draft promotes a draft and leaves the rest alone.
Approve(q) ==
  LET r == request[q].reminder IN
  /\ request[q].op = "approve"
  /\ IF IsDraft(q)
     THEN /\ SaveStatus(r, "pending")
          /\ approved' = approved \cup {r}
     ELSE UNCHANGED <<status, approved>>
  /\ Respond(q)
  /\ UNCHANGED <<due, scanVars, drafted, mails, audits, edits, faults>>

\* PUT or PATCH: the serializer saves the whole copy, its status included, and
\* inserts the row again when it was deleted meanwhile.
Edit(q) ==
  LET r == request[q].reminder IN
  /\ request[q].op = "edit"
  /\ status' = [status EXCEPT ![r] = request[q].seen]
  /\ Respond(q)
  /\ UNCHANGED <<due, scanVars, histVars, edits, faults>>

Delete(r) ==
  /\ status[r] \in Statuses
  /\ status' = [status EXCEPT ![r] = "deleted"]
  /\ UNCHANGED <<due, request, scanVars, histVars, edits, faults>>

------------------------------------------------------------------------------
(* The scan, started by Beat in a worker.                                    *)

DueUnsent == {r \in Reminders : due[r] /\ status[r] \in {"draft", "pending"}}
NotYetDue == {r \in Reminders : ~due[r] /\ status[r] = "pending"}
DueRows == {r \in Reminders : due[r] /\ status[r] = "pending"}

\* The query: all due pending rows, once.
BeginScan(s) ==
  /\ stage[s] = "idle"
  /\ DueRows # {}
  /\ todo' = [todo EXCEPT ![s] = DueRows]
  /\ stage' = [stage EXCEPT ![s] = "looping"]
  /\ UNCHANGED <<status, due, request, current, histVars, edits, faults>>

AlwaysSilent(r) == r \in Reminders
NeedsNoMail(r) == r \in Silent

\* The next row, in no particular order; without a recipient nothing is sent.
NextRow(s, r) ==
  /\ stage[s] = "looping"
  /\ todo' = [todo EXCEPT ![s] = @ \ {r}]
  /\ current' = [current EXCEPT ![s] = r]
  /\ stage' = [stage EXCEPT ![s] = IF NeedsNoMail(r) THEN "saving"
                                                     ELSE "sending"]
  /\ UNCHANGED <<status, due, request, histVars, edits, faults>>

EndScan(s) ==
  /\ stage[s] = "looping"
  /\ todo[s] = {}
  /\ stage' = [stage EXCEPT ![s] = "idle"]
  /\ UNCHANGED <<status, due, request, todo, current, histVars, edits, faults>>

\* The body, the adapter and the send.
Send(s) ==
  LET r == current[s] IN
  /\ stage[s] = "sending"
  /\ r \notin Broken
  /\ mails' = [mails EXCEPT ![r] = @ + 1]
  /\ stage' = [stage EXCEPT ![s] = "saving"]
  /\ UNCHANGED <<status, due, request, todo, current, drafted, approved,
                 audits, edits, faults>>

Released(s) == [current EXCEPT ![s] = None]

\* An exception leaves the loop: the remaining rows are not handled.
Abort(s) ==
  /\ stage' = [stage EXCEPT ![s] = "idle"]
  /\ todo' = [todo EXCEPT ![s] = {}]
  /\ current' = Released(s)

SendImpossible(s) ==
  /\ stage[s] = "sending"
  /\ current[s] \in Broken
  /\ Abort(s)
  /\ UNCHANGED <<status, due, request, histVars, edits, faults>>

\* The status is overwritten whatever it has become; a deleted row raises.
NotSaved(r) == status
MarkSent(r) == [status EXCEPT ![r] = "sent"]

Save(s) ==
  LET r == current[s] IN
  /\ stage[s] = "saving"
  /\ IF status[r] \in Statuses
     THEN /\ status' = MarkSent(r)
          /\ stage' = [stage EXCEPT ![s] = "auditing"]
          /\ UNCHANGED <<todo, current>>
     ELSE Abort(s) /\ UNCHANGED status
  /\ UNCHANGED <<due, request, histVars, edits, faults>>

Audit(s) ==
  /\ stage[s] = "auditing"
  /\ audits' = [audits EXCEPT ![current[s]] = @ + 1]
  /\ current' = Released(s)
  /\ stage' = [stage EXCEPT ![s] = "looping"]
  /\ UNCHANGED <<status, due, request, todo, drafted, approved, mails, edits,
                 faults>>

\* The worker dies, or the mail server or the database refuses.
ScanFails(s) ==
  /\ stage[s] # "idle"
  /\ edits + faults < MaxMishaps
  /\ faults' = faults + 1
  /\ Abort(s)
  /\ UNCHANGED <<status, due, request, histVars, edits>>

ScanStep(s) ==
  \/ BeginScan(s) \/ EndScan(s) \/ Send(s) \/ SendImpossible(s)
  \/ Save(s) \/ Audit(s)
  \/ \E r \in todo[s] : NextRow(s, r)

RequestStep(q) == Cancel(q) \/ Approve(q) \/ Edit(q)

Init ==
  /\ status = [r \in Reminders |-> "absent"]
  /\ due = [r \in Reminders |-> FALSE]
  /\ request = [q \in Requests |-> Free]
  /\ stage = [s \in Scans |-> "idle"]
  /\ todo = [s \in Scans |-> {}]
  /\ current = [s \in Scans |-> None]
  /\ drafted = {} /\ approved = {}
  /\ mails = [r \in Reminders |-> 0]
  /\ audits = [r \in Reminders |-> 0]
  /\ edits = 0 /\ faults = 0

Next ==
  \/ \E r \in Reminders : Create(r) \/ CreateDraft(r) \/ ComeDue(r) \/ Delete(r)
  \/ \E q \in Requests : RequestStep(q)
  \/ \E q \in Requests, op \in Operations, r \in Reminders : GetObject(q, op, r)
  \/ \E s \in Scans : ScanStep(s) \/ ScanFails(s)

Spec == Init /\ [][Next]_vars

\* A running Beat starts the scan again and again (its entry is a crontab),
\* workers and requests proceed; what people do, and whether time passes, is
\* left open.
FairSpec ==
  /\ Spec
  /\ \A s \in Scans : WF_vars(ScanStep(s))
  /\ \A q \in Requests : WF_vars(RequestStep(q))

------------------------------------------------------------------------------
(* Properties.                                                               *)

Row == Statuses \cup {"absent", "deleted"}
Job == [op : Operations \cup {"none"}, reminder : Reminders \cup {None},
        seen : Statuses \cup {"absent"}]

TypeOK ==
  /\ status \in [Reminders -> Row]
  /\ due \in [Reminders -> BOOLEAN]
  /\ request \in [Requests -> Job]
  /\ \A q \in Requests :
       request[q] # Free =>
         /\ request[q].op # "none" /\ request[q].reminder \in Reminders
         /\ request[q].seen \in Statuses
  /\ stage \in [Scans -> {"idle", "looping", "sending", "saving", "auditing"}]
  /\ todo \in [Scans -> SUBSET Reminders]
  /\ current \in [Scans -> Reminders \cup {None}]
  /\ \A s \in Scans :
       stage[s] \in {"sending", "saving", "auditing"} <=> current[s] # None
  /\ drafted \subseteq Reminders /\ approved \subseteq Reminders
  /\ mails \in [Reminders -> Nat] /\ audits \in [Reminders -> Nat]
  /\ edits \in Nat /\ faults \in Nat

Holds(s, r) == current[s] = r \/ r \in todo[s]

\* A message an LLM drafted leaves the system only after a person approved it,
\* whatever cancels, edits, deletions and scans do to the row meanwhile.
NoDraftMailedUnapproved ==
  \A r \in drafted : mails[r] > 0 => r \in approved

\* A sent reminder was mailed unless it has no recipient, and its audit row
\* exists unless a scan is about to write it or died.
SentIsTrue ==
  \A r \in Reminders :
    status[r] = "sent" =>
      /\ mails[r] > 0 \/ r \in Silent
      /\ \/ audits[r] > 0 \/ faults > 0
         \/ \E s \in Scans : stage[s] = "auditing" /\ current[s] = r

\* Nobody who read the row before it was cancelled is still at work.
CancelledQuietly(r) ==
  /\ status[r] = "cancelled"
  /\ \A q \in Requests : request[q].reminder = r => request[q].seen = "cancelled"
  /\ \A s \in Scans : ~Holds(s, r)

\* From then on the reminder stays cancelled, or is deleted, and no mail is
\* sent for it: approving or editing a cancelled reminder does not revive it.
CancelledForGood ==
  [][\A r \in Reminders :
       CancelledQuietly(r) =>
         /\ CancelledQuietly(r)' \/ status'[r] = "deleted"
         /\ mails'[r] = mails[r]]_vars

\* process_due_reminders mails a reminder once and marks it sent.  Each further
\* mail has its cause: another scan that read the row before it was marked,
\* another request that had read the same draft and approves it again, an edit
\* that wrote pending or draft back, or a scan that failed after its send.
RepeatsHaveACause ==
  \A r \in Reminders :
    mails[r] <= Cardinality(Scans) * (Cardinality(Requests) * (1 + edits)) + faults

\* A due reminder is handled, unless a due one whose text or adapter cannot be
\* built ends the scans before they reach it.
OnlyBrokenOnesBlock ==
  \A r \in Reminders :
    (due[r] /\ status[r] = "pending")
      ~> (\/ status[r] # "pending"
          \/ \E b \in Broken : due[b] /\ status[b] = "pending")

\* process_due_reminders: "Send every PENDING reminder whose due_at has passed."
EveryDueReminderSent ==
  \A r \in Reminders \ Broken :
    due[r] /\ status[r] = "pending" ~> status[r] # "pending"
==============================================================================
