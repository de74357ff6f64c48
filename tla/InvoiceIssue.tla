---------------------------- MODULE InvoiceIssue -----------------------------
(***************************************************************************)
(* The life of one invoice (src/invoices): it is entered, or created by the *)
(* daily scan, edited and issued.  issue_invoice calls the PDF store, the   *)
(* billing system, the mail server and the chat inside the database         *)
(* transaction, one after the other, each through an adapter that is looked *)
(* up before its call (Integrations); they keep what they were told when    *)
(* the transaction is rolled back.  Whoever issues or edits the invoice     *)
(* works on the copy of the row that was read or created.  Amounts are in   *)
(* 1/10000: a line multiplies two numbers of two decimals, while the column *)
(* of a total holds two.                                                    *)
(***************************************************************************)
EXTENDS Integrations, FiniteSets, Sequences

CONSTANTS
  LineSum,    \* sum of the line items the scan gives the invoice
  FirstTotal, \* total of an invoice that is entered: 0 through the API, a
              \* number of its own by data entry; neither has line items
  Issuers,    \* processes that issue the invoice: requests, the daily scan
  Editors,    \* requests that edit it
  MaxIssues,  \* issues started in a behaviour
  MaxEdits,   \* edits in a behaviour
  MaxFaults   \* an issue may fail by accident until so many have failed

ASSUME BoundAssumption ==
  /\ LineSum \in Nat /\ FirstTotal \in Nat
  /\ MaxIssues \in Nat /\ MaxEdits \in Nat /\ MaxFaults \in Nat
ASSUME ProcessAssumption == IsFiniteSet(Issuers) /\ Issuers \cap Editors = {}

VARIABLES
  row,       \* the Invoice: status, due_date (a version), total, vendor_id, pdf_path,
             \* the sum of its lines; history: the push its issue made
  creation,  \* history: how far the invoice was created, or that it was read early
  stage,     \* where each issuer stands
  copy,      \* the row, with its lines, that each issuer or editor has
  push,      \* the push each issuer has made
  stored,    \* the PDF is in the object store
  billed,    \* due date and total the billing system was told, the id it answered
  mailed,    \* e-mails with the invoice
  posted,    \* chat messages that announce it
  audits,    \* audit rows invoice.issued
  reminders, \* follow-ups scheduled, by due date
  amended,   \* history: an issued copy was edited
  issues, edits,
  failures   \* history: issues that failed

worldVars == <<stored, billed, mailed, posted>>
logVars == <<audits, reminders>>
counters == <<issues, edits, failures>>
vars == <<row, creation, stage, copy, push, worldVars, logVars, amended, counters,
          integrationVars>>

NoRow == [status |-> "none", due |-> 0, total |-> 0, vendor |-> 0, pdf |-> FALSE,
          lines |-> 0, push |-> 0]
Draft(total) == [NoRow EXCEPT !.status = "draft", !.total = total]

\* numeric(12, 2): the database rounds what it stores, half away from zero.
Column(amount) == 100 * ((amount + 50) \div 100)

\* Invoice.save recomputes the total from the lines, as the copy has them, and
\* leaves the rounding to the column.
Accumulated(invoice) == [invoice EXCEPT !.total = @ + Column(invoice.lines),
                                        !.lines = row.lines]
Saved(invoice) == [invoice EXCEPT !.total = Column(invoice.lines), !.lines = row.lines]

\* POST /api/invoices, or a record of data entry.
Enter ==
  /\ row = NoRow
  /\ row' = Draft(FirstTotal)
  /\ creation' = "complete"
  /\ UNCHANGED <<stage, copy, push, worldVars, logVars, amended, counters,
                 integrationVars>>

Start(i, next) ==
  /\ stage[i] = "idle"
  /\ issues < MaxIssues
  /\ issues' = issues + 1
  /\ stage' = [stage EXCEPT ![i] = next]
  /\ UNCHANGED <<push, worldVars, logVars, amended, edits, failures, integrationVars>>

\* The scan creates the invoice of a schedule in no transaction: the row ...
CreateInvoice(i) ==
  /\ row = NoRow
  /\ Start(i, "lining")
  /\ row' = Draft(0)
  /\ copy' = [copy EXCEPT ![i] = Draft(0)]
  /\ creation' = "partial"

\* ... its lines, as one step ...
AddLines(i) ==
  /\ stage[i] = "lining"
  /\ stage' = [stage EXCEPT ![i] = "summing"]
  /\ row' = [row EXCEPT !.lines = LineSum]
  /\ copy' = [copy EXCEPT ![i].lines = LineSum]
  /\ UNCHANGED <<creation, push, worldVars, logVars, amended, counters, integrationVars>>

\* ... and its total, which the scan's own copy keeps unrounded.
SaveTotal(i) ==
  /\ stage[i] = "summing"
  /\ stage' = [stage EXCEPT ![i] = "storing"]
  /\ row' = Saved(copy[i])
  /\ copy' = [copy EXCEPT ![i].total = copy[i].lines]
  /\ creation' = IF creation = "partial" THEN "complete" ELSE creation
  /\ UNCHANGED <<push, worldVars, logVars, amended, counters, integrationVars>>

\* get_object reads the row and its lines.
Take(p) ==
  /\ row # NoRow
  /\ copy' = [copy EXCEPT ![p] = row]
  /\ creation' = IF creation = "partial" THEN "early" ELSE creation
  /\ UNCHANGED row

Load(i) == Take(i) /\ Start(i, "storing")

\* The effects of the calls: a PDF of the same number is replaced, an invoice
\* is created whether or not the billing system has it already, and is kept
\* also when its id does not come back.
Store(i) ==
  /\ stage[i] = "storing" /\ GetAdapter("storage")
  /\ stored' = TRUE
  /\ UNCHANGED <<billed, mailed, posted>>

Push(i, id) ==
  /\ stage[i] = "billing" /\ GetAdapter("billing")
  /\ billed' = Append(billed, [due |-> copy[i].due, total |-> copy[i].total, id |-> id])
  /\ UNCHANGED <<stored, mailed, posted>>

Mail(i) ==
  /\ stage[i] = "mailing" /\ GetAdapter("email")
  /\ mailed' = mailed + 1
  /\ UNCHANGED <<stored, billed, posted>>

Post(i) ==
  /\ stage[i] = "chatting" /\ GetAdapter("chat")
  /\ posted' = posted + 1
  /\ UNCHANGED <<stored, billed, mailed>>

Proceed(i, next) ==
  /\ stage' = [stage EXCEPT ![i] = next]
  /\ UNCHANGED <<row, creation, copy, logVars, amended, counters, integrationVars>>

\* render_invoice_pdf and storage.put.
StorePdf(i) == Store(i) /\ Proceed(i, "billing") /\ UNCHANGED push

\* An answer without an id (0) is taken for the id ''.
PushInvoice(i) ==
  /\ \E id \in {0, Len(billed) + 1} : Push(i, id)
  /\ Proceed(i, "mailing")
  /\ push' = [push EXCEPT ![i] = Len(billed')]

MailClient(i) == Mail(i) /\ Proceed(i, "chatting") /\ UNCHANGED push

\* Whatever the chat raises is ignored, a missing adapter included.
PostToChat(i) ==
  /\ stage[i] = "chatting"
  /\ Post(i) \/ UNCHANGED worldVars
  /\ Proceed(i, "saving")
  /\ UNCHANGED push

Forget(i) ==
  /\ copy' = [copy EXCEPT ![i] = NoRow]
  /\ push' = [push EXCEPT ![i] = 0]

StatusOnly(i) ==
  [row EXCEPT !.status = "issued", !.vendor = billed[push[i]].id,
              !.pdf = TRUE, !.push = push[i]]
LostVendorId(i) ==
  [copy[i] EXCEPT !.status = "issued", !.pdf = TRUE, !.push = push[i]]
WholeCopy(i) ==
  [copy[i] EXCEPT !.status = "issued", !.vendor = billed[push[i]].id,
                  !.pdf = TRUE, !.push = push[i]]

\* invoice.save() writes every column of the copy; the audit row and the
\* reminder commit with it.
Commit(i) ==
  /\ stage[i] = "saving"
  /\ row' = Saved(WholeCopy(i))
  /\ audits' = audits + 1
  /\ reminders' = Append(reminders, copy[i].due)
  /\ stage' = [stage EXCEPT ![i] = "idle"]
  /\ Forget(i)
  /\ amended' = FALSE
  /\ UNCHANGED <<creation, worldVars, counters, integrationVars>>

AuditAnyway == row' = row /\ audits' = audits + 1 /\ UNCHANGED reminders
RollbackOnly == UNCHANGED <<row, logVars>>

\* The transaction is rolled back; what the vendors were told is not, nor what
\* the scan saved before the transaction.
Abort(i) ==
  /\ failures' = failures + 1
  /\ RollbackOnly
  /\ stage' = [stage EXCEPT ![i] = "idle"]
  /\ Forget(i)
  /\ UNCHANGED <<creation, amended, issues, edits, integrationVars>>

Needed == [storing |-> "storage", billing |-> "billing", mailing |-> "email"]

\* AdapterNotConfigured, or the KeyError of its constructor.
AdapterMissing(i) ==
  /\ stage[i] \in DOMAIN Needed
  /\ ~GetAdapter(Needed[stage[i]])
  /\ Abort(i)
  /\ UNCHANGED worldVars

\* A vendor refuses, the database refuses, the process dies, or a vendor's
\* answer is lost after it has acted.
IssueFails(i) ==
  /\ stage[i] # "idle"
  /\ failures < MaxFaults
  /\ Store(i) \/ Push(i, 0) \/ Mail(i) \/ Post(i) \/ UNCHANGED worldVars
  /\ Abort(i)

\* PATCH /api/invoices: read the row ...
LoadForEdit(u) ==
  /\ copy[u] = NoRow
  /\ edits < MaxEdits
  /\ edits' = edits + 1
  /\ Take(u)
  /\ UNCHANGED <<stage, push, worldVars, logVars, amended, issues, failures,
                 integrationVars>>

\* ... and save every column of the copy with the new due date.
SaveEdit(u) ==
  /\ copy[u] # NoRow
  /\ row' = Saved([copy[u] EXCEPT !.due = edits])
  /\ amended' = (copy[u].status = "issued")
  /\ copy' = [copy EXCEPT ![u] = NoRow]
  /\ UNCHANGED <<creation, stage, push, worldVars, logVars, counters, integrationVars>>

Init ==
  /\ row = NoRow /\ creation = "none"
  /\ stage = [i \in Issuers |-> "idle"]
  /\ copy = [p \in Issuers \cup Editors |-> NoRow]
  /\ push = [i \in Issuers |-> 0]
  /\ stored = FALSE /\ billed = <<>> /\ mailed = 0 /\ posted = 0
  /\ audits = 0 /\ reminders = <<>>
  /\ amended = FALSE
  /\ issues = 0 /\ edits = 0 /\ failures = 0
  /\ IntegrationInit

Next ==
  \/ Enter
  \/ \E i \in Issuers :
       \/ CreateInvoice(i) \/ AddLines(i) \/ SaveTotal(i)
       \/ Load(i) \/ StorePdf(i) \/ PushInvoice(i) \/ MailClient(i)
       \/ PostToChat(i) \/ Commit(i) \/ AdapterMissing(i) \/ IssueFails(i)
  \/ \E u \in Editors : LoadForEdit(u) \/ SaveEdit(u)
  \/ \E kind \in KindsUsed, new \in Configurations :
       /\ Reconfigure(kind, new)
       /\ UNCHANGED <<row, creation, stage, copy, push, worldVars, logVars,
                      amended, counters>>

Spec == Init /\ [][Next]_vars

------------------------------------------------------------------------------
(* Properties.                                                               *)

Row == [status : {"draft", "issued"}, due : Nat, total : Nat, vendor : Nat,
        pdf : BOOLEAN, lines : Nat, push : Nat]
Bill == [due : Nat, total : Nat, id : Nat]
Stages == {"idle", "lining", "summing", "storing", "billing", "mailing",
           "chatting", "saving"}

TypeOK ==
  /\ row \in Row \cup {NoRow}
  /\ creation \in {"none", "partial", "complete", "early"}
  /\ stage \in [Issuers -> Stages]
  /\ copy \in [Issuers \cup Editors -> Row \cup {NoRow}]
  /\ row = NoRow => \A p \in Issuers \cup Editors : copy[p] = NoRow
  /\ push \in [Issuers -> Nat]
  /\ \A i \in Issuers :
       /\ stage[i] = "idle" <=> copy[i] = NoRow
       /\ stage[i] \in {"mailing", "chatting", "saving"} => push[i] \in 1..Len(billed)
  /\ stored \in BOOLEAN /\ billed \in Seq(Bill)
  /\ mailed \in Nat /\ posted \in Nat
  /\ audits \in Nat /\ reminders \in Seq(Nat) /\ amended \in BOOLEAN
  /\ issues \in 0..MaxIssues /\ edits \in 0..MaxEdits /\ failures \in Nat
  /\ config \in [KindsUsed -> Configurations] /\ changes \in 0..MaxChanges

\* An invoice shown as issued was stored, billed and mailed, is in the audit
\* log and has a follow-up, and its vendor_id is what the billing system
\* answered the push of its issue ('' if that had none): no interleaving of
\* issues, failures and edits fabricates an issued row.
IssuedIsBacked ==
  row.status = "issued" =>
    /\ stored /\ row.pdf /\ mailed > 0
    /\ audits > 0 /\ reminders # <<>>
    /\ row.push \in 1..Len(billed) /\ row.vendor = billed[row.push].id

\* The due date of an issued row is the one the billing system was told by its
\* issue, until somebody edits the issued invoice.
IssuedMatchesBilling ==
  row.status = "issued" /\ ~amended => billed[row.push].due = row.due

\* Invoice: "total: Total amount, auto-computed from line items on save": the
\* billing system is told the total the row has, but for the decimals the
\* column has no room for, unless somebody read the invoice before the scan had
\* given it its lines and its total.
BilledTotalIsStored ==
  row.status = "issued" /\ creation # "early" =>
    Column(billed[row.push].total) = row.total

InState(stages) == Cardinality({i \in Issuers : stage[i] \in stages})

\* Every push, mail and chat message is followed by a committed issue, except
\* for the issues still running and one per failure; the chat alone may miss
\* an issue.
OrphansOnlyFromFailures ==
  /\ Len(billed) <= audits + InState({"mailing", "chatting", "saving"}) + failures
  /\ mailed <= audits + InState({"chatting", "saving"}) + failures
  /\ posted <= audits + InState({"saving"}) + failures
  /\ audits = Len(reminders) /\ audits <= mailed /\ mailed <= Len(billed)
==============================================================================
