------------------------------ MODULE DataEntry ------------------------------
(***************************************************************************)
(* Staged records (src/dataentry): the adapters store what came in as       *)
(* pending rows, and process_record validates one of them and creates the   *)
(* client or the invoice it stands for.                                     *)
(*                                                                         *)
(* process_record has no transaction of its own: every query and every save *)
(* is a step, and what a step created stays when a later one fails.  The    *)
(* repository never publishes the task (only tests call it); Trigger stands *)
(* for whoever does.                                                        *)
(***************************************************************************)
EXTENDS Integers

CONSTANTS
  Records,    \* staged rows
  Target,     \* target_type of each: "contact", "invoice" or "other"
  Complete,   \* rows with every required field
  Email,      \* the client's address in each row
  Number,     \* the invoice number in each row
  Workers,    \* executions of process_record
  MaxTriggers,  \* calls of process_record in a behaviour
  MaxCrashes,   \* workers that die
  None

Targets == {"contact", "invoice", "other"}

ASSUME TargetAssumption == Target \in [Records -> Targets]
ASSUME RowAssumption == Complete \subseteq Records
ASSUME BoundAssumption == MaxTriggers \in Nat /\ MaxCrashes \in Nat
ASSUME NoneAssumption == None \notin Records

Emails == {Email[r] : r \in Records}
Numbers == {Number[r] : r \in Records}

VARIABLES
  status,    \* DataEntryRecord.status, or "absent"
  calls,     \* calls of process_record that no worker has taken
  triggers,  \* how often process_record was called so far
  pc, rec,   \* each worker: where it stands and its row
  clients,   \* Client rows per address (nothing makes the address unique)
  invoices,  \* numbers of the Invoice rows (unique per tenant)
  made,      \* history: objects created for each row: clients or invoices
  crashes

workVars == <<calls, triggers, pc, rec>>
dataVars == <<clients, invoices, made>>
vars == <<status, workVars, dataVars, crashes>>

\* ingest_form, ingest_csv, ingest_email, ingest_webhook: a pending row.
Ingest(r) ==
  /\ status[r] = "absent"
  /\ status' = [status EXCEPT ![r] = "pending"]
  /\ UNCHANGED <<workVars, dataVars, crashes>>

\* Somebody calls process_record, once more perhaps for a row it has handled.
Trigger(r) ==
  /\ status[r] # "absent"
  /\ triggers < MaxTriggers
  /\ triggers' = triggers + 1
  /\ calls' = [calls EXCEPT ![r] = @ + 1]
  /\ UNCHANGED <<status, pc, rec, dataVars, crashes>>

Goto(w, label) == pc' = [pc EXCEPT ![w] = label]

\* objects.get and _validate; the status is not looked at.
HasRequired(r) == r \in Complete

Start(w, r) ==
  /\ pc[w] = "idle"
  /\ calls[r] > 0
  /\ calls' = [calls EXCEPT ![r] = @ - 1]
  /\ rec' = [rec EXCEPT ![w] = r]
  /\ Goto(w, IF HasRequired(r) THEN "valid" ELSE "invalid")
  /\ UNCHANGED <<status, triggers, dataVars, crashes>>

NoContacts == [contact |-> "dispatched", invoice |-> "getclient",
               other |-> "dispatched"]
Dispatches == [contact |-> "contact", invoice |-> "getclient",
               other |-> "dispatched"]

SaveValid(w) ==
  /\ pc[w] = "valid"
  /\ status' = [status EXCEPT ![rec[w]] = "valid"]
  /\ Goto(w, Dispatches[Target[rec[w]]])
  /\ UNCHANGED <<calls, triggers, rec, dataVars, crashes>>

Counted(r) == made' = [made EXCEPT ![r] = @ + 1]

\* A due date or a total cannot be parsed, a value is too long for its column,
\* or the database fails: the except clause catches that.
CreateRaises(w) == Goto(w, "invalid") /\ UNCHANGED dataVars

\* A contact becomes a new client, whoever has the address already.
CreateContact(w) ==
  LET r == rec[w] IN
  /\ pc[w] = "contact"
  /\ \/ /\ clients' = [clients EXCEPT ![Email[r]] = @ + 1]
        /\ Counted(r)
        /\ Goto(w, "dispatched")
        /\ UNCHANGED invoices
     \/ CreateRaises(w)
  /\ UNCHANGED <<status, calls, triggers, rec, crashes>>

\* get_or_create for the invoice's client: one row is taken, none is created
\* in a second query, and several raise.
Found(e) ==
  CASE clients[e] = 0 -> "newclient"
    [] clients[e] = 1 -> "invoice"
    [] OTHER -> "invalid"

GetClient(w) ==
  /\ pc[w] = "getclient"
  /\ Goto(w, Found(Email[rec[w]]))
  /\ UNCHANGED <<status, calls, triggers, rec, dataVars, crashes>>

CreateClient(w) ==
  /\ pc[w] = "newclient"
  /\ \/ /\ clients' = [clients EXCEPT ![Email[rec[w]]] = @ + 1]
        /\ Goto(w, "invoice")
        /\ UNCHANGED <<invoices, made>>
     \/ CreateRaises(w)
  /\ UNCHANGED <<status, calls, triggers, rec, crashes>>

\* The due date and the total are parsed and the draft invoice is saved; a
\* number in use always raises.
NumberIgnored(r) == TRUE
Acceptable(r) == Number[r] \notin invoices

CreateInvoice(w) ==
  LET r == rec[w] IN
  /\ pc[w] = "invoice"
  /\ \/ /\ Acceptable(r)
        /\ invoices' = invoices \cup {Number[r]}
        /\ Counted(r)
        /\ Goto(w, "dispatched")
        /\ UNCHANGED clients
     \/ CreateRaises(w)
  /\ UNCHANGED <<status, calls, triggers, rec, crashes>>

ErrorOnly(w) == IF pc[w] = "invalid" THEN status[rec[w]] ELSE pc[w]
Verdict(w) == pc[w]

\* The last save, of the happy path or of the except clause, names its status.
Return(w) ==
  /\ pc[w] \in {"dispatched", "invalid"}
  /\ status' = [status EXCEPT ![rec[w]] = Verdict(w)]
  /\ Goto(w, "idle")
  /\ rec' = [rec EXCEPT ![w] = None]
  /\ UNCHANGED <<calls, triggers, dataVars, crashes>>

WorkerDies(w) ==
  /\ pc[w] # "idle"
  /\ crashes < MaxCrashes
  /\ crashes' = crashes + 1
  /\ Goto(w, "idle")
  /\ rec' = [rec EXCEPT ![w] = None]
  /\ UNCHANGED <<status, calls, triggers, dataVars>>

WorkerStep(w) ==
  \/ SaveValid(w) \/ CreateContact(w) \/ GetClient(w) \/ CreateClient(w)
  \/ CreateInvoice(w) \/ Return(w)
  \/ \E r \in Records : Start(w, r)

Init ==
  /\ status = [r \in Records |-> "absent"]
  /\ calls = [r \in Records |-> 0] /\ triggers = 0
  /\ pc = [w \in Workers |-> "idle"] /\ rec = [w \in Workers |-> None]
  /\ clients = [e \in Emails |-> 0] /\ invoices = {}
  /\ made = [r \in Records |-> 0]
  /\ crashes = 0

Next ==
  \/ \E r \in Records : Ingest(r) \/ Trigger(r)
  \/ \E w \in Workers : WorkerStep(w) \/ WorkerDies(w)

Spec == Init /\ [][Next]_vars

\* Workers run the calls they have; whether anybody calls is left open.
FairSpec == Spec /\ \A w \in Workers : WF_vars(WorkerStep(w))

------------------------------------------------------------------------------
(* Properties.                                                               *)

Labels == {"idle", "valid", "contact", "getclient", "newclient", "invoice",
           "dispatched", "invalid"}

TypeOK ==
  /\ status \in [Records -> {"absent", "pending", "valid", "dispatched", "invalid"}]
  /\ calls \in [Records -> Nat] /\ triggers \in 0..MaxTriggers
  /\ pc \in [Workers -> Labels] /\ rec \in [Workers -> Records \cup {None}]
  /\ \A w \in Workers : pc[w] = "idle" <=> rec[w] = None
  /\ \A w \in Workers :
       pc[w] = "contact" => Target[rec[w]] = "contact"
  /\ \A w \in Workers :
       pc[w] \in {"getclient", "newclient", "invoice"} =>
         Target[rec[w]] = "invoice"
  /\ clients \in [Emails -> Nat] /\ invoices \subseteq Numbers
  /\ made \in [Records -> Nat] /\ crashes \in 0..MaxCrashes

\* A row shown as dispatched has its client or its invoice in the database,
\* whichever of several executions, some dead or refused, saved last.
DispatchedIsReal ==
  \A r \in Records : status[r] = "dispatched" =>
    CASE Target[r] = "contact" -> clients[Email[r]] > 0 /\ made[r] > 0
      [] Target[r] = "invoice" -> Number[r] \in invoices /\ clients[Email[r]] > 0
      [] OTHER -> made[r] = 0

\* A row is never turned into two invoices, and two rows never into one
\* invoice: however often they are processed, the number admits one.
OneInvoicePerNumber ==
  \A r, q \in Records :
    Target[r] = "invoice" /\ Target[q] = "invoice" /\ Number[r] = Number[q] =>
      /\ made[r] <= 1
      /\ r # q => made[r] + made[q] <= 1

\* A row somebody called process_record for is dispatched or invalid in the
\* end, whatever is wrong with it, unless a worker died.
TriggeredIsDecided ==
  \A r \in Records :
    calls[r] > 0 ~> (status[r] \in {"dispatched", "invalid"} \/ crashes > 0)
==============================================================================
