-------------------------------- MODULE Ingest -------------------------------
(***************************************************************************)
(* The endpoints that stage rows: the form and the CSV upload of members,   *)
(* the webhook of vendors, and the LLM-call log of the AI service           *)
(* (src/dataentry views and adapters, src/ai_audit).  Nothing wraps a view  *)
(* in a transaction (ATOMIC_REQUESTS is not set): the rows of a file are    *)
(* created one by one, and stay when a later one fails.                     *)
(***************************************************************************)
EXTENDS Access

CONSTANT FileRows   \* data rows of an uploaded file that has any

ASSUME FileRowsAssumption == FileRows \in Nat \ {0}

RowKinds == {"form", "webhook", "llm_call", "draft"}

VARIABLES
  records,    \* rows of each kind in a tenant: staged, logged or drafted
  uploaded,   \* how often each row of the file was staged in a tenant
  taken,      \* rows the upload of a request has staged so far
  copy,       \* the secret of the Tenant object a webhook request holds
  receipts    \* history: answers 201 of each kind that speak of rows

ingestVars == <<records, uploaded, taken, copy, receipts>>

Stage(r, kind) ==
  records' = [records EXCEPT ![req[r].slug][kind] = @ + 1]

Invalid(r) == Goto(r, "invalid")

\* FormSubmitView: a body whose "fields" is no object is refused with 400.
SubmitForm(r) ==
  /\ pc[r] = "permitted" /\ req[r].kind = "form"
  /\ \/ Invalid(r) /\ UNCHANGED records
     \/ Stage(r, "form") /\ Goto(r, "stored")
  /\ UNCHANGED <<uploaded, taken, copy, receipts>>

LastButOne(n) == n + 1 >= FileRows
EndOfFile(n) == n = FileRows

\* CSVUploadView: the next row of the file, until its end.
UploadRow(r) ==
  /\ pc[r] = "permitted" /\ req[r].kind = "csv"
  /\ uploaded' = [uploaded EXCEPT ![req[r].slug][taken[r] + 1] = @ + 1]
  /\ taken' = [taken EXCEPT ![r] = @ + 1]
  /\ IF EndOfFile(taken'[r]) THEN Goto(r, "stored") ELSE UNCHANGED pc
  /\ UNCHANGED <<records, copy, receipts>>

\* An empty file, or one that is only a header, is answered 201, with count 0.
UploadEmpty(r) ==
  /\ pc[r] = "permitted" /\ req[r].kind = "csv" /\ taken[r] = 0
  /\ Goto(r, "answered")
  /\ UNCHANGED ingestVars

\* No file, bytes that are not UTF-8, a row the database refuses.
UploadFails(r) ==
  /\ pc[r] = "permitted" /\ req[r].kind = "csv"
  /\ Invalid(r)
  /\ UNCHANGED ingestVars

\* webhook_receive reads the tenant, suspended or not, and keeps its secret.
LookUp(r) ==
  /\ pc[r] = "arrived" /\ req[r].kind = "webhook"
  /\ IF Exists(req[r].slug)
     THEN /\ copy' = [copy EXCEPT ![r] = secret[req[r].slug]]
          /\ Goto(r, "looked_up")
     ELSE Refuse(r) /\ UNCHANGED copy
  /\ UNCHANGED <<records, uploaded, taken, receipts>>

SignatureMatches(r) == copy[r] # None /\ req[r].proof = copy[r]

\* ingest_webhook: 401 without a matching signature; a signed body that is no
\* JSON raises.
IngestWebhook(r) ==
  /\ pc[r] = "looked_up"
  /\ IF SignatureMatches(r)
     THEN \/ Stage(r, "webhook") /\ Goto(r, "stored")
          \/ Invalid(r) /\ UNCHANGED records
     ELSE Refuse(r) /\ UNCHANGED records
  /\ UNCHANGED <<uploaded, taken, copy, receipts>>

TokenMatches(r) == ServiceToken # None /\ req[r].proof = ServiceToken

\* ingest_llm_call: the token, the required fields, the tenant, the row.
IngestLlmCall(r) ==
  /\ pc[r] = "arrived" /\ req[r].kind = "llm_call"
  /\ \/ ~TokenMatches(r) /\ Refuse(r) /\ UNCHANGED records
     \/ TokenMatches(r) /\ Invalid(r) /\ UNCHANGED records
     \/ /\ TokenMatches(r)
        /\ IF Exists(req[r].slug)
           THEN Stage(r, "llm_call") /\ Goto(r, "stored")
           ELSE Refuse(r) /\ UNCHANGED records
  /\ UNCHANGED <<uploaded, taken, copy, receipts>>

\* 201 Created.
Receipt(r) ==
  /\ pc[r] = "stored"
  /\ receipts' = [receipts EXCEPT ![req[r].slug][req[r].kind] = @ + 1]
  /\ Goto(r, "answered")
  /\ UNCHANGED <<records, uploaded, taken, copy>>

IngestStep(r) ==
  /\ \/ SubmitForm(r) \/ UploadRow(r) \/ UploadEmpty(r) \/ UploadFails(r)
     \/ LookUp(r) \/ IngestWebhook(r) \/ IngestLlmCall(r) \/ Receipt(r)
  /\ UNCHANGED <<tenantVars, req, arrivals, operations>>

\* What a process knew of its request is gone with it.
IngestForgets(r) ==
  /\ taken' = [taken EXCEPT ![r] = 0]
  /\ copy' = [copy EXCEPT ![r] = None]
  /\ UNCHANGED <<records, uploaded, receipts>>

IngestInit ==
  /\ records = [s \in Slugs |-> [k \in RowKinds |-> 0]]
  /\ uploaded = [s \in Slugs |-> [i \in 1..FileRows |-> 0]]
  /\ taken = [r \in Requests |-> 0]
  /\ copy = [r \in Requests |-> None]
  /\ receipts = [s \in Slugs |-> [k \in Kinds |-> 0]]
==============================================================================
