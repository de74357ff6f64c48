------------------------------- MODULE Platform ------------------------------
(***************************************************************************)
(* Access, Ingest and Agents together: requests of every kind, what         *)
(* operators do meanwhile, and the history the properties speak of.  A fact *)
(* can hold when a request arrives and no longer when it stores its rows;   *)
(* held and missed remember what was true, and what was not, at some moment *)
(* since the arrival.                                                       *)
(***************************************************************************)
EXTENDS Agents

VARIABLES
  held,    \* history: facts that held at a moment of the request
  missed   \* history: facts that did not

vars == <<accessVars, ingestVars, agentVars, held, missed>>

\* What is true of a request's tenant, sender and proof right now.
FactNames ==
  {"exists", "free", "active", "account", "member", "signed", "trusted", "ollama"}

Facts(r) ==
  LET s == req[r].slug u == req[r].user IN
  {f \in FactNames :
    \/ f = "exists" /\ s # None /\ tenant[s] # "absent"
    \/ f = "free" /\ s # None /\ tenant[s] = "absent"
    \/ f = "active" /\ s # None /\ tenant[s] = "active"
    \/ f = "account" /\ u \in users
    \/ f = "member" /\ s # None /\ u \in users /\ role[s][u] # None
    \/ f = "signed" /\ s # None /\ secret[s] # None /\ req[r].proof = secret[s]
    \/ f = "trusted" /\ ServiceToken # None /\ req[r].proof = ServiceToken
    \/ f = "ollama" /\ "ollama" \in local}

\* What each endpoint asks for.  Members come through the middleware, which
\* wants an active tenant.  The webhook and the log of LLM calls look the
\* tenant up by its slug, suspended or not, and ask for a signature or for the
\* service token.  The route that drafts follow-ups asks nobody who they are;
\* a draft only needs a tenant to belong to.
Needs(kind) ==
  CASE kind = "found"           -> {"free", "account"}
    [] kind \in MemberKinds     -> {"active", "member"}
    [] kind \in WebhookKinds    -> {"exists", "signed"}
    [] kind \in ServiceKinds    -> {"exists", "trusted"}
    [] kind = "draft"           -> {"exists"}
    [] OTHER                    -> {}

Since(past, r, now) ==
  IF pc'[r] = "idle" THEN {} ELSE IF pc[r] = "idle" THEN now ELSE past[r] \union now

Watch ==
  /\ held' = [r \in Requests |-> Since(held, r, Facts(r)')]
  /\ missed' = [r \in Requests |-> Since(missed, r, FactNames \ Facts(r)')]

Begin(r, q) == Arrive(r, q) /\ UNCHANGED <<ingestVars, agentVars>>

End(r) == (Leave(r) \/ Dies(r)) /\ IngestForgets(r) /\ AgentForgets(r)

RequestStep(r) ==
  \/ PathStep(r) /\ UNCHANGED <<ingestVars, agentVars>>
  \/ IngestStep(r) /\ UNCHANGED agentVars
  \/ AgentStep(r)

Outside ==
  \/ OperatorStep /\ UNCHANGED <<ingestVars, agentVars>>
  \/ \E p \in {"ollama", "huggingface"} : ProviderChanges(p) /\ UNCHANGED ingestVars

Init ==
  /\ AccessInit /\ IngestInit /\ AgentInit
  /\ held = [r \in Requests |-> {}] /\ missed = [r \in Requests |-> {}]

Next ==
  /\ \/ \E r \in Requests :
           RequestStep(r) \/ End(r) \/ \E q \in Request : Begin(r, q)
     \/ Outside
  /\ Watch

Spec == Init /\ [][Next]_vars
------------------------------------------------------------------------------
(* Properties.                                                               *)

Stages ==
  {"idle", "arrived", "resolved", "permitted", "founding", "looked_up", "stored",
   "guarded", "prompting", "replied", "parsed", "embedding",
   "answered", "refused", "invalid"}

TypeOK ==
  /\ tenant \in [Slugs -> {"absent", "active", "suspended"}]
  /\ secret \in [Slugs -> Secrets \union {None}]
  /\ role \in [Slugs -> [Users -> Roles \union {None}]]
  /\ users \subseteq Users
  /\ founders \in [Slugs -> Seq(Users)]
  /\ pc \in [Requests -> Stages]
  /\ req \in [Requests -> Request \union {None}]
  /\ \A r \in Requests : req[r] = None <=> pc[r] = "idle"
  /\ arrivals \in 0..MaxArrivals /\ operations \in 0..MaxOperations
  /\ records \in [Slugs -> [RowKinds -> Nat]]
  /\ uploaded \in [Slugs -> [1..FileRows -> Nat]]
  /\ receipts \in [Slugs -> [Kinds -> Nat]]
  /\ taken \in [Requests -> 0..FileRows]
  /\ copy \in [Requests -> Secrets \union {None}]
  /\ local \subseteq Providers
  /\ model \in [Requests -> Providers \union {None}]
  /\ text \in [Requests -> SUBSET Features]
  /\ shown \subseteq [by : Providers \union {None}, text : SUBSET Features]
  /\ doc \in [Requests -> [words : Seq(Nat), chunks : Seq(Seq(Nat))]]
  /\ stored \subseteq [words : Seq(Nat), chunks : Seq(Seq(Nat))]
  /\ held \in [Requests -> SUBSET FactNames]
  /\ missed \in [Requests -> SUBSET FactNames]

\* A slug is founded by one call of create_tenant, however many race for it:
\* a tenant has exactly one audit row of its creation, whose actor is never
\* forgotten, not even when accounts are deleted.
FoundedOnce ==
  \A s \in Slugs :
    IF tenant[s] = "absent" THEN founders[s] = <<>>
    ELSE \E u \in users : founders[s] = <<u>>

Storing(r) == pc[r] = "stored" \/ taken[r] > 0

\* What an endpoint asks for was true at a moment since the request arrived,
\* whenever something is stored.  A form or a row of a file: the tenant was
\* active and the sender a member, so not one suspended or removed before the
\* request came.  A vendor's payload: the tenant existed, suspended or not,
\* and the signature was made with its secret, so not with one replaced before.
\* An LLM call: the tenant existed and the token was the service's.  A draft:
\* the tenant existed, and that is all; anybody may have asked for it.
EntryWasAllowed ==
  \A r \in Requests : pc[r] # "idle" /\ Storing(r) => Needs(req[r].kind) \subseteq held[r]

\* And whoever is refused lacked something at a moment of the request.
RefusalHasACause ==
  \A r \in Requests :
    pc[r] = "refused" =>
      \/ Needs(req[r].kind) \intersect missed[r] # {}
      \/ req[r].kind \in AgentKinds /\ "ollama" \in missed[r]

\* A receipt is never given for rows that are not there, and the rows of a
\* file are staged in order, so that what a failed upload leaves is its start.
ReceiptsAreHonest ==
  \A s \in Slugs :
    /\ \A k \in RowKinds : receipts[s][k] <= records[s][k]
    /\ receipts[s]["csv"] <= uploaded[s][FileRows]
    /\ \A i \in 1..(FileRows - 1) : uploaded[s][i] >= uploaded[s][i + 1]

\* The e-mail agent shows no model a mail the guard has reasons against, nor
\* anything the analyzer recognised in it as personal data, and answers with
\* nothing the analyzer recognised in the model's reply.  Neither speaks of
\* personal data the analyzer misses: a name it does not recognise is shown,
\* and is in the answer, whose fields it belongs to.
MailIsGuarded ==
  /\ \A x \in shown : x.text \intersect ({"pii"} \union Reasons) = {}
  /\ \A r \in Requests :
       pc[r] = "answered" /\ req[r].kind = "email" => "pii" \notin text[r]

\* The paid provider is used only if enabled and only by a request in whose
\* time the local one was down.
PaidOnlyInNeed ==
  \A r \in Requests :
    pc[r] # "idle" /\ model[r] = "openai" => OpenAiEnabled /\ "ollama" \in missed[r]

\* The chunks of a stored document are its words, in order, complete and none
\* twice; none of them is empty or longer than allowed.
ChunksKeepTheText ==
  \A d \in stored :
    /\ FlattenSeq(d.chunks) = d.words
    /\ \A i \in DOMAIN d.chunks : Len(d.chunks[i]) \in 1..ChunkSize
==============================================================================
