-------------------------------- MODULE Agents -------------------------------
(***************************************************************************)
(* The AI service (src/ai_service): the agents that parse an e-mail, ingest *)
(* a document and draft a follow-up, each a request of its own process that *)
(* picks a provider when it needs one.  A text is the set of what matters   *)
(* about it; a document is the sequence of its words.  The language models  *)
(* are external: a model may repeat or invent personal data.  So is         *)
(* Presidio's analyzer, which recognises some personal data ("pii") and     *)
(* not the rest ("unfound").                                                *)
(***************************************************************************)
EXTENDS Ingest, SequencesExt

CONSTANTS
  OpenAiEnabled,  \* AI_ENABLE_OPENAI is set and there is a key
  ChunkSize,      \* words per chunk, 500
  MaxWords        \* bound: words of a document

ASSUME OpenAiAssumption == OpenAiEnabled \in BOOLEAN
ASSUME ChunkAssumption == ChunkSize \in Nat \ {0} /\ MaxWords \in Nat

Providers == {"ollama", "huggingface", "openai"}

ASSUME ProviderAssumption == None \notin Providers

\* What the guard rejects a mail for, a phrase of an injection or its length.
Reasons == {"reason"}
PersonalData == {"pii", "unfound"}
Features == PersonalData \union Reasons

VARIABLES
  local,    \* local providers that can be used: "ollama", "huggingface"
  model,    \* the model a request has chosen
  text,     \* the text a request works on
  shown,    \* history: what a model was shown by the e-mail agent
  doc,      \* the words and the chunks of a request's document
  stored    \* documents in the vector store

agentVars == <<local, model, text, shown, doc, stored>>

NoDoc == [words |-> <<>>, chunks |-> <<>>]

\* The environment: a server goes down or comes back, a model fails to load.
ProviderChanges(p) ==
  /\ Operate
  /\ local' = IF p \in local THEN local \ {p} ELSE local \union {p}
  /\ UNCHANGED <<tenantVars, model, text, shown, doc, stored>>

\* redact_pii replaces what the analyzer recognises, and nothing else.
Unredacted(t) == t
Redacted(t) == t \ {"pii"}

\* The guard of the e-mail graph; the sanitized text of a rejected mail keeps
\* what it was rejected for.
Guard(r, raw) ==
  /\ pc[r] = "arrived" /\ req[r].kind = "email"
  /\ text' = [text EXCEPT ![r] = Redacted(raw)]
  /\ Goto(r, "guarded")
  /\ UNCHANGED <<local, model, shown, doc, stored, ingestVars>>

\* get_chat_model: Ollama, else OpenAI if enabled.
PaidFirst == IF OpenAiEnabled THEN "openai" ELSE "ollama"
ChatModel == IF "ollama" \in local THEN "ollama"
             ELSE IF OpenAiEnabled THEN "openai" ELSE None

\* get_embeddings: a local HuggingFace model comes first.
Embedder == IF "huggingface" \in local THEN "huggingface" ELSE ChatModel

Picks(r, provider, stage) ==
  /\ model' = [model EXCEPT ![r] = provider]
  /\ IF provider = None THEN Refuse(r) ELSE Goto(r, stage)
  /\ UNCHANGED <<local, shown, doc, stored, ingestVars>>

\* The extractor is skipped when the guard gave a reason.
Extract(r) ==
  /\ pc[r] = "guarded"
  /\ IF text[r] \intersect Reasons # {}
     THEN Goto(r, "answered") /\ UNCHANGED <<agentVars, ingestVars>>
     ELSE Picks(r, ChatModel, "prompting") /\ UNCHANGED text

\* draft_followup: the prompt is built from the request, without a guard.
Prompt(r) ==
  /\ pc[r] = "arrived" /\ req[r].kind = "draft"
  /\ text' = [text EXCEPT ![r] = {}]
  /\ Picks(r, ChatModel, "prompting")

\* The server can be gone since it was probed.
Gone(r) == model[r] = "ollama" /\ "ollama" \notin local

Invoke(r, reply) ==
  /\ pc[r] = "prompting"
  /\ IF Gone(r)
     THEN Refuse(r) /\ UNCHANGED <<text, shown>>
     ELSE /\ shown' = IF req[r].kind = "email"
                      THEN shown \union {[by |-> model[r], text |-> text[r]]}
                      ELSE shown
          /\ text' = [text EXCEPT ![r] = reply]
          /\ Goto(r, "replied")
  /\ UNCHANGED <<local, model, doc, stored, ingestVars>>

\* check_output; replacing what the analyzer recognised may leave text that is
\* no longer the JSON expected.
CheckOutput(r) ==
  /\ pc[r] = "replied" /\ req[r].kind = "email"
  /\ text' = [text EXCEPT ![r] = Redacted(@)]
  /\ \/ Goto(r, "answered")
     \/ "pii" \in text[r] /\ Invalid(r)
  /\ UNCHANGED <<local, model, shown, doc, stored, ingestVars>>

\* The draft goes to the database as it came; an unknown tenant raises.
StoreDraft(r) ==
  /\ pc[r] = "replied" /\ req[r].kind = "draft"
  /\ IF Exists(req[r].slug)
     THEN Stage(r, "draft") /\ Goto(r, "stored")
     ELSE Refuse(r) /\ UNCHANGED records
  /\ UNCHANGED <<agentVars, uploaded, taken, copy, receipts>>

FirstWordOffByOne(i) == (i - 1) * ChunkSize + (IF i > 1 THEN 0 ELSE 1)
FirstWord(i) == (i - 1) * ChunkSize + 1

\* chunk_text: a short text is one chunk, an empty one none.
ChunkText(words) ==
  IF words = <<>> THEN <<>>
  ELSE [i \in 1..((Len(words) + ChunkSize - 1) \div ChunkSize) |->
         SubSeq(words, FirstWord(i), Min({i * ChunkSize, Len(words)}))]

\* extract_document_endpoint: bytes that cannot be decoded or parsed raise.
Parse(r, words) ==
  /\ pc[r] = "arrived" /\ req[r].kind = "document"
  /\ \/ Invalid(r) /\ UNCHANGED doc
     \/ /\ doc' = [doc EXCEPT ![r] = [words |-> words, chunks |-> ChunkText(words)]]
        /\ Goto(r, "parsed")
  /\ UNCHANGED <<local, model, text, shown, stored, ingestVars>>

GetEmbeddings(r) ==
  /\ pc[r] = "parsed"
  /\ Picks(r, Embedder, "embedding")
  /\ UNCHANGED text

\* ingest_chunks: all chunks are written, or none.
AddTexts(r) ==
  /\ pc[r] = "embedding"
  /\ IF Gone(r) THEN Refuse(r) /\ UNCHANGED stored
     ELSE stored' = stored \union {doc[r]} /\ Goto(r, "answered")
  /\ UNCHANGED <<local, model, text, shown, doc, ingestVars>>

AgentStep(r) ==
  /\ \/ \E raw \in SUBSET Features : Guard(r, raw)
     \/ Extract(r) \/ Prompt(r)
     \/ \E reply \in SUBSET PersonalData : Invoke(r, reply)
     \/ CheckOutput(r) \/ StoreDraft(r)
     \/ \E n \in 0..MaxWords : Parse(r, [i \in 1..n |-> i])
     \/ GetEmbeddings(r) \/ AddTexts(r)
  /\ UNCHANGED <<tenantVars, req, arrivals, operations>>

\* What a process knew of its request is gone with it.
AgentForgets(r) ==
  /\ model' = [model EXCEPT ![r] = None]
  /\ text' = [text EXCEPT ![r] = {}]
  /\ doc' = [doc EXCEPT ![r] = NoDoc]
  /\ UNCHANGED <<local, shown, stored>>

AgentInit ==
  /\ local = {"ollama", "huggingface"}
  /\ model = [r \in Requests |-> None]
  /\ text = [r \in Requests |-> {}]
  /\ shown = {}
  /\ doc = [r \in Requests |-> NoDoc]
  /\ stored = {}
==============================================================================
