--------------------------- MODULE PlatformProofs ---------------------------
(***************************************************************************)
(* Proofs about Platform, for any tenants, users, requests, secrets, file   *)
(* and chunk sizes, and any number of requests and operations: what TypeOK  *)
(* says, and every safety invariant of the runs.                            *)
(*                                                                         *)
(* IInv puts together where a request may stand (OnItsPath), what it has    *)
(* shown by then (Entitled), what a refused one lacked (Caused), what of a  *)
(* text the filters have taken out (Guarded), and how many rows a tenant    *)
(* has for its receipts (Counted: a receipt given, or still to be given by  *)
(* a request that stored its row, is a row). Busy is finite because a       *)
(* request begins in one step: nothing is assumed of Requests.              *)
(* That the chunks are the document is an induction over its length, which  *)
(* goes by the least length at which it would fail.                         *)
(***************************************************************************)
EXTENDS Platform, FiniteSetTheorems, SequenceTheorems, TLAPS

\* The ranges of Agents.
AgentTypes ==
  /\ local \subseteq Providers
  /\ model \in [Requests -> Providers \union {None}]
  /\ text \in [Requests -> SUBSET Features]
  /\ shown \subseteq [by : Providers \union {None}, text : SUBSET Features]
  /\ doc \in [Requests -> [words : Seq(Nat), chunks : Seq(Seq(Nat))]]
  /\ stored \subseteq [words : Seq(Nat), chunks : Seq(Seq(Nat))]

\* A place without a request knows of none.
Fresh(r) == pc[r] = "idle" => taken[r] = 0 /\ copy[r] = None /\ model[r] = None

\* Which requests come to which stage.
OnItsPath(r) ==
  pc[r] # "idle" =>
    /\ pc[r] = "founding" => req[r].kind = "found"
    /\ pc[r] \in {"resolved", "permitted"} => req[r].kind \in MemberKinds
    /\ pc[r] = "looked_up" => req[r].kind = "webhook"
    /\ pc[r] = "guarded" => req[r].kind = "email"
    /\ pc[r] \in {"prompting", "replied"} => req[r].kind \in {"email", "draft"}
    /\ pc[r] \in {"parsed", "embedding"} => req[r].kind = "document"
    /\ pc[r] = "stored" => req[r].kind \in RowKinds \union {"csv"}
    /\ pc[r] \in {"arrived", "resolved"} => taken[r] = 0
    /\ pc[r] = "permitted" => taken[r] < FileRows
    /\ taken[r] > 0 => req[r].kind = "csv"
    /\ req[r].slug = None => pc[r] \in {"arrived", "resolved", "refused"}

\* What a request has shown by the stage it came to.
Entitled(r) ==
  pc[r] # "idle" =>
    /\ pc[r] \in {"resolved", "permitted"} => "active" \in held[r] \/ req[r].slug = None
    /\ pc[r] = "permitted" => "member" \in held[r]
    /\ pc[r] = "looked_up" =>
         /\ "exists" \in held[r]
         /\ IF SignatureMatches(r) THEN "signed" \in held[r] ELSE "signed" \in missed[r]
    /\ Storing(r) => Needs(req[r].kind) \subseteq held[r]

\* The requests that stored a row and have not had their receipt; those that have
\* stored the first rows of a file; all in progress.
Waiting(s, kind) ==
  {r \in Requests : pc[r] = "stored" /\ req[r].slug = s /\ req[r].kind = kind}
Uploading(s, i) ==
  {r \in Requests : pc[r] # "idle" /\ req[r].slug = s /\ taken[r] = i}
Busy == {r \in Requests : pc[r] # "idle"}

\* What the receipts of a tenant are covered by.
Counted ==
  /\ IsFiniteSet(Busy)
  /\ \A s \in Slugs :
       /\ \A k \in RowKinds :
            receipts[s][k] + Cardinality(Waiting(s, k)) <= records[s][k]
       /\ receipts[s]["csv"] + Cardinality(Waiting(s, "csv")) <= uploaded[s][FileRows]
       /\ \A i \in 1..(FileRows - 1) :
            uploaded[s][i] >= uploaded[s][i + 1] + Cardinality(Uploading(s, i))

\* A document and its chunks.
ChunkedText(d) == d.chunks = ChunkText(d.words)
DocsAreChunked ==
  /\ \A r \in Requests : ChunkedText(doc[r])
  /\ \A d \in stored : ChunkedText(d)

\* The ranges of Access, of Ingest, and of a request on its path.
AccessTypes ==
  /\ tenant \in [Slugs -> {"absent", "active", "suspended"}]
  /\ secret \in [Slugs -> Secrets \union {None}]
  /\ role \in [Slugs -> [Users -> Roles \union {None}]]
  /\ users \subseteq Users
  /\ founders \in [Slugs -> Seq(Users)]
  /\ pc \in [Requests -> Stages]
  /\ req \in [Requests -> Request \union {None}]
  /\ \A r \in Requests : req[r] = None <=> pc[r] = "idle"

IngestTypes ==
  /\ records \in [Slugs -> [RowKinds -> Nat]]
  /\ uploaded \in [Slugs -> [1..FileRows -> Nat]]
  /\ receipts \in [Slugs -> [Kinds -> Nat]]
  /\ taken \in [Requests -> 0..FileRows]
  /\ copy \in [Requests -> Secrets \union {None}]

TypedPath ==
  /\ AccessTypes /\ IngestTypes /\ AgentTypes
  /\ \A r \in Requests : Fresh(r) /\ OnItsPath(r)

\* Whoever is refused lacked something.
Caused(r) ==
  pc[r] = "refused" =>
    \/ Needs(req[r].kind) \intersect missed[r] # {}
    \/ req[r].kind \in AgentKinds /\ "ollama" \in missed[r]

\* Nothing the analyzer recognises or the guard rejects is in a text.
ToldNothing(t) == t \intersect ({"pii"} \union Reasons) = {}

\* What is known of the text, the model and the document of a request.
Guarded(r) ==
  pc[r] # "idle" =>
    /\ req[r].kind = "email" =>
         /\ pc[r] \in {"guarded", "answered"} => "pii" \notin text[r]
         /\ pc[r] = "prompting" => ToldNothing(text[r])
    /\ model[r] = "openai" => OpenAiEnabled /\ "ollama" \in missed[r]

\* No model is shown more.
Shown == \A x \in shown : ToldNothing(x.text)

\* The ranges of the histories.
HistoryTypes ==
  held \in [Requests -> SUBSET FactNames] /\ missed \in [Requests -> SUBSET FactNames]

\* The counters keep to their bounds.
Bounded == arrivals \in 0..MaxArrivals /\ operations \in 0..MaxOperations

\* The inductive invariant. Without row-level security whoever is refused lacked
\* something; with it see the run platform_rls.
IInv ==
  /\ TypedPath /\ HistoryTypes /\ Bounded /\ FoundedOnce /\ Counted /\ Shown /\ DocsAreChunked
  /\ \A r \in Requests : Entitled(r) /\ Guarded(r) /\ (~RlsEnforced => Caused(r))

\* What the steps of a part leave alone.
OnlyAccess == UNCHANGED <<ingestVars, agentVars>>
OnlyIngest == UNCHANGED <<tenantVars, req, arrivals, operations, agentVars>>
OnlyAgents == UNCHANGED <<tenantVars, req, arrivals, operations>>

\* One request gets on: it takes a step, ends or begins.
Moves(r) == RequestStep(r) \/ End(r) \/ \E q \in Request : Begin(r, q)

USE DEF OnlyAccess, OnlyIngest, OnlyAgents

\* A set of naturals has a least element: induction over the naturals, in the
\* form the proofs below use.
LEMMA LeastElement ==
  ASSUME NEW S \in SUBSET Nat, S # {} PROVE \E m \in S : \A n \in S : m <= n
<1>1. IsWellFoundedOn(OpToRel(<, Nat), Nat)
  BY NatLessThanWellFounded
<1>2. PICK m \in S : \A n \in S : ~ (<<n, m>> \in OpToRel(<, Nat))
  BY <1>1, WFMin
<1>3. \A n \in S : ~ (n < m)
  BY <1>2 DEF OpToRel
<1> QED
  BY <1>3

\* Flattening a sequence of sequences, from a function that has what the first
\* of them come to together.
LEMMA FlattenIs ==
  ASSUME NEW seqs, NEW k \in Nat \ {0}, Len(seqs) = k,
         NEW f,
         \A i \in 1..k : f[i] = IF i = 1 THEN seqs[i] ELSE f[i - 1] \o seqs[i]
  PROVE  FlattenSeq(seqs) = f[k]
<1> DEFINE g == CHOOSE h : h = [i \in 1..k |-> IF i = 1 THEN seqs[i] ELSE h[i - 1] \o seqs[i]]
<1>1. g = [i \in 1..k |-> IF i = 1 THEN seqs[i] ELSE g[i - 1] \o seqs[i]]
  <2> DEFINE h == [i \in 1..k |-> f[i]]
  <2>1. h = [i \in 1..k |-> IF i = 1 THEN seqs[i] ELSE h[i - 1] \o seqs[i]]
    <3>1. \A i \in 1..k : i # 1 => h[i - 1] = f[i - 1]
      OBVIOUS
    <3> QED
      BY <3>1
  <2> HIDE DEF h
  <2> QED
    BY <2>1
<1>2. FlattenSeq(seqs) = g[k]
  BY DEF FlattenSeq
<1> HIDE DEF g
<1>3. \A i \in 1..k : g[i] = f[i]
  <2> DEFINE Wrong == {i \in 1..k : g[i] # f[i]}
  <2> SUFFICES ASSUME Wrong # {} PROVE FALSE
    OBVIOUS
  <2>1. PICK m \in Wrong : \A n \in Wrong : m <= n
    <3>1. Wrong \in SUBSET Nat
      OBVIOUS
    <3> QED
      BY <3>1, LeastElement
  <2>2. CASE m = 1
    <3>1. g[1] = seqs[1]
      BY <1>1
    <3>2. f[1] = seqs[1]
      OBVIOUS
    <3> QED
      BY <2>1, <2>2, <3>1, <3>2
  <2>3. CASE m # 1
    <3>1. m \in 1..k /\ m - 1 \in 1..k /\ m - 1 \notin Wrong
      BY <2>1, <2>3
    <3>2. g[m - 1] = f[m - 1]
      BY <3>1
    <3> HIDE DEF Wrong
    <3>3. g[m] = g[m - 1] \o seqs[m]
      BY <1>1, <2>3, <3>1
    <3>4. f[m] = f[m - 1] \o seqs[m]
      BY <2>3, <3>1
    <3> QED
      BY <2>1, <3>2, <3>3, <3>4 DEF Wrong
  <2> QED
    BY <2>2, <2>3
<1> QED
  BY <1>2, <1>3

\* The smaller of two naturals.
LEMMA MinOfTwo ==
  ASSUME NEW a \in Nat, NEW b \in Nat
  PROVE  Min({a, b}) = IF a <= b THEN a ELSE b
<1>1. \E x \in {a, b} : \A y \in {a, b} : x =< y
  OBVIOUS
<1> QED
  BY <1>1 DEF Min

\* How often a chunk goes into a text, rounded up.
LEMMA Division ==
  ASSUME NEW n \in Nat \ {0}, NEW c \in Nat \ {0}, NEW k, k = (n + c - 1) \div c
  PROVE  k \in Nat \ {0} /\ (k - 1) * c < n /\ n <= k * c
  OBVIOUS

\* The chunks of _chunk_text, put together, are the text; none is empty and none
\* is longer than the size of a chunk: for texts of any length.
LEMMA ChunksAreTheText ==
  ASSUME NEW w \in Seq(Nat)
  PROVE  /\ ChunkText(w) \in Seq(Seq(Nat))
         /\ \A i \in DOMAIN ChunkText(w) : Len(ChunkText(w)[i]) \in 1..ChunkSize
         /\ FlattenSeq(ChunkText(w)) = w
<1>1. CASE w = <<>>
  <2>1. ChunkText(w) = <<>>
    BY <1>1 DEF ChunkText
  <2>2. FlattenSeq(<<>>) = <<>>
    BY DEF FlattenSeq
  <2>3. <<>> \in Seq(Seq(Nat)) /\ DOMAIN <<>> = {}
    BY EmptySeq, LenProperties
  <2> QED
    BY <1>1, <2>1, <2>2, <2>3
<1>2. CASE w # <<>>
  <2> DEFINE n == Len(w)
             c == ChunkSize
             k == (n + c - 1) \div c
             end(i) == IF i * c <= n THEN i * c ELSE n
             f == [i \in 1..k |-> SubSeq(w, 1, end(i))]
  <2>1. c \in Nat \ {0} /\ n \in Nat \ {0}
    BY <1>2, ChunkAssumption, EmptySeq
  <2>2. k \in Nat \ {0} /\ (k - 1) * c < n /\ n <= k * c
    BY <2>1, Division
  <2>3. w \in [1..n -> Nat]
    BY LenProperties
  <2> HIDE DEF n, c, k
  <2>4. \A i \in 1..k : /\ i * c \in Nat /\ (i - 1) * c \in Nat
                        /\ i * c = (i - 1) * c + c /\ (i - 1) * c < n
    <3> SUFFICES ASSUME NEW i \in 1..k
                 PROVE  /\ i * c \in Nat /\ (i - 1) * c \in Nat
                        /\ i * c = (i - 1) * c + c /\ (i - 1) * c < n
      OBVIOUS
    <3>1. \A x, y, z \in Nat : x <= y => x * z <= y * z
      OBVIOUS
    <3>2. i - 1 \in Nat /\ k - 1 \in Nat /\ i - 1 <= k - 1
      BY <2>2
    <3>3. (i - 1) * c <= (k - 1) * c
      BY <2>1, <3>1, <3>2
    <3>4. \A x, z \in Nat : x * z \in Nat
      OBVIOUS
    <3>5. (i - 1) * c \in Nat /\ (k - 1) * c \in Nat
      BY <2>1, <3>2, <3>4
    <3>6. \A x, z \in Nat : (x + 1) * z = x * z + z
      OBVIOUS
    <3>7. i = (i - 1) + 1
      OBVIOUS
    <3>8. i * c = (i - 1) * c + c
      BY <2>1, <3>2, <3>6, <3>7
    <3>9. (i - 1) * c < n
      BY <2>1, <2>2, <3>3, <3>5
    <3> QED
      BY <2>1, <3>5, <3>8, <3>9
  <2>5. \A i \in 1..k : end(i) \in (i - 1) * c + 1 .. n /\ end(i) <= (i - 1) * c + c
    BY <2>1, <2>4
  <2>6. end(k) = n /\ \A i \in 1..k : i # 1 => end(i - 1) = (i - 1) * c
    <3>1. end(k) = n
      BY <2>1, <2>2, <2>4
    <3>2. ASSUME NEW i \in 1..k, i # 1 PROVE end(i - 1) = (i - 1) * c
      BY <2>1, <2>4, <3>2
    <3> QED
      BY <3>1, <3>2
  <2> DEFINE chunk(i) == SubSeq(w, (i - 1) * c + 1, end(i))
  <2>7. ChunkText(w) = [i \in 1..k |-> chunk(i)]
    <3>1. \A i \in 1..k : Min({i * c, n}) = end(i)
      BY <2>1, <2>4, MinOfTwo
    <3>2. ChunkText(w) = [i \in 1..k |-> SubSeq(w, (i - 1) * c + 1, Min({i * c, n}))]
      BY <1>2 DEF ChunkText, FirstWord, n, c, k
    <3> QED
      BY <3>1, <3>2
  <2> HIDE DEF end
  <2>8. ASSUME NEW i \in 1..k
        PROVE  chunk(i) \in Seq(Nat) /\ Len(chunk(i)) \in 1..c
    <3> DEFINE m == (i - 1) * c + 1
    <3>1. m \in Int /\ end(i) \in Int /\ m <= end(i) /\ end(i) - m + 1 \in 1..c
      BY <2>1, <2>4, <2>5
    <3>2. \A j \in m .. end(i) : w[j] \in Nat
      <4>1. m >= 1 /\ end(i) <= n
        BY <2>1, <2>4, <2>5
      <4> HIDE DEF m
      <4>2. m .. end(i) \subseteq 1..n
        BY <2>1, <3>1, <4>1
      <4> QED
        BY <2>3, <4>2
    <3> HIDE DEF m
    <3>3. SubSeq(w, m, end(i)) \in Seq(Nat) /\ Len(SubSeq(w, m, end(i))) = end(i) - m + 1
      BY <3>1, <3>2, SubSeqProperties
    <3> QED
      BY <3>1, <3>3 DEF m
  <2> HIDE DEF chunk
  <2>9. ChunkText(w) \in Seq(Seq(Nat)) /\ Len(ChunkText(w)) = k
    BY <2>2, <2>7, <2>8
  <2>10. ASSUME NEW i \in 1..k
         PROVE  f[i] = IF i = 1 THEN ChunkText(w)[i] ELSE f[i - 1] \o ChunkText(w)[i]
    <3>1. CASE i = 1
      <4>1. (i - 1) * c + 1 = 1
        BY <2>1, <3>1
      <4> QED
        BY <2>7, <3>1, <4>1 DEF chunk
    <3>2. CASE i # 1
      <4> DEFINE m == (i - 1) * c
      <4>1. i - 1 \in 1..k
        BY <2>2, <3>2
      <4>2. f[i - 1] = SubSeq(w, 1, m)
        BY <2>6, <3>2, <4>1
      <4>3. m \in 1 - 1 .. Len(w) /\ end(i) \in m .. Len(w) /\ 1 \in 1 .. Len(w) + 1
        BY <2>1, <2>4, <2>5 DEF n
      <4>4. ChunkText(w)[i] = SubSeq(w, m + 1, end(i))
        BY <2>7 DEF chunk
      <4> HIDE DEF m
      <4>5. SubSeq(w, 1, m) \o SubSeq(w, m + 1, end(i)) = SubSeq(w, 1, end(i))
        BY <4>3, ConcatAdjacentSubSeq
      <4> QED
        BY <3>2, <4>2, <4>4, <4>5
    <3> QED
      BY <3>1, <3>2
  <2>11. \A i \in 1..k : f[i] = IF i = 1 THEN ChunkText(w)[i] ELSE f[i - 1] \o ChunkText(w)[i]
    BY <2>10
  <2>12. f[k] = w
    BY <2>2, <2>6, SubSeqFull DEF n
  <2> HIDE DEF f
  <2>13. FlattenSeq(ChunkText(w)) = w
    <3>1. FlattenSeq(ChunkText(w)) = f[k]
      <4> HIDE DEF ChunkText
      <4>1. PICK s : s = ChunkText(w)
        OBVIOUS
      <4>2. PICK g : g = f
        OBVIOUS
      <4>3. Len(s) = k
        BY <2>9, <4>1
      <4>4. \A i \in 1..k : g[i] = IF i = 1 THEN s[i] ELSE g[i - 1] \o s[i]
        BY <2>11, <4>1, <4>2
      <4>5. FlattenSeq(s) = g[k]
        BY <2>2, <4>3, <4>4, FlattenIs
      <4> QED
        BY <4>1, <4>2, <4>5
    <3> QED
      BY <2>12, <3>1
  <2>14. \A i \in DOMAIN ChunkText(w) : Len(ChunkText(w)[i]) \in 1..ChunkSize
    BY <2>7, <2>8 DEF c
  <2> QED
    BY <2>9, <2>13, <2>14
<1> QED
  BY <1>1, <1>2

\* What a request carries, by its kind.
LEMMA RequestFields ==
  \A q \in Request :
    /\ q.kind \in Kinds
    /\ q.slug \in Slugs \/ (q.slug = None /\ q.kind \in MemberKinds)
    /\ q.user \in Users \/ q.user = None
BY DEF Request, Kinds, MemberKinds, WebhookKinds, ServiceKinds, AgentKinds

\* The trigger keeps the audit rows: deleting an account changes none.
LEMMA FoundersStay ==
  ASSUME founders \in [Slugs -> Seq(Users)], NEW u \in Users, DeleteUser(u)
  PROVE  founders' = founders
<1>1. \A s \in Slugs : [i \in DOMAIN founders[s] |->
         IF founders[s][i] = u THEN None ELSE founders[s][i]] = founders[s]
  <2> SUFFICES ASSUME NEW s \in Slugs
               PROVE  [i \in DOMAIN founders[s] |->
         IF founders[s][i] = u THEN None ELSE founders[s][i]] = founders[s]
    OBVIOUS
  <2>1. founders[s] = [i \in DOMAIN founders[s] |-> founders[s][i]]
    <3>1. founders[s] \in Seq(Users)
      OBVIOUS
    <3> QED
      BY <3>1, LenProperties
  <2>2. \A i \in DOMAIN founders[s] : founders[s][i] # u
    BY DEF DeleteUser, Deletable
  <2> QED
    BY <2>1, <2>2
<1> QED
  BY <1>1 DEF DeleteUser

\* What is known of a request in progress.
LEMMA InProgress ==
  ASSUME AccessTypes, NEW r \in Requests, pc[r] # "idle"
  PROVE  /\ req[r] \in Request /\ req[r].kind \in Kinds
         /\ req[r].slug \in Slugs \/ (req[r].slug = None /\ req[r].kind \in MemberKinds)
         /\ req[r].user \in Users \/ req[r].user = None
<1>1. req[r] \in Request
  BY DEF AccessTypes
<1> QED
  BY <1>1, RequestFields

\* A request that is past the permission class, or needs none, has a tenant.
LEMMA HasTenant ==
  ASSUME AccessTypes, NEW r \in Requests, OnItsPath(r), pc[r] # "idle",
         pc[r] \notin {"arrived", "resolved", "refused"} \/ req[r].kind \notin MemberKinds
  PROVE  req[r].slug \in Slugs
BY InProgress DEF OnItsPath

\* Every step keeps the ranges of Access.
LEMMA AccessStep ==
  AccessTypes /\ (\A r \in Requests : OnItsPath(r)) /\ [Next]_vars => AccessTypes'
<1> SUFFICES ASSUME AccessTypes, \A r \in Requests : OnItsPath(r), [Next]_vars
             PROVE  AccessTypes'
  OBVIOUS
<1> USE NoneAssumption, NoRequestAssumption
    DEF AccessTypes, Stages, Goto, Refuse, Invalid, Free, Picks, tenantVars,
        pathVars,
        accessVars
<1>1. CASE UNCHANGED vars
  BY <1>1 DEF vars, accessVars
<1>2. ASSUME NEW r \in Requests, Resolve(r), OnlyAccess PROVE AccessTypes'
  BY <1>2 DEF Resolve
<1>3. ASSUME NEW r \in Requests, Permit(r), OnlyAccess PROVE AccessTypes'
  BY <1>3 DEF Permit
<1>4. ASSUME NEW r \in Requests, CheckSlug(r), OnlyAccess PROVE AccessTypes'
  BY <1>4 DEF CheckSlug
<1>5. ASSUME NEW r \in Requests, Found(r), OnlyAccess PROVE AccessTypes'
  <2>1. CASE SlugFree(r)
    <3> DEFINE s == req[r].slug  u == req[r].user
    <3>1. s \in Slugs /\ u \in Users
      BY <1>5, <2>1, HasTenant, InProgress DEF Found, SlugFree, Insertable, OnItsPath, MemberKinds
    <3>2. Append(founders[s], u) \in Seq(Users)
      BY <3>1, AppendProperties
    <3>3. founders' \in [Slugs -> Seq(Users)]
      BY <1>5, <2>1, <3>1, <3>2 DEF Found
    <3>4. role' \in [Slugs -> [Users -> Roles \union {None}]]
      <4>1. role' = [role EXCEPT ![s][u] = "admin"]
        BY <1>5, <2>1 DEF Found
      <4>2. [role[s] EXCEPT ![u] = "admin"] \in [Users -> Roles \union {None}]
        BY <3>1 DEF Roles
      <4> QED
        BY <3>1, <4>1, <4>2
    <3> QED
      BY <1>5, <2>1, <3>1, <3>3, <3>4 DEF Found
  <2>2. CASE ~SlugFree(r)
    BY <1>5, <2>2 DEF Found
  <2> QED
    BY <2>1, <2>2
<1>6. ASSUME NEW r \in Requests, SubmitForm(r), OnlyIngest PROVE AccessTypes'
  BY <1>6 DEF SubmitForm
<1>7. ASSUME NEW r \in Requests, UploadRow(r), OnlyIngest PROVE AccessTypes'
  BY <1>7 DEF UploadRow
<1>8. ASSUME NEW r \in Requests, UploadFails(r), OnlyIngest PROVE AccessTypes'
  BY <1>8 DEF UploadFails
<1>e. ASSUME NEW r \in Requests, UploadEmpty(r), OnlyIngest PROVE AccessTypes'
  BY <1>e DEF UploadEmpty
<1>9. ASSUME NEW r \in Requests, LookUp(r), OnlyIngest PROVE AccessTypes'
  BY <1>9 DEF LookUp
<1>10. ASSUME NEW r \in Requests, IngestWebhook(r), OnlyIngest
       PROVE  AccessTypes'
  BY <1>10 DEF IngestWebhook
<1>11. ASSUME NEW r \in Requests, IngestLlmCall(r), OnlyIngest
       PROVE  AccessTypes'
  BY <1>11 DEF IngestLlmCall
<1>12. ASSUME NEW r \in Requests, Receipt(r), OnlyIngest PROVE AccessTypes'
  BY <1>12 DEF Receipt
<1>13. ASSUME NEW r \in Requests, NEW raw \in SUBSET Features, Guard(r, raw), OnlyAgents
       PROVE  AccessTypes'
  BY <1>13 DEF Guard
<1>14. ASSUME NEW r \in Requests, Extract(r), OnlyAgents PROVE AccessTypes'
  BY <1>14 DEF Extract
<1>15. ASSUME NEW r \in Requests, Prompt(r), OnlyAgents PROVE AccessTypes'
  BY <1>15 DEF Prompt
<1>16. ASSUME NEW r \in Requests, NEW reply \in SUBSET PersonalData,
              Invoke(r, reply), OnlyAgents
       PROVE  AccessTypes'
  BY <1>16 DEF Invoke
<1>17. ASSUME NEW r \in Requests, CheckOutput(r), OnlyAgents PROVE AccessTypes'
  BY <1>17 DEF CheckOutput
<1>18. ASSUME NEW r \in Requests, StoreDraft(r), OnlyAgents PROVE AccessTypes'
  BY <1>18 DEF StoreDraft
<1>19. ASSUME NEW r \in Requests, NEW n \in 0..MaxWords,
              Parse(r, [i \in 1..n |-> i]), OnlyAgents
       PROVE  AccessTypes'
  BY <1>19 DEF Parse
<1>20. ASSUME NEW r \in Requests, GetEmbeddings(r), OnlyAgents
       PROVE  AccessTypes'
  BY <1>20 DEF GetEmbeddings
<1>21. ASSUME NEW r \in Requests, AddTexts(r), OnlyAgents PROVE AccessTypes'
  BY <1>21 DEF AddTexts
<1>22. ASSUME NEW r \in Requests, End(r) PROVE AccessTypes'
  BY <1>22 DEF End, Leave, Dies, Free, IngestForgets, AgentForgets
<1>23. ASSUME NEW r \in Requests, NEW q \in Request, Begin(r, q)
       PROVE  AccessTypes'
  BY <1>23 DEF Begin, Arrive
<1>24. ASSUME NEW s \in Slugs, NEW stage \in {"active", "suspended"},
              SetActive(s, stage), OnlyAccess
       PROVE  AccessTypes'
  BY <1>24 DEF SetActive, Operate
<1>25. ASSUME NEW s \in Slugs, NEW u \in Users,
              NEW new \in Roles \union {None}, SetRole(s, u, new), OnlyAccess PROVE AccessTypes'
  BY <1>25 DEF SetRole, Operate
<1>26. ASSUME NEW s \in Slugs, NEW new \in Secrets \union {None},
              RotateSecret(s, new), OnlyAccess
       PROVE  AccessTypes'
  BY <1>26 DEF RotateSecret, Operate
<1>27. ASSUME NEW u \in Users, DeleteUser(u), OnlyAccess PROVE AccessTypes'
  <2>1. founders' = founders
    BY <1>27, FoundersStay
  <2> QED
    BY <1>27, <2>1 DEF DeleteUser, Operate
<1>28. ASSUME NEW p \in {"ollama", "huggingface"}, ProviderChanges(p),
              UNCHANGED ingestVars PROVE AccessTypes'
  BY <1>28 DEF ProviderChanges, Operate
<1>29. ASSUME NEW r \in Requests, RequestStep(r) PROVE AccessTypes'
  <2>1. CASE PathStep(r) /\ OnlyAccess
    BY <2>1, <1>2, <1>3, <1>4, <1>5 DEF PathStep
  <2>2. CASE IngestStep(r) /\ OnlyIngest
    BY <2>2, <1>6, <1>7, <1>8, <1>9, <1>10, <1>11, <1>12, <1>e DEF IngestStep
  <2>3. CASE AgentStep(r) /\ OnlyAgents
    BY <2>3, <1>13, <1>14, <1>15, <1>16, <1>17, <1>18, <1>19, <1>20, <1>21
    DEF AgentStep
  <2> QED
    BY <1>29, <2>1, <2>2, <2>3
    DEF RequestStep, IngestStep, AgentStep, OnlyAccess, OnlyIngest, OnlyAgents
<1>30. CASE Outside
  <2>1. CASE OperatorStep /\ OnlyAccess
    BY <2>1, <1>24, <1>25, <1>26, <1>27 DEF OperatorStep
  <2> QED
    BY <1>30, <2>1, <1>28 DEF Outside, OnlyAccess
<1> QED
  BY <1>1, <1>22, <1>23, <1>29, <1>30 DEF Next

\* Setting one entry of a table.
LEMMA Entry ==
  ASSUME NEW A, NEW B, NEW C, NEW f \in [A -> [B -> C]],
         NEW a \in A, NEW b \in B, NEW c \in C
  PROVE  LET g == [f EXCEPT ![a][b] = c] IN
         /\ g \in [A -> [B -> C]]
         /\ \A x \in A, y \in B : g[x][y] = IF x = a /\ y = b THEN c ELSE f[x][y]
<1>1. [f[a] EXCEPT ![b] = c] \in [B -> C]
  OBVIOUS
<1> QED
  BY <1>1

\* What a request does leaves the other requests where they are.
LEMMA Alone ==
  ASSUME AccessTypes, IngestTypes, AgentTypes, NEW r \in Requests, Moves(r),
         NEW o \in Requests \ {r}
  PROVE  /\ pc'[o] = pc[o] /\ req'[o] = req[o] /\ taken'[o] = taken[o] /\ copy'[o] = copy[o]
         /\ model'[o] = model[o] /\ text'[o] = text[o] /\ doc'[o] = doc[o]
<1> USE DEF AccessTypes, IngestTypes, AgentTypes, Goto, Refuse, Invalid, Free, pathVars
<1>1. CASE PathStep(r) /\ OnlyAccess
  BY <1>1 DEF PathStep, Resolve, Permit, CheckSlug, Found, ingestVars,
     agentVars
<1>2. CASE IngestStep(r) /\ UNCHANGED agentVars
  BY <1>2 DEF IngestStep, SubmitForm, UploadRow, UploadEmpty, UploadFails, LookUp,
     IngestWebhook,
              IngestLlmCall, Receipt, ingestVars, agentVars
<1>3. CASE AgentStep(r)
  BY <1>3 DEF AgentStep, Guard, Extract, Prompt, Invoke, CheckOutput,
     StoreDraft,
              Parse, GetEmbeddings, AddTexts, Picks, ingestVars, agentVars
<1>4. CASE End(r)
  BY <1>4 DEF End, Leave, Dies, IngestForgets, AgentForgets
<1>5. CASE \E q \in Request : Begin(r, q)
  BY <1>5 DEF Begin, Arrive, ingestVars, agentVars
<1> QED
  BY <1>1, <1>2, <1>3, <1>4, <1>5 DEF Moves, RequestStep

\* What happens outside leaves the requests where they are, and the rows.
LEMMA OutsideLeaves ==
  Outside => UNCHANGED <<pc, req, ingestVars, model, text, shown, doc, stored>>
BY DEF Outside, OperatorStep, SetActive, SetRole, RotateSecret, DeleteUser,
       ProviderChanges, Operate, pathVars, agentVars

\* One more row of a kind for the tenant of a request.
LEMMA Staged ==
  ASSUME AccessTypes, IngestTypes, NEW r \in Requests, pc[r] # "idle",
         req[r].slug \in Slugs, NEW kind \in RowKinds, Stage(r, kind)
  PROVE  /\ req[r] \in Request /\ req[r].slug \in Slugs
         /\ records' \in [Slugs -> [RowKinds -> Nat]]
         /\ \A s \in Slugs, k \in RowKinds :
              records'[s][k] = IF s = req[r].slug /\ k = kind THEN records[s][k] + 1
                               ELSE records[s][k]
<1> DEFINE a == req[r].slug
<1>1. req[r] \in Request /\ a \in Slugs
  BY RequestFields DEF AccessTypes
<1>2. records \in [Slugs -> [RowKinds -> Nat]]
  BY DEF IngestTypes
<1>3. records[a][kind] + 1 \in Nat
  BY <1>1, <1>2
<1>4. records' = [records EXCEPT ![a][kind] = records[a][kind] + 1]
  BY DEF Stage
<1> HIDE DEF a
<1> QED
  BY <1>1, <1>2, <1>3, <1>4, Entry DEF a

\* A counter of a grid goes up by one.
LEMMA OneMore ==
  ASSUME NEW A, NEW B, NEW f \in [A -> [B -> Nat]], NEW a \in A, NEW b \in B
  PROVE  LET g == [f EXCEPT ![a][b] = f[a][b] + 1] IN
         /\ g \in [A -> [B -> Nat]]
         /\ \A x \in A, y \in B : g[x][y] = IF x = a /\ y = b THEN f[x][y] + 1 ELSE f[x][y]
<1> DEFINE c == f[a][b] + 1
           g == [f EXCEPT ![a][b] = c]
<1>1. c \in Nat
  OBVIOUS
<1> HIDE DEF c
<1>2. g \in [A -> [B -> Nat]]
  BY <1>1, Entry
<1>3. \A x \in A, y \in B : g[x][y] = IF x = a /\ y = b THEN c ELSE f[x][y]
  BY <1>1, Entry
<1> HIDE DEF g
<1>4. \A x \in A, y \in B : g[x][y] = IF x = a /\ y = b THEN f[x][y] + 1 ELSE f[x][y]
  BY <1>3 DEF c
<1> QED
  BY <1>2, <1>4 DEF c, g

\* One more answer of the kind of a request for its tenant.
LEMMA Answered ==
  ASSUME receipts \in [Slugs -> [Kinds -> Nat]], NEW r \in Requests, Receipt(r),
         req[r].slug \in Slugs, req[r].kind \in Kinds
  PROVE  /\ receipts' \in [Slugs -> [Kinds -> Nat]]
         /\ \A s \in Slugs, k \in Kinds :
              receipts'[s][k] = IF s = req[r].slug /\ k = req[r].kind
                                THEN receipts[s][k] + 1 ELSE receipts[s][k]
<1> DEFINE a == req[r].slug  b == req[r].kind
<1>1. a \in Slugs /\ b \in Kinds /\ receipts \in [Slugs -> [Kinds -> Nat]]
  OBVIOUS
<1>2. receipts' = [receipts EXCEPT ![a][b] = receipts[a][b] + 1]
  BY DEF Receipt
<1> HIDE DEF a, b
<1> QED
  BY <1>1, <1>2, OneMore DEF a, b

\* One more row at the place of the file a request has reached.
LEMMA OneMoreRow ==
  ASSUME uploaded \in [Slugs -> [1..FileRows -> Nat]], NEW r \in Requests, UploadRow(r),
         req[r].slug \in Slugs, taken[r] + 1 \in 1..FileRows
  PROVE  /\ uploaded' \in [Slugs -> [1..FileRows -> Nat]]
         /\ \A s \in Slugs, i \in 1..FileRows :
              uploaded'[s][i] = IF s = req[r].slug /\ i = taken[r] + 1
                                THEN uploaded[s][i] + 1 ELSE uploaded[s][i]
<1> DEFINE a == req[r].slug  b == taken[r] + 1  Places == 1..FileRows
           More == [uploaded EXCEPT ![a][b] = uploaded[a][b] + 1]
<1>1. a \in Slugs /\ b \in Places /\ uploaded \in [Slugs -> [Places -> Nat]]
  OBVIOUS
<1>2. uploaded' = More
  BY DEF UploadRow
<1> HIDE DEF a, b, Places
<1>3. /\ More \in [Slugs -> [Places -> Nat]]
      /\ \A s \in Slugs, i \in Places :
           More[s][i] = IF s = a /\ i = b THEN uploaded[s][i] + 1 ELSE uploaded[s][i]
  BY <1>1, OneMore
<1> HIDE DEF More
<1> QED
  BY <1>2, <1>3 DEF a, b, Places

\* Every step keeps the ranges of Ingest.
LEMMA IngestTypesStep == TypedPath /\ [Next]_vars => IngestTypes'
<1> SUFFICES ASSUME TypedPath, [Next]_vars PROVE IngestTypes'
  OBVIOUS
<1> USE NoneAssumption, NoRequestAssumption, FileRowsAssumption
    DEF TypedPath, AccessTypes, IngestTypes, Goto, Refuse, Invalid, ingestVars
<1>1. CASE UNCHANGED vars
  BY <1>1 DEF vars, accessVars
<1>2. ASSUME NEW r \in Requests, Resolve(r), OnlyAccess PROVE IngestTypes'
  BY <1>2 DEF Resolve
<1>3. ASSUME NEW r \in Requests, Permit(r), OnlyAccess PROVE IngestTypes'
  BY <1>3 DEF Permit
<1>4. ASSUME NEW r \in Requests, CheckSlug(r), OnlyAccess PROVE IngestTypes'
  BY <1>4 DEF CheckSlug
<1>5. ASSUME NEW r \in Requests, Found(r), OnlyAccess PROVE IngestTypes'
  BY <1>5 DEF Found
<1>6. ASSUME NEW r \in Requests, SubmitForm(r), OnlyIngest PROVE IngestTypes'
  <2>1. CASE Stage(r, "form")
    <3>2. req[r].slug \in Slugs /\ pc[r] # "idle"
      BY <1>6, HasTenant DEF SubmitForm, MemberKinds
    <3>1. records' \in [Slugs -> [RowKinds -> Nat]]
      BY <1>6, <2>1, <3>2, Staged DEF RowKinds
    <3> QED
      BY <1>6, <3>1 DEF SubmitForm
  <2>2. CASE UNCHANGED records
    BY <1>6, <2>2 DEF SubmitForm
  <2> QED
    BY <1>6, <2>1, <2>2 DEF SubmitForm
<1>7. ASSUME NEW r \in Requests, UploadRow(r), OnlyIngest PROVE IngestTypes'
  <2> DEFINE a == req[r].slug  i == taken[r] + 1
  <2>1. a \in Slugs
    BY <1>7, HasTenant DEF UploadRow
  <2>2. i \in 1..FileRows
    <3>1. taken[r] \in 0..FileRows
      OBVIOUS
    <3>2. taken[r] < FileRows
      BY <1>7 DEF UploadRow, OnItsPath
    <3> QED
      BY <3>1, <3>2
  <2>3. uploaded' \in [Slugs -> [1..FileRows -> Nat]]
    BY <1>7, <2>1, <2>2, OneMoreRow
  <2> QED
    BY <1>7, <2>2, <2>3 DEF UploadRow
<1>8. ASSUME NEW r \in Requests, UploadFails(r), OnlyIngest PROVE IngestTypes'
  BY <1>8 DEF UploadFails
<1>e. ASSUME NEW r \in Requests, UploadEmpty(r), OnlyIngest PROVE IngestTypes'
  BY <1>e DEF UploadEmpty
<1>9. ASSUME NEW r \in Requests, LookUp(r), OnlyIngest PROVE IngestTypes'
  <2>1. pc[r] # "idle" /\ req[r].kind \notin MemberKinds
    BY <1>9 DEF LookUp, MemberKinds
  <2>2. req[r].slug \in Slugs
    BY <2>1, HasTenant
  <2>3. secret[req[r].slug] \in Secrets \union {None}
    BY <2>2
  <2>4. copy' \in [Requests -> Secrets \union {None}]
    <3>1. CASE Exists(req[r].slug)
      BY <1>9, <2>3, <3>1 DEF LookUp
    <3>2. CASE ~Exists(req[r].slug)
      BY <1>9, <3>2 DEF LookUp
    <3> QED
      BY <3>1, <3>2
  <2> QED
    BY <1>9, <2>4 DEF LookUp
<1>10. ASSUME NEW r \in Requests, IngestWebhook(r), OnlyIngest
       PROVE  IngestTypes'
  <2>1. CASE Stage(r, "webhook")
    <3>2. req[r].slug \in Slugs /\ pc[r] # "idle"
      BY <1>10, HasTenant DEF IngestWebhook, MemberKinds
    <3>1. records' \in [Slugs -> [RowKinds -> Nat]]
      BY <1>10, <2>1, <3>2, Staged DEF RowKinds
    <3> QED
      BY <1>10, <3>1 DEF IngestWebhook
  <2>2. CASE UNCHANGED records
    BY <1>10, <2>2 DEF IngestWebhook
  <2> QED
    BY <1>10, <2>1, <2>2 DEF IngestWebhook
<1>11. ASSUME NEW r \in Requests, IngestLlmCall(r), OnlyIngest
       PROVE  IngestTypes'
  <2>1. CASE Stage(r, "llm_call")
    <3>2. req[r].slug \in Slugs /\ pc[r] # "idle"
      BY <1>11, HasTenant DEF IngestLlmCall, MemberKinds
    <3>1. records' \in [Slugs -> [RowKinds -> Nat]]
      BY <1>11, <2>1, <3>2, Staged DEF RowKinds
    <3> QED
      BY <1>11, <3>1 DEF IngestLlmCall
  <2>2. CASE UNCHANGED records
    BY <1>11, <2>2 DEF IngestLlmCall
  <2> QED
    BY <1>11, <2>1, <2>2 DEF IngestLlmCall
<1>12. ASSUME NEW r \in Requests, Receipt(r), OnlyIngest PROVE IngestTypes'
  <2>1. req[r].slug \in Slugs /\ req[r].kind \in Kinds
    BY <1>12, HasTenant, InProgress DEF Receipt
  <2>2. receipts' \in [Slugs -> [Kinds -> Nat]]
    BY <1>12, <2>1, Answered
  <2> QED
    BY <1>12, <2>2 DEF Receipt
<1>13. ASSUME NEW r \in Requests, NEW raw \in SUBSET Features, Guard(r, raw), OnlyAgents
       PROVE  IngestTypes'
  BY <1>13 DEF Guard
<1>14. ASSUME NEW r \in Requests, Extract(r), OnlyAgents PROVE IngestTypes'
  BY <1>14 DEF Extract, Picks
<1>15. ASSUME NEW r \in Requests, Prompt(r), OnlyAgents PROVE IngestTypes'
  BY <1>15 DEF Prompt, Picks
<1>16. ASSUME NEW r \in Requests, NEW reply \in SUBSET PersonalData,
              Invoke(r, reply), OnlyAgents
       PROVE  IngestTypes'
  BY <1>16 DEF Invoke
<1>17. ASSUME NEW r \in Requests, CheckOutput(r), OnlyAgents PROVE IngestTypes'
  BY <1>17 DEF CheckOutput
<1>18. ASSUME NEW r \in Requests, StoreDraft(r), OnlyAgents PROVE IngestTypes'
  <2>1. CASE Stage(r, "draft")
    <3>2. req[r].slug \in Slugs /\ pc[r] # "idle"
      BY <1>18, HasTenant DEF StoreDraft, MemberKinds
    <3>1. records' \in [Slugs -> [RowKinds -> Nat]]
      BY <1>18, <2>1, <3>2, Staged DEF RowKinds
    <3> QED
      BY <1>18, <3>1 DEF StoreDraft
  <2>2. CASE UNCHANGED records
    BY <1>18, <2>2 DEF StoreDraft
  <2> QED
    BY <1>18, <2>1, <2>2 DEF StoreDraft
<1>19. ASSUME NEW r \in Requests, NEW n \in 0..MaxWords,
              Parse(r, [i \in 1..n |-> i]), OnlyAgents
       PROVE  IngestTypes'
  BY <1>19 DEF Parse
<1>20. ASSUME NEW r \in Requests, GetEmbeddings(r), OnlyAgents
       PROVE  IngestTypes'
  BY <1>20 DEF GetEmbeddings, Picks
<1>21. ASSUME NEW r \in Requests, AddTexts(r), OnlyAgents PROVE IngestTypes'
  BY <1>21 DEF AddTexts
<1>22. ASSUME NEW r \in Requests, End(r) PROVE IngestTypes'
  BY <1>22 DEF End, Leave, Dies, Free, IngestForgets, AgentForgets
<1>23. ASSUME NEW r \in Requests, NEW q \in Request, Begin(r, q)
       PROVE  IngestTypes'
  BY <1>23 DEF Begin, Arrive
<1>24. ASSUME NEW s \in Slugs, NEW stage \in {"active", "suspended"},
              SetActive(s, stage), OnlyAccess
       PROVE  IngestTypes'
  BY <1>24 DEF SetActive, Operate
<1>25. ASSUME NEW s \in Slugs, NEW u \in Users,
              NEW new \in Roles \union {None}, SetRole(s, u, new), OnlyAccess PROVE IngestTypes'
  BY <1>25 DEF SetRole, Operate
<1>26. ASSUME NEW s \in Slugs, NEW new \in Secrets \union {None},
              RotateSecret(s, new), OnlyAccess
       PROVE  IngestTypes'
  BY <1>26 DEF RotateSecret, Operate
<1>27. ASSUME NEW u \in Users, DeleteUser(u), OnlyAccess PROVE IngestTypes'
  BY <1>27 DEF DeleteUser, Operate
<1>28. ASSUME NEW p \in {"ollama", "huggingface"}, ProviderChanges(p),
              UNCHANGED ingestVars PROVE IngestTypes'
  BY <1>28 DEF ProviderChanges, Operate
<1>29. ASSUME NEW r \in Requests, RequestStep(r) PROVE IngestTypes'
  <2>1. CASE PathStep(r) /\ OnlyAccess
    BY <2>1, <1>2, <1>3, <1>4, <1>5 DEF PathStep
  <2>2. CASE IngestStep(r) /\ OnlyIngest
    BY <2>2, <1>6, <1>7, <1>8, <1>9, <1>10, <1>11, <1>12, <1>e DEF IngestStep
  <2>3. CASE AgentStep(r) /\ OnlyAgents
    BY <2>3, <1>13, <1>14, <1>15, <1>16, <1>17, <1>18, <1>19, <1>20, <1>21
    DEF AgentStep
  <2> QED
    BY <1>29, <2>1, <2>2, <2>3
    DEF RequestStep, IngestStep, AgentStep, OnlyAccess, OnlyIngest, OnlyAgents
<1>30. CASE Outside
  <2>1. CASE OperatorStep /\ OnlyAccess
    BY <2>1, <1>24, <1>25, <1>26, <1>27 DEF OperatorStep
  <2> QED
    BY <1>30, <2>1, <1>28 DEF Outside, OnlyAccess
<1> QED
  BY <1>1, <1>22, <1>23, <1>29, <1>30 DEF Next

\* Every step keeps the requests on their paths.
LEMMA OnPathStep ==
  TypedPath /\ [Next]_vars => \A r \in Requests : (Fresh(r) /\ OnItsPath(r))'
<1> SUFFICES ASSUME TypedPath, [Next]_vars
             PROVE  \A x \in Requests : (Fresh(x) /\ OnItsPath(x))'
  OBVIOUS
<1> USE DEF TypedPath
<1>1. CASE UNCHANGED vars
  BY <1>1 DEF vars, accessVars, ingestVars, agentVars, pathVars, Fresh,
     OnItsPath
<1>2. CASE Outside
  BY <1>2, OutsideLeaves DEF ingestVars, Fresh, OnItsPath
<1>3. ASSUME NEW r \in Requests, Moves(r)
      PROVE  \A x \in Requests : (Fresh(x) /\ OnItsPath(x))'
  <2>1. \A o \in Requests \ {r} : (Fresh(o) /\ OnItsPath(o))'
    BY <1>3, Alone DEF Fresh, OnItsPath
  <2>4. pc[r] # "idle" /\ (pc[r] \notin {"arrived", "resolved", "refused"}
                           \/ req[r].kind \notin MemberKinds)
          => req[r].slug \in Slugs /\ req[r].slug # None
    BY HasTenant, NoneAssumption
  <2> USE <2>4, NoneAssumption, NoRequestAssumption, FileRowsAssumption
      DEF AccessTypes, IngestTypes, AgentTypes, Fresh, OnItsPath, Goto, Refuse,
          Invalid,
          Picks, ingestVars, agentVars, pathVars, MemberKinds, RowKinds
  <2>2. (Fresh(r) /\ OnItsPath(r))'
    <3>1. CASE Resolve(r) /\ OnlyAccess
      BY <3>1 DEF Resolve
    <3>2. CASE Permit(r) /\ OnlyAccess
      BY <3>2 DEF Permit, IsTenantMember
    <3>3. CASE CheckSlug(r) /\ OnlyAccess
      BY <3>3 DEF CheckSlug
    <3>4. CASE Found(r) /\ OnlyAccess
      BY <3>4 DEF Found
    <3>5. CASE SubmitForm(r) /\ OnlyIngest
      BY <3>5 DEF SubmitForm
    <3>6. CASE UploadRow(r) /\ OnlyIngest
      <4>1. taken[r] \in 0..FileRows /\ taken[r] < FileRows
        BY <3>6 DEF UploadRow
      <4>2. taken'[r] = taken[r] + 1 /\ (taken'[r] # FileRows => pc'[r] = "permitted")
        BY <3>6 DEF UploadRow, EndOfFile
      <4>3. pc'[r] \in {"permitted", "stored"} /\ (taken'[r] = FileRows => pc'[r] = "stored")
        BY <3>6 DEF UploadRow, EndOfFile
      <4>4. taken'[r] < FileRows \/ taken'[r] = FileRows
        BY <4>1, <4>2
      <4> QED
        BY <3>6, <4>2, <4>3, <4>4 DEF UploadRow
    <3>7. CASE UploadFails(r) /\ OnlyIngest
      BY <3>7 DEF UploadFails
    <3>e. CASE UploadEmpty(r) /\ OnlyIngest
      BY <3>e DEF UploadEmpty
    <3>8. CASE LookUp(r) /\ OnlyIngest
      BY <3>8 DEF LookUp
    <3>9. CASE IngestWebhook(r) /\ OnlyIngest
      <4>1. pc[r] = "looked_up" /\ req[r].kind = "webhook"
        BY <3>9 DEF IngestWebhook
      <4>2. pc'[r] \in {"stored", "invalid", "refused"}
        BY <3>9 DEF IngestWebhook
      <4>3. UNCHANGED <<req, taken, copy, model>>
        BY <3>9 DEF IngestWebhook
      <4> QED
        BY <4>1, <4>2, <4>3
    <3>10. CASE IngestLlmCall(r) /\ OnlyIngest
      <4>1. pc[r] = "arrived" /\ req[r].kind = "llm_call"
        BY <3>10 DEF IngestLlmCall
      <4>2. pc'[r] \in {"stored", "invalid", "refused"}
        BY <3>10 DEF IngestLlmCall
      <4>3. UNCHANGED <<req, taken, copy, model>>
        BY <3>10 DEF IngestLlmCall
      <4> QED
        BY <4>1, <4>2, <4>3
    <3>11. CASE Receipt(r) /\ OnlyIngest
      BY <3>11 DEF Receipt
    <3>12. ASSUME NEW raw \in SUBSET Features, Guard(r, raw), OnlyAgents
           PROVE  (Fresh(r) /\ OnItsPath(r))'
      BY <3>12 DEF Guard
    <3>13. CASE Extract(r) /\ OnlyAgents
      BY <3>13 DEF Extract
    <3>14. CASE Prompt(r) /\ OnlyAgents
      BY <3>14 DEF Prompt
    <3>15. ASSUME NEW reply \in SUBSET PersonalData, Invoke(r, reply), OnlyAgents
           PROVE  (Fresh(r) /\ OnItsPath(r))'
      BY <3>15 DEF Invoke
    <3>16. CASE CheckOutput(r) /\ OnlyAgents
      BY <3>16 DEF CheckOutput
    <3>17. CASE StoreDraft(r) /\ OnlyAgents
      <4>1. pc[r] = "replied" /\ req[r].kind = "draft"
        BY <3>17 DEF StoreDraft
      <4>2. pc'[r] \in {"stored", "invalid", "refused"}
        BY <3>17 DEF StoreDraft
      <4>3. UNCHANGED <<req, taken, copy, model>>
        BY <3>17 DEF StoreDraft
      <4> QED
        BY <4>1, <4>2, <4>3
    <3>18. ASSUME NEW n \in 0..MaxWords, Parse(r, [i \in 1..n |-> i]), OnlyAgents
           PROVE  (Fresh(r) /\ OnItsPath(r))'
      BY <3>18 DEF Parse
    <3>19. CASE GetEmbeddings(r) /\ OnlyAgents
      BY <3>19 DEF GetEmbeddings
    <3>20. CASE AddTexts(r) /\ OnlyAgents
      BY <3>20 DEF AddTexts
    <3>21. CASE End(r)
      BY <3>21 DEF End, Leave, Dies, Free, IngestForgets, AgentForgets
    <3>22. ASSUME NEW q \in Request, Begin(r, q)
           PROVE  (Fresh(r) /\ OnItsPath(r))'
      BY <3>22 DEF Begin, Arrive
    <3> QED
      BY <1>3, <3>1, <3>2, <3>3, <3>4, <3>5, <3>6, <3>7, <3>8, <3>9, <3>10,
         <3>11, <3>12, <3>13, <3>14, <3>15, <3>16, <3>17, <3>18, <3>19, <3>20,
         <3>21, <3>22, <3>e
      DEF Moves, RequestStep, PathStep, IngestStep, AgentStep
  <2> QED
    BY <2>1, <2>2
<1> QED
  BY <1>1, <1>2, <1>3 DEF Next, Moves

\* Texts, models and documents keep their ranges.
LEMMA AgentTypesStep == TypedPath /\ [Next]_vars => AgentTypes'
<1> SUFFICES ASSUME TypedPath, [Next]_vars PROVE AgentTypes'
  OBVIOUS
<1> USE NoneAssumption, NoRequestAssumption, ProviderAssumption
    DEF TypedPath, AccessTypes, AgentTypes, Goto, Refuse, Invalid, agentVars
<1>1. CASE UNCHANGED vars
  BY <1>1 DEF vars, accessVars
<1>2. ASSUME NEW r \in Requests, Resolve(r), OnlyAccess PROVE AgentTypes'
  BY <1>2 DEF Resolve
<1>3. ASSUME NEW r \in Requests, Permit(r), OnlyAccess PROVE AgentTypes'
  BY <1>3 DEF Permit
<1>4. ASSUME NEW r \in Requests, CheckSlug(r), OnlyAccess PROVE AgentTypes'
  BY <1>4 DEF CheckSlug
<1>5. ASSUME NEW r \in Requests, Found(r), OnlyAccess PROVE AgentTypes'
  BY <1>5 DEF Found
<1>6. ASSUME NEW r \in Requests, SubmitForm(r), OnlyIngest PROVE AgentTypes'
  BY <1>6 DEF SubmitForm
<1>7. ASSUME NEW r \in Requests, UploadRow(r), OnlyIngest PROVE AgentTypes'
  BY <1>7 DEF UploadRow
<1>8. ASSUME NEW r \in Requests, UploadFails(r), OnlyIngest PROVE AgentTypes'
  BY <1>8 DEF UploadFails
<1>e. ASSUME NEW r \in Requests, UploadEmpty(r), OnlyIngest PROVE AgentTypes'
  BY <1>e DEF UploadEmpty
<1>9. ASSUME NEW r \in Requests, LookUp(r), OnlyIngest PROVE AgentTypes'
  BY <1>9 DEF LookUp
<1>10. ASSUME NEW r \in Requests, IngestWebhook(r), OnlyIngest
       PROVE  AgentTypes'
  BY <1>10 DEF IngestWebhook
<1>11. ASSUME NEW r \in Requests, IngestLlmCall(r), OnlyIngest
       PROVE  AgentTypes'
  BY <1>11 DEF IngestLlmCall
<1>12. ASSUME NEW r \in Requests, Receipt(r), OnlyIngest PROVE AgentTypes'
  BY <1>12 DEF Receipt
<1>13. ASSUME NEW r \in Requests, NEW raw \in SUBSET Features, Guard(r, raw), OnlyAgents
       PROVE  AgentTypes'
  BY <1>13 DEF Guard, Redacted
<1>14. ASSUME NEW r \in Requests, Extract(r), OnlyAgents PROVE AgentTypes'
  BY <1>14 DEF Extract, Picks, ChatModel, Providers
<1>15. ASSUME NEW r \in Requests, Prompt(r), OnlyAgents PROVE AgentTypes'
  BY <1>15 DEF Prompt, Picks, ChatModel, Providers
<1>16. ASSUME NEW r \in Requests, NEW reply \in SUBSET PersonalData,
              Invoke(r, reply), OnlyAgents
       PROVE  AgentTypes'
  <2>1. [by |-> model[r], text |-> text[r]]
          \in [by : Providers \union {None}, text : SUBSET Features]
    OBVIOUS
  <2>2. shown' \subseteq [by : Providers \union {None}, text : SUBSET Features]
    BY <1>16, <2>1 DEF Invoke
  <2>3. text' \in [Requests -> SUBSET Features]
    BY <1>16 DEF Invoke, Features, PersonalData
  <2> QED
    BY <1>16, <2>2, <2>3 DEF Invoke
<1>17. ASSUME NEW r \in Requests, CheckOutput(r), OnlyAgents PROVE AgentTypes'
  BY <1>17 DEF CheckOutput, Redacted
<1>18. ASSUME NEW r \in Requests, StoreDraft(r), OnlyAgents PROVE AgentTypes'
  BY <1>18 DEF StoreDraft
<1>19. ASSUME NEW r \in Requests, NEW n \in 0..MaxWords,
              Parse(r, [i \in 1..n |-> i]), OnlyAgents
       PROVE  AgentTypes'
  <2> DEFINE words == [i \in 1..n |-> i]
  <2>1. words \in Seq(Nat)
    <3>1. n \in Nat /\ words \in [1..n -> Nat]
      BY ChunkAssumption
    <3> QED
      BY <3>1, SeqDef
  <2> HIDE DEF words
  <2>2. [words |-> words, chunks |-> ChunkText(words)]
          \in [words : Seq(Nat), chunks : Seq(Seq(Nat))]
    BY <2>1, ChunksAreTheText
  <2>3. doc' \in [Requests -> [words : Seq(Nat), chunks : Seq(Seq(Nat))]]
    BY <1>19, <2>2 DEF Parse, words
  <2> QED
    BY <1>19, <2>3 DEF Parse
<1>20. ASSUME NEW r \in Requests, GetEmbeddings(r), OnlyAgents
       PROVE  AgentTypes'
  BY <1>20 DEF GetEmbeddings, Picks, ChatModel, Embedder, Providers
<1>21. ASSUME NEW r \in Requests, AddTexts(r), OnlyAgents PROVE AgentTypes'
  BY <1>21 DEF AddTexts
<1>22. ASSUME NEW r \in Requests, End(r) PROVE AgentTypes'
  BY <1>22 DEF End, Leave, Dies, Free, IngestForgets, AgentForgets, NoDoc
<1>23. ASSUME NEW r \in Requests, NEW q \in Request, Begin(r, q)
       PROVE  AgentTypes'
  BY <1>23 DEF Begin, Arrive
<1>24. ASSUME NEW s \in Slugs, NEW stage \in {"active", "suspended"},
              SetActive(s, stage), OnlyAccess
       PROVE  AgentTypes'
  BY <1>24 DEF SetActive, Operate
<1>25. ASSUME NEW s \in Slugs, NEW u \in Users,
              NEW new \in Roles \union {None}, SetRole(s, u, new), OnlyAccess PROVE AgentTypes'
  BY <1>25 DEF SetRole, Operate
<1>26. ASSUME NEW s \in Slugs, NEW new \in Secrets \union {None},
              RotateSecret(s, new), OnlyAccess
       PROVE  AgentTypes'
  BY <1>26 DEF RotateSecret, Operate
<1>27. ASSUME NEW u \in Users, DeleteUser(u), OnlyAccess PROVE AgentTypes'
  BY <1>27 DEF DeleteUser, Operate
<1>28. ASSUME NEW p \in {"ollama", "huggingface"}, ProviderChanges(p),
              UNCHANGED ingestVars PROVE AgentTypes'
  BY <1>28 DEF ProviderChanges, Operate, Providers
<1>29. ASSUME NEW r \in Requests, RequestStep(r) PROVE AgentTypes'
  <2>1. CASE PathStep(r) /\ OnlyAccess
    BY <2>1, <1>2, <1>3, <1>4, <1>5 DEF PathStep
  <2>2. CASE IngestStep(r) /\ OnlyIngest
    BY <2>2, <1>6, <1>7, <1>8, <1>9, <1>10, <1>11, <1>12, <1>e DEF IngestStep
  <2>3. CASE AgentStep(r) /\ OnlyAgents
    BY <2>3, <1>13, <1>14, <1>15, <1>16, <1>17, <1>18, <1>19, <1>20, <1>21
    DEF AgentStep
  <2> QED
    BY <1>29, <2>1, <2>2, <2>3
    DEF RequestStep, IngestStep, AgentStep, OnlyAccess, OnlyIngest, OnlyAgents
<1>30. CASE Outside
  <2>1. CASE OperatorStep /\ OnlyAccess
    BY <2>1, <1>24, <1>25, <1>26, <1>27 DEF OperatorStep
  <2> QED
    BY <1>30, <2>1, <1>28 DEF Outside, OnlyAccess
<1> QED
  BY <1>1, <1>22, <1>23, <1>29, <1>30 DEF Next

\* What holds after a step is remembered of every request it leaves in
\* progress, and nothing is forgotten.
LEMMA Watched ==
  ASSUME Watch, NEW r \in Requests, pc[r] # "idle", pc'[r] # "idle"
  PROVE  /\ held'[r] = held[r] \union Facts(r)'
         /\ missed'[r] = missed[r] \union (FactNames \ Facts(r)')
BY DEF Watch, Since

\* The histories are made of facts.
LEMMA HistoryStep ==
  ASSUME held \in [Requests -> SUBSET FactNames], missed \in [Requests -> SUBSET FactNames],
         [Next]_vars
  PROVE  /\ held' \in [Requests -> SUBSET FactNames]
         /\ missed' \in [Requests -> SUBSET FactNames]
<1>1. CASE UNCHANGED vars
  BY <1>1 DEF vars
<1>2. CASE Watch
  <2>1. \A r \in Requests : Facts(r)' \subseteq FactNames
    BY DEF Facts
  <2>2. \A r \in Requests : Since(held, r, Facts(r)') \subseteq FactNames
    BY <2>1 DEF Since
  <2>3. \A r \in Requests : Since(missed, r, FactNames \ Facts(r)') \subseteq FactNames
    BY DEF Since
  <2> QED
    BY <1>2, <2>2, <2>3 DEF Watch
<1> QED
  BY <1>1, <1>2 DEF Next

\* What the facts say of a request after a step.
LEMMA FactsAfter ==
  ASSUME NEW r, req'[r] = req[r]
  PROVE  /\ "exists" \in Facts(r)' <=> req[r].slug # None /\ tenant'[req[r].slug] # "absent"
         /\ "free" \in Facts(r)' <=> req[r].slug # None /\ tenant'[req[r].slug] = "absent"
         /\ "active" \in Facts(r)' <=> req[r].slug # None /\ tenant'[req[r].slug] = "active"
         /\ "account" \in Facts(r)' <=> req[r].user \in users'
         /\ "member" \in Facts(r)' <=>
              /\ req[r].slug # None
              /\ req[r].user \in users' /\ role'[req[r].slug][req[r].user] # None
         /\ "signed" \in Facts(r)' <=>
              /\ req[r].slug # None
              /\ secret'[req[r].slug] # None /\ req[r].proof = secret'[req[r].slug]
         /\ "trusted" \in Facts(r)' <=>
              ServiceToken # None /\ req[r].proof = ServiceToken
         /\ "ollama" \in Facts(r)' <=> "ollama" \in local'
BY DEF Facts, FactNames

\* The needs of every kind that can be refused.
LEMMA NeedsOf ==
  /\ Needs("found") = {"free", "account"}
  /\ Needs("form") = {"active", "member"} /\ Needs("csv") = {"active", "member"}
  /\ Needs("webhook") = {"exists", "signed"}
  /\ Needs("llm_call") = {"exists", "trusted"}
  /\ Needs("draft") = {"exists"}
<1> USE DEF Needs, MemberKinds, WebhookKinds, ServiceKinds
<1>1. Needs("found") = {"free", "account"}
  OBVIOUS
<1>2. Needs("form") = {"active", "member"} /\ Needs("csv") = {"active", "member"}
  OBVIOUS
<1>3. Needs("webhook") = {"exists", "signed"}
  OBVIOUS
<1>4. Needs("llm_call") = {"exists", "trusted"}
  OBVIOUS
<1>5. Needs("draft") = {"exists"}
  OBVIOUS
<1> QED
  BY <1>1, <1>2, <1>3, <1>4, <1>5

\* What is remembered of a request that stays where it is.
LEMMA StaysEntitled ==
  ASSUME Watch, NEW o \in Requests, Entitled(o), pc'[o] = pc[o], req'[o] = req[o],
         taken'[o] = taken[o], copy'[o] = copy[o]
  PROVE  Entitled(o)'
<1>1. pc[o] # "idle" => held[o] \subseteq held'[o] /\ missed[o] \subseteq missed'[o]
  BY Watched
<1> QED
  BY <1>1 DEF Entitled, Storing, SignatureMatches

\* Every step keeps what the requests have shown.
LEMMA EntitledStep ==
  TypedPath /\ (\A r \in Requests : Entitled(r)) /\ [Next]_vars => \A r \in Requests : Entitled(r)'
<1> SUFFICES ASSUME TypedPath /\ (\A r \in Requests : Entitled(r)), [Next]_vars
             PROVE  \A x \in Requests : Entitled(x)'
  OBVIOUS
<1> USE DEF TypedPath
<1>1. CASE UNCHANGED vars
  BY <1>1 DEF vars, accessVars, ingestVars, pathVars, Entitled, Storing,
     SignatureMatches
<1>2. CASE Outside /\ Watch
  BY <1>2, OutsideLeaves, StaysEntitled DEF ingestVars
<1>3. ASSUME NEW r \in Requests, Moves(r), Watch
      PROVE  \A x \in Requests : Entitled(x)'
  <2>1. \A o \in Requests \ {r} : Entitled(o)'
    BY <1>3, Alone, StaysEntitled
  <2> DEFINE Kept == held[r] \subseteq held'[r] /\ missed[r] \subseteq missed'[r]
                 /\ Facts(r)' \subseteq held'[r] /\ FactNames \ Facts(r)' \subseteq missed'[r]
  <2>3. pc[r] # "idle" /\ pc'[r] # "idle" => Kept
    BY <1>3, Watched
  <2>4. pc[r] # "idle" /\ (pc[r] \notin {"arrived", "resolved", "refused"}
                           \/ req[r].kind \notin MemberKinds)
          => req[r].slug \in Slugs /\ req[r].slug # None
    BY HasTenant, NoneAssumption
  <2> USE <2>3, NoneAssumption, NoRequestAssumption, FileRowsAssumption
      DEF AccessTypes, IngestTypes, AgentTypes, Fresh, OnItsPath, Entitled,
          Storing, SignatureMatches, Goto, Refuse, Invalid,
          Picks, ingestVars, agentVars, tenantVars, MemberKinds, RowKinds
  <2>2. Entitled(r)'
    <3>1. CASE Resolve(r) /\ OnlyAccess
      <4>1. CASE IsActive(req[r].slug) /\ req[r].slug # None
        <5>1. "active" \in held'[r]
          BY <3>1, <4>1, FactsAfter DEF Resolve, IsActive
        <5> QED
          BY <3>1, <5>1 DEF Resolve
      <4>2. CASE ~IsActive(req[r].slug) /\ req[r].slug # None
        BY <3>1, <4>2 DEF Resolve
      <4>3. CASE req[r].slug = None
        BY <3>1, <4>3 DEF Resolve
      <4> QED
        BY <4>1, <4>2, <4>3
    <3>2. CASE Permit(r) /\ OnlyAccess
      <4>1. CASE IsTenantMember(r)
        BY <3>2, <4>1, FactsAfter DEF Permit, IsTenantMember
      <4>2. CASE ~IsTenantMember(r)
        BY <3>2, <4>2 DEF Permit
      <4> QED
        BY <4>1, <4>2
    <3>3. CASE CheckSlug(r) /\ OnlyAccess
      BY <3>3 DEF CheckSlug
    <3>4. CASE Found(r) /\ OnlyAccess
      BY <3>4 DEF Found
    <3>5. CASE SubmitForm(r) /\ OnlyIngest
      <4>1. Needs("form") = {"active", "member"}
        BY NeedsOf
      <4> QED
        BY <3>5, <4>1 DEF SubmitForm
    <3>6. CASE UploadRow(r) /\ OnlyIngest
      <4>1. Needs("csv") = {"active", "member"}
        BY NeedsOf
      <4>2. Needs(req'[r].kind) \subseteq held'[r]
        BY <3>6, <4>1 DEF UploadRow
      <4>3. pc'[r] \in {"permitted", "stored"}
        BY <3>6 DEF UploadRow
      <4> QED
        BY <3>6, <4>2, <4>3 DEF UploadRow
    <3>7. CASE UploadFails(r) /\ OnlyIngest
      BY <3>7 DEF UploadFails
    <3>e. CASE UploadEmpty(r) /\ OnlyIngest
      BY <3>e DEF UploadEmpty
    <3>8. CASE LookUp(r) /\ OnlyIngest
      <4>1. CASE Exists(req[r].slug)
        <5>1. copy'[r] = secret[req[r].slug] /\ pc'[r] = "looked_up" /\ UNCHANGED <<tenantVars, req, taken>>
          BY <3>8, <4>1 DEF LookUp
        <5>4. req[r].slug # None
          BY <2>4, <3>8 DEF LookUp
        <5>2. "exists" \in held'[r]
          BY <3>8, <4>1, <5>1, <5>4, FactsAfter DEF LookUp, Exists
        <5>3. IF SignatureMatches(r)' THEN "signed" \in held'[r] ELSE "signed" \in missed'[r]
          BY <3>8, <5>1, <5>4, FactsAfter DEF LookUp, FactNames
        <5> QED
          BY <3>8, <5>1, <5>2, <5>3 DEF LookUp
      <4>2. CASE ~Exists(req[r].slug)
        BY <3>8, <4>2 DEF LookUp
      <4> QED
        BY <4>1, <4>2
    <3>9. CASE IngestWebhook(r) /\ OnlyIngest
      <4>1. Needs("webhook") = {"exists", "signed"}
        BY NeedsOf
      <4>2. CASE SignatureMatches(r)
        BY <3>9, <4>1, <4>2 DEF IngestWebhook
      <4>3. CASE ~SignatureMatches(r)
        BY <3>9, <4>3 DEF IngestWebhook
      <4> QED
        BY <4>2, <4>3
    <3>10. CASE IngestLlmCall(r) /\ OnlyIngest
      <4>1. Needs("llm_call") = {"exists", "trusted"}
        BY NeedsOf
      <4>2. CASE pc'[r] = "stored"
        <5>1. TokenMatches(r) /\ Exists(req[r].slug)
          BY <3>10, <4>2 DEF IngestLlmCall
        <5>3. req[r].slug # None
          BY <2>4, <3>10 DEF IngestLlmCall
        <5>2. {"exists", "trusted"} \subseteq held'[r]
          BY <3>10, <4>2, <5>1, <5>3, FactsAfter DEF IngestLlmCall, TokenMatches,
             Exists
        <5> QED
          BY <3>10, <4>1, <4>2, <5>2 DEF IngestLlmCall
      <4>3. CASE pc'[r] # "stored"
        <5>1. pc'[r] \in {"refused", "invalid"}
          BY <3>10, <4>3 DEF IngestLlmCall
        <5> QED
          BY <3>10, <5>1 DEF IngestLlmCall
      <4> QED
        BY <4>2, <4>3
    <3>11. CASE Receipt(r) /\ OnlyIngest
      BY <3>11 DEF Receipt
    <3>12. ASSUME NEW raw \in SUBSET Features, Guard(r, raw), OnlyAgents
           PROVE  Entitled(r)'
      BY <3>12 DEF Guard
    <3>13. CASE Extract(r) /\ OnlyAgents
      BY <3>13 DEF Extract
    <3>14. CASE Prompt(r) /\ OnlyAgents
      BY <3>14 DEF Prompt
    <3>15. ASSUME NEW reply \in SUBSET PersonalData, Invoke(r, reply), OnlyAgents
           PROVE  Entitled(r)'
      BY <3>15 DEF Invoke
    <3>16. CASE CheckOutput(r) /\ OnlyAgents
      BY <3>16 DEF CheckOutput
    <3>17. CASE StoreDraft(r) /\ OnlyAgents
      <4>1. Needs("draft") = {"exists"}
        BY NeedsOf
      <4>2. CASE Exists(req[r].slug)
        <5>2. req[r].slug # None
          BY <2>4, <3>17 DEF StoreDraft
        <5>1. "exists" \in held'[r]
          BY <3>17, <4>2, <5>2, FactsAfter DEF StoreDraft, Exists
        <5> QED
          BY <3>17, <4>1, <4>2, <5>1 DEF StoreDraft
      <4>3. CASE ~Exists(req[r].slug)
        BY <3>17, <4>3 DEF StoreDraft
      <4> QED
        BY <4>2, <4>3
    <3>18. ASSUME NEW n \in 0..MaxWords, Parse(r, [i \in 1..n |-> i]), OnlyAgents
           PROVE  Entitled(r)'
      BY <3>18 DEF Parse
    <3>19. CASE GetEmbeddings(r) /\ OnlyAgents
      BY <3>19 DEF GetEmbeddings
    <3>20. CASE AddTexts(r) /\ OnlyAgents
      BY <3>20 DEF AddTexts
    <3>21. CASE End(r)
      BY <3>21 DEF End, Leave, Dies, Free, IngestForgets, AgentForgets
    <3>22. ASSUME NEW q \in Request, Begin(r, q) PROVE Entitled(r)'
      BY <3>22 DEF Begin, Arrive
    <3> QED
      BY <1>3, <3>1, <3>2, <3>3, <3>4, <3>5, <3>6, <3>7, <3>8, <3>9, <3>10,
         <3>11, <3>12, <3>13, <3>14, <3>15, <3>16, <3>17, <3>18, <3>19, <3>20,
         <3>21, <3>22, <3>e
      DEF Moves, RequestStep, PathStep, IngestStep, AgentStep
  <2> QED
    BY <2>1, <2>2
<1> QED
  BY <1>1, <1>2, <1>3 DEF Next, Moves

\* A request that does nothing keeps the cause of its refusal.
LEMMA StaysCaused ==
  ASSUME Watch, NEW o \in Requests, Caused(o), pc'[o] = pc[o], req'[o] = req[o]
  PROVE  Caused(o)'
<1>1. pc[o] # "idle" => missed[o] \subseteq missed'[o]
  BY Watched
<1> QED
  BY <1>1 DEF Caused

\* Every refusal has a cause when the policies do not hide the rows.
LEMMA RefusalStep ==
  ~RlsEnforced /\ TypedPath /\ (\A r \in Requests : Entitled(r) /\ Caused(r)) /\ [Next]_vars => \A r \in Requests : Caused(r)'
<1> SUFFICES ASSUME ~RlsEnforced /\ TypedPath /\ (\A r \in Requests : Entitled(r) /\ Caused(r)), [Next]_vars
             PROVE  \A x \in Requests : Caused(x)'
  OBVIOUS
<1> USE DEF TypedPath
<1>1. CASE UNCHANGED vars
  BY <1>1 DEF vars, accessVars, pathVars, Caused
<1>2. CASE Outside /\ Watch
  BY <1>2, OutsideLeaves, StaysCaused DEF ingestVars
<1>3. ASSUME NEW r \in Requests, Moves(r), Watch
      PROVE  \A x \in Requests : Caused(x)'
  <2>1. \A o \in Requests \ {r} : Caused(o)'
    BY <1>3, Alone, StaysCaused
  <2> DEFINE Kept == held[r] \subseteq held'[r] /\ missed[r] \subseteq missed'[r]
                 /\ Facts(r)' \subseteq held'[r] /\ FactNames \ Facts(r)' \subseteq missed'[r]
  <2>3. pc[r] # "idle" /\ pc'[r] # "idle" => Kept
    BY <1>3, Watched
  <2> USE <2>3, NoneAssumption, NoRequestAssumption, FileRowsAssumption
      DEF AccessTypes, IngestTypes, OnItsPath, Caused, Goto, Refuse, Invalid,
          tenantVars, MemberKinds
  <2>2. Caused(r)'
    <3>1. CASE Resolve(r) /\ OnlyAccess
      <4>1. CASE tenant[req[r].slug] = "active" \/ req[r].slug = None
        BY <3>1, <4>1 DEF Resolve, IsActive, RowsVisible
      <4>2. CASE ~(tenant[req[r].slug] = "active" \/ req[r].slug = None)
        <5>1. "active" \in missed'[r]
          BY <3>1, <4>2, FactsAfter DEF Resolve, FactNames
        <5>2. "active" \in Needs(req[r].kind)
          BY <3>1, NeedsOf DEF Resolve
        <5> QED
          BY <3>1, <5>1, <5>2 DEF Resolve
      <4> QED
        BY <4>1, <4>2
    <3>2. CASE Permit(r) /\ OnlyAccess
      <4>1. CASE IsTenantMember(r)
        BY <3>2, <4>1 DEF Permit
      <4>2. CASE ~IsTenantMember(r)
        <5>1. "member" \in missed'[r]
          BY <3>2, <4>2, FactsAfter DEF Permit, IsTenantMember, FactNames
        <5>2. "member" \in Needs(req[r].kind)
          BY <3>2, NeedsOf DEF Permit
        <5> QED
          BY <3>2, <5>1, <5>2 DEF Permit
      <4> QED
        BY <4>1, <4>2
    <3>3. CASE CheckSlug(r) /\ OnlyAccess
      <4>1. CASE Exists(req[r].slug)
        <5>1. "free" \in missed'[r]
          BY <3>3, <4>1, FactsAfter DEF CheckSlug, Exists, FactNames
        <5> QED
          BY <3>3, <5>1, NeedsOf DEF CheckSlug
      <4>2. CASE ~Exists(req[r].slug)
        BY <3>3, <4>2 DEF CheckSlug
      <4> QED
        BY <4>1, <4>2
    <3>4. CASE Found(r) /\ OnlyAccess
      <4>1. CASE SlugFree(r)
        BY <3>4, <4>1 DEF Found
      <4>2. CASE ~SlugFree(r)
        <5>1. tenant[req[r].slug] # "absent" \/ req[r].user \notin users
          BY <4>2 DEF SlugFree, Insertable, RowsVisible
        <5>2. "free" \in missed'[r] \/ "account" \in missed'[r]
          BY <3>4, <4>2, <5>1, FactsAfter DEF Found, FactNames
        <5>3. Needs(req[r].kind) = {"free", "account"}
          BY <3>4, NeedsOf DEF Found
        <5> QED
          BY <3>4, <4>2, <5>2, <5>3 DEF Found
      <4> QED
        BY <4>1, <4>2
    <3>5. CASE SubmitForm(r) /\ OnlyIngest
      BY <3>5 DEF SubmitForm
    <3>6. CASE UploadRow(r) /\ OnlyIngest
      BY <3>6 DEF UploadRow
    <3>7. CASE UploadFails(r) /\ OnlyIngest
      BY <3>7 DEF UploadFails
    <3>e. CASE UploadEmpty(r) /\ OnlyIngest
      BY <3>e DEF UploadEmpty
    <3>8. CASE LookUp(r) /\ OnlyIngest
      <4>1. CASE Exists(req[r].slug)
        BY <3>8, <4>1 DEF LookUp
      <4>2. CASE ~Exists(req[r].slug)
        <5>1. "exists" \in missed'[r]
          BY <3>8, <4>2, FactsAfter DEF LookUp, Exists, RowsVisible, FactNames
        <5> QED
          BY <3>8, <5>1, NeedsOf DEF LookUp
      <4> QED
        BY <4>1, <4>2
    <3>9. CASE IngestWebhook(r) /\ OnlyIngest
      <4>1. CASE SignatureMatches(r)
        BY <3>9, <4>1 DEF IngestWebhook
      <4>2. CASE ~SignatureMatches(r)
        <5>1. "signed" \in missed'[r]
          BY <3>9, <4>2 DEF IngestWebhook, Entitled
        <5>2. Needs(req[r].kind) = {"exists", "signed"}
          BY <3>9, NeedsOf DEF IngestWebhook
        <5> QED
          BY <3>9, <4>2, <5>1, <5>2 DEF IngestWebhook
      <4> QED
        BY <4>1, <4>2
    <3>10. CASE IngestLlmCall(r) /\ OnlyIngest
      <4>1. CASE pc'[r] = "refused"
        <5>1. ~TokenMatches(r) \/ ~Exists(req[r].slug)
          BY <3>10, <4>1 DEF IngestLlmCall
        <5>2. "trusted" \in missed'[r] \/ "exists" \in missed'[r]
          BY <3>10, <4>1, <5>1, FactsAfter DEF IngestLlmCall, TokenMatches,
             Exists, RowsVisible, FactNames
        <5>3. Needs(req[r].kind) = {"exists", "trusted"}
          BY <3>10, NeedsOf DEF IngestLlmCall
        <5> QED
          BY <3>10, <5>2, <5>3
      <4>2. CASE pc'[r] # "refused"
        BY <4>2
      <4> QED
        BY <4>1, <4>2
    <3>11. CASE Receipt(r) /\ OnlyIngest
      BY <3>11 DEF Receipt
    <3>12. ASSUME NEW raw \in SUBSET Features, Guard(r, raw), OnlyAgents
           PROVE  Caused(r)'
      BY <3>12 DEF Guard
    <3>13. CASE Extract(r) /\ OnlyAgents
      <4>1. CASE pc'[r] = "refused"
        <5>1. "ollama" \notin local
          BY <3>13, <4>1, ProviderAssumption DEF Extract, Picks, Providers,
             ChatModel
        <5>2. "ollama" \in missed'[r]
          BY <3>13, <4>1, <5>1, FactsAfter DEF Extract, Picks, FactNames
        <5>3. req'[r].kind \in AgentKinds
          BY <3>13 DEF Extract, OnItsPath, AgentKinds
        <5> QED
          BY <5>2, <5>3
      <4>2. CASE pc'[r] # "refused"
        BY <4>2
      <4> QED
        BY <4>1, <4>2
    <3>14. CASE Prompt(r) /\ OnlyAgents
      <4>1. CASE pc'[r] = "refused"
        <5>1. "ollama" \notin local
          BY <3>14, <4>1, ProviderAssumption DEF Prompt, Picks, Providers,
             ChatModel
        <5>2. "ollama" \in missed'[r]
          BY <3>14, <4>1, <5>1, FactsAfter DEF Prompt, Picks, FactNames
        <5>3. req'[r].kind \in AgentKinds
          BY <3>14 DEF Prompt, OnItsPath, AgentKinds
        <5> QED
          BY <5>2, <5>3
      <4>2. CASE pc'[r] # "refused"
        BY <4>2
      <4> QED
        BY <4>1, <4>2
    <3>15. ASSUME NEW reply \in SUBSET PersonalData, Invoke(r, reply), OnlyAgents
           PROVE  Caused(r)'
      <4>1. CASE Gone(r)
        <5>1. "ollama" \in missed'[r]
          BY <3>15, <4>1, FactsAfter DEF Invoke, Gone, FactNames, agentVars
        <5>2. req'[r].kind \in AgentKinds
          BY <3>15 DEF Invoke, OnItsPath, AgentKinds
        <5> QED
          BY <5>1, <5>2
      <4>2. CASE ~Gone(r)
        BY <3>15, <4>2 DEF Invoke
      <4> QED
        BY <4>1, <4>2
    <3>16. CASE CheckOutput(r) /\ OnlyAgents
      BY <3>16 DEF CheckOutput
    <3>17. CASE StoreDraft(r) /\ OnlyAgents
      <4>1. CASE Exists(req[r].slug)
        BY <3>17, <4>1 DEF StoreDraft
      <4>2. CASE ~Exists(req[r].slug)
        <5>1. "exists" \in missed'[r]
          BY <3>17, <4>2, FactsAfter DEF StoreDraft, Exists, RowsVisible,
             FactNames
        <5> QED
          BY <3>17, <5>1, NeedsOf DEF StoreDraft
      <4> QED
        BY <4>1, <4>2
    <3>18. ASSUME NEW n \in 0..MaxWords, Parse(r, [i \in 1..n |-> i]), OnlyAgents
           PROVE  Caused(r)'
      BY <3>18 DEF Parse
    <3>19. CASE GetEmbeddings(r) /\ OnlyAgents
      <4>1. CASE pc'[r] = "refused"
        <5>1. "ollama" \notin local
          BY <3>19, <4>1, ProviderAssumption DEF GetEmbeddings, Picks,
             Providers, ChatModel, Embedder
        <5>2. "ollama" \in missed'[r]
          BY <3>19, <4>1, <5>1, FactsAfter DEF GetEmbeddings, Picks, FactNames
        <5>3. req'[r].kind \in AgentKinds
          BY <3>19 DEF GetEmbeddings, OnItsPath, AgentKinds
        <5> QED
          BY <5>2, <5>3
      <4>2. CASE pc'[r] # "refused"
        BY <4>2
      <4> QED
        BY <4>1, <4>2
    <3>20. CASE AddTexts(r) /\ OnlyAgents
      <4>1. CASE Gone(r)
        <5>1. "ollama" \in missed'[r]
          BY <3>20, <4>1, FactsAfter DEF AddTexts, Gone, FactNames, agentVars
        <5>2. req'[r].kind \in AgentKinds
          BY <3>20 DEF AddTexts, OnItsPath, AgentKinds
        <5> QED
          BY <5>1, <5>2
      <4>2. CASE ~Gone(r)
        BY <3>20, <4>2 DEF AddTexts
      <4> QED
        BY <4>1, <4>2
    <3>21. CASE End(r)
      BY <3>21 DEF End, Leave, Dies, Free, IngestForgets, AgentForgets
    <3>22. ASSUME NEW q \in Request, Begin(r, q) PROVE Caused(r)'
      BY <3>22 DEF Begin, Arrive
    <3> QED
      BY <1>3, <3>1, <3>2, <3>3, <3>4, <3>5, <3>6, <3>7, <3>8, <3>9, <3>10,
         <3>11, <3>12, <3>13, <3>14, <3>15, <3>16, <3>17, <3>18, <3>19, <3>20,
         <3>21, <3>22, <3>e
      DEF Moves, RequestStep, PathStep, IngestStep, AgentStep
  <2> QED
    BY <2>1, <2>2
<1> QED
  BY <1>1, <1>2, <1>3 DEF Next, Moves

\* Only create_tenant makes a tenant, and its audit row with it.
LEMMA FoundedStep ==
  AccessTypes /\ (\A r \in Requests : OnItsPath(r)) /\ FoundedOnce /\ [Next]_vars => FoundedOnce'
<1> SUFFICES ASSUME AccessTypes, \A r \in Requests : OnItsPath(r), FoundedOnce, [Next]_vars
             PROVE  FoundedOnce'
  OBVIOUS
<1>1. CASE UNCHANGED <<tenant, users, founders>>
  BY <1>1 DEF FoundedOnce
<1>2. ASSUME NEW r \in Requests, Found(r) PROVE FoundedOnce'
  <2>1. CASE SlugFree(r)
    <3> DEFINE a == req[r].slug  u == req[r].user
    <3>1. a \in Slugs /\ u \in users /\ tenant[a] = "absent"
      BY <1>2, <2>1, HasTenant DEF Found, SlugFree, Insertable, OnItsPath, MemberKinds
    <3>2. founders[a] = <<>>
      BY <3>1 DEF FoundedOnce
    <3>3. founders' = [founders EXCEPT ![a] = <<u>>]
      BY <1>2, <2>1, <3>2 DEF Found
    <3>4. tenant' = [tenant EXCEPT ![a] = "active"] /\ users' = users
      BY <1>2, <2>1 DEF Found
    <3> HIDE DEF a, u
    <3>5. ASSUME NEW s \in Slugs
          PROVE  IF tenant'[s] = "absent" THEN founders'[s] = <<>>
                 ELSE \E x \in users' : founders'[s] = <<x>>
      <4>1. CASE s = a
        <5>1. tenant'[s] = "active" /\ founders'[s] = <<u>>
          BY <3>1, <3>3, <3>4, <4>1 DEF AccessTypes
        <5> QED
          BY <3>1, <3>4, <5>1
      <4>2. CASE s # a
        BY <3>3, <3>4, <4>2 DEF AccessTypes, FoundedOnce
      <4> QED
        BY <4>1, <4>2
    <3> QED
      BY <3>5 DEF FoundedOnce
  <2>2. CASE ~SlugFree(r)
    BY <1>1, <1>2, <2>2 DEF Found
  <2> QED
    BY <2>1, <2>2
<1>3. ASSUME NEW s \in Slugs, NEW stage \in {"active", "suspended"}, SetActive(s, stage)
      PROVE  FoundedOnce'
  BY <1>3 DEF SetActive, FoundedOnce, AccessTypes
<1>4. ASSUME NEW u \in Users, DeleteUser(u) PROVE FoundedOnce'
  <2>1. founders' = founders /\ tenant' = tenant /\ users' = users \ {u}
    BY <1>4, FoundersStay DEF DeleteUser, AccessTypes
  <2>2. \A s \in Slugs, x \in users : founders[s] = <<x>> => x # u
    <3> SUFFICES ASSUME NEW s \in Slugs, NEW x \in users, founders[s] = <<x>> PROVE x # u
      OBVIOUS
    <3>1. DOMAIN <<x>> = {1} /\ <<x>>[1] = x
      OBVIOUS
    <3> QED
      BY <1>4, <3>1 DEF DeleteUser, Deletable
  <2> QED
    BY <2>1, <2>2 DEF FoundedOnce
<1>5. ASSUME NEW s \in Slugs, NEW u \in Users, NEW new \in Roles \union {None},
             SetRole(s, u, new)
      PROVE  FoundedOnce'
  BY <1>1, <1>5 DEF SetRole
<1>6. ASSUME NEW s \in Slugs, NEW new \in Secrets \union {None}, RotateSecret(s, new)
      PROVE  FoundedOnce'
  BY <1>1, <1>6 DEF RotateSecret
<1>7. ASSUME NEW p \in {"ollama", "huggingface"}, ProviderChanges(p)
      PROVE  FoundedOnce'
  BY <1>1, <1>7 DEF ProviderChanges, tenantVars
<1>8. ASSUME NEW r \in Requests, Resolve(r) \/ Permit(r) \/ CheckSlug(r)
      PROVE  FoundedOnce'
  BY <1>1, <1>8 DEF Resolve, Permit, CheckSlug, tenantVars
<1>9. ASSUME NEW r \in Requests, IngestStep(r) \/ AgentStep(r)
      PROVE  FoundedOnce'
  BY <1>1, <1>9 DEF IngestStep, AgentStep, tenantVars
<1>10. ASSUME NEW r \in Requests, End(r) \/ \E q \in Request : Begin(r, q)
       PROVE  FoundedOnce'
  BY <1>1, <1>10 DEF End, Leave, Dies, Begin, Arrive, tenantVars
<1>11. CASE UNCHANGED vars
  BY <1>1, <1>11 DEF vars, accessVars, tenantVars
<1> QED
  BY <1>2, <1>3, <1>4, <1>5, <1>6, <1>7, <1>8, <1>9, <1>10, <1>11
  DEF Next, RequestStep, PathStep, Outside, OperatorStep

\* A request that does nothing stays guarded.
LEMMA StaysGuarded ==
  ASSUME Watch, NEW o \in Requests, Guarded(o), pc'[o] = pc[o], req'[o] = req[o],
         text'[o] = text[o], model'[o] = model[o]
  PROVE  Guarded(o)'
<1>1. pc[o] # "idle" => missed[o] \subseteq missed'[o]
  BY Watched
<1> QED
  BY <1>1 DEF Guarded

\* The guards of the e-mail agent are passed on every way, and a paid model
\* is picked only when the local one is down.
LEMMA GuardedStep ==
  TypedPath /\ (\A r \in Requests : Guarded(r)) /\ [Next]_vars => \A r \in Requests : Guarded(r)'
<1> SUFFICES ASSUME TypedPath /\ (\A r \in Requests : Guarded(r)), [Next]_vars
             PROVE  \A x \in Requests : Guarded(x)'
  OBVIOUS
<1> USE DEF TypedPath
<1>1. CASE UNCHANGED vars
  BY <1>1 DEF vars, accessVars, agentVars, pathVars, Guarded
<1>2. CASE Outside /\ Watch
  BY <1>2, OutsideLeaves, StaysGuarded
<1>3. ASSUME NEW r \in Requests, Moves(r), Watch
      PROVE  \A x \in Requests : Guarded(x)'
  <2>1. \A o \in Requests \ {r} : Guarded(o)'
    BY <1>3, Alone, StaysGuarded
  <2> DEFINE Kept == missed[r] \subseteq missed'[r] /\ FactNames \ Facts(r)' \subseteq missed'[r]
  <2>3. pc[r] # "idle" /\ pc'[r] # "idle" => Kept
    BY <1>3, Watched
  <2> USE <2>3, NoneAssumption, NoRequestAssumption, ProviderAssumption
      DEF AccessTypes, AgentTypes, Fresh, OnItsPath, Guarded, Goto, Refuse,
          Invalid, agentVars
  <2>2. Guarded(r)'
    <3>1. CASE Resolve(r) /\ OnlyAccess
      BY <3>1 DEF Resolve
    <3>2. CASE Permit(r) /\ OnlyAccess
      BY <3>2 DEF Permit
    <3>3. CASE CheckSlug(r) /\ OnlyAccess
      BY <3>3 DEF CheckSlug
    <3>4. CASE Found(r) /\ OnlyAccess
      BY <3>4 DEF Found
    <3>5. CASE SubmitForm(r) /\ OnlyIngest
      BY <3>5 DEF SubmitForm
    <3>6. CASE UploadRow(r) /\ OnlyIngest
      BY <3>6 DEF UploadRow
    <3>7. CASE UploadFails(r) /\ OnlyIngest
      BY <3>7 DEF UploadFails
    <3>e. CASE UploadEmpty(r) /\ OnlyIngest
      BY <3>e DEF UploadEmpty
    <3>8. CASE LookUp(r) /\ OnlyIngest
      BY <3>8 DEF LookUp
    <3>9. CASE IngestWebhook(r) /\ OnlyIngest
      BY <3>9 DEF IngestWebhook
    <3>10. CASE IngestLlmCall(r) /\ OnlyIngest
      BY <3>10 DEF IngestLlmCall
    <3>11. CASE Receipt(r) /\ OnlyIngest
      BY <3>11 DEF Receipt, RowKinds
    <3>12. ASSUME NEW raw \in SUBSET Features, Guard(r, raw), OnlyAgents
           PROVE  Guarded(r)'
      BY <3>12 DEF Guard, Redacted
    <3>13. CASE Extract(r) /\ OnlyAgents
      <4>1. CASE text[r] \intersect Reasons # {}
        BY <3>13, <4>1 DEF Extract
      <4>2. CASE text[r] \intersect Reasons = {}
        <5>1. ToldNothing(text[r])
          BY <3>13, <4>2 DEF Extract, ToldNothing
        <5>2. model' = [model EXCEPT ![r] = ChatModel] /\ local' = local /\ text' = text
          BY <3>13, <4>2 DEF Extract, Picks
        <5>3. model'[r] = "openai" => OpenAiEnabled /\ "ollama" \notin local
          BY <5>2 DEF ChatModel, Providers
        <5>4. "ollama" \notin local => "ollama" \in FactNames \ Facts(r)'
          BY <3>13, <5>2, FactsAfter DEF FactNames
        <5> QED
          BY <3>13, <4>2, <5>1, <5>2, <5>3, <5>4 DEF Extract, Picks
      <4> QED
        BY <4>1, <4>2
    <3>14. CASE Prompt(r) /\ OnlyAgents
      <4>1. model' = [model EXCEPT ![r] = ChatModel] =>
              (model'[r] = "openai" => OpenAiEnabled /\ "ollama" \notin local)
        BY ProviderAssumption DEF ChatModel, Providers
      <4>2. local' = local => ("ollama" \notin local => "ollama" \notin Facts(r)')
        BY <3>14, FactsAfter
      <4>3. "ollama" \in FactNames
        BY DEF FactNames
      <4> QED
        BY <3>14, <4>1, <4>2, <4>3 DEF Prompt, Picks
    <3>15. ASSUME NEW reply \in SUBSET PersonalData, Invoke(r, reply), OnlyAgents
           PROVE  Guarded(r)'
      BY <3>15 DEF Invoke
    <3>16. CASE CheckOutput(r) /\ OnlyAgents
      BY <3>16 DEF CheckOutput, Redacted
    <3>17. CASE StoreDraft(r) /\ OnlyAgents
      BY <3>17 DEF StoreDraft
    <3>18. ASSUME NEW n \in 0..MaxWords, Parse(r, [i \in 1..n |-> i]), OnlyAgents
           PROVE  Guarded(r)'
      BY <3>18 DEF Parse
    <3>19. CASE GetEmbeddings(r) /\ OnlyAgents
      <4>1. model' = [model EXCEPT ![r] = Embedder] =>
              (model'[r] = "openai" => OpenAiEnabled /\ "ollama" \notin local)
        BY ProviderAssumption DEF ChatModel, Providers, Embedder
      <4>2. local' = local => ("ollama" \notin local => "ollama" \notin Facts(r)')
        BY <3>19, FactsAfter
      <4>3. "ollama" \in FactNames
        BY DEF FactNames
      <4> QED
        BY <3>19, <4>1, <4>2, <4>3 DEF GetEmbeddings, Picks
    <3>20. CASE AddTexts(r) /\ OnlyAgents
      BY <3>20 DEF AddTexts
    <3>21. CASE End(r)
      BY <3>21 DEF End, Leave, Dies, Free, IngestForgets, AgentForgets
    <3>22. ASSUME NEW q \in Request, Begin(r, q) PROVE Guarded(r)'
      <4>1. model'[r] # "openai"
        BY <3>22 DEF Begin, Arrive, Providers
      <4>2. pc'[r] = "arrived"
        BY <3>22 DEF Begin, Arrive
      <4> QED
        BY <4>1, <4>2
    <3> QED
      BY <1>3, <3>1, <3>2, <3>3, <3>4, <3>5, <3>6, <3>7, <3>8, <3>9, <3>10,
         <3>11, <3>12, <3>13, <3>14, <3>15, <3>16, <3>17, <3>18, <3>19, <3>20,
         <3>21, <3>22, <3>e
      DEF Moves, RequestStep, PathStep, IngestStep, AgentStep
  <2> QED
    BY <2>1, <2>2
<1> QED
  BY <1>1, <1>2, <1>3 DEF Next, Moves

\* Models are shown by the e-mail agent what the guard let through.
LEMMA ShownStep == TypedPath /\ (\A r \in Requests : Guarded(r)) /\ Shown /\ [Next]_vars => Shown'
<1> SUFFICES ASSUME TypedPath, \A r \in Requests : Guarded(r), Shown, [Next]_vars
             PROVE  Shown'
  OBVIOUS
<1>1. CASE UNCHANGED shown
  BY <1>1 DEF Shown
<1>2. ASSUME NEW r \in Requests, NEW reply \in SUBSET PersonalData, Invoke(r, reply)
      PROVE  Shown'
  <2>1. shown' = shown \/ (shown' = shown \union {[by |-> model[r], text |-> text[r]]}
                           /\ req[r].kind = "email" /\ pc[r] = "prompting")
    BY <1>2 DEF Invoke
  <2>2. req[r].kind = "email" /\ pc[r] = "prompting" => ToldNothing(text[r])
    BY DEF Guarded
  <2> QED
    BY <2>1, <2>2 DEF Shown
<1>3. ASSUME NEW r \in Requests, (PathStep(r) \/ IngestStep(r)) /\ UNCHANGED agentVars
      PROVE  Shown'
  BY <1>1, <1>3 DEF agentVars
<1>4. ASSUME NEW r \in Requests, AgentStep(r), \A reply \in SUBSET PersonalData : ~Invoke(r, reply)
      PROVE  Shown'
  BY <1>1, <1>4 DEF AgentStep, Guard, Extract, Prompt, CheckOutput, StoreDraft,
     Parse,
                    GetEmbeddings, AddTexts, Picks, agentVars
<1>5. ASSUME NEW r \in Requests, End(r) \/ \E q \in Request : Begin(r, q)
      PROVE  Shown'
  BY <1>1, <1>5 DEF End, Begin, AgentForgets, agentVars
<1>6. CASE Outside
  BY <1>1, <1>6, OutsideLeaves
<1>7. CASE UNCHANGED vars
  BY <1>1, <1>7 DEF vars, agentVars
<1> QED
  BY <1>2, <1>3, <1>4, <1>5, <1>6, <1>7 DEF Next, RequestStep

\* Every document in memory or in the store is cut by chunk_text.
LEMMA DocsStep == TypedPath /\ DocsAreChunked /\ [Next]_vars => DocsAreChunked'
<1> SUFFICES ASSUME TypedPath, DocsAreChunked, [Next]_vars PROVE DocsAreChunked'
  OBVIOUS
<1> USE DEF TypedPath, AgentTypes
<1>1. CASE UNCHANGED <<doc, stored>>
  BY <1>1 DEF DocsAreChunked, ChunkedText
<1>2. ASSUME NEW r \in Requests, NEW n \in 0..MaxWords, Parse(r, [i \in 1..n |-> i])
      PROVE  DocsAreChunked'
  <2> DEFINE words == [i \in 1..n |-> i]
             d == [words |-> words, chunks |-> ChunkText(words)]
  <2>1. stored' = stored /\ (doc' = doc \/ doc' = [doc EXCEPT ![r] = d])
    BY <1>2 DEF Parse
  <2>2. ChunkedText(d)
    BY DEF ChunkedText
  <2> HIDE DEF d
  <2> QED
    BY <2>1, <2>2 DEF DocsAreChunked, ChunkedText
<1>3. ASSUME NEW r \in Requests, AddTexts(r) PROVE DocsAreChunked'
  BY <1>3 DEF AddTexts, DocsAreChunked, ChunkedText
<1>4. ASSUME NEW r \in Requests, End(r) PROVE DocsAreChunked'
  <2>1. ChunkedText(NoDoc)
    BY DEF ChunkedText, NoDoc, ChunkText
  <2>2. stored' = stored /\ doc' = [doc EXCEPT ![r] = NoDoc]
    BY <1>4 DEF End, AgentForgets
  <2> QED
    BY <2>1, <2>2 DEF DocsAreChunked, ChunkedText
<1>5. ASSUME NEW r \in Requests, (PathStep(r) \/ IngestStep(r)) /\ UNCHANGED agentVars
      PROVE  DocsAreChunked'
  BY <1>1, <1>5 DEF agentVars
<1>6. ASSUME NEW r \in Requests, AgentStep(r), ~AddTexts(r),
             \A n \in 0..MaxWords : ~Parse(r, [i \in 1..n |-> i])
      PROVE  DocsAreChunked'
  BY <1>1, <1>6 DEF AgentStep, Guard, Extract, Prompt, Invoke, CheckOutput,
     StoreDraft,
                    GetEmbeddings, Picks, agentVars
<1>7. ASSUME NEW r \in Requests, \E q \in Request : Begin(r, q)
      PROVE  DocsAreChunked'
  BY <1>1, <1>7 DEF Begin, agentVars
<1>8. CASE Outside
  BY <1>1, <1>8, OutsideLeaves
<1>9. CASE UNCHANGED vars
  BY <1>1, <1>9 DEF vars, agentVars
<1> QED
  BY <1>2, <1>3, <1>4, <1>5, <1>6, <1>7, <1>8, <1>9 DEF Next, RequestStep

\* Two sets that differ in one element at most.
LEMMA DifferInOne ==
  ASSUME NEW S, NEW T, NEW x, IsFiniteSet(S), T \ {x} = S \ {x}
  PROVE  /\ IsFiniteSet(T) /\ Cardinality(S) \in Nat /\ Cardinality(T) \in Nat
         /\ x \in S /\ x \in T => Cardinality(T) = Cardinality(S)
         /\ x \in S /\ x \notin T => Cardinality(T) = Cardinality(S) - 1
         /\ x \notin S /\ x \in T => Cardinality(T) = Cardinality(S) + 1
         /\ x \notin S /\ x \notin T => Cardinality(T) = Cardinality(S)
<1> DEFINE R == S \ {x}
<1>1. /\ IsFiniteSet(R) /\ Cardinality(S) \in Nat /\ Cardinality(R) \in Nat
      /\ Cardinality(R) = IF x \in S THEN Cardinality(S) - 1 ELSE Cardinality(S)
  BY FS_RemoveElement, FS_CardinalityType
<1>2. T = IF x \in T THEN R \union {x} ELSE R
  OBVIOUS
<1>3. x \notin R
  OBVIOUS
<1> HIDE DEF R
<1>4. /\ IsFiniteSet(R \union {x})
      /\ Cardinality(R \union {x}) = Cardinality(R) + 1
  BY <1>1, <1>3, FS_AddElement
<1>5. CASE x \in T
  <2>1. T = R \union {x}
    BY <1>2, <1>5
  <2> QED
    BY <1>1, <1>4, <1>5, <2>1
<1>6. CASE x \notin T
  BY <1>1, <1>2, <1>6
<1> QED
  BY <1>5, <1>6

\* The requests counted are finitely many.
LEMMA FiniteCounts ==
  ASSUME IsFiniteSet(Busy)
  PROVE  /\ \A s, k : IsFiniteSet(Waiting(s, k)) /\ Cardinality(Waiting(s, k)) \in Nat
         /\ \A s, i : IsFiniteSet(Uploading(s, i)) /\ Cardinality(Uploading(s, i)) \in Nat
<1>1. \A s, k : Waiting(s, k) \in SUBSET Busy
  BY DEF Waiting, Busy
<1>2. \A s, i : Uploading(s, i) \in SUBSET Busy
  BY DEF Uploading, Busy
<1> QED
  BY <1>1, <1>2, FS_Subset, FS_CardinalityType

\* Rows, receipts and the requests between them, after a step of one request.
LEMMA CountedMove ==
  ASSUME TypedPath, Counted, NEW r \in Requests, Moves(r), TypedPath' PROVE Counted'
<1> USE DEF TypedPath
<1>1. /\ Busy' \ {r} = Busy \ {r}
      /\ \A s, k : Waiting(s, k)' \ {r} = Waiting(s, k) \ {r}
      /\ \A s, i : Uploading(s, i)' \ {r} = Uploading(s, i) \ {r}
  BY Alone DEF Busy, Waiting, Uploading
<1>2. IsFiniteSet(Busy) /\ IsFiniteSet(Busy')
  BY <1>1, DifferInOne DEF Counted
<1> DEFINE W(s, k) == Cardinality(Waiting(s, k))
           U(s, i) == Cardinality(Uploading(s, i))
<1>3. \A s, k : /\ W(s, k) \in Nat /\ W(s, k)' \in Nat
                /\ (r \in Waiting(s, k)' => r \in Waiting(s, k)) => W(s, k)' <= W(s, k)
                /\ r \in Waiting(s, k)' => W(s, k)' <= W(s, k) + 1
                /\ r \in Waiting(s, k) /\ r \notin Waiting(s, k)' => W(s, k)' = W(s, k) - 1
  BY <1>1, <1>2, FiniteCounts, DifferInOne
<1>4. \A s, i : /\ U(s, i) \in Nat /\ U(s, i)' \in Nat
                /\ (r \in Uploading(s, i)' => r \in Uploading(s, i)) => U(s, i)' <= U(s, i)
                /\ r \in Uploading(s, i)' => U(s, i)' <= U(s, i) + 1
                /\ r \in Uploading(s, i) /\ r \notin Uploading(s, i)' => U(s, i)' = U(s, i) - 1
  BY <1>1, <1>2, FiniteCounts, DifferInOne
<1> HIDE DEF W, U
<1>5. /\ \A s \in Slugs, k \in RowKinds : receipts[s][k] + W(s, k) <= records[s][k]
      /\ \A s \in Slugs : receipts[s]["csv"] + W(s, "csv") <= uploaded[s][FileRows]
      /\ \A s \in Slugs, i \in 1..(FileRows - 1) :
           uploaded[s][i] >= uploaded[s][i + 1] + U(s, i)
  BY DEF Counted, W, U
<1> DEFINE Goal == /\ \A s \in Slugs, k \in RowKinds : receipts'[s][k] + W(s, k)' <= records'[s][k]
                   /\ \A s \in Slugs : receipts'[s]["csv"] + W(s, "csv")' <= uploaded'[s][FileRows]
                   /\ \A s \in Slugs, i \in 1..(FileRows - 1) :
                        uploaded'[s][i] >= uploaded'[s][i + 1] + U(s, i)'
<1>6. SUFFICES Goal
  BY <1>2 DEF Counted, W, U
<1>7. \A s \in Slugs, k \in RowKinds :
        /\ receipts[s][k] \in Nat /\ receipts'[s][k] \in Nat
        /\ records[s][k] \in Nat /\ records'[s][k] \in Nat
  <2>1. RowKinds \subseteq Kinds
    BY DEF RowKinds, Kinds, MemberKinds, WebhookKinds, ServiceKinds, AgentKinds
  <2> QED
    BY <2>1 DEF IngestTypes
<1>8. \A s \in Slugs : receipts[s]["csv"] \in Nat /\ receipts'[s]["csv"] \in Nat
  BY DEF IngestTypes, Kinds, MemberKinds
<1>9. \A s \in Slugs, i \in 1..FileRows : uploaded[s][i] \in Nat /\ uploaded'[s][i] \in Nat
  BY DEF IngestTypes
<1>10. FileRows \in 1..FileRows /\ \A i \in 1..(FileRows - 1) : {i, i + 1} \subseteq 1..FileRows
  BY FileRowsAssumption
\* Nothing is counted, and the request waits and uploads no more than before.
<1>q. ASSUME UNCHANGED <<records, uploaded, receipts>>,
             \A s, k : r \in Waiting(s, k)' => r \in Waiting(s, k),
             \A s, i : i # 0 /\ r \in Uploading(s, i)' => r \in Uploading(s, i)
      PROVE  Goal
  <2>1. \A s, k : W(s, k)' <= W(s, k)
    BY <1>3, <1>q
  <2>2. \A s : \A i \in 1..(FileRows - 1) : U(s, i)' <= U(s, i)
    BY <1>4, <1>q
  <2>3. \A s \in Slugs, k \in RowKinds : receipts'[s][k] + W(s, k)' <= records'[s][k]
    BY <1>3, <1>5, <1>7, <1>q, <2>1
  <2>4. \A s \in Slugs : receipts'[s]["csv"] + W(s, "csv")' <= uploaded'[s][FileRows]
    BY <1>3, <1>5, <1>8, <1>9, <1>10, <1>q, <2>1
  <2>5. \A s \in Slugs, i \in 1..(FileRows - 1) :
          uploaded'[s][i] >= uploaded'[s][i + 1] + U(s, i)'
    BY <1>4, <1>5, <1>9, <1>10, <1>q, <2>2
  <2> QED
    BY <2>3, <2>4, <2>5
\* Most steps: the request does not come to wait, and uploads as it did.
<1>11. ASSUME UNCHANGED <<records, uploaded, receipts>>, pc'[r] # "stored",
              taken'[r] = 0 \/ (pc[r] # "idle" /\ req'[r] = req[r] /\ taken'[r] = taken[r])
       PROVE  Goal
  <2>1. \A s, k : r \notin Waiting(s, k)'
    BY <1>11 DEF Waiting
  <2>2. \A s, i : i # 0 /\ r \in Uploading(s, i)' => r \in Uploading(s, i)
    BY <1>11 DEF Uploading
  <2> QED
    BY <1>11, <2>1, <2>2, <1>q
\* A row is stored, and its receipt waited for.
<1>12. ASSUME NEW kind \in RowKinds, Stage(r, kind), pc'[r] = "stored", pc[r] # "idle",
              req[r].slug \in Slugs, req[r].kind = kind, req'[r] = req[r],
              UNCHANGED <<uploaded, receipts>>,
              taken'[r] = taken[r]
       PROVE  Goal
  <2>1. \A s \in Slugs, k \in RowKinds :
          records'[s][k] = IF s = req[r].slug /\ k = kind THEN records[s][k] + 1
                           ELSE records[s][k]
    BY <1>12, Staged
  <2>2. \A s, k : r \in Waiting(s, k)' => s = req[r].slug /\ k = kind
    BY <1>12 DEF Waiting
  <2>3. \A s, i : r \in Uploading(s, i)' => r \in Uploading(s, i)
    BY <1>12 DEF Uploading
  <2>4. ASSUME NEW s \in Slugs, NEW k \in RowKinds
        PROVE  receipts'[s][k] + W(s, k)' <= records'[s][k]
    <3>1. CASE s = req[r].slug /\ k = kind
      <4>1. records'[s][k] = records[s][k] + 1 /\ receipts'[s][k] = receipts[s][k]
        BY <1>12, <2>1, <3>1
      <4>2. W(s, k)' <= W(s, k) + 1 /\ W(s, k) \in Nat /\ W(s, k)' \in Nat
        BY <1>3
      <4> QED
        BY <1>5, <1>7, <4>1, <4>2
    <3>2. CASE ~(s = req[r].slug /\ k = kind)
      <4>1. records'[s][k] = records[s][k] /\ receipts'[s][k] = receipts[s][k]
        BY <1>12, <2>1, <3>2
      <4>2. W(s, k)' <= W(s, k) /\ W(s, k) \in Nat /\ W(s, k)' \in Nat
        BY <1>3, <2>2, <3>2
      <4> QED
        BY <1>5, <1>7, <4>1, <4>2
    <3> QED
      BY <3>1, <3>2
  <2>5. ASSUME NEW s \in Slugs
        PROVE  receipts'[s]["csv"] + W(s, "csv")' <= uploaded'[s][FileRows]
    <3>1. "csv" # kind
      BY DEF RowKinds
    <3>2. W(s, "csv")' <= W(s, "csv") /\ W(s, "csv") \in Nat /\ W(s, "csv")' \in Nat
      BY <1>3, <2>2, <3>1
    <3> QED
      BY <1>5, <1>8, <1>9, <1>10, <1>12, <3>2
  <2>6. ASSUME NEW s \in Slugs, NEW i \in 1..(FileRows - 1)
        PROVE  uploaded'[s][i] >= uploaded'[s][i + 1] + U(s, i)'
    <3>1. U(s, i)' <= U(s, i) /\ U(s, i) \in Nat /\ U(s, i)' \in Nat
      BY <1>4, <2>3
    <3> QED
      BY <1>5, <1>9, <1>10, <1>12, <3>1
  <2> QED
    BY <2>4, <2>5, <2>6
<1> HIDE DEF Goal
<1> USE DEF AccessTypes, IngestTypes, Goto, Refuse, Invalid
<1>13. CASE Receipt(r) /\ OnlyIngest
  <2> DEFINE a == req[r].slug  kind == req[r].kind
  <2>1. a \in Slugs /\ kind \in Kinds /\ kind \in RowKinds \union {"csv"}
    BY <1>13, InProgress, HasTenant DEF Receipt, OnItsPath
  <2>2. UNCHANGED <<records, uploaded, taken, req>> /\ pc[r] = "stored" /\ pc'[r] = "answered"
    BY <1>13 DEF Receipt
  <2>3. \A s \in Slugs, k \in Kinds :
          receipts'[s][k] = IF s = a /\ k = kind THEN receipts[s][k] + 1 ELSE receipts[s][k]
    BY <1>13, <2>1, Answered
  <2>4. \A s, k : r \notin Waiting(s, k)' /\ (s = a /\ k = kind => r \in Waiting(s, k))
    BY <2>2 DEF Waiting
  <2>5. \A s, i : r \in Uploading(s, i)' => r \in Uploading(s, i)
    BY <2>2 DEF Uploading
  <2>6. \A s \in Slugs, k \in Kinds : receipts'[s][k] + W(s, k)' <= receipts[s][k] + W(s, k)
    <3> SUFFICES ASSUME NEW s \in Slugs, NEW k \in Kinds
                 PROVE  receipts'[s][k] + W(s, k)' <= receipts[s][k] + W(s, k)
      OBVIOUS
    <3>1. receipts[s][k] \in Nat /\ W(s, k) \in Nat /\ W(s, k)' \in Nat
      BY <1>3
    <3>2. CASE s = a /\ k = kind
      <4>1. W(s, k)' = W(s, k) - 1
        BY <1>3, <2>4, <3>2
      <4> QED
        BY <2>3, <3>1, <3>2, <4>1
    <3>3. CASE ~(s = a /\ k = kind)
      <4>1. W(s, k)' <= W(s, k)
        BY <1>3, <2>4
      <4>2. receipts'[s][k] = receipts[s][k]
        BY <2>3, <3>3
      <4> QED
        BY <3>1, <4>1, <4>2
    <3> QED
      BY <3>2, <3>3
  <2>7. RowKinds \subseteq Kinds /\ "csv" \in Kinds
    BY DEF RowKinds, Kinds, MemberKinds, WebhookKinds, ServiceKinds, AgentKinds
  <2>8. ASSUME NEW s \in Slugs, NEW k \in RowKinds
        PROVE  receipts'[s][k] + W(s, k)' <= records'[s][k]
    <3>1. receipts'[s][k] + W(s, k)' <= receipts[s][k] + W(s, k)
      BY <2>6, <2>7
    <3>2. receipts[s][k] + W(s, k) <= records[s][k] /\ records'[s][k] = records[s][k]
      BY <1>5, <2>2
    <3> QED
      BY <1>3, <1>7, <3>1, <3>2
  <2>9. ASSUME NEW s \in Slugs
        PROVE  receipts'[s]["csv"] + W(s, "csv")' <= uploaded'[s][FileRows]
    <3>1. receipts'[s]["csv"] + W(s, "csv")' <= receipts[s]["csv"] + W(s, "csv")
      BY <2>6, <2>7
    <3>2. /\ receipts[s]["csv"] + W(s, "csv") <= uploaded[s][FileRows]
          /\ uploaded'[s][FileRows] = uploaded[s][FileRows]
      BY <1>5, <2>2
    <3> QED
      BY <1>3, <1>8, <1>9, <1>10, <3>1, <3>2
  <2>10. ASSUME NEW s \in Slugs, NEW i \in 1..(FileRows - 1)
         PROVE  uploaded'[s][i] >= uploaded'[s][i + 1] + U(s, i)'
    <3>1. U(s, i)' <= U(s, i) /\ U(s, i) \in Nat /\ U(s, i)' \in Nat
      BY <1>4, <2>5
    <3>2. uploaded'[s][i] = uploaded[s][i] /\ uploaded'[s][i + 1] = uploaded[s][i + 1]
      BY <2>2
    <3> QED
      BY <1>5, <1>9, <1>10, <3>1, <3>2
  <2> QED
    BY <2>8, <2>9, <2>10 DEF Goal
<1>14. CASE UploadRow(r) /\ OnlyIngest
  <2> DEFINE a == req[r].slug  j == taken[r] + 1
  <2>1. a \in Slugs /\ req[r].kind = "csv" /\ pc[r] = "permitted"
    BY <1>14, HasTenant DEF UploadRow
  <2>2. taken[r] \in 0..FileRows /\ taken[r] < FileRows
    BY <2>1 DEF OnItsPath
  <2>3. j \in 1..FileRows
    BY <2>2, FileRowsAssumption
  <2>4. UNCHANGED <<records, receipts, req>> /\ taken'[r] = j
        /\ pc'[r] = IF j = FileRows THEN "stored" ELSE "permitted"
    BY <1>14 DEF UploadRow, EndOfFile
  <2>5. \A s \in Slugs, i \in 1..FileRows :
          uploaded'[s][i] = IF s = a /\ i = j THEN uploaded[s][i] + 1 ELSE uploaded[s][i]
    BY <1>14, <2>1, <2>3, OneMoreRow
  <2>6. \A s, k : r \notin Waiting(s, k) /\ (r \in Waiting(s, k)' => s = a /\ k = "csv" /\ j = FileRows)
    BY <2>1, <2>4 DEF Waiting
  <2>7. \A s, i : /\ r \in Uploading(s, i) <=> s = a /\ i = j - 1
                  /\ r \in Uploading(s, i)' <=> s = a /\ i = j
    <3>1. j - 1 = taken[r]
      BY <2>2
    <3>2. pc[r] # "idle" /\ pc'[r] # "idle" /\ req'[r] = req[r] /\ taken'[r] = j
      BY <2>1, <2>4
    <3> HIDE DEF j
    <3> QED
      BY <3>1, <3>2 DEF Uploading
  <2> HIDE DEF a, j
  <2>8. ASSUME NEW s \in Slugs, NEW k \in RowKinds
        PROVE  receipts'[s][k] + W(s, k)' <= records'[s][k]
    <3>1. k # "csv"
      BY DEF RowKinds
    <3>2. W(s, k)' <= W(s, k) /\ W(s, k) \in Nat /\ W(s, k)' \in Nat
      BY <1>3, <2>6, <3>1
    <3>3. receipts'[s][k] = receipts[s][k] /\ records'[s][k] = records[s][k]
      BY <2>4
    <3> QED
      BY <1>5, <1>7, <3>2, <3>3
  <2>9. ASSUME NEW s \in Slugs
        PROVE  receipts'[s]["csv"] + W(s, "csv")' <= uploaded'[s][FileRows]
    <3>1. receipts'[s]["csv"] = receipts[s]["csv"] /\ W(s, "csv") \in Nat /\ W(s, "csv")' \in Nat
      BY <1>3, <2>4
    <3>2. CASE s = a /\ j = FileRows
      <4>1. W(s, "csv")' <= W(s, "csv") + 1
        BY <1>3
      <4>2. uploaded'[s][FileRows] = uploaded[s][FileRows] + 1
        BY <1>10, <2>5, <3>2
      <4> QED
        BY <1>5, <1>8, <1>9, <1>10, <3>1, <4>1, <4>2
    <3>3. CASE ~(s = a /\ j = FileRows)
      <4>1. W(s, "csv")' <= W(s, "csv")
        BY <1>3, <2>6, <3>3
      <4>2. uploaded'[s][FileRows] = uploaded[s][FileRows]
        BY <1>10, <2>5, <3>3
      <4> QED
        BY <1>5, <1>8, <1>9, <1>10, <3>1, <4>1, <4>2
    <3> QED
      BY <3>2, <3>3
  <2>10. ASSUME NEW s \in Slugs, NEW i \in 1..(FileRows - 1)
         PROVE  uploaded'[s][i] >= uploaded'[s][i + 1] + U(s, i)'
    <3>1. /\ i \in 1..FileRows /\ i + 1 \in 1..FileRows
          /\ U(s, i) \in Nat /\ U(s, i)' \in Nat
          /\ uploaded[s][i] \in Nat /\ uploaded[s][i + 1] \in Nat
          /\ uploaded[s][i] >= uploaded[s][i + 1] + U(s, i)
      BY <1>4, <1>5, <1>9, <1>10
    <3>2. CASE s = a /\ i = j
      <4>1. uploaded'[s][i] = uploaded[s][i] + 1 /\ uploaded'[s][i + 1] = uploaded[s][i + 1]
        BY <2>3, <2>5, <3>1, <3>2
      <4>2. U(s, i)' <= U(s, i) + 1
        BY <1>4, <2>7, <3>2
      <4> QED
        BY <3>1, <4>1, <4>2
    <3>3. CASE s = a /\ i + 1 = j
      <4>1. uploaded'[s][i] = uploaded[s][i] /\ uploaded'[s][i + 1] = uploaded[s][i + 1] + 1
        BY <2>3, <2>5, <3>1, <3>3
      <4>2. r \in Uploading(s, i) /\ r \notin Uploading(s, i)'
        BY <2>3, <2>7, <3>3
      <4>3. U(s, i)' = U(s, i) - 1
        BY <1>4, <4>2
      <4> QED
        BY <3>1, <4>1, <4>3
    <3>4. CASE s # a \/ (i # j /\ i + 1 # j)
      <4>1. uploaded'[s][i] = uploaded[s][i] /\ uploaded'[s][i + 1] = uploaded[s][i + 1]
        BY <2>5, <3>1, <3>4
      <4>2. U(s, i)' <= U(s, i)
        BY <1>4, <2>7, <3>4
      <4> QED
        BY <3>1, <4>1, <4>2
    <3> QED
      BY <3>2, <3>3, <3>4
  <2> QED
    BY <2>8, <2>9, <2>10 DEF Goal
<1>15. CASE Resolve(r) /\ OnlyAccess
  BY <1>11, <1>15 DEF Resolve, ingestVars
<1>16. CASE Permit(r) /\ OnlyAccess
  BY <1>11, <1>16 DEF Permit, ingestVars
<1>17. CASE CheckSlug(r) /\ OnlyAccess
  BY <1>11, <1>17 DEF CheckSlug, ingestVars
<1>18. CASE Found(r) /\ OnlyAccess
  BY <1>11, <1>18 DEF Found, ingestVars
<1>19. CASE UploadFails(r) /\ OnlyIngest
  BY <1>11, <1>19 DEF UploadFails, ingestVars
<1>e. CASE UploadEmpty(r) /\ OnlyIngest
  BY <1>11, <1>e DEF UploadEmpty, ingestVars
<1>20. CASE LookUp(r) /\ OnlyIngest
  BY <1>11, <1>20 DEF LookUp, ingestVars
<1>21. CASE SubmitForm(r) /\ OnlyIngest
  <2>1. CASE pc'[r] = "stored"
    <3>1. /\ Stage(r, "form") /\ req[r].kind = "form" /\ pc[r] # "idle"
          /\ UNCHANGED <<uploaded, receipts, taken, req>>
      BY <1>21, <2>1 DEF SubmitForm, OnItsPath
    <3>2. req[r].slug \in Slugs
      BY <1>21, <3>1, HasTenant DEF SubmitForm, MemberKinds
    <3> QED
      BY <1>12, <2>1, <3>1, <3>2 DEF RowKinds
  <2>2. CASE pc'[r] # "stored"
    <3>1. UNCHANGED <<records, uploaded, receipts, taken, req>> /\ pc[r] # "idle"
      BY <1>21, <2>2 DEF SubmitForm
    <3> QED
      BY <1>11, <2>2, <3>1
  <2> QED
    BY <2>1, <2>2
<1>22. CASE IngestWebhook(r) /\ OnlyIngest
  <2>1. CASE pc'[r] = "stored"
    <3>1. /\ Stage(r, "webhook") /\ req[r].kind = "webhook" /\ pc[r] # "idle"
          /\ UNCHANGED <<uploaded, receipts, taken, req>>
      BY <1>22, <2>1 DEF IngestWebhook, OnItsPath
    <3>2. req[r].slug \in Slugs
      BY <1>22, <3>1, HasTenant DEF IngestWebhook, MemberKinds
    <3> QED
      BY <1>12, <2>1, <3>1, <3>2 DEF RowKinds
  <2>2. CASE pc'[r] # "stored"
    <3>1. UNCHANGED <<records, uploaded, receipts, taken, req>> /\ pc[r] # "idle"
      BY <1>22, <2>2 DEF IngestWebhook
    <3> QED
      BY <1>11, <2>2, <3>1
  <2> QED
    BY <2>1, <2>2
<1>23. CASE IngestLlmCall(r) /\ OnlyIngest
  <2>1. CASE pc'[r] = "stored"
    <3>1. /\ Stage(r, "llm_call") /\ req[r].kind = "llm_call" /\ pc[r] # "idle"
          /\ UNCHANGED <<uploaded, receipts, taken, req>>
      BY <1>23, <2>1 DEF IngestLlmCall, OnItsPath
    <3>2. req[r].slug \in Slugs
      BY <1>23, <3>1, HasTenant DEF IngestLlmCall, MemberKinds
    <3> QED
      BY <1>12, <2>1, <3>1, <3>2 DEF RowKinds
  <2>2. CASE pc'[r] # "stored"
    <3>1. UNCHANGED <<records, uploaded, receipts, taken, req>> /\ pc[r] # "idle"
      BY <1>23, <2>2 DEF IngestLlmCall
    <3> QED
      BY <1>11, <2>2, <3>1
  <2> QED
    BY <2>1, <2>2
<1>24. CASE StoreDraft(r) /\ OnlyAgents
  <2>1. CASE pc'[r] = "stored"
    <3>1. /\ Stage(r, "draft") /\ req[r].kind = "draft" /\ pc[r] # "idle"
          /\ UNCHANGED <<uploaded, receipts, taken, req>>
      BY <1>24, <2>1 DEF StoreDraft, OnItsPath
    <3>2. req[r].slug \in Slugs
      BY <1>24, <3>1, HasTenant DEF StoreDraft, MemberKinds
    <3> QED
      BY <1>12, <2>1, <3>1, <3>2 DEF RowKinds
  <2>2. CASE pc'[r] # "stored"
    <3>1. UNCHANGED <<records, uploaded, receipts, taken, req>> /\ pc[r] # "idle"
      BY <1>24, <2>2 DEF StoreDraft
    <3> QED
      BY <1>11, <2>2, <3>1
  <2> QED
    BY <2>1, <2>2
<1>25. ASSUME NEW raw \in SUBSET Features, Guard(r, raw), OnlyAgents PROVE Goal
  BY <1>11, <1>25 DEF Guard, ingestVars
<1>26. CASE Extract(r) /\ OnlyAgents
  BY <1>11, <1>26 DEF Extract, Picks, ingestVars
<1>27. CASE Prompt(r) /\ OnlyAgents
  BY <1>11, <1>27 DEF Prompt, Picks, ingestVars
<1>28. ASSUME NEW reply \in SUBSET PersonalData, Invoke(r, reply), OnlyAgents
       PROVE  Goal
  BY <1>11, <1>28 DEF Invoke, ingestVars
<1>29. CASE CheckOutput(r) /\ OnlyAgents
  BY <1>11, <1>29 DEF CheckOutput, ingestVars
<1>30. ASSUME NEW n \in 0..MaxWords, Parse(r, [i \in 1..n |-> i]), OnlyAgents
       PROVE  Goal
  BY <1>11, <1>30 DEF Parse, ingestVars
<1>31. CASE GetEmbeddings(r) /\ OnlyAgents
  BY <1>11, <1>31 DEF GetEmbeddings, Picks, ingestVars
<1>32. CASE AddTexts(r) /\ OnlyAgents
  BY <1>11, <1>32 DEF AddTexts, ingestVars
<1>33. CASE End(r)
  BY <1>11, <1>33 DEF End, Leave, Dies, Free, IngestForgets
<1>34. ASSUME NEW q \in Request, Begin(r, q) PROVE Goal
  BY <1>11, <1>34 DEF Begin, Arrive, Fresh, ingestVars
<1> QED
  <2>1. Goal
    BY <1>13, <1>14, <1>15, <1>16, <1>17, <1>18, <1>19, <1>20, <1>21, <1>22,
       <1>23,
       <1>24, <1>25, <1>26, <1>27, <1>28, <1>29, <1>30, <1>31, <1>32, <1>33, <1>34,
       <1>e
    DEF Moves, RequestStep, PathStep, IngestStep, AgentStep
  <2> QED
    BY <2>1 DEF Goal

\* Every step keeps the counts.
LEMMA CountedStep ==
  TypedPath /\ TypedPath' /\ Counted /\ [Next]_vars => Counted'
<1> SUFFICES ASSUME TypedPath, TypedPath', Counted, [Next]_vars PROVE Counted'
  OBVIOUS
<1>1. CASE UNCHANGED <<pc, req, ingestVars>>
  BY <1>1 DEF Counted, Waiting, Uploading, Busy, ingestVars
<1>2. CASE UNCHANGED vars
  BY <1>1, <1>2 DEF vars, accessVars, pathVars
<1>3. CASE Outside
  BY <1>1, <1>3, OutsideLeaves
<1>4. ASSUME NEW r \in Requests, Moves(r) PROVE Counted'
  BY <1>4, CountedMove
<1> QED
  BY <1>2, <1>3, <1>4 DEF Next, Moves

\* Every step keeps the bounds.
LEMMA BoundedStep == Bounded /\ [Next]_vars => Bounded'
<1> SUFFICES ASSUME Bounded, [Next]_vars PROVE Bounded'
  OBVIOUS
<1> USE BoundAssumption DEF Bounded
<1>1. CASE UNCHANGED <<arrivals, operations>>
  BY <1>1
<1>2. ASSUME NEW r \in Requests, PathStep(r) PROVE Bounded'
  BY <1>1, <1>2 DEF PathStep, Resolve, Permit, CheckSlug, Found
<1>3. ASSUME NEW r \in Requests, IngestStep(r) \/ AgentStep(r) PROVE Bounded'
  BY <1>1, <1>3 DEF IngestStep, AgentStep
<1>4. ASSUME NEW r \in Requests, End(r) PROVE Bounded'
  BY <1>1, <1>4 DEF End, Leave, Dies
<1>5. ASSUME NEW r \in Requests, NEW q \in Request, Begin(r, q) PROVE Bounded'
  BY <1>5 DEF Begin, Arrive
<1>6. CASE Outside
  <2>1. Operate
    BY <1>6 DEF Outside, OperatorStep, SetActive, SetRole, RotateSecret, DeleteUser,
       ProviderChanges
  <2> QED
    BY <2>1 DEF Operate, pathVars
<1>7. CASE UNCHANGED vars
  BY <1>1, <1>7 DEF vars, accessVars, pathVars
<1> QED
  BY <1>2, <1>3, <1>4, <1>5, <1>6, <1>7 DEF Next, RequestStep

\* The initial states satisfy the inductive invariant.
LEMMA InitIInv == Init => IInv
<1> SUFFICES ASSUME Init PROVE IInv
  OBVIOUS
<1> USE NoneAssumption, NoRequestAssumption, ProviderAssumption, FileRowsAssumption
    DEF Init, AccessInit, IngestInit, AgentInit
<1>1. AccessTypes
  <2>1. founders \in [Slugs -> Seq(Users)]
    <3>1. <<>> \in Seq(Users) /\ \A u \in Users : <<u>> \in Seq(Users)
      OBVIOUS
    <3>2. {<<>>} \union {<<u>> : u \in Users} \subseteq Seq(Users)
      BY <3>1
    <3> QED
      BY <3>2
  <2>2. role \in [Slugs -> [Users -> Roles \union {None}]]
    BY DEF Roles
  <2>3. tenant \in [Slugs -> {"absent", "active", "suspended"}]
    OBVIOUS
  <2> QED
    BY <2>1, <2>2, <2>3 DEF AccessTypes, Stages
<1>2. IngestTypes
  BY DEF IngestTypes
<1>3. AgentTypes
  <2>1. NoDoc \in [words : Seq(Nat), chunks : Seq(Seq(Nat))]
    BY EmptySeq DEF NoDoc
  <2> QED
    BY <2>1 DEF AgentTypes, Providers
<1>4. \A r \in Requests : Fresh(r) /\ OnItsPath(r)
  BY DEF Fresh, OnItsPath
<1>5. HistoryTypes /\ Bounded
  BY BoundAssumption DEF HistoryTypes, Bounded
<1>6. FoundedOnce
  <2> SUFFICES ASSUME NEW s \in Slugs, tenant[s] # "absent"
               PROVE  \E u \in users : founders[s] = <<u>>
    BY DEF FoundedOnce
  <2>1. founders[s] # <<>> /\ founders[s] \in {<<>>} \union {<<u>> : u \in Users}
    OBVIOUS
  <2> QED
    BY <2>1
<1>7. Counted
  <2>1. Busy = {} /\ (\A s, k : Waiting(s, k) = {}) /\ \A s, i : Uploading(s, i) = {}
    BY DEF Busy, Waiting, Uploading
  <2>2. RowKinds \subseteq Kinds /\ "csv" \in Kinds
    BY DEF RowKinds, Kinds, MemberKinds, WebhookKinds, ServiceKinds, AgentKinds
  <2>3. \A s \in Slugs, k \in RowKinds : receipts[s][k] + 0 <= records[s][k]
    BY <2>2
  <2>4. ASSUME NEW s \in Slugs
        PROVE  receipts[s]["csv"] + 0 <= uploaded[s][FileRows]
    <3>1. FileRows \in 1..FileRows
      OBVIOUS
    <3>2. uploaded[s][FileRows] = 0
      BY <3>1
    <3>3. receipts[s]["csv"] = 0
      BY <2>2
    <3> QED
      BY <3>2, <3>3
  <2>5. \A s \in Slugs, i \in 1..(FileRows - 1) : uploaded[s][i] >= uploaded[s][i + 1] + 0
    OBVIOUS
  <2> QED
    BY <2>1, <2>3, <2>4, <2>5, FS_EmptySet DEF Counted
<1>8. Shown /\ DocsAreChunked
  BY DEF Shown, DocsAreChunked, ChunkedText, NoDoc, ChunkText
<1>9. \A r \in Requests : Entitled(r) /\ Guarded(r) /\ Caused(r)
  BY DEF Entitled, Guarded, Caused
<1> QED
  BY <1>1, <1>2, <1>3, <1>4, <1>5, <1>6, <1>7, <1>8, <1>9 DEF IInv, TypedPath

\* Every step keeps it.
LEMMA NextIInv == IInv /\ [Next]_vars => IInv'
<1> SUFFICES ASSUME IInv, [Next]_vars PROVE IInv'
  OBVIOUS
<1>1. /\ TypedPath /\ FoundedOnce /\ Counted /\ Shown /\ DocsAreChunked
      /\ HistoryTypes /\ Bounded
  BY DEF IInv
<1>2. TypedPath'
  <2>1. AccessTypes'
    BY <1>1, AccessStep DEF TypedPath
  <2>2. IngestTypes'
    BY <1>1, IngestTypesStep
  <2>3. AgentTypes'
    BY <1>1, AgentTypesStep
  <2>4. \A r \in Requests : (Fresh(r) /\ OnItsPath(r))'
    BY <1>1, OnPathStep
  <2> QED
    BY <2>1, <2>2, <2>3, <2>4 DEF TypedPath
<1>3. HistoryTypes' /\ Bounded'
  BY <1>1, HistoryStep, BoundedStep DEF HistoryTypes
<1>4. FoundedOnce'
  BY <1>1, FoundedStep DEF TypedPath
<1>5. Counted'
  BY <1>1, <1>2, CountedStep
<1>6. \A r \in Requests : Entitled(r)'
  BY <1>1, EntitledStep DEF IInv
<1>7. \A r \in Requests : Guarded(r)'
  BY <1>1, GuardedStep DEF IInv
<1>8. ~RlsEnforced => \A r \in Requests : Caused(r)'
  BY <1>1, RefusalStep DEF IInv
<1>9. Shown'
  BY <1>1, ShownStep DEF IInv
<1>10. DocsAreChunked'
  BY <1>1, DocsStep
<1> QED
  BY <1>2, <1>3, <1>4, <1>5, <1>6, <1>7, <1>8, <1>9, <1>10 DEF IInv

\* The inductive invariant holds: requests stand where their kind leads, have
\* shown what that stage asks for, and every receipt is counted.
THEOREM Inductive == Spec => []IInv
  BY InitIInv, NextIInv, PTL DEF Spec

\* Every variable of Access, Ingest, Agents and Platform keeps its range, and
\* a place has a request exactly while one is in progress.
THEOREM TypeCorrect == Spec => []TypeOK
<1>1. IInv => TypeOK
  BY DEF IInv, TypedPath, HistoryTypes, Bounded, AccessTypes, IngestTypes,
         AgentTypes, TypeOK
<1> QED
  BY <1>1, Inductive, PTL

\* create_tenant makes a tenant once, with one audit row of its creation,
\* whose actor stays (tenants/services.py, the trigger of audit).
THEOREM FoundedOnceHolds == Spec => []FoundedOnce
<1>1. IInv => FoundedOnce
  BY DEF IInv
<1> QED
  BY <1>1, Inductive, PTL

\* Whatever was stored, what its endpoint asks for (Needs) was true at a moment
\* of the request: an active tenant and a membership, a signature, the service
\* token, or only a tenant, are checked on every way to the row.
THEOREM EntryWasAllowedHolds == Spec => []EntryWasAllowed
<1>1. IInv => EntryWasAllowed
  BY DEF IInv, Entitled, EntryWasAllowed
<1> QED
  BY <1>1, Inductive, PTL

\* Where no policy hides the rows, nobody is refused without a cause: some
\* fact the request needs was missing at a moment of it.
THEOREM RefusalHasACauseHolds == Spec => [](~RlsEnforced => RefusalHasACause)
<1>1. IInv => (~RlsEnforced => RefusalHasACause)
  BY DEF IInv, Caused, RefusalHasACause
<1> QED
  BY <1>1, Inductive, PTL

\* No more receipts than rows, and the rows of a file in order, for files of
\* any length and any number of uploads at a time.
THEOREM ReceiptsAreHonestHolds == Spec => []ReceiptsAreHonest
<1>1. ASSUME IInv PROVE ReceiptsAreHonest
  <2> USE <1>1 DEF IInv, TypedPath, IngestTypes
  <2>1. RowKinds \subseteq Kinds /\ "csv" \in Kinds
    BY DEF RowKinds, Kinds, MemberKinds, WebhookKinds, ServiceKinds, AgentKinds
  <2>2. \A s, k : Cardinality(Waiting(s, k)) \in Nat
    BY FiniteCounts DEF Counted
  <2>3. \A s, i : Cardinality(Uploading(s, i)) \in Nat
    BY FiniteCounts DEF Counted
  <2>4. ASSUME NEW s \in Slugs, NEW k \in RowKinds
        PROVE  receipts[s][k] <= records[s][k]
    <3>1. receipts[s][k] \in Nat /\ records[s][k] \in Nat
      BY <2>1
    <3>2. receipts[s][k] + Cardinality(Waiting(s, k)) <= records[s][k]
      BY DEF Counted
    <3> QED
      BY <2>2, <3>1, <3>2
  <2>5. ASSUME NEW s \in Slugs
        PROVE  receipts[s]["csv"] <= uploaded[s][FileRows]
    <3>1. receipts[s]["csv"] \in Nat /\ uploaded[s][FileRows] \in Nat
      BY <2>1, FileRowsAssumption
    <3>2. receipts[s]["csv"] + Cardinality(Waiting(s, "csv")) <= uploaded[s][FileRows]
      BY DEF Counted
    <3> QED
      BY <2>2, <3>1, <3>2
  <2>6. ASSUME NEW s \in Slugs, NEW i \in 1..(FileRows - 1)
        PROVE  uploaded[s][i] >= uploaded[s][i + 1]
    <3>1. uploaded[s][i] \in Nat /\ uploaded[s][i + 1] \in Nat
      BY FileRowsAssumption
    <3>2. uploaded[s][i] >= uploaded[s][i + 1] + Cardinality(Uploading(s, i))
      BY DEF Counted
    <3> QED
      BY <2>3, <3>1, <3>2
  <2> QED
    BY <2>4, <2>5, <2>6 DEF ReceiptsAreHonest
<1> QED
  BY <1>1, Inductive, PTL

\* No model of the e-mail agent is shown a mail the guard has reasons against,
\* or what the analyzer recognised in it, and no answer of it holds what the
\* analyzer recognised in the reply; what the analyzer misses passes.
THEOREM MailIsGuardedHolds == Spec => []MailIsGuarded
<1>1. IInv => MailIsGuarded
  BY DEF IInv, Shown, ToldNothing, Guarded, MailIsGuarded
<1> QED
  BY <1>1, Inductive, PTL

\* The paid provider is used only if it is enabled, and for a request in whose
\* time the local one was down.
THEOREM PaidOnlyInNeedHolds == Spec => []PaidOnlyInNeed
<1>1. IInv => PaidOnlyInNeed
  BY DEF IInv, Guarded, PaidOnlyInNeed
<1> QED
  BY <1>1, Inductive, PTL

\* What is stored of a document is its words, for documents of any length and
\* any size of a chunk.
THEOREM ChunksKeepTheTextHolds == Spec => []ChunksKeepTheText
<1>1. ASSUME IInv PROVE ChunksKeepTheText
  <2> SUFFICES ASSUME NEW d \in stored
               PROVE  /\ FlattenSeq(d.chunks) = d.words
                      /\ \A i \in DOMAIN d.chunks : Len(d.chunks[i]) \in 1..ChunkSize
    BY DEF ChunksKeepTheText
  <2>1. d.words \in Seq(Nat) /\ d.chunks = ChunkText(d.words)
    BY <1>1 DEF IInv, TypedPath, AgentTypes, DocsAreChunked, ChunkedText
  <2>2. /\ FlattenSeq(ChunkText(d.words)) = d.words
        /\ \A i \in DOMAIN ChunkText(d.words) :
             Len(ChunkText(d.words)[i]) \in 1..ChunkSize
    BY <2>1, ChunksAreTheText, Zenon
  <2> QED
    BY <2>1, <2>2, Zenon
<1> QED
  BY <1>1, Inductive, PTL
=============================================================================
