--------------------------- MODULE FollowupsProofs ---------------------------
(***************************************************************************)
(* Proofs about Followups, for any reminders, requests and scans, and any   *)
(* number of edits and faults: its type invariant; that nothing an LLM      *)
(* drafted is mailed before a person approved it; that a sent reminder was  *)
(* mailed; that a cancelled one stays cancelled; and how often one can be   *)
(* mailed.                                                                  *)
(*                                                                         *)
(* The second is not inductive: a scan mails the copy it read, and an edit  *)
(* writes the status it read.  HeldBack says what the row, the scans and    *)
(* the requests know of an unapproved draft; Untouched, that nobody knows   *)
(* anything of a reminder that does not exist yet; SentSeen, what is known  *)
(* of those somebody saw sent.  The last needs a count of how often the row *)
(* became pending (Caused).                                                 *)
(***************************************************************************)
EXTENDS Followups, FiniteSetTheorems, TLAPS

\* An unapproved draft is a draft, cancelled or deleted; whoever read its row
\* read no more than that, and no scan holds it.
HeldBack ==
  \A r \in drafted \ approved :
    /\ status[r] \in {"draft", "cancelled", "deleted"}
    /\ mails[r] = 0
    /\ \A q \in Requests :
         request[q].reminder = r => request[q].seen \in {"draft", "cancelled"}
    /\ \A s \in Scans : ~Holds(s, r)

Untouched ==
  \A r \in Reminders :
    status[r] = "absent" =>
      /\ mails[r] = 0
      /\ \A q \in Requests : request[q].reminder # r
      /\ \A s \in Scans : ~Holds(s, r)

\* What SentIsTrue asks of a sent row, told of whoever saw it sent: an edit may
\* write "sent" back.
Mailed(r) == mails[r] > 0 \/ r \in Silent

Accounted(r) ==
  \/ audits[r] > 0 \/ faults > 0
  \/ \E s \in Scans : stage[s] = "auditing" /\ current[s] = r

SentSeen ==
  /\ \A r \in Reminders : status[r] = "sent" => Mailed(r) /\ Accounted(r)
  /\ \A q \in Requests : request[q].seen = "sent" =>
       Mailed(request[q].reminder) /\ Accounted(request[q].reminder)
  /\ \A s \in Scans :
       stage[s] \in {"saving", "auditing"} => Mailed(current[s])

IInv == TypeOK /\ HeldBack /\ Untouched

\* The initial state satisfies the inductive invariant.
LEMMA InitIInv == Init => IInv
  BY NoneAssumption DEF Init, IInv, TypeOK, HeldBack, Untouched, Holds, Row, Job,
    Statuses, Free

USE DEF scanVars, histVars, Row, Statuses

\* Every step keeps the ranges.
LEMMA TypeStep == TypeOK /\ [Next]_vars => TypeOK'
<1> SUFFICES ASSUME TypeOK, [Next]_vars PROVE TypeOK'
  OBVIOUS
<1> USE NoneAssumption, OperationsAssumption DEF TypeOK, Job, Free
<1>1. CASE UNCHANGED vars
  BY <1>1 DEF vars
<1>2. ASSUME NEW r \in Reminders, Create(r) PROVE TypeOK'
  BY <1>2 DEF Create
<1>3. ASSUME NEW r \in Reminders, CreateDraft(r) PROVE TypeOK'
  BY <1>3 DEF CreateDraft
<1>4. ASSUME NEW r \in Reminders, ComeDue(r) PROVE TypeOK'
  BY <1>4 DEF ComeDue
<1>5. ASSUME NEW r \in Reminders, Delete(r) PROVE TypeOK'
  BY <1>5 DEF Delete
<1>6. ASSUME NEW q \in Requests, Cancel(q) PROVE TypeOK'
  BY <1>6 DEF Cancel, SaveStatus, Respond
<1>7. ASSUME NEW q \in Requests, Approve(q) PROVE TypeOK'
  BY <1>7 DEF Approve, SaveStatus, Respond, IsDraft
<1>8. ASSUME NEW q \in Requests, Edit(q) PROVE TypeOK'
  BY <1>8 DEF Edit, Respond
<1>9. ASSUME NEW q \in Requests, NEW op \in Operations, NEW r \in Reminders,
             GetObject(q, op, r)
      PROVE  TypeOK'
  BY <1>9 DEF GetObject
<1>10. ASSUME NEW s \in Scans, BeginScan(s) PROVE TypeOK'
  BY <1>10 DEF BeginScan, DueRows
<1>11. ASSUME NEW s \in Scans, EndScan(s) PROVE TypeOK'
  BY <1>11 DEF EndScan
<1>12. ASSUME NEW s \in Scans, Send(s) PROVE TypeOK'
  BY <1>12 DEF Send
<1>13. ASSUME NEW s \in Scans, SendImpossible(s) PROVE TypeOK'
  BY <1>13 DEF SendImpossible, Abort, Released
<1>14. ASSUME NEW s \in Scans, Save(s) PROVE TypeOK'
  BY <1>14 DEF Save, MarkSent, Abort, Released
<1>15. ASSUME NEW s \in Scans, Audit(s) PROVE TypeOK'
  BY <1>15 DEF Audit, Released
<1>16. ASSUME NEW s \in Scans, NEW r \in todo[s], NextRow(s, r) PROVE TypeOK'
  BY <1>16 DEF NextRow, NeedsNoMail
<1>17. ASSUME NEW s \in Scans, ScanFails(s) PROVE TypeOK'
  BY <1>17 DEF ScanFails, Abort, Released
<1> QED
  BY <1>1, <1>2, <1>3, <1>4, <1>5, <1>6, <1>7, <1>8, <1>9, <1>10, <1>11, <1>12,
     <1>13, <1>14, <1>15, <1>16, <1>17
  DEF Next, RequestStep, ScanStep

\* Every step keeps what is known of drafts and of reminders to come.
LEMMA GuardStep == IInv /\ [Next]_vars => HeldBack' /\ Untouched'
<1> SUFFICES ASSUME IInv, [Next]_vars PROVE HeldBack' /\ Untouched'
  OBVIOUS
<1> USE NoneAssumption DEF IInv, TypeOK, HeldBack, Untouched, Holds, Job, Free
<1>1. CASE UNCHANGED vars
  BY <1>1 DEF vars
<1>2. ASSUME NEW r \in Reminders, Create(r) PROVE HeldBack' /\ Untouched'
  BY <1>2 DEF Create
<1>3. ASSUME NEW r \in Reminders, CreateDraft(r) PROVE HeldBack' /\ Untouched'
  BY <1>3 DEF CreateDraft
<1>4. ASSUME NEW r \in Reminders, ComeDue(r) PROVE HeldBack' /\ Untouched'
  BY <1>4 DEF ComeDue
<1>5. ASSUME NEW r \in Reminders, Delete(r) PROVE HeldBack' /\ Untouched'
  BY <1>5 DEF Delete
<1>6. ASSUME NEW q \in Requests, Cancel(q) PROVE HeldBack' /\ Untouched'
  BY <1>6 DEF Cancel, SaveStatus, Respond
<1>7. ASSUME NEW q \in Requests, Approve(q) PROVE HeldBack' /\ Untouched'
  BY <1>7 DEF Approve, SaveStatus, Respond, IsDraft
<1>8. ASSUME NEW q \in Requests, Edit(q) PROVE HeldBack' /\ Untouched'
  BY <1>8 DEF Edit, Respond
<1>9. ASSUME NEW q \in Requests, NEW op \in Operations, NEW r \in Reminders,
             GetObject(q, op, r)
      PROVE  HeldBack' /\ Untouched'
  BY <1>9 DEF GetObject
<1>10. ASSUME NEW s \in Scans, BeginScan(s) PROVE HeldBack' /\ Untouched'
  BY <1>10 DEF BeginScan, DueRows
<1>11. ASSUME NEW s \in Scans, EndScan(s) PROVE HeldBack' /\ Untouched'
  BY <1>11 DEF EndScan
<1>12. ASSUME NEW s \in Scans, Send(s) PROVE HeldBack' /\ Untouched'
  BY <1>12 DEF Send
<1>13. ASSUME NEW s \in Scans, SendImpossible(s) PROVE HeldBack' /\ Untouched'
  BY <1>13 DEF SendImpossible, Abort, Released
<1>14. ASSUME NEW s \in Scans, Save(s) PROVE HeldBack' /\ Untouched'
  BY <1>14 DEF Save, MarkSent, Abort, Released
<1>15. ASSUME NEW s \in Scans, Audit(s) PROVE HeldBack' /\ Untouched'
  BY <1>15 DEF Audit, Released
<1>16. ASSUME NEW s \in Scans, NEW r \in todo[s], NextRow(s, r)
       PROVE  HeldBack' /\ Untouched'
  BY <1>16 DEF NextRow, NeedsNoMail
<1>17. ASSUME NEW s \in Scans, ScanFails(s) PROVE HeldBack' /\ Untouched'
  BY <1>17 DEF ScanFails, Abort, Released
<1> QED
  BY <1>1, <1>2, <1>3, <1>4, <1>5, <1>6, <1>7, <1>8, <1>9, <1>10, <1>11, <1>12,
     <1>13, <1>14, <1>15, <1>16, <1>17
  DEF Next, RequestStep, ScanStep

\* The inductive invariant holds in every reachable state.
THEOREM Inductive == Spec => []IInv
<1>1. IInv /\ [Next]_vars => IInv'
  BY TypeStep, GuardStep DEF IInv
<1> QED
  BY InitIInv, <1>1, PTL DEF Spec

\* Every row, request and scan of the follow-ups keeps its range.
THEOREM TypeCorrect == Spec => []TypeOK
<1>1. IInv => TypeOK
  BY DEF IInv
<1> QED
  BY Inductive, <1>1, PTL

\* No message an LLM drafted (create_draft_reminder) leaves the system before
\* a person approved it (approve_draft), whatever overlaps.
THEOREM NoDraftMailedUnapprovedHolds == Spec => []NoDraftMailedUnapproved
<1>1. IInv => NoDraftMailedUnapproved
  BY DEF IInv, TypeOK, HeldBack, NoDraftMailedUnapproved
<1> QED
  BY Inductive, <1>1, PTL

\* Every step keeps what is known of the rows seen sent.
LEMMA SentStep == TypeOK /\ SentSeen /\ [Next]_vars => SentSeen'
<1> SUFFICES ASSUME TypeOK, SentSeen, [Next]_vars PROVE SentSeen'
  OBVIOUS
<1> USE NoneAssumption DEF TypeOK, SentSeen, Mailed, Accounted, Job, Free
<1>1. CASE UNCHANGED vars
  BY <1>1 DEF vars
<1>2. ASSUME NEW r \in Reminders, Create(r) PROVE SentSeen'
  BY <1>2 DEF Create
<1>3. ASSUME NEW r \in Reminders, CreateDraft(r) PROVE SentSeen'
  BY <1>3 DEF CreateDraft
<1>4. ASSUME NEW r \in Reminders, ComeDue(r) PROVE SentSeen'
  BY <1>4 DEF ComeDue
<1>5. ASSUME NEW r \in Reminders, Delete(r) PROVE SentSeen'
  BY <1>5 DEF Delete
<1>6. ASSUME NEW q \in Requests, Cancel(q) PROVE SentSeen'
  BY <1>6 DEF Cancel, SaveStatus, Respond
<1>7. ASSUME NEW q \in Requests, Approve(q) PROVE SentSeen'
  BY <1>7 DEF Approve, SaveStatus, Respond, IsDraft
<1>8. ASSUME NEW q \in Requests, Edit(q) PROVE SentSeen'
  BY <1>8 DEF Edit, Respond
<1>9. ASSUME NEW q \in Requests, NEW op \in Operations, NEW r \in Reminders,
             GetObject(q, op, r)
      PROVE  SentSeen'
  BY <1>9 DEF GetObject
<1>10. ASSUME NEW s \in Scans, BeginScan(s) PROVE SentSeen'
  BY <1>10 DEF BeginScan, DueRows
<1>11. ASSUME NEW s \in Scans, EndScan(s) PROVE SentSeen'
  BY <1>11 DEF EndScan
<1>12. ASSUME NEW s \in Scans, Send(s) PROVE SentSeen'
  BY <1>12 DEF Send
<1>13. ASSUME NEW s \in Scans, SendImpossible(s) PROVE SentSeen'
  BY <1>13 DEF SendImpossible, Abort, Released
<1>14. ASSUME NEW s \in Scans, Save(s) PROVE SentSeen'
  BY <1>14 DEF Save, MarkSent, Abort, Released
<1>15. ASSUME NEW s \in Scans, Audit(s) PROVE SentSeen'
  BY <1>15 DEF Audit, Released
<1>16. ASSUME NEW s \in Scans, NEW r \in todo[s], NextRow(s, r)
       PROVE  SentSeen'
  BY <1>16 DEF NextRow, NeedsNoMail
<1>17. ASSUME NEW s \in Scans, ScanFails(s) PROVE SentSeen'
  BY <1>17 DEF ScanFails, Abort, Released
<1> QED
  BY <1>1, <1>2, <1>3, <1>4, <1>5, <1>6, <1>7, <1>8, <1>9, <1>10, <1>11, <1>12,
     <1>13, <1>14, <1>15, <1>16, <1>17
  DEF Next, RequestStep, ScanStep

\* A sent reminder was mailed, unless it has no recipient, and its audit row is
\* written, about to be, or was lost with a scan that failed.
THEOREM SentIsTrueHolds == Spec => []SentIsTrue
<1>1. Init => SentSeen
  BY NoneAssumption DEF Init, SentSeen, Free
<1>2. TypeOK /\ SentSeen => SentIsTrue
  BY DEF SentSeen, Mailed, Accounted, TypeOK, SentIsTrue
<1> QED
  BY <1>1, <1>2, SentStep, TypeCorrect, PTL DEF Spec

\* A step does to a reminder that was cancelled, and that nobody still knows as
\* anything else, what CancelledForGood says.
Kept(r) ==
  /\ CancelledQuietly(r)' \/ status'[r] = "deleted"
  /\ mails'[r] = mails[r]

LEMMA CancelledStep ==
  ASSUME TypeOK, [Next]_vars, NEW r \in Reminders, CancelledQuietly(r)
  PROVE  Kept(r)
<1> USE NoneAssumption DEF TypeOK, CancelledQuietly, Kept, Holds, Job, Free
<1>1. CASE UNCHANGED vars
  BY <1>1 DEF vars
<1>2. ASSUME NEW b \in Reminders, Create(b) \/ CreateDraft(b) PROVE Kept(r)
  BY <1>2 DEF Create, CreateDraft
<1>3. ASSUME NEW b \in Reminders, ComeDue(b) \/ Delete(b) PROVE Kept(r)
  BY <1>3 DEF ComeDue, Delete
<1>4. ASSUME NEW q \in Requests, Cancel(q) PROVE Kept(r)
  BY <1>4 DEF Cancel, SaveStatus, Respond
<1>5. ASSUME NEW q \in Requests, Approve(q) PROVE Kept(r)
  BY <1>5 DEF Approve, SaveStatus, Respond, IsDraft
<1>6. ASSUME NEW q \in Requests, Edit(q) PROVE Kept(r)
  BY <1>6 DEF Edit, Respond
<1>7. ASSUME NEW q \in Requests, NEW op \in Operations, NEW b \in Reminders,
             GetObject(q, op, b)
      PROVE  Kept(r)
  BY <1>7 DEF GetObject
<1>8. ASSUME NEW s \in Scans, BeginScan(s) PROVE Kept(r)
  BY <1>8 DEF BeginScan, DueRows
<1>9. ASSUME NEW s \in Scans, EndScan(s) \/ Audit(s) PROVE Kept(r)
  BY <1>9 DEF EndScan, Audit, Released
<1>10. ASSUME NEW s \in Scans, Send(s) PROVE Kept(r)
  BY <1>10 DEF Send
<1>11. ASSUME NEW s \in Scans, SendImpossible(s) \/ ScanFails(s) PROVE Kept(r)
  BY <1>11 DEF SendImpossible, ScanFails, Abort, Released
<1>12. ASSUME NEW s \in Scans, Save(s) PROVE Kept(r)
  BY <1>12 DEF Save, MarkSent, Abort, Released
<1>13. ASSUME NEW s \in Scans, NEW b \in todo[s], NextRow(s, b) PROVE Kept(r)
  BY <1>13 DEF NextRow, NeedsNoMail
<1> QED
  BY <1>1, <1>2, <1>3, <1>4, <1>5, <1>6, <1>7, <1>8, <1>9, <1>10, <1>11, <1>12,
     <1>13
  DEF Next, RequestStep, ScanStep

\* A reminder that was cancelled while nobody held it stays cancelled, or is
\* deleted, and is mailed no more, whatever requests and scans do later.
THEOREM CancelledForGoodHolds == Spec => CancelledForGood
<1>1. TypeOK /\ [Next]_vars =>
        [\A r \in Reminders : CancelledQuietly(r) =>
           /\ CancelledQuietly(r)' \/ status'[r] = "deleted"
           /\ mails'[r] = mails[r]]_vars
  BY CancelledStep DEF Kept
<1> QED
  BY <1>1, TypeCorrect, PTL DEF Spec, CancelledForGood

------------------------------------------------------------------------------
(* How often a reminder is mailed.                                            *)
(*                                                                           *)
(* A reminder is released each time its row becomes pending.  After n         *)
(* releases each scan can have mailed it n times, and once more for each scan *)
(* that failed.  Level and the edits in progress bound the releases that are  *)
(* still to come.                                                             *)

Crew == Cardinality(Scans)
Callers == Cardinality(Requests)

\* The scans that mailed r and have not saved it, and those that may mail it.
Mailing(r) == {s \in Scans : stage[s] = "saving" /\ current[s] = r}
Waiting(r) ==
  {s \in Scans : r \in todo[s] \/ (stage[s] = "sending" /\ current[s] = r)}

\* What n releases of r may have led to.
Spent(r, n) ==
  IF status[r] = "pending"
  THEN mails[r] + Crew <= Crew * n + faults + Cardinality(Mailing(r))
  ELSE mails[r] + Cardinality(Waiting(r)) <= Crew * n + faults

Approvers(r) ==
  {q \in Requests : request[q].op = "approve" /\ request[q].reminder = r
                      /\ request[q].seen = "draft"}
Editors(r) == {q \in Requests : request[q].op = "edit" /\ request[q].reminder = r}

Level(r) ==
  IF status[r] \in {"absent", "draft"} THEN Callers ELSE Cardinality(Approvers(r))

Releases(r, n) ==
  n + Level(r) + Callers * Cardinality(Editors(r)) <= Callers * (1 + edits)

\* A row a scan holds is not among those it has yet to handle.
Parted == \A s \in Scans : current[s] \notin todo[s]

Caused == \A r \in Reminders : \E n \in Nat : Spent(r, n) /\ Releases(r, n)

\* The cardinalities of finite sets, as far as they are needed here.
LEMMA Within ==
  ASSUME NEW X, IsFiniteSet(X), NEW Y \in SUBSET X
  PROVE  IsFiniteSet(Y) /\ Cardinality(Y) \in Nat /\ Cardinality(X) \in Nat
           /\ Cardinality(Y) <= Cardinality(X)
  BY FS_Subset, FS_CardinalityType

LEMMA Grow ==
  ASSUME NEW X, IsFiniteSet(X), NEW x, x \notin X
  PROVE  Cardinality(X \cup {x}) = Cardinality(X) + 1
  BY FS_AddElement

LEMMA Drop ==
  ASSUME NEW X, IsFiniteSet(X), NEW x \in X
  PROVE  /\ Cardinality(X) \in Nat /\ Cardinality(X \ {x}) \in Nat
         /\ Cardinality(X) = Cardinality(X \ {x}) + 1
<1>1. IsFiniteSet(X \ {x}) /\ x \notin X \ {x} /\ X = (X \ {x}) \cup {x}
  BY Within
<1>2. Cardinality((X \ {x}) \cup {x}) = Cardinality(X \ {x}) + 1
  BY <1>1, Grow
<1> QED
  BY <1>1, <1>2, FS_CardinalityType

\* Products are only ever compared through these facts.
LEMMA Products ==
  ASSUME NEW a \in Nat, NEW b \in Nat
  PROVE  a * b \in Nat /\ a * (b + 1) = a * b + a /\ a * (1 + b) = a * b + a
  OBVIOUS

\* The sets just defined are finite, and no scan is in both of the first two.
LEMMA Sizes ==
  ASSUME TypeOK, Parted, NEW r \in Reminders
  PROVE  /\ IsFiniteSet(Mailing(r)) /\ IsFiniteSet(Waiting(r))
         /\ Cardinality(Mailing(r)) \in Nat /\ Cardinality(Waiting(r)) \in Nat
         /\ Crew \in Nat /\ Callers \in Nat /\ Callers >= 1
         /\ Cardinality(Mailing(r)) + Cardinality(Waiting(r)) <= Crew
         /\ IsFiniteSet(Approvers(r)) /\ IsFiniteSet(Editors(r))
         /\ Cardinality(Approvers(r)) \in Nat /\ Cardinality(Editors(r)) \in Nat
         /\ Cardinality(Approvers(r)) <= Callers
<1>1. /\ Mailing(r) \in SUBSET Scans /\ Waiting(r) \in SUBSET Scans
      /\ Mailing(r) \cup Waiting(r) \in SUBSET Scans
      /\ Mailing(r) \cap Waiting(r) = {}
  BY DEF Mailing, Waiting, Parted
<1>2. Approvers(r) \in SUBSET Requests /\ Editors(r) \in SUBSET Requests
  BY DEF Approvers, Editors
<1>3. /\ IsFiniteSet(Mailing(r)) /\ IsFiniteSet(Waiting(r))
      /\ Cardinality(Mailing(r)) \in Nat /\ Cardinality(Waiting(r)) \in Nat
      /\ Crew \in Nat
      /\ Cardinality(Mailing(r) \cup Waiting(r)) <= Crew
  BY <1>1, Within, ProcessAssumption DEF Crew
<1>4. Cardinality(Mailing(r) \cup Waiting(r))
        = Cardinality(Mailing(r)) + Cardinality(Waiting(r))
  BY <1>1, <1>3, FS_Union, FS_EmptySet
<1>5. /\ IsFiniteSet(Approvers(r)) /\ IsFiniteSet(Editors(r))
      /\ Cardinality(Approvers(r)) \in Nat /\ Cardinality(Editors(r)) \in Nat
      /\ Callers \in Nat /\ Cardinality(Approvers(r)) <= Callers
  BY <1>2, Within, ProcessAssumption DEF Callers
<1>6. Callers # 0
  BY FS_EmptySet, ProcessAssumption DEF Callers
<1> QED
  BY <1>3, <1>4, <1>5, <1>6

\* Of what decides how a reminder may be mailed, one step changes this much:
\* a mail is paid for by a scan that waited, by one now saving, or by a fault.
Charged(r) ==
  /\ (status[r] = "pending" /\ status'[r] = "pending") =>
       mails'[r] + Cardinality(Mailing(r)) + faults
         <= mails[r] + Cardinality(Mailing(r)') + faults'
  /\ ~(status[r] = "pending" /\ status'[r] = "pending") =>
       mails'[r] + Cardinality(Waiting(r)') + faults
         <= mails[r] + Cardinality(Waiting(r)) + faults'

LEMMA PartedStep == TypeOK /\ Parted /\ [Next]_vars => Parted'
<1> SUFFICES ASSUME TypeOK, Parted, [Next]_vars PROVE Parted'
  OBVIOUS
<1> USE NoneAssumption DEF TypeOK, Parted
<1>1. CASE UNCHANGED vars
  BY <1>1 DEF vars
<1>2. ASSUME NEW r \in Reminders,
             Create(r) \/ CreateDraft(r) \/ ComeDue(r) \/ Delete(r)
      PROVE  Parted'
  BY <1>2 DEF Create, CreateDraft, ComeDue, Delete
<1>3. ASSUME NEW q \in Requests, RequestStep(q) PROVE Parted'
  BY <1>3 DEF RequestStep, Cancel, Approve, Edit
<1>4. ASSUME NEW q \in Requests, NEW op \in Operations, NEW r \in Reminders,
             GetObject(q, op, r)
      PROVE  Parted'
  BY <1>4 DEF GetObject
<1>5. ASSUME NEW s \in Scans, BeginScan(s) PROVE Parted'
  BY <1>5 DEF BeginScan, DueRows
<1>6. ASSUME NEW s \in Scans, EndScan(s) \/ Send(s) \/ SendImpossible(s)
      PROVE  Parted'
  BY <1>6 DEF EndScan, Send, SendImpossible, Abort, Released
<1>7. ASSUME NEW s \in Scans, Save(s) \/ Audit(s) \/ ScanFails(s) PROVE Parted'
  BY <1>7 DEF Save, Audit, ScanFails, Abort, Released
<1>8. ASSUME NEW s \in Scans, NEW r \in todo[s], NextRow(s, r) PROVE Parted'
  BY <1>8 DEF NextRow
<1> QED
  BY <1>1, <1>2, <1>3, <1>4, <1>5, <1>6, <1>7, <1>8 DEF Next, ScanStep

LEMMA ChargedStep ==
  ASSUME TypeOK, Parted, TypeOK', Parted', [Next]_vars, NEW r \in Reminders
  PROVE  Charged(r)
<1> DEFINE M == Cardinality(Mailing(r))
           W == Cardinality(Waiting(r))
<1>z. /\ IsFiniteSet(Mailing(r)) /\ IsFiniteSet(Waiting(r))
      /\ M \in Nat /\ W \in Nat
  BY Sizes
<1>p. /\ IsFiniteSet(Mailing(r)') /\ IsFiniteSet(Waiting(r)')
      /\ Cardinality(Mailing(r)') \in Nat /\ Cardinality(Waiting(r)') \in Nat
  <2>1. /\ Mailing(r)' \in SUBSET Scans /\ Waiting(r)' \in SUBSET Scans
    BY DEF Mailing, Waiting
  <2> QED
    BY <2>1, Within, ProcessAssumption
<1>n. /\ mails[r] \in Nat /\ mails'[r] \in Nat /\ faults \in Nat /\ faults' \in Nat
  BY DEF TypeOK
<1>w. ASSUME Waiting(r)' \subseteq Waiting(r)
      PROVE  Cardinality(Waiting(r)') <= W
  BY <1>w, <1>z, Within
<1>m. ASSUME Mailing(r) \subseteq Mailing(r)'
      PROVE  M <= Cardinality(Mailing(r)')
  BY <1>m, <1>p, Within
\* A step that mails nothing, and moves no scan away from r unless r is not or
\* no longer pending.
<1>q. ASSUME mails'[r] = mails[r], faults' = faults,
             (status[r] = "pending" /\ status'[r] = "pending")
               => Mailing(r) \subseteq Mailing(r)',
             ~(status[r] = "pending" /\ status'[r] = "pending")
               => Waiting(r)' \subseteq Waiting(r)
      PROVE  Charged(r)
  BY <1>q, <1>w, <1>m, <1>n, <1>z, <1>p DEF Charged
<1>1. CASE UNCHANGED vars
  BY <1>1, <1>q DEF vars, Mailing, Waiting
<1>2. ASSUME NEW b \in Reminders,
             Create(b) \/ CreateDraft(b) \/ ComeDue(b) \/ Delete(b)
      PROVE  Charged(r)
  BY <1>2, <1>q DEF Create, CreateDraft, ComeDue, Delete, Mailing, Waiting
<1>3. ASSUME NEW q \in Requests, RequestStep(q) PROVE Charged(r)
  BY <1>3, <1>q DEF RequestStep, Cancel, Approve, Edit, Mailing, Waiting
<1>4. ASSUME NEW q \in Requests, NEW op \in Operations, NEW b \in Reminders,
             GetObject(q, op, b)
      PROVE  Charged(r)
  BY <1>4, <1>q DEF GetObject, Mailing, Waiting
<1>5. ASSUME NEW s \in Scans, BeginScan(s) PROVE Charged(r)
  BY <1>5, <1>q DEF BeginScan, DueRows, Mailing, Waiting, TypeOK
<1>6. ASSUME NEW s \in Scans, EndScan(s) PROVE Charged(r)
  BY <1>6, <1>q DEF EndScan, Mailing, Waiting, TypeOK
<1>7. ASSUME NEW s \in Scans, Send(s) PROVE Charged(r)
  <2>1. CASE current[s] = r
    <3>1. /\ s \in Waiting(r) /\ s \notin Mailing(r)
          /\ Mailing(r)' = Mailing(r) \cup {s} /\ Waiting(r)' = Waiting(r) \ {s}
      BY <1>7, <2>1 DEF Send, Mailing, Waiting, TypeOK, Parted
    <3>2. mails'[r] = mails[r] + 1 /\ faults' = faults
      BY <1>7, <2>1 DEF Send, TypeOK
    <3>3. Cardinality(Mailing(r)') = M + 1
      BY <3>1, <1>z, Grow
    <3>4. W = Cardinality(Waiting(r)') + 1
      BY <3>1, <1>z, Drop
    <3> QED
      BY <3>2, <3>3, <3>4, <1>n, <1>z, <1>p DEF Charged
  <2>2. CASE current[s] # r
    BY <1>7, <2>2, <1>q DEF Send, Mailing, Waiting, TypeOK
  <2> QED
    BY <2>1, <2>2
<1>8. ASSUME NEW s \in Scans, SendImpossible(s) PROVE Charged(r)
  BY <1>8, <1>q DEF SendImpossible, Abort, Released, Mailing, Waiting, TypeOK
<1>9. ASSUME NEW s \in Scans, Save(s) PROVE Charged(r)
  <2>1. Waiting(r)' \subseteq Waiting(r)
    BY <1>9 DEF Save, Abort, Released, Waiting, TypeOK
  <2>2. ASSUME status[r] = "pending", status'[r] = "pending"
        PROVE  Mailing(r) \subseteq Mailing(r)'
    BY <1>9, <2>2 DEF Save, MarkSent, Abort, Released, Mailing, TypeOK
  <2>3. mails'[r] = mails[r] /\ faults' = faults
    BY <1>9 DEF Save
  <2> QED
    BY <2>1, <2>2, <2>3, <1>q
<1>10. ASSUME NEW s \in Scans, Audit(s) PROVE Charged(r)
  BY <1>10, <1>q DEF Audit, Released, Mailing, Waiting, TypeOK
<1>11. ASSUME NEW s \in Scans, NEW b \in todo[s], NextRow(s, b) PROVE Charged(r)
  <2>1. Mailing(r) \subseteq Mailing(r)' /\ Waiting(r)' \subseteq Waiting(r)
    BY <1>11 DEF NextRow, Mailing, Waiting, TypeOK
  <2> QED
    BY <1>11, <2>1, <1>q DEF NextRow
<1>12. ASSUME NEW s \in Scans, ScanFails(s) PROVE Charged(r)
  <2>1. /\ Waiting(r)' \subseteq Waiting(r) /\ Mailing(r)' = Mailing(r) \ {s}
        /\ faults' = faults + 1 /\ mails'[r] = mails[r]
    BY <1>12 DEF ScanFails, Abort, Released, Mailing, Waiting, TypeOK
  <2>2. M <= Cardinality(Mailing(r)') + 1
    <3>1. CASE s \in Mailing(r)
      BY <3>1, <2>1, <1>z, Drop
    <3>2. CASE s \notin Mailing(r)
      <4>1. Mailing(r) \subseteq Mailing(r)'
        BY <3>2, <2>1
      <4> QED
        BY <4>1, <1>m, <1>z, <1>p
    <3> QED
      BY <3>1, <3>2
  <2> QED
    BY <2>1, <2>2, <1>w, <1>n, <1>z, <1>p DEF Charged
<1> QED
  BY <1>1, <1>2, <1>3, <1>4, <1>5, <1>6, <1>7, <1>8, <1>9, <1>10, <1>11, <1>12
  DEF Next, ScanStep

\* The row becomes pending.
Freed(r) == status[r] # "pending" /\ status'[r] = "pending"

\* A release uses up a request that may approve the draft it read, or an edit;
\* an edit allows as many releases as there are requests.
Granted(r) ==
  (IF Freed(r) THEN 1 ELSE 0)
    + Level(r)' + Callers * Cardinality(Editors(r)') + Callers * edits
    <= Level(r) + Callers * Cardinality(Editors(r)) + Callers * edits'

LEMMA GrantedStep ==
  ASSUME TypeOK, Parted, Untouched, TypeOK', Parted', [Next]_vars,
         NEW r \in Reminders
  PROVE  Granted(r)
<1> DEFINE A == Cardinality(Approvers(r))
           E == Cardinality(Editors(r))
           L == Level(r)
<1> USE NoneAssumption
<1>z. /\ IsFiniteSet(Approvers(r)) /\ IsFiniteSet(Editors(r))
      /\ A \in Nat /\ E \in Nat /\ A <= Callers /\ Callers \in Nat /\ Callers >= 1
  BY Sizes
<1>l. L \in Nat /\ A <= L /\ L <= Callers
  BY <1>z DEF Level
<1>p. /\ IsFiniteSet(Approvers(r)') /\ IsFiniteSet(Editors(r)')
      /\ Cardinality(Approvers(r)') \in Nat /\ Cardinality(Editors(r)') \in Nat
      /\ Cardinality(Approvers(r)') <= Callers
  <2>1. Approvers(r)' \in SUBSET Requests /\ Editors(r)' \in SUBSET Requests
    BY DEF Approvers, Editors
  <2> QED
    BY <2>1, Within, ProcessAssumption DEF Callers
<1>k. Level(r)' = IF status'[r] \in {"absent", "draft"}
                  THEN Callers ELSE Cardinality(Approvers(r)')
  BY DEF Level, Callers
<1>n. /\ edits \in Nat /\ edits' \in Nat
      /\ Callers * edits \in Nat /\ Callers * E \in Nat
  BY <1>z, Products DEF TypeOK
\* A step that releases nothing and takes no request away that might.
<1>q. ASSUME Editors(r)' = Editors(r), edits' = edits, ~Freed(r),
             Approvers(r)' = Approvers(r),
             status'[r] \in {"absent", "draft"} => status[r] \in {"absent", "draft"}
      PROVE  Granted(r)
  <2>1. Level(r)' <= L
    BY <1>q, <1>k, <1>z DEF Level
  <2>2. Level(r)' \in Nat
    BY <1>k, <1>z, <1>p
  <2> QED
    BY <1>q, <2>1, <2>2, <1>n, <1>l DEF Granted
<1>1. CASE UNCHANGED vars
  BY <1>1, <1>q DEF vars, Approvers, Editors, Freed
<1>2. ASSUME NEW b \in Reminders, Create(b) PROVE Granted(r)
  <2>1. /\ Editors(r)' = Editors(r) /\ edits' = edits
        /\ Approvers(r)' = Approvers(r)
    BY <1>2 DEF Create, Editors, Approvers
  <2>2. CASE b = r
    <3>1. Approvers(r) = {}
      BY <1>2, <2>2 DEF Create, Approvers, Untouched
    <3>2. Level(r)' = 0 /\ L = Callers
      BY <1>2, <2>1, <2>2, <3>1, <1>k, FS_EmptySet DEF Create, Level, TypeOK
    <3> QED
      BY <2>1, <3>2, <1>z, <1>n DEF Granted
  <2>3. CASE b # r
    BY <1>2, <2>1, <2>3, <1>q DEF Create, Freed, TypeOK
  <2> QED
    BY <2>2, <2>3
<1>3. ASSUME NEW b \in Reminders, CreateDraft(b) \/ ComeDue(b) \/ Delete(b)
      PROVE  Granted(r)
  BY <1>3, <1>q DEF CreateDraft, ComeDue, Delete, Editors, Approvers, Freed, TypeOK
<1>4. ASSUME NEW q \in Requests, Cancel(q) PROVE Granted(r)
  <2>1. Editors(r)' = Editors(r) /\ Approvers(r)' = Approvers(r)
    BY <1>4 DEF Cancel, Respond, Free, Editors, Approvers, TypeOK
  <2> QED
    BY <1>4, <2>1, <1>q DEF Cancel, SaveStatus, Freed, TypeOK
<1>5. ASSUME NEW q \in Requests, Approve(q) PROVE Granted(r)
  <2>1. Editors(r)' = Editors(r) /\ edits' = edits
    BY <1>5 DEF Approve, Respond, Free, Editors, TypeOK
  <2>2. CASE q \in Approvers(r)
    <3>1. Approvers(r)' = Approvers(r) \ {q}
      BY <1>5, <2>2 DEF Approve, Respond, Free, Approvers, TypeOK
    <3>2. A = Cardinality(Approvers(r)') + 1
      BY <2>2, <3>1, <1>z, Drop
    <3>3. status'[r] \in {"absent", "draft"} => status'[r] = "absent" /\ L = Callers
      BY <1>5, <2>2 DEF Approve, SaveStatus, Approvers, IsDraft, Level, TypeOK
    <3>4. ~(status'[r] = "absent")
      BY <1>5, <2>2 DEF Approve, SaveStatus, Approvers, IsDraft, Untouched, TypeOK
    <3>5. Level(r)' + 1 <= L /\ Level(r)' \in Nat
      BY <3>2, <3>3, <3>4, <1>k, <1>l, <1>p
    <3> QED
      BY <2>1, <3>5, <1>l, <1>n DEF Granted
  <2>3. CASE q \notin Approvers(r)
    <3>1. Approvers(r)' = Approvers(r)
      BY <1>5, <2>3 DEF Approve, Respond, Free, Approvers, TypeOK
    <3>2. status'[r] = status[r]
      BY <1>5, <2>3 DEF Approve, SaveStatus, IsDraft, Approvers, TypeOK
    <3> QED
      BY <2>1, <3>1, <3>2, <1>q DEF Freed
  <2> QED
    BY <2>2, <2>3
<1>6. ASSUME NEW q \in Requests, Edit(q) PROVE Granted(r)
  <2>1. Approvers(r)' = Approvers(r) /\ edits' = edits
    BY <1>6 DEF Edit, Respond, Free, Approvers, TypeOK
  <2>2. CASE q \in Editors(r)
    <3>1. Editors(r)' = Editors(r) \ {q}
      BY <1>6, <2>2 DEF Edit, Respond, Free, Editors, TypeOK
    <3>2. E = Cardinality(Editors(r)') + 1
      BY <2>2, <3>1, <1>z, Drop
    <3>3. Callers * E = Callers * Cardinality(Editors(r)') + Callers
      BY <3>2, <1>z, <1>p, Products
    <3>4. Callers * Cardinality(Editors(r)') \in Nat
      BY <1>z, <1>p, Products
    <3>5. CASE status'[r] = "pending"
      <4>1. Level(r)' = A
        BY <3>5, <2>1, <1>k
      <4> QED
        BY <2>1, <3>3, <3>4, <4>1, <1>l, <1>n, <1>z DEF Granted
    <3>6. CASE status'[r] # "pending"
      <4>1. Level(r)' <= Callers /\ Level(r)' \in Nat
        BY <1>k, <1>p, <1>z
      <4> QED
        BY <2>1, <3>3, <3>4, <3>6, <4>1, <1>l, <1>n, <1>z DEF Granted, Freed
    <3> QED
      BY <3>5, <3>6
  <2>3. CASE q \notin Editors(r)
    <3>1. Editors(r)' = Editors(r) /\ status'[r] = status[r]
      BY <1>6, <2>3 DEF Edit, Respond, Free, Editors, TypeOK
    <3> QED
      BY <2>1, <3>1, <1>q DEF Freed
  <2> QED
    BY <2>2, <2>3
<1>7. ASSUME NEW q \in Requests, NEW op \in Operations, NEW b \in Reminders,
             GetObject(q, op, b)
      PROVE  Granted(r)
  <2>0. status' = status
    BY <1>7 DEF GetObject
  <2>1. CASE op = "edit" /\ b = r
    <3>1. /\ Approvers(r)' = Approvers(r) /\ Editors(r)' = Editors(r) \cup {q}
          /\ q \notin Editors(r) /\ edits' = edits + 1
      BY <1>7, <2>1 DEF GetObject, Free, Approvers, Editors, TypeOK
    <3>2. Cardinality(Editors(r)') = E + 1
      BY <3>1, <1>z, Grow
    <3>3. /\ Callers * Cardinality(Editors(r)') = Callers * E + Callers
          /\ Callers * edits' = Callers * edits + Callers
      BY <3>1, <3>2, <1>z, <1>n, Products
    <3>4. Level(r)' = L
      BY <2>0, <3>1, <1>k DEF Level
    <3>5. \A l, x, y, c \in Nat : 0 + l + (x + c) + y <= l + x + (y + c)
      OBVIOUS
    <3>6. 0 + L + (Callers * E + Callers) + Callers * edits
            <= L + Callers * E + (Callers * edits + Callers)
      BY <3>5, <1>l, <1>n, <1>z
    <3>7. (IF Freed(r) THEN 1 ELSE 0) = 0
      BY <2>0 DEF Freed
    <3> QED
      BY <3>3, <3>4, <3>6, <3>7 DEF Granted
  <2>2. CASE op # "edit" \/ b # r
    <3>1. /\ Editors(r)' = Editors(r) /\ edits' \in {edits, edits + 1}
          /\ status[r] # "draft" => Approvers(r)' = Approvers(r)
      BY <1>7, <2>2 DEF GetObject, Free, Approvers, Editors, TypeOK
    <3>2. Callers * edits' \in Nat /\ Callers * edits <= Callers * edits'
      <4>1. Callers * (edits + 1) = Callers * edits + Callers
        BY <1>z, <1>n, Products
      <4>2. CASE edits' = edits
        BY <4>2, <1>z, <1>n
      <4>3. CASE edits' = edits + 1
        BY <4>1, <4>3, <1>z, <1>n
      <4> QED
        BY <3>1, <4>2, <4>3
    <3>3. Level(r)' = L
      BY <2>0, <3>1, <1>k DEF Level
    <3> QED
      BY <2>0, <3>1, <3>2, <3>3, <1>l, <1>n DEF Granted, Freed
  <2> QED
    BY <2>1, <2>2
<1>8. ASSUME NEW s \in Scans, ScanStep(s) \/ ScanFails(s) PROVE Granted(r)
  <2>1. UNCHANGED <<request, edits>>
    BY <1>8 DEF ScanStep, BeginScan, EndScan, Send, SendImpossible, Save, Audit,
      NextRow, ScanFails, Abort
  <2>2. status'[r] = status[r] \/ status'[r] = "sent"
    BY <1>8 DEF ScanStep, BeginScan, EndScan, Send, SendImpossible, Save, MarkSent,
      Audit, NextRow, ScanFails, Abort, TypeOK
  <2>3. Editors(r)' = Editors(r) /\ Approvers(r)' = Approvers(r)
    BY <2>1 DEF Editors, Approvers
  <2> QED
    BY <2>1, <2>2, <2>3, <1>q DEF Freed
<1> QED
  BY <1>1, <1>2, <1>3, <1>4, <1>5, <1>6, <1>7, <1>8 DEF Next, RequestStep

\* After a step the same releases explain the mails, or one release more.
LEMMA SpentStep ==
  ASSUME TypeOK, Parted, TypeOK', Parted', NEW r \in Reminders, Charged(r),
         NEW n \in Nat, Spent(r, n)
  PROVE  IF Freed(r) THEN Spent(r, n + 1)' ELSE Spent(r, n)'
<1> DEFINE M == Cardinality(Mailing(r))
           W == Cardinality(Waiting(r))
           M1 == Cardinality(Mailing(r)')
           W1 == Cardinality(Waiting(r)')
<1>1. /\ M \in Nat /\ W \in Nat /\ Crew \in Nat /\ M + W <= Crew
  BY Sizes
<1>2. M1 \in Nat /\ W1 \in Nat
  <2>1. /\ Mailing(r)' \in SUBSET Scans /\ Waiting(r)' \in SUBSET Scans
    BY DEF Mailing, Waiting
  <2> QED
    BY <2>1, Within, ProcessAssumption
<1>3. /\ mails[r] \in Nat /\ mails'[r] \in Nat /\ faults \in Nat /\ faults' \in Nat
  BY DEF TypeOK
<1>4. PICK p \in Nat : p = Crew * n /\ Crew * (n + 1) = p + Crew
  BY <1>1, Products
<1>5. \A k \in Nat :
        Spent(r, k)' <=> IF status'[r] = "pending"
                         THEN mails'[r] + Crew <= Crew * k + faults' + M1
                         ELSE mails'[r] + W1 <= Crew * k + faults'
  BY DEF Spent, Crew
<1>6. /\ Spent(r, n)' <=> IF status'[r] = "pending"
                          THEN mails'[r] + Crew <= p + faults' + M1
                          ELSE mails'[r] + W1 <= p + faults'
      /\ Spent(r, n + 1)' <=> IF status'[r] = "pending"
                              THEN mails'[r] + Crew <= p + Crew + faults' + M1
                              ELSE mails'[r] + W1 <= p + Crew + faults'
      /\ n + 1 \in Nat
  BY <1>4, <1>5
<1>7. CASE status[r] = "pending"
  <2>1. mails[r] + Crew <= p + faults + M
    BY <1>4, <1>7 DEF Spent
  <2> QED
    BY <2>1, <1>1, <1>2, <1>3, <1>4, <1>6, <1>7 DEF Charged, Freed
<1>8. CASE status[r] # "pending"
  <2>1. mails[r] + W <= p + faults
    BY <1>4, <1>8 DEF Spent
  <2> QED
    BY <2>1, <1>1, <1>2, <1>3, <1>4, <1>6, <1>8 DEF Charged, Freed
<1> QED
  BY <1>7, <1>8

LEMMA ReleasesStep ==
  ASSUME TypeOK, Parted, TypeOK', Parted', NEW r \in Reminders, Granted(r),
         NEW n \in Nat, Releases(r, n)
  PROVE  IF Freed(r) THEN Releases(r, n + 1)' ELSE Releases(r, n)'
<1> DEFINE E == Cardinality(Editors(r))
           E1 == Cardinality(Editors(r)')
           L == Level(r)
           L1 == Level(r)'
<1>1. /\ E \in Nat /\ Callers \in Nat /\ L \in Nat
  BY Sizes DEF Level
<1>2. E1 \in Nat /\ L1 \in Nat
  <2>1. Approvers(r)' \in SUBSET Requests /\ Editors(r)' \in SUBSET Requests
    BY DEF Approvers, Editors
  <2>2. E1 \in Nat /\ Cardinality(Approvers(r)') \in Nat
    BY <2>1, Within, ProcessAssumption
  <2>3. L1 = IF status'[r] \in {"absent", "draft"}
             THEN Callers ELSE Cardinality(Approvers(r)')
    BY DEF Level, Callers
  <2> QED
    BY <1>1, <2>2, <2>3
<1>3. edits \in Nat /\ edits' \in Nat
  BY DEF TypeOK
<1>4. PICK x \in Nat : x = Callers * E
  BY <1>1, Products
<1>5. PICK x1 \in Nat : x1 = Callers * E1
  BY <1>1, <1>2, Products
<1>6. PICK y \in Nat : y = Callers * edits /\ Callers * (1 + edits) = y + Callers
  BY <1>1, <1>3, Products
<1>7. PICK y1 \in Nat : y1 = Callers * edits' /\ Callers * (1 + edits') = y1 + Callers
  BY <1>1, <1>3, Products
<1>8. \A k \in Nat : Releases(r, k)' <=> k + L1 + x1 <= y1 + Callers
  BY <1>5, <1>7 DEF Releases, Callers
<1>9. n + L + x <= y + Callers
  BY <1>4, <1>6 DEF Releases
<1>10. CASE Freed(r)
  <2>1. 1 + L1 + x1 + y <= L + x + y1
    BY <1>4, <1>5, <1>6, <1>7, <1>10 DEF Granted
  <2> QED
    BY <2>1, <1>1, <1>2, <1>8, <1>9, <1>10
<1>11. CASE ~Freed(r)
  <2>1. 0 + L1 + x1 + y <= L + x + y1
    BY <1>4, <1>5, <1>6, <1>7, <1>11 DEF Granted
  <2> QED
    BY <2>1, <1>1, <1>2, <1>8, <1>9, <1>11
<1> QED
  BY <1>10, <1>11

\* Nothing was mailed yet, and nobody holds anything.
LEMMA CausedInit == Init => Parted /\ Caused
<1> SUFFICES ASSUME Init PROVE Parted /\ Caused
  OBVIOUS
<1>1. TypeOK /\ Parted
  BY InitIInv, NoneAssumption DEF IInv, Init, Parted
<1>2. ASSUME NEW r \in Reminders PROVE Spent(r, 0) /\ Releases(r, 0)
  <2>1. Waiting(r) = {} /\ Editors(r) = {}
    BY NoneAssumption DEF Init, Waiting, Editors, Free
  <2>2. Cardinality(Waiting(r)) = 0 /\ Cardinality(Editors(r)) = 0
    BY <2>1, FS_EmptySet
  <2>3. Crew \in Nat /\ Callers \in Nat
    BY <1>1, <1>2, Sizes
  <2>4. /\ Crew * 0 = 0 /\ Callers * 0 = 0 /\ Callers * (1 + 0) = Callers
        /\ status[r] = "absent" /\ mails[r] = 0 /\ faults = 0 /\ edits = 0
    BY <2>3, <1>2 DEF Init
  <2> QED
    BY <2>2, <2>3, <2>4 DEF Spent, Releases, Level
<1> QED
  BY <1>1, <1>2 DEF Caused

LEMMA CausedStep ==
  TypeOK /\ Untouched /\ Parted /\ Caused /\ TypeOK' /\ [Next]_vars
    => Parted' /\ Caused'
<1> SUFFICES ASSUME TypeOK, Untouched, Parted, Caused, TypeOK', [Next]_vars
             PROVE  Parted' /\ Caused'
  OBVIOUS
<1>1. Parted'
  BY PartedStep
<1>2. ASSUME NEW r \in Reminders
      PROVE  \E n \in Nat : Spent(r, n)' /\ Releases(r, n)'
  <2>1. PICK n \in Nat : Spent(r, n) /\ Releases(r, n)
    BY DEF Caused
  <2>2. Charged(r) /\ Granted(r)
    BY <1>1, ChargedStep, GrantedStep
  <2>3. IF Freed(r) THEN Spent(r, n + 1)' ELSE Spent(r, n)'
    BY <1>1, <2>1, <2>2, SpentStep
  <2>4. IF Freed(r) THEN Releases(r, n + 1)' ELSE Releases(r, n)'
    BY <1>1, <2>1, <2>2, ReleasesStep
  <2>5. n + 1 \in Nat
    OBVIOUS
  <2> QED
    BY <2>3, <2>4, <2>5
<1> QED
  BY <1>1, <1>2 DEF Caused

\* However requests, edits, failures and overlapping scans interleave, a
\* reminder is mailed no more often than the releases they explain, times the
\* scans that may hold it, and once more for each scan that failed.
THEOREM RepeatsHaveACauseHolds == Spec => []RepeatsHaveACause
<1>1. TypeOK /\ Parted /\ Caused => RepeatsHaveACause
  <2> SUFFICES ASSUME TypeOK, Parted, Caused, NEW r \in Reminders
               PROVE  mails[r] <= Crew * (Callers * (1 + edits)) + faults
    BY DEF RepeatsHaveACause, Crew, Callers
  <2>1. PICK n \in Nat : Spent(r, n) /\ Releases(r, n)
    BY DEF Caused
  <2>2. /\ Crew \in Nat /\ Callers \in Nat /\ Level(r) \in Nat
        /\ Cardinality(Editors(r)) \in Nat /\ Cardinality(Mailing(r)) \in Nat
        /\ Cardinality(Waiting(r)) \in Nat
        /\ Cardinality(Mailing(r)) + Cardinality(Waiting(r)) <= Crew
    BY Sizes DEF Level
  <2>3. edits \in Nat /\ faults \in Nat /\ mails[r] \in Nat
    BY DEF TypeOK
  <2>4. PICK m \in Nat : m = Callers * (1 + edits)
    BY <2>2, <2>3, Products
  <2>5. PICK x \in Nat : x = Callers * Cardinality(Editors(r))
    BY <2>2, Products
  <2>6. n <= m
    <3>1. n + Level(r) + x <= m
      BY <2>1, <2>4, <2>5 DEF Releases
    <3> QED
      BY <3>1, <2>2
  <2>7. PICK p \in Nat : p = Crew * n
    BY <2>2, Products
  <2>8. PICK t \in Nat : t = Crew * m /\ p <= t
    <3>1. Crew * m = Crew * n + Crew * (m - n) /\ m - n \in Nat
      BY <2>2, <2>6
    <3>2. Crew * (m - n) \in Nat /\ Crew * n \in Nat
      BY <2>2, <3>1, Products
    <3> QED
      BY <2>7, <3>1, <3>2
  <2>9. mails[r] <= p + faults
    BY <2>1, <2>2, <2>3, <2>7 DEF Spent
  <2> QED
    BY <2>3, <2>4, <2>8, <2>9
<1>2. TypeOK /\ Untouched /\ Parted /\ Caused /\ TypeOK' /\ [Next]_vars
        => Parted' /\ Caused'
  BY CausedStep
<1>3. IInv => TypeOK /\ Untouched
  BY DEF IInv
<1> QED
  BY <1>1, <1>2, <1>3, CausedInit, Inductive, PTL DEF Spec
==============================================================================
