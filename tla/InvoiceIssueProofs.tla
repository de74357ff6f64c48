-------------------------- MODULE InvoiceIssueProofs --------------------------
(***************************************************************************)
(* Proofs about InvoiceIssue: for any number of processes, issues, edits,   *)
(* failures and changes of the integrations, an issued row is backed by     *)
(* what the vendors were told, and what they were told and no row speaks of *)
(* is due to failures.                                                      *)
(***************************************************************************)
EXTENDS InvoiceIssue, FiniteSetTheorems, SequenceTheorems, TLAPS

\* What the database makes of an amount is an amount, and stays as it is.
LEMMA Rounded ==
  ASSUME NEW x \in Nat
  PROVE  Column(x) \in Nat /\ Column(Column(x)) = Column(x)
<1>1. PICK k \in Nat : k = (x + 50) \div 100
  OBVIOUS
<1>2. (100 * k + 50) \div 100 = k
  OBVIOUS
<1> QED
  BY <1>1, <1>2 DEF Column

LEMMA NothingRounded == Column(0) = 0
  BY DEF Column

\* No copy is no row, and a draft of some total is one.
LEMMA NoCopy == NoRow \notin Row
  BY DEF NoRow, Row

LEMMA DraftRow ==
  ASSUME NEW t \in Nat
  PROVE  /\ Draft(t) \in Row
         /\ Draft(t).status = "draft" /\ Draft(t).total = t /\ Draft(t).lines = 0
  BY DEF Draft, NoRow, Row

\* What saving a copy does to it.
LEMMA SavedRow ==
  ASSUME row \in Row \cup {NoRow}, NEW x \in Row, NEW y, y = Saved(x)
  PROVE  /\ y \in Row
         /\ y.status = x.status /\ y.pdf = x.pdf /\ y.vendor = x.vendor
         /\ y.due = x.due /\ y.push = x.push
         /\ y.total = Column(x.lines) /\ y.lines = row.lines
<1>1. Column(x.lines) \in Nat
  BY Rounded DEF Row
<1>2. row.lines \in Nat
  BY DEF Row, NoRow
<1> HIDE DEF Column
<1> QED
  BY <1>1, <1>2 DEF Saved, Row

\* What an issue makes of its copy.
LEMMA IssuedRow ==
  ASSUME NEW i \in Issuers, copy[i] \in Row, push[i] \in Nat,
         billed[push[i]] \in Bill
  PROVE  /\ WholeCopy(i) \in Row
         /\ WholeCopy(i).status = "issued" /\ WholeCopy(i).pdf = TRUE
         /\ WholeCopy(i).due = copy[i].due /\ WholeCopy(i).lines = copy[i].lines
         /\ WholeCopy(i).vendor = billed[push[i]].id
         /\ WholeCopy(i).push = push[i]
  BY DEF WholeCopy, Row, Bill

\* What an edit makes of its copy.
LEMMA EditedRow ==
  ASSUME NEW x \in Row, NEW d \in Nat, NEW y, y = [x EXCEPT !.due = d]
  PROVE  /\ y \in Row
         /\ y.status = x.status /\ y.pdf = x.pdf /\ y.vendor = x.vendor
         /\ y.due = d /\ y.push = x.push /\ y.lines = x.lines
  BY DEF Row

\* A push adds an entry to the books of the billing system.
LEMMA Pushed ==
  ASSUME TypeOK, NEW i \in Issuers, NEW id \in Nat, Push(i, id)
  PROVE  /\ billed' \in Seq(Bill) /\ Len(billed) \in Nat
         /\ Len(billed') = Len(billed) + 1
         /\ \A n \in 1..Len(billed) : billed'[n] = billed[n]
         /\ billed'[Len(billed')].due = copy[i].due
         /\ billed'[Len(billed')].total = copy[i].total
<1> DEFINE e == [due |-> copy[i].due, total |-> copy[i].total, id |-> id]
<1>1. copy[i] \in Row
  BY DEF Push, TypeOK
<1>2. e \in Bill /\ billed \in Seq(Bill) /\ e.due = copy[i].due /\ e.total = copy[i].total
  BY <1>1 DEF Row, Bill, TypeOK
<1>3. billed' = Append(billed, e)
  BY DEF Push
<1> HIDE DEF e
<1> QED
  BY <1>2, <1>3, AppendProperties, LenProperties

LEMMA Ids ==
  ASSUME TypeOK, NEW i \in Issuers, PushInvoice(i)
  PROVE  \E id \in Nat : Push(i, id)
<1>1. Len(billed) + 1 \in Nat
  BY LenProperties DEF TypeOK
<1> QED
  BY <1>1 DEF PushInvoice

\* A call of a vendor keeps the ranges of what the vendors know.
LEMMA Told ==
  ASSUME TypeOK, NEW i \in Issuers,
         Store(i) \/ (\E id \in Nat : Push(i, id)) \/ Mail(i) \/ Post(i) \/ UNCHANGED worldVars
  PROVE  /\ stored' \in BOOLEAN /\ billed' \in Seq(Bill)
         /\ mailed' \in Nat /\ posted' \in Nat
         /\ Len(billed') \in Nat /\ Len(billed) \in Nat /\ Len(billed') >= Len(billed)
         /\ \A n \in 1..Len(billed) : billed'[n] = billed[n]
<1>0. Len(billed) \in Nat
  BY LenProperties DEF TypeOK
<1>1. ASSUME NEW id \in Nat, Push(i, id)
      PROVE  /\ stored' = stored /\ mailed' = mailed /\ posted' = posted
             /\ billed' \in Seq(Bill) /\ Len(billed') = Len(billed) + 1
             /\ \A n \in 1..Len(billed) : billed'[n] = billed[n]
  BY <1>1, Pushed DEF Push
<1>2. CASE Store(i)
  BY <1>0, <1>2 DEF Store, TypeOK
<1>3. CASE Mail(i)
  BY <1>0, <1>3 DEF Mail, TypeOK
<1>4. CASE Post(i)
  BY <1>0, <1>4 DEF Post, TypeOK
<1>5. CASE UNCHANGED worldVars
  BY <1>0, <1>5 DEF worldVars, TypeOK
<1>6. CASE \E id \in Nat : Push(i, id)
  <2>1. /\ stored' = stored /\ mailed' = mailed /\ posted' = posted
        /\ billed' \in Seq(Bill) /\ Len(billed') = Len(billed) + 1
        /\ \A n \in 1..Len(billed) : billed'[n] = billed[n]
    BY <1>1, <1>6
  <2> QED
    BY <1>0, <2>1 DEF TypeOK
<1> QED
  BY <1>2, <1>3, <1>4, <1>5, <1>6

\* Every step keeps the ranges.
LEMMA TypeStep == TypeOK /\ [Next]_vars => TypeOK'
<1> SUFFICES ASSUME TypeOK, [Next]_vars PROVE TypeOK'
  OBVIOUS
<1> USE BoundAssumption, ChangesAssumption, ProcessAssumption DEF Stages
<1>0. Len(billed) \in Nat
  BY LenProperties DEF TypeOK
<1>w. ASSUME UNCHANGED <<stored, billed, mailed, posted>>
      PROVE  stored' \in BOOLEAN /\ billed' \in Seq(Bill) /\ mailed' \in Nat /\ posted' \in Nat
  BY <1>w DEF TypeOK
<1>1. ASSUME NEW i \in Issuers, NEW next \in Stages \ {"idle", "mailing", "chatting", "saving"},
             Start(i, next), row' \in Row \cup {NoRow}, row' # NoRow,
             creation' \in {"none", "partial", "complete", "early"},
             \E x \in Row : copy' = [copy EXCEPT ![i] = x]
      PROVE  TypeOK'
  BY <1>1, NoCopy DEF Start, integrationVars, worldVars, logVars, TypeOK
<1>2. ASSUME Enter PROVE TypeOK'
  BY <1>2, DraftRow DEF Enter, counters, integrationVars, worldVars, logVars, TypeOK
<1>3. ASSUME NEW i \in Issuers, CreateInvoice(i) PROVE TypeOK'
  <2>1. Draft(0) \in Row
    BY DraftRow
  <2> HIDE DEF Draft
  <2> QED
    BY <1>1, <1>3, <2>1, NoCopy DEF CreateInvoice
<1>4. ASSUME NEW i \in Issuers, AddLines(i) PROVE TypeOK'
  <2>1. copy[i] \in Row /\ stage[i] = "lining"
    BY <1>4 DEF AddLines, TypeOK
  <2>2. [copy[i] EXCEPT !.lines = LineSum] \in Row
    BY <2>1 DEF Row
  <2>3. row \in Row
    BY <2>1, NoCopy DEF TypeOK
  <2>r. row' \in Row
    BY <1>4, <2>3 DEF AddLines, Row
  <2>4. /\ stage' \in [Issuers -> Stages]
        /\ copy' \in [Issuers \cup Editors -> Row \cup {NoRow}]
    BY <1>4, <2>1, <2>2 DEF AddLines, TypeOK
  <2>5. \A j \in Issuers : /\ stage'[j] = "idle" <=> copy'[j] = NoRow
                           /\ stage'[j] \in {"mailing", "chatting", "saving"} =>
                                push'[j] \in 1..Len(billed')
    BY <1>4, <2>1, <2>2, NoCopy DEF AddLines, TypeOK, worldVars
  <2> QED
    BY <1>4, <2>r, <2>4, <2>5, NoCopy
    DEF AddLines, counters, integrationVars, worldVars, logVars, TypeOK
<1>5. ASSUME NEW i \in Issuers, SaveTotal(i) PROVE TypeOK'
  <2>1. copy[i] \in Row /\ stage[i] = "summing"
    BY <1>5 DEF SaveTotal, TypeOK
  <2>2. [copy[i] EXCEPT !.total = copy[i].lines] \in Row
    BY <2>1 DEF Row
  <2>3. row' \in Row
    BY <1>5, <2>1, SavedRow DEF SaveTotal, TypeOK
  <2> QED
    BY <1>5, <2>1, <2>2, <2>3, NoCopy
    DEF SaveTotal, counters, integrationVars, worldVars, logVars, TypeOK
<1>6. ASSUME NEW i \in Issuers, Load(i) PROVE TypeOK'
  <2>1. row \in Row /\ row' = row /\ row' # NoRow
    BY <1>6, NoCopy DEF Load, Take, TypeOK
  <2>2. creation' \in {"none", "partial", "complete", "early"}
    BY <1>6 DEF Load, Take, TypeOK
  <2> QED
    BY <1>1, <1>6, <2>1, <2>2 DEF Load, Take
<1>7. ASSUME NEW i \in Issuers, StorePdf(i) PROVE TypeOK'
  BY <1>7 DEF StorePdf, Store, Proceed, counters, integrationVars, logVars, TypeOK
<1>8. ASSUME NEW i \in Issuers, PushInvoice(i) PROVE TypeOK'
  <2>1. PICK id \in Nat : Push(i, id)
    BY <1>8, Ids
  <2>2. billed' \in Seq(Bill) /\ Len(billed') = Len(billed) + 1
    BY <2>1, Pushed
  <2>3. push' = [push EXCEPT ![i] = Len(billed')] /\ push' \in [Issuers -> Nat]
    BY <1>0, <1>8, <2>2 DEF PushInvoice, TypeOK
  <2>4. stage' = [stage EXCEPT ![i] = "mailing"] /\ stage[i] = "billing"
        /\ stage' \in [Issuers -> Stages]
    BY <1>8, <2>1 DEF PushInvoice, Proceed, Push, TypeOK
  <2>5. /\ row' = row /\ creation' = creation /\ copy' = copy /\ stored' = stored
        /\ mailed' = mailed /\ posted' = posted /\ audits' = audits
        /\ reminders' = reminders /\ amended' = amended /\ issues' = issues
        /\ edits' = edits /\ failures' = failures /\ config' = config
        /\ changes' = changes
    BY <1>8, <2>1 DEF PushInvoice, Proceed, Push, counters, integrationVars, logVars
  <2>6. ASSUME NEW j \in Issuers
        PROVE  /\ stage'[j] = "idle" <=> copy'[j] = NoRow
               /\ stage'[j] \in {"mailing", "chatting", "saving"} => push'[j] \in 1..Len(billed')
    <3>1. CASE j = i
      BY <1>0, <2>2, <2>3, <2>4, <2>5, <3>1 DEF TypeOK
    <3>2. CASE j # i
      BY <1>0, <2>2, <2>3, <2>4, <2>5, <3>2 DEF TypeOK
    <3> QED
      BY <3>1, <3>2
  <2> QED
    BY ONLY TypeOK, <2>2, <2>3, <2>4, <2>5, <2>6 DEF TypeOK
<1>9. ASSUME NEW i \in Issuers, MailClient(i) PROVE TypeOK'
  BY <1>9 DEF MailClient, Mail, Proceed, counters, integrationVars, logVars, TypeOK
<1>10. ASSUME NEW i \in Issuers, PostToChat(i) PROVE TypeOK'
  BY <1>10 DEF PostToChat, Post, Proceed, counters, integrationVars, logVars, worldVars, TypeOK
<1>11. ASSUME NEW i \in Issuers, Commit(i) PROVE TypeOK'
  <2>1. copy[i] \in Row /\ push[i] \in Nat /\ billed[push[i]] \in Bill
    <3>1. copy[i] \in Row /\ push[i] \in 1..Len(billed) /\ billed \in Seq(Bill)
      BY <1>11 DEF Commit, TypeOK
    <3> QED
      BY <1>0, <3>1, ElementOfSeq
  <2>2. row' \in Row /\ copy[i].due \in Nat
    BY <1>11, <2>1, IssuedRow, SavedRow DEF Commit, TypeOK, Row
  <2>3. /\ stage' \in [Issuers -> Stages]
        /\ copy' \in [Issuers \cup Editors -> Row \cup {NoRow}]
        /\ push' \in [Issuers -> Nat]
    BY <1>11 DEF Commit, Forget, TypeOK
  <2>4. \A j \in Issuers :
          /\ stage'[j] = "idle" <=> copy'[j] = NoRow
          /\ stage'[j] \in {"mailing", "chatting", "saving"} => push'[j] \in 1..Len(billed')
    BY <1>11 DEF Commit, Forget, TypeOK, worldVars
  <2>5. audits' \in Nat /\ reminders' \in Seq(Nat) /\ amended' \in BOOLEAN
    <3>1. audits' = audits + 1 /\ amended' = FALSE
          /\ reminders' = Append(reminders, copy[i].due)
      BY <1>11 DEF Commit
    <3>2. audits \in Nat /\ reminders \in Seq(Nat)
      BY DEF TypeOK
    <3>3. Append(reminders, copy[i].due) \in Seq(Nat)
      BY <2>2, <3>2, AppendProperties
    <3>4. audits' \in Nat
      BY <3>1, <3>2
    <3> QED
      BY <3>1, <3>3, <3>4
  <2>6. /\ stored' = stored /\ billed' = billed /\ mailed' = mailed
        /\ posted' = posted /\ issues' = issues /\ edits' = edits
        /\ failures' = failures /\ config' = config /\ changes' = changes
        /\ creation' = creation
    BY <1>11 DEF Commit, counters, integrationVars, worldVars
  <2> QED
    BY ONLY TypeOK, NoCopy, <2>2, <2>3, <2>4, <2>5, <2>6 DEF TypeOK
<1>12. ASSUME NEW i \in Issuers, Abort(i), stage[i] # "idle",
              stored' \in BOOLEAN, billed' \in Seq(Bill), mailed' \in Nat, posted' \in Nat,
              Len(billed') \in Nat, Len(billed') >= Len(billed)
       PROVE  TypeOK'
  <2>1. /\ stage' \in [Issuers -> Stages]
        /\ copy' \in [Issuers \cup Editors -> Row \cup {NoRow}]
        /\ push' \in [Issuers -> Nat]
        /\ \A p \in Issuers \cup Editors : copy'[p] = copy[p] \/ copy'[p] = NoRow
    BY <1>12 DEF Abort, Forget, TypeOK
  <2>2. /\ row' = row /\ creation' = creation /\ audits' = audits
        /\ reminders' = reminders /\ amended' = amended /\ issues' = issues
        /\ edits' = edits /\ failures' = failures + 1 /\ config' = config
        /\ changes' = changes
    BY <1>12 DEF Abort, RollbackOnly, logVars, integrationVars
  <2>3. ASSUME NEW j \in Issuers
        PROVE  /\ stage'[j] = "idle" <=> copy'[j] = NoRow
               /\ stage'[j] \in {"mailing", "chatting", "saving"} => push'[j] \in 1..Len(billed')
    <3>1. CASE j = i
      BY <1>12, <3>1 DEF Abort, Forget, TypeOK
    <3>2. CASE j # i
      <4>1. stage'[j] = stage[j] /\ copy'[j] = copy[j] /\ push'[j] = push[j]
        BY <1>12, <3>2 DEF Abort, Forget, TypeOK
      <4>2. stage[j] \in {"mailing", "chatting", "saving"} => push[j] \in 1..Len(billed)
        BY DEF TypeOK
      <4>3. push[j] \in 1..Len(billed) => push[j] \in 1..Len(billed')
        BY <1>0, <1>12
      <4> QED
        BY <4>1, <4>2, <4>3 DEF TypeOK
    <3> QED
      BY <3>1, <3>2
  <2> QED
    BY <1>12, <2>1, <2>2, <2>3 DEF TypeOK
<1>13. ASSUME NEW i \in Issuers, AdapterMissing(i) PROVE TypeOK'
  <2>1. Abort(i) /\ stage[i] # "idle" /\ UNCHANGED <<stored, billed, mailed, posted>>
    BY <1>13 DEF AdapterMissing, Needed, worldVars
  <2>2. Len(billed') = Len(billed)
    BY <2>1
  <2> QED
    BY <1>0, <1>12, <1>w, <2>1, <2>2
<1>14. ASSUME NEW i \in Issuers, IssueFails(i) PROVE TypeOK'
  BY <1>12, <1>14, Told DEF IssueFails
<1>15. ASSUME NEW u \in Editors, LoadForEdit(u) PROVE TypeOK'
  <2>1. row \in Row
    BY <1>15 DEF LoadForEdit, Take, TypeOK
  <2> QED
    BY <1>15, <2>1 DEF LoadForEdit, Take, integrationVars, worldVars, logVars, TypeOK
<1>16. ASSUME NEW u \in Editors, SaveEdit(u) PROVE TypeOK'
  <2>1. row' \in Row
    BY <1>16, EditedRow, SavedRow DEF SaveEdit, TypeOK
  <2>2. /\ copy' \in [Issuers \cup Editors -> Row \cup {NoRow}] /\ amended' \in BOOLEAN
        /\ \A j \in Issuers : copy'[j] = copy[j]
    BY <1>16 DEF SaveEdit, TypeOK
  <2> QED
    BY <1>16, <2>1, <2>2, NoCopy
    DEF SaveEdit, counters, integrationVars, worldVars, logVars, TypeOK
<1>17. ASSUME NEW kind \in KindsUsed, NEW new \in Configurations, Reconfigure(kind, new),
              UNCHANGED <<row, creation, stage, copy, push, worldVars, logVars, amended, counters>>
       PROVE TypeOK'
  BY <1>17 DEF Reconfigure, counters, worldVars, logVars, TypeOK
<1>18. CASE UNCHANGED vars
  BY <1>18 DEF vars, counters, integrationVars, worldVars, logVars, TypeOK
<1> QED
  BY <1>2, <1>3, <1>4, <1>5, <1>6, <1>7, <1>8, <1>9, <1>10, <1>11, <1>13, <1>14, <1>15,
     <1>16, <1>17, <1>18
  DEF Next

\* The initial state has every variable in its range.
LEMMA TypeInit == Init => TypeOK
<1> SUFFICES ASSUME Init PROVE TypeOK
  OBVIOUS
<1>1. /\ row \in Row \cup {NoRow} /\ copy \in [Issuers \cup Editors -> Row \cup {NoRow}]
      /\ \A p \in Issuers \cup Editors : copy[p] = NoRow
  BY DEF Init
<1>2. /\ stage \in [Issuers -> Stages] /\ push \in [Issuers -> Nat]
      /\ \A i \in Issuers : stage[i] = "idle" /\ copy[i] = NoRow
  BY DEF Init, Stages
<1>3. billed \in Seq(Bill) /\ reminders \in Seq(Nat)
  BY DEF Init
<1>4. config \in [KindsUsed -> Configurations]
  BY DEF Init, IntegrationInit, Configurations
<1>5. /\ creation \in {"none", "partial", "complete", "early"}
      /\ amended \in BOOLEAN /\ stored \in BOOLEAN
  BY DEF Init
<1>6. /\ mailed \in Nat /\ posted \in Nat /\ audits \in Nat /\ failures \in Nat
      /\ issues \in 0..MaxIssues /\ edits \in 0..MaxEdits /\ changes \in 0..MaxChanges
  BY BoundAssumption, ChangesAssumption DEF Init, IntegrationInit
<1> QED
  BY <1>1, <1>2, <1>3, <1>4, <1>5, <1>6 DEF TypeOK

\* Every column, copy, call and counter keeps its range; a process that issues
\* holds a copy of the row exactly while it works, and past its push it knows
\* the entry it made.
THEOREM TypeCorrect == Spec => []TypeOK
  BY TypeInit, TypeStep, PTL DEF Spec

------------------------------------------------------------------------------
(* The inductive invariant.                                                  *)

\* An issued row, or a copy of one, is backed by the vendors and the logs.
Backed(x) ==
  x.status = "issued" =>
    /\ stored /\ x.pdf /\ mailed > 0
    /\ audits > 0 /\ reminders # <<>>
    /\ x.push \in 1..Len(billed) /\ x.vendor = billed[x.push].id

\* What a process has been through at its stage.
Known(i) ==
  /\ stage[i] \in {"billing", "mailing", "chatting", "saving"} => stored
  /\ stage[i] \in {"lining", "summing"} => copy[i].status = "draft"
  /\ stage[i] \in {"mailing", "chatting", "saving"} => billed[push[i]].due = copy[i].due
  /\ stage[i] \in {"chatting", "saving"} => mailed > 0

IInv ==
  /\ TypeOK
  /\ Backed(row) /\ \A u \in Editors : Backed(copy[u])
  /\ \A i \in Issuers : Known(i)
  /\ IssuedMatchesBilling

\* Nothing that was told or logged is ever taken back.
Grown ==
  /\ stored => stored'
  /\ mailed' >= mailed /\ audits' >= audits
  /\ reminders # <<>> => reminders' # <<>>
  /\ Len(billed') \in Nat /\ Len(billed) \in Nat /\ Len(billed') >= Len(billed)
  /\ \A n \in 1..Len(billed) : billed'[n] = billed[n]

LEMMA Monotone == TypeOK /\ [Next]_vars => Grown
<1> SUFFICES ASSUME TypeOK, [Next]_vars PROVE Grown
  OBVIOUS
<1>0. Len(billed) \in Nat /\ mailed \in Nat /\ audits \in Nat
  BY DEF TypeOK
<1>1. ASSUME billed' = billed, mailed' = mailed \/ mailed' = mailed + 1,
             stored' = stored \/ stored' = TRUE, UNCHANGED logVars
      PROVE  Grown
  BY <1>0, <1>1 DEF Grown, logVars
<1>2. ASSUME NEW i \in Issuers, NEW id \in Nat, Push(i, id), UNCHANGED logVars PROVE Grown
  <2>1. Len(billed') = Len(billed) + 1 /\ \A n \in 1..Len(billed) : billed'[n] = billed[n]
    BY <1>2, Pushed
  <2> QED
    BY <1>0, <1>2, <2>1 DEF Push, Grown, logVars
<1>3. ASSUME NEW i \in Issuers, StorePdf(i) \/ MailClient(i) \/ PostToChat(i) PROVE Grown
  BY <1>1, <1>3
  DEF StorePdf, MailClient, PostToChat, Store, Mail, Post, Proceed, worldVars
<1>4. ASSUME NEW i \in Issuers, PushInvoice(i) PROVE Grown
  BY <1>2, <1>4, Ids DEF PushInvoice, Proceed
<1>5. ASSUME NEW i \in Issuers, Commit(i) PROVE Grown
  <2>1. copy[i] \in Row
    BY <1>5 DEF Commit, TypeOK
  <2>2. copy[i].due \in Nat /\ reminders \in Seq(Nat)
    BY <2>1 DEF Row, TypeOK
  <2>3. reminders' # <<>>
    BY <1>5, <2>2, AppendProperties DEF Commit
  <2> QED
    BY <1>0, <1>5, <2>3 DEF Commit, Grown, worldVars
<1>6. ASSUME NEW i \in Issuers, IssueFails(i) PROVE Grown
  <2>1. CASE Push(i, 0)
    BY <1>2, <1>6, <2>1 DEF IssueFails, Abort, RollbackOnly
  <2>2. CASE ~Push(i, 0)
    BY <1>1, <1>6, <2>2 DEF IssueFails, Abort, RollbackOnly, Store, Mail, Post, worldVars
  <2> QED
    BY <2>1, <2>2
<1>7. ASSUME UNCHANGED <<worldVars, logVars>> PROVE Grown
  BY <1>1, <1>7 DEF worldVars
<1>8. ASSUME NEW i \in Issuers,
             CreateInvoice(i) \/ AddLines(i) \/ SaveTotal(i) \/ Load(i) \/ AdapterMissing(i)
      PROVE  Grown
  BY <1>7, <1>8 DEF CreateInvoice, AddLines, SaveTotal, Load, Start, AdapterMissing, Abort, RollbackOnly
<1>9. ASSUME NEW u \in Editors, LoadForEdit(u) \/ SaveEdit(u) PROVE Grown
  BY <1>7, <1>9 DEF LoadForEdit, SaveEdit
<1>10. CASE UNCHANGED vars
  BY <1>7, <1>10 DEF vars
<1>11. CASE UNCHANGED <<row, creation, stage, copy, push, worldVars, logVars, amended, counters>>
  BY <1>7, <1>11
<1>12. CASE Enter
  BY <1>7, <1>12 DEF Enter
<1> QED
  BY <1>3, <1>4, <1>5, <1>6, <1>8, <1>9, <1>10, <1>11, <1>12 DEF Next

\* Every step keeps the inductive invariant.
LEMMA InvStep == IInv /\ [Next]_vars => IInv'
<1> SUFFICES ASSUME IInv, [Next]_vars PROVE IInv'
  OBVIOUS
<1>0. TypeOK /\ TypeOK' /\ Grown
  BY TypeStep, Monotone DEF IInv
<1>n. /\ mailed \in Nat /\ mailed' \in Nat /\ audits \in Nat /\ audits' \in Nat
      /\ Len(billed) \in Nat /\ Len(billed') \in Nat
  BY <1>0 DEF TypeOK, Grown
<1>b. ASSUME NEW x, Backed(x), x.status = "issued"
      PROVE  /\ stored' /\ x.pdf /\ mailed' > 0
             /\ audits' > 0 /\ reminders' # <<>>
             /\ x.push \in 1..Len(billed') /\ x.vendor = billed'[x.push].id
  <2>1. stored' /\ x.pdf /\ reminders' # <<>>
    BY <1>0, <1>b DEF Backed, Grown
  <2>2. mailed > 0 /\ mailed' >= mailed /\ audits > 0 /\ audits' >= audits
    BY <1>0, <1>b DEF Backed, Grown
  <2>3. /\ x.push \in 1..Len(billed) /\ Len(billed') >= Len(billed)
        /\ x.vendor = billed[x.push].id /\ billed'[x.push] = billed[x.push]
    BY <1>0, <1>b DEF Backed, Grown
  <2>4. mailed' > 0 /\ audits' > 0
    BY <1>n, <2>2
  <2>5. x.push \in 1..Len(billed')
    BY <1>n, <2>3
  <2> QED
    BY <2>1, <2>3, <2>4, <2>5
<1>1. ASSUME row' = row PROVE Backed(row)'
  <2>1. CASE row.status = "issued"
    BY <1>1, <1>b, <2>1 DEF IInv, Backed
  <2>2. CASE row.status # "issued"
    BY <1>1, <2>2 DEF Backed
  <2> QED
    BY <2>1, <2>2
<1>2. ASSUME row' = row, amended' = amended PROVE IssuedMatchesBilling'
  BY <1>0, <1>2 DEF IInv, Backed, IssuedMatchesBilling, Grown
<1>3. ASSUME NEW u \in Editors, copy'[u] = copy[u] PROVE Backed(copy[u])'
  <2>1. CASE copy[u].status = "issued"
    BY <1>3, <1>b, <2>1 DEF IInv, Backed
  <2>2. CASE copy[u].status # "issued"
    BY <1>3, <2>2 DEF Backed
  <2> QED
    BY <2>1, <2>2
<1>4. ASSUME NEW j \in Issuers, stage'[j] = stage[j], copy'[j] = copy[j],
             push'[j] = push[j]
      PROVE  Known(j)'
  <2>1. Known(j) /\ (stored => stored') /\ mailed' >= mailed
    BY <1>0 DEF IInv, Grown
  <2>2. mailed > 0 => mailed' > 0
    BY <1>n, <2>1
  <2>3. stage[j] \in {"mailing", "chatting", "saving"} => billed'[push[j]] = billed[push[j]]
    BY <1>0 DEF Grown, TypeOK
  <2> QED
    BY <1>4, <2>1, <2>2, <2>3 DEF Known
<1>5. ASSUME NEW j \in Issuers, stage'[j] \in {"idle", "storing"} PROVE Known(j)'
  BY <1>5 DEF Known
<1>6. \A i \in Issuers, u \in Editors : i # u
  BY ProcessAssumption
<1> DEFINE Local(i) == /\ \A u \in Editors : copy'[u] = copy[u]
                       /\ \A j \in Issuers \ {i} :
                            /\ stage'[j] = stage[j] /\ copy'[j] = copy[j]
                            /\ push'[j] = push[j]
<1>7. ASSUME NEW i \in Issuers, Local(i), Known(i)', Backed(row)', IssuedMatchesBilling'
      PROVE  IInv'
  <2>1. \A j \in Issuers : Known(j)'
    BY <1>4, <1>7
  <2>2. \A u \in Editors : Backed(copy[u])'
    BY <1>3, <1>7
  <2> QED
    BY <1>0, <1>7, <2>1, <2>2 DEF IInv
<1>8. ASSUME NEW i \in Issuers, Local(i), Known(i)', row' = row, amended' = amended
      PROVE  IInv'
  BY <1>1, <1>2, <1>7, <1>8
<1>9. ASSUME row'.status = "draft" PROVE Backed(row)' /\ IssuedMatchesBilling'
  BY <1>9 DEF Backed, IssuedMatchesBilling
<1>e. CASE Enter
  <2>1. row'.status = "draft"
    BY <1>e, BoundAssumption, DraftRow DEF Enter
  <2>2. stage' = stage /\ copy' = copy /\ push' = push
    BY <1>e DEF Enter
  <2>3. \A j \in Issuers : Known(j)'
    BY <1>4, <2>2
  <2>4. \A u \in Editors : Backed(copy[u])'
    BY <1>3, <2>2
  <2> QED
    BY <1>0, <1>9, <2>1, <2>3, <2>4 DEF IInv
<1>c. ASSUME NEW i \in Issuers, CreateInvoice(i) PROVE IInv'
  <2>1. Draft(0).status = "draft"
    BY DraftRow
  <2> HIDE DEF Draft
  <2>2. row'.status = "draft" /\ copy'[i].status = "draft" /\ stage'[i] = "lining"
    BY <1>0, <1>c, <2>1 DEF CreateInvoice, Start, TypeOK
  <2>3. Local(i)
    BY <1>0, <1>6, <1>c DEF CreateInvoice, Start, TypeOK
  <2>4. Known(i)'
    BY <2>2 DEF Known
  <2> QED
    BY <1>7, <1>9, <2>2, <2>3, <2>4
<1>l. ASSUME NEW i \in Issuers, AddLines(i) PROVE IInv'
  <2>1. copy[i].status = "draft" /\ copy[i] \in Row
    BY <1>0, <1>l DEF AddLines, IInv, Known, TypeOK
  <2>2. copy'[i].status = "draft" /\ stage'[i] = "summing" /\ amended' = amended
        /\ billed' = billed
    BY <1>0, <1>l, <2>1 DEF AddLines, TypeOK, Row, worldVars
  <2>3. Local(i)
    BY <1>0, <1>6, <1>l DEF AddLines, TypeOK
  <2>4. Known(i)'
    BY <2>2 DEF Known
  <2>5. row \in Row
    BY <1>0, <2>1, NoCopy DEF TypeOK
  <2>6. /\ row'.status = row.status /\ row'.pdf = row.pdf /\ row'.vendor = row.vendor
        /\ row'.push = row.push /\ row'.due = row.due
    BY <1>l, <2>5 DEF AddLines, Row
  <2>7. Backed(row)'
    <3>1. CASE row.status = "issued"
      BY <1>b, <2>6, <3>1 DEF IInv, Backed
    <3>2. CASE row.status # "issued"
      BY <2>6, <3>2 DEF Backed
    <3> QED
      BY <3>1, <3>2
  <2>8. IssuedMatchesBilling'
    BY <2>2, <2>6 DEF IInv, IssuedMatchesBilling
  <2> QED
    BY <1>7, <2>3, <2>4, <2>7, <2>8
<1>s. ASSUME NEW i \in Issuers, SaveTotal(i) PROVE IInv'
  <2>1. copy[i].status = "draft" /\ copy[i] \in Row
    BY <1>0, <1>s DEF SaveTotal, IInv, Known, TypeOK
  <2>2. row'.status = "draft"
    BY <1>0, <1>s, <2>1, SavedRow DEF SaveTotal, TypeOK
  <2>3. Local(i) /\ stage'[i] = "storing"
    BY <1>0, <1>6, <1>s DEF SaveTotal, TypeOK
  <2> QED
    BY <1>5, <1>7, <1>9, <2>2, <2>3
<1>11. ASSUME NEW i \in Issuers, Load(i) PROVE IInv'
  <2>1. Local(i) /\ row' = row /\ amended' = amended /\ stage'[i] = "storing"
    BY <1>0, <1>6, <1>11 DEF Load, Take, Start, TypeOK
  <2> QED
    BY <1>5, <1>8, <2>1
<1>12. ASSUME NEW i \in Issuers, StorePdf(i) PROVE IInv'
  <2>1. Local(i) /\ row' = row /\ amended' = amended
    BY <1>0, <1>12 DEF StorePdf, Proceed, TypeOK
  <2>2. stage'[i] = "billing" /\ stored'
    BY <1>0, <1>12 DEF StorePdf, Store, Proceed, TypeOK
  <2>3. Known(i)'
    BY <2>2 DEF Known
  <2> QED
    BY <1>8, <2>1, <2>3
<1>13. ASSUME NEW i \in Issuers, PushInvoice(i) PROVE IInv'
  <2>p. PICK id \in Nat : Push(i, id)
    BY <1>0, <1>13, Ids
  <2>1. Local(i) /\ row' = row /\ amended' = amended
    BY <1>0, <1>13 DEF PushInvoice, Proceed, TypeOK
  <2>2. stage'[i] = "mailing" /\ copy' = copy
    BY <1>0, <1>13 DEF PushInvoice, Proceed, TypeOK
  <2>3. stored /\ stored' = stored
    BY <2>p DEF Push, IInv, Known
  <2>4. push'[i] = Len(billed')
    BY <1>0, <1>13 DEF PushInvoice, TypeOK
  <2>5. billed'[Len(billed')].due = copy[i].due
    BY <1>0, <2>p, Pushed
  <2>6. Known(i)'
    BY <2>2, <2>3, <2>4, <2>5 DEF Known
  <2> QED
    BY <1>8, <2>1, <2>6
<1>14. ASSUME NEW i \in Issuers, MailClient(i) PROVE IInv'
  <2>1. Local(i) /\ row' = row /\ amended' = amended
    BY <1>0, <1>14 DEF MailClient, Proceed, TypeOK
  <2>2. stage'[i] = "chatting" /\ copy' = copy /\ push' = push
    BY <1>0, <1>14 DEF MailClient, Proceed, TypeOK
  <2>3. stage[i] = "mailing" /\ mailed' = mailed + 1 /\ billed' = billed /\ stored' = stored
    BY <1>14 DEF MailClient, Mail
  <2>4. mailed' > 0
    BY <1>0, <2>3 DEF TypeOK
  <2>5. Known(i)'
    BY <2>2, <2>3, <2>4 DEF IInv, Known
  <2> QED
    BY <1>8, <2>1, <2>5
<1>15. ASSUME NEW i \in Issuers, PostToChat(i) PROVE IInv'
  <2>1. Local(i) /\ row' = row /\ amended' = amended
    BY <1>0, <1>15 DEF PostToChat, Proceed, TypeOK
  <2>2. stage'[i] = "saving" /\ copy' = copy /\ push' = push /\ stage[i] = "chatting"
    BY <1>0, <1>15 DEF PostToChat, Proceed, TypeOK
  <2>3. mailed' = mailed /\ billed' = billed /\ stored' = stored
    BY <1>15 DEF PostToChat, Post, worldVars
  <2>4. Known(i)'
    BY <2>2, <2>3 DEF IInv, Known
  <2> QED
    BY <1>8, <2>1, <2>4
<1>16. ASSUME NEW i \in Issuers, Commit(i) PROVE IInv'
  <2>1. Local(i) /\ stage'[i] = "idle"
    BY <1>0, <1>6, <1>16 DEF Commit, Forget, TypeOK
  <2>2. /\ copy[i] \in Row /\ push[i] \in Nat /\ push[i] \in 1..Len(billed)
        /\ billed \in Seq(Bill)
    BY <1>0, <1>16 DEF Commit, TypeOK
  <2>b. billed[push[i]] \in Bill
    BY <2>2, ElementOfSeq
  <2>3. /\ row'.status = "issued" /\ row'.pdf = TRUE /\ row'.due = copy[i].due
        /\ row'.push = push[i] /\ row'.vendor = billed[push[i]].id
    <3> DEFINE x == WholeCopy(i)
    <3>1. /\ x \in Row /\ x.status = "issued" /\ x.pdf = TRUE /\ x.due = copy[i].due
          /\ x.push = push[i] /\ x.vendor = billed[push[i]].id
      BY <2>2, <2>b, IssuedRow
    <3>2. row' = Saved(x) /\ row \in Row \cup {NoRow}
      BY <1>0, <1>16 DEF Commit, TypeOK
    <3> HIDE DEF x
    <3> QED
      BY <3>1, <3>2, SavedRow
  <2>4. billed[push[i]].due = copy[i].due /\ mailed > 0 /\ stored
    BY <1>16 DEF Commit, IInv, Known
  <2>5. copy[i].due \in Nat /\ reminders \in Seq(Nat) /\ audits \in Nat
    BY <1>0, <2>2 DEF Row, TypeOK
  <2>6. reminders' # <<>> /\ audits' > 0 /\ billed' = billed /\ mailed' = mailed /\ stored' = stored
    BY <1>16, <2>5, AppendProperties DEF Commit, worldVars
  <2>7. Backed(row)' /\ IssuedMatchesBilling'
    BY <2>2, <2>3, <2>4, <2>6 DEF Backed, IssuedMatchesBilling
  <2> QED
    BY <1>5, <1>7, <2>1, <2>7
<1>17. ASSUME NEW i \in Issuers, AdapterMissing(i) \/ IssueFails(i) PROVE IInv'
  <2>1. Abort(i)
    BY <1>17 DEF AdapterMissing, IssueFails
  <2>2. Local(i) /\ row' = row /\ amended' = amended /\ stage'[i] = "idle"
    BY <1>0, <1>6, <2>1 DEF Abort, RollbackOnly, Forget, TypeOK
  <2> QED
    BY <1>5, <1>8, <2>2
<1>18. ASSUME stage' = stage, push' = push, \A i \in Issuers : copy'[i] = copy[i]
       PROVE  \A i \in Issuers : Known(i)'
  BY <1>4, <1>18
<1>19. ASSUME NEW u \in Editors, LoadForEdit(u) PROVE IInv'
  <2>1. \A i \in Issuers : Known(i)'
    BY <1>0, <1>6, <1>18, <1>19 DEF LoadForEdit, Take, TypeOK
  <2>2. ASSUME NEW v \in Editors PROVE Backed(copy[v])'
    <3>1. CASE v = u
      <4>1. copy'[u] = row /\ row' = row
        BY <1>0, <1>19 DEF LoadForEdit, Take, TypeOK
      <4> QED
        BY <1>1, <3>1, <4>1 DEF Backed
    <3>2. CASE v # u
      BY <1>0, <1>3, <1>19, <3>2 DEF LoadForEdit, Take, TypeOK
    <3> QED
      BY <3>1, <3>2
  <2> QED
    BY <1>0, <1>1, <1>2, <1>19, <2>1, <2>2 DEF IInv, LoadForEdit, Take
<1>20. ASSUME NEW u \in Editors, SaveEdit(u) PROVE IInv'
  <2>1. \A i \in Issuers : Known(i)'
    BY <1>0, <1>6, <1>18, <1>20 DEF SaveEdit, TypeOK
  <2>2. copy[u] \in Row /\ edits \in Nat
    BY <1>0, <1>20, BoundAssumption DEF SaveEdit, TypeOK
  <2>3. /\ row'.status = copy[u].status /\ row'.pdf = copy[u].pdf
        /\ row'.vendor = copy[u].vendor /\ row'.push = copy[u].push
    <3> DEFINE x == [copy[u] EXCEPT !.due = edits]
    <3>1. /\ x \in Row /\ x.status = copy[u].status /\ x.pdf = copy[u].pdf
          /\ x.vendor = copy[u].vendor /\ x.push = copy[u].push
      BY <2>2, EditedRow
    <3>2. row' = Saved(x) /\ row \in Row \cup {NoRow}
      BY <1>0, <1>20 DEF SaveEdit, TypeOK
    <3> HIDE DEF x
    <3> QED
      BY <3>1, <3>2, SavedRow
  <2>4. Backed(row)'
    <3>1. CASE copy[u].status = "issued"
      BY <1>b, <2>3, <3>1 DEF IInv, Backed
    <3>2. CASE copy[u].status # "issued"
      BY <2>3, <3>2 DEF Backed
    <3> QED
      BY <3>1, <3>2
  <2>5. IssuedMatchesBilling'
    BY <1>20, <2>3 DEF SaveEdit, IssuedMatchesBilling
  <2>6. ASSUME NEW v \in Editors PROVE Backed(copy[v])'
    <3>1. CASE v = u
      <4>1. copy'[u] = NoRow
        BY <1>0, <1>20 DEF SaveEdit, TypeOK
      <4> QED
        BY <3>1, <4>1 DEF Backed, NoRow
    <3>2. CASE v # u
      BY <1>0, <1>3, <1>20, <3>2 DEF SaveEdit, TypeOK
    <3> QED
      BY <3>1, <3>2
  <2> QED
    BY <1>0, <2>1, <2>4, <2>5, <2>6 DEF IInv
<1>21. ASSUME UNCHANGED <<row, stage, copy, push, amended>> PROVE IInv'
  BY <1>0, <1>1, <1>2, <1>3, <1>18, <1>21 DEF IInv
<1> QED
  BY <1>e, <1>c, <1>l, <1>s, <1>11, <1>12, <1>13, <1>14, <1>15, <1>16, <1>17, <1>19, <1>20, <1>21
  DEF Next, vars

\* The inductive invariant holds in every state.
THEOREM Inductive == Spec => []IInv
<1>1. Init => IInv
  BY TypeInit DEF Init, NoRow, IInv, Backed, Known, IssuedMatchesBilling
<1> QED
  BY <1>1, InvStep, PTL DEF Spec

\* No interleaving of issues, lost answers, failures, edits and changes of the
\* integrations fabricates an issued row.
THEOREM IssuedIsBackedHolds == Spec => []IssuedIsBacked
<1>1. IInv => IssuedIsBacked
  BY DEF IInv, Backed, IssuedIsBacked
<1> QED
  BY <1>1, Inductive, PTL

\* The billing system has the due date of an issued row that nobody edited.
THEOREM IssuedMatchesBillingHolds == Spec => []IssuedMatchesBilling
<1>1. IInv => IssuedMatchesBilling
  BY DEF IInv
<1> QED
  BY <1>1, Inductive, PTL

------------------------------------------------------------------------------
(* What the vendors hold that no committed issue accounts for.               *)

\* How the number of processes in some stages changes when one moves on.
LEMMA CountMove ==
  ASSUME NEW f \in [Issuers -> Stages], NEW g, NEW i \in Issuers, NEW n \in Stages,
         g = [f EXCEPT ![i] = n], NEW T
  PROVE  LET before == Cardinality({j \in Issuers : f[j] \in T})
             after == Cardinality({j \in Issuers : g[j] \in T})
         IN  /\ before \in Nat /\ after \in Nat
             /\ f[i] \in T /\ n \in T => after = before
             /\ f[i] \notin T /\ n \notin T => after = before
             /\ f[i] \in T /\ n \notin T => after = before - 1
             /\ f[i] \notin T /\ n \in T => after = before + 1
<1> DEFINE S == {j \in Issuers : f[j] \in T}
           R == {j \in Issuers : g[j] \in T}
<1>1. IsFiniteSet(S) /\ IsFiniteSet(R)
  BY ProcessAssumption, FS_Subset
<1>2. Cardinality(S) \in Nat /\ Cardinality(R) \in Nat
  BY <1>1, FS_CardinalityType
<1>3. ASSUME f[i] \in T <=> n \in T PROVE R = S
  BY <1>3
<1>4. ASSUME f[i] \in T, n \notin T PROVE Cardinality(R) = Cardinality(S) - 1
  <2>1. R = S \ {i} /\ i \in S
    BY <1>4
  <2> HIDE DEF R, S
  <2> QED
    BY <1>1, <2>1, FS_RemoveElement
<1>5. ASSUME f[i] \notin T, n \in T PROVE Cardinality(R) = Cardinality(S) + 1
  <2>1. R = S \cup {i} /\ i \notin S
    BY <1>5
  <2> HIDE DEF R, S
  <2> QED
    BY <1>1, <2>1, FS_AddElement
<1> QED
  BY <1>2, <1>3, <1>4, <1>5

\* The order of the calls: what was mailed was billed first, what was audited
\* was mailed first, the processes between two calls included.
Ordered ==
  /\ audits + InState({"chatting", "saving"}) <= mailed
  /\ mailed + InState({"mailing"}) <= Len(billed)

Accounted == TypeOK /\ OrphansOnlyFromFailures /\ Ordered

\* Every step keeps the account.
LEMMA AccountStep == Accounted /\ [Next]_vars => Accounted'
<1> SUFFICES ASSUME Accounted, [Next]_vars PROVE Accounted'
  OBVIOUS
<1>0. TypeOK /\ TypeOK'
  BY TypeStep DEF Accounted
<1> DEFINE B == Len(billed)
           R == Len(reminders)
           M == InState({"mailing"})
           CS == InState({"chatting", "saving"})
           MCS == InState({"mailing", "chatting", "saving"})
           S == InState({"saving"})
<1>t. /\ B \in Nat /\ R \in Nat /\ B' \in Nat /\ R' \in Nat
      /\ mailed \in Nat /\ posted \in Nat /\ audits \in Nat /\ failures \in Nat
      /\ mailed' \in Nat /\ posted' \in Nat /\ audits' \in Nat /\ failures' \in Nat
      /\ stage \in [Issuers -> Stages]
  BY <1>0 DEF TypeOK, Stages
<1>a. /\ B <= audits + MCS + failures /\ mailed <= audits + CS + failures
      /\ posted <= audits + S + failures
      /\ audits = R /\ audits <= mailed /\ mailed <= B
      /\ audits + CS <= mailed /\ mailed + M <= B
  BY DEF Accounted, OrphansOnlyFromFailures, Ordered
<1>q. ASSUME /\ B' <= audits' + MCS' + failures' /\ mailed' <= audits' + CS' + failures'
             /\ posted' <= audits' + S' + failures'
             /\ audits' = R' /\ audits' <= mailed' /\ mailed' <= B'
             /\ audits' + CS' <= mailed' /\ mailed' + M' <= B'
      PROVE  Accounted'
  BY <1>0, <1>q DEF Accounted, OrphansOnlyFromFailures, Ordered
<1>m. ASSUME NEW i \in Issuers, NEW n \in Stages, stage' = [stage EXCEPT ![i] = n], NEW T
      PROVE  /\ InState(T) \in Nat /\ InState(T)' \in Nat
             /\ stage[i] \in T /\ n \in T => InState(T)' = InState(T)
             /\ stage[i] \notin T /\ n \notin T => InState(T)' = InState(T)
             /\ stage[i] \in T /\ n \notin T => InState(T)' = InState(T) - 1
             /\ stage[i] \notin T /\ n \in T => InState(T)' = InState(T) + 1
  BY <1>t, <1>m, CountMove DEF InState
<1> HIDE DEF B, R, M, CS, MCS, S
<1>p. ASSUME stage' = stage, UNCHANGED <<billed, mailed, posted, audits, reminders, failures>>
      PROVE  Accounted'
  <2>1. M' = M /\ CS' = CS /\ MCS' = MCS /\ S' = S /\ B' = B /\ R' = R
    BY <1>p DEF InState, M, CS, MCS, S, B, R
  <2> QED
    BY <1>a, <1>p, <1>q, <2>1
<1>1. ASSUME NEW i \in Issuers, NEW n \in {"lining", "summing", "storing"},
             stage[i] \in {"idle", "lining", "summing"}, stage' = [stage EXCEPT ![i] = n],
             UNCHANGED <<billed, mailed, posted, audits, reminders, failures>>
      PROVE  Accounted'
  <2>1. n \in Stages
    BY DEF Stages
  <2>2. M' = M /\ CS' = CS /\ MCS' = MCS /\ S' = S
    BY <1>1, <1>m, <2>1 DEF M, CS, MCS, S
  <2>3. B' = B /\ R' = R
    BY <1>1 DEF B, R
  <2> QED
    BY <1>1, <1>a, <1>q, <2>2, <2>3
<1>i. ASSUME NEW i \in Issuers,
             CreateInvoice(i) \/ AddLines(i) \/ SaveTotal(i) \/ Load(i)
      PROVE  Accounted'
  <2>1. UNCHANGED <<billed, mailed, posted, audits, reminders, failures>>
    BY <1>i DEF CreateInvoice, AddLines, SaveTotal, Load, Start, worldVars, logVars, counters
  <2>2. /\ stage[i] \in {"idle", "lining", "summing"}
        /\ \E n \in {"lining", "summing", "storing"} : stage' = [stage EXCEPT ![i] = n]
    BY <1>i DEF CreateInvoice, AddLines, SaveTotal, Load, Start
  <2> QED
    BY <1>1, <2>1, <2>2
<1>2. ASSUME NEW i \in Issuers, StorePdf(i) PROVE Accounted'
  <2>1. stage[i] = "storing" /\ stage' = [stage EXCEPT ![i] = "billing"]
    BY <1>2 DEF StorePdf, Store, Proceed
  <2>2. M' = M /\ CS' = CS /\ MCS' = MCS /\ S' = S
    BY <1>m, <2>1 DEF Stages, M, CS, MCS, S
  <2>3. /\ B' = B /\ R' = R /\ mailed' = mailed /\ posted' = posted
        /\ audits' = audits /\ failures' = failures
    BY <1>2 DEF StorePdf, Store, Proceed, counters, logVars, B, R
  <2> QED
    BY <1>a, <1>q, <2>2, <2>3
<1>3. ASSUME NEW i \in Issuers, PushInvoice(i) PROVE Accounted'
  <2>p. PICK id \in Nat : Push(i, id)
    BY <1>0, <1>3, Ids
  <2>1. stage[i] = "billing" /\ stage' = [stage EXCEPT ![i] = "mailing"]
    BY <1>3, <2>p DEF PushInvoice, Push, Proceed
  <2>2. M' = M + 1 /\ CS' = CS /\ MCS' = MCS + 1 /\ S' = S
        /\ M \in Nat /\ CS \in Nat /\ MCS \in Nat /\ S \in Nat
    BY <1>m, <2>1 DEF Stages, M, CS, MCS, S
  <2>3. /\ B' = B + 1 /\ R' = R /\ mailed' = mailed /\ posted' = posted
        /\ audits' = audits /\ failures' = failures
    BY <1>3, <1>0, <2>p, Pushed DEF PushInvoice, Push, Proceed, counters, logVars, B, R
  <2> QED
    BY <1>a, <1>q, <1>t, <2>2, <2>3
<1>4. ASSUME NEW i \in Issuers, MailClient(i) PROVE Accounted'
  <2>1. stage[i] = "mailing" /\ stage' = [stage EXCEPT ![i] = "chatting"]
    BY <1>4 DEF MailClient, Mail, Proceed
  <2>2. M' = M - 1 /\ CS' = CS + 1 /\ MCS' = MCS /\ S' = S
        /\ M' \in Nat /\ M \in Nat /\ CS \in Nat /\ MCS \in Nat /\ S \in Nat
    BY <1>m, <2>1 DEF Stages, M, CS, MCS, S
  <2>3. /\ B' = B /\ R' = R /\ mailed' = mailed + 1 /\ posted' = posted
        /\ audits' = audits /\ failures' = failures
    BY <1>4 DEF MailClient, Mail, Proceed, counters, logVars, B, R
  <2> QED
    BY <1>a, <1>q, <1>t, <2>2, <2>3
<1>5. ASSUME NEW i \in Issuers, PostToChat(i) PROVE Accounted'
  <2>1. stage[i] = "chatting" /\ stage' = [stage EXCEPT ![i] = "saving"]
    BY <1>5 DEF PostToChat, Proceed
  <2>2. M' = M /\ CS' = CS /\ MCS' = MCS /\ S' = S + 1
        /\ M \in Nat /\ CS \in Nat /\ MCS \in Nat /\ S \in Nat
    BY <1>m, <2>1 DEF Stages, M, CS, MCS, S
  <2>3. /\ B' = B /\ R' = R /\ mailed' = mailed /\ (posted' = posted \/ posted' = posted + 1)
        /\ audits' = audits /\ failures' = failures
    BY <1>5 DEF PostToChat, Post, Proceed, counters, logVars, worldVars, B, R
  <2>4. posted' <= audits + S' + failures
    BY <1>a, <1>t, <2>2, <2>3
  <2> QED
    BY <1>a, <1>q, <2>2, <2>3, <2>4
<1>6. ASSUME NEW i \in Issuers, Commit(i) PROVE Accounted'
  <2>1. stage[i] = "saving" /\ stage' = [stage EXCEPT ![i] = "idle"]
    BY <1>6 DEF Commit
  <2>0. "idle" \in Stages
    BY DEF Stages
  <2>m. M' = M /\ M \in Nat /\ S' = S - 1 /\ S \in Nat
    BY <1>m, <2>0, <2>1 DEF M, S
  <2>c. CS' = CS - 1 /\ CS \in Nat /\ CS' \in Nat /\ MCS' = MCS - 1 /\ MCS \in Nat
    BY <1>m, <2>0, <2>1 DEF CS, MCS
  <2>2. M' = M /\ CS' = CS - 1 /\ MCS' = MCS - 1 /\ S' = S - 1
        /\ M \in Nat /\ CS \in Nat /\ MCS \in Nat /\ S \in Nat /\ CS' \in Nat
    BY <2>m, <2>c
  <2>3. R' = R + 1
    <3>1. copy[i] \in Row
      BY <1>0, <1>6 DEF Commit, TypeOK
    <3>2. copy[i].due \in Nat /\ reminders \in Seq(Nat)
      BY <1>0, <3>1 DEF TypeOK, Row
    <3> QED
      BY <1>6, <3>2, AppendProperties DEF Commit, R
  <2>4. /\ B' = B /\ mailed' = mailed /\ posted' = posted
        /\ audits' = audits + 1 /\ failures' = failures
    BY <1>6 DEF Commit, counters, worldVars, B
  <2> QED
    BY <1>a, <1>q, <1>t, <2>2, <2>3, <2>4
<1>7. ASSUME NEW i \in Issuers, Abort(i), stage[i] \in Stages \ {"idle"},
             UNCHANGED <<billed, mailed, posted>>
      PROVE  Accounted'
  <2>1. stage' = [stage EXCEPT ![i] = "idle"] /\ "idle" \in Stages
    BY <1>7 DEF Abort, Stages
  <2>2. /\ B' = B /\ R' = R /\ mailed' = mailed /\ posted' = posted
        /\ audits' = audits /\ failures' = failures + 1
    BY <1>7 DEF Abort, RollbackOnly, logVars, B, R
  <2>3. M \in Nat /\ CS \in Nat /\ MCS \in Nat /\ S \in Nat
    BY <1>m, <2>1 DEF M, CS, MCS, S
  <2>4. M' = M \/ M' = M - 1
    BY <1>m, <2>1 DEF M
  <2>5. CS' = CS \/ CS' = CS - 1
    BY <1>m, <2>1 DEF CS
  <2>6. MCS' = MCS \/ MCS' = MCS - 1
    BY <1>m, <2>1 DEF MCS
  <2>7. S' = S \/ S' = S - 1
    BY <1>m, <2>1 DEF S
  <2>8. B' <= audits' + MCS' + failures'
    BY <1>a, <1>t, <2>2, <2>3, <2>6
  <2>9. mailed' <= audits' + CS' + failures' /\ audits' + CS' <= mailed'
    BY <1>a, <1>t, <2>2, <2>3, <2>5
  <2>10. posted' <= audits' + S' + failures'
    BY <1>a, <1>t, <2>2, <2>3, <2>7
  <2>11. mailed' + M' <= B'
    BY <1>a, <1>t, <2>2, <2>3, <2>4
  <2> QED
    BY <1>a, <1>q, <2>2, <2>8, <2>9, <2>10, <2>11
<1>8. ASSUME NEW i \in Issuers, AdapterMissing(i) PROVE Accounted'
  BY <1>7, <1>8 DEF AdapterMissing, Needed, worldVars, Stages
<1>12. ASSUME NEW i \in Issuers, IssueFails(i) PROVE Accounted'
  <2>1. stage[i] \in Stages \ {"idle"} /\ Abort(i)
    BY <1>12, <1>t DEF IssueFails
  <2>2. stage' = [stage EXCEPT ![i] = "idle"] /\ "idle" \in Stages
    BY <2>1 DEF Abort, Stages
  <2>3. /\ R' = R /\ audits' = audits /\ failures' = failures + 1
    BY <2>1 DEF Abort, RollbackOnly, logVars, R
  <2>4. CASE Push(i, 0)
    <3>1. B' = B + 1 /\ mailed' = mailed /\ posted' = posted /\ stage[i] = "billing"
      BY <1>0, <2>4, Pushed DEF Push, B
    <3>2. M' = M /\ CS' = CS /\ MCS' = MCS /\ S' = S
          /\ M \in Nat /\ CS \in Nat /\ MCS \in Nat /\ S \in Nat
      BY <1>m, <2>2, <3>1 DEF M, CS, MCS, S
    <3> QED
      BY <1>a, <1>q, <1>t, <2>3, <3>1, <3>2
  <2>5. CASE Mail(i)
    <3>1. B' = B /\ mailed' = mailed + 1 /\ posted' = posted /\ stage[i] = "mailing"
      BY <2>5 DEF Mail, B
    <3>2. M' = M - 1 /\ CS' = CS /\ MCS' = MCS - 1 /\ S' = S
          /\ M' \in Nat /\ M \in Nat /\ CS \in Nat /\ MCS \in Nat /\ S \in Nat
      BY <1>m, <2>2, <3>1 DEF M, CS, MCS, S
    <3> QED
      BY <1>a, <1>q, <1>t, <2>3, <3>1, <3>2
  <2>6. CASE Post(i)
    <3>1. B' = B /\ mailed' = mailed /\ posted' = posted + 1 /\ stage[i] = "chatting"
      BY <2>6 DEF Post, B
    <3>2. M' = M /\ CS' = CS - 1 /\ MCS' = MCS - 1 /\ S' = S
          /\ M \in Nat /\ CS \in Nat /\ MCS \in Nat /\ S \in Nat
      BY <1>m, <2>2, <3>1 DEF M, CS, MCS, S
    <3> QED
      BY <1>a, <1>q, <1>t, <2>3, <3>1, <3>2
  <2>7. CASE Store(i) \/ UNCHANGED worldVars
    BY <1>7, <2>1, <2>7 DEF Store, worldVars
  <2> QED
    BY <1>12, <2>4, <2>5, <2>6, <2>7 DEF IssueFails
<1>9. ASSUME NEW u \in Editors, LoadForEdit(u) \/ SaveEdit(u) PROVE Accounted'
  BY <1>9, <1>p DEF LoadForEdit, SaveEdit, worldVars, logVars, counters
<1>13. CASE Enter
  BY <1>13, <1>p DEF Enter, worldVars, logVars, counters
<1>10. CASE UNCHANGED <<row, creation, stage, copy, push, worldVars, logVars, amended, counters>>
  BY <1>10, <1>p DEF worldVars, logVars, counters
<1>11. CASE UNCHANGED vars
  BY <1>10, <1>11 DEF vars
<1> QED
  BY <1>i, <1>2, <1>3, <1>4, <1>5, <1>6, <1>8, <1>9, <1>10, <1>11, <1>12, <1>13 DEF Next

\* What a vendor was told and no committed issue accounts for is due to a
\* failed issue or to one that is still running.
THEOREM OrphansOnlyFromFailuresHolds == Spec => []OrphansOnlyFromFailures
<1>1. Init => Accounted
  <2> SUFFICES ASSUME Init PROVE Accounted
    OBVIOUS
  <2>1. \A T : "idle" \notin T => {i \in Issuers : stage[i] \in T} = {}
    BY DEF Init
  <2>2. \A T : "idle" \notin T => InState(T) = 0
    BY <2>1, FS_EmptySet DEF InState
  <2>3. Len(billed) = 0 /\ Len(reminders) = 0
    BY DEF Init
  <2> QED
    BY <2>2, <2>3, TypeInit DEF Init, Accounted, OrphansOnlyFromFailures, Ordered
<1>2. Accounted => OrphansOnlyFromFailures
  BY DEF Accounted
<1> QED
  BY <1>1, <1>2, AccountStep, PTL DEF Spec

------------------------------------------------------------------------------
(* The totals of an invoice that is not imported.                            *)

\* While the scan creates the invoice and nobody has read it, the scan alone
\* works on it.
InCreation ==
  /\ row.status = "draft"
  /\ \A u \in Editors : copy[u] = NoRow
  /\ \A i \in Issuers :
       /\ stage[i] \in {"idle", "lining", "summing"}
       /\ stage[i] = "summing" => copy[i].lines = row.lines
       /\ \A j \in Issuers : stage[i] # "idle" /\ stage[j] # "idle" => i = j

\* From then on its lines do not change, and every total is theirs.
Settled ==
  /\ row.total = Column(row.lines)
  /\ \A p \in Issuers \cup Editors :
       copy[p] # NoRow => /\ copy[p].lines = row.lines
                          /\ Column(copy[p].total) = Column(row.lines)
  /\ \A i \in Issuers : stage[i] \notin {"lining", "summing"}
  /\ \A n \in 1..Len(billed) : Column(billed[n].total) = Column(row.lines)

Totals ==
  /\ row = NoRow <=> creation = "none"
  /\ creation \in {"none", "partial"} => billed = <<>>
  /\ creation = "partial" => InCreation
  /\ FirstTotal = 0 /\ creation = "complete" => Settled

\* Every step keeps the totals equal.
LEMMA TotalsStep == TypeOK /\ Totals /\ [Next]_vars => Totals'
<1> SUFFICES ASSUME TypeOK, Totals, [Next]_vars PROVE Totals'
  OBVIOUS
<1>0. TypeOK' /\ Len(billed) \in Nat
  BY TypeStep, LenProperties DEF TypeOK
<1>e. creation' = "early" /\ row' # NoRow => Totals'
  BY DEF Totals
<1>n. ASSUME row = NoRow
      PROVE  /\ creation = "none" /\ billed = <<>>
             /\ \A p \in Issuers \cup Editors : copy[p] = NoRow
             /\ \A i \in Issuers : stage[i] = "idle"
  BY <1>n DEF Totals, TypeOK
<1>c. ASSUME NEW p \in Issuers \cup Editors, copy[p] # NoRow PROVE row \in Row /\ copy[p] \in Row
  BY <1>c DEF TypeOK
<1>1. CASE Enter
  <2>1. /\ row' = Draft(FirstTotal) /\ creation' = "complete" /\ stage' = stage
        /\ copy' = copy /\ billed' = billed /\ row = NoRow
    BY <1>1 DEF Enter, worldVars
  <2>2. row' \in Row /\ row'.total = FirstTotal /\ row'.lines = 0
    BY <2>1, BoundAssumption, DraftRow
  <2>3. FirstTotal = 0 => Settled'
    BY <1>n, <2>1, <2>2, NothingRounded DEF Settled
  <2> QED
    BY <2>1, <2>2, <2>3, NoCopy DEF Totals
<1>2. ASSUME NEW i \in Issuers, CreateInvoice(i) PROVE Totals'
  <2>1. /\ row' = Draft(0) /\ creation' = "partial" /\ stage' = [stage EXCEPT ![i] = "lining"]
        /\ copy' = [copy EXCEPT ![i] = Draft(0)] /\ billed' = billed /\ row = NoRow
    BY <1>2 DEF CreateInvoice, Start, worldVars
  <2>2. row' \in Row /\ row'.status = "draft"
    BY <2>1, DraftRow
  <2>3. InCreation'
    BY <1>n, <2>1, <2>2, ProcessAssumption DEF InCreation, TypeOK
  <2> QED
    BY <1>n, <2>1, <2>2, <2>3, NoCopy DEF Totals
<1>3. ASSUME NEW i \in Issuers, AddLines(i) PROVE Totals'
  <2>1. /\ row' = [row EXCEPT !.lines = LineSum] /\ copy' = [copy EXCEPT ![i].lines = LineSum]
        /\ stage[i] = "lining" /\ stage' = [stage EXCEPT ![i] = "summing"]
        /\ creation' = creation /\ billed' = billed
    BY <1>3 DEF AddLines, worldVars
  <2>2. row \in Row /\ copy[i] \in Row
    BY <1>c, <2>1 DEF TypeOK
  <2>3. row' \in Row /\ row'.status = row.status /\ row'.lines = LineSum
        /\ copy'[i].lines = LineSum
    BY <2>1, <2>2, BoundAssumption DEF Row, TypeOK
  <2>4. FirstTotal = 0 => creation # "complete"
    BY <2>1 DEF Totals, Settled
  <2>5. ASSUME creation = "partial" PROVE InCreation'
    BY <2>1, <2>3, <2>5, ProcessAssumption DEF InCreation, Totals, TypeOK
  <2> QED
    BY <2>1, <2>2, <2>3, <2>4, <2>5, NoCopy DEF Totals
<1>4. ASSUME NEW i \in Issuers, SaveTotal(i) PROVE Totals'
  <2>1. /\ row' = Saved(copy[i]) /\ copy' = [copy EXCEPT ![i].total = copy[i].lines]
        /\ stage[i] = "summing" /\ stage' = [stage EXCEPT ![i] = "storing"]
        /\ creation' = (IF creation = "partial" THEN "complete" ELSE creation)
        /\ billed' = billed
    BY <1>4 DEF SaveTotal, worldVars
  <2>2. row \in Row /\ copy[i] \in Row
    BY <1>c, <2>1 DEF TypeOK
  <2>3. row' \in Row /\ row'.total = Column(copy[i].lines) /\ row'.lines = row.lines
    BY <2>1, <2>2, SavedRow
  <2>4. FirstTotal = 0 => creation # "complete"
    BY <2>1 DEF Totals, Settled
  <2>5. ASSUME creation = "partial" PROVE Settled'
    <3>1. InCreation /\ billed' = <<>>
      BY <2>1, <2>5 DEF Totals
    <3>2. \A j \in Issuers \ {i} : stage'[j] = "idle" /\ copy'[j] = NoRow
      BY <2>1, <3>1 DEF InCreation, TypeOK
    <3>3. \A u \in Editors : copy'[u] = NoRow
      BY <2>1, <3>1, ProcessAssumption DEF InCreation, TypeOK
    <3>4. copy'[i].lines = row'.lines /\ copy'[i].total = row'.lines /\ row'.total = Column(row'.lines)
      BY <2>1, <2>2, <2>3, <3>1 DEF InCreation, TypeOK, Row
    <3>5. stage'[i] = "storing"
      BY <2>1 DEF TypeOK
    <3> QED
      BY <3>1, <3>2, <3>3, <3>4, <3>5 DEF Settled
  <2>6. row # NoRow /\ row' # NoRow
    BY <2>2, <2>3, NoCopy
  <2> QED
    BY <2>1, <2>4, <2>5, <2>6 DEF Totals
<1>5. ASSUME NEW p \in Issuers \cup Editors, Take(p), billed' = billed,
             \A i \in Issuers : stage'[i] # stage[i] => stage'[i] = "storing"
      PROVE  Totals'
  <2>1. /\ row # NoRow /\ row' = row /\ copy' = [copy EXCEPT ![p] = row]
        /\ creation' = (IF creation = "partial" THEN "early" ELSE creation)
    BY <1>5 DEF Take
  <2>2. row \in Row /\ creation # "none"
    BY <2>1 DEF TypeOK, Totals
  <2>3. Column(Column(row.lines)) = Column(row.lines)
    BY <2>2, Rounded DEF Row
  <2>4. ASSUME FirstTotal = 0, creation = "complete" PROVE Settled'
    <3>1. Settled
      BY <2>4 DEF Totals
    <3>2. \A q \in Issuers \cup Editors : copy'[q] = copy[q] \/ copy'[q] = row
      BY <2>1 DEF TypeOK
    <3> QED
      BY <1>5, <2>1, <2>3, <3>1, <3>2 DEF Settled
  <2> QED
    BY <1>e, <2>1, <2>2, <2>4 DEF Totals, TypeOK
<1>6. ASSUME NEW i \in Issuers, Load(i) PROVE Totals'
  BY <1>5, <1>6 DEF Load, Start, worldVars, TypeOK
<1>7. ASSUME NEW u \in Editors, LoadForEdit(u) PROVE Totals'
  BY <1>5, <1>7 DEF LoadForEdit, worldVars
<1> DEFINE RowKept ==
             /\ row \in Row
             /\ \/ row' = row
                \/ row' \in Row /\ row'.total = Column(row.lines) /\ row'.lines = row.lines
           CopiesKept ==
             \A p \in Issuers \cup Editors : copy'[p] = copy[p] \/ copy'[p] = NoRow
           StagesKept ==
             \A i \in Issuers :
               \/ stage'[i] = stage[i] /\ copy'[i] = copy[i]
               \/ stage'[i] = "idle"
               \/ creation # "partial" /\ stage'[i] \notin {"lining", "summing"}
           BillsKept ==
             billed' = billed \/ \E i \in Issuers : \E id \in Nat : Push(i, id)
           CreationKept ==
             /\ creation' = creation
             /\ creation = "partial" => row' = row /\ billed' = billed
<1>8. ASSUME RowKept, CopiesKept, StagesKept, BillsKept, CreationKept
      PROVE  Totals'
  <2>1. row # NoRow /\ row' # NoRow /\ creation # "none"
    BY <1>8, NoCopy DEF Totals
  <2>2. ASSUME creation = "partial" PROVE InCreation'
    BY <1>8, <2>2 DEF Totals, InCreation
  <2>3. ASSUME FirstTotal = 0, creation = "complete" PROVE Settled'
    <3>1. Settled
      BY <2>3 DEF Totals
    <3>2. row'.total = Column(row.lines) /\ row'.lines = row.lines
      BY <1>8, <3>1 DEF Settled
    <3>3. \A n \in 1..Len(billed') : Column(billed'[n].total) = Column(row.lines)
      <4>1. CASE billed' = billed
        BY <3>1, <4>1 DEF Settled
      <4>2. ASSUME NEW i \in Issuers, NEW id \in Nat, Push(i, id)
            PROVE  \A n \in 1..Len(billed') : Column(billed'[n].total) = Column(row.lines)
        <5>1. copy[i] # NoRow
          BY <4>2 DEF Push, TypeOK
        <5>2. Column(copy[i].total) = Column(row.lines)
          BY <3>1, <5>1 DEF Settled
        <5>3. /\ Len(billed') = Len(billed) + 1
              /\ \A n \in 1..Len(billed) : billed'[n] = billed[n]
              /\ billed'[Len(billed')].total = copy[i].total
          BY <4>2, Pushed
        <5>4. \A n \in 1..Len(billed) : Column(billed[n].total) = Column(row.lines)
          BY <3>1 DEF Settled
        <5> HIDE DEF Column
        <5> QED
          BY <1>0, <5>2, <5>3, <5>4
      <4> QED
        BY <1>8, <4>1, <4>2
    <3>4. \A i \in Issuers : stage'[i] \notin {"lining", "summing"}
      BY <1>8, <2>3, <3>1 DEF Settled
    <3>5. \A p \in Issuers \cup Editors :
            copy'[p] # NoRow => copy'[p].lines = row.lines /\ Column(copy'[p].total) = Column(row.lines)
      BY <1>8, <3>1 DEF Settled
    <3> QED
      BY <3>2, <3>3, <3>4, <3>5 DEF Settled
  <2>4. creation = "partial" => billed' = <<>>
    BY <1>8 DEF Totals
  <2> QED
    BY <1>8, <2>1, <2>2, <2>3, <2>4 DEF Totals
<1> HIDE DEF RowKept, CopiesKept, StagesKept, BillsKept, CreationKept
<1>9. ASSUME NEW i \in Issuers,
             StorePdf(i) \/ PushInvoice(i) \/ MailClient(i) \/ PostToChat(i)
      PROVE  Totals'
  <2>1. /\ row' = row /\ copy' = copy /\ creation' = creation
        /\ stage' = [stage EXCEPT ![i] = stage'[i]]
        /\ stage'[i] \in {"billing", "mailing", "chatting", "saving"}
        /\ stage[i] \in {"storing", "billing", "mailing", "chatting"}
    BY <1>9 DEF StorePdf, PushInvoice, MailClient, PostToChat, Proceed,
                Store, Push, Mail, TypeOK
  <2>2. billed' = billed \/ \E id \in Nat : Push(i, id)
    BY <1>9, Ids DEF StorePdf, MailClient, PostToChat, Store, Mail, Post, worldVars
  <2>3. copy[i] # NoRow /\ row \in Row
    BY <1>c, <2>1 DEF TypeOK
  <2>4. creation # "partial"
    BY <2>1 DEF Totals, InCreation
  <2>5. \A j \in Issuers : stage'[j] = stage[j] \/ stage'[j] \notin {"lining", "summing"}
    BY <2>1 DEF TypeOK
  <2>6. RowKept /\ CopiesKept
    BY <2>1, <2>3 DEF RowKept, CopiesKept
  <2>7. StagesKept
    BY <2>1, <2>4, <2>5 DEF StagesKept
  <2>8. BillsKept /\ CreationKept
    BY <2>1, <2>2, <2>4 DEF BillsKept, CreationKept
  <2> QED
    BY <1>8, <2>6, <2>7, <2>8
<1>10. ASSUME NEW i \in Issuers, Commit(i) PROVE Totals'
  <2>1. /\ stage[i] = "saving" /\ copy[i] \in Row /\ row \in Row
        /\ push[i] \in 1..Len(billed) /\ push[i] \in Nat /\ billed \in Seq(Bill)
    BY <1>10, <1>c DEF Commit, TypeOK
  <2>2. billed[push[i]] \in Bill
    BY <2>1, ElementOfSeq
  <2>3. WholeCopy(i) \in Row /\ WholeCopy(i).lines = copy[i].lines
    BY <2>1, <2>2, IssuedRow
  <2>4. row' \in Row /\ row'.total = Column(copy[i].lines) /\ row'.lines = row.lines
    <3> DEFINE x == WholeCopy(i)
    <3>1. row' = Saved(x)
      BY <1>10 DEF Commit
    <3>2. x \in Row /\ x.lines = copy[i].lines
      BY <2>3
    <3> HIDE DEF x
    <3> QED
      BY <2>1, <3>1, <3>2, SavedRow
  <2>5. /\ billed' = billed /\ creation' = creation
        /\ \A p \in Issuers \cup Editors : copy'[p] = copy[p] \/ copy'[p] = NoRow
        /\ \A j \in Issuers : (stage'[j] = stage[j] /\ copy'[j] = copy[j]) \/ stage'[j] = "idle"
    BY <1>10 DEF Commit, Forget, worldVars, TypeOK
  <2>6. creation # "partial"
    BY <2>1 DEF Totals, InCreation
  <2>7. CASE FirstTotal = 0 /\ creation = "complete"
    <3>1. copy[i].lines = row.lines
      BY <2>1, <2>7, NoCopy DEF Totals, Settled
    <3>2. RowKept
      BY <2>1, <2>4, <3>1 DEF RowKept
    <3>3. CopiesKept /\ StagesKept /\ BillsKept /\ CreationKept
      BY <2>5, <2>6 DEF CopiesKept, StagesKept, BillsKept, CreationKept
    <3> QED
      BY <1>8, <3>2, <3>3
  <2>8. CASE ~(FirstTotal = 0 /\ creation = "complete")
    BY <2>1, <2>4, <2>5, <2>6, <2>8, NoCopy DEF Totals
  <2> QED
    BY <2>7, <2>8
<1>11. ASSUME NEW i \in Issuers, AdapterMissing(i) \/ IssueFails(i) PROVE Totals'
  <2>1. Abort(i) /\ stage[i] # "idle"
    BY <1>11 DEF AdapterMissing, IssueFails, Needed
  <2>2. row \in Row
    BY <1>c, <2>1 DEF TypeOK
  <2>3. /\ row' = row /\ creation' = creation
        /\ \A p \in Issuers \cup Editors : copy'[p] = copy[p] \/ copy'[p] = NoRow
        /\ \A j \in Issuers : (stage'[j] = stage[j] /\ copy'[j] = copy[j]) \/ stage'[j] = "idle"
    BY <2>1 DEF Abort, RollbackOnly, Forget, TypeOK
  <2>4. billed' = billed \/ Push(i, 0)
    BY <1>11 DEF AdapterMissing, IssueFails, Store, Mail, Post, worldVars
  <2>5. creation = "partial" => billed' = billed
    BY <2>1, <2>4 DEF Totals, InCreation, Push
  <2>6. RowKept /\ CopiesKept
    BY <2>2, <2>3 DEF RowKept, CopiesKept
  <2>7. StagesKept
    BY <2>3 DEF StagesKept
  <2>8. BillsKept /\ CreationKept
    BY <2>3, <2>4, <2>5 DEF BillsKept, CreationKept
  <2> QED
    BY <1>8, <2>6, <2>7, <2>8
<1>12. ASSUME NEW u \in Editors, SaveEdit(u) PROVE Totals'
  <2>1. copy[u] \in Row /\ row \in Row /\ edits \in Nat
    BY <1>12, <1>c, BoundAssumption DEF SaveEdit, TypeOK
  <2>2. row' \in Row /\ row'.total = Column(copy[u].lines) /\ row'.lines = row.lines
    <3> DEFINE x == [copy[u] EXCEPT !.due = edits]
    <3>1. row' = Saved(x)
      BY <1>12 DEF SaveEdit
    <3>2. x \in Row /\ x.lines = copy[u].lines
      BY <2>1, EditedRow
    <3> HIDE DEF x
    <3> QED
      BY <2>1, <3>1, <3>2, SavedRow
  <2>3. /\ billed' = billed /\ creation' = creation /\ stage' = stage
        /\ \A p \in Issuers \cup Editors : copy'[p] = copy[p] \/ copy'[p] = NoRow
        /\ \A j \in Issuers : copy'[j] = copy[j]
    BY <1>12, ProcessAssumption DEF SaveEdit, worldVars, TypeOK
  <2>4. creation # "partial"
    BY <1>12 DEF SaveEdit, Totals, InCreation
  <2>5. CASE FirstTotal = 0 /\ creation = "complete"
    <3>1. copy[u].lines = row.lines
      BY <2>1, <2>5, NoCopy DEF Totals, Settled
    <3>2. RowKept
      BY <2>1, <2>2, <3>1 DEF RowKept
    <3>3. CopiesKept /\ StagesKept /\ BillsKept /\ CreationKept
      BY <2>3, <2>4 DEF CopiesKept, StagesKept, BillsKept, CreationKept
    <3> QED
      BY <1>8, <3>2, <3>3
  <2>6. CASE ~(FirstTotal = 0 /\ creation = "complete")
    BY <2>1, <2>2, <2>3, <2>4, <2>6, NoCopy DEF Totals
  <2> QED
    BY <2>5, <2>6
<1>13. ASSUME UNCHANGED <<row, creation, stage, copy, billed>> PROVE Totals'
  BY <1>13 DEF Totals, InCreation, Settled
<1>14. CASE UNCHANGED <<row, creation, stage, copy, push, worldVars, logVars, amended, counters>>
  BY <1>13, <1>14 DEF worldVars
<1>15. CASE UNCHANGED vars
  BY <1>13, <1>15 DEF vars, worldVars
<1> QED
  BY <1>1, <1>2, <1>3, <1>4, <1>6, <1>7, <1>9, <1>10, <1>11, <1>12, <1>14, <1>15 DEF Next

\* The billing system was told the total of the row, rounded as the column
\* rounds it, if nobody read the invoice while the scan created it and data
\* entry did not give it a total of its own.
THEOREM BilledTotalIsStoredHolds ==
  Spec => [](FirstTotal = 0 => BilledTotalIsStored)
<1>1. Init => Totals
  BY DEF Init, Totals
<1>2. IInv /\ Totals => (FirstTotal = 0 => BilledTotalIsStored)
  <2> SUFFICES ASSUME IInv, Totals, FirstTotal = 0, row.status = "issued", creation # "early"
               PROVE  Column(billed[row.push].total) = row.total
    BY DEF BilledTotalIsStored
  <2>1. row # NoRow /\ creation \in {"none", "partial", "complete", "early"}
    BY DEF IInv, TypeOK, NoRow
  <2>2. creation = "complete"
    BY <2>1 DEF Totals, InCreation
  <2> QED
    BY <2>2 DEF IInv, Backed, Totals, Settled
<1> QED
  BY <1>1, <1>2, TotalsStep, TypeCorrect, Inductive, PTL DEF Spec
==============================================================================
