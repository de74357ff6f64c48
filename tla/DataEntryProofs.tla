--------------------------- MODULE DataEntryProofs ---------------------------
(***************************************************************************)
(* Proofs about DataEntry: for any rows, workers, calls and crashes, a row  *)
(* shown as dispatched has what it stands for, and a number one invoice.    *)
(***************************************************************************)
EXTENDS DataEntry, TLAPS

\* Every step keeps the ranges and each worker on its row's path.
LEMMA TypeStep == TypeOK /\ [Next]_vars => TypeOK'
<1> SUFFICES ASSUME TypeOK, [Next]_vars PROVE TypeOK'
  OBVIOUS
<1> USE TargetAssumption, RowAssumption, BoundAssumption, NoneAssumption
    DEF TypeOK, Labels, Targets, Goto
<1>1. ASSUME NEW r \in Records, Ingest(r) PROVE TypeOK'
  BY <1>1 DEF Ingest, workVars, dataVars
<1>2. ASSUME NEW r \in Records, Trigger(r) PROVE TypeOK'
  BY <1>2 DEF Trigger, dataVars
<1>3. ASSUME NEW w \in Workers, NEW r \in Records, Start(w, r) PROVE TypeOK'
  BY <1>3 DEF Start, dataVars
<1>4. ASSUME NEW w \in Workers, SaveValid(w) PROVE TypeOK'
  <2>1. rec[w] \in Records
    BY <1>4 DEF SaveValid
  <2>2. CASE Target[rec[w]] = "contact"
    BY <1>4, <2>1, <2>2 DEF SaveValid, Dispatches, dataVars
  <2>3. CASE Target[rec[w]] = "invoice"
    BY <1>4, <2>1, <2>3 DEF SaveValid, Dispatches, dataVars
  <2>4. CASE Target[rec[w]] = "other"
    BY <1>4, <2>1, <2>4 DEF SaveValid, Dispatches, dataVars
  <2> QED
    BY <2>1, <2>2, <2>3, <2>4
<1>5. ASSUME NEW w \in Workers, CreateContact(w) PROVE TypeOK'
  <2>1. rec[w] \in Records /\ Email[rec[w]] \in Emails
    BY <1>5 DEF CreateContact, Emails
  <2> QED
    BY <1>5, <2>1 DEF CreateContact, CreateRaises, Counted, dataVars
<1>6. ASSUME NEW w \in Workers, GetClient(w) PROVE TypeOK'
  <2>1. Found(Email[rec[w]]) \in {"newclient", "invoice", "invalid"}
    BY DEF Found
  <2> QED
    BY <1>6, <2>1 DEF GetClient, dataVars
<1>7. ASSUME NEW w \in Workers, CreateClient(w) PROVE TypeOK'
  <2>1. rec[w] \in Records /\ Email[rec[w]] \in Emails
    BY <1>7 DEF CreateClient, Emails
  <2> QED
    BY <1>7, <2>1 DEF CreateClient, CreateRaises, dataVars
<1>8. ASSUME NEW w \in Workers, CreateInvoice(w) PROVE TypeOK'
  <2>1. rec[w] \in Records /\ Number[rec[w]] \in Numbers
    BY <1>8 DEF CreateInvoice, Numbers
  <2> QED
    BY <1>8, <2>1 DEF CreateInvoice, CreateRaises, Counted, dataVars
<1>9. ASSUME NEW w \in Workers, Return(w) PROVE TypeOK'
  BY <1>9 DEF Return, Verdict, dataVars
<1>10. ASSUME NEW w \in Workers, WorkerDies(w) PROVE TypeOK'
  BY <1>10 DEF WorkerDies, dataVars
<1>11. CASE UNCHANGED vars
  BY <1>11 DEF vars, workVars, dataVars
<1> QED
  BY <1>1, <1>2, <1>3, <1>4, <1>5, <1>6, <1>7, <1>8, <1>9, <1>10, <1>11
  DEF Next, WorkerStep

\* Every row, call and worker is what the code makes of it; a worker holds a
\* row exactly while it works on one, and is where rows of its kind lead.
THEOREM TypeCorrect == Spec => []TypeOK
<1>1. Init => TypeOK
  BY BoundAssumption, NoneAssumption DEF Init, TypeOK, Labels
<1> QED
  BY <1>1, TypeStep, PTL DEF Spec

------------------------------------------------------------------------------
(* The inductive invariant.                                                  *)

\* What a dispatched row stands for is there.
Real(r) ==
  CASE Target[r] = "contact" -> clients[Email[r]] > 0 /\ made[r] > 0
    [] Target[r] = "invoice" -> Number[r] \in invoices /\ clients[Email[r]] > 0
    [] OTHER -> made[r] = 0

\* A worker that is about to say so has seen to it.
Earned(w) ==
  /\ pc[w] = "dispatched" => Real(rec[w])
  /\ pc[w] = "invoice" => clients[Email[rec[w]]] > 0

IsInvoice(r) == Target[r] = "invoice"

IInv ==
  /\ TypeOK
  /\ DispatchedIsReal
  /\ \A w \in Workers : Earned(w)
  /\ \A r \in Records :
       /\ Target[r] = "other" => made[r] = 0
       /\ IsInvoice(r) /\ made[r] > 0 => Number[r] \in invoices
  /\ OneInvoicePerNumber

\* Objects are added and never removed; a row of another kind gets none.
LEMMA Monotone ==
  ASSUME TypeOK, [Next]_vars
  PROVE  /\ \A e \in Emails : clients'[e] >= clients[e]
         /\ invoices \subseteq invoices'
         /\ \A r \in Records : made'[r] >= made[r]
         /\ \A r \in Records : Target[r] = "other" => made'[r] = made[r]
<1> USE DEF TypeOK
<1>1. ASSUME UNCHANGED dataVars
      PROVE  /\ \A e \in Emails : clients'[e] >= clients[e]
             /\ invoices \subseteq invoices'
             /\ \A r \in Records : made'[r] >= made[r]
             /\ \A r \in Records : Target[r] = "other" => made'[r] = made[r]
  BY <1>1 DEF dataVars
<1>2. ASSUME NEW w \in Workers, CreateContact(w)
      PROVE  /\ \A e \in Emails : clients'[e] >= clients[e]
             /\ invoices \subseteq invoices'
             /\ \A r \in Records : made'[r] >= made[r]
             /\ \A r \in Records : Target[r] = "other" => made'[r] = made[r]
  BY <1>2 DEF CreateContact, CreateRaises, Counted, dataVars
<1>3. ASSUME NEW w \in Workers, CreateClient(w)
      PROVE  /\ \A e \in Emails : clients'[e] >= clients[e]
             /\ invoices \subseteq invoices'
             /\ \A r \in Records : made'[r] >= made[r]
             /\ \A r \in Records : Target[r] = "other" => made'[r] = made[r]
  BY <1>3 DEF CreateClient, CreateRaises, dataVars
<1>4. ASSUME NEW w \in Workers, CreateInvoice(w)
      PROVE  /\ \A e \in Emails : clients'[e] >= clients[e]
             /\ invoices \subseteq invoices'
             /\ \A r \in Records : made'[r] >= made[r]
             /\ \A r \in Records : Target[r] = "other" => made'[r] = made[r]
  BY <1>4 DEF CreateInvoice, CreateRaises, Counted, dataVars
<1> QED
  BY <1>1, <1>2, <1>3, <1>4
  DEF Next, WorkerStep, Ingest, Trigger, Start, SaveValid, GetClient, Return,
      WorkerDies, vars

\* What is real stays so.
LEMMA RealStays ==
  ASSUME TypeOK, TypeOK', [Next]_vars, NEW r \in Records, Real(r)
  PROVE  Real(r)'
<1>1. Email[r] \in Emails
  BY DEF Emails
<1>2. /\ clients[Email[r]] \in Nat /\ clients'[Email[r]] \in Nat
      /\ made[r] \in Nat /\ made'[r] \in Nat
  BY <1>1 DEF TypeOK
<1>3. /\ clients'[Email[r]] >= clients[Email[r]] /\ made'[r] >= made[r]
      /\ invoices \subseteq invoices'
      /\ Target[r] = "other" => made'[r] = made[r]
  BY <1>1, Monotone
<1> QED
  BY <1>2, <1>3, TargetAssumption DEF Real, Targets

\* Every step keeps the inductive invariant.
LEMMA InvStep == IInv /\ [Next]_vars => IInv'
<1> SUFFICES ASSUME IInv, [Next]_vars PROVE IInv'
  OBVIOUS
<1>0. TypeOK /\ TypeOK'
  BY TypeStep DEF IInv
<1>1. \A r \in Records : Real(r) => Real(r)'
  BY <1>0, RealStays
<1>2. \A r \in Records : Target[r] = "other" => made'[r] = 0
  BY <1>0, Monotone DEF IInv
<1>3. ASSUME NEW w \in Workers, pc'[w] = pc[w], rec'[w] = rec[w] PROVE Earned(w)'
  <2>1. CASE pc[w] = "dispatched"
    BY <1>0, <1>1, <1>3, <2>1, NoneAssumption DEF IInv, Earned, TypeOK
  <2>2. CASE pc[w] = "invoice"
    <3>1. rec[w] \in Records
      BY <1>0, <2>2, NoneAssumption DEF TypeOK
    <3>2. Email[rec[w]] \in Emails
      BY <3>1 DEF Emails
    <3>3. clients'[Email[rec[w]]] >= clients[Email[rec[w]]] /\ clients[Email[rec[w]]] > 0
      BY <1>0, <2>2, <3>2, Monotone DEF IInv, Earned
    <3>4. clients'[Email[rec[w]]] > 0
      BY <1>0, <3>2, <3>3 DEF TypeOK
    <3> QED
      BY <1>3, <2>2, <3>4 DEF Earned
  <2>3. CASE pc[w] \notin {"dispatched", "invoice"}
    BY <1>3, <2>3 DEF Earned
  <2> QED
    BY <2>1, <2>2, <2>3
<1>4. ASSUME NEW w \in Workers, pc'[w] \notin {"dispatched", "invoice"} PROVE Earned(w)'
  BY <1>4 DEF Earned
<1>5. DispatchedIsReal <=> \A r \in Records : status[r] = "dispatched" => Real(r)
  BY DEF DispatchedIsReal, Real
<1>6. DispatchedIsReal' <=> \A r \in Records : status'[r] = "dispatched" => Real(r)'
  BY DEF DispatchedIsReal, Real
<1>7. ASSUME status' = status PROVE DispatchedIsReal'
  BY <1>1, <1>5, <1>6, <1>7 DEF IInv
<1>8. ASSUME invoices' = invoices, \A r \in Records : IsInvoice(r) => made'[r] = made[r]
      PROVE  /\ \A r \in Records : IsInvoice(r) /\ made'[r] > 0 => Number[r] \in invoices'
             /\ OneInvoicePerNumber'
  BY <1>8 DEF IInv, IsInvoice, OneInvoicePerNumber
<1> DEFINE Others(w) == \A v \in Workers \ {w} : pc'[v] = pc[v] /\ rec'[v] = rec[v]
<1>9. ASSUME DispatchedIsReal', \A w \in Workers : Earned(w)', invoices' = invoices,
             \A r \in Records : IsInvoice(r) => made'[r] = made[r]
      PROVE  IInv'
  BY <1>0, <1>2, <1>8, <1>9 DEF IInv, IsInvoice
<1>10. ASSUME UNCHANGED <<pc, rec, dataVars>>,
              \A r \in Records : status'[r] = "dispatched" => status[r] = "dispatched"
       PROVE  IInv'
  <2>1. DispatchedIsReal'
    BY <1>1, <1>5, <1>6, <1>10 DEF IInv
  <2> QED
    BY <1>3, <1>9, <1>10, <2>1 DEF dataVars
<1>11. ASSUME NEW r \in Records, Ingest(r) \/ Trigger(r) PROVE IInv'
  BY <1>0, <1>10, <1>11 DEF Ingest, Trigger, workVars, TypeOK
<1>12. ASSUME NEW w \in Workers, NEW r \in Records, Start(w, r) PROVE IInv'
  <2>1. Others(w) /\ pc'[w] \in {"valid", "invalid"} /\ status' = status /\ UNCHANGED dataVars
    BY <1>0, <1>12 DEF Start, Goto, TypeOK
  <2> QED
    BY <1>3, <1>4, <1>7, <1>9, <2>1 DEF dataVars
<1>13. ASSUME NEW w \in Workers, SaveValid(w) PROVE IInv'
  <2>1. Others(w) /\ rec' = rec /\ rec[w] \in Records
        /\ pc'[w] = Dispatches[Target[rec[w]]] /\ UNCHANGED dataVars
    BY <1>0, <1>13, NoneAssumption DEF SaveValid, Goto, TypeOK
  <2>2. DispatchedIsReal'
    BY <1>0, <1>1, <1>5, <1>6, <1>13 DEF IInv, SaveValid, TypeOK
  <2>3. Earned(w)'
    <3>1. CASE Target[rec[w]] = "other"
      BY <1>2, <2>1, <3>1 DEF Earned, Real, Dispatches
    <3>2. CASE Target[rec[w]] # "other"
      BY <1>4, <2>1, <3>2, TargetAssumption DEF Dispatches, Targets
    <3> QED
      BY <3>1, <3>2
  <2> QED
    BY <1>3, <1>9, <2>1, <2>2, <2>3 DEF dataVars
<1>22. ASSUME NEW w \in Workers, CreateRaises(w), rec' = rec, status' = status
       PROVE  IInv'
  <2>1. Others(w) /\ pc'[w] = "invalid" /\ UNCHANGED dataVars
    BY <1>0, <1>22 DEF CreateRaises, Goto, TypeOK
  <2> QED
    BY <1>3, <1>4, <1>7, <1>9, <1>22, <2>1 DEF dataVars
<1>14. ASSUME NEW w \in Workers, CreateContact(w), ~CreateRaises(w) PROVE IInv'
  <2>1. Others(w) /\ rec' = rec /\ rec[w] \in Records /\ Target[rec[w]] = "contact"
        /\ status' = status /\ invoices' = invoices
    BY <1>0, <1>14, NoneAssumption DEF CreateContact, Goto, TypeOK
  <2>2. Email[rec[w]] \in Emails
    BY <2>1 DEF Emails
  <2>3. /\ clients'[Email[rec[w]]] = clients[Email[rec[w]]] + 1
        /\ made'[rec[w]] = made[rec[w]] + 1
        /\ clients[Email[rec[w]]] \in Nat /\ made[rec[w]] \in Nat
    BY <1>0, <1>14, <2>1, <2>2 DEF CreateContact, Counted, TypeOK
  <2>4. Real(rec[w])'
    BY <2>1, <2>3 DEF Real
  <2>5. Earned(w)'
    <3>1. pc'[w] = "dispatched"
      BY <1>0, <1>14 DEF CreateContact, Goto, TypeOK
    <3> QED
      BY <2>1, <2>4, <3>1 DEF Earned
  <2>6. \A r \in Records : IsInvoice(r) => made'[r] = made[r]
    BY <1>0, <1>14, <2>1 DEF CreateContact, Counted, IsInvoice, TypeOK
  <2> QED
    BY <1>3, <1>7, <1>9, <2>1, <2>5, <2>6
<1>15. ASSUME NEW w \in Workers, GetClient(w) PROVE IInv'
  <2>1. Others(w) /\ rec' = rec /\ rec[w] \in Records /\ UNCHANGED dataVars
        /\ status' = status /\ pc'[w] = Found(Email[rec[w]])
    BY <1>0, <1>15, NoneAssumption DEF GetClient, Goto, TypeOK
  <2>2. Email[rec[w]] \in Emails
    BY <2>1 DEF Emails
  <2>3. Earned(w)'
    <3>1. CASE clients[Email[rec[w]]] = 1
      BY <2>1, <3>1 DEF Earned, Found, dataVars
    <3>2. CASE clients[Email[rec[w]]] # 1
      <4>1. pc'[w] \in {"newclient", "invalid"}
        BY <2>1, <3>2 DEF Found
      <4> QED
        BY <1>4, <4>1
    <3> QED
      BY <3>1, <3>2
  <2> QED
    BY <1>3, <1>7, <1>9, <2>1, <2>3 DEF dataVars
<1>16. ASSUME NEW w \in Workers, CreateClient(w), ~CreateRaises(w) PROVE IInv'
  <2>1. Others(w) /\ rec' = rec /\ rec[w] \in Records /\ status' = status
        /\ invoices' = invoices /\ made' = made /\ pc'[w] = "invoice"
    BY <1>0, <1>16, NoneAssumption DEF CreateClient, Goto, TypeOK
  <2>2. Email[rec[w]] \in Emails
    BY <2>1 DEF Emails
  <2>3. clients'[Email[rec[w]]] = clients[Email[rec[w]]] + 1 /\ clients[Email[rec[w]]] \in Nat
    BY <1>0, <1>16, <2>2 DEF CreateClient, TypeOK
  <2>4. Earned(w)'
    BY <2>1, <2>3 DEF Earned
  <2> QED
    BY <1>3, <1>7, <1>9, <2>1, <2>4
<1>17. ASSUME NEW w \in Workers, CreateInvoice(w), ~CreateRaises(w) PROVE IInv'
  <2> DEFINE r == rec[w]
  <2>1. Others(w) /\ rec' = rec /\ r \in Records /\ Target[r] = "invoice"
        /\ status' = status /\ clients' = clients
    BY <1>0, <1>17, NoneAssumption DEF CreateInvoice, Goto, TypeOK
  <2>2. /\ pc'[w] = "dispatched" /\ invoices' = invoices \cup {Number[r]}
        /\ made' = [made EXCEPT ![r] = @ + 1] /\ Number[r] \notin invoices
    BY <1>0, <1>17 DEF CreateInvoice, Acceptable, Counted, Goto, TypeOK
  <2>3. pc[w] = "invoice"
    BY <1>17 DEF CreateInvoice
  <2>4. clients[Email[r]] > 0
    BY <2>3 DEF IInv, Earned
  <2>5. Earned(w)'
    BY <2>1, <2>2, <2>4 DEF Earned, Real
  <2>6. \A q \in Records : made[q] \in Nat
    BY <1>0 DEF TypeOK
  <2>7. \A q \in Records : IsInvoice(q) /\ Number[q] = Number[r] => made[q] = 0
    BY <2>2, <2>6 DEF IInv
  <2>8. made'[r] = 1 /\ \A q \in Records \ {r} : made'[q] = made[q]
    BY <1>0, <2>1, <2>2, <2>7 DEF IsInvoice, TypeOK
  <2>9. \A q \in Records : IsInvoice(q) /\ made'[q] > 0 => Number[q] \in invoices'
    BY <2>2, <2>8 DEF IInv
  <2>10. OneInvoicePerNumber'
    <3> SUFFICES ASSUME NEW p \in Records, NEW q \in Records,
                        IsInvoice(p), IsInvoice(q), Number[p] = Number[q]
                 PROVE  made'[p] <= 1 /\ (p # q => made'[p] + made'[q] <= 1)
      BY DEF OneInvoicePerNumber, IsInvoice
    <3>1. made[p] <= 1 /\ (p # q => made[p] + made[q] <= 1)
      BY DEF IInv, OneInvoicePerNumber, IsInvoice
    <3>2. CASE p # r /\ q # r
      BY <2>8, <3>1, <3>2
    <3>3. CASE p = r /\ q # r
      BY <2>7, <2>8, <3>3
    <3>4. CASE p # r /\ q = r
      BY <2>7, <2>8, <3>4
    <3>5. CASE p = r /\ q = r
      BY <2>8, <3>5
    <3> QED
      BY <3>2, <3>3, <3>4, <3>5
  <2>11. \A v \in Workers : Earned(v)'
    BY <1>3, <2>1, <2>5
  <2>12. DispatchedIsReal'
    BY <1>7, <2>1
  <2> QED
    BY <1>0, <1>2, <2>9, <2>10, <2>11, <2>12 DEF IInv
<1>18. ASSUME NEW w \in Workers, CreateRaises(w),
              CreateContact(w) \/ CreateClient(w) \/ CreateInvoice(w)
       PROVE  IInv'
  BY <1>22, <1>18 DEF CreateContact, CreateClient, CreateInvoice
<1>19. ASSUME NEW w \in Workers, Return(w) PROVE IInv'
  <2>1. Others(w) /\ rec[w] \in Records /\ UNCHANGED dataVars /\ pc'[w] = "idle"
        /\ status' = [status EXCEPT ![rec[w]] = pc[w]]
    BY <1>0, <1>19, NoneAssumption DEF Return, Verdict, Goto, TypeOK
  <2>2. DispatchedIsReal'
    <3>1. ASSUME NEW r \in Records, status'[r] = "dispatched" PROVE Real(r)'
      <4>1. CASE r = rec[w]
        BY <1>0, <1>1, <2>1, <3>1, <4>1 DEF IInv, Earned, TypeOK
      <4>2. CASE r # rec[w]
        BY <1>0, <1>1, <1>5, <2>1, <3>1, <4>2 DEF IInv, TypeOK
      <4> QED
        BY <4>1, <4>2
    <3> QED
      BY <1>6, <3>1
  <2> QED
    BY <1>3, <1>4, <1>9, <2>1, <2>2 DEF dataVars
<1>20. ASSUME NEW w \in Workers, WorkerDies(w) PROVE IInv'
  <2>1. Others(w) /\ UNCHANGED dataVars /\ pc'[w] = "idle" /\ status' = status
    BY <1>0, <1>20 DEF WorkerDies, Goto, TypeOK
  <2> QED
    BY <1>3, <1>4, <1>7, <1>9, <2>1 DEF dataVars
<1>21. CASE UNCHANGED vars
  BY <1>10, <1>21 DEF vars, workVars
<1> QED
  BY <1>11, <1>12, <1>13, <1>14, <1>15, <1>16, <1>17, <1>18, <1>19, <1>20, <1>21
  DEF Next, WorkerStep

\* The inductive invariant holds in every state.
THEOREM Inductive == Spec => []IInv
<1>1. Init => TypeOK
  BY BoundAssumption, NoneAssumption DEF Init, TypeOK, Labels
<1>2. Init => IInv
  BY <1>1 DEF Init, IInv, Earned, DispatchedIsReal, OneInvoicePerNumber
<1> QED
  BY <1>2, InvStep, PTL DEF Spec

\* A row shown as dispatched has its client or its invoice, whichever of any
\* number of executions, dead or refused ones among them, saved last.
THEOREM DispatchedIsRealHolds == Spec => []DispatchedIsReal
<1>1. IInv => DispatchedIsReal
  BY DEF IInv
<1> QED
  BY <1>1, Inductive, PTL

\* However often rows are processed, and by however many workers, a number
\* gets one invoice.
THEOREM OneInvoicePerNumberHolds == Spec => []OneInvoicePerNumber
<1>1. IInv => OneInvoicePerNumber
  BY DEF IInv
<1> QED
  BY <1>1, Inductive, PTL
==============================================================================
