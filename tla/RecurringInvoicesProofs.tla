----------------------- MODULE RecurringInvoicesProofs -----------------------
(***************************************************************************)
(* Proofs about RecurringInvoices, for any schedules, cadences, days and    *)
(* incidents.  A pause is kept and no schedule is disabled early however    *)
(* many scans overlap; the cadence and the count of the failures are kept   *)
(* when scans do not overlap (Sole).                                        *)
(***************************************************************************)
EXTENDS RecurringInvoices, TLAPS

\* What a scan writes after an attempt.
LEMMA AdvancedRow ==
  ASSUME TypeOK, NEW s \in Scans, NEW c \in Schedules, NEW f \in Nat,
         NEW y, y = Advanced(s, c, f)
  PROVE  /\ y \in Row
         /\ y.next = today[s] + Cadence[c] /\ y.failures = f
         /\ y.active <=> copy[s][c].active /\ f < FailureLimit
<1>1. today[s] \in Nat /\ Cadence[c] \in Nat
  BY CadenceAssumption, BoundAssumption DEF TypeOK
<1>2. (copy[s][c].active /\ f < FailureLimit) \in BOOLEAN
  OBVIOUS
<1>3. /\ y.next = today[s] + Cadence[c] /\ y.failures = f
      /\ y.active = (copy[s][c].active /\ f < FailureLimit)
      /\ y = [next |-> today[s] + Cadence[c], failures |-> f,
              active |-> copy[s][c].active /\ f < FailureLimit]
  BY DEF Advanced
<1>4. today[s] + Cadence[c] \in Nat
  BY <1>1
<1>5. y \in Row
  BY <1>2, <1>3, <1>4 DEF Row
<1> QED
  BY <1>3, <1>5

\* A new row.
LEMMA NewRowsAreRows == NewRows \in [Schedules -> Row]
  BY DEF NewRows, Row

\* What an edit writes.
LEMMA EditedRow ==
  ASSUME NEW x \in Row, NEW a \in BOOLEAN, NEW n \in Nat,
         NEW y, y = [x EXCEPT !.active = a, !.next = n]
  PROVE  y \in Row /\ y.active = a /\ y.failures = x.failures
  BY DEF Row

\* An attempt changes one copy of one scan.
LEMMA Attempt ==
  ASSUME TypeOK, NEW s \in Scans, current[s] \in Schedules,
         Failed(s) \/ (Succeeded(s))
  PROVE  \E f \in Nat, y \in Row :
           /\ copy' = [copy EXCEPT ![s] = [copy[s] EXCEPT ![current[s]] = y]]
           /\ y = Advanced(s, current[s], f)
           /\ Succeeded(s) => f = 0
           /\ ~Succeeded(s) => f = copy[s][current[s]].failures + 1
<1>1. copy[s][current[s]] \in Row /\ copy[s] \in [Schedules -> Row]
  BY DEF TypeOK
<1>2. copy[s][current[s]].failures \in Nat
  BY <1>1 DEF Row
<1>3. CASE Succeeded(s)
  <2>1. copy' = [copy EXCEPT ![s] = [copy[s] EXCEPT ![current[s]] =
                                       Advanced(s, current[s], 0)]]
    BY <1>1, <1>3 DEF Succeeded, Resets, TypeOK
  <2>2. Advanced(s, current[s], 0) \in Row
    BY AdvancedRow
  <2> QED
    BY <1>3, <2>1, <2>2
<1>4. CASE ~Succeeded(s)
  <2> DEFINE f == copy[s][current[s]].failures + 1
  <2>1. copy' = [copy EXCEPT ![s] = [copy[s] EXCEPT ![current[s]] =
                                       Advanced(s, current[s], f)]]
    BY <1>1, <1>4 DEF Failed, TypeOK
  <2>2. f \in Nat
    BY <1>2
  <2>3. Advanced(s, current[s], f) \in Row
    BY <2>2, AdvancedRow
  <2> HIDE DEF f
  <2>4. f = copy[s][current[s]].failures + 1
    BY DEF f
  <2> QED
    BY <1>4, <2>1, <2>2, <2>3, <2>4
<1> QED
  BY <1>3, <1>4

\* What an attempt keeps in its range.
LEMMA AttemptTypes ==
  ASSUME TypeOK, NEW s \in Scans, current[s] \in Schedules, Failed(s) \/ Succeeded(s)
  PROVE  /\ copy' \in [Scans -> [Schedules -> Row]]
         /\ streak' \in [Schedules -> Nat] /\ failed' \in [Schedules -> Nat]
         /\ stage' = [stage EXCEPT ![s] = "saving"]
<1>1. PICK y \in Row :
        copy' = [copy EXCEPT ![s] = [copy[s] EXCEPT ![current[s]] = y]]
  BY Attempt
<1>2. copy' \in [Scans -> [Schedules -> Row]]
  BY <1>1 DEF TypeOK
<1>3. streak' \in [Schedules -> Nat] /\ failed' \in [Schedules -> Nat]
  <2>1. CASE Failed(s)
    BY <2>1 DEF Failed, TypeOK
  <2>2. CASE Succeeded(s)
    BY <2>2 DEF Succeeded, TypeOK
  <2> QED
    BY <2>1, <2>2
<1> QED
  BY <1>2, <1>3 DEF Failed, Succeeded

\* A scan that leaves keeps the ranges.
LEMMA LeaveTypes ==
  ASSUME TypeOK, NEW s \in Scans, Leave(s), left' \in [Incidents -> Nat]
  PROVE  TypeOK'
  BY NewRowsAreRows, NoneAssumption, BoundAssumption
  DEF Leave, TypeOK, tableVars, bookVars

\* Every step keeps the ranges.
LEMMA TypeStep == TypeOK /\ [Next]_vars => TypeOK'
<1> SUFFICES ASSUME TypeOK, [Next]_vars PROVE TypeOK'
  OBVIOUS
<1> USE NoneAssumption, BoundAssumption, CadenceAssumption, FailureLimitAssumption
<1>0. ASSUME NEW k \in Incidents, Spend(k) PROVE left' \in [Incidents -> Nat]
  BY <1>0 DEF Spend, TypeOK
<1>1. ASSUME Tick PROVE TypeOK'
  <2>1. left' \in [Incidents -> Nat]
    BY <1>0, <1>1 DEF Tick, TypeOK, Incidents
  <2>2. day' \in 0..LastDay /\ day \in 0..LastDay /\ 0..day \subseteq 0..day'
    BY <1>1 DEF Tick, TypeOK
  <2>3. today' \in [Scans -> 0..day']
    BY <1>1, <2>2 DEF Tick, TypeOK, scanVars
  <2>4. (numbers \cup issued)' \subseteq Schedules \X (0..day')
    BY <1>1, <2>2 DEF Tick, TypeOK, bookVars
  <2> QED
    BY <1>1, <2>1, <2>2, <2>3, <2>4 DEF Tick, TypeOK, tableVars, scanVars, bookVars
<1>2. ASSUME NEW s \in Scans, BeginScan(s) PROVE TypeOK'
  <2>1. Due \subseteq Schedules
    BY DEF Due, TypeOK
  <2>2. today' \in [Scans -> 0..day]
    BY <1>2 DEF BeginScan, TypeOK
  <2> QED
    BY <1>2, <2>1, <2>2 DEF BeginScan, TypeOK, tableVars, bookVars
<1>3. ASSUME NEW s \in Scans, NEW c \in todo[s], NextRow(s, c) PROVE TypeOK'
  <2>1. c \in Schedules
    BY <1>3 DEF TypeOK
  <2> QED
    BY <1>3, <2>1 DEF NextRow, Rest, TypeOK, tableVars, bookVars
<1>4. ASSUME NEW s \in Scans, CreateInvoice(s) PROVE TypeOK'
  <2>1. current[s] \in Schedules /\ day \in 0..day
    <3>1. stage[s] = "creating"
      BY <1>4 DEF CreateInvoice
    <3>2. current[s] \in Schedules
      BY <3>1 DEF TypeOK
    <3>3. day \in 0..day
      BY DEF TypeOK
    <3> QED
      BY <3>2, <3>3
  <2>2. numbers' \subseteq Schedules \X (0..day)
    <3>1. numbers' = numbers \/ numbers' = numbers \cup {<<current[s], day>>}
      BY <1>4 DEF CreateInvoice
    <3>2. numbers \subseteq Schedules \X (0..day)
      BY DEF TypeOK
    <3> QED
      BY <2>1, <3>1, <3>2
  <2>3. /\ copy' \in [Scans -> [Schedules -> Row]]
        /\ streak' \in [Schedules -> Nat] /\ failed' \in [Schedules -> Nat]
    BY <1>4, <2>1, AttemptTypes DEF CreateInvoice, TypeOK
  <2>4. stage' = [stage EXCEPT ![s] = "saving"] \/ stage' = [stage EXCEPT ![s] = "issuing"]
    BY <1>4 DEF CreateInvoice, Failed
  <2>5. \A t \in Scans : stage'[t] = "idle" => copy'[t] = NewRows
    BY <1>4, <2>4 DEF CreateInvoice, Failed, TypeOK
  <2>6. /\ stage' \in [Scans -> {"idle", "looping", "creating", "issuing", "saving"}]
        /\ \A t \in Scans : current[t] = None <=> stage'[t] \in {"idle", "looping"}
        /\ \A t \in Scans : stage'[t] = "idle" => stage[t] = "idle"
    BY <1>4, <2>4 DEF CreateInvoice, TypeOK
  <2>7. /\ day' = day /\ present' = present /\ row' = row /\ today' = today
        /\ todo' = todo /\ current' = current /\ draft' = draft /\ issued' = issued
        /\ resting' = resting /\ left' = left
    BY <1>4 DEF CreateInvoice, tableVars
  <2> QED
    BY <2>2, <2>3, <2>5, <2>6, <2>7 DEF TypeOK
<1>5. ASSUME NEW s \in Scans, IssueSucceeds(s) \/ IssueFails(s) PROVE TypeOK'
  <2>1. current[s] \in Schedules /\ day \in 0..day /\ stage[s] = "issuing"
    BY <1>5 DEF IssueSucceeds, IssueFails, TypeOK
  <2>2. issued' \subseteq Schedules \X (0..day)
    BY <1>5, <2>1 DEF IssueSucceeds, IssueFails, TypeOK
  <2>3. /\ copy' \in [Scans -> [Schedules -> Row]]
        /\ streak' \in [Schedules -> Nat] /\ failed' \in [Schedules -> Nat]
        /\ stage' = [stage EXCEPT ![s] = "saving"]
    BY <1>5, <2>1, AttemptTypes DEF IssueSucceeds, IssueFails
  <2>4. \A t \in Scans : stage'[t] = "idle" => copy'[t] = NewRows
    BY <1>5, <2>3 DEF IssueSucceeds, IssueFails, Failed, Succeeded, TypeOK
  <2>5. left' \in [Incidents -> Nat]
    BY <1>0, <1>5 DEF IssueSucceeds, IssueFails, TypeOK, Incidents
  <2>6. /\ stage' \in [Scans -> {"idle", "looping", "creating", "issuing", "saving"}]
        /\ \A t \in Scans : current[t] = None <=> stage'[t] \in {"idle", "looping"}
        /\ \A t \in Scans : stage'[t] = "idle" => stage[t] = "idle"
    BY <2>1, <2>3 DEF TypeOK
  <2>7. /\ day' = day /\ present' = present /\ row' = row /\ today' = today
        /\ todo' = todo /\ current' = current /\ draft' = draft /\ numbers' = numbers
        /\ resting' = resting
    BY <1>5 DEF IssueSucceeds, IssueFails, tableVars
  <2> QED
    BY <2>2, <2>3, <2>4, <2>5, <2>6, <2>7 DEF TypeOK
<1>6. ASSUME NEW s \in Scans, SaveRow(s) PROVE TypeOK'
  <2>1. current[s] \in Schedules /\ copy[s][current[s]] \in Row
    BY <1>6 DEF SaveRow, TypeOK
  <2> QED
    BY <1>6, <2>1 DEF SaveRow, TypeOK, bookVars
<1>7. ASSUME NEW s \in Scans, SaveRefused(s) \/ EndScan(s) PROVE TypeOK'
  BY <1>7, LeaveTypes DEF SaveRefused, EndScan, TypeOK
<1>8. ASSUME NEW s \in Scans, ScanDies(s) PROVE TypeOK'
  BY <1>0, <1>8, LeaveTypes DEF ScanDies, Incidents
<1>9. ASSUME NEW c \in Schedules, NEW u \in People, LoadForEdit(u, c) PROVE TypeOK'
  <2>1. left' \in [Incidents -> Nat]
    BY <1>0, <1>9 DEF LoadForEdit, Incidents
  <2>2. [schedule |-> c, read |-> row[c]] \in [schedule : Schedules, read : Row]
    BY DEF TypeOK
  <2> QED
    BY <1>9, <2>1, <2>2 DEF LoadForEdit, TypeOK, tableVars, scanVars, bookVars
<1>10. ASSUME NEW u \in People, NEW active \in BOOLEAN, SaveEdit(u, active) PROVE TypeOK'
  <2> DEFINE c == draft[u].schedule
  <2>1. c \in Schedules /\ draft[u].read \in Row
    BY <1>10 DEF SaveEdit, TypeOK
  <2>2. PICK next \in {draft[u].read.next, day} :
          row' = [row EXCEPT ![c] = [draft[u].read EXCEPT !.active = active, !.next = next]]
    BY <1>10 DEF SaveEdit
  <2>3. next \in Nat
    BY <2>1 DEF Row, TypeOK
  <2>4. [draft[u].read EXCEPT !.active = active, !.next = next] \in Row
    BY <2>1, <2>3, EditedRow
  <2>5. row' \in [Schedules -> Row]
    BY <2>1, <2>2, <2>4 DEF TypeOK
  <2>6. present' \subseteq Schedules /\ resting' \subseteq Schedules
    BY <1>10, <2>1 DEF SaveEdit, TypeOK
  <2>7. draft' \in [People -> [schedule : Schedules, read : Row] \cup {None}]
    BY <1>10 DEF SaveEdit, TypeOK
  <2>8. /\ day' = day /\ UNCHANGED scanVars /\ UNCHANGED bookVars /\ left' = left
    BY <1>10 DEF SaveEdit
  <2> QED
    BY ONLY TypeOK, <2>5, <2>6, <2>7, <2>8 DEF TypeOK, scanVars, bookVars
<1>11. ASSUME NEW c \in Schedules, Delete(c) PROVE TypeOK'
  <2>1. left' \in [Incidents -> Nat]
    BY <1>0, <1>11 DEF Delete, Incidents
  <2> QED
    BY <1>11, <2>1 DEF Delete, TypeOK, scanVars, bookVars
<1>12. CASE UNCHANGED vars
  BY <1>12 DEF vars, TypeOK, tableVars, scanVars, bookVars
<1> QED
  BY <1>1, <1>2, <1>3, <1>4, <1>5, <1>6, <1>7, <1>8, <1>9, <1>10, <1>11, <1>12
  DEF Next, ScanStep, RunScan

\* The initial state is in range.
LEMMA TypeInit == Init => TypeOK
<1> SUFFICES ASSUME Init PROVE TypeOK
  OBVIOUS
<1>1. row \in [Schedules -> Row] /\ copy \in [Scans -> [Schedules -> Row]]
  BY NewRowsAreRows DEF Init
<1>2. today \in [Scans -> 0..day] /\ left \in [Incidents -> Nat]
  BY BoundAssumption DEF Init
<1> QED
  BY <1>1, <1>2, BoundAssumption, NoneAssumption DEF Init, TypeOK

\* Every row, copy, date and history keeps its range; a scan has a schedule in
\* its hands exactly while it issues the invoice or saves the row, and one
\* that is idle has forgotten what it read.
THEOREM TypeCorrect == Spec => []TypeOK
  BY TypeInit, TypeStep, PTL DEF Spec

------------------------------------------------------------------------------
(* Incidents only get fewer, and no request has a copy of a schedule unless  *)
(* somebody edits.                                                           *)

Rare ==
  /\ \A k \in Incidents : left[k] <= Budget[k]
  /\ Spared({"edit"}) => \A u \in People : draft[u] = None

\* An incident that happened is never unspent.
LEMMA Spent ==
  ASSUME TypeOK, \A k \in Incidents : left[k] <= Budget[k],
         NEW j \in Incidents, Spend(j)
  PROVE  /\ left'[j] # Budget[j]
         /\ \A k \in Incidents : left'[k] <= Budget[k]
         /\ \A k \in Incidents : left'[k] = Budget[k] => left[k] = Budget[k]
<1>1. \A k \in Incidents : left[k] \in Nat /\ Budget[k] \in Nat
  BY BoundAssumption DEF TypeOK
<1>2. left'[j] = left[j] - 1 /\ \A k \in Incidents \ {j} : left'[k] = left[k]
  BY DEF Spend, TypeOK
<1> QED
  BY <1>1, <1>2

\* What was spared after a step was spared before it.
LEMMA SparedBack ==
  ASSUME TypeOK, Rare, [Next]_vars
  PROVE  /\ \A k \in Incidents : left'[k] <= Budget[k]
         /\ \A k \in Incidents : left'[k] = Budget[k] => left[k] = Budget[k]
<1>1. (\E k \in Incidents : Spend(k)) \/ left' = left
  BY DEF Next, ScanStep, RunScan, Tick, BeginScan, EndScan, CreateInvoice, IssueSucceeds,
         IssueFails, SaveRow, SaveRefused, NextRow, ScanDies, LoadForEdit,
         SaveEdit, Delete, Incidents, vars
<1>2. CASE \E k \in Incidents : Spend(k)
  BY <1>2, Spent DEF Rare
<1>3. CASE left' = left
  BY <1>3 DEF Rare
<1> QED
  BY <1>1, <1>2, <1>3

\* Every step keeps it so.
LEMMA RareStep == TypeOK /\ Rare /\ [Next]_vars => Rare'
<1> SUFFICES ASSUME TypeOK, Rare, [Next]_vars PROVE Rare'
  OBVIOUS
<1>1. \A k \in Incidents : left'[k] <= Budget[k]
  BY SparedBack
<1>2. ASSUME Spared({"edit"})' PROVE \A u \in People : draft'[u] = None
  <2>1. "edit" \in Incidents /\ left'["edit"] = Budget["edit"]
    BY <1>2 DEF Spared, Incidents
  <2>2. Spared({"edit"})
    BY <2>1, SparedBack DEF Spared
  <2>3. \A u \in People : draft[u] = None
    BY <2>2 DEF Rare
  <2>4. ASSUME NEW u \in People, NEW c \in Schedules, LoadForEdit(u, c) PROVE FALSE
    BY <2>1, <2>4, Spent DEF LoadForEdit, Rare
  <2>5. draft' = draft
    BY <2>3, <2>4 DEF Next, ScanStep, RunScan, Tick, BeginScan, EndScan, CreateInvoice,
         IssueSucceeds, IssueFails, SaveRow, SaveRefused, NextRow, ScanDies, SaveEdit,
         Delete, Leave, vars
  <2> QED
    BY <2>3, <2>5
<1> QED
  BY <1>1, <1>2 DEF Rare

\* A step of the schedules' own: no edit is saved.
LEMMA NoEdit ==
  ASSUME TypeOK, Rare, [Next]_vars, NEW I \in SUBSET Incidents, "edit" \in I, Spared(I)'
  PROVE  /\ Spared(I)
         /\ \A u \in People, c \in Schedules : ~LoadForEdit(u, c)
         /\ \A u \in People, active \in BOOLEAN : ~SaveEdit(u, active)
<1>1. Spared(I)
  BY SparedBack DEF Spared
<1>2. \A u \in People : draft[u] = None
  BY <1>1 DEF Rare, Spared
<1>3. \A u \in People, c \in Schedules : ~LoadForEdit(u, c)
  BY Spent DEF LoadForEdit, Rare, Spared
<1> QED
  BY <1>1, <1>2, <1>3 DEF SaveEdit

------------------------------------------------------------------------------
(* A pause.                                                                  *)

\* A schedule is in nobody's hands unless a scan took it up.
LEMMA HeldStep ==
  ASSUME TypeOK, [Next]_vars, NEW c \in Schedules, ~Held(c), ~row[c].active
  PROVE  ~Held(c)'
<1>1. ASSUME NEW s \in Scans, BeginScan(s) PROVE ~Held(c)'
  <2>1. c \notin Due
    BY DEF Due
  <2>2. \A t \in Scans : current'[t] = current[t] /\ (todo'[t] = todo[t] \/ todo'[t] = Due)
    BY <1>1 DEF BeginScan, TypeOK
  <2> QED
    BY <2>1, <2>2 DEF Held
<1>2. ASSUME NEW s \in Scans, NEW d \in todo[s], NextRow(s, d) PROVE ~Held(c)'
  <2>1. d # c
    BY DEF Held
  <2>2. \A t \in Scans : /\ current'[t] = current[t] \/ current'[t] = d
                        /\ todo'[t] \subseteq todo[t]
    BY <1>2 DEF NextRow, Rest, TypeOK
  <2> QED
    BY <2>1, <2>2 DEF Held
<1>3. ASSUME NEW s \in Scans, Leave(s) \/ SaveRow(s) PROVE ~Held(c)'
  <2>1. \A t \in Scans : /\ current'[t] = current[t] \/ current'[t] = None
                        /\ todo'[t] \subseteq todo[t]
    BY <1>3 DEF Leave, SaveRow, TypeOK
  <2> QED
    BY <2>1, NoneAssumption DEF Held
<1>4. ASSUME current' = current, todo' = todo PROVE ~Held(c)'
  BY <1>4 DEF Held
<1>5. ASSUME NEW s \in Scans, ScanStep(s) \/ ScanDies(s) PROVE ~Held(c)'
  BY <1>1, <1>2, <1>3, <1>4, <1>5
  DEF ScanStep, RunScan, ScanDies, EndScan, SaveRefused, CreateInvoice, IssueSucceeds, IssueFails
<1>6. ASSUME UNCHANGED scanVars PROVE ~Held(c)'
  BY <1>4, <1>6 DEF scanVars
<1> QED
  BY <1>5, <1>6 DEF Next, Tick, Delete, LoadForEdit, SaveEdit, vars

\* Every step keeps the pauses.
LEMMA PauseStep == TypeOK /\ PauseIsKept /\ [Next]_vars => PauseIsKept'
<1> SUFFICES ASSUME TypeOK, PauseIsKept, [Next]_vars, NEW c \in resting'
             PROVE  ~row'[c].active /\ ~Held(c)'
  BY DEF PauseIsKept
<1>1. CASE row' = row /\ resting' = resting
  <2>1. ~row[c].active /\ ~Held(c) /\ c \in Schedules
    BY <1>1 DEF PauseIsKept, TypeOK
  <2> QED
    BY <1>1, <2>1, HeldStep
<1>2. ASSUME NEW s \in Scans, SaveRow(s) PROVE ~row'[c].active /\ ~Held(c)'
  <2>1. c \in resting /\ ~row[c].active /\ ~Held(c) /\ c \in Schedules
    BY <1>2 DEF SaveRow, PauseIsKept, TypeOK
  <2>2. c # current[s]
    BY <2>1 DEF Held
  <2>3. row'[c] = row[c]
    BY <1>2, <2>1, <2>2 DEF SaveRow, TypeOK
  <2> QED
    BY <2>1, <2>3, HeldStep
<1>3. ASSUME NEW u \in People, NEW active \in BOOLEAN, SaveEdit(u, active)
      PROVE  ~row'[c].active /\ ~Held(c)'
  <2> DEFINE d == draft[u].schedule
  <2>1. d \in Schedules /\ draft[u].read \in Row
    BY <1>3 DEF SaveEdit, TypeOK
  <2>2. PICK next \in {draft[u].read.next, day} :
          row' = [row EXCEPT ![d] = [draft[u].read EXCEPT !.active = active, !.next = next]]
    BY <1>3 DEF SaveEdit
  <2>3. next \in Nat
    BY <2>1 DEF Row, TypeOK
  <2>4. row'[d] = [draft[u].read EXCEPT !.active = active, !.next = next]
    BY <2>1, <2>2 DEF TypeOK
  <2>5. row'[d].active = active /\ \A e \in Schedules \ {d} : row'[e] = row[e]
    <3>1. row'[d].active = active
      BY <2>1, <2>3, <2>4 DEF Row
    <3>2. \A e \in Schedules \ {d} : row'[e] = row[e]
      BY <2>2 DEF TypeOK
    <3> QED
      BY <3>1, <3>2
  <2>6. Held(c)' <=> Held(c)
    <3>1. todo' = todo /\ current' = current
      BY <1>3 DEF SaveEdit, scanVars
    <3> QED
      BY <3>1 DEF Held
  <2>7. CASE active
    <3>1. c \in resting /\ c # d
      BY <1>3, <2>7 DEF SaveEdit
    <3> QED
      BY <2>5, <2>6, <3>1 DEF PauseIsKept, TypeOK
  <2>8. CASE ~active /\ c = d
    <3>1. c \in resting \/ ~Held(c)
      BY <1>3, <2>8 DEF SaveEdit
    <3> QED
      BY <2>5, <2>6, <2>8, <3>1 DEF PauseIsKept
  <2>9. CASE ~active /\ c # d
    <3>1. c \in resting
      BY <1>3, <2>9 DEF SaveEdit
    <3> QED
      BY <2>5, <2>6, <2>9, <3>1 DEF PauseIsKept, TypeOK
  <2> QED
    BY <2>7, <2>8, <2>9
<1> QED
  BY <1>1, <1>2, <1>3
  DEF Next, ScanStep, RunScan, Tick, BeginScan, EndScan, CreateInvoice, IssueSucceeds, IssueFails,
      SaveRefused, NextRow, ScanDies, LoadForEdit, Delete, Leave, vars, tableVars

\* A pause made while no scan works on the schedule is kept, by however many
\* scans and through every accident.
THEOREM PauseIsKeptHolds == Spec => []PauseIsKept
<1>1. Init => PauseIsKept
  BY DEF Init, PauseIsKept
<1> QED
  BY <1>1, PauseStep, TypeCorrect, PTL DEF Spec

------------------------------------------------------------------------------
(* A schedule is not disabled early.                                         *)

Counted ==
  Spared({"edit"}) =>
    \A c \in Schedules :
      /\ ~row[c].active => failed[c] >= FailureLimit
      /\ row[c].failures <= failed[c]
      /\ \A s \in Scans : /\ ~copy[s][c].active => failed[c] >= FailureLimit
                          /\ copy[s][c].failures <= failed[c]

\* Every step keeps the failures that a row or a copy counts below those that
\* have happened.
LEMMA CountedStep == TypeOK /\ Rare /\ Counted /\ [Next]_vars => Counted'
<1> SUFFICES ASSUME TypeOK, Rare, Counted, [Next]_vars, Spared({"edit"})' PROVE Counted'
  BY DEF Counted
<1> USE FailureLimitAssumption
<1>0. /\ TypeOK'
      /\ \A u \in People, c \in Schedules : ~LoadForEdit(u, c)
      /\ \A u \in People, active \in BOOLEAN : ~SaveEdit(u, active)
      /\ Spared({"edit"})
  BY TypeStep, NoEdit DEF Incidents
<1>1. \A c \in Schedules :
        /\ ~row[c].active => failed[c] >= FailureLimit
        /\ row[c].failures <= failed[c]
        /\ \A s \in Scans : /\ ~copy[s][c].active => failed[c] >= FailureLimit
                            /\ copy[s][c].failures <= failed[c]
  BY <1>0 DEF Counted
<1>2. CASE UNCHANGED <<row, copy, failed>>
  BY <1>1, <1>2 DEF Counted
<1>3. ASSUME NEW s \in Scans, BeginScan(s) PROVE Counted'
  <2>1. row' = row /\ failed' = failed /\ copy'[s] = row
        /\ \A t \in Scans \ {s} : copy'[t] = copy[t]
    BY <1>3 DEF BeginScan, tableVars, bookVars, TypeOK
  <2> QED
    BY <1>1, <2>1 DEF Counted
<1>4. ASSUME NEW s \in Scans, Leave(s) PROVE Counted'
  <2>1. row' = row /\ failed' = failed /\ copy'[s] = NewRows
        /\ \A t \in Scans \ {s} : copy'[t] = copy[t]
    BY <1>4 DEF Leave, tableVars, bookVars, TypeOK
  <2>2. \A c \in Schedules : NewRows[c].active /\ NewRows[c].failures = 0 /\ failed[c] \in Nat
    BY DEF NewRows, TypeOK
  <2> QED
    BY <1>1, <2>1, <2>2 DEF Counted
<1>5. ASSUME NEW s \in Scans, SaveRow(s) PROVE Counted'
  <2>1. failed' = failed /\ copy' = copy /\ current[s] \in Schedules
        /\ row' = [row EXCEPT ![current[s]] = copy[s][current[s]]]
    BY <1>5 DEF SaveRow, bookVars, TypeOK
  <2>2. \A c \in Schedules : row'[c] = row[c] \/ row'[c] = copy[s][c]
    BY <2>1 DEF TypeOK
  <2> QED
    BY <1>1, <2>1, <2>2 DEF Counted
<1>6. ASSUME NEW s \in Scans, current[s] \in Schedules, row' = row, Failed(s) \/ Succeeded(s)
      PROVE  Counted'
  <2> DEFINE c == current[s]
  <2>1. PICK f \in Nat, y \in Row :
          /\ copy' = [copy EXCEPT ![s] = [copy[s] EXCEPT ![c] = y]]
          /\ y = Advanced(s, c, f)
          /\ Succeeded(s) => f = 0
          /\ ~Succeeded(s) => f = copy[s][c].failures + 1
    BY <1>6, Attempt
  <2>2. y.failures = f /\ (y.active <=> copy[s][c].active /\ f < FailureLimit)
    BY <1>6, <2>1, AdvancedRow
  <2>3. copy'[s][c] = y /\ \A t \in Scans, d \in Schedules :
          t # s \/ d # c => copy'[t][d] = copy[t][d]
    BY <1>6, <2>1 DEF TypeOK
  <2>4. /\ \A d \in Schedules : failed'[d] >= failed[d] /\ failed[d] \in Nat /\ failed'[d] \in Nat
        /\ ~Succeeded(s) => failed'[c] = failed[c] + 1
    <3>1. CASE Succeeded(s)
      BY <1>0, <3>1 DEF Succeeded, TypeOK
    <3>2. CASE ~Succeeded(s)
      <4>1. failed' = [failed EXCEPT ![c] = @ + 1] /\ failed \in [Schedules -> Nat]
        BY <1>6, <3>2 DEF Failed, TypeOK
      <4>2. failed'[c] = failed[c] + 1
            /\ \A d \in Schedules : failed'[d] = failed[d] \/ failed'[d] = failed[d] + 1
        BY <1>6, <4>1
      <4>3. \A d \in Schedules : failed[d] \in Nat
        BY <4>1
      <4> HIDE DEF c
      <4> QED
        BY <4>2, <4>3
    <3> QED
      BY <3>1, <3>2
  <2>5. copy[s][c].failures \in Nat /\ copy[s][c].failures <= failed[c]
        /\ (~copy[s][c].active => failed[c] >= FailureLimit)
    BY <1>1, <1>6 DEF TypeOK, Row
  <2>6. f <= failed'[c]
    BY <1>6, <2>1, <2>4, <2>5
  <2>7. y.failures <= failed'[c] /\ (~y.active => failed'[c] >= FailureLimit)
    BY <1>6, <2>2, <2>4, <2>5, <2>6
  <2>8. \A t \in Scans, d \in Schedules :
          /\ copy[t][d].failures \in Nat /\ row[d].failures \in Nat
    BY DEF TypeOK, Row
  <2>9. \A d \in Schedules :
          /\ ~row[d].active => failed'[d] >= FailureLimit
          /\ row[d].failures <= failed'[d]
          /\ \A t \in Scans : /\ ~copy[t][d].active => failed'[d] >= FailureLimit
                              /\ copy[t][d].failures <= failed'[d]
    BY <1>1, <2>4, <2>8
  <2> QED
    BY <1>6, <2>3, <2>7, <2>9 DEF Counted
<1>7. ASSUME NEW s \in Scans, CreateInvoice(s) \/ IssueSucceeds(s) \/ IssueFails(s)
      PROVE  Counted'
  <2>1. current[s] \in Schedules
    <3>1. stage[s] \in {"creating", "issuing"}
      BY <1>7 DEF CreateInvoice, IssueSucceeds, IssueFails
    <3> QED
      BY <3>1 DEF TypeOK
  <2>2. row' = row
    BY <1>7 DEF CreateInvoice, IssueSucceeds, IssueFails, tableVars
  <2>3. Failed(s) \/ Succeeded(s) \/ UNCHANGED <<row, copy, failed>>
    BY <1>7, <2>2 DEF CreateInvoice, IssueSucceeds, IssueFails
  <2> QED
    BY <1>2, <1>6, <2>1, <2>2, <2>3
<1>8. ASSUME NEW s \in Scans, EndScan(s) \/ SaveRefused(s) \/ ScanDies(s) PROVE Counted'
  BY <1>4, <1>8 DEF EndScan, SaveRefused, ScanDies
<1>9. ASSUME NEW s \in Scans, NEW c \in todo[s], NextRow(s, c) PROVE Counted'
  BY <1>2, <1>9 DEF NextRow, tableVars, bookVars
<1>10. CASE Tick \/ (\E c \in Schedules : Delete(c)) \/ UNCHANGED vars
  BY <1>2, <1>10 DEF Tick, Delete, vars, tableVars, scanVars, bookVars
<1> QED
  BY <1>0, <1>3, <1>5, <1>7, <1>8, <1>9, <1>10 DEF Next, ScanStep, RunScan

\* No schedule is disabled before so many of its attempts have failed, however
\* many scans overlap or die, while nobody edits.
THEOREM NeverDisabledEarlyHolds == Spec => []NeverDisabledEarly
<1>1. Init => Rare /\ Counted
  <2> SUFFICES ASSUME Init PROVE Rare /\ Counted
    OBVIOUS
  <2>1. \A k \in Incidents : left[k] <= Budget[k]
    BY BoundAssumption DEF Init
  <2>2. Rare
    BY <2>1 DEF Init, Rare
  <2>3. Counted
    <3>1. \A c \in Schedules : NewRows[c].active = TRUE /\ NewRows[c].failures = 0
      BY DEF NewRows
    <3>2. \A c \in Schedules :
            /\ row[c] = NewRows[c] /\ failed[c] = 0
            /\ \A s \in Scans : copy[s][c] = NewRows[c]
      BY DEF Init
    <3>3. \A c \in Schedules :
            /\ row[c].active = TRUE /\ row[c].failures = 0 /\ failed[c] = 0
            /\ \A s \in Scans : copy[s][c].active = TRUE /\ copy[s][c].failures = 0
      BY <3>1, <3>2
    <3>4. \A c \in Schedules :
            /\ row[c].active /\ row[c].failures <= failed[c]
            /\ \A s \in Scans : copy[s][c].active /\ copy[s][c].failures <= failed[c]
      <4> SUFFICES ASSUME NEW c \in Schedules
                   PROVE  /\ row[c].active /\ row[c].failures <= failed[c]
                          /\ \A s \in Scans :
                               copy[s][c].active /\ copy[s][c].failures <= failed[c]
        OBVIOUS
      <4>1. row[c].active /\ \A s \in Scans : copy[s][c].active
        BY <3>3
      <4>2. row[c].failures <= failed[c]
        BY <3>3
      <4>3. \A s \in Scans : copy[s][c].failures <= failed[c]
        BY <3>3
      <4> QED
        BY <4>1, <4>2, <4>3
    <3> HIDE <3>1, <3>2, <3>3
    <3> QED
      BY <3>4 DEF Counted
  <2> QED
    BY <2>2, <2>3
<1>2. Counted => NeverDisabledEarly
  BY DEF Counted, NeverDisabledEarly
<1> QED
  BY <1>1, <1>2, TypeCorrect, RareStep, CountedStep, PTL DEF Spec

------------------------------------------------------------------------------
(* Scans that do not overlap: the copy a scan works on is the row.           *)

Sole == \A s, t \in Scans : s = t

\* The scan has yet to decide about the schedule.
Taken(s, c) == c \in todo[s] \/ (current[s] = c /\ stage[s] \in {"creating", "issuing"})
Saving(c) == \E s \in Scans : stage[s] = "saving" /\ current[s] = c

\* What is left of Next when no scan dies and nobody edits.
Calm == \/ Tick \/ (\E c \in Schedules : Delete(c)) \/ UNCHANGED vars
        \/ \E s \in Scans : ScanStep(s)

LEMMA CalmStep ==
  ASSUME TypeOK, Rare, [Next]_vars, NEW I \in SUBSET Incidents,
         "edit" \in I, "death" \in I, Spared(I)'
  PROVE  Spared(I) /\ Calm
<1>1. \A s \in Scans : ~ScanDies(s)
  BY Spent DEF ScanDies, Rare, Spared
<1> QED
  BY <1>1, NoEdit DEF Next, Calm

\* An attempt changes the copy and the streak of its own schedule only.
LEMMA AttemptEffect ==
  ASSUME TypeOK, NEW s \in Scans, NEW c \in Schedules, c = current[s],
         Failed(s) \/ Succeeded(s)
  PROVE  /\ stage' = [stage EXCEPT ![s] = "saving"]
         /\ \A d \in Schedules \ {c} : copy'[s][d] = copy[s][d] /\ streak'[d] = streak[d]
         /\ copy'[s][c].next = today[s] + Cadence[c]
         /\ copy'[s][c].active <=> copy[s][c].active /\ copy'[s][c].failures < FailureLimit
         /\ \/ copy'[s][c].failures = 0 /\ streak'[c] = 0
            \/ /\ copy'[s][c].failures = copy[s][c].failures + 1
               /\ streak'[c] = streak[c] + 1
<1>1. PICK f \in Nat, y \in Row :
        /\ copy' = [copy EXCEPT ![s] = [copy[s] EXCEPT ![c] = y]]
        /\ y = Advanced(s, c, f)
        /\ Succeeded(s) => f = 0
        /\ ~Succeeded(s) => f = copy[s][c].failures + 1
  BY Attempt
<1>2. /\ y.next = today[s] + Cadence[c] /\ y.failures = f
      /\ y.active <=> copy[s][c].active /\ f < FailureLimit
  BY <1>1, AdvancedRow
<1>3. copy'[s][c] = y /\ \A d \in Schedules \ {c} : copy'[s][d] = copy[s][d]
  BY <1>1 DEF TypeOK
<1>4. CASE Succeeded(s)
  <2>1. /\ stage' = [stage EXCEPT ![s] = "saving"] /\ streak'[c] = 0
        /\ \A d \in Schedules \ {c} : streak'[d] = streak[d]
    BY <1>4 DEF Succeeded, TypeOK
  <2> QED
    BY <1>1, <1>2, <1>3, <1>4, <2>1
<1>5. CASE ~Succeeded(s)
  <2>1. /\ stage' = [stage EXCEPT ![s] = "saving"] /\ streak'[c] = streak[c] + 1
        /\ \A d \in Schedules \ {c} : streak'[d] = streak[d]
    BY <1>5 DEF Failed, TypeOK
  <2> QED
    BY <1>1, <1>2, <1>3, <1>5, <2>1
<1> QED
  BY <1>4, <1>5

Exact ==
  Sole /\ Spared({"death", "edit"}) =>
    /\ \A s \in Scans, c \in Schedules : Taken(s, c) =>
         copy[s][c].active /\ copy[s][c].failures = streak[c] /\ streak[c] < FailureLimit
    /\ \A s \in Scans, c \in Schedules : stage[s] = "saving" /\ current[s] = c =>
         /\ copy[s][c].failures = streak[c]
         /\ copy[s][c].active <=> streak[c] < FailureLimit
    /\ \A c \in present : ~Saving(c) =>
         /\ row[c].failures = streak[c]
         /\ row[c].active <=> streak[c] < FailureLimit

\* Every step keeps the count exact.
LEMMA ExactStep == TypeOK /\ Rare /\ Exact /\ [Next]_vars => Exact'
<1> SUFFICES ASSUME TypeOK, Rare, Exact, [Next]_vars, Sole, Spared({"death", "edit"})'
             PROVE  Exact'
  BY DEF Exact, Sole
<1>0. Spared({"death", "edit"}) /\ Calm
  BY CalmStep DEF Incidents
<1>1. /\ \A s \in Scans, c \in Schedules : Taken(s, c) =>
           copy[s][c].active /\ copy[s][c].failures = streak[c] /\ streak[c] < FailureLimit
      /\ \A s \in Scans, c \in Schedules : stage[s] = "saving" /\ current[s] = c =>
           /\ copy[s][c].failures = streak[c]
           /\ copy[s][c].active <=> streak[c] < FailureLimit
      /\ \A c \in present : ~Saving(c) =>
           /\ row[c].failures = streak[c]
           /\ row[c].active <=> streak[c] < FailureLimit
  BY <1>0 DEF Exact
<1>2. CASE UNCHANGED <<scanVars, row, streak>> /\ present' \subseteq present
  BY <1>1, <1>2 DEF Exact, scanVars, Taken, Saving
<1>3. ASSUME NEW s \in Scans, BeginScan(s) PROVE Exact'
  <2>1. /\ stage[s] = "idle" /\ stage'[s] = "looping" /\ todo'[s] = Due /\ copy'[s] = row
        /\ row' = row /\ present' = present /\ streak' = streak
    BY <1>3 DEF BeginScan, tableVars, bookVars, TypeOK
  <2>2. \A c : ~Saving(c) /\ ~Saving(c)'
    BY <2>1 DEF Sole, Saving
  <2>3. \A c \in Due : c \in present /\ row[c].active
    BY DEF Due
  <2>4. \A t \in Scans, c \in Schedules : Taken(t, c)' => t = s /\ c \in Due
    BY <2>1 DEF Sole, Taken
  <2> QED
    BY <1>1, <2>1, <2>2, <2>3, <2>4 DEF Exact, Sole
<1>4. ASSUME NEW s \in Scans, NEW d \in todo[s], NextRow(s, d) PROVE Exact'
  <2>1. /\ stage[s] = "looping" /\ stage'[s] = "creating"
        /\ todo'[s] \subseteq todo[s] /\ current'[s] = d /\ copy' = copy
        /\ row' = row /\ present' = present /\ streak' = streak
    BY <1>4 DEF NextRow, Rest, tableVars, bookVars, TypeOK
  <2>2. \A c : ~Saving(c) /\ ~Saving(c)'
    BY <2>1 DEF Sole, Saving
  <2>3. \A t \in Scans, c \in Schedules : Taken(t, c)' => Taken(t, c)
    BY <2>1 DEF Sole, Taken
  <2>4. \A t \in Scans : stage'[t] # "saving"
    BY <2>1 DEF Sole
  <2> QED
    BY <1>1, <2>1, <2>2, <2>3, <2>4 DEF Exact
<1>5. ASSUME NEW s \in Scans, stage[s] \in {"creating", "issuing"}, Failed(s) \/ Succeeded(s),
             UNCHANGED <<todo, current, row, present>>
      PROVE  Exact'
  <2> DEFINE c == current[s]
  <2>1. c \in Schedules /\ c \notin todo[s]
    BY <1>5 DEF TypeOK
  <2>2. /\ stage'[s] = "saving"
        /\ \A d \in Schedules \ {c} : copy'[s][d] = copy[s][d] /\ streak'[d] = streak[d]
        /\ copy'[s][c].active <=> copy[s][c].active /\ copy'[s][c].failures < FailureLimit
        /\ \/ copy'[s][c].failures = 0 /\ streak'[c] = 0
           \/ /\ copy'[s][c].failures = copy[s][c].failures + 1
              /\ streak'[c] = streak[c] + 1
    BY <1>5, <2>1, AttemptEffect DEF TypeOK
  <2>3. copy[s][c].active /\ copy[s][c].failures = streak[c]
    BY <1>1, <1>5, <2>1 DEF Taken
  <2>4. /\ copy'[s][c].failures = streak'[c]
        /\ copy'[s][c].active <=> streak'[c] < FailureLimit
    BY <2>2, <2>3
  <2>5. \A t \in Scans, d \in Schedules : Taken(t, d)' => t = s /\ Taken(t, d) /\ d # c
    BY <1>5, <2>1, <2>2 DEF Sole, Taken
  <2>6. \A d \in Schedules : ~Saving(d)' => d # c /\ ~Saving(d)
    BY <1>5, <2>2 DEF Sole, Saving
  <2>7. present \subseteq Schedules
    BY DEF TypeOK
  <2> HIDE DEF c
  <2>8. \A t \in Scans, d \in Schedules : Taken(t, d)' =>
          copy'[t][d].active /\ copy'[t][d].failures = streak'[d] /\ streak'[d] < FailureLimit
    BY <1>1, <2>2, <2>5
  <2>9. \A t \in Scans, d \in Schedules : stage'[t] = "saving" /\ current'[t] = d =>
          /\ copy'[t][d].failures = streak'[d]
          /\ copy'[t][d].active <=> streak'[d] < FailureLimit
    BY <1>5, <2>4 DEF Sole, c
  <2>10. \A d \in present' : ~Saving(d)' =>
           /\ row'[d].failures = streak'[d]
           /\ row'[d].active <=> streak'[d] < FailureLimit
    BY <1>1, <1>5, <2>2, <2>6, <2>7
  <2> QED
    BY <2>8, <2>9, <2>10 DEF Exact
<1>6. ASSUME NEW s \in Scans, CreateInvoice(s) PROVE Exact'
  <2>1. UNCHANGED <<todo, current, row, present>> /\ stage[s] = "creating"
    BY <1>6 DEF CreateInvoice, tableVars
  <2>2. CASE Failed(s)
    BY <1>5, <2>1, <2>2
  <2>3. CASE ~Failed(s)
    <3>1. stage'[s] = "issuing" /\ copy' = copy /\ streak' = streak
      BY <1>6, <2>3 DEF CreateInvoice, TypeOK
    <3>2. \A t \in Scans, c \in Schedules : Taken(t, c)' => Taken(t, c)
      BY <2>1, <3>1 DEF Sole, Taken
    <3>3. \A c : ~Saving(c) /\ ~Saving(c)'
      BY <2>1, <3>1 DEF Sole, Saving
    <3>4. \A t \in Scans : stage'[t] # "saving"
      BY <3>1 DEF Sole
    <3> QED
      BY <1>1, <2>1, <3>1, <3>2, <3>3, <3>4 DEF Exact
  <2> QED
    BY <2>2, <2>3
<1>7. ASSUME NEW s \in Scans, IssueSucceeds(s) \/ IssueFails(s) PROVE Exact'
  BY <1>5, <1>7 DEF IssueSucceeds, IssueFails, tableVars
<1>8. ASSUME NEW s \in Scans, SaveRow(s) PROVE Exact'
  <2> DEFINE c == current[s]
  <2>1. /\ stage[s] = "saving" /\ stage'[s] = "looping" /\ todo' = todo /\ current'[s] = None
        /\ copy' = copy /\ streak' = streak /\ present' = present
        /\ row' = [row EXCEPT ![c] = copy[s][c]] /\ c \in Schedules
    BY <1>8 DEF SaveRow, bookVars, TypeOK
  <2>2. row'[c] = copy[s][c] /\ \A d \in Schedules \ {c} : row'[d] = row[d]
    BY <2>1 DEF TypeOK
  <2>3. \A t \in Scans, d \in Schedules : Taken(t, d)' => Taken(t, d)
    BY <2>1 DEF Sole, Taken
  <2>4. \A d \in Schedules \ {c} : ~Saving(d)
    BY <2>1 DEF Sole, Saving
  <2>5. \A t \in Scans : stage'[t] # "saving"
    BY <2>1 DEF Sole
  <2>6. present \subseteq Schedules
    BY DEF TypeOK
  <2>7. \A d \in present' : /\ row'[d].failures = streak'[d]
                            /\ row'[d].active <=> streak'[d] < FailureLimit
    BY <1>1, <2>1, <2>2, <2>4, <2>6
  <2> QED
    BY <1>1, <2>1, <2>3, <2>5, <2>7 DEF Exact
<1>9. ASSUME NEW s \in Scans, EndScan(s) \/ SaveRefused(s) PROVE Exact'
  <2>1. /\ stage'[s] = "idle" /\ todo'[s] = {} /\ current'[s] = None
        /\ row' = row /\ present' = present /\ streak' = streak
    BY <1>9 DEF EndScan, SaveRefused, Leave, tableVars, bookVars, TypeOK
  <2>2. \A t \in Scans, d \in Schedules : ~Taken(t, d)'
    BY <2>1, NoneAssumption DEF Sole, Taken
  <2>3. \A d \in present : ~Saving(d)
    BY <1>9 DEF EndScan, SaveRefused, Sole, Saving
  <2>4. \A t \in Scans : stage'[t] # "saving"
    BY <2>1 DEF Sole
  <2> QED
    BY <1>1, <2>1, <2>2, <2>3, <2>4 DEF Exact
<1>10. CASE Tick \/ (\E c \in Schedules : Delete(c)) \/ UNCHANGED vars
  BY <1>2, <1>10 DEF Tick, Delete, vars, tableVars, bookVars
<1> QED
  BY <1>0, <1>3, <1>4, <1>6, <1>7, <1>8, <1>9, <1>10 DEF Calm, ScanStep, RunScan

\* consecutive_failures is the streak and is_active says whether it is below
\* the limit, if scans do not overlap, while none dies and nobody edits.
THEOREM DisabledAfterLimitHolds == Spec => [](Sole => DisabledAfterLimit)
<1>1. Init => Rare /\ Exact
  <2> SUFFICES ASSUME Init PROVE Rare /\ Exact
    OBVIOUS
  <2>1. \A k \in Incidents : left[k] <= Budget[k]
    BY BoundAssumption DEF Init
  <2>2. Rare
    BY <2>1 DEF Init, Rare
  <2>3. \A c \in Schedules :
          row[c].active = TRUE /\ row[c].failures = 0 /\ streak[c] = 0
    BY DEF Init, NewRows
  <2>4. \A c \in Schedules : row[c].active /\ row[c].failures = streak[c]
    BY <2>3
  <2>5. \A c \in Schedules : streak[c] < FailureLimit
    <3>1. 0 < FailureLimit
      BY FailureLimitAssumption
    <3> QED
      BY <2>3, <3>1
  <2>6. \A s \in Scans : stage[s] = "idle" /\ todo[s] = {}
    BY DEF Init
  <2> HIDE <2>3
  <2> QED
    BY <2>2, <2>4, <2>5, <2>6 DEF Exact, Taken, Init
<1>2. Exact => (Sole => DisabledAfterLimit)
  BY DEF Exact, DisabledAfterLimit, Saving
<1> QED
  BY <1>1, <1>2, TypeCorrect, RareStep, ExactStep, PTL DEF Spec

------------------------------------------------------------------------------
(* The cadence.                                                              *)

Spaced ==
  Sole /\ Spared({"slip", "death", "edit"}) =>
    /\ \A s \in Scans : stage[s] # "idle" => today[s] = day
    /\ \A s \in Scans, c \in Schedules, d \in 0..day :
         <<c, d>> \in issued /\ Taken(s, c) => d + Cadence[c] <= day
    /\ \A s \in Scans, c \in Schedules :
         stage[s] = "saving" /\ current[s] = c => copy[s][c].next = day + Cadence[c]
    /\ \A c \in present, d \in 0..day :
         <<c, d>> \in issued /\ ~Saving(c) => d + Cadence[c] <= row[c].next
    /\ \A c \in Schedules, d, e \in 0..day :
         <<c, d>> \in issued /\ <<c, e>> \in issued /\ d < e => e - d >= Cadence[c]

\* Every step keeps the distance.
LEMMA SpacedStep == TypeOK /\ Rare /\ Spaced /\ [Next]_vars => Spaced'
<1> SUFFICES ASSUME TypeOK, Rare, Spaced, [Next]_vars, Sole,
                    Spared({"slip", "death", "edit"})'
             PROVE  Spaced'
  BY DEF Spaced, Sole
<1>0. Spared({"slip", "death", "edit"}) /\ Calm
  BY CalmStep DEF Incidents
<1>t. /\ day \in Nat /\ issued \subseteq Schedules \X (0..day)
      /\ \A c \in Schedules : Cadence[c] \in Nat /\ row[c].next \in Nat
      /\ present \subseteq Schedules
  BY CadenceAssumption, BoundAssumption DEF TypeOK, Row
<1>a. \A s \in Scans : stage[s] # "idle" => today[s] = day
  BY <1>0 DEF Spaced
<1>b. \A s \in Scans, c \in Schedules, d \in 0..day :
        <<c, d>> \in issued /\ Taken(s, c) => d + Cadence[c] <= day
  BY <1>0 DEF Spaced
<1>c. \A s \in Scans, c \in Schedules :
        stage[s] = "saving" /\ current[s] = c => copy[s][c].next = day + Cadence[c]
  BY <1>0 DEF Spaced
<1>d. \A c \in present, d \in 0..day :
        <<c, d>> \in issued /\ ~Saving(c) => d + Cadence[c] <= row[c].next
  BY <1>0 DEF Spaced
<1>e. \A c \in Schedules, d, e \in 0..day :
        <<c, d>> \in issued /\ <<c, e>> \in issued /\ d < e => e - d >= Cadence[c]
  BY <1>0 DEF Spaced
<1>1. CASE Tick
  <2>1. ~Spend("slip")
    BY Spent DEF Rare, Spared, Incidents
  <2>2. /\ day' = day + 1 /\ \A s \in Scans : stage[s] = "idle"
        /\ UNCHANGED <<scanVars, row, present, issued>>
    BY <1>1, <2>1 DEF Tick, tableVars, bookVars
  <2>3. \A c, d : <<c, d>> \in issued => d \in 0..day
    BY <1>t
  <2>4. \A s \in Scans : stage'[s] = "idle"
    BY <2>2 DEF scanVars
  <2>5. \A s \in Scans, c \in Schedules : ~Taken(s, c)'
    BY <2>2, NoneAssumption DEF Taken, scanVars, TypeOK
  <2>6. \A c : ~Saving(c)
    BY <2>2 DEF Saving
  <2>7. \A c \in present, d \in 0..day' : <<c, d>> \in issued => d + Cadence[c] <= row[c].next
    BY <1>d, <2>3, <2>6
  <2>8. \A c \in Schedules, d, e \in 0..day' :
          <<c, d>> \in issued /\ <<c, e>> \in issued /\ d < e => e - d >= Cadence[c]
    BY <1>e, <2>3
  <2> QED
    BY <2>2, <2>4, <2>5, <2>7, <2>8 DEF Spaced
<1>2. CASE UNCHANGED <<scanVars, day, row, issued>> /\ present' \subseteq present
  BY <1>a, <1>b, <1>c, <1>d, <1>e, <1>2 DEF Spaced, scanVars, Taken, Saving
<1>3. ASSUME NEW s \in Scans, BeginScan(s) PROVE Spaced'
  <2>1. /\ stage[s] = "idle" /\ stage'[s] = "looping" /\ todo'[s] = Due /\ today'[s] = day
        /\ current'[s] = None
        /\ day' = day /\ row' = row /\ present' = present /\ issued' = issued
    BY <1>3 DEF BeginScan, tableVars, bookVars, TypeOK
  <2>2. \A c : ~Saving(c)
    BY <2>1 DEF Sole, Saving
  <2>3. \A t \in Scans : today'[t] = day' /\ stage'[t] # "saving"
    BY <2>1 DEF Sole
  <2>4. \A t \in Scans, c \in Schedules : Taken(t, c)' =>
          c \in present /\ row[c].next <= day
    BY <2>1, NoneAssumption DEF Sole, Taken, Due
  <2>5. \A c \in present, d \in 0..day : <<c, d>> \in issued => d + Cadence[c] <= row[c].next
    BY <1>d, <2>2
  <2>6. \A t \in Scans, c \in Schedules, d \in 0..day :
          <<c, d>> \in issued /\ Taken(t, c)' => d + Cadence[c] <= day
    BY <1>t, <2>4, <2>5
  <2> QED
    BY <1>e, <2>1, <2>3, <2>5, <2>6 DEF Spaced
<1>4. ASSUME NEW s \in Scans, NEW k \in todo[s], NextRow(s, k) PROVE Spaced'
  <2>1. /\ stage[s] = "looping" /\ stage'[s] = "creating"
        /\ todo'[s] \subseteq todo[s] /\ current'[s] = k /\ today' = today
        /\ day' = day /\ row' = row /\ present' = present /\ issued' = issued
    BY <1>4 DEF NextRow, Rest, tableVars, bookVars, TypeOK
  <2>2. \A c : ~Saving(c)
    BY <2>1 DEF Sole, Saving
  <2>3. \A t \in Scans, c \in Schedules : Taken(t, c)' => Taken(t, c)
    BY <2>1 DEF Sole, Taken
  <2>4. \A t \in Scans : stage'[t] # "saving" /\ today'[t] = day'
    BY <1>a, <2>1 DEF Sole
  <2> QED
    BY <1>b, <1>d, <1>e, <2>1, <2>2, <2>3, <2>4 DEF Spaced
<1>5. ASSUME NEW s \in Scans, stage[s] \in {"creating", "issuing"}, Failed(s) \/ Succeeded(s),
             UNCHANGED <<day, today, todo, current, row, present>>,
             issued' = issued \/ issued' = issued \cup {<<current[s], day>>}
      PROVE  Spaced'
  <2> DEFINE c == current[s]
  <2>1. c \in Schedules /\ c \notin todo[s]
    BY <1>5 DEF TypeOK
  <2>2. stage'[s] = "saving" /\ copy'[s][c].next = today[s] + Cadence[c]
    BY <1>5, <2>1, AttemptEffect DEF TypeOK
  <2>3. today[s] = day
    BY <1>a, <1>5
  <2>4. \A t \in Scans, d \in Schedules : Taken(t, d)' => t = s /\ Taken(t, d) /\ d # c
    BY <1>5, <2>1, <2>2 DEF Sole, Taken
  <2>5. \A d \in Schedules : ~Saving(d)' => d # c /\ ~Saving(d)
    BY <1>5, <2>2 DEF Sole, Saving
  <2>6. \A t \in Scans : today'[t] = day'
    BY <1>5, <2>3 DEF Sole
  <2>7. \A d \in 0..day : <<c, d>> \in issued => d + Cadence[c] <= day
    BY <1>b, <1>5, <2>1 DEF Taken
  <2>8. \A x \in Schedules, d \in 0..day :
          <<x, d>> \in issued' => <<x, d>> \in issued \/ (x = c /\ d = day)
    BY <1>5
  <2>9. \A t \in Scans, d \in Schedules :
          stage'[t] = "saving" /\ current'[t] = d => copy'[t][d].next = day' + Cadence[d]
    BY <1>5, <2>2, <2>3 DEF Sole
  <2> HIDE DEF c
  <2>10. \A x \in Schedules, d, e \in 0..day :
           <<x, d>> \in issued' /\ <<x, e>> \in issued' /\ d < e => e - d >= Cadence[x]
    <3> SUFFICES ASSUME NEW x \in Schedules, NEW d \in 0..day, NEW e \in 0..day,
                        <<x, d>> \in issued', <<x, e>> \in issued', d < e
                 PROVE  e - d >= Cadence[x]
      OBVIOUS
    <3>1. <<x, d>> \in issued
      BY <1>t, <2>8
    <3>2. CASE <<x, e>> \in issued
      BY <1>e, <3>1, <3>2
    <3>3. CASE <<x, e>> \notin issued
      <4>1. x = c /\ e = day
        BY <2>8, <3>3
      <4>2. d + Cadence[x] <= e
        BY <2>7, <3>1, <4>1
      <4> QED
        BY <1>t, <4>2
    <3> QED
      BY <3>2, <3>3
  <2>11. \A t \in Scans, x \in Schedules, d \in 0..day' :
           <<x, d>> \in issued' /\ Taken(t, x)' => d + Cadence[x] <= day'
    BY <1>b, <1>5, <2>4, <2>8
  <2>12. \A x \in present', d \in 0..day' :
           <<x, d>> \in issued' /\ ~Saving(x)' => d + Cadence[x] <= row'[x].next
    BY <1>d, <1>t, <1>5, <2>5, <2>8
  <2> QED
    BY <1>5, <2>6, <2>9, <2>10, <2>11, <2>12 DEF Spaced
<1>6. ASSUME NEW s \in Scans, CreateInvoice(s) PROVE Spaced'
  <2>1. UNCHANGED <<day, today, todo, current, row, present, issued>> /\ stage[s] = "creating"
    BY <1>6 DEF CreateInvoice, tableVars
  <2>2. CASE Failed(s)
    BY <1>5, <2>1, <2>2
  <2>3. CASE ~Failed(s)
    <3>1. stage'[s] = "issuing"
      BY <1>6, <2>3 DEF CreateInvoice, TypeOK
    <3>2. \A t \in Scans, c \in Schedules : Taken(t, c)' => Taken(t, c)
      BY <2>1, <3>1 DEF Sole, Taken
    <3>3. \A c : ~Saving(c)
      BY <2>1 DEF Sole, Saving
    <3>4. \A t \in Scans : stage'[t] # "saving" /\ today'[t] = day'
      BY <1>a, <2>1, <3>1 DEF Sole
    <3> QED
      BY <1>b, <1>d, <1>e, <2>1, <3>2, <3>3, <3>4 DEF Spaced
  <2> QED
    BY <2>2, <2>3
<1>7. ASSUME NEW s \in Scans, IssueSucceeds(s) \/ IssueFails(s) PROVE Spaced'
  BY <1>5, <1>7 DEF IssueSucceeds, IssueFails, tableVars
<1>8. ASSUME NEW s \in Scans, SaveRow(s) PROVE Spaced'
  <2> DEFINE c == current[s]
  <2>1. /\ stage[s] = "saving" /\ stage'[s] = "looping" /\ todo' = todo /\ current'[s] = None
        /\ day' = day /\ today' = today /\ issued' = issued /\ present' = present
        /\ row' = [row EXCEPT ![c] = copy[s][c]] /\ c \in Schedules
    BY <1>8 DEF SaveRow, bookVars, TypeOK
  <2>2. row'[c] = copy[s][c] /\ \A d \in Schedules \ {c} : row'[d] = row[d]
    BY <2>1 DEF TypeOK
  <2>3. copy[s][c].next = day + Cadence[c]
    BY <1>c, <2>1
  <2>4. \A t \in Scans, d \in Schedules : Taken(t, d)' => Taken(t, d)
    BY <2>1 DEF Sole, Taken
  <2>5. \A d \in Schedules \ {c} : ~Saving(d)
    BY <2>1 DEF Sole, Saving
  <2>6. \A t \in Scans : stage'[t] # "saving" /\ today'[t] = day'
    BY <1>a, <2>1 DEF Sole
  <2> HIDE DEF c
  <2>7. \A d \in 0..day : d + Cadence[c] <= row'[c].next
    BY <1>t, <2>1, <2>2, <2>3
  <2>8. \A x \in present', d \in 0..day' : <<x, d>> \in issued' => d + Cadence[x] <= row'[x].next
    BY <1>d, <1>t, <2>1, <2>2, <2>5, <2>7
  <2> QED
    BY <1>b, <1>e, <2>1, <2>4, <2>6, <2>8 DEF Spaced
<1>9. ASSUME NEW s \in Scans, EndScan(s) \/ SaveRefused(s) PROVE Spaced'
  <2>1. /\ stage'[s] = "idle" /\ todo'[s] = {} /\ current'[s] = None
        /\ day' = day /\ row' = row /\ present' = present /\ issued' = issued
    BY <1>9 DEF EndScan, SaveRefused, Leave, tableVars, bookVars, TypeOK
  <2>2. \A t \in Scans, d \in Schedules : ~Taken(t, d)'
    BY <2>1, NoneAssumption DEF Sole, Taken
  <2>3. \A d \in present : ~Saving(d)
    BY <1>9 DEF EndScan, SaveRefused, Sole, Saving
  <2>4. \A t \in Scans : stage'[t] = "idle"
    BY <2>1 DEF Sole
  <2> QED
    BY <1>d, <1>e, <2>1, <2>2, <2>3, <2>4 DEF Spaced
<1>10. CASE (\E c \in Schedules : Delete(c)) \/ UNCHANGED vars
  BY <1>2, <1>10 DEF Delete, vars, tableVars, bookVars
<1> QED
  BY <1>0, <1>1, <1>3, <1>4, <1>6, <1>7, <1>8, <1>9, <1>10 DEF Calm, ScanStep, RunScan

\* Two invoices of a schedule are at least its cadence apart, if scans do not
\* overlap, while every scan ends before midnight, none dies and nobody edits.
THEOREM InvoicesOnCadenceHolds == Spec => [](Sole => InvoicesOnCadence)
<1>1. Init => Rare /\ Spaced
  <2> SUFFICES ASSUME Init PROVE Rare /\ Spaced
    OBVIOUS
  <2>1. \A k \in Incidents : left[k] <= Budget[k]
    BY BoundAssumption DEF Init
  <2> QED
    BY <2>1 DEF Init, Rare, Spaced
<1>2. TypeOK /\ Spaced => (Sole => InvoicesOnCadence)
  <2> SUFFICES ASSUME TypeOK, Spaced, Sole, Spared({"slip", "death", "edit"}),
                      NEW i \in issued, NEW j \in issued, i[1] = j[1], i[2] < j[2]
               PROVE  j[2] - i[2] >= Cadence[i[1]]
    BY DEF InvoicesOnCadence
  <2>1. /\ i = <<i[1], i[2]>> /\ j = <<i[1], j[2]>> /\ i[1] \in Schedules
        /\ i[2] \in 0..day /\ j[2] \in 0..day
    BY DEF TypeOK
  <2> QED
    BY <2>1 DEF Spaced
<1> QED
  BY <1>1, <1>2, TypeCorrect, RareStep, SpacedStep, PTL DEF Spec
==============================================================================
