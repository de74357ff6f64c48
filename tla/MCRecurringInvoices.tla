------------------------- MODULE MCRecurringInvoices -------------------------
(* Two schedules, a2 of which can never be issued where the run says so; a1  *)
(* has the longer cadence.                                                   *)
EXTENDS RecurringInvoices, TLC

CONSTANTS a1, a2, s1, p1

MCSchedules == {a1, a2}
MCCadence == a1 :> 2 @@ a2 :> 1
Second == {a2}
OneScan == {s1}
OnePerson == {p1}

Anything == [i \in Incidents |-> 1]
==============================================================================
