----------------------------- MODULE MCFollowups -----------------------------
(* Instances of Followups: r1 can be mailed, r2 is silent or cannot be       *)
(* mailed, depending on the run.                                             *)
EXTENDS Followups

CONSTANTS r1, r2, q1, s1, s2

MCReminders == {r1, r2}
Other == {r2}
Nobody == {}
OneRequest == {q1}
OneScan == {s1}
TwoScans == {s1, s2}
AllOps == {"approve", "cancel", "edit"}
==============================================================================
