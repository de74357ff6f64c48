---------------------------- MODULE RunLifecycle -----------------------------
(***************************************************************************)
(* What onboarding promises of a client's runs, whatever handlers, messages *)
(* and workers carry them out: which runs are in the database, which of     *)
(* their steps have been carried out, how often a step has written to the   *)
(* client, and which runs are reported as done.  Nothing here is taken back. *)
(* Each message delivered twice excuses one letter and one missing step,    *)
(* each letter of which the answer was lost excuses one more, and each      *)
(* execution of the handler after it returned excuses one run.              *)
(***************************************************************************)
EXTENDS Integers, FiniteSets

CONSTANTS Runs,
          Steps,    \* of the template
          Mailing,  \* steps that write to the client
          Single    \* steps that are carried out once, whatever happens

VARIABLES there, ran, letters, closed,
          repeats,    \* messages delivered twice
          unanswered, \* letters that went out and were reported as not sent
          replays     \* executions of the handler after it returned

lifeVars == <<there, ran, letters, closed, repeats, unanswered, replays>>

Appear(r) ==
  /\ r \notin there
  /\ Cardinality(there) <= replays
  /\ there' = there \cup {r}
  /\ UNCHANGED <<ran, letters, closed, repeats, unanswered, replays>>

MayWrite(r, s) == letters[r][s] <= repeats + unanswered
OneLetter(r, s) == [letters EXCEPT ![r][s] = @ + 1]

Carry(r, s) ==
  /\ r \in there
  /\ s \in Single => s \notin ran[r]
  /\ s \in Mailing => MayWrite(r, s)
  /\ ran' = [ran EXCEPT ![r] = @ \cup {s}]
  /\ letters' = IF s \in Mailing THEN OneLetter(r, s) ELSE letters
  /\ UNCHANGED <<there, closed, repeats, unanswered, replays>>

\* A letter goes out and its step is not carried out: whoever sent it died, or
\* was told that it had failed.
Write(r, s) ==
  /\ r \in there
  /\ s \in Mailing
  /\ MayWrite(r, s)
  /\ letters' = OneLetter(r, s)
  /\ unanswered' \in {unanswered, unanswered + 1}
  /\ UNCHANGED <<there, ran, closed, repeats, replays>>

Close(r) ==
  /\ r \in there
  /\ Steps # {}
  /\ Cardinality(Steps) <= Cardinality(ran[r]) + repeats
  /\ closed' = closed \cup {r}
  /\ UNCHANGED <<there, ran, letters, repeats, unanswered, replays>>

Repeated ==
  /\ repeats' = repeats + 1
  /\ UNCHANGED <<there, ran, letters, closed, unanswered, replays>>

Replayed ==
  /\ there # {}
  /\ replays' = replays + 1
  /\ UNCHANGED <<there, ran, letters, closed, repeats, unanswered>>

LifeInit ==
  /\ there = {} /\ closed = {}
  /\ ran = [r \in Runs |-> {}]
  /\ letters = [r \in Runs |-> [s \in Steps |-> 0]]
  /\ repeats = 0 /\ unanswered = 0 /\ replays = 0

LifeNext ==
  \/ Repeated \/ Replayed
  \/ \E r \in Runs :
       Appear(r) \/ Close(r) \/ \E s \in Steps : Carry(r, s) \/ Write(r, s)

LifeSpec == LifeInit /\ [][LifeNext]_lifeVars
==============================================================================
