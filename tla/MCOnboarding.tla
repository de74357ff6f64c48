---------------------------- MODULE MCOnboarding -----------------------------
(* Instances of Onboarding: a template with a step that mails and one that  *)
(* inserts a row under a unique key, for two workers.                        *)
EXTENDS Onboarding, TLC

CONSTANTS w1, w2

MCWorkers == {w1, w2}
Template2 == <<"doc_request", "setup_task">>
Both == {"email", "nextcloud"}
==============================================================================
