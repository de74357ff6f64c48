----------------------------- MODULE Integrations -----------------------------
(***************************************************************************)
(* A tenant's integrations (src/integrations): one IntegrationConfig per    *)
(* kind, get_adapter, and what a call of a vendor can come to.  A vendor    *)
(* answers, refuses, or does what it is asked while its answer is lost (a   *)
(* timeout, a broken connection); the adapters raise in the last two cases, *)
(* which the caller cannot tell apart.                                      *)
(***************************************************************************)
EXTENDS Integers

CONSTANT MaxChanges   \* bound: what administrators do in a behaviour

ASSUME ChangesAssumption == MaxChanges \in Nat

KindsUsed == {"storage", "billing", "email", "chat"}
Configurations == {"absent", "inactive", "minio", "nextcloud"}

VARIABLES
  config,   \* each kind: no row, one that is not active, or its vendor
  changes

integrationVars == <<config, changes>>

\* IntegrationConfig.objects.get(tenant, kind, is_active=True).
ActiveRow(kind) == config[kind] \notin {"absent", "inactive"}

\* The vendor is an argument, "minio" unless the caller says otherwise; the
\* row's own column is not looked at, so that the MinIO adapter is built from
\* the credentials of a Nextcloud, which have no bucket, and raises KeyError.
GetAdapter(kind) ==
  ActiveRow(kind) /\ (kind = "storage" => config[kind] = "minio")

\* A row is created, changed, deactivated or deleted; only the vendor of the
\* storage makes a difference.
Reconfigure(kind, new) ==
  /\ changes < MaxChanges
  /\ changes' = changes + 1
  /\ config[kind] # new
  /\ new = "nextcloud" => kind = "storage"
  /\ config' = [config EXCEPT ![kind] = new]

IntegrationInit ==
  /\ config = [kind \in KindsUsed |-> "minio"]
  /\ changes = 0
==============================================================================
