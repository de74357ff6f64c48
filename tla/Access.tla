-------------------------------- MODULE Access -------------------------------
(***************************************************************************)
(* Tenants, memberships, accounts and the audit row of a new tenant         *)
(* (src/tenants, src/users, src/audit), and the way every request takes     *)
(* before its view runs: the middleware reads the tenant named in its       *)
(* header, then the permission class reads the membership.  What operators  *)
(* do (suspend, invite, remove, delete, rotate a secret) has no view in the *)
(* project and is external.                                                 *)
(***************************************************************************)
EXTENDS Integers, Sequences

CONSTANTS
  Slugs,          \* Tenant.slug, unique
  Users,          \* accounts
  Requests,       \* requests, and calls of create_tenant, in progress at a time
  Secrets,        \* webhook secrets
  ServiceTokens,  \* tokens presented to the LLM-call endpoint
  ServiceToken,   \* AI_AUDIT_SERVICE_TOKEN
  None,           \* no role, no secret, no signature, no request
  RlsEnforced,    \* the policies of tenants/rls.py bind the database role
  MaxArrivals,    \* bound: requests in a behaviour
  MaxOperations   \* bound: what operators do in a behaviour

ASSUME NoneAssumption ==
  None \notin Slugs \union Users \union Secrets \union ServiceTokens
ASSUME RlsAssumption == RlsEnforced \in BOOLEAN
ASSUME TokenAssumption == ServiceToken \in ServiceTokens \union {None}
ASSUME BoundAssumption == MaxArrivals \in Nat /\ MaxOperations \in Nat

Roles == {"admin", "member", "client"}
MemberKinds == {"form", "csv"}
WebhookKinds == {"webhook"}
ServiceKinds == {"llm_call"}
AgentKinds == {"email", "document", "draft"}
Kinds == {"found"} \union MemberKinds \union WebhookKinds \union ServiceKinds
           \union AgentKinds

\* What a request carries: whom it is for, the account of its token, and its
\* proof (a signature names the secret it was made with).  A client may send
\* no tenant header, or no token.
Request ==
  [kind : {"found"}, slug : Slugs, user : Users, proof : {None}]
  \union [kind : MemberKinds, slug : Slugs \union {None},
          user : Users \union {None}, proof : {None}]
  \union [kind : WebhookKinds, slug : Slugs, user : {None},
          proof : Secrets \union {None}]
  \union [kind : ServiceKinds, slug : Slugs, user : {None},
          proof : ServiceTokens \union {None}]
  \union [kind : AgentKinds, slug : Slugs, user : {None}, proof : {None}]

ASSUME NoRequestAssumption == None \notin Request

VARIABLES
  tenant,       \* "absent", "active" or "suspended" (Tenant.is_active)
  secret,       \* Tenant.webhook_secret
  role,         \* Membership.role of a user in a tenant
  users,        \* accounts that exist
  founders,     \* audit rows "tenant.created" of a slug: their actors
  pc, req,      \* where each request stands, and what it carries
  arrivals, operations

tenantVars == <<tenant, secret, role, users, founders>>
pathVars == <<pc, req, arrivals>>
accessVars == <<tenantVars, pathVars, operations>>

\* The session variable app.tenant_id is set by tests only, so a policy that
\* binds hides every row, and refuses every insert.
RowsVisible == ~RlsEnforced

Exists(s) == RowsVisible /\ tenant[s] # "absent"

Goto(r, stage) == pc' = [pc EXCEPT ![r] = stage]
Refuse(r) == Goto(r, "refused")

Arrive(r, q) ==
  /\ pc[r] = "idle"
  /\ q.kind = "found" => q.user \in users
  /\ arrivals < MaxArrivals
  /\ arrivals' = arrivals + 1
  /\ req' = [req EXCEPT ![r] = q]
  /\ Goto(r, "arrived")
  /\ UNCHANGED <<tenantVars, operations>>

IsActive(s) == RowsVisible /\ tenant[s] = "active"

\* TenantMiddleware: without a header the request goes on, without a tenant;
\* with one, 404 unless the tenant is active.
Resolve(r) ==
  /\ pc[r] = "arrived"
  /\ req[r].kind \in MemberKinds
  /\ IF req[r].slug = None \/ IsActive(req[r].slug)
     THEN Goto(r, "resolved") ELSE Refuse(r)
  /\ UNCHANGED <<tenantVars, req, arrivals, operations>>

IsTenantAdmin(r) ==
  /\ req[r].slug # None /\ req[r].user \in users
  /\ role[req[r].slug][req[r].user] = "admin"
IsTenantMember(r) ==
  /\ req[r].slug # None /\ req[r].user \in users
  /\ role[req[r].slug][req[r].user] # None

\* JWTAuthentication reads the account, IsTenantMember the membership; it
\* refuses whoever has no tenant, no token or no membership.
Permit(r) ==
  /\ pc[r] = "resolved"
  /\ IF IsTenantMember(r) THEN Goto(r, "permitted") ELSE Refuse(r)
  /\ UNCHANGED <<tenantVars, req, arrivals, operations>>

\* create_tenant: is the slug taken?
CheckSlug(r) ==
  /\ pc[r] = "arrived"
  /\ req[r].kind = "found"
  /\ IF Exists(req[r].slug) THEN Refuse(r) ELSE Goto(r, "founding")
  /\ UNCHANGED <<tenantVars, req, arrivals, operations>>

\* The unique slug and the foreign keys of the membership and the audit row.
Insertable(r) == RowsVisible /\ req[r].user \in users
SlugFree(r) == Insertable(r) /\ tenant[req[r].slug] = "absent"

\* create_tenant: tenant, membership and audit row in one transaction, which
\* fails with an IntegrityError when another one was faster.
Found(r) ==
  LET s == req[r].slug IN
  /\ pc[r] = "founding"
  /\ IF SlugFree(r)
     THEN /\ tenant' = [tenant EXCEPT ![s] = "active"]
          /\ role' = [role EXCEPT ![s][req[r].user] = "admin"]
          /\ founders' = [founders EXCEPT ![s] = Append(@, req[r].user)]
          /\ Goto(r, "answered")
     ELSE Refuse(r) /\ UNCHANGED <<tenant, role, founders>>
  /\ UNCHANGED <<secret, users, req, arrivals, operations>>

Free(r) == Goto(r, "idle") /\ req' = [req EXCEPT ![r] = None]

\* The answer reaches the caller.
Leave(r) ==
  /\ pc[r] \in {"answered", "refused", "invalid"}
  /\ Free(r)
  /\ UNCHANGED <<tenantVars, arrivals, operations>>

\* The process that serves the request dies; what it stored stays.
Dies(r) ==
  /\ pc[r] \notin {"idle", "answered", "refused", "invalid"}
  /\ Free(r)
  /\ UNCHANGED <<tenantVars, arrivals, operations>>

Operate ==
  /\ operations < MaxOperations
  /\ operations' = operations + 1
  /\ UNCHANGED pathVars

SetActive(s, stage) ==
  /\ Operate
  /\ tenant[s] \notin {"absent", stage}
  /\ tenant' = [tenant EXCEPT ![s] = stage]
  /\ UNCHANGED <<secret, role, users, founders>>

SetRole(s, u, new) ==
  /\ Operate
  /\ tenant[s] # "absent" /\ u \in users /\ role[s][u] # new
  /\ role' = [role EXCEPT ![s][u] = new]
  /\ UNCHANGED <<tenant, secret, users, founders>>

RotateSecret(s, new) ==
  /\ Operate
  /\ tenant[s] # "absent" /\ secret[s] # new
  /\ secret' = [secret EXCEPT ![s] = new]
  /\ UNCHANGED <<tenant, role, users, founders>>

\* on_delete=SET_NULL would update the audit rows; the trigger refuses that.
Deletable(u) == \A s \in Slugs : \A i \in DOMAIN founders[s] : founders[s][i] # u

\* Deleting an account cascades to its memberships.
DeleteUser(u) ==
  /\ Operate
  /\ u \in users /\ Deletable(u)
  /\ users' = users \ {u}
  /\ role' = [s \in Slugs |-> [role[s] EXCEPT ![u] = None]]
  /\ founders' = [s \in Slugs |-> [i \in DOMAIN founders[s] |->
                    IF founders[s][i] = u THEN None ELSE founders[s][i]]]
  /\ UNCHANGED <<tenant, secret>>

OperatorStep ==
  \/ \E s \in Slugs, stage \in {"active", "suspended"} : SetActive(s, stage)
  \/ \E s \in Slugs, u \in Users, new \in Roles \union {None} : SetRole(s, u, new)
  \/ \E s \in Slugs, new \in Secrets \union {None} : RotateSecret(s, new)
  \/ \E u \in Users : DeleteUser(u)

PathStep(r) == Resolve(r) \/ Permit(r) \/ CheckSlug(r) \/ Found(r)

\* Whatever existed before, every tenant was made by create_tenant.
AccessInit ==
  /\ users = Users
  /\ tenant \in [Slugs -> {"absent", "active"}]
  /\ founders \in [Slugs -> {<<>>} \union {<<u>> : u \in Users}]
  /\ \A s \in Slugs : tenant[s] = "absent" <=> founders[s] = <<>>
  /\ role = [s \in Slugs |-> [u \in Users |->
               IF founders[s] = <<u>> THEN "admin" ELSE None]]
  /\ secret = [s \in Slugs |-> None]
  /\ pc = [r \in Requests |-> "idle"]
  /\ req = [r \in Requests |-> None]
  /\ arrivals = 0 /\ operations = 0
==============================================================================
