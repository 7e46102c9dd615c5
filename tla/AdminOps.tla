------------------------------ MODULE AdminOps ------------------------------
(***************************************************************************)
(* The administrative HTTP surface (/admin, /pro, /cloud routes of         *)
(* RegisterHTTPRoutes) over the state core it reads and writes: the       *)
(* org/tenant/gateway registries, quotas, capabilities, the audit trail,   *)
(* the usage counters and the live-connection registry.                    *)
(*                                                                         *)
(* Every handler runs one service call under the core lock, so each is one *)
(* atomic step here: the handler's own checks (the principal's tenant      *)
(* check of handleSetQuota and handlePolicyValidate) followed by the       *)
(* service function's checks and its single locked mutation.               *)
(*                                                                         *)
(* The environment adds what other parts of the system write: an invoke    *)
(* commit (Service.Invoke, lines 305-321) and the registration and release *)
(* of a streaming connection (RegisterConnection).                         *)
(*                                                                         *)
(* exposed is a history: the <<caller, tenant>> pairs such that the caller *)
(* was shown or changed data that belongs to the tenant.                   *)
(***************************************************************************)
EXTENDS Naturals, Sequences, FiniteSets, Functions, TLC

CONSTANTS
    Callers,       \* authenticated principals of admin requests
    BoundTenant,   \* caller -> principal tenant, NoId when the token has none
    TenantIds, OrgIds, GatewayIds, ConnIds, CapIds,
    Bootstrap,     \* the capability registered by NewService
    NoId,          \* the empty string of an id field or query parameter
    MaxQuota,      \* largest max_invocations a request carries
    MaxAudit       \* bound on committed invokes

VARIABLES
    orgs,                  \* registered org ids
    tenants,               \* tenant id -> org id
    gateways,              \* gateway id -> tenant id
    quotas,                \* tenant id -> max_invocations
    capabilities,          \* registered capability ids
    tenantInvocations,     \* tenant id -> billed invokes (absent = 0)
    capabilityInvocations, \* capability id -> billed invokes
    audit,                 \* sequence of [tenant, capability]
    conns,                 \* live connection id -> its tenant
    reply,                 \* caller -> code of its last admin answer
    exposed                \* history of <<caller, tenant>> data exposures

vars == <<orgs, tenants, gateways, quotas, capabilities, tenantInvocations,
          capabilityInvocations, audit, conns, reply, exposed>>

coreVars == <<orgs, tenants, gateways, quotas, capabilities,
              tenantInvocations, capabilityInvocations, audit, conns>>

Routes == {"none", "quota", "policy", "audit", "usage", "connections",
           "capability", "org", "tenant", "gateway"}

Codes == {"OK", "CREATED", "INVALID", "FORBIDDEN", "NOT_FOUND", "DENIED",
          "NONE"}

\* A map write: insert or overwrite the entry for k.
Put(f, k, v) == [x \in DOMAIN f \cup {k} |-> IF x = k THEN v ELSE f[x]]

\* Go's map read of an int64 counter: an absent key reads 0.
Count(f, k) == IF k \in DOMAIN f THEN f[k] ELSE 0

\* An id the server generates (newMessageID) when the request leaves it
\* empty: any id not yet in use.
Fresh(ids, used) == ids \ used

Init ==
    /\ orgs = {}
    /\ tenants = <<>>
    /\ gateways = <<>>
    /\ quotas = <<>>
    /\ capabilities = {Bootstrap}
    /\ tenantInvocations = <<>>
    /\ capabilityInvocations = <<>>
    /\ audit = <<>>
    /\ conns = <<>>
    /\ reply = [c \in Callers |-> <<"none", "NONE">>]
    /\ exposed = {}

\* The answer of a route: which handler answered and with what.
Answer(c, route, code) == reply' = [reply EXCEPT ![c] = <<route, code>>]

Expose(c, ts) == exposed' = exposed \cup {<<c, t>> : t \in ts}

\* handleSetQuota's check: a tenant-bound principal may only name its own
\* tenant (an unbound principal may name any).
PrincipalMismatch(c, t) == BoundTenant[c] # NoId /\ t # BoundTenant[c]

-----------------------------------------------------------------------------
(* Environment: the commit of a successful invoke and connection churn.    *)

RecordInvoke(t, k) ==
    /\ Len(audit) < MaxAudit
    /\ k \in capabilities
    /\ ~(t \in DOMAIN quotas /\ Count(tenantInvocations, t) >= quotas[t])
    /\ tenantInvocations' = Put(tenantInvocations, t,
                                Count(tenantInvocations, t) + 1)
    /\ capabilityInvocations' = Put(capabilityInvocations, k,
                                    Count(capabilityInvocations, k) + 1)
    /\ audit' = Append(audit, [tenant |-> t, capability |-> k])
    /\ UNCHANGED <<orgs, tenants, gateways, quotas, capabilities, conns,
                   reply, exposed>>

OpenConnection(id, t) ==
    /\ id \notin DOMAIN conns
    /\ conns' = Put(conns, id, t)
    /\ UNCHANGED <<orgs, tenants, gateways, quotas, capabilities,
                   tenantInvocations, capabilityInvocations, audit, reply,
                   exposed>>

CloseConnection(id) ==
    /\ id \in DOMAIN conns
    /\ conns' = [x \in DOMAIN conns \ {id} |-> conns[x]]
    /\ UNCHANGED <<orgs, tenants, gateways, quotas, capabilities,
                   tenantInvocations, capabilityInvocations, audit, reply,
                   exposed>>

-----------------------------------------------------------------------------
(* What the read-only handlers return.                                     *)

\* A variant of AuditExportOf that drops the tenant filter.
AuditExportOfUnfiltered(t) == audit

\* Service.AuditExport: the whole trail for "", else the tenant's records.
AuditExportOf(t) ==
    IF t = NoId THEN audit ELSE SelectSeq(audit, LAMBDA r : r.tenant = t)

\* Service.Usage: copies of both counter maps and the sum of the capability
\* counters.
UsageOf == [tenant |-> tenantInvocations,
            capability |-> capabilityInvocations,
            total |-> SumFunction(capabilityInvocations)]

\* Service.Connections: the live entries matching the tenant filter ("" =
\* all). The kind and protocol filters narrow the same way and are left out.
ConnectionsOf(t) == {id \in DOMAIN conns : t = NoId \/ conns[id] = t}

\* The tenants whose data a list of audit records carries.
TenantsIn(records) == {records[i].tenant : i \in DOMAIN records}

-----------------------------------------------------------------------------
(* The admin handlers, each with its service call.                         *)

\* A variant of SetQuota without the max_invocations > 0 check.
SetQuotaNoMaxCheck(c, t, m) ==
    \/ /\ PrincipalMismatch(c, t)
       /\ Answer(c, "quota", "FORBIDDEN") /\ UNCHANGED <<coreVars, exposed>>
    \/ /\ ~PrincipalMismatch(c, t) /\ t = NoId
       /\ Answer(c, "quota", "INVALID") /\ UNCHANGED <<coreVars, exposed>>
    \/ /\ ~PrincipalMismatch(c, t) /\ t # NoId
       /\ quotas' = Put(quotas, t, m)
       /\ Answer(c, "quota", "OK") /\ Expose(c, {t})
       /\ UNCHANGED <<orgs, tenants, gateways, capabilities,
                      tenantInvocations, capabilityInvocations, audit, conns>>

\* handleSetQuota + Service.SetQuota.
SetQuota(c, t, m) ==
    /\ \/ /\ PrincipalMismatch(c, t)
          /\ Answer(c, "quota", "FORBIDDEN") /\ UNCHANGED <<coreVars, exposed>>
       \/ /\ ~PrincipalMismatch(c, t)
          /\ (t = NoId \/ m <= 0)
          /\ Answer(c, "quota", "INVALID") /\ UNCHANGED <<coreVars, exposed>>
       \/ /\ ~PrincipalMismatch(c, t) /\ t # NoId /\ m > 0
          /\ quotas' = Put(quotas, t, m)
          /\ Answer(c, "quota", "OK") /\ Expose(c, {t})
          /\ UNCHANGED <<orgs, tenants, gateways, capabilities,
                         tenantInvocations, capabilityInvocations, audit, conns>>

\* handlePolicyValidate + Service.ValidatePolicy: reads the capability
\* registry only.
ValidatePolicy(c, t, k, act) ==
    /\ Answer(c, "policy", IF PrincipalMismatch(c, t) THEN "FORBIDDEN"
                 ELSE IF t = NoId \/ k = NoId \/ act = NoId THEN "INVALID"
                 ELSE IF act # "invoke" \/ k \notin capabilities THEN "DENIED"
                 ELSE "OK")
    /\ UNCHANGED <<coreVars, exposed>>

\* handleAuditExport + Service.AuditExport: tenant_id comes from the query
\* string alone.
AuditExport(c, t) ==
    /\ Answer(c, "audit", "OK")
    /\ Expose(c, TenantsIn(AuditExportOf(t)))
    /\ UNCHANGED coreVars

\* handleUsage + Service.Usage: a key exists for every tenant that has a
\* billed invoke.
Usage(c) ==
    /\ Answer(c, "usage", "OK")
    /\ Expose(c, DOMAIN UsageOf.tenant)
    /\ UNCHANGED coreVars

\* handleConnections + Service.Connections.
Connections(c, t) ==
    /\ Answer(c, "connections", "OK")
    /\ Expose(c, {conns[id] : id \in ConnectionsOf(t)})
    /\ UNCHANGED coreVars

\* handleAddCapability + Service.AddCapability; complete is whether id,
\* version and both schema URIs are present.
AddCapability(c, k, complete) ==
    /\ \/ /\ ~complete
          /\ Answer(c, "capability", "INVALID") /\ UNCHANGED coreVars
       \/ /\ complete
          /\ capabilities' = capabilities \cup {k}
          /\ Answer(c, "capability", "CREATED")
          /\ UNCHANGED <<orgs, tenants, gateways, quotas, tenantInvocations,
                         capabilityInvocations, audit, conns>>
    /\ UNCHANGED exposed

\* handleCreateOrg + Service.CreateOrg; an explicit id overwrites.
CreateOrg(c, id, named) ==
    /\ \/ /\ ~named
          /\ Answer(c, "org", "INVALID") /\ UNCHANGED coreVars
       \/ /\ named
          /\ \E o \in IF id = NoId THEN Fresh(OrgIds, orgs) ELSE {id} :
                orgs' = orgs \cup {o}
          /\ Answer(c, "org", "CREATED")
          /\ UNCHANGED <<tenants, gateways, quotas, capabilities,
                         tenantInvocations, capabilityInvocations, audit, conns>>
    /\ UNCHANGED exposed

\* handleCreateTenant + Service.CreateTenant; the org must exist, an
\* explicit id overwrites (and so may move a tenant to another org).
CreateTenant(c, id, o, named) ==
    \/ /\ (~named \/ o = NoId)
       /\ Answer(c, "tenant", "INVALID") /\ UNCHANGED <<coreVars, exposed>>
    \/ /\ named /\ o # NoId /\ o \notin orgs
       /\ Answer(c, "tenant", "NOT_FOUND") /\ UNCHANGED <<coreVars, exposed>>
    \/ /\ named /\ o \in orgs
       /\ \E t \in IF id = NoId THEN Fresh(TenantIds, DOMAIN tenants)
                                ELSE {id} :
             /\ tenants' = Put(tenants, t, o)
             /\ Expose(c, {t})
       /\ Answer(c, "tenant", "CREATED")
       /\ UNCHANGED <<orgs, gateways, quotas, capabilities, tenantInvocations,
                      capabilityInvocations, audit, conns>>

CreateGateway(c, id, t, complete) ==
    \/ /\ (~complete \/ t = NoId)
       /\ Answer(c, "gateway", "INVALID") /\ UNCHANGED <<coreVars, exposed>>
    \/ /\ complete /\ t # NoId /\ t \notin DOMAIN tenants
       /\ Answer(c, "gateway", "NOT_FOUND") /\ UNCHANGED <<coreVars, exposed>>
    \/ /\ complete /\ t \in DOMAIN tenants
       /\ \E g \in IF id = NoId THEN Fresh(GatewayIds, DOMAIN gateways)
                                ELSE {id} :
             gateways' = Put(gateways, g, t)
       /\ Answer(c, "gateway", "CREATED") /\ Expose(c, {t})
       /\ UNCHANGED <<orgs, tenants, quotas, capabilities, tenantInvocations,
                      capabilityInvocations, audit, conns>>

-----------------------------------------------------------------------------
TenantOrNone == TenantIds \cup {NoId}

Next ==
    \/ \E t \in TenantIds, k \in CapIds : RecordInvoke(t, k)
    \/ \E id \in ConnIds, t \in TenantIds : OpenConnection(id, t)
    \/ \E id \in ConnIds : CloseConnection(id)
    \/ \E c \in Callers :
          \/ \E t \in TenantOrNone, m \in 0..MaxQuota : SetQuota(c, t, m)
          \/ \E t \in TenantOrNone, k \in CapIds \cup {NoId},
                act \in {"invoke", "publish", NoId} : ValidatePolicy(c, t, k, act)
          \/ \E t \in TenantOrNone : AuditExport(c, t)
          \/ Usage(c)
          \/ \E t \in TenantOrNone : Connections(c, t)
          \/ \E k \in CapIds, ok \in BOOLEAN : AddCapability(c, k, ok)
          \/ \E id \in OrgIds \cup {NoId}, ok \in BOOLEAN : CreateOrg(c, id, ok)
          \/ \E id \in TenantOrNone, o \in OrgIds \cup {NoId}, ok \in BOOLEAN :
                CreateTenant(c, id, o, ok)
          \/ \E id \in GatewayIds \cup {NoId}, t \in TenantOrNone,
                ok \in BOOLEAN : CreateGateway(c, id, t, ok)

Spec == Init /\ [][Next]_vars

-----------------------------------------------------------------------------
(* Properties.                                                             *)

TypeOK ==
    /\ orgs \subseteq OrgIds
    /\ DOMAIN tenants \subseteq TenantIds /\ Range(tenants) \subseteq OrgIds
    /\ DOMAIN gateways \subseteq GatewayIds
    /\ Range(gateways) \subseteq TenantIds
    /\ DOMAIN quotas \subseteq TenantIds /\ Range(quotas) \subseteq 1..MaxQuota
    /\ capabilities \subseteq CapIds
    /\ DOMAIN tenantInvocations \subseteq TenantIds
    /\ DOMAIN capabilityInvocations \subseteq capabilities
    /\ Len(audit) <= MaxAudit
    /\ DOMAIN conns \subseteq ConnIds /\ Range(conns) \subseteq TenantIds
    /\ reply \in [Callers -> Routes \X Codes]
    /\ exposed \subseteq Callers \X TenantIds

TenantIsolation ==
    \A e \in exposed : BoundTenant[e[1]] # NoId => e[2] = BoundTenant[e[1]]

====
