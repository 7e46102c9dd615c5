----------------------------- MODULE MIGService -----------------------------
(***************************************************************************)
(* The invocation core of the MIG service (core/pkg/mig/service.go):       *)
(* Invoke with its capability, scope, cancellation, idempotency and quota  *)
(* checks, the deadline race and the commit of a success; and the          *)
(* operations that change what those checks read: Cancel, SetQuota and     *)
(* AddCapability.                                                          *)
(*                                                                         *)
(* Each client is one connection that sends one invoke at a time (a        *)
(* WebSocket stream, a gRPC StreamInvoke, or one HTTP caller).  Invoke     *)
(* takes the service lock three times: a shared lock for the checks, none  *)
(* while the payload is produced and the deadline runs, and the exclusive  *)
(* lock for the commit.  The model has one action per locked region, so    *)
(* other clients and the admin operations interleave exactly where the     *)
(* code lets them.                                                         *)
(***************************************************************************)
EXTENDS Naturals, Sequences, SequencesExt, FiniteSets, TLC

CONSTANTS
    Clients,         \* connections that invoke, one request at a time
    Tenants,         \* tenant ids (non-empty: the bindings reject "")
    CapIds,          \* capability ids a request may name
    Scopes,          \* auth scope names
    Versions,        \* mig_version values a header may carry
    MsgIds,          \* message ids (clients may reuse one, as after a cancel)
    IdemKeys,        \* idempotency keys
    NoKey,           \* the empty idempotency key
    Payloads,        \* request payloads (opaque)
    NoPayload,       \* the payload of an error response
    QuotaValues,     \* max_invocations values SetQuota may be given (> 0)
    ScopeChoices,    \* auth_scopes sets AddCapability may install
    ClientPrincipal, \* [Clients -> principal]: fixed per connection
    InitCaps,        \* bootstrapped capabilities: id -> auth_scopes
    Requests,        \* the requests clients may send (a subset of Request)
    MaxRequests      \* bound on the number of invokes issued

MIGVersion == "0.1"

ASSUME MIGVersion \in Versions
ASSUME NoKey \notin IdemKeys
ASSUME NoPayload \notin Payloads
ASSUME QuotaValues \subseteq Nat \ {0}
ASSUME DOMAIN InitCaps \subseteq CapIds
ASSUME MaxRequests \in Nat

Principal == [authenticated : BOOLEAN, scopes : SUBSET Scopes]

ASSUME ClientPrincipal \in [Clients -> Principal]

\* The error codes Invoke can return (types.go), "OK" for a success.
Codes == {"OK", "MIG_INVALID_REQUEST", "MIG_UNSUPPORTED_CAPABILITY",
          "MIG_FORBIDDEN", "MIG_TIMEOUT", "MIG_RATE_LIMITED"}

\* What a client sends: the header fields Invoke reads, the capability and
\* the payload.  Timestamp, deadline_ms and meta are defaulted and not read
\* by any check; the deadline only bounds the race of InvokeComplete and
\* InvokeTimeout.
Request == [tenant : Tenants, cap : CapIds, key : IdemKeys \cup {NoKey},
            payload : Payloads, msg : MsgIds, ver : Versions]

ASSUME Requests \subseteq Request

\* A response as the client sees it; "fresh" tells an executed invoke from a
\* replay of the idempotency cache (the code does not mark it; the model
\* keeps it to state the properties).
Response == [client : Clients, req : Request, code : Codes,
             payload : Payloads \cup {NoPayload}, fresh : BOOLEAN]

\* The local variables Invoke keeps between its locked regions.
Snapshot == [hasQuota : BOOLEAN, quota : Nat, used : Nat]

VARIABLES
    capabilities,          \* id -> auth_scopes of its descriptor
    idempotency,           \* <<tenant, cap, key>> -> cached payload
    cancelled,             \* message ids in the cancellation set
    quotas,                \* tenant -> max_invocations, for tenants that have one
    tenantInvocations,     \* tenant -> successful invokes
    capabilityInvocations, \* capability -> successful invokes
    audit,                 \* the audit trail, one record per success
    pc,                    \* client -> "idle" | "running"
    cur,                   \* client -> the request it is serving
    snap,                  \* client -> quota snapshot taken by the checks
    responses,             \* history: every response returned to a client
    cancelAcked,           \* history: message ids whose cancel was acknowledged
    issued                 \* number of invokes issued so far

vars == <<capabilities, idempotency, cancelled, quotas, tenantInvocations,
          capabilityInvocations, audit, pc, cur, snap, responses,
          cancelAcked, issued>>

serviceVars == <<capabilities, idempotency, cancelled, quotas,
                 tenantInvocations, capabilityInvocations, audit>>

-----------------------------------------------------------------------------
(* Helpers translated from the code.                                       *)

\* MessageHeader.Normalize: the only failure a bound request can hit is an
\* unsupported mig_version (tenant is non-empty, the rest are defaults).
NormalizeOK(r) == r.ver = MIGVersion

\* Principal.HasAnyScope: unauthenticated callers and capabilities without
\* scopes pass; otherwise one scope in common is needed.
HasAnyScope(p, required) ==
    \/ ~p.authenticated
    \/ required = {}
    \/ p.scopes \cap required # {}

\* The idempotency cache key "%s:%s:%s" of tenant, capability and key.
IdemKey(r) == <<r.tenant, r.cap, r.key>>

\* Mutant (QuotaRespected): the quota check written with > instead of >=.
CheckOutcomeQuotaOffByOne(c, r) ==
    CASE ~NormalizeOK(r)                                 -> "MIG_INVALID_REQUEST"
      [] r.cap \notin DOMAIN capabilities                -> "MIG_UNSUPPORTED_CAPABILITY"
      [] ~HasAnyScope(ClientPrincipal[c], capabilities[r.cap])
                                                         -> "MIG_FORBIDDEN"
      [] r.msg \in cancelled                             -> "MIG_TIMEOUT"
      [] r.key # NoKey /\ IdemKey(r) \in DOMAIN idempotency -> "CACHED"
      [] r.tenant \in DOMAIN quotas
           /\ tenantInvocations[r.tenant] > quotas[r.tenant] -> "MIG_RATE_LIMITED"
      [] OTHER                                           -> "ADMIT"

\* The checks of Invoke, in the code's order, under the shared lock; the
\* quota decision uses the values read there after the lock is released.
CheckOutcome(c, r) ==
    CASE ~NormalizeOK(r)                                 -> "MIG_INVALID_REQUEST"
      [] r.cap \notin DOMAIN capabilities                -> "MIG_UNSUPPORTED_CAPABILITY"
      [] ~HasAnyScope(ClientPrincipal[c], capabilities[r.cap])
                                                         -> "MIG_FORBIDDEN"
      [] r.msg \in cancelled                             -> "MIG_TIMEOUT"
      [] r.key # NoKey /\ IdemKey(r) \in DOMAIN idempotency -> "CACHED"
      [] r.tenant \in DOMAIN quotas
           /\ tenantInvocations[r.tenant] >= quotas[r.tenant] -> "MIG_RATE_LIMITED"
      [] OTHER                                           -> "ADMIT"

Respond(c, r, code, payload, fresh) ==
    responses' = Append(responses, [client |-> c, req |-> r, code |-> code,
                                    payload |-> payload, fresh |-> fresh])

-----------------------------------------------------------------------------
(* Initial state: NewServiceWithOptions and bootstrapDefaults.             *)

Init ==
    /\ capabilities = InitCaps
    /\ idempotency = <<>>
    /\ cancelled = {}
    /\ quotas = <<>>
    /\ tenantInvocations = [t \in Tenants |-> 0]
    /\ capabilityInvocations = [k \in CapIds |-> 0]
    /\ audit = <<>>
    /\ pc = [c \in Clients |-> "idle"]
    /\ cur = [c \in Clients |-> CHOOSE r \in Request : TRUE]
    /\ snap = [c \in Clients |-> [hasQuota |-> FALSE, quota |-> 0, used |-> 0]]
    /\ responses = <<>>
    /\ cancelAcked = {}
    /\ issued = 0

-----------------------------------------------------------------------------
(* Invoke, one action per locked region.                                   *)

\* Mutant (CancelSticky): a cancellation consumed by the first invoke it
\* fails, as a garbage-collected cancellation set would do.
InvokeRejectConsumesCancel(c, r) ==
    /\ pc[c] = "idle"
    /\ issued < MaxRequests
    /\ CheckOutcome(c, r) \notin {"CACHED", "ADMIT"}
    /\ issued' = issued + 1
    /\ Respond(c, r, CheckOutcome(c, r), NoPayload, FALSE)
    /\ cancelled' = IF CheckOutcome(c, r) = "MIG_TIMEOUT"
                      THEN cancelled \ {r.msg} ELSE cancelled
    /\ UNCHANGED <<capabilities, idempotency, quotas, tenantInvocations,
                   capabilityInvocations, audit, pc, cur, snap, cancelAcked>>

\* A new request whose checks fail: the error is returned at once.
InvokeReject(c, r) ==
    /\ pc[c] = "idle"
    /\ issued < MaxRequests
    /\ CheckOutcome(c, r) \notin {"CACHED", "ADMIT"}
    /\ issued' = issued + 1
    /\ Respond(c, r, CheckOutcome(c, r), NoPayload, FALSE)
    /\ UNCHANGED <<serviceVars, pc, cur, snap, cancelAcked>>

\* Mutant (UsageMatchesAudit): a replay from the cache billed as an invoke.
InvokeCachedBilled(c, r) ==
    /\ pc[c] = "idle"
    /\ issued < MaxRequests
    /\ CheckOutcome(c, r) = "CACHED"
    /\ issued' = issued + 1
    /\ tenantInvocations' = [tenantInvocations EXCEPT ![r.tenant] = @ + 1]
    /\ Respond(c, r, "OK", idempotency[IdemKey(r)], FALSE)
    /\ UNCHANGED <<capabilities, idempotency, cancelled, quotas,
                   capabilityInvocations, audit, pc, cur, snap, cancelAcked>>

\* A new request with a cached response: the cached payload is returned
\* with the fresh header, nothing is counted.
InvokeCached(c, r) ==
    /\ pc[c] = "idle"
    /\ issued < MaxRequests
    /\ CheckOutcome(c, r) = "CACHED"
    /\ issued' = issued + 1
    /\ Respond(c, r, "OK", idempotency[IdemKey(r)], FALSE)
    /\ UNCHANGED <<serviceVars, pc, cur, snap, cancelAcked>>

\* A new request that passes every check: the lock is released and the
\* payload goroutine and the deadline timer start.  quota, hasQuota and used
\* are the locals the code read under the lock.
InvokeAdmit(c, r) ==
    /\ pc[c] = "idle"
    /\ issued < MaxRequests
    /\ CheckOutcome(c, r) = "ADMIT"
    /\ issued' = issued + 1
    /\ pc' = [pc EXCEPT ![c] = "running"]
    /\ cur' = [cur EXCEPT ![c] = r]
    /\ snap' = [snap EXCEPT ![c] =
                  [hasQuota |-> r.tenant \in DOMAIN quotas,
                   quota |-> IF r.tenant \in DOMAIN quotas THEN quotas[r.tenant] ELSE 0,
                   used |-> tenantInvocations[r.tenant]]]
    /\ UNCHANGED <<serviceVars, responses, cancelAcked>>

\* Mutant (IdempotentResponses): the commit forgets to store the response.
InvokeCompleteNoStore(c) ==
    LET r == cur[c] IN
    /\ pc[c] = "running"
    /\ tenantInvocations' = [tenantInvocations EXCEPT ![r.tenant] = @ + 1]
    /\ capabilityInvocations' = [capabilityInvocations EXCEPT ![r.cap] = @ + 1]
    /\ audit' = Append(audit, [actor |-> c, tenant |-> r.tenant,
                               capability |-> r.cap, msg |-> r.msg])
    /\ pc' = [pc EXCEPT ![c] = "idle"]
    /\ Respond(c, r, "OK", r.payload, TRUE)
    /\ UNCHANGED <<capabilities, idempotency, cancelled, quotas, cur, snap,
                   cancelAcked, issued>>

\* The payload arrives before the deadline: under the exclusive lock the
\* response is cached (if keyed), both counters are incremented and an
\* audit record is appended.
InvokeComplete(c) ==
    LET r == cur[c] IN
    /\ pc[c] = "running"
    /\ idempotency' = IF r.key # NoKey
                        THEN (IdemKey(r) :> r.payload) @@ idempotency
                        ELSE idempotency
    /\ tenantInvocations' = [tenantInvocations EXCEPT ![r.tenant] = @ + 1]
    /\ capabilityInvocations' = [capabilityInvocations EXCEPT ![r.cap] = @ + 1]
    /\ audit' = Append(audit, [actor |-> c, tenant |-> r.tenant,
                               capability |-> r.cap, msg |-> r.msg])
    /\ pc' = [pc EXCEPT ![c] = "idle"]
    /\ Respond(c, r, "OK", r.payload, TRUE)
    /\ UNCHANGED <<capabilities, cancelled, quotas, cur, snap, cancelAcked, issued>>

\* The deadline (or the transport's cancellation) fires first: MIG_TIMEOUT,
\* and the payload produced later is dropped.
InvokeTimeout(c) ==
    /\ pc[c] = "running"
    /\ pc' = [pc EXCEPT ![c] = "idle"]
    /\ Respond(c, cur[c], "MIG_TIMEOUT", NoPayload, FALSE)
    /\ UNCHANGED <<serviceVars, cur, snap, cancelAcked, issued>>

-----------------------------------------------------------------------------
(* The operations that change what Invoke's checks read.                   *)

\* Cancel records the message id (the reason only decorates the error text)
\* and always acknowledges "cancelled".
Cancel(m) ==
    /\ cancelled' = cancelled \cup {m}
    /\ cancelAcked' = cancelAcked \cup {m}
    /\ UNCHANGED <<capabilities, idempotency, quotas, tenantInvocations,
                   capabilityInvocations, audit, pc, cur, snap, responses, issued>>

\* Mutant (TypeOK): SetQuota stores max_invocations - 1.
SetQuotaOffByOne(t, n) ==
    /\ quotas' = (t :> n - 1) @@ quotas
    /\ UNCHANGED <<capabilities, idempotency, cancelled, tenantInvocations,
                   capabilityInvocations, audit, pc, cur, snap, responses,
                   cancelAcked, issued>>

\* SetQuota with a tenant and a positive max_invocations.
SetQuota(t, n) ==
    /\ quotas' = (t :> n) @@ quotas
    /\ UNCHANGED <<capabilities, idempotency, cancelled, tenantInvocations,
                   capabilityInvocations, audit, pc, cur, snap, responses,
                   cancelAcked, issued>>

\* AddCapability upserts a descriptor; only its auth_scopes are read later.
AddCapability(k, scopes) ==
    /\ capabilities' = (k :> scopes) @@ capabilities
    /\ UNCHANGED <<idempotency, cancelled, quotas, tenantInvocations,
                   capabilityInvocations, audit, pc, cur, snap, responses,
                   cancelAcked, issued>>

Next ==
    \/ \E c \in Clients, r \in Requests :
          InvokeReject(c, r) \/ InvokeCached(c, r) \/ InvokeAdmit(c, r)
    \/ \E c \in Clients : InvokeComplete(c) \/ InvokeTimeout(c)
    \/ \E m \in MsgIds : Cancel(m)
    \/ \E t \in Tenants, n \in QuotaValues : SetQuota(t, n)
    \/ \E k \in CapIds, s \in ScopeChoices : AddCapability(k, s)

Spec == Init /\ [][Next]_vars

-----------------------------------------------------------------------------
(* Properties.                                                             *)

TypeOK ==
    /\ DOMAIN capabilities \subseteq CapIds
    /\ \A k \in DOMAIN capabilities : capabilities[k] \subseteq Scopes
    /\ DOMAIN idempotency \subseteq Tenants \X CapIds \X IdemKeys
    /\ \A k \in DOMAIN idempotency : idempotency[k] \in Payloads
    /\ cancelled \subseteq MsgIds
    /\ DOMAIN quotas \subseteq Tenants
    /\ \A t \in DOMAIN quotas : quotas[t] \in QuotaValues
    /\ tenantInvocations \in [Tenants -> Nat]
    /\ capabilityInvocations \in [CapIds -> Nat]
    /\ pc \in [Clients -> {"idle", "running"}]
    /\ cur \in [Clients -> Request]
    /\ snap \in [Clients -> Snapshot]
    /\ \A i \in DOMAIN responses : responses[i] \in Response
    /\ cancelAcked \subseteq MsgIds
    /\ issued \in 0..MaxRequests

\* A step in which client c's admitted invoke commits its success.
Commits(c) == pc[c] = "running" /\ pc'[c] = "idle"
              /\ tenantInvocations' # tenantInvocations

\* A step in which a new invoke of client c is answered from the cache.
Replays(c) ==
    /\ Len(responses') = Len(responses) + 1
    /\ Last(responses').client = c
    /\ Last(responses').code = "OK"
    /\ ~Last(responses').fresh

\* Quota (Invoke's quota check and commit): a successful invoke never takes
\* its tenant's usage above the max_invocations it was admitted under, so
\* with a quota of k the (k+1)-th invoke is refused.
QuotaRespected ==
    [][\A c \in Clients :
         Commits(c) /\ snap[c].hasQuota
            => tenantInvocations'[cur[c].tenant] <= snap[c].quota]_vars

\* Idempotency (the cache lookup in Invoke's checks and the store in its
\* commit): every success returned for one (tenant, capability, key) carries
\* the same payload, whether it was executed or replayed from the cache.
IdempotentResponses ==
    \A i, j \in DOMAIN responses :
        LET a == responses[i]  b == responses[j] IN
        /\ a.code = "OK" /\ b.code = "OK"
        /\ a.req.key # NoKey /\ IdemKey(a.req) = IdemKey(b.req)
        => a.payload = b.payload

\* Cancellation is sticky (Cancel and Invoke's cancellation check): once a
\* cancel of message id m has been acknowledged, no later invoke carrying m
\* is admitted or answered from the cache; it fails with MIG_TIMEOUT.
CancelSticky ==
    [][\A c \in Clients :
         /\ pc[c] = "idle" /\ pc'[c] = "running" => cur'[c].msg \notin cancelAcked
         /\ Replays(c) => Last(responses').req.msg \notin cancelAcked]_vars

\* Usage accounting (Invoke's commit): the per-tenant and per-capability
\* counters and the audit trail count exactly the executed successes; a
\* rejected, timed-out or replayed invoke is neither billed nor audited.
UsageMatchesAudit ==
    LET executed == SelectSeq(responses, LAMBDA x : x.code = "OK" /\ x.fresh) IN
    /\ Len(audit) = Len(executed)
    /\ \A i \in DOMAIN audit :
          audit[i].tenant = executed[i].req.tenant
          /\ audit[i].capability = executed[i].req.cap
          /\ audit[i].msg = executed[i].req.msg
    /\ \A t \in Tenants :
          tenantInvocations[t] = Len(SelectSeq(audit, LAMBDA x : x.tenant = t))
    /\ \A k \in CapIds :
          capabilityInvocations[k] = Len(SelectSeq(audit, LAMBDA x : x.capability = k))

-----------------------------------------------------------------------------
(* Refinement of the atomic ledger.                                        *)

\* The service's own variables are the ledger's; the clients' locals and
\* the admin state are hidden.
Ledger == INSTANCE InvokeLedger

\* Invoke's three lock sections implement InvokeLedger: a commit is an
\* Execute whose cache miss still holds, a cache hit a Replay, an error a
\* Refuse, and admission, Cancel, SetQuota and AddCapability change nothing
\* the ledger shows.  This holds when one invoke runs at a time; the
\* idempotency race of two overlapping invokes breaks it.
RefinesLedger == Ledger!Spec

=============================================================================
