---------------------------- MODULE InvokeLedger ----------------------------
(***************************************************************************)
(* What Service.Invoke promises about the state it keeps, with every       *)
(* invoke one atomic step: the answer a caller gets, the idempotency cache,*)
(* the usage counters and the audit trail.                                 *)
(*                                                                         *)
(*   Execute  a success: the cache entry is checked and stored, both       *)
(*            counters are incremented and one audit record is appended    *)
(*            in the same step as the answer.                              *)
(*   Replay   a keyed request whose entry exists gets the stored payload   *)
(*            and is neither billed nor audited.                           *)
(*   Refuse   any error answer leaves the ledger alone.                    *)
(*                                                                         *)
(* MIGService refines it when invokes do not overlap (MIGService's         *)
(* RefinesLedger); the checks that only gate admission (capability,       *)
(* scope, cancellation, quota) are MIGService's properties, because an     *)
(* admin call between the checks and the commit may change what they read.*)
(***************************************************************************)
EXTENDS Naturals, Sequences, TLC

CONSTANTS Clients, Tenants, CapIds, NoKey, NoPayload, Requests

VARIABLES
    idempotency,           \* <<tenant, cap, key>> -> stored payload
    tenantInvocations,     \* tenant -> billed invokes
    capabilityInvocations, \* capability -> billed invokes
    audit,                 \* one record per billed invoke
    responses              \* every answer, in order

ledgerVars == <<idempotency, tenantInvocations, capabilityInvocations, audit,
                responses>>

ErrorCodes == {"MIG_INVALID_REQUEST", "MIG_UNSUPPORTED_CAPABILITY",
               "MIG_FORBIDDEN", "MIG_TIMEOUT", "MIG_RATE_LIMITED"}

IdemKey(r) == <<r.tenant, r.cap, r.key>>

Cached(r) == r.key # NoKey /\ IdemKey(r) \in DOMAIN idempotency

Answer(c, r, code, payload, fresh) ==
    responses' = Append(responses, [client |-> c, req |-> r, code |-> code,
                                    payload |-> payload, fresh |-> fresh])

Init ==
    /\ idempotency = <<>>
    /\ tenantInvocations = [t \in Tenants |-> 0]
    /\ capabilityInvocations = [k \in CapIds |-> 0]
    /\ audit = <<>>
    /\ responses = <<>>

Execute(c, r) ==
    /\ ~Cached(r)
    /\ idempotency' = IF r.key # NoKey
                        THEN (IdemKey(r) :> r.payload) @@ idempotency
                        ELSE idempotency
    /\ tenantInvocations' = [tenantInvocations EXCEPT ![r.tenant] = @ + 1]
    /\ capabilityInvocations' = [capabilityInvocations EXCEPT ![r.cap] = @ + 1]
    /\ audit' = Append(audit, [actor |-> c, tenant |-> r.tenant,
                               capability |-> r.cap, msg |-> r.msg])
    /\ Answer(c, r, "OK", r.payload, TRUE)

Replay(c, r) ==
    /\ Cached(r)
    /\ Answer(c, r, "OK", idempotency[IdemKey(r)], FALSE)
    /\ UNCHANGED <<idempotency, tenantInvocations, capabilityInvocations, audit>>

Refuse(c, r, code) ==
    /\ Answer(c, r, code, NoPayload, FALSE)
    /\ UNCHANGED <<idempotency, tenantInvocations, capabilityInvocations, audit>>

Next ==
    \E c \in Clients, r \in Requests :
        \/ Execute(c, r)
        \/ Replay(c, r)
        \/ \E code \in ErrorCodes : Refuse(c, r, code)

Spec == Init /\ [][Next]_ledgerVars

====
