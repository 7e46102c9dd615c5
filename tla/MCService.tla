---------------------------- MODULE MCService ----------------------------
(* Model values and bounds for checking MIGService with TLC.              *)
EXTENDS MIGService

CONSTANTS c1, c2, t1, t2, infer, other, sInfer, sOther, m1, m2, k1, p1, p2

\* c1 holds the scope of the bootstrapped capability; c2 is anonymous.
MCClientPrincipal ==
    [c \in Clients |-> IF c = c1 THEN [authenticated |-> TRUE, scopes |-> {sInfer}]
                               ELSE [authenticated |-> FALSE, scopes |-> {}]]

\* bootstrapDefaults: observatory.models.infer with scope capability:infer.
MCInitCaps == infer :> {sInfer}

MCScopeChoices == {{sOther}}

MCVersions == {"0.1", "0.2"}

MCQuotaValues == {1}

Req(t, k, key, p, m, v) ==
    [tenant |-> t, cap |-> k, key |-> key, payload |-> p, msg |-> m, ver |-> v]

\* Two keyed requests that share a key and differ in payload and message id,
\* an unkeyed one, one naming a capability that does not exist yet, and one
\* with an unsupported mig_version.
MCRequests ==
    { Req(t1, infer, k1, p1, m1, "0.1"),
      Req(t1, infer, k1, p2, m2, "0.1"),
      Req(t1, infer, NoKey, p1, m1, "0.1"),
      Req(t1, other, NoKey, p2, m2, "0.1"),
      Req(t1, infer, NoKey, p2, m2, "0.2") }
=============================================================================
