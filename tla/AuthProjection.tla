--------------------------- MODULE AuthProjection ---------------------------
(***************************************************************************)
(* The auth projection of every binding, up to the scope gate of Invoke:   *)
(*   HTTP and WebSocket: authMiddleware -> PrincipalFromAuthHeaders, then  *)
(*     applyPrincipalHeader on the envelope (per frame for WebSocket);     *)
(*   gRPC (unary and streams): the interceptors -> principalFromGRPCContext *)
(*     -> PrincipalFromAuthHeaders, then applyPrincipalHeaderFromPrincipal;*)
(*   NATS: handleInvoke builds an unauthenticated principal from the       *)
(*     envelope tenant, defaulted from the subject's tenant token.         *)
(* then Normalize's tenant check and Principal.HasAnyScope.                *)
(*                                                                         *)
(* The daemon's AuthConfig is fixed at start (any of them); each step      *)
(* handles one invoke request and records the outcome, so the invariants   *)
(* compare the code's outcome with the one spec section 4.C4 prescribes.   *)
(***************************************************************************)
EXTENDS Integers, Sequences, FiniteSets, TLC

CONSTANTS
    Tenants,     \* tenant ids
    NoTenant,    \* the empty string (absent header, claim or envelope field)
    Unknown,     \* "unknown", what tenantFromRequest returns without a header
    Scopes,      \* scope names
    CapScopes,   \* capability -> its auth_scopes
    Bindings,    \* bindings the requests arrive on
    Configs,     \* the AuthConfigs the daemon may be started with
    Ops,         \* the operations requested: invoke, hello, discover, heartbeat
    VersionLists,\* supported_versions lists a Hello may carry
    BindingLists,\* requested_bindings lists a Hello may carry
    ProtoBindingLists,\* requested_bindings lists of a gRPC Hello (BindingType values)
    Canon,       \* raw binding name -> strings.ToLower(strings.TrimSpace(.))
    Queries,     \* Discover query -> the capability ids strings.Contains matches
    Intervals,   \* interval_ms values a Heartbeat may carry
    PublishTopics,\* topics a Publish may name ("" for none)
    Namespaced,  \* the topics among them that contain a "."
    CancelTargets,\* message ids a Cancel may name ("" for none)
    ModeNames    \* non-blank MIGD_AUTH_MODE value -> strings.ToLower(strings.TrimSpace(.))

ASSUME NoTenant \notin Tenants /\ Unknown \notin Tenants /\ Unknown # NoTenant
ASSUME Bindings \subseteq {"http", "ws", "grpc", "nats"}
ASSUME Ops \subseteq {"invoke", "hello", "discover", "heartbeat", "publish", "cancel"}
ASSUME Namespaced \subseteq PublishTopics \ {""}

CapIds == DOMAIN CapScopes
TenantOpt == Tenants \cup {NoTenant}

\* AuthConfig: mode and RequireTenant (MIGD_AUTH_MODE, MIGD_REQUIRE_TENANT_HEADER).
AuthConfigs == [mode : {"none", "jwt"}, requireTenant : BOOLEAN]
ASSUME Configs \subseteq AuthConfigs

\* envBool: strconv.ParseBool's spellings of true and false; a blank or
\* unparsable value gives the fallback (values are taken after TrimSpace).
ParseBoolTrue == {"1", "t", "T", "TRUE", "true", "True"}
ParseBoolFalse == {"0", "f", "F", "FALSE", "false", "False"}
EnvBool(value, fallback) ==
    IF value \in ParseBoolTrue THEN TRUE
    ELSE IF value \in ParseBoolFalse THEN FALSE
    ELSE fallback

\* ConfigFromEnv's AuthConfig, from MIGD_AUTH_MODE ("" when unset or blank,
\* then "none"), whether MIGD_JWT_HS256_SECRET is non-blank, and
\* MIGD_REQUIRE_TENANT_HEADER; an unsupported mode, or jwt without a
\* secret, is an error and migd exits (NoConfig).
NoConfig == [mode |-> "invalid"]
ConfigFromEnv(e) ==
    LET mode == IF e.authMode = "" THEN "none" ELSE ModeNames[e.authMode]
    IN IF mode = "jwt" /\ ~e.secret THEN NoConfig
       ELSE IF mode \notin {"none", "jwt"} THEN NoConfig
       ELSE [mode |-> mode, requireTenant |-> EnvBool(e.requireTenant, FALSE)]

\* The Authorization header: absent/not "Bearer ", or a bearer token.  A token
\* is valid when its HS256 signature verifies; it carries the claims tenant_id,
\* tenant and the union of scope and scopes.
NoAuth == [kind |-> "none"]
Tokens == [kind : {"bearer"}, valid : BOOLEAN, tenantId : TenantOpt,
           tenant : TenantOpt, scopes : SUBSET Scopes]
Credentials == {NoAuth} \cup Tokens

\* One request: operation, binding, credential, transport tenant header
\* (X-Tenant-ID / x-tenant-id), envelope tenant_id, NATS subject tenant
\* token, and the fields of its operation.
Base == [binding : Bindings, cred : Credentials, hdr : TenantOpt,
         env : TenantOpt, subj : Tenants]
OpRequests(op) ==
    CASE op = "invoke" ->
           [op : {op}, binding : Bindings, cred : Credentials, hdr : TenantOpt,
            env : TenantOpt, subj : Tenants, cap : CapIds]
      [] op = "hello" ->
           [op : {op}, binding : Bindings \ {"ws", "grpc"}, cred : Credentials,
            hdr : TenantOpt, env : TenantOpt, subj : Tenants,
            versions : VersionLists, wants : BindingLists]
           \cup [op : {op}, binding : Bindings \cap {"grpc"}, cred : Credentials,
                 hdr : TenantOpt, env : TenantOpt, subj : Tenants,
                 versions : VersionLists, wants : ProtoBindingLists]
      [] op = "discover" ->
           [op : {op}, binding : Bindings \ {"ws"}, cred : Credentials,
            hdr : TenantOpt, env : TenantOpt, subj : Tenants,
            query : DOMAIN Queries]
      [] op = "heartbeat" ->
           [op : {op}, binding : Bindings \ {"ws"}, cred : Credentials,
            hdr : TenantOpt, env : TenantOpt, subj : Tenants,
            interval : Intervals]
      \* arg is the body's topic or target_message_id; route the path
      \* segment (HTTP) or subject suffix (NATS), never empty.
      [] op = "publish" ->
           [op : {op}, binding : Bindings \ {"ws"}, cred : Credentials,
            hdr : TenantOpt, env : TenantOpt, subj : Tenants,
            arg : PublishTopics, route : PublishTopics \ {""}]
      [] op = "cancel" ->
           [op : {op}, binding : Bindings \ {"ws"}, cred : Credentials,
            hdr : TenantOpt, env : TenantOpt, subj : Tenants,
            arg : CancelTargets, route : CancelTargets \ {""}]
\* The WebSocket stream carries invoke frames only.
Requests == UNION {OpRequests(op) : op \in Ops}

Codes == {"OK", "MIG_UNAUTHORIZED", "MIG_FORBIDDEN", "MIG_INVALID_REQUEST",
          "MIG_VERSION_MISMATCH"}

MIGVersion == "0.1"
KnownBindings == {"grpc", "nats", "http"}
NoBinding == "none"

\* The BindingType values of the gRPC API that name a binding.
ProtoBindingNames == ("BINDING_TYPE_GRPC" :> "grpc") @@ ("BINDING_TYPE_NATS" :> "nats")
                     @@ ("BINDING_TYPE_HTTP" :> "http")

VARIABLES cfg, req, outcome
vars == <<cfg, req, outcome>>

-----------------------------------------------------------------------------
(* The code.                                                               *)

Principal(auth, tenant, scopes) == [authenticated |-> auth, tenant |-> tenant, scopes |-> scopes]
Fail(msg) == [ok |-> FALSE, msg |-> msg]
Pass(p) == [ok |-> TRUE, p |-> p]

\* The claim lookup: tenant_id, then tenant.
TokenTenant(tok) == IF tok.tenantId # NoTenant THEN tok.tenantId ELSE tok.tenant

\* PrincipalFromAuthHeaders: a principal, or an error message.
PrincipalFromAuthHeaders(c, cred, hdr) ==
    IF c.mode = "none"
    THEN IF c.requireTenant /\ hdr = NoTenant
           THEN Fail("tenant header is required")
           ELSE Pass(Principal(FALSE, hdr, {}))
    ELSE IF cred = NoAuth THEN Fail("missing bearer token")
         ELSE IF ~cred.valid THEN Fail("invalid bearer token")
         ELSE IF TokenTenant(cred) = NoTenant THEN Fail("token is missing tenant claim")
         ELSE IF c.requireTenant /\ hdr = NoTenant THEN Fail("tenant header is required")
         ELSE IF hdr # NoTenant /\ hdr # TokenTenant(cred) THEN Fail("tenant header does not match token tenant")
         ELSE Pass(Principal(TRUE, TokenTenant(cred), cred.scopes))

\* migCodeForAuthErr (and grpcStatusFromAuthErr): a message that mentions
\* "tenant" is MIG_FORBIDDEN, any other MIG_UNAUTHORIZED.
AuthErrTenantMessages == {"tenant header is required", "token is missing tenant claim",
                          "tenant header does not match token tenant"}
MigCodeForAuthErr(msg) ==
    IF msg \in AuthErrTenantMessages THEN "MIG_FORBIDDEN" ELSE "MIG_UNAUTHORIZED"

\* An answer: its code, the tenant it ran for, the fields of a Hello
\* (selected binding), Discover (listed capabilities) or Heartbeat
\* (suggested interval) response, and the gRPC status a gRPC client gets
\* ("none" on the other bindings).
Result(code, tenant) == [code |-> code, tenant |-> tenant, selected |-> NoBinding,
                         listed |-> {}, interval |-> 0, status |-> "none"]

\* grpcStatusFromAuthErr (the interceptors): a message that mentions
\* "tenant" (compared in lower case) is PermissionDenied, any other
\* Unauthenticated.
GRPCStatusFromAuthErr(msg) ==
    IF msg \in AuthErrTenantMessages THEN "PermissionDenied" ELSE "Unauthenticated"

\* grpcStatusFromMigError: the switch on the MIG code, Internal for any
\* other; no error is status OK.
GRPCCodeOf ==
    ("MIG_INVALID_REQUEST" :> "InvalidArgument") @@ ("MIG_UNAUTHORIZED" :> "Unauthenticated")
    @@ ("MIG_FORBIDDEN" :> "PermissionDenied") @@ ("MIG_NOT_FOUND" :> "NotFound")
    @@ ("MIG_UNSUPPORTED_CAPABILITY" :> "NotFound")
    @@ ("MIG_VERSION_MISMATCH" :> "FailedPrecondition") @@ ("MIG_TIMEOUT" :> "DeadlineExceeded")
    @@ ("MIG_RATE_LIMITED" :> "ResourceExhausted") @@ ("MIG_BACKPRESSURE" :> "ResourceExhausted")
    @@ ("MIG_UNAVAILABLE" :> "Unavailable") @@ ("MIG_INTERNAL" :> "Internal")
GRPCStatusFromMigError(code) ==
    IF code = "OK" THEN "OK"
    ELSE IF code \in DOMAIN GRPCCodeOf THEN GRPCCodeOf[code]
    ELSE "Internal"

\* Mutant: the envelope tenant is not compared with the principal's.
ApplyPrincipalHeaderNoTenantCheck(env, p, hdr) ==
    LET t == IF env # NoTenant THEN env
             ELSE IF p.tenant # NoTenant THEN p.tenant
             ELSE IF hdr # NoTenant THEN hdr
             ELSE Unknown
    IN IF t = Unknown THEN Result("MIG_INVALID_REQUEST", t)
       ELSE Result("OK", t)

\* applyPrincipalHeader (HTTP, WebSocket frames): the envelope tenant,
\* defaulted from the principal, then from the request's tenant header.
ApplyPrincipalHeader(env, p, hdr) ==
    LET t == IF env # NoTenant THEN env
             ELSE IF p.tenant # NoTenant THEN p.tenant
             ELSE IF hdr # NoTenant THEN hdr
             ELSE Unknown
    IN IF p.tenant # NoTenant /\ t # p.tenant THEN Result("MIG_FORBIDDEN", t)
       ELSE IF t = Unknown THEN Result("MIG_INVALID_REQUEST", t)
       ELSE Result("OK", t)

\* Mutant: a gRPC status name where the MIG code belongs.
ApplyPrincipalHeaderFromPrincipalStatus(env, p) ==
    LET t == IF env = NoTenant /\ p.tenant # NoTenant THEN p.tenant ELSE env
    IN IF p.tenant # NoTenant /\ t # p.tenant THEN Result("PERMISSION_DENIED", t)
       ELSE IF t = NoTenant THEN Result("MIG_INVALID_REQUEST", t)
       ELSE Result("OK", t)

\* applyPrincipalHeaderFromPrincipal (gRPC).
ApplyPrincipalHeaderFromPrincipal(env, p) ==
    LET t == IF env = NoTenant /\ p.tenant # NoTenant THEN p.tenant ELSE env
    IN IF p.tenant # NoTenant /\ t # p.tenant THEN Result("MIG_FORBIDDEN", t)
       ELSE IF t = NoTenant THEN Result("MIG_INVALID_REQUEST", t)
       ELSE Result("OK", t)

\* Principal.HasAnyScope.
HasAnyScope(p, required) ==
    ~p.authenticated \/ required = {} \/ p.scopes \cap required # {}

\* Invoke's checks that depend on the caller: Normalize rejects an empty
\* tenant_id, then the scope gate.
InvokeGate(p, t, cap) ==
    IF t = NoTenant THEN Result("MIG_INVALID_REQUEST", t)
    ELSE IF ~HasAnyScope(p, CapScopes[cap]) THEN Result("MIG_FORBIDDEN", t)
    ELSE Result("OK", t)

\* A variant of FirstKnown whose loop does not stop at the first match (a
\* break inside the switch leaves only the switch).
RECURSIVE FirstKnownNoBreak(_)
FirstKnownNoBreak(bs) ==
    IF bs = <<>> THEN "http"
    ELSE LET rest == FirstKnownNoBreak(Tail(bs))
         IN IF rest # "http" \/ Canon[Head(bs)] \notin KnownBindings
              THEN rest ELSE Canon[Head(bs)]

\* Hello's requested_bindings loop: the first name that canonicalises to
\* grpc, nats or http (goto selected), else "http".
RECURSIVE FirstKnown(_)
FirstKnown(bs) ==
    IF bs = <<>> THEN "http"
    ELSE IF Canon[Head(bs)] \in KnownBindings THEN Canon[Head(bs)]
    ELSE FirstKnown(Tail(bs))

\* Service.Hello after Normalize: an empty supported_versions list means
\* ["0.1"]; one entry must be "0.1" (the entries carry no surrounding
\* spaces, so TrimSpace leaves them as they are).
HelloOutcome(t, r) ==
    LET vs == IF r.versions = <<>> THEN <<MIGVersion>> ELSE r.versions
    IN IF \A i \in DOMAIN vs : vs[i] # MIGVersion
         THEN Result("MIG_VERSION_MISMATCH", t)
         ELSE [Result("OK", t) EXCEPT !.selected = FirstKnown(r.wants)]

\* A variant of DiscoverList without the scope filter.
DiscoverListNoScope(p, q) == Queries[q]

\* Service.Discover's loop under RLock: the capabilities whose id contains
\* the query and whose auth_scopes the principal satisfies (the result is
\* then sorted by id; the order is not modelled).
DiscoverList(p, q) == {k \in Queries[q] : HasAnyScope(p, CapScopes[k])}

\* Service.Heartbeat after Normalize: a non-positive interval becomes 5000.
HeartbeatOutcome(t, r) ==
    [Result("OK", t) EXCEPT !.interval = IF r.interval <= 0 THEN 5000 ELSE r.interval]

\* NATS handlePublish and handleCancel: the body's topic or target, else
\* the one the subject names.
NATSArg(r) == IF r.arg # "" THEN r.arg ELSE r.route

\* The topic or message id the handler passes to Publish or Cancel (the
\* path segment on HTTP, the body field on gRPC), and the service's fallback
\* to the body field when that is empty.
ArgOf(r) ==
    LET passed == CASE r.binding = "http" -> r.route
                    [] r.binding = "grpc" -> r.arg
                    [] r.binding = "nats" -> NATSArg(r)
    IN IF passed # "" THEN passed ELSE r.arg

\* Service.Publish after Normalize: the topic is required and namespaced.
PublishOutcome(t, topic) ==
    IF topic = "" \/ topic \notin Namespaced THEN Result("MIG_INVALID_REQUEST", t)
    ELSE Result("OK", t)

\* Service.Cancel after Normalize: the target message id is required.
CancelOutcome(t, target) ==
    IF target = "" THEN Result("MIG_INVALID_REQUEST", t) ELSE Result("OK", t)

\* The operation the handler calls once the envelope carries tenant t;
\* Normalize rejects an empty tenant_id first.
Engine(p, t, r) ==
    IF r.op = "invoke" THEN InvokeGate(p, t, r.cap)
    ELSE IF t = NoTenant THEN Result("MIG_INVALID_REQUEST", t)
    ELSE IF r.op = "hello" THEN HelloOutcome(t, r)
    ELSE IF r.op = "discover" THEN [Result("OK", t) EXCEPT !.listed = DiscoverList(p, r.query)]
    ELSE IF r.op = "publish" THEN PublishOutcome(t, ArgOf(r))
    ELSE IF r.op = "cancel" THEN CancelOutcome(t, ArgOf(r))
    ELSE HeartbeatOutcome(t, r)

\* A NATS handler's tenant: the envelope's tenant_id, else the subject's
\* tenant token (subjectToken(subject, 2); the subscriptions' "*" makes it
\* non-empty).
NATSTenant(r) == IF r.env # NoTenant THEN r.env ELSE r.subj

\* The NATS handlers (hello, discover, invoke, heartbeat): the envelope
\* tenant, defaulted from the subject's tenant token; discover and invoke
\* pass a principal that is not authenticated.
NATSFrontEnd(r) ==
    LET t == NATSTenant(r)
    IN Engine(Principal(FALSE, t, {}), t, r)

\* The principal the HTTP middleware (Authorization, X-Tenant-ID) or the
\* gRPC interceptors (metadata authorization, x-tenant-id) put in the
\* request context: both call PrincipalFromAuthHeaders.
PrincipalOf(c, r) == PrincipalFromAuthHeaders(c, r.cred, r.hdr)

\* The HTTP handlers (and the WebSocket invoke frame): applyPrincipalHeader
\* on the envelope, then the operation with the context's principal.
HTTPHandler(r, p) ==
    LET h == ApplyPrincipalHeader(r.env, p, r.hdr)
    IN IF h.code # "OK" THEN h ELSE Engine(p, h.tenant, r)

\* bindingTypeFromProto: GRPC, NATS and HTTP name their binding, any other
\* value (UNSPECIFIED, or a number the enum does not define) is "".
BindingTypeFromProto(b) ==
    IF b \in DOMAIN ProtoBindingNames THEN ProtoBindingNames[b] ELSE ""

\* bindingTypeToProto on the (canonical) selected binding.
BindingTypeToProto(name) ==
    IF \E b \in DOMAIN ProtoBindingNames : ProtoBindingNames[b] = name
    THEN CHOOSE b \in DOMAIN ProtoBindingNames : ProtoBindingNames[b] = name
    ELSE "BINDING_TYPE_UNSPECIFIED"

\* The gRPC unary handlers: the request converted from its proto
\* (bindingTypesFromProto for a Hello's requested_bindings),
\* applyPrincipalHeaderFromPrincipal, the operation with the interceptor's
\* principal, and the answer converted back (the selected binding as a
\* BindingType, the error as a status).
GRPCHandler(r, p) ==
    LET in == IF r.op = "hello"
                THEN [r EXCEPT !.wants = [i \in DOMAIN r.wants |-> BindingTypeFromProto(r.wants[i])]]
                ELSE r
        h == ApplyPrincipalHeaderFromPrincipal(r.env, p)
        o == IF h.code # "OK" THEN h ELSE Engine(p, h.tenant, in)
    IN [o EXCEPT !.status = GRPCStatusFromMigError(o.code),
                 !.selected = IF @ = NoBinding THEN @ ELSE BindingTypeToProto(@)]

\* The outcome of one request as the code computes it: an auth error ends
\* the request before the handler runs.
CodeOutcome(c, r) ==
    IF r.binding = "nats"
    THEN NATSFrontEnd(r)
    ELSE LET a == PrincipalOf(c, r)
         IN IF ~a.ok /\ r.binding = "grpc"
              THEN [Result(MigCodeForAuthErr(a.msg), NoTenant)
                      EXCEPT !.status = GRPCStatusFromAuthErr(a.msg)]
            ELSE IF ~a.ok THEN Result(MigCodeForAuthErr(a.msg), NoTenant)
                     ELSE IF r.binding = "grpc" THEN GRPCHandler(r, a.p)
                     ELSE HTTPHandler(r, a.p)

-----------------------------------------------------------------------------
(* The reference: spec section 4.C4.  The transport tenant is the tenant   *)
(* header, or the subject token for NATS.  In jwt mode a valid HS256 bearer *)
(* token is required and its tenant claim (tenant_id, then tenant) is the  *)
(* principal's tenant, absent -> unauthorized; a transport tenant must     *)
(* equal it, else forbidden.  In none mode the principal's tenant is the   *)
(* transport tenant.  An empty envelope tenant_id is taken from the        *)
(* principal, a different one is forbidden; no tenant at all is invalid.   *)
(* Scopes gate authenticated callers only.                                 *)

TransportTenant(r) == IF r.binding = "nats" THEN r.subj ELSE r.hdr
HasBearer(r) == r.binding # "nats" /\ r.cred # NoAuth

\* Spec 4.C3 hello: "0.1" must be among supported_versions, an empty list
\* standing for ["0.1"]; the selected binding is the first requested one
\* matching {http, grpc, nats} (compared as canonical names), else http.
SpecCompatible(r) ==
    r.versions = <<>> \/ \E i \in DOMAIN r.versions : r.versions[i] = MIGVersion
SpecSelect(wants) ==
    LET m == SelectSeq(wants, LAMBDA b : Canon[b] \in KnownBindings)
    IN IF m = <<>> THEN "http" ELSE Canon[Head(m)]

\* Spec 4.C7: over gRPC both the requested and the selected binding are
\* BindingType values; the selection is the first value that names http,
\* grpc or nats, else the value of http.
SpecProtoBinding == ("grpc" :> "BINDING_TYPE_GRPC") @@ ("nats" :> "BINDING_TYPE_NATS")
                    @@ ("http" :> "BINDING_TYPE_HTTP")
SpecSelectProto(wants) ==
    LET m == SelectSeq(wants, LAMBDA e : \E b \in KnownBindings : SpecProtoBinding[b] = e)
    IN IF m = <<>> THEN SpecProtoBinding["http"] ELSE Head(m)

\* Spec 4.C3 publish and cancel: the topic (message id) is the one the
\* request names on its route (section 6), and a topic without a "." or a
\* cancel without a message id is a shape error, MIG_INVALID_REQUEST
\* (section 5: argument and shape errors surface immediately).
SpecOutcome(c, r) ==
    LET tt == TransportTenant(r)
        pt == IF c.mode = "jwt" THEN TokenTenant(r.cred) ELSE tt
        t  == IF r.env # NoTenant THEN r.env ELSE pt
        ok == IF c.mode = "jwt" /\ r.op = "invoke"
                THEN r.cred.scopes \cap CapScopes[r.cap] # {} \/ CapScopes[r.cap] = {}
                ELSE TRUE
    IN IF c.mode = "jwt" /\ ~HasBearer(r) THEN Result("MIG_UNAUTHORIZED", NoTenant)
       ELSE IF c.mode = "jwt" /\ ~r.cred.valid THEN Result("MIG_UNAUTHORIZED", NoTenant)
       ELSE IF c.mode = "jwt" /\ pt = NoTenant THEN Result("MIG_UNAUTHORIZED", NoTenant)
       ELSE IF c.requireTenant /\ tt = NoTenant THEN Result("MIG_FORBIDDEN", NoTenant)
       ELSE IF c.mode = "jwt" /\ tt # NoTenant /\ tt # pt THEN Result("MIG_FORBIDDEN", NoTenant)
       ELSE IF pt # NoTenant /\ t # pt THEN Result("MIG_FORBIDDEN", t)
       ELSE IF t = NoTenant THEN Result("MIG_INVALID_REQUEST", t)
       ELSE IF ~ok THEN Result("MIG_FORBIDDEN", t)
       ELSE IF r.op = "hello" /\ ~SpecCompatible(r) THEN Result("MIG_VERSION_MISMATCH", t)
       ELSE IF r.op = "publish" /\ ArgOf(r) \notin Namespaced THEN Result("MIG_INVALID_REQUEST", t)
       ELSE IF r.op = "cancel" /\ ArgOf(r) = "" THEN Result("MIG_INVALID_REQUEST", t)
       ELSE Result("OK", t)

-----------------------------------------------------------------------------
\* Before the first request.
NoRequest == [binding |-> "none"]

Init ==
    /\ cfg \in Configs
    /\ req = NoRequest
    /\ outcome = Result("MIG_INVALID_REQUEST", NoTenant)

\* A request arrives on its binding and is projected and gated.  The
\* projection reads no shared state, so one request per behaviour covers
\* every case; a behaviour ends after it.
Handle(r) ==
    /\ req = NoRequest
    /\ req' = r
    /\ outcome' = CodeOutcome(cfg, r)
    /\ UNCHANGED cfg

Next == req = NoRequest /\ \E r \in Requests : Handle(r)

Spec == Init /\ [][Next]_vars

-----------------------------------------------------------------------------
(* Properties.                                                             *)

TypeOK ==
    /\ cfg \in AuthConfigs
    /\ req = NoRequest \/
       /\ req.op \in Ops
       /\ [binding |-> req.binding, cred |-> req.cred, hdr |-> req.hdr,
           env |-> req.env, subj |-> req.subj] \in Base
    /\ outcome \in [code : Codes, tenant : TenantOpt \cup {Unknown},
                   selected : KnownBindings \cup {NoBinding, "BINDING_TYPE_UNSPECIFIED"}
                              \cup DOMAIN ProtoBindingNames,
                   listed : SUBSET CapIds, interval : Nat,
                   status : {GRPCCodeOf[k] : k \in DOMAIN GRPCCodeOf} \cup {"OK", "none"}]

\* Every binding admits a request exactly when spec 4.C4 does, and runs it
\* for the tenant the spec says: a request reaches the engine only with the
\* token's tenant and scopes in jwt mode, and only for its transport tenant
\* in none mode, whichever of the principal, the envelope and the transport
\* headers supply the tenant.
SameDecisionAsSpec ==
    req # NoRequest =>
        /\ (outcome.code = "OK") <=> (SpecOutcome(cfg, req).code = "OK")
        /\ outcome.code = "OK" => outcome.tenant = SpecOutcome(cfg, req).tenant

\* The invoke request a caller would send instead of request r: the same
\* binding, credential and tenants, for capability k.
InvokeOf(r, k) == [binding |-> r.binding, cred |-> r.cred, hdr |-> r.hdr,
                   env |-> r.env, subj |-> r.subj, op |-> "invoke", cap |-> k]

\* Discover lists to a caller exactly the capabilities matching its query
\* that the same caller, on the same binding, would be allowed to invoke:
\* no capability is advertised and then refused for scope, none is hidden
\* that could be invoked. It ties Discover's filter to the projection and
\* scope gate of Invoke on every binding.
DiscoverMatchesInvoke ==
    req # NoRequest /\ req.op = "discover" /\ outcome.code = "OK" =>
        outcome.listed =
            {k \in Queries[req.query] : CodeOutcome(cfg, InvokeOf(req, k)).code = "OK"}

\* An admitted Hello selects the binding spec 4.C3 prescribes: the first
\* requested binding among http, grpc and nats, http when there is none;
\* on gRPC, where bindings travel as BindingType values both ways, the
\* first value naming one of them.
HelloSelectsAsSpec ==
    req # NoRequest /\ req.op = "hello" /\ outcome.code = "OK" =>
        outcome.selected = IF req.binding = "grpc" THEN SpecSelectProto(req.wants)
                           ELSE SpecSelect(req.wants)

=============================================================================
