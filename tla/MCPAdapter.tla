----------------------------- MODULE MCPAdapter -----------------------------
(***************************************************************************)
(* The MCP adapter (adapters/mcp/server.go) in front of migd's HTTP        *)
(* binding.  The adapter is configured at start with an optional bearer    *)
(* token (--mig-token) and an optional tenant header (--tenant-id); every  *)
(* JSON-RPC call it serves is one HTTP request to migd, built by           *)
(* handleInitialize, handleToolsList or handleToolsCall and sent by        *)
(* postJSON, whose answer (or HTTP status) it relays.                      *)
(*                                                                         *)
(* The composition reuses AuthProjection's variables: a call that reaches  *)
(* migd sets req to the HTTP request postJSON sent and outcome to what     *)
(* migd's HTTP binding answered; call and rpc record the MCP call and its  *)
(* JSON-RPC answer.  Direct requests (AuthProjection's Next) and adapter   *)
(* calls are alternatives of one behaviour of one request.                 *)
(***************************************************************************)
EXTENDS AuthProjection

CONSTANTS
    AdapterTenant, \* "mcp-adapter", the tenant_id every envelope carries
    Tools,         \* the manifest's tool mappings: mcp_name -> mig_capability
    ToolNames,     \* tool names an MCP client may call, mapped or not
    DefaultBinding \* the manifest's default_binding

ASSUME AdapterTenant \in Tenants
ASSUME DOMAIN Tools \subseteq ToolNames /\ \A n \in DOMAIN Tools : Tools[n] \in CapIds
ASSUME <<DefaultBinding>> \in Seq(DOMAIN Canon)

VARIABLES
    call, \* the MCP call served: method, adapter configuration, tool name
    rpc   \* its answer: HTTP status, JSON-RPC error code (0: a result), tools listed

mcpVars == <<call, rpc>>
gatewayVars == <<cfg, req, outcome, call, rpc>>

\* SetBearerToken and SetTenantID (after TrimSpace, "" is unset): no token
\* or a bearer token, no tenant header or a tenant id.
AdapterConfigs == [token : Credentials, tenantID : TenantOpt]

NoTool == "none"
NoCall == [method |-> "none", adapter |-> [token |-> NoAuth, tenantID |-> NoTenant],
           tool |-> NoTool]
Answer(http, err, tools) == [http |-> http, error |-> err, tools |-> tools]
NoAnswer == Answer(0, 0, {})

\* The methods whose handler calls migd.
BackendMethods == {"initialize", "tools/list", "tools/call"}

-----------------------------------------------------------------------------
(* migd's HTTP binding.                                                    *)

\* The HTTP status migd answers request r with: authMiddleware writes
\* httpStatusForError's (403 when the message mentions "tenant", else 401);
\* a handler writes 403 when applyPrincipalHeader refuses; handleInvoke
\* writes 403 for MIG_FORBIDDEN, handleHello and handleDiscover 400 for any
\* service error; success is 200.
HTTPStatus(c, r) ==
    LET a == PrincipalOf(c, r)
        h == ApplyPrincipalHeader(r.env, a.p, r.hdr)
        o == Engine(a.p, h.tenant, r)
    IN IF ~a.ok THEN (IF a.msg \in AuthErrTenantMessages THEN 403 ELSE 401)
       ELSE IF h.code # "OK" THEN 403
       ELSE IF o.code = "OK" THEN 200
       ELSE IF r.op = "invoke" /\ o.code = "MIG_FORBIDDEN" THEN 403
       ELSE 400

-----------------------------------------------------------------------------
(* The adapter.                                                            *)

\* The HTTP request postJSON sends: Authorization when a token is set,
\* X-Tenant-ID when a tenant is set, and an envelope whose tenant_id is the
\* literal "mcp-adapter" whatever the configuration.
BackendRequest(a) ==
    [binding |-> "http", cred |-> a.token, hdr |-> a.tenantID,
     env |-> AdapterTenant, subj |-> AdapterTenant]

\* handleInitialize: a Hello for version 0.1 and the manifest's default binding.
HelloOf(a) == [op |-> "hello", versions |-> <<MIGVersion>>, wants |-> <<DefaultBinding>>]
              @@ BackendRequest(a)

\* handleToolsList: a Discover with no query.
DiscoverOf(a) == [op |-> "discover", query |-> ""] @@ BackendRequest(a)

\* handleToolsCall: an Invoke of the capability the tool maps to.
InvokeOfTool(a, n) == [op |-> "invoke", cap |-> Tools[n]] @@ BackendRequest(a)

\* Mutant: the HTTP status is passed on as the JSON-RPC error code.
PostJSONErrorStatusCode(status) == IF status >= 400 THEN status ELSE 0

\* Mutant: postJSON decodes the body whatever the status.
PostJSONErrorIgnoresStatus(status) == 0

\* postJSON: a status of 400 or more is rpcError -32603 "mig backend error".
PostJSONError(status) == IF status >= 400 THEN -32603 ELSE 0

\* postJSON sends r and the handler relays what migd answered; tools is the
\* result's tool list (handleToolsList), {} for the other methods.  When
\* client.Do fails (connection refused, or the 20 s client timeout) the
\* answer is -32011 "backend unavailable", whether or not migd handled r.
Relay(a, m, n, r, tools) ==
    /\ call' = [method |-> m, adapter |-> a, tool |-> n]
    /\ \/ /\ req' = r
          /\ outcome' = CodeOutcome(cfg, r)
          /\ LET err == PostJSONError(HTTPStatus(cfg, r))
             IN rpc' = Answer(200, err, IF err = 0 THEN tools ELSE {})
       \/ /\ \/ req' = r /\ outcome' = CodeOutcome(cfg, r)
             \/ UNCHANGED <<req, outcome>>
          /\ rpc' = Answer(200, -32011, {})
    /\ UNCHANGED cfg

\* No call served yet, no request handled.
Idle == call = NoCall /\ req = NoRequest

\* ServeHTTP's early answers: a method other than POST (405, -32600), a
\* body that does not decode (400, -32700), an unknown method (-32601).
Refuse(a) ==
    /\ \E e \in {Answer(405, -32600, {}), Answer(400, -32700, {}), Answer(200, -32601, {})} :
          rpc' = e
    /\ call' = [method |-> "other", adapter |-> a, tool |-> NoTool]
    /\ UNCHANGED <<cfg, req, outcome>>

Initialize(a) == Relay(a, "initialize", NoTool, HelloOf(a), {})

\* handleToolsList lists every tool of the manifest; the capabilities the
\* Discover response names are decoded and not used.
ToolsList(a) == Relay(a, "tools/list", NoTool, DiscoverOf(a), DOMAIN Tools)

\* handleToolsCall: params that do not decode are -32602; a name that the
\* manifest does not map is -32601 and nothing is sent.
ToolsCall(a, n) ==
    \/ /\ n \in DOMAIN Tools
       /\ Relay(a, "tools/call", n, InvokeOfTool(a, n), {})
    \/ /\ n \notin DOMAIN Tools
       /\ call' = [method |-> "tools/call", adapter |-> a, tool |-> n]
       /\ rpc' = Answer(200, -32601, {})
       /\ UNCHANGED <<cfg, req, outcome>>

InvalidParams(a) ==
    /\ call' = [method |-> "tools/call", adapter |-> a, tool |-> NoTool]
    /\ rpc' = Answer(200, -32602, {})
    /\ UNCHANGED <<cfg, req, outcome>>

\* One MCP call, served by an adapter started with configuration a.
Serve(a) ==
    \/ Refuse(a)
    \/ Initialize(a)
    \/ ToolsList(a)
    \/ \E n \in ToolNames : ToolsCall(a, n)
    \/ InvalidParams(a)

GatewayInit == Init /\ call = NoCall /\ rpc = NoAnswer

\* A direct client's request, or an MCP call through the adapter.
GatewayNext ==
    \/ call = NoCall /\ Next /\ UNCHANGED mcpVars
    \/ Idle /\ \E a \in AdapterConfigs : Serve(a)

GatewaySpec == GatewayInit /\ [][GatewayNext]_gatewayVars

-----------------------------------------------------------------------------
(* Properties.                                                             *)

MCPTypeOK ==
    /\ call = NoCall \/
       /\ call.method \in BackendMethods \cup {"other"}
       /\ call.adapter \in AdapterConfigs
       /\ call.tool \in ToolNames \cup {NoTool}
    /\ rpc \in [http : {0, 200, 400, 405}, tools : SUBSET DOMAIN Tools,
                error : {0, -32600, -32700, -32601, -32602, -32603, -32011}]

\* A call the adapter relayed to migd is answered with a result exactly when
\* spec 4.C4 admits the request postJSON sent, for the adapter's token,
\* tenant header and envelope: migd's HTTP binding answers every rejection,
\* from the middleware, applyPrincipalHeader or the operation, with a
\* status of 400 or more, and postJSON turns every such status into an
\* error, so the adapter neither hides a refusal nor reports a spurious one.
MCPRelaysBackendDecision ==
    call.method \in BackendMethods /\ req # NoRequest /\ rpc.error # -32011 =>
        (rpc.error = 0 <=> SpecOutcome(cfg, req).code = "OK")

\* The request a client configured like the adapter would send directly:
\* the same token and tenant header, and no tenant_id in the envelope, so
\* that migd takes it from the principal.
DirectOf(r) == [r EXCEPT !.env = NoTenant]

\* An adapter started with --mig-token or --tenant-id ("bearer token" and
\* "tenant header for MIG backend") is served exactly as spec 4.C4 serves a
\* client presenting that token and header: its calls succeed when such a
\* client's would.
MCPActsAsConfiguredClient ==
    /\ call.method \in BackendMethods /\ req # NoRequest /\ rpc.error # -32011
    /\ (call.adapter.token # NoAuth \/ call.adapter.tenantID # NoTenant)
    => (rpc.error = 0 <=> SpecOutcome(cfg, DirectOf(req)).code = "OK")

=============================================================================
