\* Direct Invoke, Hello, Discover, Heartbeat, Publish and Cancel requests on the HTTP,
\* WebSocket and gRPC bindings, and MCP calls through the adapter, under every AuthConfig.
CONSTANTS
    t1 = t1
    t2 = t2
    s1 = s1
    scoped = scoped
    open = open
    NoTenant = NoTenant
    Unknown = Unknown
    Tenants = {t1, t2}
    Scopes = {s1}
    CapScopes <- MCCapScopes
    Bindings = {"http", "ws", "grpc"}
    Configs <- MCConfigs
    Ops <- MCOps
    VersionLists <- MCVersionLists
    BindingLists <- MCBindingLists
    ProtoBindingLists <- MCProtoBindingLists
    Canon <- MCCanon
    Queries <- MCQueries
    Intervals = {0, 1000}
    PublishTopics <- MCPublishTopics
    Namespaced <- MCNamespaced
    CancelTargets <- MCCancelTargets
    ModeNames <- MCModeNames
    AdapterTenant = t2
    Tools <- MCTools
    ToolNames <- MCToolNames
    DefaultBinding = "http"
SPECIFICATION GatewaySpec
INVARIANTS TypeOK SameDecisionAsSpec DiscoverMatchesInvoke HelloSelectsAsSpec MCPTypeOK MCPRelaysBackendDecision
\* Each behaviour handles one request and then stops.
CHECK_DEADLOCK FALSE
