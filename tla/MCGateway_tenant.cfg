\* MCP calls through an adapter started with --mig-token or --tenant-id: are they served as a client with that token and header would be?
CONSTANTS
    t1 = t1
    t2 = t2
    s1 = s1
    scoped = scoped
    open = open
    NoTenant = NoTenant
    Unknown = Unknown
    Tenants = {t1, t2}
    Scopes = {s1}
    CapScopes <- MCCapScopes
    Bindings = {"http", "ws", "grpc"}
    Configs <- MCConfigs
    Ops <- MCInvokeOnly
    VersionLists <- MCVersionLists
    BindingLists <- MCBindingLists
    ProtoBindingLists <- MCProtoBindingLists
    Canon <- MCCanon
    Queries <- MCQueries
    Intervals = {0, 1000}
    PublishTopics <- MCPublishTopics
    Namespaced <- MCNamespaced
    CancelTargets <- MCCancelTargets
    ModeNames <- MCModeNames
    AdapterTenant = t2
    Tools <- MCTools
    ToolNames <- MCToolNames
    DefaultBinding = "http"
SPECIFICATION GatewaySpec
INVARIANTS MCPActsAsConfiguredClient
\* Each behaviour handles one request and then stops.
CHECK_DEADLOCK FALSE
