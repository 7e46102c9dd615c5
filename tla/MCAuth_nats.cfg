\* Invoke requests on the NATS binding of a daemon started in jwt mode: do they get the admission spec 4.C4 prescribes?
CONSTANTS
    t1 = t1
    t2 = t2
    s1 = s1
    scoped = scoped
    open = open
    NoTenant = NoTenant
    Unknown = Unknown
    Tenants = {t1, t2}
    Scopes = {s1}
    CapScopes <- MCCapScopes
    Bindings = {"nats"}
    Configs <- MCJwtConfigs
    Ops <- MCOps
    VersionLists <- MCVersionLists
    BindingLists <- MCBindingLists
    ProtoBindingLists <- MCProtoBindingLists
    Canon <- MCCanon
    Queries <- MCQueries
    Intervals = {0, 1000}
    PublishTopics <- MCPublishTopics
    Namespaced <- MCNamespaced
    CancelTargets <- MCCancelTargets
    ModeNames <- MCModeNames
SPECIFICATION Spec
INVARIANTS SameDecisionAsSpec
\* Each behaviour handles one request and then stops.
CHECK_DEADLOCK FALSE
