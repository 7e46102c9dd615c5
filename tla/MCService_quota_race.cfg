\* Two connections invoke for one tenant under a quota of one.
CONSTANTS
    c1 = c1
    c2 = c2
    t1 = t1
    t2 = t2
    infer = infer
    other = other
    sInfer = sInfer
    sOther = sOther
    m1 = m1
    m2 = m2
    k1 = k1
    p1 = p1
    p2 = p2
    NoKey = NoKey
    NoPayload = NoPayload
    Clients = {c1, c2}
    Tenants = {t1}
    CapIds = {infer, other}
    Scopes = {sInfer, sOther}
    Versions <- MCVersions
    MsgIds = {m1, m2}
    IdemKeys = {k1}
    Payloads = {p1, p2}
    QuotaValues <- MCQuotaValues
    ScopeChoices <- MCScopeChoices
    ClientPrincipal <- MCClientPrincipal
    InitCaps <- MCInitCaps
    Requests <- MCRequests
    MaxRequests = 2
SPECIFICATION Spec
PROPERTIES
    QuotaRespected
