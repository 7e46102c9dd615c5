\* Admin routes of a tenant-bound caller against invoke commits and connection churn.
CONSTANTS
    acme = acme  operator = operator
    t1 = t1  t2 = t2  o1 = o1  o2 = o2  g1 = g1  cn1 = cn1
    boot = boot  k2 = k2  none = none
    Callers = {acme}
    BoundTenant <- MCBoundTenant
    TenantIds = {t1, t2}
    OrgIds = {o1, o2}
    GatewayIds = {g1}
    ConnIds = {cn1}
    CapIds = {boot, k2}
    Bootstrap = boot
    NoId = none
    MaxQuota = 1
    MaxAudit = 2
SPECIFICATION Spec
INVARIANTS TypeOK 
