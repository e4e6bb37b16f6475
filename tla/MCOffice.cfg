SPECIFICATION Spec
CONSTANTS
    a1 = a1
    a2 = a2
    a3 = a3
    o1 = o1
    o2 = o2
    r1 = r1
    r2 = r2
    i1 = i1
    i2 = i2
    p1 = p1
    p2 = p2
    p3 = p3
    e1 = e1
    e2 = e2
    v1 = v1
    v2 = v2
    n1 = n1
    x1 = x1
    Agreements = {a1, a2, a3}
    Organisations = {o1, o2}
    OrganisationOf <- MCOrganisationOf
    ScopeOf <- MCScopeOf
    EmailOf <- MCEmailOf
    BodyOf <- MCBodyOf
    ServerOf <- MCServerOf
    Legacy = {a2}
    Runs = {r1, r2}
    MaxInvoiceEvents = 4
    NoAgreement = NoAgreement
    Desks = {1, 2}
    MaxUnitEvents = 5
    Owners = {e1, e2}
    Staff = {n1}
    Invitations = {i1, i2}
    Requests = {1, 2}
    MaxTeamEvents = 6
    Nobody = Nobody
    Posts = {p1, p2, p3}
    Servers = {v1, v2}
    MaxFailures = 3
    NoPost = NoPost
    Incidents = {i1}
    Inspections = {x1}
    Clerks = {1, 2}
    MaxFindings = 2
    MaxTaskEvents = 5
    Nothing = Nothing
    Editors = {1, 2}
    Images = {g1, g2}
    Limits = {1, 2}
    FreeLimit = 1
    Documents = {d1, d2, d3}
    MaxCatalogEvents = 5
    NoDocument = NoDocument
    g1 = g1
    g2 = g2
    d1 = d1
    d2 = d2
    d3 = d3
INVARIANTS
    TypeOK
    BilledOnce
    NumbersHaveNoGaps
    HistoryExplainsStatus
    SomeOwner
    InvitationsAgree
    OneBodyPerKey
    SucceedsOnce
    TasksAgree
    CatalogAgrees
PROPERTY TransitionsAreAllowed
CHECK_DEADLOCK FALSE
