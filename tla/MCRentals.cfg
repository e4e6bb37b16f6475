SPECIFICATION FairSpec
CONSTANTS
    a1 = a1
    a2 = a2
    u1 = u1
    u2 = u2
    s1 = s1
    s2 = s2
    p1 = p1
    c1 = c1
    c2 = c2
    l1 = l1
    l2 = l2
    x1 = x1
    x2 = x2
    NoAgreement = NoAgreement
    NoJob = NoJob
    Agreements = {a1}
    Tenants = {u1}
    Lockers = {}
    MaxEvents = 1
    Persons = {1, 2}
    SignCalls = {s1}
    Direct = {}
    PayCalls = {p1}
    Calls = {c1, c2}
    Processes = {x1, x2}
    MaxAttempts = 2
    TenantOf <- MCTenantOf
    SignerOf <- MCSignerOf
    About <- MCAbout
    ProcessOf <- MCProcessOf
INVARIANTS
    TypeOK
    AccessIsEarned
PROPERTIES
    EarnedIsServed
CHECK_DEADLOCK FALSE
