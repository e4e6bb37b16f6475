SPECIFICATION Spec
CONSTANTS
    a1 = a1
    a2 = a2
    u1 = u1
    u2 = u2
    s1 = s1
    s2 = s2
    p1 = p1
    c1 = c1
    c2 = c2
    l1 = l1
    l2 = l2
    x1 = x1
    x2 = x2
    NoAgreement = NoAgreement
    NoJob = NoJob
    Agreements = {a1, a2}
    Tenants = {u1, u2}
    Lockers = {l1}
    MaxEvents = 2
    Persons = {1}
    SignCalls = {s1}
    Direct = {}
    PayCalls = {}
    Calls = {c1}
    Processes = {x1, x2}
    MaxAttempts = 2
    TenantOf <- MCTenantOf
    SignerOf <- MCSignerOf
    About <- MCAbout
    ProcessOf <- MCProcessOf
INVARIANTS
    OnlyDebtorsAreLockedOut
CHECK_DEADLOCK FALSE
