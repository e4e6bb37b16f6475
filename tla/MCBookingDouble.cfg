SPECIFICATION MCSpec
CONSTANTS
    u1 = u1
    u2 = u2
    s1 = s1
    s2 = s2
    s3 = s3
    r1 = r1
    r2 = r2
    e1 = e1
    NoUnit = NoUnit
    NoSession = NoSession
    Units <- MCUnits
    Sessions <- MCSessions
    Requests <- MCRequests
    Emails = {e1}
    Listing <- MCListing
    Mode <- MCMode
    EmailOf <- MCEmailOf
    Priced = {u1}
    SiteIsOwned = TRUE
    OperatorStatuses = {"cancelled"}
    MaxDeskCalls = 0
INVARIANT
    NoDoubleBooking
SYMMETRY Symmetry
CHECK_DEADLOCK FALSE
