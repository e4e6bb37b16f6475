SPECIFICATION Spec
CONSTANTS
    i1 = i1
    p1 = p1
    p2 = p2
    c1 = c1
    c2 = c2
    d1 = d1
    NoPayment = NoPayment
    NoInvoice = NoInvoice
    Invoices = {i1}
    Payments = {p1, p2}
    InvoiceOf <- MCInvoiceOf
    Charged = {p2}
    Calls = {c1, c2}
    Clerks = {d1}
    MaxDeliveries = 2
    MaxClerkCalls = 2
    MaxCrashes = 0
INVARIANTS
    TypeOK
    MoneyFirst
    SettledIsBooked
    QuietIsIdempotent
    OnlyRacesUndo
SYMMETRY Symmetry
CHECK_DEADLOCK FALSE
