SPECIFICATION Spec
CONSTANTS
    i1 = i1
    p1 = p1
    p2 = p2
    c1 = c1
    c2 = c2
    d1 = d1
    NoPayment = NoPayment
    NoInvoice = NoInvoice
    Invoices = {i1}
    Payments = {p1}
    InvoiceOf <- MCInvoiceOf
    Charged = {}
    Calls = {c1, c2}
    Clerks = {d1}
    MaxDeliveries = 2
    MaxClerkCalls = 1
    MaxCrashes = 0
INVARIANT
    WebhookIsIdempotent
SYMMETRY Symmetry
CHECK_DEADLOCK FALSE
