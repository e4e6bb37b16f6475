SPECIFICATION Spec
CONSTANTS
    f1 = f1
    f2 = f2
    None = None
    Plans = {"starter", "professional"}
    Paid = {1, 2}
    PlanOf <- MCPlanOf
    Free = {f1, f2}
    Registered = f1
    Charges = {11, 12}
    MaxWorkers = 2
    MaxEvents = 3
INVARIANTS
    TypeOK
    PlanIsPaidFor
    OneCurrent
    FreeIsFree
    PeriodsAreDistinct
    AnsweredIsBooked
CHECK_DEADLOCK FALSE
