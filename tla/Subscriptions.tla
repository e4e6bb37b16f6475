---------------------------- MODULE Subscriptions ----------------------------
(***************************************************************************)
(* What one organisation pays the platform (subscriptions.service.ts): the *)
(* rows of its subscriptions, the checkout that opens a paid one, the      *)
(* webhooks of Mollie, which bring first payments and recurring charges to *)
(* the rows, and the way back to the free plan.  Mollie repeats a call     *)
(* until it is answered, calls also when nothing is new, and goes on       *)
(* charging for every standing order that nobody has cancelled.            *)
(*                                                                         *)
(* Every request is a sequence of statements that other requests may come  *)
(* between; a worker is a place for one, and a request takes the first     *)
(* that is free.  A first payment bears the name of its row; time is       *)
(* counted in periods.                                                     *)
(***************************************************************************)
EXTENDS Integers, Sequences, FiniteSets

CONSTANTS
    Plans,       \* the plans that cost something
    Paid,        \* rows that checkouts may create, numbered in this order
    PlanOf,      \* their plans
    Free,        \* rows of the free plan
    Registered,  \* the one that the registration of the organisation created
    Charges,     \* payments that Mollie makes for standing orders, numbered likewise
    MaxWorkers,  \* bound: requests at the same time
    MaxEvents,   \* bound: checkouts, downgrades, charges, stops, and deliveries nobody owes
    None

ASSUME NumbersAssumption == Paid \cup Charges \subseteq Nat
ASSUME PlanOfAssumption == PlanOf \in [Paid -> Plans] /\ "free" \notin Plans
ASSUME RegisteredAssumption == Registered \in Free
ASSUME NamesAssumption == Paid \cap Free = {} /\ Charges \cap (Paid \cup Free) = {}
ASSUME NoneAssumption == None \notin Paid \cup Free \cup Charges
ASSUME BoundsAssumption == MaxEvents \in Nat /\ MaxWorkers \in Nat

Workers == 1..MaxWorkers

Rows == Paid \cup Free
Payments == Paid \cup Charges

VARIABLES
    status,    \* of each row
    born,      \* rows in the order of their creation
    payId,     \* providerPaymentId of each row
    orderId,   \* the standing order that the row names: none, live or cancelled
    end,       \* currentPeriodEnd of each row
    invoices,  \* SubscriptionInvoice rows
    plan,      \* organisation.plan
    (* Mollie *)
    pay,       \* status of each payment
    standing,  \* number of standing orders of each row
    chargeOf,  \* the row each charge is for
    due,       \* payments with a webhook call that has not been answered
    (* requests *)
    pc, on, about, saw, was, until, old,
    (* history and bound *)
    slips,     \* what went wrong so far
    events

rowVars == <<status, born, payId, orderId, end>>
mollieVars == <<pay, standing, chargeOf, due>>
workVars == <<pc, on, about, saw, was, until, old>>
historyVars == <<slips, events>>
vars == <<rowVars, invoices, plan, mollieVars, workVars, historyVars>>

PaymentStatus == {"open", "paid", "failed"}
RowStatus == {"pending_payment", "active", "past_due", "payment_failed", "replaced"}
ASSUME StatusAssumption == None \notin PaymentStatus \cup RowStatus

Current == {r \in Rows : status[r] \in {"active", "past_due"}}

Positions == {"idle", "find", "note", "book", "settle", "order", "replace", "activate", "plan",
              "look", "enter", "renew",
              "drop", "open", "bill", "link", "store", "stamp",
              "cancel", "leave", "start", "down"}

(* The key of an invoice is what it was made for: the row of a first one, else the payment. *)
Invoice == [kind : {"start", "cycle"}, key : Rows \cup Payments, row : Rows, payment : Payments \cup {None},
            status : PaymentStatus, end : Nat]
ASSUME NotAnInvoice == None \notin Invoice

TypeOK ==
    /\ status \in [Rows -> RowStatus \cup {None}]
    /\ born \in Seq(Rows)
    /\ payId \in [Rows -> Payments \cup {None}]
    /\ orderId \in [Rows -> {"none", "live", "cancelled"}]
    /\ end \in [Rows -> Nat]
    /\ invoices \subseteq Invoice
    /\ plan \in Plans \cup {"free"}
    /\ pay \in [Payments -> PaymentStatus \cup {None}]
    /\ standing \in [Rows -> Nat]
    /\ chargeOf \in [Charges -> Rows \cup {None}]
    /\ due \in SUBSET Payments
    /\ pc \in [Workers -> Positions]
    /\ on \in [Workers -> Payments \cup {None}]
    /\ about \in [Workers -> Rows \cup {None}]
    /\ saw \in [Workers -> PaymentStatus]
    /\ was \in [Workers -> RowStatus]
    /\ until \in [Workers -> Nat]
    /\ old \in [Workers -> Invoice \cup {None}]
    /\ slips \subseteq {"torn", "overlap", "revived", "upgrade", "crowded", "overtaken"}
    /\ events \in 0..MaxEvents

Init ==
    /\ status = [r \in Rows |-> IF r = Registered THEN "active" ELSE None]
    /\ born = <<Registered>>
    /\ payId = [r \in Rows |-> None]
    /\ orderId = [r \in Rows |-> "none"]
    /\ end = [r \in Rows |-> 1]
    /\ invoices = {}
    /\ plan = "free"
    /\ pay = [p \in Payments |-> None]
    /\ standing = [r \in Rows |-> 0]
    /\ chargeOf = [c \in Charges |-> None]
    /\ due = {}
    /\ pc = [w \in Workers |-> "idle"]
    /\ on = [w \in Workers |-> None]
    /\ about = [w \in Workers |-> None]
    /\ saw = [w \in Workers |-> "open"]
    /\ was = [w \in Workers |-> "active"]
    /\ until = [w \in Workers |-> 0]
    /\ old = [w \in Workers |-> None]
    /\ slips = {} /\ events = 0

Happens == events < MaxEvents /\ events' = events + 1

Goto(w, where) == pc' = [pc EXCEPT ![w] = where] /\ UNCHANGED <<on, about, saw, was, until, old>>

Takes(w) == pc[w] = "idle" /\ \A v \in 1..w - 1 : pc[v] # "idle"

Rest(w) ==
    /\ pc' = [pc EXCEPT ![w] = "idle"]
    /\ on' = [on EXCEPT ![w] = None]
    /\ about' = [about EXCEPT ![w] = None]
    /\ saw' = [saw EXCEPT ![w] = "open"]
    /\ was' = [was EXCEPT ![w] = "active"]
    /\ until' = [until EXCEPT ![w] = 0]
    /\ old' = [old EXCEPT ![w] = None]

(* The webhook is answered; Mollie is content if it told the last status. *)
Answer(w) ==
    /\ Rest(w)
    /\ due' = IF saw[w] = pay[on[w]] THEN due \ {on[w]} ELSE due
    /\ UNCHANGED <<pay, standing, chargeOf>>

Slip(s) == slips' = slips \cup s /\ UNCHANGED events

(* A row that has been replaced comes back. *)
Revival(r, s) == IF status[r] = "replaced" /\ s # "replaced" THEN {"revived"} ELSE {}

(* Positions from which a request will change which row is current, having read what it acts on. *)
Switching == {"note", "book", "settle", "order", "replace", "activate", "plan", "cancel", "leave", "start", "down"}
Overlap(w) == IF \E v \in Workers \ {w} : pc[v] \in Switching THEN {"overlap"} ELSE {}

Unused(r) == status[r] = None /\ \A v \in Workers : about[v] # r

SetStatus(rows, s) == status' = [r \in Rows |-> IF r \in rows THEN s ELSE status[r]]

-----------------------------------------------------------------------------
(***************************************************************************)
(* createCheckout of a paid plan.                                          *)
(***************************************************************************)
Checkout(w, r) ==
    /\ Takes(w) /\ Unused(r) /\ \A q \in Paid : q < r => ~Unused(q)
    /\ Happens
    /\ pc' = [pc EXCEPT ![w] = "drop"]
    /\ about' = [about EXCEPT ![w] = r]
    /\ UNCHANGED <<rowVars, invoices, plan, mollieVars, on, saw, was, until, old, slips>>

DropPending(w) ==
    /\ pc[w] = "drop"
    /\ SetStatus({r \in Rows : status[r] = "pending_payment"}, "replaced")
    /\ Goto(w, "open")
    /\ UNCHANGED <<born, payId, orderId, end, invoices, plan, mollieVars, historyVars>>

OpenRow(w) ==
    /\ pc[w] = "open"
    /\ SetStatus({about[w]}, "pending_payment")
    /\ born' = Append(born, about[w])
    /\ Goto(w, "bill")
    /\ UNCHANGED <<payId, orderId, end, invoices, plan, mollieVars, historyVars>>

BillFirst(w) ==
    /\ pc[w] = "bill"
    /\ invoices' = invoices \cup {[kind |-> "start", key |-> about[w], row |-> about[w], payment |-> None,
                                   status |-> "open", end |-> end[about[w]]]}
    /\ Goto(w, "link")
    /\ UNCHANGED <<rowVars, plan, mollieVars, historyVars>>

Link(w) ==
    /\ pc[w] = "link"
    /\ pay' = [pay EXCEPT ![about[w]] = "open"]
    /\ Goto(w, "store")
    /\ UNCHANGED <<rowVars, invoices, plan, standing, chargeOf, due, historyVars>>

StoreLink(w) ==
    /\ pc[w] = "store"
    /\ payId' = [payId EXCEPT ![about[w]] = about[w]]
    /\ Goto(w, "stamp")
    /\ UNCHANGED <<status, born, orderId, end, invoices, plan, mollieVars, historyVars>>

StampInvoice(w) ==
    LET mine == {i \in invoices : i.kind = "start" /\ i.row = about[w]}
        taken == \E i \in invoices \ mine : i.payment = about[w]
    IN  /\ pc[w] = "stamp"
        /\ invoices' = IF taken THEN invoices
                       ELSE (invoices \ mine) \cup {[i EXCEPT !.payment = about[w]] : i \in mine}
        /\ Rest(w)
        /\ UNCHANGED <<rowVars, plan, mollieVars, historyVars>>

(***************************************************************************)
(* activateFree.                                                           *)
(***************************************************************************)
Downgrade(w, f) ==
    /\ Takes(w) /\ Unused(f)
    /\ Happens
    /\ pc' = [pc EXCEPT ![w] = "cancel"]
    /\ about' = [about EXCEPT ![w] = f]
    /\ slips' = slips \cup Overlap(w)
    /\ UNCHANGED <<rowVars, invoices, plan, mollieVars, on, saw, was, until, old>>

(* getCurrent: the youngest of the current rows. *)
IsLatest(r) ==
    \E i \in DOMAIN born : born[i] = r /\ r \in Current /\ \A j \in i + 1..Len(born) : born[j] \notin Current

(* Faulty variant: the standing order is left alone. *)
CancelOrder_Omitted(w) ==
    /\ pc[w] = "cancel"
    /\ Goto(w, "leave")
    /\ UNCHANGED <<rowVars, invoices, plan, mollieVars, historyVars>>

(* Mollie refuses to cancel an order twice. *)
CancelOrder(w) ==
    LET named == {r \in Rows : IsLatest(r) /\ orderId[r] # "none"}
    IN  /\ pc[w] = "cancel"
        /\ IF \E r \in named : orderId[r] = "cancelled"
           THEN Rest(w) /\ UNCHANGED <<orderId, standing>>
           ELSE /\ Goto(w, "leave")
                /\ orderId' = [r \in Rows |-> IF r \in named THEN "cancelled" ELSE orderId[r]]
                /\ standing' = [r \in Rows |-> IF r \in named THEN standing[r] - 1 ELSE standing[r]]
        /\ UNCHANGED <<status, born, payId, end, invoices, plan, pay, chargeOf, due, historyVars>>

LeavePlan(w) ==
    /\ pc[w] = "leave"
    /\ SetStatus(Current, "replaced")
    /\ Goto(w, "start")
    /\ UNCHANGED <<born, payId, orderId, end, invoices, plan, mollieVars, historyVars>>

StartFree(w) ==
    /\ pc[w] = "start"
    /\ SetStatus({about[w]}, "active")
    /\ born' = Append(born, about[w])
    /\ Goto(w, "down")
    /\ UNCHANGED <<payId, orderId, end, invoices, plan, mollieVars, historyVars>>

SetFree(w) ==
    /\ pc[w] = "down"
    /\ plan' = "free"
    /\ Rest(w)
    /\ UNCHANGED <<rowVars, invoices, mollieVars, historyVars>>

-----------------------------------------------------------------------------
(***************************************************************************)
(* handlePaymentWebhook, also called by reconcileCheckout with the first   *)
(* payment of the pending row.  It asks Mollie for the status first.       *)
(***************************************************************************)
Receive(w, p) ==
    /\ Takes(w) /\ pay[p] # None
    /\ pc' = [pc EXCEPT ![w] = "find"]
    /\ on' = [on EXCEPT ![w] = p]
    /\ saw' = [saw EXCEPT ![w] = pay[p]]
    /\ UNCHANGED <<rowVars, invoices, plan, mollieVars, about, was, until, old>>

Deliver(w, p) == p \in due /\ Receive(w, p) /\ UNCHANGED historyVars

Redeliver(w, p) == p \notin due /\ Happens /\ Receive(w, p) /\ UNCHANGED slips

Reconcile(w) ==
    /\ Happens
    /\ \E r \in Rows : status[r] = "pending_payment" /\ payId[r] # None /\ Receive(w, payId[r])
    /\ UNCHANGED slips

(* The row that a payment's metadata names. *)
Named(p) == IF p \in Paid THEN p ELSE chargeOf[p]

Find(w) ==
    LET byPayment == {r \in Rows : payId[r] = on[w]}
        r == IF byPayment # {} THEN CHOOSE x \in byPayment : TRUE ELSE Named(on[w])
        first == byPayment # {} \/ status[r] \in {"pending_payment", "payment_failed"}
    IN  /\ pc[w] = "find"
        /\ pc' = [pc EXCEPT ![w] = IF first THEN "note" ELSE "look"]
        /\ about' = [about EXCEPT ![w] = r]
        /\ was' = [was EXCEPT ![w] = status[r]]
        /\ until' = [until EXCEPT ![w] = end[r]]
        /\ Slip((IF first /\ saw[w] = "paid" THEN Overlap(w) ELSE {}) \cup
                (IF ~first /\ \E v \in Workers \ {w} : about[v] = r THEN {"crowded"} ELSE {}))
        /\ UNCHANGED <<rowVars, invoices, plan, mollieVars, on, saw, old>>

(* handleInitialPayment: the row's payment, the invoice, a failure, an activation. *)
NotePayment(w) ==
    /\ pc[w] = "note"
    /\ payId' = [payId EXCEPT ![about[w]] = on[w]]
    /\ Goto(w, "book")
    /\ UNCHANGED <<status, born, orderId, end, invoices, plan, mollieVars, historyVars>>

(* Faulty variant: invoices are found by the payment only. *)
BookFirst_ById(w) ==
    LET mine == {i \in invoices : i.payment = on[w]}
    IN  /\ pc[w] = "book"
        /\ invoices' = (invoices \ mine) \cup {[i EXCEPT !.status = saw[w]] : i \in mine}
        /\ Goto(w, "settle")
        /\ UNCHANGED <<rowVars, plan, mollieVars, historyVars>>

(* All invoices found get the payment, whose id is unique: more than one is an error. *)
BookFirst(w) ==
    LET mine == {i \in invoices : i.payment = on[w] \/ (i.row = about[w] /\ i.status = "open")}
    IN  /\ pc[w] = "book"
        /\ IF Cardinality(mine) > 1
           THEN Rest(w) /\ UNCHANGED invoices
           ELSE /\ invoices' = (invoices \ mine) \cup {[i EXCEPT !.payment = on[w], !.status = saw[w]] : i \in mine}
                /\ Goto(w, "settle")
        /\ UNCHANGED <<rowVars, plan, mollieVars, historyVars>>

(* Faulty variant: the row is given the status of the payment. *)
Settle_Raw(w) ==
    /\ pc[w] = "settle"
    /\ IF saw[w] = "paid" /\ was[w] # "active"
       THEN Goto(w, "order") /\ UNCHANGED <<status, mollieVars>>
       ELSE SetStatus({about[w]}, saw[w]) /\ Answer(w)
    /\ UNCHANGED <<born, payId, orderId, end, invoices, plan, historyVars>>

(* Faulty variant: a payment that is still open will do. *)
Settle_Early(w) ==
    LET next == IF saw[w] = "failed" THEN "payment_failed" ELSE status[about[w]]
    IN  /\ pc[w] = "settle"
        /\ IF saw[w] # "failed" /\ was[w] # "active"
           THEN Goto(w, "order") /\ UNCHANGED <<status, slips, mollieVars>>
           ELSE /\ SetStatus({about[w]}, next)
                /\ slips' = slips \cup Revival(about[w], next)
                /\ Answer(w)
        /\ UNCHANGED <<born, payId, orderId, end, invoices, plan, events>>

Settle(w) ==
    LET next == IF saw[w] = "failed" THEN "payment_failed" ELSE status[about[w]]
    IN  /\ pc[w] = "settle"
        /\ IF saw[w] = "paid" /\ was[w] # "active"
           THEN Goto(w, "order") /\ UNCHANGED <<status, slips, mollieVars>>
           ELSE /\ SetStatus({about[w]}, next)
                /\ slips' = slips \cup Revival(about[w], next)
                /\ Answer(w)
        /\ UNCHANGED <<born, payId, orderId, end, invoices, plan, events>>

OrderRecurring(w) ==
    /\ pc[w] = "order"
    /\ standing' = [standing EXCEPT ![about[w]] = @ + 1]
    /\ Goto(w, "replace")
    /\ UNCHANGED <<rowVars, invoices, plan, pay, chargeOf, due, historyVars>>

(* Faulty variant: the current rows stay as they are. *)
ReplaceOthers_Omitted(w) ==
    /\ pc[w] = "replace"
    /\ Goto(w, "activate")
    /\ UNCHANGED <<rowVars, invoices, plan, mollieVars, historyVars>>

(* Nobody cancels the standing orders of the rows that are replaced here. *)
ReplaceOthers(w) ==
    /\ pc[w] = "replace"
    /\ SetStatus(Current, "replaced")
    /\ Slip(IF \E r \in Rows : standing[r] > (IF r = about[w] THEN 1 ELSE 0) THEN {"upgrade"} ELSE {})
    /\ Goto(w, "activate")
    /\ UNCHANGED <<born, payId, orderId, end, invoices, plan, mollieVars>>

ActivatePaid(w) ==
    /\ pc[w] = "activate"
    /\ SetStatus({about[w]}, "active")
    /\ Slip(Revival(about[w], "active"))
    /\ orderId' = [orderId EXCEPT ![about[w]] = "live"]
    /\ Goto(w, "plan")
    /\ UNCHANGED <<born, payId, end, invoices, plan, mollieVars>>

SetPlan(w) ==
    /\ pc[w] = "plan"
    /\ plan' = PlanOf[about[w]]
    /\ Answer(w)
    /\ UNCHANGED <<rowVars, invoices, historyVars>>

-----------------------------------------------------------------------------
(***************************************************************************)
(* handleRecurringPayment: the invoice of the payment is looked for, then  *)
(* created for the period after the one that was read, or updated; then    *)
(* the row.                                                                *)
(***************************************************************************)
InvoicesOf(p) == {i \in invoices : i.payment = p}

LookForInvoice(w) ==
    /\ pc[w] = "look"
    /\ IF InvoicesOf(on[w]) = {}
       THEN old' = [old EXCEPT ![w] = None]
       ELSE \E i \in InvoicesOf(on[w]) : old' = [old EXCEPT ![w] = i]
    /\ pc' = [pc EXCEPT ![w] = "enter"]
    /\ UNCHANGED <<rowVars, invoices, plan, mollieVars, on, about, saw, was, until, historyVars>>

EnterNew(w) ==
    /\ pc[w] = "enter" /\ old[w] = None
    /\ IF InvoicesOf(on[w]) # {}
       THEN Rest(w) /\ UNCHANGED invoices
       ELSE /\ invoices' = invoices \cup {[kind |-> "cycle", key |-> on[w], row |-> about[w], payment |-> on[w],
                                           status |-> saw[w], end |-> until[w] + 1]}
            /\ Goto(w, "renew")
    /\ UNCHANGED <<rowVars, plan, mollieVars, historyVars>>

EnterStatus(w) ==
    LET found == {i \in invoices : i.kind = old[w].kind /\ i.key = old[w].key}
    IN  /\ pc[w] = "enter" /\ old[w] # None
        /\ invoices' = IF old[w].status = saw[w] THEN invoices
                       ELSE (invoices \ found) \cup {[i EXCEPT !.status = saw[w]] : i \in found}
        /\ Goto(w, "renew")
        /\ UNCHANGED <<rowVars, plan, mollieVars, historyVars>>

BecamePaid(w) == saw[w] = "paid" /\ (old[w] = None \/ old[w].status # "paid")

Renewed(w) == IF BecamePaid(w) THEN "active" ELSE IF saw[w] = "failed" THEN "past_due" ELSE was[w]

(* Faulty variant: the period stays where it was. *)
Renew_SamePeriod(w) ==
    /\ pc[w] = "renew"
    /\ SetStatus({about[w]}, Renewed(w))
    /\ Slip(Revival(about[w], Renewed(w)))
    /\ Answer(w)
    /\ UNCHANGED <<born, payId, orderId, end, invoices, plan>>

Renew(w) ==
    LET period == IF old[w] = None THEN until[w] + 1 ELSE old[w].end
    IN  /\ pc[w] = "renew"
        /\ SetStatus({about[w]}, Renewed(w))
        /\ Slip(Revival(about[w], Renewed(w)))
        /\ end' = IF BecamePaid(w) THEN [end EXCEPT ![about[w]] = period] ELSE end
        /\ Answer(w)
        /\ UNCHANGED <<born, payId, orderId, invoices, plan>>

-----------------------------------------------------------------------------
(***************************************************************************)
(* A statement throws or the process dies.  Nothing is undone.             *)
(***************************************************************************)
Stop(w) ==
    /\ pc[w] \notin {"idle", "find", "note", "look", "drop"}
    /\ Happens
    /\ slips' = slips \cup (IF pc[w] \in {"replace", "activate", "plan", "leave", "start", "down", "renew"}
                            THEN {"torn"} ELSE {})
    /\ Rest(w)
    /\ UNCHANGED <<rowVars, invoices, plan, mollieVars>>

(***************************************************************************)
(* Mollie: a payment is decided once.  A charge comes at the end of a      *)
(* period, when the row's earlier payments are decided, their calls        *)
(* answered and the requests about the row over.                           *)
(***************************************************************************)
Decide(p) ==
    /\ pay[p] = "open"
    /\ \E s \in {"paid", "failed"} : pay' = [pay EXCEPT ![p] = s]
    /\ due' = due \cup {p}
    /\ Slip(IF \E w \in Workers : on[w] = p THEN {"overtaken"} ELSE {})
    /\ UNCHANGED <<rowVars, invoices, plan, standing, chargeOf, workVars>>

Charge(c, r) ==
    /\ pay[c] = None /\ \A d \in Charges : d < c => pay[d] # None
    /\ Happens
    /\ standing[r] > 0
    /\ \A w \in Workers : about[w] # r
    /\ r \notin due
    /\ \A d \in Charges : chargeOf[d] = r => pay[d] # "open" /\ d \notin due
    /\ pay' = [pay EXCEPT ![c] = "open"]
    /\ chargeOf' = [chargeOf EXCEPT ![c] = r]
    /\ UNCHANGED <<rowVars, invoices, plan, standing, due, workVars, slips>>

CheckoutStep(w) ==
    DropPending(w) \/ OpenRow(w) \/ BillFirst(w) \/ Link(w) \/ StoreLink(w) \/ StampInvoice(w)

DowngradeStep(w) == CancelOrder(w) \/ LeavePlan(w) \/ StartFree(w) \/ SetFree(w)

WebhookStep(w) ==
    \/ Find(w)
    \/ NotePayment(w) \/ BookFirst(w) \/ Settle(w)
    \/ OrderRecurring(w) \/ ReplaceOthers(w) \/ ActivatePaid(w) \/ SetPlan(w)
    \/ LookForInvoice(w) \/ EnterNew(w) \/ EnterStatus(w) \/ Renew(w)

Next ==
    \/ \E w \in Workers :
         \/ \E r \in Paid : Checkout(w, r)
         \/ \E f \in Free : Downgrade(w, f)
         \/ \E p \in Payments : Deliver(w, p) \/ Redeliver(w, p)
         \/ Reconcile(w)
         \/ CheckoutStep(w) \/ DowngradeStep(w) \/ WebhookStep(w)
         \/ Stop(w)
    \/ \E p \in Payments : Decide(p)
    \/ \E c \in Charges, r \in Paid : Charge(c, r)

Spec == Init /\ [][Next]_vars
-----------------------------------------------------------------------------
(***************************************************************************)
(* No plan without a payment: the organisation has a plan only if a first  *)
(* payment for that plan is paid, and a standing order only for a row with *)
(* a paid first payment, however webhooks, checkouts and downgrades        *)
(* overlap, repeat or stop.                                                *)
(***************************************************************************)
PlanIsPaidFor ==
    /\ plan # "free" => \E r \in Paid : PlanOf[r] = plan /\ pay[r] = "paid"
    /\ \A r \in Rows : standing[r] > 0 => r \in Paid /\ pay[r] = "paid"

AtRest == \A w \in Workers : pc[w] \in {"idle", "drop", "open", "bill", "link", "store", "stamp"}

(***************************************************************************)
(* Between two requests exactly one row is current, and its plan is the    *)
(* organisation's, unless requests overlapped or stopped half way, or a    *)
(* payment for a replaced row brought that row back.                       *)
(***************************************************************************)
OneCurrent ==
    AtRest /\ slips \cap {"torn", "overlap", "revived"} = {} =>
        \E r \in Rows : Current = {r} /\ plan = (IF r \in Paid THEN PlanOf[r] ELSE "free")

(***************************************************************************)
(* Back on the free plan nothing is charged any more, unless an upgrade    *)
(* had replaced a paid row, whose order nobody cancels, or the above.      *)
(***************************************************************************)
FreeIsFree ==
    AtRest /\ plan = "free" /\ slips \cap {"torn", "overlap", "revived", "upgrade"} = {} =>
        \A r \in Rows : standing[r] = 0

(***************************************************************************)
(* No period is paid twice: paid invoices of a row end at different times, *)
(* unless two requests for the row overlapped, or one stopped between the  *)
(* invoice and the row, or a payment was decided while an older status of  *)
(* it was being written (that status may come last, the invoice is paid    *)
(* again later, and then the row's period is set back).                    *)
(***************************************************************************)
PeriodsAreDistinct ==
    slips \cap {"torn", "crowded", "overtaken"} = {} =>
        \A i, j \in invoices :
            i.status = "paid" /\ j.status = "paid" /\ i.row = j.row /\ i.end = j.end => i = j

(***************************************************************************)
(* What Mollie has been answered is booked: a payment that is paid, and    *)
(* whose calls are answered, is on a paid invoice, and if it is the first  *)
(* of a row, that row is no longer pending, whatever stopped or overlapped *)
(* on the way.  Only a status that changes while an older one is being     *)
(* written may be lost.                                                    *)
(***************************************************************************)
AnsweredIsBooked ==
    "overtaken" \notin slips =>
        \A p \in Payments :
            pay[p] = "paid" /\ p \notin due =>
                /\ \E i \in invoices : i.payment = p /\ i.status = "paid"
                /\ p \in Paid => status[p] \notin {"pending_payment", "payment_failed"}
=============================================================================
