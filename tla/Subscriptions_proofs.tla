------------------------- MODULE Subscriptions_proofs -------------------------
(***************************************************************************)
(* Proofs about what an organisation pays, for any number of rows, charges *)
(* and requests at once.                                                   *)
(***************************************************************************)
EXTENDS Subscriptions, FiniteSetTheorems, TLAPS

Checking == {"drop", "open", "bill", "link", "store", "stamp"}
Leaving == {"cancel", "leave", "start", "down"}
First == {"note", "book", "settle", "order", "replace", "activate", "plan"}
Recurring == {"look", "enter", "renew"}

(* The types, but for the number of standing orders, which could be anything. *)
Types ==
    /\ status \in [Rows -> RowStatus \cup {None}]
    /\ payId \in [Rows -> Payments \cup {None}]
    /\ orderId \in [Rows -> {"none", "live", "cancelled"}]
    /\ standing \in [Rows -> Int]
    /\ plan \in Plans \cup {"free"}
    /\ pay \in [Payments -> PaymentStatus \cup {None}]
    /\ chargeOf \in [Charges -> Rows \cup {None}]
    /\ due \in SUBSET Payments
    /\ pc \in [Workers -> Positions]
    /\ on \in [Workers -> Payments \cup {None}]
    /\ about \in [Workers -> Rows \cup {None}]
    /\ saw \in [Workers -> PaymentStatus]
    /\ was \in [Workers -> RowStatus]

(* A payment for a row: its first one, or a charge for it. *)
IsFor(p, r) == p = r \/ (p \in Charges /\ chargeOf[p] = r)

(* What a request knows goes with its position. *)
Knows(w) ==
    /\ pc[w] \in Checking \cup First \cup Recurring => about[w] \in Paid
    /\ pc[w] \in Leaving => about[w] \in Free
    /\ pc[w] \in {"find"} \cup First \cup Recurring => on[w] \in Payments /\ pay[on[w]] # None
    /\ pc[w] \in {"find"} \cup First \cup Recurring /\ saw[w] = "paid" => pay[on[w]] = "paid"
    /\ pc[w] \in First => IsFor(on[w], about[w])
    /\ pc[w] \in {"order", "replace", "activate", "plan"} => saw[w] = "paid"
    /\ pc[w] \in {"drop", "open", "bill", "link"} => pay[about[w]] = None
    /\ pc[w] \in {"store", "stamp"} => pay[about[w]] # None
    /\ pc[w] \in {"bill", "link", "store", "stamp"} \cup First \cup Recurring => status[about[w]] # None

RequestsKnow == \A w \in Workers : Knows(w)

OneCheckout ==
    \A v, w \in Workers :
        pc[v] \in {"drop", "open", "bill", "link"} /\ pc[w] \in {"drop", "open", "bill", "link"} /\ about[v] = about[w]
            => v = w

(* Payments belong to rows that exist, and charges to rows that are paid. *)
PaymentsFit ==
    /\ \A r \in Rows : payId[r] # None => r \in Paid /\ IsFor(payId[r], r) /\ pay[payId[r]] # None
    /\ \A r \in Rows : payId[r] # None \/ standing[r] > 0 => status[r] # None
    /\ \A r \in Paid : pay[r] # None => status[r] # None
    /\ \A c \in Charges : pay[c] # None => chargeOf[c] # None
    /\ \A c \in Charges : chargeOf[c] # None =>
                             /\ chargeOf[c] \in Paid
                             /\ pay[chargeOf[c]] = "paid"
                             /\ status[chargeOf[c]] # None

PlanInv == Types /\ RequestsKnow /\ OneCheckout /\ PaymentsFit /\ PlanIsPaidFor

LEMMA InitPlan == Init => PlanInv
BY StatusAssumption, NumbersAssumption, PlanOfAssumption, RegisteredAssumption, NamesAssumption, NoneAssumption
DEF Init, PlanInv, Types, RequestsKnow, Knows, OneCheckout, PaymentsFit, PlanIsPaidFor, Rows, Payments, RowStatus,
    PaymentStatus, Positions, Checking, Leaving, First, Recurring

(* What handlePaymentWebhook finds is a row with that payment. *)
LEMMA FoundRow ==
    ASSUME PlanInv, NEW w \in Workers, pc[w] = "find"
    PROVE  LET byPayment == {r \in Rows : payId[r] = on[w]}
               r == IF byPayment # {} THEN CHOOSE x \in byPayment : TRUE ELSE Named(on[w])
           IN  r \in Paid /\ IsFor(on[w], r) /\ status[r] # None
<1> DEFINE byPayment == {r \in Rows : payId[r] = on[w]}
           r == IF byPayment # {} THEN CHOOSE x \in byPayment : TRUE ELSE Named(on[w])
<1>0. Types /\ Knows(w) /\ PaymentsFit
    BY DEF PlanInv, RequestsKnow
<1>1. on[w] \in Payments /\ pay[on[w]] # None
    BY <1>0 DEF Knows
<1>2. CASE byPayment # {}
    <2>1. r \in byPayment
        BY <1>2
    <2>2. r \in Rows /\ payId[r] = on[w] /\ on[w] # None
        BY <2>1, <1>1, NoneAssumption DEF Payments
    <2>3. QED
        BY <2>2, <1>0 DEF PaymentsFit
<1>3. CASE byPayment = {}
    <2>1. r = Named(on[w])
        BY <1>3
    <2>2. QED
        BY <2>1, <1>0, <1>1, NamesAssumption, NoneAssumption DEF Named, Types, PaymentsFit, IsFor, Payments, Rows
<1>4. QED
    BY <1>2, <1>3

(* Every step keeps that. *)
LEMMA NextPlan == PlanInv /\ Next => Types' /\ RequestsKnow' /\ OneCheckout' /\ PaymentsFit' /\ PlanIsPaidFor'
<1> SUFFICES ASSUME PlanInv, Next
             PROVE  Types' /\ RequestsKnow' /\ OneCheckout' /\ PaymentsFit' /\ PlanIsPaidFor'
    OBVIOUS
<1> USE StatusAssumption, NumbersAssumption, PlanOfAssumption, RegisteredAssumption, NamesAssumption, NoneAssumption
    DEF Happens, rowVars, mollieVars, workVars, historyVars, Payments, Rows
<1>0. PlanInv /\ Types /\ RequestsKnow /\ OneCheckout /\ PaymentsFit /\ PlanIsPaidFor
    BY DEF PlanInv
<1>1. ASSUME NEW w \in Workers, NEW r \in Paid, Checkout(w, r)
      PROVE  Types' /\ RequestsKnow' /\ OneCheckout' /\ PaymentsFit' /\ PlanIsPaidFor'
    <2>1. Types'
        BY <1>0, <1>1
        DEF Checkout, Takes, Unused, Types, RowStatus, PaymentStatus, Positions, Knows, RequestsKnow, Checking,
            Leaving, First, Recurring
    <2>2. RequestsKnow'
        BY <1>0, <1>1
        DEF Checkout, Takes, Unused, Types, Knows, RequestsKnow, PaymentsFit, OneCheckout, PlanIsPaidFor,
            IsFor, PaymentStatus, RowStatus, Checking, Leaving, First, Recurring
    <2>3. OneCheckout'
        BY <1>0, <1>1 DEF Checkout, Takes, Unused, Types, OneCheckout
    <2>4. PaymentsFit'
        BY <1>0, <1>1
        DEF Checkout, Takes, Unused, Types, PaymentsFit, IsFor, RequestsKnow, Knows, PlanIsPaidFor,
            PaymentStatus, Checking, Leaving, First, Recurring
    <2>5. PlanIsPaidFor'
        BY <1>0, <1>1
        DEF Checkout, Takes, Unused, Types, PlanIsPaidFor, RequestsKnow, Knows, PaymentsFit, IsFor,
            PaymentStatus, Checking, Leaving, First, Recurring
    <2>6. QED
        BY <2>1, <2>2, <2>3, <2>4, <2>5
<1>2. ASSUME NEW w \in Workers, NEW f \in Free, Downgrade(w, f)
      PROVE  Types' /\ RequestsKnow' /\ OneCheckout' /\ PaymentsFit' /\ PlanIsPaidFor'
    <2>1. Types'
        BY <1>0, <1>2
        DEF Downgrade, Takes, Unused, Overlap, Types, RowStatus, PaymentStatus, Positions, Knows, RequestsKnow,
            Checking, Leaving, First, Recurring
    <2>2. RequestsKnow'
        BY <1>0, <1>2
        DEF Downgrade, Takes, Unused, Overlap, Types, Knows, RequestsKnow, PaymentsFit, OneCheckout,
            PlanIsPaidFor, IsFor, PaymentStatus, RowStatus, Checking, Leaving, First, Recurring
    <2>3. OneCheckout'
        BY <1>0, <1>2 DEF Downgrade, Takes, Unused, Overlap, Types, OneCheckout
    <2>4. PaymentsFit'
        BY <1>0, <1>2
        DEF Downgrade, Takes, Unused, Overlap, Types, PaymentsFit, IsFor, RequestsKnow, Knows, PlanIsPaidFor,
            PaymentStatus, Checking, Leaving, First, Recurring
    <2>5. PlanIsPaidFor'
        BY <1>0, <1>2
        DEF Downgrade, Takes, Unused, Overlap, Types, PlanIsPaidFor, RequestsKnow, Knows, PaymentsFit, IsFor,
            PaymentStatus, Checking, Leaving, First, Recurring
    <2>6. QED
        BY <2>1, <2>2, <2>3, <2>4, <2>5
<1>3. ASSUME NEW w \in Workers, NEW p \in Payments, Deliver(w, p)
      PROVE  Types' /\ RequestsKnow' /\ OneCheckout' /\ PaymentsFit' /\ PlanIsPaidFor'
    <2>1. Types'
        BY <1>0, <1>3
        DEF Deliver, Receive, Takes, Types, RowStatus, PaymentStatus, Positions, Knows, RequestsKnow, Checking,
            Leaving, First, Recurring
    <2>2. RequestsKnow'
        BY <1>0, <1>3
        DEF Deliver, Receive, Takes, Types, Knows, RequestsKnow, PaymentsFit, OneCheckout, PlanIsPaidFor,
            IsFor, PaymentStatus, RowStatus, Checking, Leaving, First, Recurring
    <2>3. OneCheckout'
        BY <1>0, <1>3 DEF Deliver, Receive, Takes, Types, OneCheckout
    <2>4. PaymentsFit'
        BY <1>0, <1>3
        DEF Deliver, Receive, Takes, Types, PaymentsFit, IsFor, RequestsKnow, Knows, PlanIsPaidFor,
            PaymentStatus, Checking, Leaving, First, Recurring
    <2>5. PlanIsPaidFor'
        BY <1>0, <1>3
        DEF Deliver, Receive, Takes, Types, PlanIsPaidFor, RequestsKnow, Knows, PaymentsFit, IsFor,
            PaymentStatus, Checking, Leaving, First, Recurring
    <2>6. QED
        BY <2>1, <2>2, <2>3, <2>4, <2>5
<1>4. ASSUME NEW w \in Workers, NEW p \in Payments, Redeliver(w, p)
      PROVE  Types' /\ RequestsKnow' /\ OneCheckout' /\ PaymentsFit' /\ PlanIsPaidFor'
    <2>1. Types'
        BY <1>0, <1>4
        DEF Redeliver, Receive, Takes, Types, RowStatus, PaymentStatus, Positions, Knows, RequestsKnow,
            Checking, Leaving, First, Recurring
    <2>2. RequestsKnow'
        BY <1>0, <1>4
        DEF Redeliver, Receive, Takes, Types, Knows, RequestsKnow, PaymentsFit, OneCheckout, PlanIsPaidFor,
            IsFor, PaymentStatus, RowStatus, Checking, Leaving, First, Recurring
    <2>3. OneCheckout'
        BY <1>0, <1>4 DEF Redeliver, Receive, Takes, Types, OneCheckout
    <2>4. PaymentsFit'
        BY <1>0, <1>4
        DEF Redeliver, Receive, Takes, Types, PaymentsFit, IsFor, RequestsKnow, Knows, PlanIsPaidFor,
            PaymentStatus, Checking, Leaving, First, Recurring
    <2>5. PlanIsPaidFor'
        BY <1>0, <1>4
        DEF Redeliver, Receive, Takes, Types, PlanIsPaidFor, RequestsKnow, Knows, PaymentsFit, IsFor,
            PaymentStatus, Checking, Leaving, First, Recurring
    <2>6. QED
        BY <2>1, <2>2, <2>3, <2>4, <2>5
<1>5. ASSUME NEW w \in Workers, Reconcile(w)
      PROVE  Types' /\ RequestsKnow' /\ OneCheckout' /\ PaymentsFit' /\ PlanIsPaidFor'
    <2>1. Types'
        BY <1>0, <1>5
        DEF Reconcile, Receive, Takes, Types, RowStatus, PaymentStatus, Positions, Knows, RequestsKnow,
            Checking, Leaving, First, Recurring
    <2>2. RequestsKnow'
        BY <1>0, <1>5
        DEF Reconcile, Receive, Takes, Types, Knows, RequestsKnow, PaymentsFit, OneCheckout, PlanIsPaidFor,
            IsFor, PaymentStatus, RowStatus, Checking, Leaving, First, Recurring
    <2>3. OneCheckout'
        BY <1>0, <1>5 DEF Reconcile, Receive, Takes, Types, OneCheckout
    <2>4. PaymentsFit'
        BY <1>0, <1>5
        DEF Reconcile, Receive, Takes, Types, PaymentsFit, IsFor, RequestsKnow, Knows, PlanIsPaidFor,
            PaymentStatus, Checking, Leaving, First, Recurring
    <2>5. PlanIsPaidFor'
        BY <1>0, <1>5
        DEF Reconcile, Receive, Takes, Types, PlanIsPaidFor, RequestsKnow, Knows, PaymentsFit, IsFor,
            PaymentStatus, Checking, Leaving, First, Recurring
    <2>6. QED
        BY <2>1, <2>2, <2>3, <2>4, <2>5
<1>6. ASSUME NEW w \in Workers, DropPending(w)
      PROVE  Types' /\ RequestsKnow' /\ OneCheckout' /\ PaymentsFit' /\ PlanIsPaidFor'
    <2>1. Types'
        BY <1>0, <1>6
        DEF DropPending, SetStatus, Goto, Types, RowStatus, PaymentStatus, Positions, Knows, RequestsKnow,
            Checking, Leaving, First, Recurring
    <2>2. RequestsKnow'
        <3>1. \A r \in Rows : status[r] # None => status'[r] # None
            BY <1>0, <1>6
            DEF DropPending, SetStatus, Types, RequestsKnow, Knows, RowStatus, Checking, Leaving, First,
                Recurring
        <3>2. QED
            BY <1>0, <1>6, <3>1
            DEF DropPending, Goto, Types, Knows, RequestsKnow, PaymentsFit, OneCheckout, PlanIsPaidFor, IsFor,
                PaymentStatus, Checking, Leaving, First, Recurring
    <2>3. OneCheckout'
        BY <1>0, <1>6 DEF DropPending, SetStatus, Goto, Types, OneCheckout
    <2>4. PaymentsFit'
        <3>1. \A r \in Rows : status[r] # None => status'[r] # None
            BY <1>0, <1>6
            DEF DropPending, SetStatus, Types, RequestsKnow, Knows, RowStatus, Checking, Leaving, First,
                Recurring
        <3>2. QED
            BY <1>0, <1>6, <3>1
            DEF DropPending, Goto, Types, PaymentsFit, IsFor, RequestsKnow, Knows, PlanIsPaidFor,
                PaymentStatus, Checking, Leaving, First, Recurring
    <2>5. PlanIsPaidFor'
        BY <1>0, <1>6
        DEF DropPending, SetStatus, Goto, Types, PlanIsPaidFor, RequestsKnow, Knows, PaymentsFit, IsFor,
            PaymentStatus, Checking, Leaving, First, Recurring
    <2>6. QED
        BY <2>1, <2>2, <2>3, <2>4, <2>5
<1>7. ASSUME NEW w \in Workers, OpenRow(w)
      PROVE  Types' /\ RequestsKnow' /\ OneCheckout' /\ PaymentsFit' /\ PlanIsPaidFor'
    <2>1. Types'
        BY <1>0, <1>7
        DEF OpenRow, SetStatus, Goto, Types, RowStatus, PaymentStatus, Positions, Knows, RequestsKnow,
            Checking, Leaving, First, Recurring
    <2>2. RequestsKnow'
        <3>1. \A r \in Rows : status[r] # None => status'[r] # None
            BY <1>0, <1>7
            DEF OpenRow, SetStatus, Types, RequestsKnow, Knows, RowStatus, Checking, Leaving, First, Recurring
        <3>8. Knows(w)'
            BY <1>0, <1>7, <3>1
            DEF OpenRow, SetStatus, Goto, OneCheckout, Types, Knows, RequestsKnow, PaymentsFit, IsFor,
                PaymentStatus, RowStatus, Checking, Leaving, First, Recurring
        <3>9. \A v \in Workers \ {w} : Knows(v)'
            BY <1>0, <1>7, <3>1
            DEF OpenRow, SetStatus, Goto, OneCheckout, Types, Knows, RequestsKnow, PaymentsFit, IsFor,
                PaymentStatus, RowStatus, Checking, Leaving, First, Recurring
        <3>10. QED
            BY <3>8, <3>9 DEF RequestsKnow
    <2>3. OneCheckout'
        BY <1>0, <1>7 DEF OpenRow, SetStatus, Goto, Types, OneCheckout
    <2>4. PaymentsFit'
        <3>1. \A r \in Rows : status[r] # None => status'[r] # None
            BY <1>0, <1>7
            DEF OpenRow, SetStatus, Types, RequestsKnow, Knows, RowStatus, Checking, Leaving, First, Recurring
        <3>2. QED
            BY <1>0, <1>7, <3>1
            DEF OpenRow, Goto, Types, PaymentsFit, IsFor, RequestsKnow, Knows, PlanIsPaidFor, PaymentStatus,
                Checking, Leaving, First, Recurring, SetStatus
    <2>5. PlanIsPaidFor'
        BY <1>0, <1>7
        DEF OpenRow, SetStatus, Goto, Types, PlanIsPaidFor, RequestsKnow, Knows, PaymentsFit, IsFor,
            PaymentStatus, Checking, Leaving, First, Recurring
    <2>6. QED
        BY <2>1, <2>2, <2>3, <2>4, <2>5
<1>8. ASSUME NEW w \in Workers, BillFirst(w)
      PROVE  Types' /\ RequestsKnow' /\ OneCheckout' /\ PaymentsFit' /\ PlanIsPaidFor'
    <2>1. Types'
        BY <1>0, <1>8
        DEF BillFirst, Goto, Types, RowStatus, PaymentStatus, Positions, Knows, RequestsKnow, Checking,
            Leaving, First, Recurring
    <2>2. RequestsKnow'
        BY <1>0, <1>8
        DEF BillFirst, Goto, Types, Knows, RequestsKnow, PaymentsFit, OneCheckout, PlanIsPaidFor, IsFor,
            PaymentStatus, RowStatus, Checking, Leaving, First, Recurring
    <2>3. OneCheckout'
        BY <1>0, <1>8 DEF BillFirst, Goto, Types, OneCheckout
    <2>4. PaymentsFit'
        BY <1>0, <1>8
        DEF BillFirst, Goto, Types, PaymentsFit, IsFor, RequestsKnow, Knows, PlanIsPaidFor, PaymentStatus,
            Checking, Leaving, First, Recurring
    <2>5. PlanIsPaidFor'
        BY <1>0, <1>8
        DEF BillFirst, Goto, Types, PlanIsPaidFor, RequestsKnow, Knows, PaymentsFit, IsFor, PaymentStatus,
            Checking, Leaving, First, Recurring
    <2>6. QED
        BY <2>1, <2>2, <2>3, <2>4, <2>5
<1>9. ASSUME NEW w \in Workers, Link(w)
      PROVE  Types' /\ RequestsKnow' /\ OneCheckout' /\ PaymentsFit' /\ PlanIsPaidFor'
    <2>1. Types'
        BY <1>0, <1>9
        DEF Link, Goto, Types, RowStatus, PaymentStatus, Positions, Knows, RequestsKnow, Checking, Leaving,
            First, Recurring
    <2>2. RequestsKnow'
        BY <1>0, <1>9
        DEF Link, Goto, Types, Knows, RequestsKnow, PaymentsFit, OneCheckout, PlanIsPaidFor, IsFor,
            PaymentStatus, RowStatus, Checking, Leaving, First, Recurring
    <2>3. OneCheckout'
        BY <1>0, <1>9 DEF Link, Goto, Types, OneCheckout
    <2>4. PaymentsFit'
        BY <1>0, <1>9
        DEF Link, Goto, Types, PaymentsFit, IsFor, RequestsKnow, Knows, PlanIsPaidFor, PaymentStatus, Checking,
            Leaving, First, Recurring
    <2>5. PlanIsPaidFor'
        BY <1>0, <1>9
        DEF Link, Goto, Types, PlanIsPaidFor, RequestsKnow, Knows, PaymentsFit, IsFor, PaymentStatus, Checking,
            Leaving, First, Recurring
    <2>6. QED
        BY <2>1, <2>2, <2>3, <2>4, <2>5
<1>10. ASSUME NEW w \in Workers, StoreLink(w)
      PROVE  Types' /\ RequestsKnow' /\ OneCheckout' /\ PaymentsFit' /\ PlanIsPaidFor'
    <2>1. Types'
        BY <1>0, <1>10
        DEF StoreLink, Goto, Types, RowStatus, PaymentStatus, Positions, Knows, RequestsKnow, Checking,
            Leaving, First, Recurring
    <2>2. RequestsKnow'
        BY <1>0, <1>10
        DEF StoreLink, Goto, Types, Knows, RequestsKnow, PaymentsFit, OneCheckout, PlanIsPaidFor, IsFor,
            PaymentStatus, RowStatus, Checking, Leaving, First, Recurring
    <2>3. OneCheckout'
        BY <1>0, <1>10 DEF StoreLink, Goto, Types, OneCheckout
    <2>4. PaymentsFit'
        BY <1>0, <1>10
        DEF StoreLink, Goto, Types, PaymentsFit, IsFor, RequestsKnow, Knows, PlanIsPaidFor, PaymentStatus,
            Checking, Leaving, First, Recurring
    <2>5. PlanIsPaidFor'
        BY <1>0, <1>10
        DEF StoreLink, Goto, Types, PlanIsPaidFor, RequestsKnow, Knows, PaymentsFit, IsFor, PaymentStatus,
            Checking, Leaving, First, Recurring
    <2>6. QED
        BY <2>1, <2>2, <2>3, <2>4, <2>5
<1>11. ASSUME NEW w \in Workers, StampInvoice(w)
      PROVE  Types' /\ RequestsKnow' /\ OneCheckout' /\ PaymentsFit' /\ PlanIsPaidFor'
    <2>1. Types'
        BY <1>0, <1>11
        DEF StampInvoice, Rest, Types, RowStatus, PaymentStatus, Positions, Knows, RequestsKnow, Checking,
            Leaving, First, Recurring
    <2>2. RequestsKnow'
        BY <1>0, <1>11
        DEF StampInvoice, Rest, Types, Knows, RequestsKnow, PaymentsFit, OneCheckout, PlanIsPaidFor, IsFor,
            PaymentStatus, RowStatus, Checking, Leaving, First, Recurring
    <2>3. OneCheckout'
        BY <1>0, <1>11 DEF StampInvoice, Rest, Types, OneCheckout
    <2>4. PaymentsFit'
        BY <1>0, <1>11
        DEF StampInvoice, Rest, Types, PaymentsFit, IsFor, RequestsKnow, Knows, PlanIsPaidFor, PaymentStatus,
            Checking, Leaving, First, Recurring
    <2>5. PlanIsPaidFor'
        BY <1>0, <1>11
        DEF StampInvoice, Rest, Types, PlanIsPaidFor, RequestsKnow, Knows, PaymentsFit, IsFor, PaymentStatus,
            Checking, Leaving, First, Recurring
    <2>6. QED
        BY <2>1, <2>2, <2>3, <2>4, <2>5
<1>12. ASSUME NEW w \in Workers, CancelOrder(w)
      PROVE  Types' /\ RequestsKnow' /\ OneCheckout' /\ PaymentsFit' /\ PlanIsPaidFor'
    <2>1. Types'
        BY <1>0, <1>12
        DEF CancelOrder, Goto, Rest, Types, RowStatus, PaymentStatus, Positions, Knows, RequestsKnow, Checking,
            Leaving, First, Recurring
    <2>2. RequestsKnow'
        BY <1>0, <1>12
        DEF CancelOrder, Goto, Rest, Types, Knows, RequestsKnow, PaymentsFit, OneCheckout, PlanIsPaidFor,
            IsFor, PaymentStatus, RowStatus, Checking, Leaving, First, Recurring
    <2>3. OneCheckout'
        BY <1>0, <1>12 DEF CancelOrder, Goto, Rest, Types, OneCheckout
    <2>4. PaymentsFit'
        BY <1>0, <1>12
        DEF CancelOrder, Goto, Rest, Types, PaymentsFit, IsFor, RequestsKnow, Knows, PlanIsPaidFor,
            PaymentStatus, Checking, Leaving, First, Recurring
    <2>5. PlanIsPaidFor'
        BY <1>0, <1>12
        DEF CancelOrder, Goto, Rest, Types, PlanIsPaidFor, RequestsKnow, Knows, PaymentsFit, IsFor,
            PaymentStatus, Checking, Leaving, First, Recurring
    <2>6. QED
        BY <2>1, <2>2, <2>3, <2>4, <2>5
<1>13. ASSUME NEW w \in Workers, LeavePlan(w)
      PROVE  Types' /\ RequestsKnow' /\ OneCheckout' /\ PaymentsFit' /\ PlanIsPaidFor'
    <2>1. Types'
        BY <1>0, <1>13
        DEF LeavePlan, SetStatus, Goto, Types, RowStatus, PaymentStatus, Positions, Knows, RequestsKnow,
            Checking, Leaving, First, Recurring
    <2>2. RequestsKnow'
        <3>1. \A r \in Rows : status[r] # None => status'[r] # None
            BY <1>0, <1>13
            DEF LeavePlan, SetStatus, Types, RequestsKnow, Knows, RowStatus, Checking, Leaving, First,
                Recurring
        <3>2. QED
            BY <1>0, <1>13, <3>1
            DEF LeavePlan, Goto, Types, Knows, RequestsKnow, PaymentsFit, OneCheckout, PlanIsPaidFor, IsFor,
                PaymentStatus, Checking, Leaving, First, Recurring
    <2>3. OneCheckout'
        BY <1>0, <1>13 DEF LeavePlan, SetStatus, Goto, Types, OneCheckout
    <2>4. PaymentsFit'
        <3>1. \A r \in Rows : status[r] # None => status'[r] # None
            BY <1>0, <1>13
            DEF LeavePlan, SetStatus, Types, RequestsKnow, Knows, RowStatus, Checking, Leaving, First,
                Recurring
        <3>2. QED
            BY <1>0, <1>13, <3>1
            DEF LeavePlan, Goto, Types, PaymentsFit, IsFor, RequestsKnow, Knows, PlanIsPaidFor, PaymentStatus,
                Checking, Leaving, First, Recurring
    <2>5. PlanIsPaidFor'
        BY <1>0, <1>13
        DEF LeavePlan, SetStatus, Goto, Types, PlanIsPaidFor, RequestsKnow, Knows, PaymentsFit, IsFor,
            PaymentStatus, Checking, Leaving, First, Recurring
    <2>6. QED
        BY <2>1, <2>2, <2>3, <2>4, <2>5
<1>14. ASSUME NEW w \in Workers, StartFree(w)
      PROVE  Types' /\ RequestsKnow' /\ OneCheckout' /\ PaymentsFit' /\ PlanIsPaidFor'
    <2>1. Types'
        BY <1>0, <1>14
        DEF StartFree, SetStatus, Goto, Types, RowStatus, PaymentStatus, Positions, Knows, RequestsKnow,
            Checking, Leaving, First, Recurring
    <2>2. RequestsKnow'
        BY <1>0, <1>14
        DEF StartFree, SetStatus, Goto, Types, Knows, RequestsKnow, PaymentsFit, OneCheckout, PlanIsPaidFor,
            IsFor, PaymentStatus, RowStatus, Checking, Leaving, First, Recurring
    <2>3. OneCheckout'
        BY <1>0, <1>14 DEF StartFree, SetStatus, Goto, Types, OneCheckout
    <2>4. PaymentsFit'
        BY <1>0, <1>14
        DEF StartFree, SetStatus, Goto, Types, PaymentsFit, IsFor, RequestsKnow, Knows, PlanIsPaidFor,
            PaymentStatus, Checking, Leaving, First, Recurring
    <2>5. PlanIsPaidFor'
        BY <1>0, <1>14
        DEF StartFree, SetStatus, Goto, Types, PlanIsPaidFor, RequestsKnow, Knows, PaymentsFit, IsFor,
            PaymentStatus, Checking, Leaving, First, Recurring
    <2>6. QED
        BY <2>1, <2>2, <2>3, <2>4, <2>5
<1>15. ASSUME NEW w \in Workers, SetFree(w)
      PROVE  Types' /\ RequestsKnow' /\ OneCheckout' /\ PaymentsFit' /\ PlanIsPaidFor'
    <2>1. Types'
        BY <1>0, <1>15
        DEF SetFree, Rest, Types, RowStatus, PaymentStatus, Positions, Knows, RequestsKnow, Checking, Leaving,
            First, Recurring
    <2>2. RequestsKnow'
        BY <1>0, <1>15
        DEF SetFree, Rest, Types, Knows, RequestsKnow, PaymentsFit, OneCheckout, PlanIsPaidFor, IsFor,
            PaymentStatus, RowStatus, Checking, Leaving, First, Recurring
    <2>3. OneCheckout'
        BY <1>0, <1>15 DEF SetFree, Rest, Types, OneCheckout
    <2>4. PaymentsFit'
        BY <1>0, <1>15
        DEF SetFree, Rest, Types, PaymentsFit, IsFor, RequestsKnow, Knows, PlanIsPaidFor, PaymentStatus,
            Checking, Leaving, First, Recurring
    <2>5. PlanIsPaidFor'
        BY <1>0, <1>15
        DEF SetFree, Rest, Types, PlanIsPaidFor, RequestsKnow, Knows, PaymentsFit, IsFor, PaymentStatus,
            Checking, Leaving, First, Recurring
    <2>6. QED
        BY <2>1, <2>2, <2>3, <2>4, <2>5
<1>16. ASSUME NEW w \in Workers, Find(w)
      PROVE  Types' /\ RequestsKnow' /\ OneCheckout' /\ PaymentsFit' /\ PlanIsPaidFor'
    <2>1. Types'
        <3> DEFINE byPayment == {r \in Rows : payId[r] = on[w]}
                   r == IF byPayment # {} THEN CHOOSE x \in byPayment : TRUE ELSE Named(on[w])
        <3>1. r \in Paid /\ IsFor(on[w], r) /\ status[r] # None
            BY <1>16, FoundRow DEF Find
        <3>2. about' = [about EXCEPT ![w] = r] /\ (\E q \in {"note", "look"} : pc' = [pc EXCEPT ![w] = q])
            BY <1>16 DEF Find
        <3>3. UNCHANGED <<status, payId, orderId, standing, plan, pay, chargeOf, due, on, saw>> /\ pc[w] = "find" /\ was' = [was EXCEPT ![w] = status[r]]
            BY <1>16 DEF Find
        <3> HIDE DEF r
        <3>4. QED
            BY <1>0, <1>16, <3>1, <3>2, <3>3
            DEF Types, RowStatus, PaymentStatus, Positions, Knows, RequestsKnow, Checking, Leaving, First,
                Recurring
    <2>2. RequestsKnow'
        <3> DEFINE byPayment == {r \in Rows : payId[r] = on[w]}
                   r == IF byPayment # {} THEN CHOOSE x \in byPayment : TRUE ELSE Named(on[w])
        <3>1. r \in Paid /\ IsFor(on[w], r) /\ status[r] # None
            BY <1>16, FoundRow DEF Find
        <3>2. about' = [about EXCEPT ![w] = r] /\ (\E q \in {"note", "look"} : pc' = [pc EXCEPT ![w] = q])
            BY <1>16 DEF Find
        <3>3. UNCHANGED <<status, payId, orderId, standing, plan, pay, chargeOf, due, on, saw>> /\ pc[w] = "find" /\ was' = [was EXCEPT ![w] = status[r]]
            BY <1>16 DEF Find
        <3> HIDE DEF r
        <3>8. Knows(w)'
            BY <1>0, <1>16, <3>1, <3>2, <3>3
            DEF Types, Knows, RequestsKnow, PaymentsFit, IsFor, PaymentStatus, RowStatus, Checking, Leaving,
                First, Recurring
        <3>9. \A v \in Workers \ {w} : Knows(v)'
            BY <1>0, <1>16, <3>1, <3>2, <3>3
            DEF Types, Knows, RequestsKnow, PaymentsFit, IsFor, PaymentStatus, RowStatus, Checking, Leaving,
                First, Recurring
        <3>10. QED
            BY <3>8, <3>9 DEF RequestsKnow
    <2>3. OneCheckout'
        <3> DEFINE byPayment == {r \in Rows : payId[r] = on[w]}
                   r == IF byPayment # {} THEN CHOOSE x \in byPayment : TRUE ELSE Named(on[w])
        <3>1. r \in Paid /\ IsFor(on[w], r) /\ status[r] # None
            BY <1>16, FoundRow DEF Find
        <3>2. about' = [about EXCEPT ![w] = r] /\ (\E q \in {"note", "look"} : pc' = [pc EXCEPT ![w] = q])
            BY <1>16 DEF Find
        <3>3. UNCHANGED <<status, payId, orderId, standing, plan, pay, chargeOf, due, on, saw>> /\ pc[w] = "find" /\ was' = [was EXCEPT ![w] = status[r]]
            BY <1>16 DEF Find
        <3> HIDE DEF r
        <3>4. QED
            BY <1>0, <1>16, <3>1, <3>2, <3>3 DEF Types, OneCheckout
    <2>4. PaymentsFit'
        <3> DEFINE byPayment == {r \in Rows : payId[r] = on[w]}
                   r == IF byPayment # {} THEN CHOOSE x \in byPayment : TRUE ELSE Named(on[w])
        <3>1. r \in Paid /\ IsFor(on[w], r) /\ status[r] # None
            BY <1>16, FoundRow DEF Find
        <3>2. about' = [about EXCEPT ![w] = r] /\ (\E q \in {"note", "look"} : pc' = [pc EXCEPT ![w] = q])
            BY <1>16 DEF Find
        <3>3. UNCHANGED <<status, payId, orderId, standing, plan, pay, chargeOf, due, on, saw>> /\ pc[w] = "find" /\ was' = [was EXCEPT ![w] = status[r]]
            BY <1>16 DEF Find
        <3> HIDE DEF r
        <3>4. QED
            BY <1>0, <1>16, <3>1, <3>2, <3>3
            DEF Types, PaymentsFit, IsFor, RequestsKnow, Knows, PlanIsPaidFor, PaymentStatus, Checking,
                Leaving, First, Recurring
    <2>5. PlanIsPaidFor'
        <3> DEFINE byPayment == {r \in Rows : payId[r] = on[w]}
                   r == IF byPayment # {} THEN CHOOSE x \in byPayment : TRUE ELSE Named(on[w])
        <3>1. r \in Paid /\ IsFor(on[w], r) /\ status[r] # None
            BY <1>16, FoundRow DEF Find
        <3>2. about' = [about EXCEPT ![w] = r] /\ (\E q \in {"note", "look"} : pc' = [pc EXCEPT ![w] = q])
            BY <1>16 DEF Find
        <3>3. UNCHANGED <<status, payId, orderId, standing, plan, pay, chargeOf, due, on, saw>> /\ pc[w] = "find" /\ was' = [was EXCEPT ![w] = status[r]]
            BY <1>16 DEF Find
        <3> HIDE DEF r
        <3>4. QED
            BY <1>0, <1>16, <3>1, <3>2, <3>3
            DEF Types, PlanIsPaidFor, RequestsKnow, Knows, PaymentsFit, IsFor, PaymentStatus, Checking,
                Leaving, First, Recurring
    <2>6. QED
        BY <2>1, <2>2, <2>3, <2>4, <2>5
<1>17. ASSUME NEW w \in Workers, NotePayment(w)
      PROVE  Types' /\ RequestsKnow' /\ OneCheckout' /\ PaymentsFit' /\ PlanIsPaidFor'
    <2>1. Types'
        BY <1>0, <1>17
        DEF NotePayment, Goto, Types, RowStatus, PaymentStatus, Positions, Knows, RequestsKnow, Checking,
            Leaving, First, Recurring
    <2>2. RequestsKnow'
        BY <1>0, <1>17
        DEF NotePayment, Goto, Types, Knows, RequestsKnow, PaymentsFit, OneCheckout, PlanIsPaidFor, IsFor,
            PaymentStatus, RowStatus, Checking, Leaving, First, Recurring
    <2>3. OneCheckout'
        BY <1>0, <1>17 DEF NotePayment, Goto, Types, OneCheckout
    <2>4. PaymentsFit'
        BY <1>0, <1>17
        DEF NotePayment, Goto, Types, PaymentsFit, IsFor, RequestsKnow, Knows, PlanIsPaidFor, PaymentStatus,
            Checking, Leaving, First, Recurring
    <2>5. PlanIsPaidFor'
        BY <1>0, <1>17
        DEF NotePayment, Goto, Types, PlanIsPaidFor, RequestsKnow, Knows, PaymentsFit, IsFor, PaymentStatus,
            Checking, Leaving, First, Recurring
    <2>6. QED
        BY <2>1, <2>2, <2>3, <2>4, <2>5
<1>18. ASSUME NEW w \in Workers, BookFirst(w)
      PROVE  Types' /\ RequestsKnow' /\ OneCheckout' /\ PaymentsFit' /\ PlanIsPaidFor'
    <2>1. Types'
        <3>1. CASE Rest(w)
            BY <1>0, <1>18, <3>1
            DEF BookFirst, Rest, Types, RowStatus, PaymentStatus, Positions, Knows, RequestsKnow, Checking,
                Leaving, First, Recurring
        <3>2. CASE Goto(w, "settle")
            BY <1>0, <1>18, <3>2
            DEF BookFirst, Goto, Types, RowStatus, PaymentStatus, Positions, Knows, RequestsKnow, Checking,
                Leaving, First, Recurring
        <3>3. QED
            BY <1>18, <3>1, <3>2 DEF BookFirst
    <2>2. RequestsKnow'
        <3>0. pc[w] = "book" /\ UNCHANGED <<status, pay, chargeOf>>
            BY <1>18 DEF BookFirst
        <3>1. CASE Rest(w)
            BY <1>0, <3>0, <3>1
            DEF Rest, Types, Knows, RequestsKnow, PaymentsFit, IsFor, PaymentStatus, RowStatus, Checking,
                Leaving, First, Recurring
        <3>2. CASE Goto(w, "settle")
            BY <1>0, <3>0, <3>2
            DEF Goto, Types, Knows, RequestsKnow, PaymentsFit, IsFor, PaymentStatus, RowStatus, Checking,
                Leaving, First, Recurring
        <3>3. QED
            BY <1>18, <3>1, <3>2 DEF BookFirst
    <2>3. OneCheckout'
        <3>1. CASE Rest(w)
            BY <1>0, <1>18, <3>1 DEF BookFirst, Rest, Types, OneCheckout
        <3>2. CASE Goto(w, "settle")
            BY <1>0, <1>18, <3>2 DEF BookFirst, Goto, Types, OneCheckout
        <3>3. QED
            BY <1>18, <3>1, <3>2 DEF BookFirst
    <2>4. PaymentsFit'
        BY <1>0, <1>18
        DEF BookFirst, Rest, Goto, Types, PaymentsFit, IsFor, RequestsKnow, Knows, PlanIsPaidFor,
            PaymentStatus, Checking, Leaving, First, Recurring
    <2>5. PlanIsPaidFor'
        BY <1>0, <1>18
        DEF BookFirst, Rest, Goto, Types, PlanIsPaidFor, RequestsKnow, Knows, PaymentsFit, IsFor,
            PaymentStatus, Checking, Leaving, First, Recurring
    <2>6. QED
        BY <2>1, <2>2, <2>3, <2>4, <2>5
<1>19. ASSUME NEW w \in Workers, Settle(w)
      PROVE  Types' /\ RequestsKnow' /\ OneCheckout' /\ PaymentsFit' /\ PlanIsPaidFor'
    <2>1. Types'
        <3>1. about[w] \in Rows /\ status[about[w]] # None
            BY <1>0, <1>19 DEF Settle, RequestsKnow, Knows, First
        <3>2. QED
            BY <1>0, <1>19, <3>1
            DEF Settle, Goto, SetStatus, Answer, Rest, Revival, Types, RowStatus, PaymentStatus, Positions
    <2>2. RequestsKnow'
        <3>1. \A r \in Rows : status[r] # None => status'[r] # None
            BY <1>0, <1>19
            DEF Settle, SetStatus, Types, RequestsKnow, Knows, RowStatus, Checking, Leaving, First, Recurring
        <3>2. QED
            BY <1>0, <1>19, <3>1
            DEF Settle, Goto, Answer, Rest, Revival, Types, Knows, RequestsKnow, PaymentsFit, OneCheckout,
                PlanIsPaidFor, IsFor, PaymentStatus, Checking, Leaving, First, Recurring
    <2>3. OneCheckout'
        BY <1>0, <1>19 DEF Settle, Goto, SetStatus, Answer, Rest, Revival, Types, OneCheckout
    <2>4. PaymentsFit'
        <3>1. \A r \in Rows : status[r] # None => status'[r] # None
            BY <1>0, <1>19
            DEF Settle, SetStatus, Types, RequestsKnow, Knows, RowStatus, Checking, Leaving, First, Recurring
        <3>2. QED
            BY <1>0, <1>19, <3>1
            DEF Settle, Goto, Answer, Rest, Revival, Types, PaymentsFit, IsFor, RequestsKnow, Knows,
                PlanIsPaidFor, PaymentStatus, Checking, Leaving, First, Recurring
    <2>5. PlanIsPaidFor'
        BY <1>0, <1>19
        DEF Settle, Goto, SetStatus, Answer, Rest, Revival, Types, PlanIsPaidFor, RequestsKnow, Knows,
            PaymentsFit, IsFor, PaymentStatus, Checking, Leaving, First, Recurring
    <2>6. QED
        BY <2>1, <2>2, <2>3, <2>4, <2>5
<1>20. ASSUME NEW w \in Workers, OrderRecurring(w)
      PROVE  Types' /\ RequestsKnow' /\ OneCheckout' /\ PaymentsFit' /\ PlanIsPaidFor'
    <2>1. Types'
        BY <1>0, <1>20
        DEF OrderRecurring, Goto, Types, RowStatus, PaymentStatus, Positions, Knows, RequestsKnow, Checking,
            Leaving, First, Recurring
    <2>2. RequestsKnow'
        BY <1>0, <1>20
        DEF OrderRecurring, Goto, Types, Knows, RequestsKnow, PaymentsFit, OneCheckout, PlanIsPaidFor, IsFor,
            PaymentStatus, RowStatus, Checking, Leaving, First, Recurring
    <2>3. OneCheckout'
        BY <1>0, <1>20 DEF OrderRecurring, Goto, Types, OneCheckout
    <2>4. PaymentsFit'
        BY <1>0, <1>20
        DEF OrderRecurring, Goto, Types, PaymentsFit, IsFor, RequestsKnow, Knows, PlanIsPaidFor, PaymentStatus,
            Checking, Leaving, First, Recurring
    <2>5. PlanIsPaidFor'
        BY <1>0, <1>20
        DEF OrderRecurring, Goto, Types, PlanIsPaidFor, RequestsKnow, Knows, PaymentsFit, IsFor, PaymentStatus,
            Checking, Leaving, First, Recurring
    <2>6. QED
        BY <2>1, <2>2, <2>3, <2>4, <2>5
<1>21. ASSUME NEW w \in Workers, ReplaceOthers(w)
      PROVE  Types' /\ RequestsKnow' /\ OneCheckout' /\ PaymentsFit' /\ PlanIsPaidFor'
    <2>1. Types'
        BY <1>0, <1>21
        DEF ReplaceOthers, SetStatus, Slip, Goto, Types, RowStatus, PaymentStatus, Positions, Knows,
            RequestsKnow, Checking, Leaving, First, Recurring
    <2>2. RequestsKnow'
        <3>1. \A r \in Rows : status[r] # None => status'[r] # None
            BY <1>0, <1>21
            DEF ReplaceOthers, SetStatus, Types, RequestsKnow, Knows, RowStatus, Checking, Leaving, First,
                Recurring
        <3>2. QED
            BY <1>0, <1>21, <3>1
            DEF ReplaceOthers, Slip, Goto, Types, Knows, RequestsKnow, PaymentsFit, OneCheckout, PlanIsPaidFor,
                IsFor, PaymentStatus, Checking, Leaving, First, Recurring
    <2>3. OneCheckout'
        BY <1>0, <1>21 DEF ReplaceOthers, SetStatus, Slip, Goto, Types, OneCheckout
    <2>4. PaymentsFit'
        <3>1. \A r \in Rows : status[r] # None => status'[r] # None
            BY <1>0, <1>21
            DEF ReplaceOthers, SetStatus, Types, RequestsKnow, Knows, RowStatus, Checking, Leaving, First,
                Recurring
        <3>2. QED
            BY <1>0, <1>21, <3>1
            DEF ReplaceOthers, Slip, Goto, Types, PaymentsFit, IsFor, RequestsKnow, Knows, PlanIsPaidFor,
                PaymentStatus, Checking, Leaving, First, Recurring
    <2>5. PlanIsPaidFor'
        BY <1>0, <1>21
        DEF ReplaceOthers, SetStatus, Slip, Goto, Types, PlanIsPaidFor, RequestsKnow, Knows, PaymentsFit,
            IsFor, PaymentStatus, Checking, Leaving, First, Recurring
    <2>6. QED
        BY <2>1, <2>2, <2>3, <2>4, <2>5
<1>22. ASSUME NEW w \in Workers, ActivatePaid(w)
      PROVE  Types' /\ RequestsKnow' /\ OneCheckout' /\ PaymentsFit' /\ PlanIsPaidFor'
    <2>1. Types'
        BY <1>0, <1>22
        DEF ActivatePaid, SetStatus, Slip, Revival, Goto, Types, RowStatus, PaymentStatus, Positions, Knows,
            RequestsKnow, Checking, Leaving, First, Recurring
    <2>2. RequestsKnow'
        <3>1. \A r \in Rows : status[r] # None => status'[r] # None
            BY <1>0, <1>22
            DEF ActivatePaid, SetStatus, Types, RequestsKnow, Knows, RowStatus, Checking, Leaving, First,
                Recurring
        <3>2. QED
            BY <1>0, <1>22, <3>1
            DEF ActivatePaid, Slip, Revival, Goto, Types, Knows, RequestsKnow, PaymentsFit, OneCheckout,
                PlanIsPaidFor, IsFor, PaymentStatus, Checking, Leaving, First, Recurring
    <2>3. OneCheckout'
        BY <1>0, <1>22 DEF ActivatePaid, SetStatus, Slip, Revival, Goto, Types, OneCheckout
    <2>4. PaymentsFit'
        <3>1. \A r \in Rows : status[r] # None => status'[r] # None
            BY <1>0, <1>22
            DEF ActivatePaid, SetStatus, Types, RequestsKnow, Knows, RowStatus, Checking, Leaving, First,
                Recurring
        <3>2. QED
            BY <1>0, <1>22, <3>1
            DEF ActivatePaid, Slip, Revival, Goto, Types, PaymentsFit, IsFor, RequestsKnow, Knows,
                PlanIsPaidFor, PaymentStatus, Checking, Leaving, First, Recurring
    <2>5. PlanIsPaidFor'
        BY <1>0, <1>22
        DEF ActivatePaid, SetStatus, Slip, Revival, Goto, Types, PlanIsPaidFor, RequestsKnow, Knows,
            PaymentsFit, IsFor, PaymentStatus, Checking, Leaving, First, Recurring
    <2>6. QED
        BY <2>1, <2>2, <2>3, <2>4, <2>5
<1>23. ASSUME NEW w \in Workers, SetPlan(w)
      PROVE  Types' /\ RequestsKnow' /\ OneCheckout' /\ PaymentsFit' /\ PlanIsPaidFor'
    <2>1. Types'
        BY <1>0, <1>23
        DEF SetPlan, Answer, Rest, Types, RowStatus, PaymentStatus, Positions, Knows, RequestsKnow, Checking,
            Leaving, First, Recurring
    <2>2. RequestsKnow'
        BY <1>0, <1>23
        DEF SetPlan, Answer, Rest, Types, Knows, RequestsKnow, PaymentsFit, OneCheckout, PlanIsPaidFor, IsFor,
            PaymentStatus, RowStatus, Checking, Leaving, First, Recurring
    <2>3. OneCheckout'
        BY <1>0, <1>23 DEF SetPlan, Answer, Rest, Types, OneCheckout
    <2>4. PaymentsFit'
        BY <1>0, <1>23
        DEF SetPlan, Answer, Rest, Types, PaymentsFit, IsFor, RequestsKnow, Knows, PlanIsPaidFor,
            PaymentStatus, Checking, Leaving, First, Recurring
    <2>5. PlanIsPaidFor'
        BY <1>0, <1>23
        DEF SetPlan, Answer, Rest, Types, PlanIsPaidFor, RequestsKnow, Knows, PaymentsFit, IsFor,
            PaymentStatus, Checking, Leaving, First, Recurring
    <2>6. QED
        BY <2>1, <2>2, <2>3, <2>4, <2>5
<1>24. ASSUME NEW w \in Workers, LookForInvoice(w)
      PROVE  Types' /\ RequestsKnow' /\ OneCheckout' /\ PaymentsFit' /\ PlanIsPaidFor'
    <2>1. Types'
        BY <1>0, <1>24
        DEF LookForInvoice, InvoicesOf, Types, RowStatus, PaymentStatus, Positions, Knows, RequestsKnow,
            Checking, Leaving, First, Recurring
    <2>2. RequestsKnow'
        BY <1>0, <1>24
        DEF LookForInvoice, InvoicesOf, Types, Knows, RequestsKnow, PaymentsFit, OneCheckout, PlanIsPaidFor,
            IsFor, PaymentStatus, RowStatus, Checking, Leaving, First, Recurring
    <2>3. OneCheckout'
        BY <1>0, <1>24 DEF LookForInvoice, InvoicesOf, Types, OneCheckout
    <2>4. PaymentsFit'
        BY <1>0, <1>24
        DEF LookForInvoice, InvoicesOf, Types, PaymentsFit, IsFor, RequestsKnow, Knows, PlanIsPaidFor,
            PaymentStatus, Checking, Leaving, First, Recurring
    <2>5. PlanIsPaidFor'
        BY <1>0, <1>24
        DEF LookForInvoice, InvoicesOf, Types, PlanIsPaidFor, RequestsKnow, Knows, PaymentsFit, IsFor,
            PaymentStatus, Checking, Leaving, First, Recurring
    <2>6. QED
        BY <2>1, <2>2, <2>3, <2>4, <2>5
<1>25. ASSUME NEW w \in Workers, EnterNew(w)
      PROVE  Types' /\ RequestsKnow' /\ OneCheckout' /\ PaymentsFit' /\ PlanIsPaidFor'
    <2>1. Types'
        BY <1>0, <1>25
        DEF EnterNew, InvoicesOf, Rest, Goto, Types, RowStatus, PaymentStatus, Positions, Knows, RequestsKnow,
            Checking, Leaving, First, Recurring
    <2>2. RequestsKnow'
        BY <1>0, <1>25
        DEF EnterNew, InvoicesOf, Rest, Goto, Types, Knows, RequestsKnow, PaymentsFit, OneCheckout,
            PlanIsPaidFor, IsFor, PaymentStatus, RowStatus, Checking, Leaving, First, Recurring
    <2>3. OneCheckout'
        BY <1>0, <1>25 DEF EnterNew, InvoicesOf, Rest, Goto, Types, OneCheckout
    <2>4. PaymentsFit'
        BY <1>0, <1>25
        DEF EnterNew, InvoicesOf, Rest, Goto, Types, PaymentsFit, IsFor, RequestsKnow, Knows, PlanIsPaidFor,
            PaymentStatus, Checking, Leaving, First, Recurring
    <2>5. PlanIsPaidFor'
        BY <1>0, <1>25
        DEF EnterNew, InvoicesOf, Rest, Goto, Types, PlanIsPaidFor, RequestsKnow, Knows, PaymentsFit, IsFor,
            PaymentStatus, Checking, Leaving, First, Recurring
    <2>6. QED
        BY <2>1, <2>2, <2>3, <2>4, <2>5
<1>26. ASSUME NEW w \in Workers, EnterStatus(w)
      PROVE  Types' /\ RequestsKnow' /\ OneCheckout' /\ PaymentsFit' /\ PlanIsPaidFor'
    <2>1. Types'
        BY <1>0, <1>26
        DEF EnterStatus, Goto, Types, RowStatus, PaymentStatus, Positions, Knows, RequestsKnow, Checking,
            Leaving, First, Recurring
    <2>2. RequestsKnow'
        BY <1>0, <1>26
        DEF EnterStatus, Goto, Types, Knows, RequestsKnow, PaymentsFit, OneCheckout, PlanIsPaidFor, IsFor,
            PaymentStatus, RowStatus, Checking, Leaving, First, Recurring
    <2>3. OneCheckout'
        BY <1>0, <1>26 DEF EnterStatus, Goto, Types, OneCheckout
    <2>4. PaymentsFit'
        BY <1>0, <1>26
        DEF EnterStatus, Goto, Types, PaymentsFit, IsFor, RequestsKnow, Knows, PlanIsPaidFor, PaymentStatus,
            Checking, Leaving, First, Recurring
    <2>5. PlanIsPaidFor'
        BY <1>0, <1>26
        DEF EnterStatus, Goto, Types, PlanIsPaidFor, RequestsKnow, Knows, PaymentsFit, IsFor, PaymentStatus,
            Checking, Leaving, First, Recurring
    <2>6. QED
        BY <2>1, <2>2, <2>3, <2>4, <2>5
<1>27. ASSUME NEW w \in Workers, Renew(w)
      PROVE  Types' /\ RequestsKnow' /\ OneCheckout' /\ PaymentsFit' /\ PlanIsPaidFor'
    <2>1. Types'
        <3>1. Renewed(w) \in RowStatus
            BY <1>0 DEF Renewed, Types, RowStatus
        <3>2. QED
            BY <1>0, <1>27, <3>1 DEF Renew, SetStatus, Answer, Rest, Types, RowStatus, PaymentStatus, Positions
    <2>2. RequestsKnow'
        <3>0. Renewed(w) \in RowStatus
            BY <1>0 DEF Renewed, Types, RowStatus
        <3>1. \A r \in Rows : status[r] # None => status'[r] # None
            BY <1>0, <1>27, <3>0 DEF Renew, SetStatus, Types
        <3>8. Knows(w)'
            BY <1>0, <1>27, <3>1
            DEF Renew, Answer, Rest, Types, Knows, RequestsKnow, PaymentsFit, IsFor, PaymentStatus, RowStatus,
                Checking, Leaving, First, Recurring
        <3>9. \A v \in Workers \ {w} : Knows(v)'
            BY <1>0, <1>27, <3>1
            DEF Renew, Answer, Rest, Types, Knows, RequestsKnow, PaymentsFit, IsFor, PaymentStatus, RowStatus,
                Checking, Leaving, First, Recurring
        <3>10. QED
            BY <3>8, <3>9 DEF RequestsKnow
    <2>3. OneCheckout'
        BY <1>0, <1>27
        DEF Renew, SetStatus, Slip, Revival, Renewed, BecamePaid, Answer, Rest, Types, OneCheckout
    <2>4. PaymentsFit'
        <3>0. Renewed(w) \in RowStatus
            BY <1>0 DEF Renewed, Types, RowStatus
        <3>1. \A r \in Rows : status[r] # None => status'[r] # None
            BY <1>0, <1>27, <3>0 DEF Renew, SetStatus, Types
        <3>2. QED
            BY <1>0, <1>27, <3>1
            DEF Renew, Slip, Revival, Answer, Rest, Types, PaymentsFit, IsFor,
                RequestsKnow, Knows, PlanIsPaidFor, PaymentStatus, Checking, Leaving, First, Recurring
    <2>5. PlanIsPaidFor'
        BY <1>0, <1>27
        DEF Renew, SetStatus, Slip, Revival, Renewed, BecamePaid, Answer, Rest, Types, PlanIsPaidFor,
            RequestsKnow, Knows, PaymentsFit, IsFor, PaymentStatus, Checking, Leaving, First, Recurring
    <2>6. QED
        BY <2>1, <2>2, <2>3, <2>4, <2>5
<1>28. ASSUME NEW w \in Workers, Stop(w)
      PROVE  Types' /\ RequestsKnow' /\ OneCheckout' /\ PaymentsFit' /\ PlanIsPaidFor'
    <2>1. Types'
        BY <1>0, <1>28
        DEF Stop, Rest, Types, RowStatus, PaymentStatus, Positions, Knows, RequestsKnow, Checking, Leaving,
            First, Recurring
    <2>2. RequestsKnow'
        BY <1>0, <1>28
        DEF Stop, Rest, Types, Knows, RequestsKnow, PaymentsFit, OneCheckout, PlanIsPaidFor, IsFor,
            PaymentStatus, RowStatus, Checking, Leaving, First, Recurring
    <2>3. OneCheckout'
        BY <1>0, <1>28 DEF Stop, Rest, Types, OneCheckout
    <2>4. PaymentsFit'
        BY <1>0, <1>28
        DEF Stop, Rest, Types, PaymentsFit, IsFor, RequestsKnow, Knows, PlanIsPaidFor, PaymentStatus, Checking,
            Leaving, First, Recurring
    <2>5. PlanIsPaidFor'
        BY <1>0, <1>28
        DEF Stop, Rest, Types, PlanIsPaidFor, RequestsKnow, Knows, PaymentsFit, IsFor, PaymentStatus, Checking,
            Leaving, First, Recurring
    <2>6. QED
        BY <2>1, <2>2, <2>3, <2>4, <2>5
<1>29. ASSUME NEW p \in Payments, Decide(p)
      PROVE  Types' /\ RequestsKnow' /\ OneCheckout' /\ PaymentsFit' /\ PlanIsPaidFor'
    <2>1. Types'
        BY <1>0, <1>29
        DEF Decide, Slip, Types, RowStatus, PaymentStatus, Positions, Knows, RequestsKnow, Checking, Leaving,
            First, Recurring
    <2>2. RequestsKnow'
        BY <1>0, <1>29
        DEF Decide, Slip, Types, Knows, RequestsKnow, PaymentsFit, OneCheckout, PlanIsPaidFor, IsFor,
            PaymentStatus, RowStatus, Checking, Leaving, First, Recurring
    <2>3. OneCheckout'
        BY <1>0, <1>29 DEF Decide, Slip, Types, OneCheckout
    <2>4. PaymentsFit'
        BY <1>0, <1>29
        DEF Decide, Slip, Types, PaymentsFit, IsFor, RequestsKnow, Knows, PlanIsPaidFor, PaymentStatus,
            Checking, Leaving, First, Recurring
    <2>5. PlanIsPaidFor'
        BY <1>0, <1>29
        DEF Decide, Slip, Types, PlanIsPaidFor, RequestsKnow, Knows, PaymentsFit, IsFor, PaymentStatus,
            Checking, Leaving, First, Recurring
    <2>6. QED
        BY <2>1, <2>2, <2>3, <2>4, <2>5
<1>30. ASSUME NEW c \in Charges, NEW r \in Paid, Charge(c, r)
      PROVE  Types' /\ RequestsKnow' /\ OneCheckout' /\ PaymentsFit' /\ PlanIsPaidFor'
    <2>1. Types'
        BY <1>0, <1>30
        DEF Charge, Types, RowStatus, PaymentStatus, Positions, Knows, RequestsKnow, Checking, Leaving, First,
            Recurring
    <2>2. RequestsKnow'
        BY <1>0, <1>30
        DEF Charge, Types, Knows, RequestsKnow, PaymentsFit, OneCheckout, PlanIsPaidFor, IsFor, PaymentStatus,
            RowStatus, Checking, Leaving, First, Recurring
    <2>3. OneCheckout'
        BY <1>0, <1>30 DEF Charge, Types, OneCheckout
    <2>4. PaymentsFit'
        BY <1>0, <1>30
        DEF Charge, Types, PaymentsFit, IsFor, RequestsKnow, Knows, PlanIsPaidFor, PaymentStatus, Checking,
            Leaving, First, Recurring
    <2>5. PlanIsPaidFor'
        BY <1>0, <1>30
        DEF Charge, Types, PlanIsPaidFor, RequestsKnow, Knows, PaymentsFit, IsFor, PaymentStatus, Checking,
            Leaving, First, Recurring
    <2>6. QED
        BY <2>1, <2>2, <2>3, <2>4, <2>5
<1>31. QED
    <2>1. CASE \E w \in Workers : \E r \in Paid : Checkout(w, r)
        BY <2>1, <1>1
    <2>2. CASE \E w \in Workers : \E f \in Free : Downgrade(w, f)
        BY <2>2, <1>2
    <2>3. CASE \E w \in Workers : \E p \in Payments : Deliver(w, p) \/ Redeliver(w, p)
        BY <2>3, <1>3, <1>4
    <2>4. CASE \E w \in Workers : Reconcile(w)
        BY <2>4, <1>5
    <2>5. CASE \E w \in Workers : CheckoutStep(w)
        BY <2>5, <1>6, <1>7, <1>8, <1>9, <1>10, <1>11 DEF CheckoutStep
    <2>6. CASE \E w \in Workers : DowngradeStep(w)
        BY <2>6, <1>12, <1>13, <1>14, <1>15 DEF DowngradeStep
    <2>7. CASE \E w \in Workers : WebhookStep(w)
        BY <2>7, <1>16, <1>17, <1>18, <1>19, <1>20, <1>21, <1>22, <1>23, <1>24, <1>25, <1>26, <1>27 DEF WebhookStep
    <2>8. CASE \E w \in Workers : Stop(w)
        BY <2>8, <1>28
    <2>9. CASE \E p \in Payments : Decide(p)
        BY <2>9, <1>29
    <2>10. CASE \E c \in Charges, r \in Paid : Charge(c, r)
        BY <2>10, <1>30
    <2>11. QED
        BY <2>1, <2>2, <2>3, <2>4, <2>5, <2>6, <2>7, <2>8, <2>9, <2>10 DEF Next

LEMMA PlanAlways == Spec => []PlanInv
<1>1. PlanInv /\ [Next]_vars => PlanInv'
    <2> SUFFICES ASSUME PlanInv, [Next]_vars
                 PROVE  PlanInv'
        OBVIOUS
    <2>1. CASE Next
        BY <2>1, NextPlan DEF PlanInv
    <2>2. CASE UNCHANGED vars
        BY <2>2 DEF PlanInv, Types, RequestsKnow, Knows, OneCheckout, PaymentsFit, PlanIsPaidFor, IsFor, vars, rowVars,
            mollieVars, workVars, historyVars
    <2>3. QED
        BY <2>1, <2>2
<1>2. QED
    BY InitPlan, <1>1, PTL DEF Spec

(* The organisation has a plan, and a row a standing order, only for a paid first payment, in every state. *)
THEOREM PlanIsPaidForHolds == Spec => []PlanIsPaidFor
<1>1. PlanInv => PlanIsPaidFor
    BY DEF PlanInv
<1>2. QED
    BY PlanAlways, <1>1, PTL

-----------------------------------------------------------------------------
(***************************************************************************)
(* Whoever has ordered recurring charges and not yet said so on the row.   *)
(* The row's standing orders are at least as many as these, and one more   *)
(* when the row names one: so cancelling the one it names never makes a    *)
(* negative number of them.                                                *)
(***************************************************************************)
Ordering(r) == {w \in Workers : pc[w] \in {"replace", "activate"} /\ about[w] = r}

OrdersFit ==
    \A r \in Rows :
        /\ standing[r] \in Nat
        /\ standing[r] >= Cardinality(Ordering(r)) + (IF orderId[r] = "live" THEN 1 ELSE 0)

LEMMA OrderingIsFinite ==
    ASSUME NEW r
    PROVE  /\ IsFiniteSet(Ordering(r)) /\ Cardinality(Ordering(r)) \in Nat
           /\ IsFiniteSet(Ordering(r)') /\ Cardinality(Ordering(r)') \in Nat
<1>1. IsFiniteSet(Workers)
    BY BoundsAssumption, FS_Interval DEF Workers
<1>2. Ordering(r) \subseteq Workers /\ Ordering(r)' \subseteq Workers
    BY DEF Ordering
<1>3. IsFiniteSet(Ordering(r)) /\ IsFiniteSet(Ordering(r)')
    BY <1>1, <1>2, FS_Subset
<1>4. QED
    BY <1>3, FS_CardinalityType

(* A step of one request changes the set at most by that request. *)
LEMMA OrderingChanges ==
    ASSUME NEW r, NEW w \in Workers, \A v \in Workers \ {w} : pc'[v] = pc[v] /\ about'[v] = about[v]
    PROVE  /\ Cardinality(Ordering(r)') <= Cardinality(Ordering(r)) + 1
           /\ w \notin Ordering(r)' \/ w \in Ordering(r) => Cardinality(Ordering(r)') <= Cardinality(Ordering(r))
           /\ w \notin Ordering(r)' /\ w \in Ordering(r) => Cardinality(Ordering(r)') = Cardinality(Ordering(r)) - 1
<1> USE OrderingIsFinite
<1>1. Ordering(r)' \ {w} = Ordering(r) \ {w}
    BY DEF Ordering
<1>2. CASE w \in Ordering(r)' /\ w \notin Ordering(r)
    <2>1. Ordering(r)' = Ordering(r) \cup {w}
        BY <1>1, <1>2
    <2>2. Cardinality(Ordering(r)') = Cardinality(Ordering(r)) + 1
        BY <2>1, <1>2, FS_AddElement
    <2>3. QED
        BY <2>2, <1>2
<1>3. CASE w \notin Ordering(r)' /\ w \in Ordering(r)
    <2>1. Ordering(r)' = Ordering(r) \ {w}
        BY <1>1, <1>3
    <2>2. Cardinality(Ordering(r)') = Cardinality(Ordering(r)) - 1
        BY <2>1, <1>3, FS_RemoveElement
    <2>3. QED
        BY <2>2, <1>3
<1>4. CASE w \in Ordering(r)' <=> w \in Ordering(r)
    <2>1. Ordering(r)' = Ordering(r)
        BY <1>1, <1>4
    <2>2. QED
        BY <2>1
<1>5. QED
    BY <1>2, <1>3, <1>4

(* A request that is not ordering afterwards, and leaves orders alone. *)
LEMMA OrdersStay ==
    ASSUME OrdersFit, NEW w \in Workers, UNCHANGED <<standing, orderId>>, pc'[w] \notin {"replace", "activate"},
           \A v \in Workers \ {w} : pc'[v] = pc[v] /\ about'[v] = about[v]
    PROVE  OrdersFit'
<1> SUFFICES ASSUME NEW r \in Rows
             PROVE  standing[r] \in Nat /\ standing[r] >= Cardinality(Ordering(r)') + (IF orderId[r] = "live" THEN 1 ELSE 0)
    BY DEF OrdersFit
<1>1. w \notin Ordering(r)'
    BY DEF Ordering
<1>2. Cardinality(Ordering(r)') <= Cardinality(Ordering(r))
    BY <1>1, OrderingChanges
<1>3. QED
    BY <1>2, OrderingIsFinite DEF OrdersFit

(* Every step keeps that. *)
LEMMA NextOrders == PlanInv /\ OrdersFit /\ Next => OrdersFit'
<1> SUFFICES ASSUME PlanInv /\ OrdersFit, Next
             PROVE  OrdersFit'
    OBVIOUS
<1> USE StatusAssumption, NumbersAssumption, PlanOfAssumption, RegisteredAssumption, NamesAssumption, NoneAssumption
    DEF Happens, rowVars, mollieVars, workVars, historyVars, Payments, Rows
<1>0. Types /\ OrdersFit
    BY DEF PlanInv
<1>1. ASSUME NEW w \in Workers, NEW r \in Paid, Checkout(w, r)
      PROVE  OrdersFit'
    <2>1. pc'[w] \notin {"replace", "activate"} /\ UNCHANGED <<standing, orderId>>
        BY <1>0, <1>1 DEF Checkout, Takes, Unused, Types, Positions
    <2>2. \A v \in Workers \ {w} : pc'[v] = pc[v] /\ about'[v] = about[v]
        BY <1>0, <1>1 DEF Checkout, Takes, Unused, Types
    <2>3. QED
        BY <1>0, <2>1, <2>2, OrdersStay
<1>2. ASSUME NEW w \in Workers, NEW f \in Free, Downgrade(w, f)
      PROVE  OrdersFit'
    <2>1. pc'[w] \notin {"replace", "activate"} /\ UNCHANGED <<standing, orderId>>
        BY <1>0, <1>2 DEF Downgrade, Takes, Unused, Overlap, Types, Positions
    <2>2. \A v \in Workers \ {w} : pc'[v] = pc[v] /\ about'[v] = about[v]
        BY <1>0, <1>2 DEF Downgrade, Takes, Unused, Overlap, Types
    <2>3. QED
        BY <1>0, <2>1, <2>2, OrdersStay
<1>3. ASSUME NEW w \in Workers, NEW p \in Payments, Deliver(w, p)
      PROVE  OrdersFit'
    <2>1. pc'[w] \notin {"replace", "activate"} /\ UNCHANGED <<standing, orderId>>
        BY <1>0, <1>3 DEF Deliver, Receive, Takes, Types, Positions
    <2>2. \A v \in Workers \ {w} : pc'[v] = pc[v] /\ about'[v] = about[v]
        BY <1>0, <1>3 DEF Deliver, Receive, Takes, Types
    <2>3. QED
        BY <1>0, <2>1, <2>2, OrdersStay
<1>4. ASSUME NEW w \in Workers, NEW p \in Payments, Redeliver(w, p)
      PROVE  OrdersFit'
    <2>1. pc'[w] \notin {"replace", "activate"} /\ UNCHANGED <<standing, orderId>>
        BY <1>0, <1>4 DEF Redeliver, Receive, Takes, Types, Positions
    <2>2. \A v \in Workers \ {w} : pc'[v] = pc[v] /\ about'[v] = about[v]
        BY <1>0, <1>4 DEF Redeliver, Receive, Takes, Types
    <2>3. QED
        BY <1>0, <2>1, <2>2, OrdersStay
<1>5. ASSUME NEW w \in Workers, Reconcile(w)
      PROVE  OrdersFit'
    <2>1. pc'[w] \notin {"replace", "activate"} /\ UNCHANGED <<standing, orderId>>
        BY <1>0, <1>5 DEF Reconcile, Receive, Takes, Types, Positions
    <2>2. \A v \in Workers \ {w} : pc'[v] = pc[v] /\ about'[v] = about[v]
        BY <1>0, <1>5 DEF Reconcile, Receive, Takes, Types
    <2>3. QED
        BY <1>0, <2>1, <2>2, OrdersStay
<1>6. ASSUME NEW w \in Workers, DropPending(w)
      PROVE  OrdersFit'
    <2>1. pc'[w] \notin {"replace", "activate"} /\ UNCHANGED <<standing, orderId>>
        BY <1>0, <1>6 DEF DropPending, SetStatus, Goto, Types, Positions
    <2>2. \A v \in Workers \ {w} : pc'[v] = pc[v] /\ about'[v] = about[v]
        BY <1>0, <1>6 DEF DropPending, SetStatus, Goto, Types
    <2>3. QED
        BY <1>0, <2>1, <2>2, OrdersStay
<1>7. ASSUME NEW w \in Workers, OpenRow(w)
      PROVE  OrdersFit'
    <2>1. pc'[w] \notin {"replace", "activate"} /\ UNCHANGED <<standing, orderId>>
        BY <1>0, <1>7 DEF OpenRow, SetStatus, Goto, Types, Positions
    <2>2. \A v \in Workers \ {w} : pc'[v] = pc[v] /\ about'[v] = about[v]
        BY <1>0, <1>7 DEF OpenRow, SetStatus, Goto, Types
    <2>3. QED
        BY <1>0, <2>1, <2>2, OrdersStay
<1>8. ASSUME NEW w \in Workers, BillFirst(w)
      PROVE  OrdersFit'
    <2>1. pc'[w] \notin {"replace", "activate"} /\ UNCHANGED <<standing, orderId>>
        BY <1>0, <1>8 DEF BillFirst, Goto, Types, Positions
    <2>2. \A v \in Workers \ {w} : pc'[v] = pc[v] /\ about'[v] = about[v]
        BY <1>0, <1>8 DEF BillFirst, Goto, Types
    <2>3. QED
        BY <1>0, <2>1, <2>2, OrdersStay
<1>9. ASSUME NEW w \in Workers, Link(w)
      PROVE  OrdersFit'
    <2>1. pc'[w] \notin {"replace", "activate"} /\ UNCHANGED <<standing, orderId>>
        BY <1>0, <1>9 DEF Link, Goto, Types, Positions
    <2>2. \A v \in Workers \ {w} : pc'[v] = pc[v] /\ about'[v] = about[v]
        BY <1>0, <1>9 DEF Link, Goto, Types
    <2>3. QED
        BY <1>0, <2>1, <2>2, OrdersStay
<1>10. ASSUME NEW w \in Workers, StoreLink(w)
      PROVE  OrdersFit'
    <2>1. pc'[w] \notin {"replace", "activate"} /\ UNCHANGED <<standing, orderId>>
        BY <1>0, <1>10 DEF StoreLink, Goto, Types, Positions
    <2>2. \A v \in Workers \ {w} : pc'[v] = pc[v] /\ about'[v] = about[v]
        BY <1>0, <1>10 DEF StoreLink, Goto, Types
    <2>3. QED
        BY <1>0, <2>1, <2>2, OrdersStay
<1>11. ASSUME NEW w \in Workers, StampInvoice(w)
      PROVE  OrdersFit'
    <2>1. pc'[w] \notin {"replace", "activate"} /\ UNCHANGED <<standing, orderId>>
        BY <1>0, <1>11 DEF StampInvoice, Rest, Types, Positions
    <2>2. \A v \in Workers \ {w} : pc'[v] = pc[v] /\ about'[v] = about[v]
        BY <1>0, <1>11 DEF StampInvoice, Rest, Types
    <2>3. QED
        BY <1>0, <2>1, <2>2, OrdersStay
<1>12. ASSUME NEW w \in Workers, CancelOrder(w)
      PROVE  OrdersFit'
    <2>1. \A v \in Workers \ {w} : pc'[v] = pc[v] /\ about'[v] = about[v]
        BY <1>0, <1>12 DEF CancelOrder, Goto, Rest, Types
    <2>2. SUFFICES ASSUME NEW r \in Rows
                   PROVE  standing'[r] \in Nat /\ standing'[r] >= Cardinality(Ordering(r)') + (IF orderId'[r] = "live" THEN 1 ELSE 0)
        BY DEF OrdersFit
    <2>3. w \notin Ordering(r)'
        BY <1>0, <1>12 DEF CancelOrder, Goto, Rest, Types, Ordering
    <2>4. Cardinality(Ordering(r)') <= Cardinality(Ordering(r))
        BY <2>1, <2>3, OrderingChanges
    <2> DEFINE named == {q \in Rows : IsLatest(q) /\ orderId[q] # "none"}
    <2>5. CASE \E q \in named : orderId[q] = "cancelled"
        <3>1. UNCHANGED <<standing, orderId>>
            BY <1>12, <2>5 DEF CancelOrder
        <3>2. QED
            BY <1>0, <2>4, <3>1, OrderingIsFinite DEF OrdersFit
    <2>6. CASE ~\E q \in named : orderId[q] = "cancelled"
        <3>1. /\ orderId' = [q \in Rows |-> IF q \in named THEN "cancelled" ELSE orderId[q]]
              /\ standing' = [q \in Rows |-> IF q \in named THEN standing[q] - 1 ELSE standing[q]]
            BY <1>12, <2>6 DEF CancelOrder
        <3>2. r \in named => orderId[r] = "live"
            BY <1>0, <2>6 DEF Types
        <3> HIDE DEF named
        <3>3. QED
            BY <1>0, <2>4, <3>1, <3>2, OrderingIsFinite DEF OrdersFit
    <2>7. QED
        BY <2>5, <2>6
<1>13. ASSUME NEW w \in Workers, LeavePlan(w)
      PROVE  OrdersFit'
    <2>1. pc'[w] \notin {"replace", "activate"} /\ UNCHANGED <<standing, orderId>>
        BY <1>0, <1>13 DEF LeavePlan, SetStatus, Goto, Types, Positions
    <2>2. \A v \in Workers \ {w} : pc'[v] = pc[v] /\ about'[v] = about[v]
        BY <1>0, <1>13 DEF LeavePlan, SetStatus, Goto, Types
    <2>3. QED
        BY <1>0, <2>1, <2>2, OrdersStay
<1>14. ASSUME NEW w \in Workers, StartFree(w)
      PROVE  OrdersFit'
    <2>1. pc'[w] \notin {"replace", "activate"} /\ UNCHANGED <<standing, orderId>>
        BY <1>0, <1>14 DEF StartFree, SetStatus, Goto, Types, Positions
    <2>2. \A v \in Workers \ {w} : pc'[v] = pc[v] /\ about'[v] = about[v]
        BY <1>0, <1>14 DEF StartFree, SetStatus, Goto, Types
    <2>3. QED
        BY <1>0, <2>1, <2>2, OrdersStay
<1>15. ASSUME NEW w \in Workers, SetFree(w)
      PROVE  OrdersFit'
    <2>1. pc'[w] \notin {"replace", "activate"} /\ UNCHANGED <<standing, orderId>>
        BY <1>0, <1>15 DEF SetFree, Rest, Types, Positions
    <2>2. \A v \in Workers \ {w} : pc'[v] = pc[v] /\ about'[v] = about[v]
        BY <1>0, <1>15 DEF SetFree, Rest, Types
    <2>3. QED
        BY <1>0, <2>1, <2>2, OrdersStay
<1>16. ASSUME NEW w \in Workers, Find(w)
      PROVE  OrdersFit'
    <2>1. pc'[w] \notin {"replace", "activate"} /\ UNCHANGED <<standing, orderId>>
        BY <1>0, <1>16 DEF Find, Slip, Overlap, Types, Positions
    <2>2. \A v \in Workers \ {w} : pc'[v] = pc[v] /\ about'[v] = about[v]
        BY <1>0, <1>16 DEF Find, Slip, Overlap, Types
    <2>3. QED
        BY <1>0, <2>1, <2>2, OrdersStay
<1>17. ASSUME NEW w \in Workers, NotePayment(w)
      PROVE  OrdersFit'
    <2>1. pc'[w] \notin {"replace", "activate"} /\ UNCHANGED <<standing, orderId>>
        BY <1>0, <1>17 DEF NotePayment, Goto, Types, Positions
    <2>2. \A v \in Workers \ {w} : pc'[v] = pc[v] /\ about'[v] = about[v]
        BY <1>0, <1>17 DEF NotePayment, Goto, Types
    <2>3. QED
        BY <1>0, <2>1, <2>2, OrdersStay
<1>18. ASSUME NEW w \in Workers, BookFirst(w)
      PROVE  OrdersFit'
    <2>1. pc'[w] \notin {"replace", "activate"} /\ UNCHANGED <<standing, orderId>>
        BY <1>0, <1>18 DEF BookFirst, Rest, Goto, Types, Positions
    <2>2. \A v \in Workers \ {w} : pc'[v] = pc[v] /\ about'[v] = about[v]
        BY <1>0, <1>18 DEF BookFirst, Rest, Goto, Types
    <2>3. QED
        BY <1>0, <2>1, <2>2, OrdersStay
<1>19. ASSUME NEW w \in Workers, Settle(w)
      PROVE  OrdersFit'
    <2>1. pc'[w] \notin {"replace", "activate"} /\ UNCHANGED <<standing, orderId>>
        BY <1>0, <1>19 DEF Settle, Goto, SetStatus, Answer, Rest, Revival, Types, Positions
    <2>2. \A v \in Workers \ {w} : pc'[v] = pc[v] /\ about'[v] = about[v]
        BY <1>0, <1>19 DEF Settle, Goto, SetStatus, Answer, Rest, Revival, Types
    <2>3. QED
        BY <1>0, <2>1, <2>2, OrdersStay
<1>20. ASSUME NEW w \in Workers, OrderRecurring(w)
      PROVE  OrdersFit'
    <2>1. \A v \in Workers \ {w} : pc'[v] = pc[v] /\ about'[v] = about[v]
        BY <1>0, <1>20 DEF OrderRecurring, Goto, Types
    <2>2. SUFFICES ASSUME NEW r \in Rows
                   PROVE  standing'[r] \in Nat /\ standing'[r] >= Cardinality(Ordering(r)') + (IF orderId'[r] = "live" THEN 1 ELSE 0)
        BY DEF OrdersFit
    <2>3. CASE r = about[w]
        <3>1. standing'[r] = standing[r] + 1 /\ orderId' = orderId
            BY <1>0, <1>20, <2>3 DEF OrderRecurring, Types
        <3>2. Cardinality(Ordering(r)') <= Cardinality(Ordering(r)) + 1
            BY <2>1, OrderingChanges
        <3>3. QED
            BY <1>0, <3>1, <3>2, OrderingIsFinite DEF OrdersFit
    <2>4. CASE r # about[w]
        <3>1. standing'[r] = standing[r] /\ orderId' = orderId /\ w \notin Ordering(r)'
            BY <1>0, <1>20, <2>4 DEF OrderRecurring, Goto, Types, Ordering
        <3>2. Cardinality(Ordering(r)') <= Cardinality(Ordering(r))
            BY <2>1, <3>1, OrderingChanges
        <3>3. QED
            BY <1>0, <3>1, <3>2, OrderingIsFinite DEF OrdersFit
    <2>5. QED
        BY <2>3, <2>4
<1>21. ASSUME NEW w \in Workers, ReplaceOthers(w)
      PROVE  OrdersFit'
    <2>1. \A v \in Workers \ {w} : pc'[v] = pc[v] /\ about'[v] = about[v]
        BY <1>0, <1>21 DEF ReplaceOthers, Slip, Goto, Types
    <2>2. SUFFICES ASSUME NEW r \in Rows
                   PROVE  standing'[r] \in Nat /\ standing'[r] >= Cardinality(Ordering(r)') + (IF orderId'[r] = "live" THEN 1 ELSE 0)
        BY DEF OrdersFit
    <2>3. w \notin Ordering(r)' \/ w \in Ordering(r)
        BY <1>0, <1>21 DEF ReplaceOthers, Slip, Goto, Types, Ordering
    <2>4. Cardinality(Ordering(r)') <= Cardinality(Ordering(r))
        BY <2>1, <2>3, OrderingChanges
    <2>5. UNCHANGED <<standing, orderId>>
        BY <1>21 DEF ReplaceOthers
    <2>6. QED
        BY <1>0, <2>4, <2>5, OrderingIsFinite DEF OrdersFit
<1>22. ASSUME NEW w \in Workers, ActivatePaid(w)
      PROVE  OrdersFit'
    <2>1. \A v \in Workers \ {w} : pc'[v] = pc[v] /\ about'[v] = about[v]
        BY <1>0, <1>22 DEF ActivatePaid, Slip, Goto, Types
    <2>2. SUFFICES ASSUME NEW r \in Rows
                   PROVE  standing'[r] \in Nat /\ standing'[r] >= Cardinality(Ordering(r)') + (IF orderId'[r] = "live" THEN 1 ELSE 0)
        BY DEF OrdersFit
    <2>3. standing' = standing
        BY <1>22 DEF ActivatePaid
    <2>4. w \notin Ordering(r)'
        BY <1>0, <1>22 DEF ActivatePaid, Goto, Types, Ordering
    <2>5. CASE r = about[w]
        <3>1. w \in Ordering(r)
            BY <1>22, <2>5 DEF ActivatePaid, Ordering
        <3>2. Cardinality(Ordering(r)') = Cardinality(Ordering(r)) - 1
            BY <2>1, <2>4, <3>1, OrderingChanges
        <3>3. QED
            BY <1>0, <2>3, <3>2, OrderingIsFinite DEF OrdersFit
    <2>6. CASE r # about[w]
        <3>1. orderId'[r] = orderId[r]
            BY <1>0, <1>22, <2>6 DEF ActivatePaid, Types
        <3>2. Cardinality(Ordering(r)') <= Cardinality(Ordering(r))
            BY <2>1, <2>4, OrderingChanges
        <3>3. QED
            BY <1>0, <2>3, <3>1, <3>2, OrderingIsFinite DEF OrdersFit
    <2>7. QED
        BY <2>5, <2>6
<1>23. ASSUME NEW w \in Workers, SetPlan(w)
      PROVE  OrdersFit'
    <2>1. pc'[w] \notin {"replace", "activate"} /\ UNCHANGED <<standing, orderId>>
        BY <1>0, <1>23 DEF SetPlan, Answer, Rest, Types, Positions
    <2>2. \A v \in Workers \ {w} : pc'[v] = pc[v] /\ about'[v] = about[v]
        BY <1>0, <1>23 DEF SetPlan, Answer, Rest, Types
    <2>3. QED
        BY <1>0, <2>1, <2>2, OrdersStay
<1>24. ASSUME NEW w \in Workers, LookForInvoice(w)
      PROVE  OrdersFit'
    <2>1. pc'[w] \notin {"replace", "activate"} /\ UNCHANGED <<standing, orderId>>
        BY <1>0, <1>24 DEF LookForInvoice, InvoicesOf, Types, Positions
    <2>2. \A v \in Workers \ {w} : pc'[v] = pc[v] /\ about'[v] = about[v]
        BY <1>0, <1>24 DEF LookForInvoice, InvoicesOf, Types
    <2>3. QED
        BY <1>0, <2>1, <2>2, OrdersStay
<1>25. ASSUME NEW w \in Workers, EnterNew(w)
      PROVE  OrdersFit'
    <2>1. pc'[w] \notin {"replace", "activate"} /\ UNCHANGED <<standing, orderId>>
        BY <1>0, <1>25 DEF EnterNew, InvoicesOf, Rest, Goto, Types, Positions
    <2>2. \A v \in Workers \ {w} : pc'[v] = pc[v] /\ about'[v] = about[v]
        BY <1>0, <1>25 DEF EnterNew, InvoicesOf, Rest, Goto, Types
    <2>3. QED
        BY <1>0, <2>1, <2>2, OrdersStay
<1>26. ASSUME NEW w \in Workers, EnterStatus(w)
      PROVE  OrdersFit'
    <2>1. pc'[w] \notin {"replace", "activate"} /\ UNCHANGED <<standing, orderId>>
        BY <1>0, <1>26 DEF EnterStatus, Goto, Types, Positions
    <2>2. \A v \in Workers \ {w} : pc'[v] = pc[v] /\ about'[v] = about[v]
        BY <1>0, <1>26 DEF EnterStatus, Goto, Types
    <2>3. QED
        BY <1>0, <2>1, <2>2, OrdersStay
<1>27. ASSUME NEW w \in Workers, Renew(w)
      PROVE  OrdersFit'
    <2>1. pc'[w] \notin {"replace", "activate"} /\ UNCHANGED <<standing, orderId>>
        BY <1>0, <1>27 DEF Renew, SetStatus, Slip, Revival, Renewed, BecamePaid, Answer, Rest, Types, Positions
    <2>2. \A v \in Workers \ {w} : pc'[v] = pc[v] /\ about'[v] = about[v]
        BY <1>0, <1>27 DEF Renew, SetStatus, Slip, Revival, Renewed, BecamePaid, Answer, Rest, Types
    <2>3. QED
        BY <1>0, <2>1, <2>2, OrdersStay
<1>28. ASSUME NEW w \in Workers, Stop(w)
      PROVE  OrdersFit'
    <2>1. pc'[w] \notin {"replace", "activate"} /\ UNCHANGED <<standing, orderId>>
        BY <1>0, <1>28 DEF Stop, Rest, Types, Positions
    <2>2. \A v \in Workers \ {w} : pc'[v] = pc[v] /\ about'[v] = about[v]
        BY <1>0, <1>28 DEF Stop, Rest, Types
    <2>3. QED
        BY <1>0, <2>1, <2>2, OrdersStay
<1>29. ASSUME NEW p \in Payments, Decide(p)
      PROVE  OrdersFit'
    <2>1. UNCHANGED <<pc, about, standing, orderId>>
        BY <1>29 DEF Decide, Slip
    <2>2. \A r : Ordering(r)' = Ordering(r)
        BY <2>1 DEF Ordering
    <2>3. QED
        BY <1>0, <2>1, <2>2 DEF OrdersFit
<1>30. ASSUME NEW c \in Charges, NEW r \in Paid, Charge(c, r)
      PROVE  OrdersFit'
    <2>1. UNCHANGED <<pc, about, standing, orderId>>
        BY <1>30 DEF Charge
    <2>2. \A q : Ordering(q)' = Ordering(q)
        BY <2>1 DEF Ordering
    <2>3. QED
        BY <1>0, <2>1, <2>2 DEF OrdersFit
<1>31. QED
    <2>1. CASE \E w \in Workers : \E r \in Paid : Checkout(w, r)
        BY <2>1, <1>1
    <2>2. CASE \E w \in Workers : \E f \in Free : Downgrade(w, f)
        BY <2>2, <1>2
    <2>3. CASE \E w \in Workers : \E p \in Payments : Deliver(w, p) \/ Redeliver(w, p)
        BY <2>3, <1>3, <1>4
    <2>4. CASE \E w \in Workers : Reconcile(w)
        BY <2>4, <1>5
    <2>5. CASE \E w \in Workers : CheckoutStep(w)
        BY <2>5, <1>6, <1>7, <1>8, <1>9, <1>10, <1>11 DEF CheckoutStep
    <2>6. CASE \E w \in Workers : DowngradeStep(w)
        BY <2>6, <1>12, <1>13, <1>14, <1>15 DEF DowngradeStep
    <2>7. CASE \E w \in Workers : WebhookStep(w)
        BY <2>7, <1>16, <1>17, <1>18, <1>19, <1>20, <1>21, <1>22, <1>23, <1>24, <1>25, <1>26, <1>27 DEF WebhookStep
    <2>8. CASE \E w \in Workers : Stop(w)
        BY <2>8, <1>28
    <2>9. CASE \E p \in Payments : Decide(p)
        BY <2>9, <1>29
    <2>10. CASE \E c \in Charges, r \in Paid : Charge(c, r)
        BY <2>10, <1>30
    <2>11. QED
        BY <2>1, <2>2, <2>3, <2>4, <2>5, <2>6, <2>7, <2>8, <2>9, <2>10 DEF Next

(* The types of everything else. *)
Births == born \in Seq(Rows)

Books ==
    /\ end \in [Rows -> Nat]
    /\ invoices \subseteq Invoice
    /\ until \in [Workers -> Nat]
    /\ old \in [Workers -> Invoice \cup {None}]

Bounds ==
    /\ slips \subseteq {"torn", "overlap", "revived", "upgrade", "crowded", "overtaken"}
    /\ events \in 0..MaxEvents

Data == Births /\ Books /\ Bounds

(* What an invoice becomes when it is stamped or booked. *)
LEMMA InvoiceUpdates ==
    ASSUME NEW i \in Invoice, NEW s \in PaymentStatus
    PROVE  /\ [i EXCEPT !.status = s] \in Invoice
           /\ \A p \in Payments : [i EXCEPT !.payment = p] \in Invoice
           /\ \A p \in Payments : [i EXCEPT !.payment = p, !.status = s] \in Invoice
BY DEF Invoice

(* Every step keeps that. *)
LEMMA NextData == PlanInv /\ Data /\ Next => Data'
<1> SUFFICES ASSUME PlanInv /\ Data, Next
             PROVE  Data'
    OBVIOUS
<1> USE StatusAssumption, NumbersAssumption, PlanOfAssumption, RegisteredAssumption, NamesAssumption, NoneAssumption,
       BoundsAssumption
    DEF Happens, rowVars, mollieVars, workVars, historyVars, Payments, Rows
<1>0. Types /\ RequestsKnow /\ Births /\ Books /\ Bounds
    BY DEF PlanInv, Data
<1>1. ASSUME NEW w \in Workers, NEW r \in Paid, Checkout(w, r)
      PROVE  Data'
    <2>1. Births'
        BY <1>0, <1>1 DEF Checkout, Takes, Unused, Births, Types, RequestsKnow, Knows, Checking, Leaving
    <2>2. Books'
        BY <1>0, <1>1
        DEF Checkout, Takes, Unused, Books, Types, RequestsKnow, Knows, Invoice, PaymentStatus, Checking,
            Leaving, First, Recurring
    <2>3. Bounds'
        BY <1>0, <1>1 DEF Checkout, Takes, Unused, Bounds, Revival
    <2>4. QED
        BY <2>1, <2>2, <2>3 DEF Data
<1>2. ASSUME NEW w \in Workers, NEW f \in Free, Downgrade(w, f)
      PROVE  Data'
    <2>1. Births'
        BY <1>0, <1>2
        DEF Downgrade, Takes, Unused, Overlap, Births, Types, RequestsKnow, Knows, Checking, Leaving
    <2>2. Books'
        BY <1>0, <1>2
        DEF Downgrade, Takes, Unused, Overlap, Books, Types, RequestsKnow, Knows, Invoice, PaymentStatus,
            Checking, Leaving, First, Recurring
    <2>3. Bounds'
        BY <1>0, <1>2 DEF Downgrade, Takes, Unused, Overlap, Bounds, Revival
    <2>4. QED
        BY <2>1, <2>2, <2>3 DEF Data
<1>3. ASSUME NEW w \in Workers, NEW p \in Payments, Deliver(w, p)
      PROVE  Data'
    <2>1. Births'
        BY <1>0, <1>3 DEF Deliver, Receive, Takes, Births, Types, RequestsKnow, Knows, Checking, Leaving
    <2>2. Books'
        BY <1>0, <1>3
        DEF Deliver, Receive, Takes, Books, Types, RequestsKnow, Knows, Invoice, PaymentStatus, Checking,
            Leaving, First, Recurring
    <2>3. Bounds'
        BY <1>0, <1>3 DEF Deliver, Receive, Takes, Bounds, Revival
    <2>4. QED
        BY <2>1, <2>2, <2>3 DEF Data
<1>4. ASSUME NEW w \in Workers, NEW p \in Payments, Redeliver(w, p)
      PROVE  Data'
    <2>1. Births'
        BY <1>0, <1>4 DEF Redeliver, Receive, Takes, Births, Types, RequestsKnow, Knows, Checking, Leaving
    <2>2. Books'
        BY <1>0, <1>4
        DEF Redeliver, Receive, Takes, Books, Types, RequestsKnow, Knows, Invoice, PaymentStatus, Checking,
            Leaving, First, Recurring
    <2>3. Bounds'
        BY <1>0, <1>4 DEF Redeliver, Receive, Takes, Bounds, Revival
    <2>4. QED
        BY <2>1, <2>2, <2>3 DEF Data
<1>5. ASSUME NEW w \in Workers, Reconcile(w)
      PROVE  Data'
    <2>1. Births'
        BY <1>0, <1>5 DEF Reconcile, Receive, Takes, Births, Types, RequestsKnow, Knows, Checking, Leaving
    <2>2. Books'
        BY <1>0, <1>5
        DEF Reconcile, Receive, Takes, Books, Types, RequestsKnow, Knows, Invoice, PaymentStatus, Checking,
            Leaving, First, Recurring
    <2>3. Bounds'
        BY <1>0, <1>5 DEF Reconcile, Receive, Takes, Bounds, Revival
    <2>4. QED
        BY <2>1, <2>2, <2>3 DEF Data
<1>6. ASSUME NEW w \in Workers, DropPending(w)
      PROVE  Data'
    <2>1. Births'
        BY <1>0, <1>6 DEF DropPending, SetStatus, Goto, Births, Types, RequestsKnow, Knows, Checking, Leaving
    <2>2. Books'
        BY <1>0, <1>6
        DEF DropPending, SetStatus, Goto, Books, Types, RequestsKnow, Knows, Invoice, PaymentStatus, Checking,
            Leaving, First, Recurring
    <2>3. Bounds'
        BY <1>0, <1>6 DEF DropPending, SetStatus, Goto, Bounds, Revival
    <2>4. QED
        BY <2>1, <2>2, <2>3 DEF Data
<1>7. ASSUME NEW w \in Workers, OpenRow(w)
      PROVE  Data'
    <2>1. Births'
        BY <1>0, <1>7 DEF OpenRow, SetStatus, Goto, Births, Types, RequestsKnow, Knows, Checking, Leaving
    <2>2. Books'
        BY <1>0, <1>7
        DEF OpenRow, SetStatus, Goto, Books, Types, RequestsKnow, Knows, Invoice, PaymentStatus, Checking,
            Leaving, First, Recurring
    <2>3. Bounds'
        BY <1>0, <1>7 DEF OpenRow, SetStatus, Goto, Bounds, Revival
    <2>4. QED
        BY <2>1, <2>2, <2>3 DEF Data
<1>8. ASSUME NEW w \in Workers, BillFirst(w)
      PROVE  Data'
    <2>1. Births'
        BY <1>0, <1>8 DEF BillFirst, Goto, Births, Types, RequestsKnow, Knows, Checking, Leaving
    <2>2. Books'
        BY <1>0, <1>8
        DEF BillFirst, Goto, Books, Types, RequestsKnow, Knows, Invoice, PaymentStatus, Checking, Leaving,
            First, Recurring
    <2>3. Bounds'
        BY <1>0, <1>8 DEF BillFirst, Goto, Bounds, Revival
    <2>4. QED
        BY <2>1, <2>2, <2>3 DEF Data
<1>9. ASSUME NEW w \in Workers, Link(w)
      PROVE  Data'
    <2>1. Births'
        BY <1>0, <1>9 DEF Link, Goto, Births, Types, RequestsKnow, Knows, Checking, Leaving
    <2>2. Books'
        BY <1>0, <1>9
        DEF Link, Goto, Books, Types, RequestsKnow, Knows, Invoice, PaymentStatus, Checking, Leaving, First,
            Recurring
    <2>3. Bounds'
        BY <1>0, <1>9 DEF Link, Goto, Bounds, Revival
    <2>4. QED
        BY <2>1, <2>2, <2>3 DEF Data
<1>10. ASSUME NEW w \in Workers, StoreLink(w)
      PROVE  Data'
    <2>1. Births'
        BY <1>0, <1>10 DEF StoreLink, Goto, Births, Types, RequestsKnow, Knows, Checking, Leaving
    <2>2. Books'
        BY <1>0, <1>10
        DEF StoreLink, Goto, Books, Types, RequestsKnow, Knows, Invoice, PaymentStatus, Checking, Leaving,
            First, Recurring
    <2>3. Bounds'
        BY <1>0, <1>10 DEF StoreLink, Goto, Bounds, Revival
    <2>4. QED
        BY <2>1, <2>2, <2>3 DEF Data
<1>11. ASSUME NEW w \in Workers, StampInvoice(w)
      PROVE  Data'
    <2>1. Births'
        BY <1>0, <1>11 DEF StampInvoice, Rest, Births, Types, RequestsKnow, Knows, Checking, Leaving
    <2>2. Books'
        <3>1. UNCHANGED <<end, until, old>> \/ (end' = end /\ Rest(w))
            BY <1>11 DEF StampInvoice
        <3>2. end' \in [Rows -> Nat] /\ until' \in [Workers -> Nat] /\ old' \in [Workers -> Invoice \cup {None}]
            BY <1>0, <3>1 DEF Books, Rest
        <3>3. about[w] \in Payments
            BY <1>0, <1>11 DEF StampInvoice, RequestsKnow, Knows, Checking
        <3>4. \A i \in invoices : [i EXCEPT !.payment = about[w]] \in Invoice
            BY <1>0, <3>3, InvoiceUpdates DEF Books, PaymentStatus
        <3>5. invoices' \subseteq Invoice
            <4> DEFINE mine == {i \in invoices : i.kind = "start" /\ i.row = about[w]}
            <4>1. invoices' = invoices \/ invoices' = (invoices \ mine) \cup {[i EXCEPT !.payment = about[w]] : i \in mine}
                BY <1>11 DEF StampInvoice
            <4>2. QED
                BY <1>0, <3>4, <4>1 DEF Books
        <3>6. QED
            BY <3>2, <3>5 DEF Books
    <2>3. Bounds'
        BY <1>0, <1>11 DEF StampInvoice, Rest, Bounds, Revival
    <2>4. QED
        BY <2>1, <2>2, <2>3 DEF Data
<1>12. ASSUME NEW w \in Workers, CancelOrder(w)
      PROVE  Data'
    <2>1. Births'
        BY <1>0, <1>12 DEF CancelOrder, Goto, Rest, Births, Types, RequestsKnow, Knows, Checking, Leaving
    <2>2. Books'
        <3>1. UNCHANGED <<end, until, old>> \/ (end' = end /\ Rest(w))
            BY <1>12 DEF CancelOrder, Goto
        <3>2. end' \in [Rows -> Nat] /\ until' \in [Workers -> Nat] /\ old' \in [Workers -> Invoice \cup {None}]
            BY <1>0, <3>1 DEF Books, Rest
        <3>3. invoices' = invoices
            BY <1>12 DEF CancelOrder
        <3>4. QED
            BY <1>0, <3>2, <3>3 DEF Books
    <2>3. Bounds'
        BY <1>0, <1>12 DEF CancelOrder, Goto, Rest, Bounds, Revival
    <2>4. QED
        BY <2>1, <2>2, <2>3 DEF Data
<1>13. ASSUME NEW w \in Workers, LeavePlan(w)
      PROVE  Data'
    <2>1. Births'
        BY <1>0, <1>13 DEF LeavePlan, SetStatus, Goto, Births, Types, RequestsKnow, Knows, Checking, Leaving
    <2>2. Books'
        BY <1>0, <1>13
        DEF LeavePlan, SetStatus, Goto, Books, Types, RequestsKnow, Knows, Invoice, PaymentStatus, Checking,
            Leaving, First, Recurring
    <2>3. Bounds'
        BY <1>0, <1>13 DEF LeavePlan, SetStatus, Goto, Bounds, Revival
    <2>4. QED
        BY <2>1, <2>2, <2>3 DEF Data
<1>14. ASSUME NEW w \in Workers, StartFree(w)
      PROVE  Data'
    <2>1. Births'
        BY <1>0, <1>14 DEF StartFree, SetStatus, Goto, Births, Types, RequestsKnow, Knows, Checking, Leaving
    <2>2. Books'
        BY <1>0, <1>14
        DEF StartFree, SetStatus, Goto, Books, Types, RequestsKnow, Knows, Invoice, PaymentStatus, Checking,
            Leaving, First, Recurring
    <2>3. Bounds'
        BY <1>0, <1>14 DEF StartFree, SetStatus, Goto, Bounds, Revival
    <2>4. QED
        BY <2>1, <2>2, <2>3 DEF Data
<1>15. ASSUME NEW w \in Workers, SetFree(w)
      PROVE  Data'
    <2>1. Births'
        BY <1>0, <1>15 DEF SetFree, Rest, Births, Types, RequestsKnow, Knows, Checking, Leaving
    <2>2. Books'
        BY <1>0, <1>15
        DEF SetFree, Rest, Books, Types, RequestsKnow, Knows, Invoice, PaymentStatus, Checking, Leaving, First,
            Recurring
    <2>3. Bounds'
        BY <1>0, <1>15 DEF SetFree, Rest, Bounds, Revival
    <2>4. QED
        BY <2>1, <2>2, <2>3 DEF Data
<1>16. ASSUME NEW w \in Workers, Find(w)
      PROVE  Data'
    <2>1. Births'
        BY <1>0, <1>16 DEF Find, Slip, Overlap, Births, Types, RequestsKnow, Knows, Checking, Leaving
    <2>2. Books'
        <3> DEFINE byPayment == {r \in Rows : payId[r] = on[w]}
                   r == IF byPayment # {} THEN CHOOSE x \in byPayment : TRUE ELSE Named(on[w])
        <3>1. r \in Rows
            BY <1>16, FoundRow DEF Find
        <3>2. until' = [until EXCEPT ![w] = end[r]] /\ UNCHANGED <<invoices, end, old>>
            BY <1>16 DEF Find
        <3> HIDE DEF r
        <3>3. QED
            BY <1>0, <3>1, <3>2 DEF Books
    <2>3. Bounds'
        BY <1>0, <1>16 DEF Find, Slip, Overlap, Bounds, Revival
    <2>4. QED
        BY <2>1, <2>2, <2>3 DEF Data
<1>17. ASSUME NEW w \in Workers, NotePayment(w)
      PROVE  Data'
    <2>1. Births'
        BY <1>0, <1>17 DEF NotePayment, Goto, Births, Types, RequestsKnow, Knows, Checking, Leaving
    <2>2. Books'
        BY <1>0, <1>17
        DEF NotePayment, Goto, Books, Types, RequestsKnow, Knows, Invoice, PaymentStatus, Checking, Leaving,
            First, Recurring
    <2>3. Bounds'
        BY <1>0, <1>17 DEF NotePayment, Goto, Bounds, Revival
    <2>4. QED
        BY <2>1, <2>2, <2>3 DEF Data
<1>18. ASSUME NEW w \in Workers, BookFirst(w)
      PROVE  Data'
    <2>1. Births'
        BY <1>0, <1>18 DEF BookFirst, Rest, Goto, Births, Types, RequestsKnow, Knows, Checking, Leaving
    <2>2. Books'
        <3>1. UNCHANGED <<end, until, old>> \/ (end' = end /\ Rest(w))
            BY <1>18 DEF BookFirst, Goto
        <3>2. end' \in [Rows -> Nat] /\ until' \in [Workers -> Nat] /\ old' \in [Workers -> Invoice \cup {None}]
            BY <1>0, <3>1 DEF Books, Rest
        <3>3. on[w] \in Payments /\ saw[w] \in PaymentStatus
            BY <1>0, <1>18 DEF BookFirst, RequestsKnow, Knows, First, Types
        <3> DEFINE booked(i) == [i EXCEPT !.payment = on[w], !.status = saw[w]]
        <3>4. \A i \in invoices : booked(i) \in Invoice
            BY <1>0, <3>3, InvoiceUpdates DEF Books
        <3>5. invoices' \subseteq Invoice
            <4> DEFINE mine == {i \in invoices : i.payment = on[w] \/ (i.row = about[w] /\ i.status = "open")}
            <4>1. invoices' = invoices \/ invoices' = (invoices \ mine) \cup {booked(i) : i \in mine}
                BY <1>18 DEF BookFirst
            <4> HIDE DEF booked
            <4>2. QED
                BY <1>0, <3>4, <4>1 DEF Books
        <3>6. QED
            BY <3>2, <3>5 DEF Books
    <2>3. Bounds'
        BY <1>0, <1>18 DEF BookFirst, Rest, Goto, Bounds, Revival
    <2>4. QED
        BY <2>1, <2>2, <2>3 DEF Data
<1>19. ASSUME NEW w \in Workers, Settle(w)
      PROVE  Data'
    <2>1. Births'
        BY <1>0, <1>19
        DEF Settle, Goto, SetStatus, Answer, Rest, Revival, Births, Types, RequestsKnow, Knows, Checking,
            Leaving
    <2>2. Books'
        BY <1>0, <1>19
        DEF Settle, Goto, SetStatus, Answer, Rest, Revival, Books, Types, RequestsKnow, Knows, Invoice,
            PaymentStatus, Checking, Leaving, First, Recurring
    <2>3. Bounds'
        BY <1>0, <1>19 DEF Settle, Goto, SetStatus, Answer, Rest, Revival, Bounds, Revival
    <2>4. QED
        BY <2>1, <2>2, <2>3 DEF Data
<1>20. ASSUME NEW w \in Workers, OrderRecurring(w)
      PROVE  Data'
    <2>1. Births'
        BY <1>0, <1>20 DEF OrderRecurring, Goto, Births, Types, RequestsKnow, Knows, Checking, Leaving
    <2>2. Books'
        BY <1>0, <1>20
        DEF OrderRecurring, Goto, Books, Types, RequestsKnow, Knows, Invoice, PaymentStatus, Checking, Leaving,
            First, Recurring
    <2>3. Bounds'
        BY <1>0, <1>20 DEF OrderRecurring, Goto, Bounds, Revival
    <2>4. QED
        BY <2>1, <2>2, <2>3 DEF Data
<1>21. ASSUME NEW w \in Workers, ReplaceOthers(w)
      PROVE  Data'
    <2>1. Births'
        BY <1>0, <1>21
        DEF ReplaceOthers, SetStatus, Slip, Goto, Births, Types, RequestsKnow, Knows, Checking, Leaving
    <2>2. Books'
        BY <1>0, <1>21
        DEF ReplaceOthers, SetStatus, Slip, Goto, Books, Types, RequestsKnow, Knows, Invoice, PaymentStatus,
            Checking, Leaving, First, Recurring
    <2>3. Bounds'
        BY <1>0, <1>21 DEF ReplaceOthers, SetStatus, Slip, Goto, Bounds, Revival
    <2>4. QED
        BY <2>1, <2>2, <2>3 DEF Data
<1>22. ASSUME NEW w \in Workers, ActivatePaid(w)
      PROVE  Data'
    <2>1. Births'
        BY <1>0, <1>22
        DEF ActivatePaid, SetStatus, Slip, Revival, Goto, Births, Types, RequestsKnow, Knows, Checking, Leaving
    <2>2. Books'
        BY <1>0, <1>22
        DEF ActivatePaid, SetStatus, Slip, Revival, Goto, Books, Types, RequestsKnow, Knows, Invoice,
            PaymentStatus, Checking, Leaving, First, Recurring
    <2>3. Bounds'
        BY <1>0, <1>22 DEF ActivatePaid, SetStatus, Slip, Revival, Goto, Bounds, Revival
    <2>4. QED
        BY <2>1, <2>2, <2>3 DEF Data
<1>23. ASSUME NEW w \in Workers, SetPlan(w)
      PROVE  Data'
    <2>1. Births'
        BY <1>0, <1>23 DEF SetPlan, Answer, Rest, Births, Types, RequestsKnow, Knows, Checking, Leaving
    <2>2. Books'
        BY <1>0, <1>23
        DEF SetPlan, Answer, Rest, Books, Types, RequestsKnow, Knows, Invoice, PaymentStatus, Checking,
            Leaving, First, Recurring
    <2>3. Bounds'
        BY <1>0, <1>23 DEF SetPlan, Answer, Rest, Bounds, Revival
    <2>4. QED
        BY <2>1, <2>2, <2>3 DEF Data
<1>24. ASSUME NEW w \in Workers, LookForInvoice(w)
      PROVE  Data'
    <2>1. Births'
        BY <1>0, <1>24 DEF LookForInvoice, InvoicesOf, Births, Types, RequestsKnow, Knows, Checking, Leaving
    <2>2. Books'
        BY <1>0, <1>24
        DEF LookForInvoice, InvoicesOf, Books, Types, RequestsKnow, Knows, Invoice, PaymentStatus, Checking,
            Leaving, First, Recurring
    <2>3. Bounds'
        BY <1>0, <1>24 DEF LookForInvoice, InvoicesOf, Bounds, Revival
    <2>4. QED
        BY <2>1, <2>2, <2>3 DEF Data
<1>25. ASSUME NEW w \in Workers, EnterNew(w)
      PROVE  Data'
    <2>1. Births'
        BY <1>0, <1>25
        DEF EnterNew, InvoicesOf, Rest, Goto, Births, Types, RequestsKnow, Knows, Checking, Leaving
    <2>2. Books'
        BY <1>0, <1>25
        DEF EnterNew, InvoicesOf, Rest, Goto, Books, Types, RequestsKnow, Knows, Invoice, PaymentStatus,
            Checking, Leaving, First, Recurring
    <2>3. Bounds'
        BY <1>0, <1>25 DEF EnterNew, InvoicesOf, Rest, Goto, Bounds, Revival
    <2>4. QED
        BY <2>1, <2>2, <2>3 DEF Data
<1>26. ASSUME NEW w \in Workers, EnterStatus(w)
      PROVE  Data'
    <2>1. Births'
        BY <1>0, <1>26 DEF EnterStatus, Goto, Births, Types, RequestsKnow, Knows, Checking, Leaving
    <2>2. Books'
        <3>1. UNCHANGED <<end, until, old>> \/ (end' = end /\ Rest(w))
            BY <1>26 DEF EnterStatus, Goto
        <3>2. end' \in [Rows -> Nat] /\ until' \in [Workers -> Nat] /\ old' \in [Workers -> Invoice \cup {None}]
            BY <1>0, <3>1 DEF Books, Rest
        <3>3. saw[w] \in PaymentStatus
            BY <1>0 DEF Types
        <3>4. \A i \in invoices : [i EXCEPT !.status = saw[w]] \in Invoice
            BY <1>0, <3>3, InvoiceUpdates DEF Books
        <3>5. invoices' \subseteq Invoice
            <4> DEFINE found == {i \in invoices : i.kind = old[w].kind /\ i.key = old[w].key}
            <4>1. invoices' = invoices \/ invoices' = (invoices \ found) \cup {[i EXCEPT !.status = saw[w]] : i \in found}
                BY <1>26 DEF EnterStatus
            <4>2. QED
                BY <1>0, <3>4, <4>1 DEF Books
        <3>6. QED
            BY <3>2, <3>5 DEF Books
    <2>3. Bounds'
        BY <1>0, <1>26 DEF EnterStatus, Goto, Bounds, Revival
    <2>4. QED
        BY <2>1, <2>2, <2>3 DEF Data
<1>27. ASSUME NEW w \in Workers, Renew(w)
      PROVE  Data'
    <2>1. Births'
        BY <1>0, <1>27
        DEF Renew, SetStatus, Slip, Revival, Renewed, BecamePaid, Answer, Rest, Births, Types, RequestsKnow,
            Knows, Checking, Leaving
    <2>2. Books'
        BY <1>0, <1>27
        DEF Renew, SetStatus, Slip, Revival, Renewed, BecamePaid, Answer, Rest, Books, Types, RequestsKnow,
            Knows, Invoice, PaymentStatus, Checking, Leaving, First, Recurring
    <2>3. Bounds'
        BY <1>0, <1>27 DEF Renew, SetStatus, Slip, Revival, Renewed, BecamePaid, Answer, Rest, Bounds, Revival
    <2>4. QED
        BY <2>1, <2>2, <2>3 DEF Data
<1>28. ASSUME NEW w \in Workers, Stop(w)
      PROVE  Data'
    <2>1. Births'
        BY <1>0, <1>28 DEF Stop, Rest, Births, Types, RequestsKnow, Knows, Checking, Leaving
    <2>2. Books'
        BY <1>0, <1>28
        DEF Stop, Rest, Books, Types, RequestsKnow, Knows, Invoice, PaymentStatus, Checking, Leaving, First,
            Recurring
    <2>3. Bounds'
        BY <1>0, <1>28 DEF Stop, Rest, Bounds, Revival
    <2>4. QED
        BY <2>1, <2>2, <2>3 DEF Data
<1>29. ASSUME NEW p \in Payments, Decide(p)
      PROVE  Data'
    <2>1. Births'
        BY <1>0, <1>29 DEF Decide, Slip, Births, Types, RequestsKnow, Knows, Checking, Leaving
    <2>2. Books'
        BY <1>0, <1>29
        DEF Decide, Slip, Books, Types, RequestsKnow, Knows, Invoice, PaymentStatus, Checking, Leaving, First,
            Recurring
    <2>3. Bounds'
        BY <1>0, <1>29 DEF Decide, Slip, Bounds, Revival
    <2>4. QED
        BY <2>1, <2>2, <2>3 DEF Data
<1>30. ASSUME NEW c \in Charges, NEW r \in Paid, Charge(c, r)
      PROVE  Data'
    <2>1. Births'
        BY <1>0, <1>30 DEF Charge, Births, Types, RequestsKnow, Knows, Checking, Leaving
    <2>2. Books'
        BY <1>0, <1>30
        DEF Charge, Books, Types, RequestsKnow, Knows, Invoice, PaymentStatus, Checking, Leaving, First,
            Recurring
    <2>3. Bounds'
        BY <1>0, <1>30 DEF Charge, Bounds, Revival
    <2>4. QED
        BY <2>1, <2>2, <2>3 DEF Data
<1>31. QED
    <2>1. CASE \E w \in Workers : \E r \in Paid : Checkout(w, r)
        BY <2>1, <1>1
    <2>2. CASE \E w \in Workers : \E f \in Free : Downgrade(w, f)
        BY <2>2, <1>2
    <2>3. CASE \E w \in Workers : \E p \in Payments : Deliver(w, p) \/ Redeliver(w, p)
        BY <2>3, <1>3, <1>4
    <2>4. CASE \E w \in Workers : Reconcile(w)
        BY <2>4, <1>5
    <2>5. CASE \E w \in Workers : CheckoutStep(w)
        BY <2>5, <1>6, <1>7, <1>8, <1>9, <1>10, <1>11 DEF CheckoutStep
    <2>6. CASE \E w \in Workers : DowngradeStep(w)
        BY <2>6, <1>12, <1>13, <1>14, <1>15 DEF DowngradeStep
    <2>7. CASE \E w \in Workers : WebhookStep(w)
        BY <2>7, <1>16, <1>17, <1>18, <1>19, <1>20, <1>21, <1>22, <1>23, <1>24, <1>25, <1>26, <1>27 DEF WebhookStep
    <2>8. CASE \E w \in Workers : Stop(w)
        BY <2>8, <1>28
    <2>9. CASE \E p \in Payments : Decide(p)
        BY <2>9, <1>29
    <2>10. CASE \E c \in Charges, r \in Paid : Charge(c, r)
        BY <2>10, <1>30
    <2>11. QED
        BY <2>1, <2>2, <2>3, <2>4, <2>5, <2>6, <2>7, <2>8, <2>9, <2>10 DEF Next

LEMMA DataAlways == Spec => [](OrdersFit /\ Data)
<1>1. Init => OrdersFit /\ Data
    <2> SUFFICES ASSUME Init
                 PROVE  OrdersFit /\ Data
        OBVIOUS
    <2>1. \A r : Ordering(r) = {}
        BY DEF Init, Ordering
    <2>2. OrdersFit
        <3>1. Cardinality({}) = 0
            BY FS_EmptySet
        <3>2. SUFFICES ASSUME NEW r \in Rows
                       PROVE  standing[r] = 0 /\ orderId[r] = "none"
            BY <2>1, <3>1 DEF OrdersFit
        <3>3. QED
            BY DEF Init
    <2>3. Registered \in Rows /\ born = <<Registered>>
        BY RegisteredAssumption DEF Init, Rows
    <2>4. Data
        BY <2>3, BoundsAssumption DEF Init, Data, Births, Books, Bounds
    <2>5. QED
        BY <2>2, <2>4
<1>2. PlanInv /\ OrdersFit /\ Data /\ [Next]_vars => OrdersFit' /\ Data'
    <2> SUFFICES ASSUME PlanInv, OrdersFit, Data, [Next]_vars
                 PROVE  OrdersFit' /\ Data'
        OBVIOUS
    <2>1. CASE Next
        BY <2>1, NextOrders, NextData
    <2>2. CASE UNCHANGED vars
        <3>1. \A r : Ordering(r)' = Ordering(r)
            BY <2>2 DEF Ordering, vars, workVars
        <3>2. QED
            BY <2>2, <3>1 DEF OrdersFit, Data, Births, Books, Bounds, vars, rowVars, mollieVars, workVars, historyVars
    <2>3. QED
        BY <2>1, <2>2
<1>3. QED
    BY PlanAlways, <1>1, <1>2, PTL DEF Spec

(* The types of all variables, in every state; there is never a negative number of standing orders. *)
THEOREM TypesHold == Spec => []TypeOK
<1>1. PlanInv /\ OrdersFit /\ Data => TypeOK
    <2> SUFFICES ASSUME PlanInv, OrdersFit, Data
                 PROVE  TypeOK
        OBVIOUS
    <2>1. standing \in [Rows -> Nat]
        BY DEF PlanInv, Types, OrdersFit
    <2>2. QED
        BY <2>1 DEF PlanInv, Types, Data, Births, Books, Bounds, TypeOK
<1>2. QED
    BY PlanAlways, DataAlways, <1>1, PTL

-----------------------------------------------------------------------------
Steady == {"active", "past_due", "replaced"}

(***************************************************************************)
(* Rows and first payments.  A row never bears the payment of a charge; a  *)
(* row with a standing order that has been charged is one whose first      *)
(* payment has been answered, and such a row is steady: it has been        *)
(* activated, and is never pending again.                                  *)
(***************************************************************************)
RowsFit ==
    /\ \A r \in Rows : payId[r] \in {None, r}
    /\ \A p \in due : pay[p] \in {"paid", "failed"}
    /\ \A r \in Paid : pay[r] = "paid" /\ r \notin due => status[r] \in Steady
    /\ \A c \in Charges : chargeOf[c] # None =>
           /\ pay[chargeOf[c]] = "paid" /\ chargeOf[c] \notin due
           /\ \A w \in Workers : pc[w] \in Checking => about[w] # chargeOf[c]

RequestFits(w) ==
    /\ pc[w] \in {"find"} \cup First \cup Recurring /\ saw[w] = "failed" => pay[on[w]] = "failed"
    /\ pc[w] \in {"drop", "open"} => status[about[w]] = None
    /\ pc[w] \in First => on[w] = about[w]
    /\ pc[w] \in {"note", "book", "settle"} /\ was[w] = "active" /\ saw[w] = "paid" => status[about[w]] \in Steady
    /\ pc[w] = "plan" => status[about[w]] \in Steady
    /\ pc[w] \in Recurring => was[w] \in Steady /\ IsFor(on[w], about[w])

RequestsFit == \A w \in Workers : RequestFits(w)

CoreInv == PlanInv /\ RowsFit /\ RequestsFit

(* Every step keeps that. *)
LEMMA NextCore ==
    PlanInv /\ RowsFit /\ RequestsFit /\ Next => RowsFit' /\ RequestsFit'
<1> SUFFICES ASSUME PlanInv /\ RowsFit /\ RequestsFit, Next
             PROVE  RowsFit' /\ RequestsFit'
    OBVIOUS
<1> USE StatusAssumption, NumbersAssumption, PlanOfAssumption, RegisteredAssumption, NamesAssumption,
        NoneAssumption
    DEF Happens, rowVars, mollieVars, workVars, historyVars, Payments, Rows
<1>0. Types /\ RequestsKnow /\ OneCheckout /\ PaymentsFit /\ PlanIsPaidFor /\ RowsFit /\ RequestsFit
    BY DEF PlanInv
<1>1. ASSUME NEW w \in Workers, NEW r \in Paid, Checkout(w, r)
      PROVE  RowsFit' /\ RequestsFit'
    <2>1. RowsFit'
        BY <1>0, <1>1
        DEF Checkout, Takes, Unused, Types, PlanIsPaidFor, Knows, RequestsKnow, OneCheckout, PaymentsFit,
            RowsFit, RequestsFit, RequestFits, IsFor, PaymentStatus, RowStatus, Steady, Checking, Leaving,
            First, Recurring
    <2>2. RequestsFit'
        BY <1>0, <1>1
        DEF Checkout, Takes, Unused, Types, PlanIsPaidFor, Knows, RequestsKnow, OneCheckout, PaymentsFit,
            RowsFit, RequestsFit, RequestFits, IsFor, PaymentStatus, RowStatus, Steady, Checking, Leaving,
            First, Recurring
    <2>3. QED
        BY <2>1, <2>2
<1>2. ASSUME NEW w \in Workers, NEW f \in Free, Downgrade(w, f)
      PROVE  RowsFit' /\ RequestsFit'
    <2>1. RowsFit'
        BY <1>0, <1>2
        DEF Downgrade, Takes, Unused, Overlap, Types, PlanIsPaidFor, Knows, RequestsKnow, OneCheckout,
            PaymentsFit, RowsFit, RequestsFit, RequestFits, IsFor, PaymentStatus, RowStatus, Steady, Checking,
            Leaving, First, Recurring
    <2>2. RequestsFit'
        BY <1>0, <1>2
        DEF Downgrade, Takes, Unused, Overlap, Types, PlanIsPaidFor, Knows, RequestsKnow, OneCheckout,
            PaymentsFit, RowsFit, RequestsFit, RequestFits, IsFor, PaymentStatus, RowStatus, Steady, Checking,
            Leaving, First, Recurring
    <2>3. QED
        BY <2>1, <2>2
<1>3. ASSUME NEW w \in Workers, NEW p \in Payments, Deliver(w, p)
      PROVE  RowsFit' /\ RequestsFit'
    <2>1. RowsFit'
        BY <1>0, <1>3
        DEF Deliver, Receive, Takes, Types, PlanIsPaidFor, Knows, RequestsKnow, OneCheckout, PaymentsFit,
            RowsFit, RequestsFit, RequestFits, IsFor, PaymentStatus, RowStatus, Steady, Checking, Leaving,
            First, Recurring
    <2>2. RequestsFit'
        BY <1>0, <1>3
        DEF Deliver, Receive, Takes, Types, PlanIsPaidFor, Knows, RequestsKnow, OneCheckout, PaymentsFit,
            RowsFit, RequestsFit, RequestFits, IsFor, PaymentStatus, RowStatus, Steady, Checking, Leaving,
            First, Recurring
    <2>3. QED
        BY <2>1, <2>2
<1>4. ASSUME NEW w \in Workers, NEW p \in Payments, Redeliver(w, p)
      PROVE  RowsFit' /\ RequestsFit'
    <2>1. RowsFit'
        BY <1>0, <1>4
        DEF Redeliver, Receive, Takes, Types, PlanIsPaidFor, Knows, RequestsKnow, OneCheckout, PaymentsFit,
            RowsFit, RequestsFit, RequestFits, IsFor, PaymentStatus, RowStatus, Steady, Checking, Leaving,
            First, Recurring
    <2>2. RequestsFit'
        BY <1>0, <1>4
        DEF Redeliver, Receive, Takes, Types, PlanIsPaidFor, Knows, RequestsKnow, OneCheckout, PaymentsFit,
            RowsFit, RequestsFit, RequestFits, IsFor, PaymentStatus, RowStatus, Steady, Checking, Leaving,
            First, Recurring
    <2>3. QED
        BY <2>1, <2>2
<1>5. ASSUME NEW w \in Workers, Reconcile(w)
      PROVE  RowsFit' /\ RequestsFit'
    <2>1. RowsFit'
        BY <1>0, <1>5
        DEF Reconcile, Receive, Takes, Types, PlanIsPaidFor, Knows, RequestsKnow, OneCheckout, PaymentsFit,
            RowsFit, RequestsFit, RequestFits, IsFor, PaymentStatus, RowStatus, Steady, Checking, Leaving,
            First, Recurring
    <2>2. RequestsFit'
        BY <1>0, <1>5
        DEF Reconcile, Receive, Takes, Types, PlanIsPaidFor, Knows, RequestsKnow, OneCheckout, PaymentsFit,
            RowsFit, RequestsFit, RequestFits, IsFor, PaymentStatus, RowStatus, Steady, Checking, Leaving,
            First, Recurring
    <2>3. QED
        BY <2>1, <2>2
<1>6. ASSUME NEW w \in Workers, DropPending(w)
      PROVE  RowsFit' /\ RequestsFit'
    <2>1. RowsFit'
        BY <1>0, <1>6
        DEF DropPending, SetStatus, Goto, Types, PlanIsPaidFor, Knows, RequestsKnow, OneCheckout, PaymentsFit,
            RowsFit, RequestsFit, RequestFits, IsFor, PaymentStatus, RowStatus, Steady, Checking, Leaving,
            First, Recurring
    <2>2. RequestsFit'
        BY <1>0, <1>6
        DEF DropPending, SetStatus, Goto, Types, PlanIsPaidFor, Knows, RequestsKnow, OneCheckout, PaymentsFit,
            RowsFit, RequestsFit, RequestFits, IsFor, PaymentStatus, RowStatus, Steady, Checking, Leaving,
            First, Recurring
    <2>3. QED
        BY <2>1, <2>2
<1>7. ASSUME NEW w \in Workers, OpenRow(w)
      PROVE  RowsFit' /\ RequestsFit'
    <2>1. RowsFit'
        BY <1>0, <1>7
        DEF OpenRow, SetStatus, Goto, Types, PlanIsPaidFor, Knows, RequestsKnow, OneCheckout, PaymentsFit,
            RowsFit, RequestsFit, RequestFits, IsFor, PaymentStatus, RowStatus, Steady, Checking, Leaving,
            First, Recurring
    <2>2. RequestsFit'
        BY <1>0, <1>7
        DEF OpenRow, SetStatus, Goto, Types, PlanIsPaidFor, Knows, RequestsKnow, OneCheckout, PaymentsFit,
            RowsFit, RequestsFit, RequestFits, IsFor, PaymentStatus, RowStatus, Steady, Checking, Leaving,
            First, Recurring
    <2>3. QED
        BY <2>1, <2>2
<1>8. ASSUME NEW w \in Workers, BillFirst(w)
      PROVE  RowsFit' /\ RequestsFit'
    <2>1. RowsFit'
        BY <1>0, <1>8
        DEF BillFirst, Goto, Types, PlanIsPaidFor, Knows, RequestsKnow, OneCheckout, PaymentsFit, RowsFit,
            RequestsFit, RequestFits, IsFor, PaymentStatus, RowStatus, Steady, Checking, Leaving, First,
            Recurring
    <2>2. RequestsFit'
        BY <1>0, <1>8
        DEF BillFirst, Goto, Types, PlanIsPaidFor, Knows, RequestsKnow, OneCheckout, PaymentsFit, RowsFit,
            RequestsFit, RequestFits, IsFor, PaymentStatus, RowStatus, Steady, Checking, Leaving, First,
            Recurring
    <2>3. QED
        BY <2>1, <2>2
<1>9. ASSUME NEW w \in Workers, Link(w)
      PROVE  RowsFit' /\ RequestsFit'
    <2>1. RowsFit'
        BY <1>0, <1>9
        DEF Link, Goto, Types, PlanIsPaidFor, Knows, RequestsKnow, OneCheckout, PaymentsFit, RowsFit,
            RequestsFit, RequestFits, IsFor, PaymentStatus, RowStatus, Steady, Checking, Leaving, First,
            Recurring
    <2>2. RequestsFit'
        BY <1>0, <1>9
        DEF Link, Goto, Types, PlanIsPaidFor, Knows, RequestsKnow, OneCheckout, PaymentsFit, RowsFit,
            RequestsFit, RequestFits, IsFor, PaymentStatus, RowStatus, Steady, Checking, Leaving, First,
            Recurring
    <2>3. QED
        BY <2>1, <2>2
<1>10. ASSUME NEW w \in Workers, StoreLink(w)
      PROVE  RowsFit' /\ RequestsFit'
    <2>1. RowsFit'
        BY <1>0, <1>10
        DEF StoreLink, Goto, Types, PlanIsPaidFor, Knows, RequestsKnow, OneCheckout, PaymentsFit, RowsFit,
            RequestsFit, RequestFits, IsFor, PaymentStatus, RowStatus, Steady, Checking, Leaving, First,
            Recurring
    <2>2. RequestsFit'
        BY <1>0, <1>10
        DEF StoreLink, Goto, Types, PlanIsPaidFor, Knows, RequestsKnow, OneCheckout, PaymentsFit, RowsFit,
            RequestsFit, RequestFits, IsFor, PaymentStatus, RowStatus, Steady, Checking, Leaving, First,
            Recurring
    <2>3. QED
        BY <2>1, <2>2
<1>11. ASSUME NEW w \in Workers, StampInvoice(w)
      PROVE  RowsFit' /\ RequestsFit'
    <2>1. RowsFit'
        BY <1>0, <1>11
        DEF StampInvoice, Rest, Types, PlanIsPaidFor, Knows, RequestsKnow, OneCheckout, PaymentsFit, RowsFit,
            RequestsFit, RequestFits, IsFor, PaymentStatus, RowStatus, Steady, Checking, Leaving, First,
            Recurring
    <2>2. RequestsFit'
        BY <1>0, <1>11
        DEF StampInvoice, Rest, Types, PlanIsPaidFor, Knows, RequestsKnow, OneCheckout, PaymentsFit, RowsFit,
            RequestsFit, RequestFits, IsFor, PaymentStatus, RowStatus, Steady, Checking, Leaving, First,
            Recurring
    <2>3. QED
        BY <2>1, <2>2
<1>12. ASSUME NEW w \in Workers, CancelOrder(w)
      PROVE  RowsFit' /\ RequestsFit'
    <2>1. RowsFit'
        BY <1>0, <1>12
        DEF CancelOrder, Goto, Rest, Types, PlanIsPaidFor, Knows, RequestsKnow, OneCheckout, PaymentsFit,
            RowsFit, RequestsFit, RequestFits, IsFor, PaymentStatus, RowStatus, Steady, Checking, Leaving,
            First, Recurring
    <2>2. RequestsFit'
        BY <1>0, <1>12
        DEF CancelOrder, Goto, Rest, Types, PlanIsPaidFor, Knows, RequestsKnow, OneCheckout, PaymentsFit,
            RowsFit, RequestsFit, RequestFits, IsFor, PaymentStatus, RowStatus, Steady, Checking, Leaving,
            First, Recurring
    <2>3. QED
        BY <2>1, <2>2
<1>13. ASSUME NEW w \in Workers, LeavePlan(w)
      PROVE  RowsFit' /\ RequestsFit'
    <2>1. RowsFit'
        BY <1>0, <1>13
        DEF LeavePlan, SetStatus, Goto, Types, PlanIsPaidFor, Knows, RequestsKnow, OneCheckout, PaymentsFit,
            RowsFit, RequestsFit, RequestFits, IsFor, PaymentStatus, RowStatus, Steady, Checking, Leaving,
            First, Recurring
    <2>2. RequestsFit'
        <3>1. \A r \in Rows : status[r] \in Steady => status'[r] \in Steady
            BY <1>0, <1>13 DEF LeavePlan, SetStatus, Types, Steady
        <3>2. \A r \in Rows : status[r] = None => status'[r] = None
            BY <1>0, <1>13 DEF LeavePlan, SetStatus, Types, Current, RowStatus
        <3>3. QED
            BY <1>0, <1>13, <3>1, <3>2
            DEF LeavePlan, Goto, Types, Knows, RequestsKnow, RequestsFit, RequestFits, IsFor, Checking, First, Recurring
    <2>3. QED
        BY <2>1, <2>2
<1>14. ASSUME NEW w \in Workers, StartFree(w)
      PROVE  RowsFit' /\ RequestsFit'
    <2>1. RowsFit'
        BY <1>0, <1>14
        DEF StartFree, SetStatus, Goto, Types, PlanIsPaidFor, Knows, RequestsKnow, OneCheckout, PaymentsFit,
            RowsFit, RequestsFit, RequestFits, IsFor, PaymentStatus, RowStatus, Steady, Checking, Leaving,
            First, Recurring
    <2>2. RequestsFit'
        BY <1>0, <1>14
        DEF StartFree, SetStatus, Goto, Types, PlanIsPaidFor, Knows, RequestsKnow, OneCheckout, PaymentsFit,
            RowsFit, RequestsFit, RequestFits, IsFor, PaymentStatus, RowStatus, Steady, Checking, Leaving,
            First, Recurring
    <2>3. QED
        BY <2>1, <2>2
<1>15. ASSUME NEW w \in Workers, SetFree(w)
      PROVE  RowsFit' /\ RequestsFit'
    <2>1. RowsFit'
        BY <1>0, <1>15
        DEF SetFree, Rest, Types, PlanIsPaidFor, Knows, RequestsKnow, OneCheckout, PaymentsFit, RowsFit,
            RequestsFit, RequestFits, IsFor, PaymentStatus, RowStatus, Steady, Checking, Leaving, First,
            Recurring
    <2>2. RequestsFit'
        BY <1>0, <1>15
        DEF SetFree, Rest, Types, PlanIsPaidFor, Knows, RequestsKnow, OneCheckout, PaymentsFit, RowsFit,
            RequestsFit, RequestFits, IsFor, PaymentStatus, RowStatus, Steady, Checking, Leaving, First,
            Recurring
    <2>3. QED
        BY <2>1, <2>2
<1>16. ASSUME NEW w \in Workers, Find(w)
      PROVE  RowsFit' /\ RequestsFit'
    <2>1. RowsFit'
        BY <1>0, <1>16
        DEF Find, Slip, Overlap, Types, PlanIsPaidFor, Knows, RequestsKnow, OneCheckout, PaymentsFit, RowsFit,
            RequestsFit, RequestFits, IsFor, PaymentStatus, RowStatus, Steady, Checking, Leaving, First,
            Recurring
    <2>2. RequestsFit'
        <3> DEFINE byPayment == {r \in Rows : payId[r] = on[w]}
                   r == IF byPayment # {} THEN CHOOSE x \in byPayment : TRUE ELSE Named(on[w])
                   first == byPayment # {} \/ status[r] \in {"pending_payment", "payment_failed"}
        <3>1. pc[w] = "find" /\ r \in Paid /\ IsFor(on[w], r) /\ status[r] # None
            BY <1>16, FoundRow DEF Find
        <3>2. /\ pc' = [pc EXCEPT ![w] = IF first THEN "note" ELSE "look"]
              /\ about' = [about EXCEPT ![w] = r]
              /\ was' = [was EXCEPT ![w] = status[r]]
              /\ UNCHANGED <<status, payId, pay, chargeOf, due, on, saw>>
            BY <1>16 DEF Find
        <3>3. first => on[w] = r
            <4>1. CASE byPayment # {}
                BY <4>1, <1>0, <3>1 DEF RowsFit, Knows, RequestsKnow
            <4>2. CASE byPayment = {}
                BY <4>2, <1>0, <3>1 DEF RowsFit, IsFor, Steady
            <4>3. QED
                BY <4>1, <4>2
        <3>4. ~first => status[r] \in Steady
            BY <1>0, <3>1 DEF Types, RowStatus, Steady
        <3> HIDE DEF byPayment, r, first
        <3>5. \A v \in Workers \ {w} : RequestFits(v)'
            BY <1>0, <3>2 DEF Types, RequestsFit, RequestFits, IsFor
        <3>6. RequestFits(w)'
            BY <1>0, <3>1, <3>2, <3>3, <3>4
            DEF Types, RequestsFit, RequestFits, IsFor, Steady, First, Recurring
        <3>7. QED
            BY <3>5, <3>6 DEF RequestsFit
    <2>3. QED
        BY <2>1, <2>2
<1>17. ASSUME NEW w \in Workers, NotePayment(w)
      PROVE  RowsFit' /\ RequestsFit'
    <2>1. RowsFit'
        BY <1>0, <1>17
        DEF NotePayment, Goto, Types, PlanIsPaidFor, Knows, RequestsKnow, OneCheckout, PaymentsFit, RowsFit,
            RequestsFit, RequestFits, IsFor, PaymentStatus, RowStatus, Steady, Checking, Leaving, First,
            Recurring
    <2>2. RequestsFit'
        BY <1>0, <1>17
        DEF NotePayment, Goto, Types, PlanIsPaidFor, Knows, RequestsKnow, OneCheckout, PaymentsFit, RowsFit,
            RequestsFit, RequestFits, IsFor, PaymentStatus, RowStatus, Steady, Checking, Leaving, First,
            Recurring
    <2>3. QED
        BY <2>1, <2>2
<1>18. ASSUME NEW w \in Workers, BookFirst(w)
      PROVE  RowsFit' /\ RequestsFit'
    <2>1. RowsFit'
        <3>1. UNCHANGED <<status, payId, pay, chargeOf, due>> /\ pc[w] = "book" /\ (Rest(w) \/ Goto(w, "settle"))
            BY <1>18 DEF BookFirst
        <3>2. QED
            BY <1>0, <3>1 DEF Rest, Goto, Types, Knows, RequestsKnow, PaymentsFit, RowsFit, Checking
    <2>2. RequestsFit'
        <3>1. UNCHANGED <<status, payId, pay, chargeOf, due>> /\ pc[w] = "book" /\ (Rest(w) \/ Goto(w, "settle"))
            BY <1>18 DEF BookFirst
        <3>2. QED
            BY <1>0, <3>1 DEF Rest, Goto, Types, RequestsFit, RequestFits, IsFor, First, Recurring
    <2>3. QED
        BY <2>1, <2>2
<1>19. ASSUME NEW w \in Workers, Settle(w)
      PROVE  RowsFit' /\ RequestsFit'
    <2>1. RowsFit'
        BY <1>0, <1>19
        DEF Settle, Goto, SetStatus, Answer, Rest, Revival, Types, PlanIsPaidFor, Knows, RequestsKnow,
            OneCheckout, PaymentsFit, RowsFit, RequestsFit, RequestFits, IsFor, PaymentStatus, RowStatus,
            Steady, Checking, Leaving, First, Recurring
    <2>2. RequestsFit'
        BY <1>0, <1>19
        DEF Settle, Goto, SetStatus, Answer, Rest, Revival, Types, PlanIsPaidFor, Knows, RequestsKnow,
            OneCheckout, PaymentsFit, RowsFit, RequestsFit, RequestFits, IsFor, PaymentStatus, RowStatus,
            Steady, Checking, Leaving, First, Recurring
    <2>3. QED
        BY <2>1, <2>2
<1>20. ASSUME NEW w \in Workers, OrderRecurring(w)
      PROVE  RowsFit' /\ RequestsFit'
    <2>1. RowsFit'
        BY <1>0, <1>20
        DEF OrderRecurring, Goto, Types, PlanIsPaidFor, Knows, RequestsKnow, OneCheckout, PaymentsFit, RowsFit,
            RequestsFit, RequestFits, IsFor, PaymentStatus, RowStatus, Steady, Checking, Leaving, First,
            Recurring
    <2>2. RequestsFit'
        BY <1>0, <1>20
        DEF OrderRecurring, Goto, Types, PlanIsPaidFor, Knows, RequestsKnow, OneCheckout, PaymentsFit, RowsFit,
            RequestsFit, RequestFits, IsFor, PaymentStatus, RowStatus, Steady, Checking, Leaving, First,
            Recurring
    <2>3. QED
        BY <2>1, <2>2
<1>21. ASSUME NEW w \in Workers, ReplaceOthers(w)
      PROVE  RowsFit' /\ RequestsFit'
    <2>1. RowsFit'
        BY <1>0, <1>21
        DEF ReplaceOthers, SetStatus, Slip, Goto, Types, PlanIsPaidFor, Knows, RequestsKnow, OneCheckout,
            PaymentsFit, RowsFit, RequestsFit, RequestFits, IsFor, PaymentStatus, RowStatus, Steady, Checking,
            Leaving, First, Recurring
    <2>2. RequestsFit'
        <3>1. \A r \in Rows : status[r] \in Steady => status'[r] \in Steady
            BY <1>0, <1>21 DEF ReplaceOthers, SetStatus, Types, Steady
        <3>2. \A r \in Rows : status[r] = None => status'[r] = None
            BY <1>0, <1>21 DEF ReplaceOthers, SetStatus, Types, Current, RowStatus
        <3>3. QED
            BY <1>0, <1>21, <3>1, <3>2
            DEF ReplaceOthers, Goto, Types, Knows, RequestsKnow, RequestsFit, RequestFits, IsFor, Checking, First, Recurring
    <2>3. QED
        BY <2>1, <2>2
<1>22. ASSUME NEW w \in Workers, ActivatePaid(w)
      PROVE  RowsFit' /\ RequestsFit'
    <2>1. RowsFit'
        BY <1>0, <1>22
        DEF ActivatePaid, SetStatus, Slip, Revival, Goto, Types, PlanIsPaidFor, Knows, RequestsKnow,
            OneCheckout, PaymentsFit, RowsFit, RequestsFit, RequestFits, IsFor, PaymentStatus, RowStatus,
            Steady, Checking, Leaving, First, Recurring
    <2>2. RequestsFit'
        BY <1>0, <1>22
        DEF ActivatePaid, SetStatus, Slip, Revival, Goto, Types, PlanIsPaidFor, Knows, RequestsKnow,
            OneCheckout, PaymentsFit, RowsFit, RequestsFit, RequestFits, IsFor, PaymentStatus, RowStatus,
            Steady, Checking, Leaving, First, Recurring
    <2>3. QED
        BY <2>1, <2>2
<1>23. ASSUME NEW w \in Workers, SetPlan(w)
      PROVE  RowsFit' /\ RequestsFit'
    <2>1. RowsFit'
        BY <1>0, <1>23
        DEF SetPlan, Answer, Rest, Types, PlanIsPaidFor, Knows, RequestsKnow, OneCheckout, PaymentsFit,
            RowsFit, RequestsFit, RequestFits, IsFor, PaymentStatus, RowStatus, Steady, Checking, Leaving,
            First, Recurring
    <2>2. RequestsFit'
        BY <1>0, <1>23
        DEF SetPlan, Answer, Rest, Types, PlanIsPaidFor, Knows, RequestsKnow, OneCheckout, PaymentsFit,
            RowsFit, RequestsFit, RequestFits, IsFor, PaymentStatus, RowStatus, Steady, Checking, Leaving,
            First, Recurring
    <2>3. QED
        BY <2>1, <2>2
<1>24. ASSUME NEW w \in Workers, LookForInvoice(w)
      PROVE  RowsFit' /\ RequestsFit'
    <2>1. RowsFit'
        BY <1>0, <1>24
        DEF LookForInvoice, InvoicesOf, Types, PlanIsPaidFor, Knows, RequestsKnow, OneCheckout, PaymentsFit,
            RowsFit, RequestsFit, RequestFits, IsFor, PaymentStatus, RowStatus, Steady, Checking, Leaving,
            First, Recurring
    <2>2. RequestsFit'
        BY <1>0, <1>24
        DEF LookForInvoice, InvoicesOf, Types, PlanIsPaidFor, Knows, RequestsKnow, OneCheckout, PaymentsFit,
            RowsFit, RequestsFit, RequestFits, IsFor, PaymentStatus, RowStatus, Steady, Checking, Leaving,
            First, Recurring
    <2>3. QED
        BY <2>1, <2>2
<1>25. ASSUME NEW w \in Workers, EnterNew(w)
      PROVE  RowsFit' /\ RequestsFit'
    <2>1. RowsFit'
        BY <1>0, <1>25
        DEF EnterNew, InvoicesOf, Rest, Goto, Types, PlanIsPaidFor, Knows, RequestsKnow, OneCheckout,
            PaymentsFit, RowsFit, RequestsFit, RequestFits, IsFor, PaymentStatus, RowStatus, Steady, Checking,
            Leaving, First, Recurring
    <2>2. RequestsFit'
        BY <1>0, <1>25
        DEF EnterNew, InvoicesOf, Rest, Goto, Types, PlanIsPaidFor, Knows, RequestsKnow, OneCheckout,
            PaymentsFit, RowsFit, RequestsFit, RequestFits, IsFor, PaymentStatus, RowStatus, Steady, Checking,
            Leaving, First, Recurring
    <2>3. QED
        BY <2>1, <2>2
<1>26. ASSUME NEW w \in Workers, EnterStatus(w)
      PROVE  RowsFit' /\ RequestsFit'
    <2>1. RowsFit'
        BY <1>0, <1>26
        DEF EnterStatus, Goto, Types, PlanIsPaidFor, Knows, RequestsKnow, OneCheckout, PaymentsFit, RowsFit,
            RequestsFit, RequestFits, IsFor, PaymentStatus, RowStatus, Steady, Checking, Leaving, First,
            Recurring
    <2>2. RequestsFit'
        BY <1>0, <1>26
        DEF EnterStatus, Goto, Types, PlanIsPaidFor, Knows, RequestsKnow, OneCheckout, PaymentsFit, RowsFit,
            RequestsFit, RequestFits, IsFor, PaymentStatus, RowStatus, Steady, Checking, Leaving, First,
            Recurring
    <2>3. QED
        BY <2>1, <2>2
<1>27. ASSUME NEW w \in Workers, Renew(w)
      PROVE  RowsFit' /\ RequestsFit'
    <2>1. RowsFit'
        BY <1>0, <1>27
        DEF Renew, SetStatus, Slip, Revival, Renewed, BecamePaid, Answer, Rest, Types, PlanIsPaidFor, Knows,
            RequestsKnow, OneCheckout, PaymentsFit, RowsFit, RequestsFit, RequestFits, IsFor, PaymentStatus,
            RowStatus, Steady, Checking, Leaving, First, Recurring
    <2>2. RequestsFit'
        BY <1>0, <1>27
        DEF Renew, SetStatus, Slip, Revival, Renewed, BecamePaid, Answer, Rest, Types, PlanIsPaidFor, Knows,
            RequestsKnow, OneCheckout, PaymentsFit, RowsFit, RequestsFit, RequestFits, IsFor, PaymentStatus,
            RowStatus, Steady, Checking, Leaving, First, Recurring
    <2>3. QED
        BY <2>1, <2>2
<1>28. ASSUME NEW w \in Workers, Stop(w)
      PROVE  RowsFit' /\ RequestsFit'
    <2>1. RowsFit'
        BY <1>0, <1>28
        DEF Stop, Rest, Types, PlanIsPaidFor, Knows, RequestsKnow, OneCheckout, PaymentsFit, RowsFit,
            RequestsFit, RequestFits, IsFor, PaymentStatus, RowStatus, Steady, Checking, Leaving, First,
            Recurring
    <2>2. RequestsFit'
        BY <1>0, <1>28
        DEF Stop, Rest, Types, PlanIsPaidFor, Knows, RequestsKnow, OneCheckout, PaymentsFit, RowsFit,
            RequestsFit, RequestFits, IsFor, PaymentStatus, RowStatus, Steady, Checking, Leaving, First,
            Recurring
    <2>3. QED
        BY <2>1, <2>2
<1>29. ASSUME NEW p \in Payments, Decide(p)
      PROVE  RowsFit' /\ RequestsFit'
    <2>1. RowsFit'
        BY <1>0, <1>29
        DEF Decide, Slip, Types, PlanIsPaidFor, Knows, RequestsKnow, OneCheckout, PaymentsFit, RowsFit,
            RequestsFit, RequestFits, IsFor, PaymentStatus, RowStatus, Steady, Checking, Leaving, First,
            Recurring
    <2>2. RequestsFit'
        BY <1>0, <1>29
        DEF Decide, Slip, Types, PlanIsPaidFor, Knows, RequestsKnow, OneCheckout, PaymentsFit, RowsFit,
            RequestsFit, RequestFits, IsFor, PaymentStatus, RowStatus, Steady, Checking, Leaving, First,
            Recurring
    <2>3. QED
        BY <2>1, <2>2
<1>30. ASSUME NEW c \in Charges, NEW r \in Paid, Charge(c, r)
      PROVE  RowsFit' /\ RequestsFit'
    <2>1. RowsFit'
        BY <1>0, <1>30
        DEF Charge, Types, PlanIsPaidFor, Knows, RequestsKnow, OneCheckout, PaymentsFit, RowsFit, RequestsFit,
            RequestFits, IsFor, PaymentStatus, RowStatus, Steady, Checking, Leaving, First, Recurring
    <2>2. RequestsFit'
        BY <1>0, <1>30
        DEF Charge, Types, PlanIsPaidFor, Knows, RequestsKnow, OneCheckout, PaymentsFit, RowsFit, RequestsFit,
            RequestFits, IsFor, PaymentStatus, RowStatus, Steady, Checking, Leaving, First, Recurring
    <2>3. QED
        BY <2>1, <2>2
<1>31. QED
    <2>1. CASE \E w \in Workers : \E r \in Paid : Checkout(w, r)
        BY <2>1, <1>1
    <2>2. CASE \E w \in Workers : \E f \in Free : Downgrade(w, f)
        BY <2>2, <1>2
    <2>3. CASE \E w \in Workers : \E p \in Payments : Deliver(w, p) \/ Redeliver(w, p)
        BY <2>3, <1>3, <1>4
    <2>4. CASE \E w \in Workers : Reconcile(w)
        BY <2>4, <1>5
    <2>5. CASE \E w \in Workers : CheckoutStep(w)
        BY <2>5, <1>6, <1>7, <1>8, <1>9, <1>10, <1>11 DEF CheckoutStep
    <2>6. CASE \E w \in Workers : DowngradeStep(w)
        BY <2>6, <1>12, <1>13, <1>14, <1>15 DEF DowngradeStep
    <2>7. CASE \E w \in Workers : WebhookStep(w)
        BY <2>7, <1>16, <1>17, <1>18, <1>19, <1>20, <1>21, <1>22, <1>23, <1>24, <1>25, <1>26, <1>27 DEF WebhookStep
    <2>8. CASE \E w \in Workers : Stop(w)
        BY <2>8, <1>28
    <2>9. CASE \E p \in Payments : Decide(p)
        BY <2>9, <1>29
    <2>10. CASE \E c \in Charges, r \in Paid : Charge(c, r)
        BY <2>10, <1>30
    <2>11. QED
        BY <2>1, <2>2, <2>3, <2>4, <2>5, <2>6, <2>7, <2>8, <2>9, <2>10 DEF Next

(* Rows and first payments fit, in every state. *)
LEMMA CoreAlways == Spec => []CoreInv
<1>1. Init => CoreInv
    <2> SUFFICES ASSUME Init
                 PROVE  CoreInv
        OBVIOUS
    <2>1. PlanInv
        BY InitPlan
    <2>2. RowsFit
        BY NoneAssumption, StatusAssumption DEF Init, RowsFit, Rows, Payments, PaymentStatus, Checking
    <2>3. RequestsFit
        BY DEF Init, RequestsFit, RequestFits, First, Recurring
    <2>4. QED
        BY <2>1, <2>2, <2>3 DEF CoreInv
<1>2. CoreInv /\ PlanInv' /\ [Next]_vars => CoreInv'
    <2> SUFFICES ASSUME CoreInv, PlanInv', [Next]_vars
                 PROVE  RowsFit' /\ RequestsFit'
        BY DEF CoreInv
    <2>1. CASE Next
        BY <2>1, NextCore DEF CoreInv
    <2>2. CASE UNCHANGED vars
        <3>1. RowsFit'
            BY <2>2 DEF CoreInv, RowsFit, vars, rowVars, mollieVars, workVars, historyVars
        <3>2. RequestsFit'
            BY <2>2 DEF CoreInv, RequestsFit, RequestFits, IsFor, vars, rowVars, mollieVars, workVars, historyVars
        <3>3. QED
            BY <3>1, <3>2
    <2>3. QED
        BY <2>1, <2>2
<1>3. QED
    BY PlanAlways, <1>1, <1>2, PTL DEF Spec

-----------------------------------------------------------------------------
(***************************************************************************)
(* Invoices.  They differ in what they were made for, and in their         *)
(* payments.  A row has one first invoice from the time its link is made;  *)
(* it is never given another payment than the first, and has that payment  *)
(* as soon as it is settled.  An invoice of a charge never changes its     *)
(* payment, and says nothing that the provider has not said.               *)
(***************************************************************************)
IsStart(i) == i.kind = "start"

BooksFit ==
    /\ IsFiniteSet(invoices)
    /\ \A i, j \in invoices : i.kind = j.kind /\ i.key = j.key => i = j
    /\ \A i, j \in invoices : i.payment = j.payment /\ i.payment # None => i = j
    /\ \A i \in invoices : IsStart(i) =>
           /\ i.key = i.row /\ i.row \in Paid /\ i.end = 1 /\ i.payment \in {None, i.row}
           /\ i.status # "open" => i.payment = i.row
           /\ status[i.row] # None
    /\ \A i \in invoices : ~IsStart(i) =>
           /\ i.key = i.payment /\ i.row \in Paid /\ IsFor(i.payment, i.row) /\ i.end > 1
           /\ i.payment # None /\ pay[i.payment] # None
           /\ i.status \in {"paid", "failed"} => pay[i.payment] = i.status
    /\ \A r \in Paid : pay[r] # None => \E i \in invoices : IsStart(i) /\ i.row = r
    /\ \A r \in Rows : end[r] > 0
    /\ \A r \in Paid : pay[r] = None => end[r] = 1

(* The same bill as i, with perhaps another status or payment. *)
SameBill(i, j) == i.kind = j.kind /\ i.key = j.key /\ i.row = j.row /\ i.end = j.end

EntryFits(w) ==
    /\ pc[w] \in {"drop", "open", "bill"} => \A i \in invoices : i.row # about[w]
    /\ pc[w] = "link" => \E i \in invoices : IsStart(i) /\ i.row = about[w]
    /\ pc[w] \in Recurring => until[w] > 0
    /\ pc[w] \in {"enter", "renew"} /\ old[w] # None =>
           old[w].payment = on[w] /\ \E i \in invoices : SameBill(i, old[w]) /\ i.payment = on[w]

EntriesFit == \A w \in Workers : EntryFits(w)

InvoiceInv == CoreInv /\ Data /\ BooksFit /\ EntriesFit

LEMMA ExchangeIsFinite ==
    ASSUME NEW S, IsFiniteSet(S), NEW i, NEW j
    PROVE  IsFiniteSet((S \ {i}) \cup {j}) /\ IsFiniteSet(S \cup {j})
BY FS_RemoveElement, FS_AddElement

(* The invoice that is stamped is the first one of the row. *)
LEMMA StampEffect ==
    ASSUME InvoiceInv, NEW w \in Workers, StampInvoice(w)
    PROVE  \/ invoices' = invoices
           \/ \E i \in invoices :
                 /\ IsStart(i) /\ i.row = about[w]
                 /\ \A j \in invoices \ {i} : j.payment # about[w]
                 /\ invoices' = (invoices \ {i}) \cup {[i EXCEPT !.payment = about[w]]}
<1> DEFINE mine == {i \in invoices : i.kind = "start" /\ i.row = about[w]}
<1>1. BooksFit /\ pc[w] = "stamp" /\ about[w] \in Paid /\ pay[about[w]] # None
    BY DEF InvoiceInv, CoreInv, PlanInv, RequestsKnow, Knows, Checking, StampInvoice
<1>2. PICK i \in invoices : IsStart(i) /\ i.row = about[w]
    BY <1>1 DEF BooksFit
<1>3. mine = {i}
    BY <1>1, <1>2 DEF BooksFit, IsStart
<1>4. CASE \E j \in invoices \ mine : j.payment = about[w]
    BY <1>4 DEF StampInvoice
<1>5. CASE ~\E j \in invoices \ mine : j.payment = about[w]
    <2>1. invoices' = (invoices \ mine) \cup {[j EXCEPT !.payment = about[w]] : j \in mine}
        BY <1>5 DEF StampInvoice
    <2>2. QED
        BY <1>2, <1>3, <1>5, <2>1
<1>6. QED
    BY <1>4, <1>5

(* So is the one that a first payment is booked on. *)
LEMMA BookEffect ==
    ASSUME InvoiceInv, NEW w \in Workers, BookFirst(w)
    PROVE  /\ pc[w] = "book" /\ UNCHANGED <<rowVars, plan, mollieVars, historyVars>>
           /\ \/ Rest(w) /\ invoices' = invoices
              \/ /\ Goto(w, "settle")
                 /\ \E i \in invoices :
                       /\ IsStart(i) /\ i.row = about[w]
                       /\ \A j \in invoices \ {i} : j.payment # on[w]
                       /\ invoices' = (invoices \ {i}) \cup {[i EXCEPT !.payment = on[w], !.status = saw[w]]}
<1> DEFINE mine == {i \in invoices : i.payment = on[w] \/ (i.row = about[w] /\ i.status = "open")}
<1>1. BooksFit /\ pc[w] = "book" /\ about[w] \in Paid /\ on[w] = about[w] /\ pay[about[w]] # None
    BY DEF InvoiceInv, CoreInv, PlanInv, RequestsKnow, Knows, RequestsFit, RequestFits, First, BookFirst
<1>2. PICK i \in invoices : IsStart(i) /\ i.row = about[w]
    BY <1>1 DEF BooksFit
<1>3. i \in mine
    BY <1>1, <1>2 DEF BooksFit
<1>4. CASE Cardinality(mine) > 1
    BY <1>1, <1>4 DEF BookFirst
<1>5. CASE ~(Cardinality(mine) > 1)
    <2>1. IsFiniteSet(mine) /\ Cardinality(mine) \in Nat
        BY <1>1, FS_Subset, FS_CardinalityType DEF BooksFit
    <2>2. mine = {i}
        <3>1. IsFiniteSet(mine \ {i}) /\ Cardinality(mine \ {i}) = Cardinality(mine) - 1
            BY <1>3, <2>1, FS_RemoveElement
        <3>2. Cardinality(mine \ {i}) \in Nat
            BY <3>1, FS_CardinalityType
        <3>3. Cardinality(mine \ {i}) = 0
            BY <1>5, <2>1, <3>1, <3>2
        <3>4. mine \ {i} = {}
            BY <3>1, <3>3, FS_EmptySet
        <3>5. QED
            BY <1>3, <3>4
    <2>3. invoices' = (invoices \ mine) \cup {[j EXCEPT !.payment = on[w], !.status = saw[w]] : j \in mine}
        BY <1>5 DEF BookFirst
    <2>4. Goto(w, "settle")
        BY <1>5 DEF BookFirst
    <2>5. \A j \in invoices \ {i} : j.payment # on[w]
        BY <2>2
    <2>6. invoices' = (invoices \ {i}) \cup {[i EXCEPT !.payment = on[w], !.status = saw[w]]}
        BY <2>2, <2>3
    <2>7. UNCHANGED <<rowVars, plan, mollieVars, historyVars>>
        BY DEF BookFirst
    <2>8. QED
        BY <1>1, <1>2, <2>4, <2>5, <2>6, <2>7
<1>6. QED
    BY <1>4, <1>5

(* A recurring payment's status is written on the invoice that has the payment. *)
LEMMA EnterEffect ==
    ASSUME InvoiceInv, NEW w \in Workers, EnterStatus(w)
    PROVE  \E i \in invoices :
              /\ SameBill(i, old[w]) /\ i.payment = on[w]
              /\ \/ invoices' = invoices /\ old[w].status = saw[w]
                 \/ invoices' = (invoices \ {i}) \cup {[i EXCEPT !.status = saw[w]]} /\ old[w].status # saw[w]
<1> DEFINE found == {i \in invoices : i.kind = old[w].kind /\ i.key = old[w].key}
<1>1. BooksFit /\ EntryFits(w) /\ pc[w] = "enter" /\ old[w] # None
    BY DEF InvoiceInv, EntriesFit, EnterStatus
<1>2. PICK i \in invoices : SameBill(i, old[w]) /\ i.payment = on[w]
    BY <1>1 DEF EntryFits
<1>3. found = {i}
    BY <1>1, <1>2 DEF BooksFit, SameBill
<1>4. invoices' = IF old[w].status = saw[w] THEN invoices
                  ELSE (invoices \ found) \cup {[j EXCEPT !.status = saw[w]] : j \in found}
    BY DEF EnterStatus
<1>5. QED
    BY <1>2, <1>3, <1>4

(* An invoice that gets a status, and a payment if it has none, leaves everything else in order. *)
LEMMA ExchangeKeeps ==
    ASSUME InvoiceInv, NEW i \in invoices, NEW j, SameBill(i, j), i.payment \in {None, j.payment},
           \A k \in invoices \ {i} : k.payment # j.payment,
           IsStart(i) => j.payment = i.row,
           ~IsStart(i) /\ j.status \in {"paid", "failed"} => pay[i.payment] = j.status,
           invoices' = (invoices \ {i}) \cup {j}, UNCHANGED <<status, pay, chargeOf, end>>
    PROVE  /\ BooksFit'
           /\ \A v \in Workers : /\ pc'[v] = pc[v] /\ on'[v] = on[v] /\ about'[v] = about[v]
                                /\ until'[v] = until[v] /\ old'[v] = old[v]
                                => EntryFits(v)'
<1>1. BooksFit /\ EntriesFit
    BY DEF InvoiceInv
<1>2. IsFiniteSet(invoices')
    BY <1>1, ExchangeIsFinite DEF BooksFit
<1>3. \A k, l \in invoices' : k.kind = l.kind /\ k.key = l.key => k = l
    BY <1>1 DEF BooksFit, SameBill
<1>4. \A k, l \in invoices' : k.payment = l.payment /\ k.payment # None => k = l
    BY <1>1 DEF BooksFit
<1>5. \A k \in invoices' : IsStart(k) =>
           /\ k.key = k.row /\ k.row \in Paid /\ k.end = 1 /\ k.payment \in {None, k.row}
           /\ k.status # "open" => k.payment = k.row
           /\ status'[k.row] # None
    BY <1>1 DEF BooksFit, SameBill, IsStart
<1>6. \A k \in invoices' : ~IsStart(k) =>
           /\ k.key = k.payment /\ k.row \in Paid /\ IsFor(k.payment, k.row)' /\ k.end > 1
           /\ k.payment # None /\ pay'[k.payment] # None
           /\ k.status \in {"paid", "failed"} => pay'[k.payment] = k.status
    BY <1>1 DEF BooksFit, SameBill, IsStart, IsFor
<1>7. \A r \in Paid : pay'[r] # None => \E k \in invoices' : IsStart(k) /\ k.row = r
    BY <1>1 DEF BooksFit, SameBill, IsStart
<1>8. (\A r \in Rows : end'[r] > 0) /\ (\A r \in Paid : pay'[r] = None => end'[r] = 1)
    BY <1>1 DEF BooksFit
<1>9. BooksFit'
    BY <1>2, <1>3, <1>4, <1>5, <1>6, <1>7, <1>8 DEF BooksFit, IsStart
<1>10. ASSUME NEW v \in Workers, EntryFits(v), pc'[v] = pc[v], on'[v] = on[v], about'[v] = about[v],
             until'[v] = until[v], old'[v] = old[v]
      PROVE  EntryFits(v)'
    <2>1. \A k \in invoices' : \E l \in invoices : SameBill(k, l)
        BY DEF SameBill
    <2>2. \A k \in invoices : \E l \in invoices' : SameBill(k, l) /\ k.payment \in {None, l.payment}
        BY DEF SameBill
    <2>3. pc[v] \in {"enter", "renew"} => on[v] # None
        BY NoneAssumption DEF InvoiceInv, CoreInv, PlanInv, RequestsKnow, Knows, Recurring, Payments
    <2>4. QED
        BY <1>10, <2>1, <2>2, <2>3 DEF EntryFits, SameBill, IsStart
<1>11. QED
    BY <1>1, <1>9, <1>10 DEF EntriesFit


(* So none of the three disturbs what the other requests know of the invoices. *)
LEMMA StampKeeps ==
    ASSUME InvoiceInv, NEW w \in Workers, StampInvoice(w)
    PROVE  BooksFit' /\ \A v \in Workers \ {w} : EntryFits(v)'
<1>1. UNCHANGED <<status, pay, chargeOf, end>> /\ Rest(w)
    BY DEF StampInvoice, rowVars, mollieVars
<1>2. Types /\ Books /\ BooksFit /\ EntriesFit
    BY DEF InvoiceInv, CoreInv, PlanInv, Data
<1>3. \A v \in Workers \ {w} : /\ pc'[v] = pc[v] /\ on'[v] = on[v] /\ about'[v] = about[v]
                               /\ until'[v] = until[v] /\ old'[v] = old[v]
    BY <1>1, <1>2 DEF Rest, Types, Books
<1>4. CASE invoices' = invoices
    BY <1>1, <1>2, <1>3, <1>4 DEF BooksFit, EntriesFit, EntryFits, SameBill, IsFor
<1>5. ASSUME NEW i \in invoices, IsStart(i), i.row = about[w], \A j \in invoices \ {i} : j.payment # about[w],
             invoices' = (invoices \ {i}) \cup {[i EXCEPT !.payment = about[w]]}
      PROVE  BooksFit' /\ \A v \in Workers \ {w} : EntryFits(v)'
    <2> DEFINE j == [i EXCEPT !.payment = about[w]]
    <2>1. SameBill(i, j) /\ j.payment = about[w] /\ i.payment \in {None, j.payment}
        BY <1>2, <1>5 DEF Books, Invoice, SameBill, BooksFit
    <2> HIDE DEF j
    <2>2. invoices' = (invoices \ {i}) \cup {j}
        BY <1>5 DEF j
    <2>3. QED
        BY <1>1, <1>3, <1>5, <2>1, <2>2, ExchangeKeeps
<1>6. QED
    BY <1>4, <1>5, StampEffect

LEMMA BookKeeps ==
    ASSUME InvoiceInv, NEW w \in Workers, BookFirst(w)
    PROVE  BooksFit' /\ \A v \in Workers \ {w} : EntryFits(v)'
<1>1. UNCHANGED <<status, pay, chargeOf, end>> /\ (Rest(w) \/ Goto(w, "settle")) /\ pc[w] = "book"
    BY BookEffect DEF rowVars, mollieVars
<1>2. Types /\ Books /\ BooksFit /\ EntriesFit /\ on[w] = about[w]
    BY <1>1 DEF InvoiceInv, CoreInv, PlanInv, Data, RequestsFit, RequestFits, First
<1>3. \A v \in Workers \ {w} : /\ pc'[v] = pc[v] /\ on'[v] = on[v] /\ about'[v] = about[v]
                               /\ until'[v] = until[v] /\ old'[v] = old[v]
    BY <1>1, <1>2 DEF Rest, Goto, Types, Books
<1>4. CASE invoices' = invoices
    BY <1>1, <1>2, <1>3, <1>4 DEF BooksFit, EntriesFit, EntryFits, SameBill, IsFor
<1>5. ASSUME NEW i \in invoices, IsStart(i), i.row = about[w], \A j \in invoices \ {i} : j.payment # on[w],
             invoices' = (invoices \ {i}) \cup {[i EXCEPT !.payment = on[w], !.status = saw[w]]}
      PROVE  BooksFit' /\ \A v \in Workers \ {w} : EntryFits(v)'
    <2> DEFINE j == [i EXCEPT !.payment = on[w], !.status = saw[w]]
    <2>1. SameBill(i, j) /\ j.payment = on[w] /\ i.payment \in {None, j.payment}
        BY <1>2, <1>5 DEF Books, Invoice, SameBill, BooksFit
    <2> HIDE DEF j
    <2>2. invoices' = (invoices \ {i}) \cup {j}
        BY <1>5 DEF j
    <2>3. QED
        BY <1>1, <1>2, <1>3, <1>5, <2>1, <2>2, ExchangeKeeps
<1>6. QED
    BY <1>4, <1>5, BookEffect

LEMMA EnterKeeps ==
    ASSUME InvoiceInv, NEW w \in Workers, EnterStatus(w)
    PROVE  BooksFit' /\ \A v \in Workers \ {w} : EntryFits(v)'
<1>1. UNCHANGED <<status, pay, chargeOf, end>> /\ Goto(w, "renew") /\ pc[w] = "enter"
    BY DEF EnterStatus, rowVars, mollieVars
<1>2. Types /\ Books /\ BooksFit /\ EntriesFit
    BY DEF InvoiceInv, CoreInv, PlanInv, Data
<1>3. /\ on[w] # None
      /\ saw[w] \in {"paid", "failed"} => pay[on[w]] = saw[w]
    BY <1>1, NoneAssumption
    DEF InvoiceInv, CoreInv, PlanInv, RequestsKnow, Knows, RequestsFit, RequestFits, Recurring, Payments
<1>4. \A v \in Workers \ {w} : /\ pc'[v] = pc[v] /\ on'[v] = on[v] /\ about'[v] = about[v]
                               /\ until'[v] = until[v] /\ old'[v] = old[v]
    BY <1>1, <1>2 DEF Goto, Types, Books
<1>5. CASE invoices' = invoices
    BY <1>1, <1>2, <1>4, <1>5 DEF BooksFit, EntriesFit, EntryFits, SameBill, IsFor
<1>6. ASSUME NEW i \in invoices, i.payment = on[w],
             invoices' = (invoices \ {i}) \cup {[i EXCEPT !.status = saw[w]]}
      PROVE  BooksFit' /\ \A v \in Workers \ {w} : EntryFits(v)'
    <2> DEFINE j == [i EXCEPT !.status = saw[w]]
    <2>1. SameBill(i, j) /\ j.payment = i.payment /\ j.status = saw[w]
        BY <1>2 DEF Books, Invoice, SameBill
    <2> HIDE DEF j
    <2>2. invoices' = (invoices \ {i}) \cup {j}
        BY <1>6 DEF j
    <2>3. (IsStart(i) => j.payment = i.row) /\ \A k \in invoices \ {i} : k.payment # j.payment
        BY <1>2, <1>3, <1>6, <2>1 DEF BooksFit
    <2>4. QED
        BY <1>1, <1>3, <1>4, <1>6, <2>1, <2>2, <2>3, ExchangeKeeps
<1>7. QED
    BY <1>5, <1>6, EnterEffect

(* Every step keeps that. *)
LEMMA NextInvoices ==
    CoreInv /\ Data /\ BooksFit /\ EntriesFit /\ Next => BooksFit' /\ EntriesFit'
<1> SUFFICES ASSUME CoreInv /\ Data /\ BooksFit /\ EntriesFit, Next
             PROVE  BooksFit' /\ EntriesFit'
    OBVIOUS
<1> USE StatusAssumption, NumbersAssumption, PlanOfAssumption, RegisteredAssumption, NamesAssumption,
        NoneAssumption
    DEF Happens, rowVars, mollieVars, workVars, historyVars, Payments, Rows
<1>0. InvoiceInv /\ Types /\ RequestsKnow /\ OneCheckout /\ PaymentsFit /\ RowsFit /\ RequestsFit /\ Books /\ BooksFit /\ EntriesFit
    BY DEF InvoiceInv, CoreInv, PlanInv, Data
<1>1. ASSUME NEW w \in Workers, NEW r \in Paid, Checkout(w, r)
      PROVE  BooksFit' /\ EntriesFit'
    <2>1. BooksFit'
        BY <1>0, <1>1
        DEF Checkout, Takes, Unused, Types, Knows, RequestsKnow, OneCheckout, PaymentsFit, RowsFit,
            RequestsFit, RequestFits, Books, BooksFit, EntriesFit, EntryFits, SameBill, IsStart, Invoice,
            IsFor, PaymentStatus, RowStatus, Steady, Checking, Leaving, First, Recurring
    <2>2. EntriesFit'
        BY <1>0, <1>1
        DEF Checkout, Takes, Unused, Types, Knows, RequestsKnow, OneCheckout, PaymentsFit, RowsFit,
            RequestsFit, RequestFits, Books, BooksFit, EntriesFit, EntryFits, SameBill, IsStart, Invoice,
            IsFor, PaymentStatus, RowStatus, Steady, Checking, Leaving, First, Recurring
    <2>3. QED
        BY <2>1, <2>2
<1>2. ASSUME NEW w \in Workers, NEW f \in Free, Downgrade(w, f)
      PROVE  BooksFit' /\ EntriesFit'
    <2>1. BooksFit'
        BY <1>0, <1>2
        DEF Downgrade, Takes, Unused, Overlap, Types, Knows, RequestsKnow, OneCheckout, PaymentsFit, RowsFit,
            RequestsFit, RequestFits, Books, BooksFit, EntriesFit, EntryFits, SameBill, IsStart, Invoice,
            IsFor, PaymentStatus, RowStatus, Steady, Checking, Leaving, First, Recurring
    <2>2. EntriesFit'
        BY <1>0, <1>2
        DEF Downgrade, Takes, Unused, Overlap, Types, Knows, RequestsKnow, OneCheckout, PaymentsFit, RowsFit,
            RequestsFit, RequestFits, Books, BooksFit, EntriesFit, EntryFits, SameBill, IsStart, Invoice,
            IsFor, PaymentStatus, RowStatus, Steady, Checking, Leaving, First, Recurring
    <2>3. QED
        BY <2>1, <2>2
<1>3. ASSUME NEW w \in Workers, NEW p \in Payments, Deliver(w, p)
      PROVE  BooksFit' /\ EntriesFit'
    <2>1. BooksFit'
        BY <1>0, <1>3
        DEF Deliver, Receive, Takes, Types, Knows, RequestsKnow, OneCheckout, PaymentsFit, RowsFit,
            RequestsFit, RequestFits, Books, BooksFit, EntriesFit, EntryFits, SameBill, IsStart, Invoice,
            IsFor, PaymentStatus, RowStatus, Steady, Checking, Leaving, First, Recurring
    <2>2. EntriesFit'
        BY <1>0, <1>3
        DEF Deliver, Receive, Takes, Types, Knows, RequestsKnow, OneCheckout, PaymentsFit, RowsFit,
            RequestsFit, RequestFits, Books, BooksFit, EntriesFit, EntryFits, SameBill, IsStart, Invoice,
            IsFor, PaymentStatus, RowStatus, Steady, Checking, Leaving, First, Recurring
    <2>3. QED
        BY <2>1, <2>2
<1>4. ASSUME NEW w \in Workers, NEW p \in Payments, Redeliver(w, p)
      PROVE  BooksFit' /\ EntriesFit'
    <2>1. BooksFit'
        BY <1>0, <1>4
        DEF Redeliver, Receive, Takes, Types, Knows, RequestsKnow, OneCheckout, PaymentsFit, RowsFit,
            RequestsFit, RequestFits, Books, BooksFit, EntriesFit, EntryFits, SameBill, IsStart, Invoice,
            IsFor, PaymentStatus, RowStatus, Steady, Checking, Leaving, First, Recurring
    <2>2. EntriesFit'
        BY <1>0, <1>4
        DEF Redeliver, Receive, Takes, Types, Knows, RequestsKnow, OneCheckout, PaymentsFit, RowsFit,
            RequestsFit, RequestFits, Books, BooksFit, EntriesFit, EntryFits, SameBill, IsStart, Invoice,
            IsFor, PaymentStatus, RowStatus, Steady, Checking, Leaving, First, Recurring
    <2>3. QED
        BY <2>1, <2>2
<1>5. ASSUME NEW w \in Workers, Reconcile(w)
      PROVE  BooksFit' /\ EntriesFit'
    <2>1. BooksFit'
        BY <1>0, <1>5
        DEF Reconcile, Receive, Takes, Types, Knows, RequestsKnow, OneCheckout, PaymentsFit, RowsFit,
            RequestsFit, RequestFits, Books, BooksFit, EntriesFit, EntryFits, SameBill, IsStart, Invoice,
            IsFor, PaymentStatus, RowStatus, Steady, Checking, Leaving, First, Recurring
    <2>2. EntriesFit'
        BY <1>0, <1>5
        DEF Reconcile, Receive, Takes, Types, Knows, RequestsKnow, OneCheckout, PaymentsFit, RowsFit,
            RequestsFit, RequestFits, Books, BooksFit, EntriesFit, EntryFits, SameBill, IsStart, Invoice,
            IsFor, PaymentStatus, RowStatus, Steady, Checking, Leaving, First, Recurring
    <2>3. QED
        BY <2>1, <2>2
<1>6. ASSUME NEW w \in Workers, DropPending(w)
      PROVE  BooksFit' /\ EntriesFit'
    <2>1. BooksFit'
        BY <1>0, <1>6
        DEF DropPending, SetStatus, Goto, Types, Knows, RequestsKnow, OneCheckout, PaymentsFit, RowsFit,
            RequestsFit, RequestFits, Books, BooksFit, EntriesFit, EntryFits, SameBill, IsStart, Invoice,
            IsFor, PaymentStatus, RowStatus, Steady, Checking, Leaving, First, Recurring
    <2>2. EntriesFit'
        BY <1>0, <1>6
        DEF DropPending, SetStatus, Goto, Types, Knows, RequestsKnow, OneCheckout, PaymentsFit, RowsFit,
            RequestsFit, RequestFits, Books, BooksFit, EntriesFit, EntryFits, SameBill, IsStart, Invoice,
            IsFor, PaymentStatus, RowStatus, Steady, Checking, Leaving, First, Recurring
    <2>3. QED
        BY <2>1, <2>2
<1>7. ASSUME NEW w \in Workers, OpenRow(w)
      PROVE  BooksFit' /\ EntriesFit'
    <2>1. BooksFit'
        BY <1>0, <1>7
        DEF OpenRow, SetStatus, Goto, Types, Knows, RequestsKnow, OneCheckout, PaymentsFit, RowsFit,
            RequestsFit, RequestFits, Books, BooksFit, EntriesFit, EntryFits, SameBill, IsStart, Invoice,
            IsFor, PaymentStatus, RowStatus, Steady, Checking, Leaving, First, Recurring
    <2>2. EntriesFit'
        BY <1>0, <1>7
        DEF OpenRow, SetStatus, Goto, Types, Knows, RequestsKnow, OneCheckout, PaymentsFit, RowsFit,
            RequestsFit, RequestFits, Books, BooksFit, EntriesFit, EntryFits, SameBill, IsStart, Invoice,
            IsFor, PaymentStatus, RowStatus, Steady, Checking, Leaving, First, Recurring
    <2>3. QED
        BY <2>1, <2>2
<1>8. ASSUME NEW w \in Workers, BillFirst(w)
      PROVE  BooksFit' /\ EntriesFit'
    <2>1. BooksFit'
        <3> DEFINE j == [kind |-> "start", key |-> about[w], row |-> about[w], payment |-> None,
                         status |-> "open", end |-> end[about[w]]]
        <3>1. invoices' = invoices \cup {j} /\ UNCHANGED <<status, pay, chargeOf, end>>
            BY <1>8 DEF BillFirst
        <3>2. about[w] \in Paid /\ end[about[w]] = 1 /\ status[about[w]] # None
            BY <1>0, <1>8 DEF BillFirst, RequestsKnow, Knows, Checking, BooksFit
        <3>3. \A i \in invoices : i.row # about[w]
            BY <1>0, <1>8 DEF BillFirst, EntriesFit, EntryFits
        <3>4. IsFiniteSet(invoices')
            BY <1>0, <3>1, ExchangeIsFinite DEF BooksFit
        <3>5. QED
            BY <1>0, <3>1, <3>2, <3>3, <3>4 DEF BooksFit, IsStart, IsFor
    <2>2. EntriesFit'
        <3> DEFINE j == [kind |-> "start", key |-> about[w], row |-> about[w], payment |-> None,
                         status |-> "open", end |-> end[about[w]]]
        <3>1. invoices' = invoices \cup {j} /\ Goto(w, "link") /\ pc[w] = "bill"
            BY <1>8 DEF BillFirst
        <3>2. j.row = about[w] /\ IsStart(j)
            BY DEF IsStart
        <3>3. EntryFits(w)'
            BY <1>0, <3>1, <3>2 DEF Goto, Types, EntryFits, Recurring
        <3>4. ASSUME NEW v \in Workers \ {w}
              PROVE  EntryFits(v)'
            <4>1. pc[v] \in {"drop", "open", "bill"} => about[v] # about[w]
                BY <1>0, <3>1 DEF OneCheckout
            <4>2. QED
                BY <1>0, <3>1, <3>2, <4>1 DEF Goto, Types, EntriesFit, EntryFits, Recurring
        <3>5. QED
            BY <3>3, <3>4 DEF EntriesFit
    <2>3. QED
        BY <2>1, <2>2
<1>9. ASSUME NEW w \in Workers, Link(w)
      PROVE  BooksFit' /\ EntriesFit'
    <2>1. BooksFit'
        BY <1>0, <1>9
        DEF Link, Goto, Types, Knows, RequestsKnow, OneCheckout, PaymentsFit, RowsFit, RequestsFit,
            RequestFits, Books, BooksFit, EntriesFit, EntryFits, SameBill, IsStart, Invoice, IsFor,
            PaymentStatus, RowStatus, Steady, Checking, Leaving, First, Recurring
    <2>2. EntriesFit'
        BY <1>0, <1>9
        DEF Link, Goto, Types, Knows, RequestsKnow, OneCheckout, PaymentsFit, RowsFit, RequestsFit,
            RequestFits, Books, BooksFit, EntriesFit, EntryFits, SameBill, IsStart, Invoice, IsFor,
            PaymentStatus, RowStatus, Steady, Checking, Leaving, First, Recurring
    <2>3. QED
        BY <2>1, <2>2
<1>10. ASSUME NEW w \in Workers, StoreLink(w)
      PROVE  BooksFit' /\ EntriesFit'
    <2>1. BooksFit'
        BY <1>0, <1>10
        DEF StoreLink, Goto, Types, Knows, RequestsKnow, OneCheckout, PaymentsFit, RowsFit, RequestsFit,
            RequestFits, Books, BooksFit, EntriesFit, EntryFits, SameBill, IsStart, Invoice, IsFor,
            PaymentStatus, RowStatus, Steady, Checking, Leaving, First, Recurring
    <2>2. EntriesFit'
        BY <1>0, <1>10
        DEF StoreLink, Goto, Types, Knows, RequestsKnow, OneCheckout, PaymentsFit, RowsFit, RequestsFit,
            RequestFits, Books, BooksFit, EntriesFit, EntryFits, SameBill, IsStart, Invoice, IsFor,
            PaymentStatus, RowStatus, Steady, Checking, Leaving, First, Recurring
    <2>3. QED
        BY <2>1, <2>2
<1>11. ASSUME NEW w \in Workers, StampInvoice(w)
      PROVE  BooksFit' /\ EntriesFit'
    <2>1. BooksFit'
        BY <1>0, <1>11, StampKeeps
    <2>2. EntriesFit'
        <3>1. EntryFits(w)'
            BY <1>0, <1>11 DEF StampInvoice, Rest, Types, EntryFits, Recurring
        <3>2. QED
            BY <1>0, <1>11, <3>1, StampKeeps DEF EntriesFit
    <2>3. QED
        BY <2>1, <2>2
<1>12. ASSUME NEW w \in Workers, CancelOrder(w)
      PROVE  BooksFit' /\ EntriesFit'
    <2>1. BooksFit'
        BY <1>0, <1>12
        DEF CancelOrder, Goto, Rest, Types, Knows, RequestsKnow, OneCheckout, PaymentsFit, RowsFit,
            RequestsFit, RequestFits, Books, BooksFit, EntriesFit, EntryFits, SameBill, IsStart, Invoice,
            IsFor, PaymentStatus, RowStatus, Steady, Checking, Leaving, First, Recurring
    <2>2. EntriesFit'
        <3>1. UNCHANGED <<status, pay, end, invoices>> /\ pc[w] = "cancel" /\ (Rest(w) \/ Goto(w, "leave"))
            BY <1>12 DEF CancelOrder
        <3>2. CASE Rest(w)
            BY <1>0, <3>1, <3>2 DEF Rest, Types, Books, EntriesFit, EntryFits, SameBill, Recurring
        <3>3. CASE Goto(w, "leave")
            BY <1>0, <3>1, <3>3 DEF Goto, Types, Books, EntriesFit, EntryFits, SameBill, Recurring
        <3>4. QED
            BY <3>1, <3>2, <3>3
    <2>3. QED
        BY <2>1, <2>2
<1>13. ASSUME NEW w \in Workers, LeavePlan(w)
      PROVE  BooksFit' /\ EntriesFit'
    <2>1. BooksFit'
        BY <1>0, <1>13
        DEF LeavePlan, SetStatus, Goto, Types, Knows, RequestsKnow, OneCheckout, PaymentsFit, RowsFit,
            RequestsFit, RequestFits, Books, BooksFit, EntriesFit, EntryFits, SameBill, IsStart, Invoice,
            IsFor, PaymentStatus, RowStatus, Steady, Checking, Leaving, First, Recurring
    <2>2. EntriesFit'
        BY <1>0, <1>13
        DEF LeavePlan, SetStatus, Goto, Types, Knows, RequestsKnow, OneCheckout, PaymentsFit, RowsFit,
            RequestsFit, RequestFits, Books, BooksFit, EntriesFit, EntryFits, SameBill, IsStart, Invoice,
            IsFor, PaymentStatus, RowStatus, Steady, Checking, Leaving, First, Recurring
    <2>3. QED
        BY <2>1, <2>2
<1>14. ASSUME NEW w \in Workers, StartFree(w)
      PROVE  BooksFit' /\ EntriesFit'
    <2>1. BooksFit'
        BY <1>0, <1>14
        DEF StartFree, SetStatus, Goto, Types, Knows, RequestsKnow, OneCheckout, PaymentsFit, RowsFit,
            RequestsFit, RequestFits, Books, BooksFit, EntriesFit, EntryFits, SameBill, IsStart, Invoice,
            IsFor, PaymentStatus, RowStatus, Steady, Checking, Leaving, First, Recurring
    <2>2. EntriesFit'
        BY <1>0, <1>14
        DEF StartFree, SetStatus, Goto, Types, Knows, RequestsKnow, OneCheckout, PaymentsFit, RowsFit,
            RequestsFit, RequestFits, Books, BooksFit, EntriesFit, EntryFits, SameBill, IsStart, Invoice,
            IsFor, PaymentStatus, RowStatus, Steady, Checking, Leaving, First, Recurring
    <2>3. QED
        BY <2>1, <2>2
<1>15. ASSUME NEW w \in Workers, SetFree(w)
      PROVE  BooksFit' /\ EntriesFit'
    <2>1. BooksFit'
        BY <1>0, <1>15
        DEF SetFree, Rest, Types, Knows, RequestsKnow, OneCheckout, PaymentsFit, RowsFit, RequestsFit,
            RequestFits, Books, BooksFit, EntriesFit, EntryFits, SameBill, IsStart, Invoice, IsFor,
            PaymentStatus, RowStatus, Steady, Checking, Leaving, First, Recurring
    <2>2. EntriesFit'
        BY <1>0, <1>15
        DEF SetFree, Rest, Types, Knows, RequestsKnow, OneCheckout, PaymentsFit, RowsFit, RequestsFit,
            RequestFits, Books, BooksFit, EntriesFit, EntryFits, SameBill, IsStart, Invoice, IsFor,
            PaymentStatus, RowStatus, Steady, Checking, Leaving, First, Recurring
    <2>3. QED
        BY <2>1, <2>2
<1>16. ASSUME NEW w \in Workers, Find(w)
      PROVE  BooksFit' /\ EntriesFit'
    <2>1. BooksFit'
        BY <1>0, <1>16
        DEF Find, Slip, Overlap, Types, Knows, RequestsKnow, OneCheckout, PaymentsFit, RowsFit, RequestsFit,
            RequestFits, Books, BooksFit, EntriesFit, EntryFits, SameBill, IsStart, Invoice, IsFor,
            PaymentStatus, RowStatus, Steady, Checking, Leaving, First, Recurring
    <2>2. EntriesFit'
        <3> DEFINE byPayment == {r \in Rows : payId[r] = on[w]}
                   r == IF byPayment # {} THEN CHOOSE x \in byPayment : TRUE ELSE Named(on[w])
                   first == byPayment # {} \/ status[r] \in {"pending_payment", "payment_failed"}
        <3>1. pc[w] = "find" /\ r \in Paid
            BY <1>16, FoundRow DEF Find, InvoiceInv, CoreInv
        <3>2. /\ pc' = [pc EXCEPT ![w] = IF first THEN "note" ELSE "look"]
              /\ about' = [about EXCEPT ![w] = r]
              /\ until' = [until EXCEPT ![w] = end[r]]
              /\ UNCHANGED <<on, old, invoices>>
            BY <1>16 DEF Find
        <3> HIDE DEF byPayment, r, first
        <3>3. \A v \in Workers \ {w} : EntryFits(v)'
            BY <1>0, <3>2 DEF Types, Books, EntriesFit, EntryFits, SameBill, Recurring
        <3>4. EntryFits(w)'
            BY <1>0, <3>1, <3>2 DEF Types, Books, BooksFit, EntriesFit, EntryFits, SameBill, Recurring
        <3>5. QED
            BY <3>3, <3>4 DEF EntriesFit
    <2>3. QED
        BY <2>1, <2>2
<1>17. ASSUME NEW w \in Workers, NotePayment(w)
      PROVE  BooksFit' /\ EntriesFit'
    <2>1. BooksFit'
        BY <1>0, <1>17
        DEF NotePayment, Goto, Types, Knows, RequestsKnow, OneCheckout, PaymentsFit, RowsFit, RequestsFit,
            RequestFits, Books, BooksFit, EntriesFit, EntryFits, SameBill, IsStart, Invoice, IsFor,
            PaymentStatus, RowStatus, Steady, Checking, Leaving, First, Recurring
    <2>2. EntriesFit'
        BY <1>0, <1>17
        DEF NotePayment, Goto, Types, Knows, RequestsKnow, OneCheckout, PaymentsFit, RowsFit, RequestsFit,
            RequestFits, Books, BooksFit, EntriesFit, EntryFits, SameBill, IsStart, Invoice, IsFor,
            PaymentStatus, RowStatus, Steady, Checking, Leaving, First, Recurring
    <2>3. QED
        BY <2>1, <2>2
<1>18. ASSUME NEW w \in Workers, BookFirst(w)
      PROVE  BooksFit' /\ EntriesFit'
    <2>1. BooksFit'
        BY <1>0, <1>18, BookKeeps
    <2>2. EntriesFit'
        <3>1. EntryFits(w)'
            <4>1. Rest(w) \/ Goto(w, "settle")
                BY <1>0, <1>18, BookEffect
            <4>2. QED
                BY <1>0, <4>1 DEF Rest, Goto, Types, EntryFits, Recurring
        <3>2. QED
            BY <1>0, <1>18, <3>1, BookKeeps DEF EntriesFit
    <2>3. QED
        BY <2>1, <2>2
<1>19. ASSUME NEW w \in Workers, Settle(w)
      PROVE  BooksFit' /\ EntriesFit'
    <2>1. BooksFit'
        BY <1>0, <1>19
        DEF Settle, Goto, SetStatus, Answer, Rest, Revival, Types, Knows, RequestsKnow, OneCheckout,
            PaymentsFit, RowsFit, RequestsFit, RequestFits, Books, BooksFit, EntriesFit, EntryFits, SameBill,
            IsStart, Invoice, IsFor, PaymentStatus, RowStatus, Steady, Checking, Leaving, First, Recurring
    <2>2. EntriesFit'
        <3>1. UNCHANGED <<end, invoices>> /\ pc[w] = "settle" /\ (Rest(w) \/ Goto(w, "order"))
            BY <1>19 DEF Settle, Answer
        <3>2. CASE Rest(w)
            BY <1>0, <3>1, <3>2 DEF Rest, Types, Books, EntriesFit, EntryFits, SameBill, Recurring
        <3>3. CASE Goto(w, "order")
            BY <1>0, <3>1, <3>3 DEF Goto, Types, Books, EntriesFit, EntryFits, SameBill, Recurring
        <3>4. QED
            BY <3>1, <3>2, <3>3
    <2>3. QED
        BY <2>1, <2>2
<1>20. ASSUME NEW w \in Workers, OrderRecurring(w)
      PROVE  BooksFit' /\ EntriesFit'
    <2>1. BooksFit'
        BY <1>0, <1>20
        DEF OrderRecurring, Goto, Types, Knows, RequestsKnow, OneCheckout, PaymentsFit, RowsFit, RequestsFit,
            RequestFits, Books, BooksFit, EntriesFit, EntryFits, SameBill, IsStart, Invoice, IsFor,
            PaymentStatus, RowStatus, Steady, Checking, Leaving, First, Recurring
    <2>2. EntriesFit'
        BY <1>0, <1>20
        DEF OrderRecurring, Goto, Types, Knows, RequestsKnow, OneCheckout, PaymentsFit, RowsFit, RequestsFit,
            RequestFits, Books, BooksFit, EntriesFit, EntryFits, SameBill, IsStart, Invoice, IsFor,
            PaymentStatus, RowStatus, Steady, Checking, Leaving, First, Recurring
    <2>3. QED
        BY <2>1, <2>2
<1>21. ASSUME NEW w \in Workers, ReplaceOthers(w)
      PROVE  BooksFit' /\ EntriesFit'
    <2>1. BooksFit'
        BY <1>0, <1>21
        DEF ReplaceOthers, SetStatus, Slip, Goto, Types, Knows, RequestsKnow, OneCheckout, PaymentsFit,
            RowsFit, RequestsFit, RequestFits, Books, BooksFit, EntriesFit, EntryFits, SameBill, IsStart,
            Invoice, IsFor, PaymentStatus, RowStatus, Steady, Checking, Leaving, First, Recurring
    <2>2. EntriesFit'
        BY <1>0, <1>21
        DEF ReplaceOthers, SetStatus, Slip, Goto, Types, Knows, RequestsKnow, OneCheckout, PaymentsFit,
            RowsFit, RequestsFit, RequestFits, Books, BooksFit, EntriesFit, EntryFits, SameBill, IsStart,
            Invoice, IsFor, PaymentStatus, RowStatus, Steady, Checking, Leaving, First, Recurring
    <2>3. QED
        BY <2>1, <2>2
<1>22. ASSUME NEW w \in Workers, ActivatePaid(w)
      PROVE  BooksFit' /\ EntriesFit'
    <2>1. BooksFit'
        BY <1>0, <1>22
        DEF ActivatePaid, SetStatus, Slip, Revival, Goto, Types, Knows, RequestsKnow, OneCheckout, PaymentsFit,
            RowsFit, RequestsFit, RequestFits, Books, BooksFit, EntriesFit, EntryFits, SameBill, IsStart,
            Invoice, IsFor, PaymentStatus, RowStatus, Steady, Checking, Leaving, First, Recurring
    <2>2. EntriesFit'
        BY <1>0, <1>22
        DEF ActivatePaid, SetStatus, Slip, Revival, Goto, Types, Knows, RequestsKnow, OneCheckout, PaymentsFit,
            RowsFit, RequestsFit, RequestFits, Books, BooksFit, EntriesFit, EntryFits, SameBill, IsStart,
            Invoice, IsFor, PaymentStatus, RowStatus, Steady, Checking, Leaving, First, Recurring
    <2>3. QED
        BY <2>1, <2>2
<1>23. ASSUME NEW w \in Workers, SetPlan(w)
      PROVE  BooksFit' /\ EntriesFit'
    <2>1. BooksFit'
        BY <1>0, <1>23
        DEF SetPlan, Answer, Rest, Types, Knows, RequestsKnow, OneCheckout, PaymentsFit, RowsFit, RequestsFit,
            RequestFits, Books, BooksFit, EntriesFit, EntryFits, SameBill, IsStart, Invoice, IsFor,
            PaymentStatus, RowStatus, Steady, Checking, Leaving, First, Recurring
    <2>2. EntriesFit'
        BY <1>0, <1>23
        DEF SetPlan, Answer, Rest, Types, Knows, RequestsKnow, OneCheckout, PaymentsFit, RowsFit, RequestsFit,
            RequestFits, Books, BooksFit, EntriesFit, EntryFits, SameBill, IsStart, Invoice, IsFor,
            PaymentStatus, RowStatus, Steady, Checking, Leaving, First, Recurring
    <2>3. QED
        BY <2>1, <2>2
<1>24. ASSUME NEW w \in Workers, LookForInvoice(w)
      PROVE  BooksFit' /\ EntriesFit'
    <2>1. BooksFit'
        BY <1>0, <1>24
        DEF LookForInvoice, InvoicesOf, Types, Knows, RequestsKnow, OneCheckout, PaymentsFit, RowsFit,
            RequestsFit, RequestFits, Books, BooksFit, EntriesFit, EntryFits, SameBill, IsStart, Invoice,
            IsFor, PaymentStatus, RowStatus, Steady, Checking, Leaving, First, Recurring
    <2>2. EntriesFit'
        <3>1. pc[w] = "look" /\ pc' = [pc EXCEPT ![w] = "enter"] /\ UNCHANGED <<on, about, until, invoices>>
            BY <1>24 DEF LookForInvoice
        <3>2. old'[w] # None => old'[w] \in invoices /\ old'[w].payment = on[w]
            BY <1>0, <1>24 DEF LookForInvoice, InvoicesOf, Books
        <3>3. \A v \in Workers \ {w} : old'[v] = old[v]
            BY <1>0, <1>24 DEF LookForInvoice, Books
        <3>4. QED
            BY <1>0, <3>1, <3>2, <3>3 DEF Types, EntriesFit, EntryFits, SameBill, Recurring
    <2>3. QED
        BY <2>1, <2>2
<1>25. ASSUME NEW w \in Workers, EnterNew(w)
      PROVE  BooksFit' /\ EntriesFit'
    <2>1. BooksFit'
        <3> DEFINE j == [kind |-> "cycle", key |-> on[w], row |-> about[w], payment |-> on[w],
                         status |-> saw[w], end |-> until[w] + 1]
        <3>1. UNCHANGED <<status, pay, chargeOf, end>> /\ pc[w] = "enter"
            BY <1>25 DEF EnterNew
        <3>2. CASE InvoicesOf(on[w]) # {}
            <4>1. Rest(w) /\ invoices' = invoices
                BY <1>25, <3>2 DEF EnterNew
            <4>2. QED
                BY <1>0, <3>1, <4>1 DEF BooksFit, IsFor
        <3>3. CASE InvoicesOf(on[w]) = {}
            <4>1. invoices' = invoices \cup {j} /\ Goto(w, "renew") /\ old[w] = None
                BY <1>25, <3>3 DEF EnterNew
            <4>2. /\ about[w] \in Paid /\ IsFor(on[w], about[w]) /\ on[w] \in Payments /\ pay[on[w]] # None
                  /\ saw[w] \in {"paid", "failed"} => pay[on[w]] = saw[w]
                  /\ until[w] + 1 > 1
                BY <1>0, <3>1
                DEF RequestsKnow, Knows, RequestsFit, RequestFits, EntriesFit, EntryFits, Recurring, Books
            <4>3. \A i \in invoices : i.payment # on[w]
                BY <3>3 DEF InvoicesOf
            <4>4. IsFiniteSet(invoices')
                BY <1>0, <4>1, ExchangeIsFinite DEF BooksFit
            <4>5. ~IsStart(j) /\ j.key = on[w] /\ j.payment = on[w] /\ j.row = about[w] /\ j.status = saw[w] /\ j.end > 1
                  /\ j.kind = "cycle"
                BY <4>2 DEF IsStart
            <4>6. \A i \in invoices : i.kind = "cycle" => i.key # on[w]
                BY <1>0, <4>3 DEF BooksFit, IsStart
            <4> HIDE DEF j
            <4>7. \A i \in invoices' : i \in invoices \/ i = j
                BY <4>1
            <4>8. QED
                BY <1>0, <3>1, <4>1, <4>2, <4>3, <4>4, <4>5, <4>6, <4>7 DEF BooksFit, IsFor, IsStart
        <3>4. QED
            BY <3>2, <3>3
    <2>2. EntriesFit'
        <3> DEFINE j == [kind |-> "cycle", key |-> on[w], row |-> about[w], payment |-> on[w],
                         status |-> saw[w], end |-> until[w] + 1]
        <3>1. UNCHANGED <<status, pay, chargeOf, end>> /\ pc[w] = "enter"
            BY <1>25 DEF EnterNew
        <3>2. CASE InvoicesOf(on[w]) # {}
            <4>1. Rest(w) /\ invoices' = invoices
                BY <1>25, <3>2 DEF EnterNew
            <4>2. QED
                BY <1>0, <3>1, <4>1 DEF Rest, Types, EntriesFit, EntryFits, SameBill, Recurring
        <3>3. CASE InvoicesOf(on[w]) = {}
            <4>1. invoices' = invoices \cup {j} /\ Goto(w, "renew") /\ old[w] = None
                BY <1>25, <3>3 DEF EnterNew
            <4>2. /\ about[w] \in Paid /\ IsFor(on[w], about[w]) /\ on[w] \in Payments /\ pay[on[w]] # None
                  /\ saw[w] \in {"paid", "failed"} => pay[on[w]] = saw[w]
                  /\ until[w] + 1 > 1
                BY <1>0, <3>1
                DEF RequestsKnow, Knows, RequestsFit, RequestFits, EntriesFit, EntryFits, Recurring, Books
            <4>3. \A i \in invoices : i.payment # on[w]
                BY <3>3 DEF InvoicesOf
            <4>4. \A v \in Workers : pc[v] \in {"drop", "open", "bill"} => about[v] # about[w]
                <5>1. CASE on[w] = about[w]
                    BY <1>0, <4>2, <5>1 DEF RequestsKnow, Knows
                <5>2. CASE on[w] \in Charges /\ chargeOf[on[w]] = about[w]
                    BY <1>0, <4>2, <5>2 DEF RequestsKnow, Knows, PaymentsFit, PaymentStatus
                <5>3. QED
                    BY <4>2, <5>1, <5>2 DEF IsFor
            <4>5. j.row = about[w]
                OBVIOUS
            <4> HIDE DEF j
            <4>6. QED
                BY <1>0, <3>1, <4>1, <4>2, <4>4, <4>5
                DEF Goto, Types, EntriesFit, EntryFits, SameBill, Recurring
        <3>4. QED
            BY <3>2, <3>3
    <2>3. QED
        BY <2>1, <2>2
<1>26. ASSUME NEW w \in Workers, EnterStatus(w)
      PROVE  BooksFit' /\ EntriesFit'
    <2>1. BooksFit'
        BY <1>0, <1>26, EnterKeeps
    <2>2. EntriesFit'
        <3>1. EntryFits(w)'
            <4>1. PICK i \in invoices :
                     /\ SameBill(i, old[w]) /\ i.payment = on[w]
                     /\ invoices' = invoices \/ invoices' = (invoices \ {i}) \cup {[i EXCEPT !.status = saw[w]]}
                BY <1>0, <1>26, EnterEffect
            <4>2. i \in Invoice
                BY <1>0 DEF Books
            <4>3. SameBill([i EXCEPT !.status = saw[w]], old[w]) /\ [i EXCEPT !.status = saw[w]].payment = on[w]
                BY <4>1, <4>2 DEF Invoice, SameBill
            <4>4. \E j \in invoices' : SameBill(j, old[w]) /\ j.payment = on[w]
                BY <4>1, <4>3
            <4>5. pc'[w] = "renew" /\ UNCHANGED <<on, about, until, old>> /\ pc[w] = "enter" /\ old[w] # None
                BY <1>0, <1>26 DEF EnterStatus, Goto, Types
            <4>6. QED
                BY <1>0, <4>4, <4>5 DEF EntriesFit, EntryFits, SameBill, Recurring
        <3>2. QED
            BY <1>0, <1>26, <3>1, EnterKeeps DEF EntriesFit
    <2>3. QED
        BY <2>1, <2>2
<1>27. ASSUME NEW w \in Workers, Renew(w)
      PROVE  BooksFit' /\ EntriesFit'
    <2>1. BooksFit'
        BY <1>0, <1>27
        DEF Renew, SetStatus, Slip, Revival, Renewed, BecamePaid, Answer, Rest, Types, Knows, RequestsKnow,
            OneCheckout, PaymentsFit, RowsFit, RequestsFit, RequestFits, Books, BooksFit, EntriesFit,
            EntryFits, SameBill, IsStart, Invoice, IsFor, PaymentStatus, RowStatus, Steady, Checking, Leaving,
            First, Recurring
    <2>2. EntriesFit'
        BY <1>0, <1>27
        DEF Renew, SetStatus, Slip, Revival, Renewed, BecamePaid, Answer, Rest, Types, Knows, RequestsKnow,
            OneCheckout, PaymentsFit, RowsFit, RequestsFit, RequestFits, Books, BooksFit, EntriesFit,
            EntryFits, SameBill, IsStart, Invoice, IsFor, PaymentStatus, RowStatus, Steady, Checking, Leaving,
            First, Recurring
    <2>3. QED
        BY <2>1, <2>2
<1>28. ASSUME NEW w \in Workers, Stop(w)
      PROVE  BooksFit' /\ EntriesFit'
    <2>1. BooksFit'
        BY <1>0, <1>28
        DEF Stop, Rest, Types, Knows, RequestsKnow, OneCheckout, PaymentsFit, RowsFit, RequestsFit,
            RequestFits, Books, BooksFit, EntriesFit, EntryFits, SameBill, IsStart, Invoice, IsFor,
            PaymentStatus, RowStatus, Steady, Checking, Leaving, First, Recurring
    <2>2. EntriesFit'
        BY <1>0, <1>28
        DEF Stop, Rest, Types, Knows, RequestsKnow, OneCheckout, PaymentsFit, RowsFit, RequestsFit,
            RequestFits, Books, BooksFit, EntriesFit, EntryFits, SameBill, IsStart, Invoice, IsFor,
            PaymentStatus, RowStatus, Steady, Checking, Leaving, First, Recurring
    <2>3. QED
        BY <2>1, <2>2
<1>29. ASSUME NEW p \in Payments, Decide(p)
      PROVE  BooksFit' /\ EntriesFit'
    <2>1. BooksFit'
        BY <1>0, <1>29
        DEF Decide, Slip, Types, Knows, RequestsKnow, OneCheckout, PaymentsFit, RowsFit, RequestsFit,
            RequestFits, Books, BooksFit, EntriesFit, EntryFits, SameBill, IsStart, Invoice, IsFor,
            PaymentStatus, RowStatus, Steady, Checking, Leaving, First, Recurring
    <2>2. EntriesFit'
        BY <1>0, <1>29
        DEF Decide, Slip, Types, Knows, RequestsKnow, OneCheckout, PaymentsFit, RowsFit, RequestsFit,
            RequestFits, Books, BooksFit, EntriesFit, EntryFits, SameBill, IsStart, Invoice, IsFor,
            PaymentStatus, RowStatus, Steady, Checking, Leaving, First, Recurring
    <2>3. QED
        BY <2>1, <2>2
<1>30. ASSUME NEW c \in Charges, NEW r \in Paid, Charge(c, r)
      PROVE  BooksFit' /\ EntriesFit'
    <2>1. BooksFit'
        BY <1>0, <1>30
        DEF Charge, Types, Knows, RequestsKnow, OneCheckout, PaymentsFit, RowsFit, RequestsFit, RequestFits,
            Books, BooksFit, EntriesFit, EntryFits, SameBill, IsStart, Invoice, IsFor, PaymentStatus,
            RowStatus, Steady, Checking, Leaving, First, Recurring
    <2>2. EntriesFit'
        BY <1>0, <1>30
        DEF Charge, Types, Knows, RequestsKnow, OneCheckout, PaymentsFit, RowsFit, RequestsFit, RequestFits,
            Books, BooksFit, EntriesFit, EntryFits, SameBill, IsStart, Invoice, IsFor, PaymentStatus,
            RowStatus, Steady, Checking, Leaving, First, Recurring
    <2>3. QED
        BY <2>1, <2>2
<1>31. QED
    <2>1. CASE \E w \in Workers : \E r \in Paid : Checkout(w, r)
        BY <2>1, <1>1
    <2>2. CASE \E w \in Workers : \E f \in Free : Downgrade(w, f)
        BY <2>2, <1>2
    <2>3. CASE \E w \in Workers : \E p \in Payments : Deliver(w, p) \/ Redeliver(w, p)
        BY <2>3, <1>3, <1>4
    <2>4. CASE \E w \in Workers : Reconcile(w)
        BY <2>4, <1>5
    <2>5. CASE \E w \in Workers : CheckoutStep(w)
        BY <2>5, <1>6, <1>7, <1>8, <1>9, <1>10, <1>11 DEF CheckoutStep
    <2>6. CASE \E w \in Workers : DowngradeStep(w)
        BY <2>6, <1>12, <1>13, <1>14, <1>15 DEF DowngradeStep
    <2>7. CASE \E w \in Workers : WebhookStep(w)
        BY <2>7, <1>16, <1>17, <1>18, <1>19, <1>20, <1>21, <1>22, <1>23, <1>24, <1>25, <1>26, <1>27 DEF WebhookStep
    <2>8. CASE \E w \in Workers : Stop(w)
        BY <2>8, <1>28
    <2>9. CASE \E p \in Payments : Decide(p)
        BY <2>9, <1>29
    <2>10. CASE \E c \in Charges, r \in Paid : Charge(c, r)
        BY <2>10, <1>30
    <2>11. QED
        BY <2>1, <2>2, <2>3, <2>4, <2>5, <2>6, <2>7, <2>8, <2>9, <2>10 DEF Next

(* The invoices do, in every state. *)
LEMMA InvoicesAlways == Spec => []InvoiceInv
<1>1. Init => BooksFit /\ EntriesFit
    <2> SUFFICES ASSUME Init
                 PROVE  BooksFit /\ EntriesFit
        OBVIOUS
    <2>1. BooksFit
        BY FS_EmptySet DEF Init, BooksFit, Payments, Rows
    <2>2. EntriesFit
        BY DEF Init, EntriesFit, EntryFits, Recurring
    <2>3. QED
        BY <2>1, <2>2
<1>2. CoreInv /\ Data /\ BooksFit /\ EntriesFit /\ [Next]_vars => BooksFit' /\ EntriesFit'
    <2> SUFFICES ASSUME CoreInv, Data, BooksFit, EntriesFit, [Next]_vars
                 PROVE  BooksFit' /\ EntriesFit'
        OBVIOUS
    <2>1. CASE Next
        BY <2>1, NextInvoices
    <2>2. CASE UNCHANGED vars
        <3>1. BooksFit'
            BY <2>2 DEF BooksFit, IsFor, vars, rowVars, mollieVars, workVars, historyVars
        <3>2. EntriesFit'
            BY <2>2 DEF EntriesFit, EntryFits, vars, rowVars, mollieVars, workVars, historyVars
        <3>3. QED
            BY <3>1, <3>2
    <2>3. QED
        BY <2>1, <2>2
<1>3. InvoiceInv <=> CoreInv /\ Data /\ BooksFit /\ EntriesFit
    BY DEF InvoiceInv
<1>4. QED
    BY CoreAlways, DataAlways, <1>1, <1>2, <1>3, PTL DEF Spec

-----------------------------------------------------------------------------
(***************************************************************************)
(* What is on a paid invoice has been paid, and as long as no status has   *)
(* changed under a request, every request saw the status of its payment,   *)
(* and has booked it when it is past the invoice.                          *)
(***************************************************************************)
Booked == {i.payment : i \in {j \in invoices : j.status = "paid"}}

Fresh == "overtaken" \notin slips

PaidFit ==
    /\ \A w \in Workers : on[w] # None => pc[w] \in {"find"} \cup First \cup Recurring
    /\ \A i \in invoices : i.status = "paid" => pay[i.payment] = "paid"

HasBooked(w) == pc[w] \in {"settle", "order", "replace", "activate", "plan", "renew"}

SeenFit == Fresh => \A w \in Workers : on[w] # None => saw[w] = pay[on[w]]

AnswersFit == Fresh => \A p \in Payments : pay[p] = "paid" /\ p \notin due => p \in Booked

WritesFit ==
    Fresh => \A w \in Workers :
                 /\ HasBooked(w) /\ saw[w] = "paid" => on[w] \in Booked
                 /\ pc[w] = "enter" /\ old[w] # None /\ old[w].status = "paid" => on[w] \in Booked

BookedInv == InvoiceInv /\ PaidFit /\ SeenFit /\ AnswersFit /\ WritesFit

(* Most steps leave the invoices alone or add one. *)
LEMMA InvoicesGrow ==
    ASSUME Next, ~\E w \in Workers : StampInvoice(w) \/ BookFirst(w) \/ EnterStatus(w)
    PROVE  /\ invoices \subseteq invoices'
           /\ (~\E w \in Workers : BillFirst(w) \/ EnterNew(w)) => UNCHANGED invoices
<1>1. ASSUME NEW w \in Workers, NEW r \in Paid, Checkout(w, r)
      PROVE  UNCHANGED invoices
    BY <1>1 DEF Checkout
<1>2. ASSUME NEW w \in Workers, NEW f \in Free, Downgrade(w, f)
      PROVE  UNCHANGED invoices
    BY <1>2 DEF Downgrade
<1>3. ASSUME NEW w \in Workers, Reconcile(w) \/ \E q \in Payments : Deliver(w, q) \/ Redeliver(w, q)
      PROVE  UNCHANGED invoices
    BY <1>3 DEF Deliver, Redeliver, Reconcile, Receive
<1>4. ASSUME NEW w \in Workers, CheckoutStep(w), ~StampInvoice(w)
      PROVE  invoices \subseteq invoices' /\ (BillFirst(w) \/ UNCHANGED invoices)
    BY <1>4 DEF CheckoutStep, DropPending, OpenRow, BillFirst, Link, StoreLink
<1>5. ASSUME NEW w \in Workers, DowngradeStep(w)
      PROVE  UNCHANGED invoices
    BY <1>5 DEF DowngradeStep, CancelOrder, LeavePlan, StartFree, SetFree
<1>6. ASSUME NEW w \in Workers, Find(w) \/ NotePayment(w) \/ Settle(w) \/ OrderRecurring(w) \/ ReplaceOthers(w)
                                \/ ActivatePaid(w) \/ SetPlan(w) \/ LookForInvoice(w) \/ Renew(w)
      PROVE  UNCHANGED invoices
    BY <1>6 DEF Find, NotePayment, Settle, OrderRecurring, ReplaceOthers, ActivatePaid, SetPlan, LookForInvoice, Renew
<1>7. ASSUME NEW w \in Workers, EnterNew(w)
      PROVE  invoices \subseteq invoices'
    BY <1>7 DEF EnterNew
<1>8. ASSUME NEW w \in Workers, Stop(w)
      PROVE  UNCHANGED invoices
    BY <1>8 DEF Stop
<1>9. ASSUME (\E q \in Payments : Decide(q)) \/ \E c \in Charges, r \in Paid : Charge(c, r)
      PROVE  UNCHANGED invoices
    BY <1>9 DEF Decide, Charge
<1>10. QED
    BY <1>1, <1>2, <1>3, <1>4, <1>5, <1>6, <1>7, <1>8, <1>9 DEF Next, WebhookStep

(* An invoice once paid stays paid. *)
LEMMA BookedStays ==
    ASSUME BookedInv, Next, Fresh, NEW p \in Payments, p \in Booked
    PROVE  p \in Booked'
<1>1. Books /\ BooksFit /\ SeenFit /\ p # None /\ pay[p] = "paid"
    BY NoneAssumption DEF BookedInv, InvoiceInv, Data, Payments, PaidFit, Booked
<1>2. CASE \E w \in Workers : StampInvoice(w)
    <2>1. PICK w \in Workers : StampInvoice(w)
        BY <1>2
    <2>2. CASE invoices' = invoices
        BY <2>2 DEF Booked
    <2>3. ASSUME NEW i \in invoices, IsStart(i), i.row = about[w],
                 invoices' = (invoices \ {i}) \cup {[i EXCEPT !.payment = about[w]]}
          PROVE  p \in Booked'
        <3> DEFINE j == [i EXCEPT !.payment = about[w]]
        <3>1. i.payment \in {None, about[w]} /\ j.payment = about[w] /\ j.status = i.status
            BY <1>1, <2>3 DEF BooksFit, Books, Invoice
        <3> HIDE DEF j
        <3>2. invoices' = (invoices \ {i}) \cup {j}
            BY <2>3 DEF j
        <3>3. QED
            BY <1>1, <3>1, <3>2 DEF Booked
    <2>4. QED
        BY <2>1, <2>2, <2>3, StampEffect DEF BookedInv
<1>3. CASE \E w \in Workers : BookFirst(w)
    <2>1. PICK w \in Workers : BookFirst(w)
        BY <1>3
    <2>2. CASE invoices' = invoices
        BY <2>2 DEF Booked
    <2>3. ASSUME NEW i \in invoices, \A j \in invoices \ {i} : j.payment # on[w],
                 invoices' = (invoices \ {i}) \cup {[i EXCEPT !.payment = on[w], !.status = saw[w]]},
                 i.payment \in {None, on[w]}, on[w] # None
          PROVE  p \in Booked'
        <3> DEFINE j == [i EXCEPT !.payment = on[w], !.status = saw[w]]
        <3>1. j.payment = on[w] /\ j.status = saw[w] /\ saw[w] = pay[on[w]]
            BY <1>1, <2>3 DEF SeenFit, Books, Invoice
        <3> HIDE DEF j
        <3>2. invoices' = (invoices \ {i}) \cup {j}
            BY <2>3 DEF j
        <3>3. QED
            BY <1>1, <2>3, <3>1, <3>2 DEF Booked
    <2>4. on[w] = about[w] /\ on[w] # None
        BY <2>1, NoneAssumption
        DEF BookedInv, InvoiceInv, CoreInv, PlanInv, RequestsFit, RequestFits, RequestsKnow, Knows, First, BookFirst,
            Payments
    <2>5. \A i \in invoices : IsStart(i) /\ i.row = about[w] => i.payment \in {None, on[w]}
        BY <1>1, <2>4 DEF BooksFit
    <2>6. QED
        BY <2>1, <2>2, <2>3, <2>4, <2>5, BookEffect DEF BookedInv
<1>4. CASE \E w \in Workers : EnterStatus(w)
    <2>1. PICK w \in Workers : EnterStatus(w)
        BY <1>4
    <2>2. CASE invoices' = invoices
        BY <2>2 DEF Booked
    <2>3. ASSUME NEW i \in invoices, i.payment = on[w], on[w] # None,
                 invoices' = (invoices \ {i}) \cup {[i EXCEPT !.status = saw[w]]}
          PROVE  p \in Booked'
        <3> DEFINE j == [i EXCEPT !.status = saw[w]]
        <3>1. j.payment = on[w] /\ j.status = saw[w] /\ saw[w] = pay[on[w]]
            BY <1>1, <2>3 DEF SeenFit, Books, Invoice
        <3> HIDE DEF j
        <3>2. invoices' = (invoices \ {i}) \cup {j}
            BY <2>3 DEF j
        <3>3. QED
            BY <1>1, <2>3, <3>1, <3>2 DEF Booked
    <2>4. on[w] # None
        BY <2>1, NoneAssumption
        DEF BookedInv, InvoiceInv, CoreInv, PlanInv, RequestsKnow, Knows, Recurring, EnterStatus, Payments
    <2>5. QED
        BY <2>1, <2>2, <2>3, <2>4, EnterEffect DEF BookedInv
<1>5. CASE ~\E w \in Workers : StampInvoice(w) \/ BookFirst(w) \/ EnterStatus(w)
    BY <1>5, InvoicesGrow DEF Booked
<1>6. QED
    BY <1>2, <1>3, <1>4, <1>5

(* Every step keeps that. *)
LEMMA NextBooked ==
    InvoiceInv /\ PaidFit /\ SeenFit /\ AnswersFit /\ WritesFit /\ Next => PaidFit' /\ SeenFit' /\ AnswersFit' /\ WritesFit'
<1> SUFFICES ASSUME InvoiceInv /\ PaidFit /\ SeenFit /\ AnswersFit /\ WritesFit, Next
             PROVE  PaidFit' /\ SeenFit' /\ AnswersFit' /\ WritesFit'
    OBVIOUS
<1> USE StatusAssumption, NumbersAssumption, PlanOfAssumption, RegisteredAssumption, NamesAssumption,
        NoneAssumption
    DEF Happens, rowVars, mollieVars, workVars, historyVars, Payments, Rows
<1>0. BookedInv /\ Types /\ RequestsKnow /\ PaymentsFit /\ Books /\ BooksFit /\ EntriesFit /\ PaidFit /\ SeenFit /\ AnswersFit /\ WritesFit
      /\ InvoiceInv /\ \A p \in Payments : Fresh /\ p \in Booked => p \in Booked'
    BY BookedStays DEF BookedInv, InvoiceInv, CoreInv, PlanInv, Data
<1>1. ASSUME NEW w \in Workers, NEW r \in Paid, Checkout(w, r)
      PROVE  PaidFit' /\ SeenFit' /\ AnswersFit' /\ WritesFit'
    <2>1. PaidFit'
        BY <1>0, <1>1
        DEF Checkout, Takes, Unused, Types, Knows, RequestsKnow, PaymentsFit, BooksFit, PaidFit, IsFor,
            PaymentStatus, Checking, Leaving, First, Recurring
    <2>2. SeenFit'
        BY <1>0, <1>1
        DEF Checkout, Takes, Unused, Types, Knows, RequestsKnow, PaidFit, SeenFit, Fresh, Checking, Leaving,
            First, Recurring
    <2>3. AnswersFit'
        BY <1>0, <1>1
        DEF Checkout, Takes, Unused, Types, AnswersFit, PaidFit, SeenFit, WritesFit, HasBooked, Fresh, Knows,
            RequestsKnow, First, Recurring
    <2>4. WritesFit'
        BY <1>0, <1>1
        DEF Checkout, Takes, Unused, Types, Books, WritesFit, Knows, RequestsKnow, PaidFit, HasBooked, Fresh,
            Checking, Leaving, First, Recurring
    <2>5. QED
        BY <2>1, <2>2, <2>3, <2>4
<1>2. ASSUME NEW w \in Workers, NEW f \in Free, Downgrade(w, f)
      PROVE  PaidFit' /\ SeenFit' /\ AnswersFit' /\ WritesFit'
    <2>1. PaidFit'
        BY <1>0, <1>2
        DEF Downgrade, Takes, Unused, Overlap, Types, Knows, RequestsKnow, PaymentsFit, BooksFit, PaidFit,
            IsFor, PaymentStatus, Checking, Leaving, First, Recurring
    <2>2. SeenFit'
        BY <1>0, <1>2
        DEF Downgrade, Takes, Unused, Overlap, Types, Knows, RequestsKnow, PaidFit, SeenFit, Fresh, Checking,
            Leaving, First, Recurring
    <2>3. AnswersFit'
        BY <1>0, <1>2
        DEF Downgrade, Takes, Unused, Overlap, Types, AnswersFit, PaidFit, SeenFit, WritesFit, HasBooked,
            Fresh, Knows, RequestsKnow, First, Recurring
    <2>4. WritesFit'
        BY <1>0, <1>2
        DEF Downgrade, Takes, Unused, Overlap, Types, Books, WritesFit, Knows, RequestsKnow, PaidFit,
            HasBooked, Fresh, Checking, Leaving, First, Recurring
    <2>5. QED
        BY <2>1, <2>2, <2>3, <2>4
<1>3. ASSUME NEW w \in Workers, NEW p \in Payments, Deliver(w, p)
      PROVE  PaidFit' /\ SeenFit' /\ AnswersFit' /\ WritesFit'
    <2>1. PaidFit'
        BY <1>0, <1>3
        DEF Deliver, Receive, Takes, Types, Knows, RequestsKnow, PaymentsFit, BooksFit, PaidFit, IsFor,
            PaymentStatus, Checking, Leaving, First, Recurring
    <2>2. SeenFit'
        BY <1>0, <1>3
        DEF Deliver, Receive, Takes, Types, Knows, RequestsKnow, PaidFit, SeenFit, Fresh, Checking, Leaving,
            First, Recurring
    <2>3. AnswersFit'
        BY <1>0, <1>3
        DEF Deliver, Receive, Takes, Types, AnswersFit, PaidFit, SeenFit, WritesFit, HasBooked, Fresh, Knows,
            RequestsKnow, First, Recurring
    <2>4. WritesFit'
        BY <1>0, <1>3
        DEF Deliver, Receive, Takes, Types, Books, WritesFit, Knows, RequestsKnow, PaidFit, HasBooked, Fresh,
            Checking, Leaving, First, Recurring
    <2>5. QED
        BY <2>1, <2>2, <2>3, <2>4
<1>4. ASSUME NEW w \in Workers, NEW p \in Payments, Redeliver(w, p)
      PROVE  PaidFit' /\ SeenFit' /\ AnswersFit' /\ WritesFit'
    <2>1. PaidFit'
        BY <1>0, <1>4
        DEF Redeliver, Receive, Takes, Types, Knows, RequestsKnow, PaymentsFit, BooksFit, PaidFit, IsFor,
            PaymentStatus, Checking, Leaving, First, Recurring
    <2>2. SeenFit'
        BY <1>0, <1>4
        DEF Redeliver, Receive, Takes, Types, Knows, RequestsKnow, PaidFit, SeenFit, Fresh, Checking, Leaving,
            First, Recurring
    <2>3. AnswersFit'
        BY <1>0, <1>4
        DEF Redeliver, Receive, Takes, Types, AnswersFit, PaidFit, SeenFit, WritesFit, HasBooked, Fresh, Knows,
            RequestsKnow, First, Recurring
    <2>4. WritesFit'
        BY <1>0, <1>4
        DEF Redeliver, Receive, Takes, Types, Books, WritesFit, Knows, RequestsKnow, PaidFit, HasBooked, Fresh,
            Checking, Leaving, First, Recurring
    <2>5. QED
        BY <2>1, <2>2, <2>3, <2>4
<1>5. ASSUME NEW w \in Workers, Reconcile(w)
      PROVE  PaidFit' /\ SeenFit' /\ AnswersFit' /\ WritesFit'
    <2>1. PaidFit'
        BY <1>0, <1>5
        DEF Reconcile, Receive, Takes, Types, Knows, RequestsKnow, PaymentsFit, BooksFit, PaidFit, IsFor,
            PaymentStatus, Checking, Leaving, First, Recurring
    <2>2. SeenFit'
        BY <1>0, <1>5
        DEF Reconcile, Receive, Takes, Types, Knows, RequestsKnow, PaidFit, SeenFit, Fresh, Checking, Leaving,
            First, Recurring
    <2>3. AnswersFit'
        BY <1>0, <1>5
        DEF Reconcile, Receive, Takes, Types, AnswersFit, PaidFit, SeenFit, WritesFit, HasBooked, Fresh, Knows,
            RequestsKnow, First, Recurring
    <2>4. WritesFit'
        BY <1>0, <1>5
        DEF Reconcile, Receive, Takes, Types, Books, WritesFit, Knows, RequestsKnow, PaidFit, HasBooked, Fresh,
            Checking, Leaving, First, Recurring
    <2>5. QED
        BY <2>1, <2>2, <2>3, <2>4
<1>6. ASSUME NEW w \in Workers, DropPending(w)
      PROVE  PaidFit' /\ SeenFit' /\ AnswersFit' /\ WritesFit'
    <2>1. PaidFit'
        BY <1>0, <1>6
        DEF DropPending, SetStatus, Goto, Types, Knows, RequestsKnow, PaymentsFit, BooksFit, PaidFit, IsFor,
            PaymentStatus, Checking, Leaving, First, Recurring
    <2>2. SeenFit'
        BY <1>0, <1>6
        DEF DropPending, SetStatus, Goto, Types, Knows, RequestsKnow, PaidFit, SeenFit, Fresh, Checking,
            Leaving, First, Recurring
    <2>3. AnswersFit'
        BY <1>0, <1>6
        DEF DropPending, SetStatus, Goto, Types, AnswersFit, PaidFit, SeenFit, WritesFit, HasBooked, Fresh,
            Knows, RequestsKnow, First, Recurring
    <2>4. WritesFit'
        BY <1>0, <1>6
        DEF DropPending, SetStatus, Goto, Types, Books, WritesFit, Knows, RequestsKnow, PaidFit, HasBooked,
            Fresh, Checking, Leaving, First, Recurring
    <2>5. QED
        BY <2>1, <2>2, <2>3, <2>4
<1>7. ASSUME NEW w \in Workers, OpenRow(w)
      PROVE  PaidFit' /\ SeenFit' /\ AnswersFit' /\ WritesFit'
    <2>1. PaidFit'
        BY <1>0, <1>7
        DEF OpenRow, SetStatus, Goto, Types, Knows, RequestsKnow, PaymentsFit, BooksFit, PaidFit, IsFor,
            PaymentStatus, Checking, Leaving, First, Recurring
    <2>2. SeenFit'
        BY <1>0, <1>7
        DEF OpenRow, SetStatus, Goto, Types, Knows, RequestsKnow, PaidFit, SeenFit, Fresh, Checking, Leaving,
            First, Recurring
    <2>3. AnswersFit'
        BY <1>0, <1>7
        DEF OpenRow, SetStatus, Goto, Types, AnswersFit, PaidFit, SeenFit, WritesFit, HasBooked, Fresh, Knows,
            RequestsKnow, First, Recurring
    <2>4. WritesFit'
        BY <1>0, <1>7
        DEF OpenRow, SetStatus, Goto, Types, Books, WritesFit, Knows, RequestsKnow, PaidFit, HasBooked, Fresh,
            Checking, Leaving, First, Recurring
    <2>5. QED
        BY <2>1, <2>2, <2>3, <2>4
<1>8. ASSUME NEW w \in Workers, BillFirst(w)
      PROVE  PaidFit' /\ SeenFit' /\ AnswersFit' /\ WritesFit'
    <2>1. PaidFit'
        BY <1>0, <1>8
        DEF BillFirst, Goto, Types, Knows, RequestsKnow, PaymentsFit, BooksFit, PaidFit, IsFor, PaymentStatus,
            Checking, Leaving, First, Recurring
    <2>2. SeenFit'
        BY <1>0, <1>8
        DEF BillFirst, Goto, Types, Knows, RequestsKnow, PaidFit, SeenFit, Fresh, Checking, Leaving, First,
            Recurring
    <2>3. AnswersFit'
        BY <1>0, <1>8
        DEF BillFirst, Goto, Types, AnswersFit, PaidFit, SeenFit, WritesFit, HasBooked, Fresh, Knows,
            RequestsKnow, First, Recurring
    <2>4. WritesFit'
        BY <1>0, <1>8
        DEF BillFirst, Goto, Types, Books, WritesFit, Knows, RequestsKnow, PaidFit, HasBooked, Fresh, Checking,
            Leaving, First, Recurring
    <2>5. QED
        BY <2>1, <2>2, <2>3, <2>4
<1>9. ASSUME NEW w \in Workers, Link(w)
      PROVE  PaidFit' /\ SeenFit' /\ AnswersFit' /\ WritesFit'
    <2>1. PaidFit'
        BY <1>0, <1>9
        DEF Link, Goto, Types, Knows, RequestsKnow, PaymentsFit, BooksFit, PaidFit, IsFor, PaymentStatus,
            Checking, Leaving, First, Recurring
    <2>2. SeenFit'
        BY <1>0, <1>9
        DEF Link, Goto, Types, Knows, RequestsKnow, PaidFit, SeenFit, Fresh, Checking, Leaving, First,
            Recurring
    <2>3. AnswersFit'
        BY <1>0, <1>9
        DEF Link, Goto, Types, AnswersFit, PaidFit, SeenFit, WritesFit, HasBooked, Fresh, Knows, RequestsKnow,
            First, Recurring
    <2>4. WritesFit'
        BY <1>0, <1>9
        DEF Link, Goto, Types, Books, WritesFit, Knows, RequestsKnow, PaidFit, HasBooked, Fresh, Checking,
            Leaving, First, Recurring
    <2>5. QED
        BY <2>1, <2>2, <2>3, <2>4
<1>10. ASSUME NEW w \in Workers, StoreLink(w)
      PROVE  PaidFit' /\ SeenFit' /\ AnswersFit' /\ WritesFit'
    <2>1. PaidFit'
        BY <1>0, <1>10
        DEF StoreLink, Goto, Types, Knows, RequestsKnow, PaymentsFit, BooksFit, PaidFit, IsFor, PaymentStatus,
            Checking, Leaving, First, Recurring
    <2>2. SeenFit'
        BY <1>0, <1>10
        DEF StoreLink, Goto, Types, Knows, RequestsKnow, PaidFit, SeenFit, Fresh, Checking, Leaving, First,
            Recurring
    <2>3. AnswersFit'
        BY <1>0, <1>10
        DEF StoreLink, Goto, Types, AnswersFit, PaidFit, SeenFit, WritesFit, HasBooked, Fresh, Knows,
            RequestsKnow, First, Recurring
    <2>4. WritesFit'
        BY <1>0, <1>10
        DEF StoreLink, Goto, Types, Books, WritesFit, Knows, RequestsKnow, PaidFit, HasBooked, Fresh, Checking,
            Leaving, First, Recurring
    <2>5. QED
        BY <2>1, <2>2, <2>3, <2>4
<1>11. ASSUME NEW w \in Workers, StampInvoice(w)
      PROVE  PaidFit' /\ SeenFit' /\ AnswersFit' /\ WritesFit'
    <2>1. PaidFit'
        <3>1. CASE invoices' = invoices
            BY <1>0, <1>11, <3>1 DEF StampInvoice, Rest, Types, PaidFit
        <3>2. ASSUME NEW i \in invoices, invoices' = (invoices \ {i}) \cup {[i EXCEPT !.payment = about[w]]},
                     IsStart(i), i.row = about[w]
              PROVE  PaidFit'
            <4> DEFINE j == [i EXCEPT !.payment = about[w]]
            <4>1. j.payment = i.row /\ j.status = i.status
                BY <1>0, <3>2 DEF Books, Invoice
            <4> HIDE DEF j
            <4>2. invoices' = (invoices \ {i}) \cup {j}
                BY <3>2 DEF j
            <4>3. i.status = "paid" => i.payment = i.row
                BY <1>0, <3>2 DEF BooksFit
            <4>4. QED
                BY <1>0, <1>11, <4>1, <4>2, <4>3 DEF StampInvoice, Rest, Types, PaidFit
        <3>3. QED
            BY <1>0, <1>11, <3>1, <3>2, StampEffect
    <2>2. SeenFit'
        BY <1>0, <1>11
        DEF StampInvoice, Rest, Types, Knows, RequestsKnow, PaidFit, SeenFit, Fresh, Checking, Leaving, First,
            Recurring
    <2>3. AnswersFit'
        BY <1>0, <1>11
        DEF StampInvoice, Rest, Types, AnswersFit, PaidFit, SeenFit, WritesFit, HasBooked, Fresh, Knows,
            RequestsKnow, First, Recurring
    <2>4. WritesFit'
        BY <1>0, <1>11
        DEF StampInvoice, Rest, Types, Books, WritesFit, Knows, RequestsKnow, PaidFit, HasBooked, Fresh,
            Checking, Leaving, First, Recurring
    <2>5. QED
        BY <2>1, <2>2, <2>3, <2>4
<1>12. ASSUME NEW w \in Workers, CancelOrder(w)
      PROVE  PaidFit' /\ SeenFit' /\ AnswersFit' /\ WritesFit'
    <2>1. PaidFit'
        <3>1. UNCHANGED <<pay, invoices>> /\ pc[w] = "cancel" /\ (Rest(w) \/ Goto(w, "leave"))
            BY <1>12 DEF CancelOrder
        <3>2. QED
            BY <1>0, <3>1 DEF Rest, Goto, Types, Knows, RequestsKnow, PaidFit, Leaving, First, Recurring
    <2>2. SeenFit'
        BY <1>0, <1>12
        DEF CancelOrder, Goto, Rest, Types, Knows, RequestsKnow, PaidFit, SeenFit, Fresh, Checking, Leaving,
            First, Recurring
    <2>3. AnswersFit'
        BY <1>0, <1>12
        DEF CancelOrder, Goto, Rest, Types, AnswersFit, PaidFit, SeenFit, WritesFit, HasBooked, Fresh, Knows,
            RequestsKnow, First, Recurring
    <2>4. WritesFit'
        BY <1>0, <1>12
        DEF CancelOrder, Goto, Rest, Types, Books, WritesFit, Knows, RequestsKnow, PaidFit, HasBooked, Fresh,
            Checking, Leaving, First, Recurring
    <2>5. QED
        BY <2>1, <2>2, <2>3, <2>4
<1>13. ASSUME NEW w \in Workers, LeavePlan(w)
      PROVE  PaidFit' /\ SeenFit' /\ AnswersFit' /\ WritesFit'
    <2>1. PaidFit'
        BY <1>0, <1>13
        DEF LeavePlan, SetStatus, Goto, Types, Knows, RequestsKnow, PaymentsFit, BooksFit, PaidFit, IsFor,
            PaymentStatus, Checking, Leaving, First, Recurring
    <2>2. SeenFit'
        BY <1>0, <1>13
        DEF LeavePlan, SetStatus, Goto, Types, Knows, RequestsKnow, PaidFit, SeenFit, Fresh, Checking, Leaving,
            First, Recurring
    <2>3. AnswersFit'
        BY <1>0, <1>13
        DEF LeavePlan, SetStatus, Goto, Types, AnswersFit, PaidFit, SeenFit, WritesFit, HasBooked, Fresh,
            Knows, RequestsKnow, First, Recurring
    <2>4. WritesFit'
        BY <1>0, <1>13
        DEF LeavePlan, SetStatus, Goto, Types, Books, WritesFit, Knows, RequestsKnow, PaidFit, HasBooked,
            Fresh, Checking, Leaving, First, Recurring
    <2>5. QED
        BY <2>1, <2>2, <2>3, <2>4
<1>14. ASSUME NEW w \in Workers, StartFree(w)
      PROVE  PaidFit' /\ SeenFit' /\ AnswersFit' /\ WritesFit'
    <2>1. PaidFit'
        BY <1>0, <1>14
        DEF StartFree, SetStatus, Goto, Types, Knows, RequestsKnow, PaymentsFit, BooksFit, PaidFit, IsFor,
            PaymentStatus, Checking, Leaving, First, Recurring
    <2>2. SeenFit'
        BY <1>0, <1>14
        DEF StartFree, SetStatus, Goto, Types, Knows, RequestsKnow, PaidFit, SeenFit, Fresh, Checking, Leaving,
            First, Recurring
    <2>3. AnswersFit'
        BY <1>0, <1>14
        DEF StartFree, SetStatus, Goto, Types, AnswersFit, PaidFit, SeenFit, WritesFit, HasBooked, Fresh,
            Knows, RequestsKnow, First, Recurring
    <2>4. WritesFit'
        BY <1>0, <1>14
        DEF StartFree, SetStatus, Goto, Types, Books, WritesFit, Knows, RequestsKnow, PaidFit, HasBooked,
            Fresh, Checking, Leaving, First, Recurring
    <2>5. QED
        BY <2>1, <2>2, <2>3, <2>4
<1>15. ASSUME NEW w \in Workers, SetFree(w)
      PROVE  PaidFit' /\ SeenFit' /\ AnswersFit' /\ WritesFit'
    <2>1. PaidFit'
        BY <1>0, <1>15
        DEF SetFree, Rest, Types, Knows, RequestsKnow, PaymentsFit, BooksFit, PaidFit, IsFor, PaymentStatus,
            Checking, Leaving, First, Recurring
    <2>2. SeenFit'
        BY <1>0, <1>15
        DEF SetFree, Rest, Types, Knows, RequestsKnow, PaidFit, SeenFit, Fresh, Checking, Leaving, First,
            Recurring
    <2>3. AnswersFit'
        BY <1>0, <1>15
        DEF SetFree, Rest, Types, AnswersFit, PaidFit, SeenFit, WritesFit, HasBooked, Fresh, Knows,
            RequestsKnow, First, Recurring
    <2>4. WritesFit'
        BY <1>0, <1>15
        DEF SetFree, Rest, Types, Books, WritesFit, Knows, RequestsKnow, PaidFit, HasBooked, Fresh, Checking,
            Leaving, First, Recurring
    <2>5. QED
        BY <2>1, <2>2, <2>3, <2>4
<1>16. ASSUME NEW w \in Workers, Find(w)
      PROVE  PaidFit' /\ SeenFit' /\ AnswersFit' /\ WritesFit'
    <2>1. PaidFit'
        <3>1. pc[w] = "find" /\ pc' = [pc EXCEPT ![w] = pc'[w]] /\ pc'[w] \in {"note", "look"}
              /\ UNCHANGED <<on, invoices, pay>>
            BY <1>0, <1>16 DEF Find, Types
        <3>2. QED
            BY <1>0, <3>1 DEF Types, PaidFit, First, Recurring
    <2>2. SeenFit'
        BY <1>0, <1>16
        DEF Find, Slip, Overlap, Types, Knows, RequestsKnow, PaidFit, SeenFit, Fresh, Checking, Leaving, First,
            Recurring
    <2>3. AnswersFit'
        BY <1>0, <1>16
        DEF Find, Slip, Overlap, Types, AnswersFit, PaidFit, SeenFit, WritesFit, HasBooked, Fresh, Knows,
            RequestsKnow, First, Recurring
    <2>4. WritesFit'
        BY <1>0, <1>16
        DEF Find, Slip, Overlap, Types, Books, WritesFit, Knows, RequestsKnow, PaidFit, HasBooked, Fresh,
            Checking, Leaving, First, Recurring
    <2>5. QED
        BY <2>1, <2>2, <2>3, <2>4
<1>17. ASSUME NEW w \in Workers, NotePayment(w)
      PROVE  PaidFit' /\ SeenFit' /\ AnswersFit' /\ WritesFit'
    <2>1. PaidFit'
        BY <1>0, <1>17
        DEF NotePayment, Goto, Types, Knows, RequestsKnow, PaymentsFit, BooksFit, PaidFit, IsFor,
            PaymentStatus, Checking, Leaving, First, Recurring
    <2>2. SeenFit'
        BY <1>0, <1>17
        DEF NotePayment, Goto, Types, Knows, RequestsKnow, PaidFit, SeenFit, Fresh, Checking, Leaving, First,
            Recurring
    <2>3. AnswersFit'
        BY <1>0, <1>17
        DEF NotePayment, Goto, Types, AnswersFit, PaidFit, SeenFit, WritesFit, HasBooked, Fresh, Knows,
            RequestsKnow, First, Recurring
    <2>4. WritesFit'
        BY <1>0, <1>17
        DEF NotePayment, Goto, Types, Books, WritesFit, Knows, RequestsKnow, PaidFit, HasBooked, Fresh,
            Checking, Leaving, First, Recurring
    <2>5. QED
        BY <2>1, <2>2, <2>3, <2>4
<1>18. ASSUME NEW w \in Workers, BookFirst(w)
      PROVE  PaidFit' /\ SeenFit' /\ AnswersFit' /\ WritesFit'
    <2>1. PaidFit'
        <3>1. pc[w] = "book" /\ (Rest(w) \/ Goto(w, "settle")) /\ UNCHANGED pay
            BY <1>0, <1>18, BookEffect
        <3>2. \A v \in Workers : on'[v] # None => pc'[v] \in {"find"} \cup First \cup Recurring
            BY <1>0, <3>1 DEF Rest, Goto, Types, PaidFit, First
        <3>3. CASE invoices' = invoices
            BY <1>0, <3>1, <3>2, <3>3 DEF PaidFit
        <3>4. ASSUME NEW i \in invoices, invoices' = (invoices \ {i}) \cup {[i EXCEPT !.payment = on[w], !.status = saw[w]]}
              PROVE  PaidFit'
            <4> DEFINE j == [i EXCEPT !.payment = on[w], !.status = saw[w]]
            <4>1. j.payment = on[w] /\ j.status = saw[w]
                BY <1>0, <3>4 DEF Books, Invoice
            <4> HIDE DEF j
            <4>2. invoices' = (invoices \ {i}) \cup {j}
                BY <3>4 DEF j
            <4>3. saw[w] = "paid" => pay[on[w]] = "paid"
                BY <1>0, <3>1 DEF RequestsKnow, Knows, First
            <4>4. QED
                BY <1>0, <3>1, <3>2, <4>1, <4>2, <4>3 DEF PaidFit
        <3>5. QED
            BY <1>0, <1>18, <3>3, <3>4, BookEffect
    <2>2. SeenFit'
        <3>1. (Rest(w) \/ Goto(w, "settle")) /\ UNCHANGED <<pay, slips>>
            BY <1>0, <1>18, BookEffect
        <3>2. CASE Rest(w)
            BY <1>0, <3>1, <3>2 DEF Rest, Types, SeenFit, Fresh
        <3>3. CASE Goto(w, "settle")
            BY <1>0, <3>1, <3>3 DEF Goto, SeenFit, Fresh
        <3>4. QED
            BY <3>1, <3>2, <3>3
    <2>3. AnswersFit'
        BY <1>0, <1>18
        DEF BookFirst, Rest, Goto, Types, AnswersFit, PaidFit, SeenFit, WritesFit, HasBooked, Fresh, Knows,
            RequestsKnow, First, Recurring
    <2>4. WritesFit'
        <3>1. pc[w] = "book" /\ UNCHANGED <<pay, slips>>
            BY <1>0, <1>18, BookEffect
        <3>2. CASE Rest(w)
            BY <1>0, <3>1, <3>2 DEF Rest, Types, Books, WritesFit, HasBooked, Fresh, Knows, RequestsKnow, First, Recurring
        <3>3. ASSUME Goto(w, "settle"),
                     NEW i \in invoices,
                     invoices' = (invoices \ {i}) \cup {[i EXCEPT !.payment = on[w], !.status = saw[w]]}
              PROVE  WritesFit'
            <4> DEFINE j == [i EXCEPT !.payment = on[w], !.status = saw[w]]
            <4>1. j.payment = on[w] /\ j.status = saw[w] /\ j \in invoices'
                BY <1>0, <3>3 DEF Books, Invoice
            <4> HIDE DEF j
            <4>2. saw[w] = "paid" => on[w] \in Booked'
                BY <4>1 DEF Booked
            <4>3. QED
                BY <1>0, <3>1, <3>3, <4>2
                DEF Goto, Types, Books, WritesFit, HasBooked, Fresh, Knows, RequestsKnow, First, Recurring
        <3>4. QED
            BY <1>0, <1>18, <3>2, <3>3, BookEffect
    <2>5. QED
        BY <2>1, <2>2, <2>3, <2>4
<1>19. ASSUME NEW w \in Workers, Settle(w)
      PROVE  PaidFit' /\ SeenFit' /\ AnswersFit' /\ WritesFit'
    <2>1. PaidFit'
        <3>1. pc[w] = "settle" /\ UNCHANGED <<invoices, pay>> /\ (Rest(w) \/ Goto(w, "order"))
            BY <1>19 DEF Settle, Answer
        <3>2. QED
            BY <1>0, <3>1 DEF Rest, Goto, Types, PaidFit, First
    <2>2. SeenFit'
        BY <1>0, <1>19
        DEF Settle, Goto, SetStatus, Answer, Rest, Revival, Types, Knows, RequestsKnow, PaidFit, SeenFit,
            Fresh, Checking, Leaving, First, Recurring
    <2>3. AnswersFit'
        BY <1>0, <1>19
        DEF Settle, Goto, SetStatus, Answer, Rest, Revival, Types, AnswersFit, PaidFit, SeenFit, WritesFit,
            HasBooked, Fresh, Knows, RequestsKnow, First, Recurring
    <2>4. WritesFit'
        BY <1>0, <1>19
        DEF Settle, Goto, SetStatus, Answer, Rest, Revival, Types, Books, WritesFit, Knows, RequestsKnow,
            PaidFit, HasBooked, Fresh, Checking, Leaving, First, Recurring
    <2>5. QED
        BY <2>1, <2>2, <2>3, <2>4
<1>20. ASSUME NEW w \in Workers, OrderRecurring(w)
      PROVE  PaidFit' /\ SeenFit' /\ AnswersFit' /\ WritesFit'
    <2>1. PaidFit'
        BY <1>0, <1>20
        DEF OrderRecurring, Goto, Types, Knows, RequestsKnow, PaymentsFit, BooksFit, PaidFit, IsFor,
            PaymentStatus, Checking, Leaving, First, Recurring
    <2>2. SeenFit'
        BY <1>0, <1>20
        DEF OrderRecurring, Goto, Types, Knows, RequestsKnow, PaidFit, SeenFit, Fresh, Checking, Leaving,
            First, Recurring
    <2>3. AnswersFit'
        BY <1>0, <1>20
        DEF OrderRecurring, Goto, Types, AnswersFit, PaidFit, SeenFit, WritesFit, HasBooked, Fresh, Knows,
            RequestsKnow, First, Recurring
    <2>4. WritesFit'
        BY <1>0, <1>20
        DEF OrderRecurring, Goto, Types, Books, WritesFit, Knows, RequestsKnow, PaidFit, HasBooked, Fresh,
            Checking, Leaving, First, Recurring
    <2>5. QED
        BY <2>1, <2>2, <2>3, <2>4
<1>21. ASSUME NEW w \in Workers, ReplaceOthers(w)
      PROVE  PaidFit' /\ SeenFit' /\ AnswersFit' /\ WritesFit'
    <2>1. PaidFit'
        BY <1>0, <1>21
        DEF ReplaceOthers, SetStatus, Slip, Goto, Types, Knows, RequestsKnow, PaymentsFit, BooksFit, PaidFit,
            IsFor, PaymentStatus, Checking, Leaving, First, Recurring
    <2>2. SeenFit'
        BY <1>0, <1>21
        DEF ReplaceOthers, SetStatus, Slip, Goto, Types, Knows, RequestsKnow, PaidFit, SeenFit, Fresh,
            Checking, Leaving, First, Recurring
    <2>3. AnswersFit'
        BY <1>0, <1>21
        DEF ReplaceOthers, SetStatus, Slip, Goto, Types, AnswersFit, PaidFit, SeenFit, WritesFit, HasBooked,
            Fresh, Knows, RequestsKnow, First, Recurring
    <2>4. WritesFit'
        BY <1>0, <1>21
        DEF ReplaceOthers, SetStatus, Slip, Goto, Types, Books, WritesFit, Knows, RequestsKnow, PaidFit,
            HasBooked, Fresh, Checking, Leaving, First, Recurring
    <2>5. QED
        BY <2>1, <2>2, <2>3, <2>4
<1>22. ASSUME NEW w \in Workers, ActivatePaid(w)
      PROVE  PaidFit' /\ SeenFit' /\ AnswersFit' /\ WritesFit'
    <2>1. PaidFit'
        BY <1>0, <1>22
        DEF ActivatePaid, SetStatus, Slip, Revival, Goto, Types, Knows, RequestsKnow, PaymentsFit, BooksFit,
            PaidFit, IsFor, PaymentStatus, Checking, Leaving, First, Recurring
    <2>2. SeenFit'
        BY <1>0, <1>22
        DEF ActivatePaid, SetStatus, Slip, Revival, Goto, Types, Knows, RequestsKnow, PaidFit, SeenFit, Fresh,
            Checking, Leaving, First, Recurring
    <2>3. AnswersFit'
        BY <1>0, <1>22
        DEF ActivatePaid, SetStatus, Slip, Revival, Goto, Types, AnswersFit, PaidFit, SeenFit, WritesFit,
            HasBooked, Fresh, Knows, RequestsKnow, First, Recurring
    <2>4. WritesFit'
        BY <1>0, <1>22
        DEF ActivatePaid, SetStatus, Slip, Revival, Goto, Types, Books, WritesFit, Knows, RequestsKnow,
            PaidFit, HasBooked, Fresh, Checking, Leaving, First, Recurring
    <2>5. QED
        BY <2>1, <2>2, <2>3, <2>4
<1>23. ASSUME NEW w \in Workers, SetPlan(w)
      PROVE  PaidFit' /\ SeenFit' /\ AnswersFit' /\ WritesFit'
    <2>1. PaidFit'
        BY <1>0, <1>23
        DEF SetPlan, Answer, Rest, Types, Knows, RequestsKnow, PaymentsFit, BooksFit, PaidFit, IsFor,
            PaymentStatus, Checking, Leaving, First, Recurring
    <2>2. SeenFit'
        BY <1>0, <1>23
        DEF SetPlan, Answer, Rest, Types, Knows, RequestsKnow, PaidFit, SeenFit, Fresh, Checking, Leaving,
            First, Recurring
    <2>3. AnswersFit'
        BY <1>0, <1>23
        DEF SetPlan, Answer, Rest, Types, AnswersFit, PaidFit, SeenFit, WritesFit, HasBooked, Fresh, Knows,
            RequestsKnow, First, Recurring
    <2>4. WritesFit'
        BY <1>0, <1>23
        DEF SetPlan, Answer, Rest, Types, Books, WritesFit, Knows, RequestsKnow, PaidFit, HasBooked, Fresh,
            Checking, Leaving, First, Recurring
    <2>5. QED
        BY <2>1, <2>2, <2>3, <2>4
<1>24. ASSUME NEW w \in Workers, LookForInvoice(w)
      PROVE  PaidFit' /\ SeenFit' /\ AnswersFit' /\ WritesFit'
    <2>1. PaidFit'
        BY <1>0, <1>24
        DEF LookForInvoice, InvoicesOf, Types, Knows, RequestsKnow, PaymentsFit, BooksFit, PaidFit, IsFor,
            PaymentStatus, Checking, Leaving, First, Recurring
    <2>2. SeenFit'
        BY <1>0, <1>24
        DEF LookForInvoice, InvoicesOf, Types, Knows, RequestsKnow, PaidFit, SeenFit, Fresh, Checking, Leaving,
            First, Recurring
    <2>3. AnswersFit'
        BY <1>0, <1>24
        DEF LookForInvoice, InvoicesOf, Types, AnswersFit, PaidFit, SeenFit, WritesFit, HasBooked, Fresh,
            Knows, RequestsKnow, First, Recurring
    <2>4. WritesFit'
        <3>1. pc[w] = "look" /\ pc' = [pc EXCEPT ![w] = "enter"] /\ UNCHANGED <<on, saw, invoices, pay, slips>>
            BY <1>24 DEF LookForInvoice
        <3>2. old'[w] # None => old'[w] \in invoices /\ old'[w].payment = on[w]
            BY <1>0, <1>24 DEF LookForInvoice, InvoicesOf, Books
        <3>3. \A v \in Workers \ {w} : old'[v] = old[v]
            BY <1>0, <1>24 DEF LookForInvoice, Books
        <3>4. Booked' = Booked
            BY <3>1 DEF Booked
        <3>5. old'[w] # None /\ old'[w].status = "paid" => on[w] \in Booked
            BY <3>2 DEF Booked
        <3>6. QED
            BY <1>0, <3>1, <3>3, <3>4, <3>5 DEF Types, WritesFit, HasBooked, Fresh
    <2>5. QED
        BY <2>1, <2>2, <2>3, <2>4
<1>25. ASSUME NEW w \in Workers, EnterNew(w)
      PROVE  PaidFit' /\ SeenFit' /\ AnswersFit' /\ WritesFit'
    <2>1. PaidFit'
        <3> DEFINE j == [kind |-> "cycle", key |-> on[w], row |-> about[w], payment |-> on[w],
                         status |-> saw[w], end |-> until[w] + 1]
        <3>1. pc[w] = "enter" /\ UNCHANGED pay /\ (Rest(w) \/ Goto(w, "renew")) /\ invoices' \subseteq invoices \cup {j}
            BY <1>25 DEF EnterNew
        <3>2. \A v \in Workers : on'[v] # None => pc'[v] \in {"find"} \cup First \cup Recurring
            BY <1>0, <3>1 DEF Rest, Goto, Types, PaidFit, Recurring
        <3>3. saw[w] = "paid" => pay[on[w]] = "paid"
            BY <1>0, <3>1 DEF RequestsKnow, Knows, Recurring
        <3>4. j.payment = on[w] /\ j.status = saw[w]
            OBVIOUS
        <3> HIDE DEF j
        <3>5. QED
            BY <1>0, <3>1, <3>2, <3>3, <3>4 DEF PaidFit
    <2>2. SeenFit'
        BY <1>0, <1>25
        DEF EnterNew, InvoicesOf, Rest, Goto, Types, Knows, RequestsKnow, PaidFit, SeenFit, Fresh, Checking,
            Leaving, First, Recurring
    <2>3. AnswersFit'
        BY <1>0, <1>25
        DEF EnterNew, InvoicesOf, Rest, Goto, Types, AnswersFit, PaidFit, SeenFit, WritesFit, HasBooked, Fresh,
            Knows, RequestsKnow, First, Recurring
    <2>4. WritesFit'
        <3> DEFINE j == [kind |-> "cycle", key |-> on[w], row |-> about[w], payment |-> on[w],
                         status |-> saw[w], end |-> until[w] + 1]
        <3>1. pc[w] = "enter" /\ UNCHANGED <<pay, slips>>
            BY <1>25 DEF EnterNew
        <3>2. CASE InvoicesOf(on[w]) # {}
            <4>1. Rest(w)
                BY <1>25, <3>2 DEF EnterNew
            <4>2. QED
                BY <1>0, <3>1, <4>1
                DEF Rest, Types, Books, WritesFit, HasBooked, Fresh, Knows, RequestsKnow, First, Recurring
        <3>3. CASE InvoicesOf(on[w]) = {}
            <4>1. j \in invoices' /\ Goto(w, "renew")
                BY <1>25, <3>3 DEF EnterNew
            <4>2. j.payment = on[w] /\ j.status = saw[w]
                OBVIOUS
            <4> HIDE DEF j
            <4>3. saw[w] = "paid" => on[w] \in Booked'
                BY <4>1, <4>2 DEF Booked
            <4>4. QED
                BY <1>0, <3>1, <4>1, <4>3
                DEF Goto, Types, Books, WritesFit, HasBooked, Fresh, Knows, RequestsKnow, First, Recurring
        <3>4. QED
            BY <3>2, <3>3
    <2>5. QED
        BY <2>1, <2>2, <2>3, <2>4
<1>26. ASSUME NEW w \in Workers, EnterStatus(w)
      PROVE  PaidFit' /\ SeenFit' /\ AnswersFit' /\ WritesFit'
    <2>1. PaidFit'
        <3>1. pc[w] = "enter" /\ Goto(w, "renew") /\ UNCHANGED pay
            BY <1>26 DEF EnterStatus
        <3>2. \A v \in Workers : on'[v] # None => pc'[v] \in {"find"} \cup First \cup Recurring
            BY <1>0, <3>1 DEF Goto, Types, PaidFit, Recurring
        <3>3. CASE invoices' = invoices
            BY <1>0, <3>1, <3>2, <3>3 DEF PaidFit
        <3>4. ASSUME NEW i \in invoices, i.payment = on[w],
                     invoices' = (invoices \ {i}) \cup {[i EXCEPT !.status = saw[w]]}
              PROVE  PaidFit'
            <4> DEFINE j == [i EXCEPT !.status = saw[w]]
            <4>1. j.payment = on[w] /\ j.status = saw[w]
                BY <1>0, <3>4 DEF Books, Invoice
            <4> HIDE DEF j
            <4>2. invoices' = (invoices \ {i}) \cup {j}
                BY <3>4 DEF j
            <4>3. saw[w] = "paid" => pay[on[w]] = "paid"
                BY <1>0, <3>1 DEF RequestsKnow, Knows, Recurring
            <4>4. QED
                BY <1>0, <3>1, <3>2, <4>1, <4>2, <4>3 DEF PaidFit
        <3>5. QED
            BY <1>0, <1>26, <3>3, <3>4, EnterEffect
    <2>2. SeenFit'
        BY <1>0, <1>26
        DEF EnterStatus, Goto, Types, Knows, RequestsKnow, PaidFit, SeenFit, Fresh, Checking, Leaving, First,
            Recurring
    <2>3. AnswersFit'
        BY <1>0, <1>26
        DEF EnterStatus, Goto, Types, AnswersFit, PaidFit, SeenFit, WritesFit, HasBooked, Fresh, Knows,
            RequestsKnow, First, Recurring
    <2>4. WritesFit'
        <3>1. pc[w] = "enter" /\ Goto(w, "renew") /\ UNCHANGED <<pay, slips>> /\ old[w] # None /\ on[w] \in Payments
            BY <1>0, <1>26 DEF EnterStatus, RequestsKnow, Knows, Recurring
        <3>2. Fresh' /\ saw[w] = "paid" => on[w] \in Booked'
            <4>1. CASE old[w].status = saw[w]
                BY <1>0, <3>1, <4>1 DEF WritesFit, Fresh
            <4>2. ASSUME NEW i \in invoices, i.payment = on[w],
                         invoices' = (invoices \ {i}) \cup {[i EXCEPT !.status = saw[w]]}
                  PROVE  saw[w] = "paid" => on[w] \in Booked'
                <5> DEFINE j == [i EXCEPT !.status = saw[w]]
                <5>1. j.payment = on[w] /\ j.status = saw[w] /\ j \in invoices'
                    BY <1>0, <4>2 DEF Books, Invoice
                <5> HIDE DEF j
                <5>2. QED
                    BY <5>1 DEF Booked
            <4>3. QED
                BY <1>0, <1>26, <4>1, <4>2, EnterEffect
        <3>3. QED
            BY <1>0, <3>1, <3>2
            DEF Goto, Types, Books, WritesFit, HasBooked, Fresh, Knows, RequestsKnow, First, Recurring
    <2>5. QED
        BY <2>1, <2>2, <2>3, <2>4
<1>27. ASSUME NEW w \in Workers, Renew(w)
      PROVE  PaidFit' /\ SeenFit' /\ AnswersFit' /\ WritesFit'
    <2>1. PaidFit'
        BY <1>0, <1>27
        DEF Renew, SetStatus, Slip, Revival, Renewed, BecamePaid, Answer, Rest, Types, Knows, RequestsKnow,
            PaymentsFit, BooksFit, PaidFit, IsFor, PaymentStatus, Checking, Leaving, First, Recurring
    <2>2. SeenFit'
        BY <1>0, <1>27
        DEF Renew, SetStatus, Slip, Revival, Renewed, BecamePaid, Answer, Rest, Types, Knows, RequestsKnow,
            PaidFit, SeenFit, Fresh, Checking, Leaving, First, Recurring
    <2>3. AnswersFit'
        BY <1>0, <1>27
        DEF Renew, SetStatus, Slip, Revival, Renewed, BecamePaid, Answer, Rest, Types, AnswersFit, PaidFit,
            SeenFit, WritesFit, HasBooked, Fresh, Knows, RequestsKnow, First, Recurring
    <2>4. WritesFit'
        BY <1>0, <1>27
        DEF Renew, SetStatus, Slip, Revival, Renewed, BecamePaid, Answer, Rest, Types, Books, WritesFit, Knows,
            RequestsKnow, PaidFit, HasBooked, Fresh, Checking, Leaving, First, Recurring
    <2>5. QED
        BY <2>1, <2>2, <2>3, <2>4
<1>28. ASSUME NEW w \in Workers, Stop(w)
      PROVE  PaidFit' /\ SeenFit' /\ AnswersFit' /\ WritesFit'
    <2>1. PaidFit'
        BY <1>0, <1>28
        DEF Stop, Rest, Types, Knows, RequestsKnow, PaymentsFit, BooksFit, PaidFit, IsFor, PaymentStatus,
            Checking, Leaving, First, Recurring
    <2>2. SeenFit'
        BY <1>0, <1>28
        DEF Stop, Rest, Types, Knows, RequestsKnow, PaidFit, SeenFit, Fresh, Checking, Leaving, First,
            Recurring
    <2>3. AnswersFit'
        BY <1>0, <1>28
        DEF Stop, Rest, Types, AnswersFit, PaidFit, SeenFit, WritesFit, HasBooked, Fresh, Knows, RequestsKnow,
            First, Recurring
    <2>4. WritesFit'
        BY <1>0, <1>28
        DEF Stop, Rest, Types, Books, WritesFit, Knows, RequestsKnow, PaidFit, HasBooked, Fresh, Checking,
            Leaving, First, Recurring
    <2>5. QED
        BY <2>1, <2>2, <2>3, <2>4
<1>29. ASSUME NEW p \in Payments, Decide(p)
      PROVE  PaidFit' /\ SeenFit' /\ AnswersFit' /\ WritesFit'
    <2>1. PaidFit'
        BY <1>0, <1>29
        DEF Decide, Slip, Types, Knows, RequestsKnow, PaymentsFit, BooksFit, PaidFit, IsFor, PaymentStatus,
            Checking, Leaving, First, Recurring
    <2>2. SeenFit'
        BY <1>0, <1>29
        DEF Decide, Slip, Types, Knows, RequestsKnow, PaidFit, SeenFit, Fresh, Checking, Leaving, First,
            Recurring
    <2>3. AnswersFit'
        BY <1>0, <1>29
        DEF Decide, Slip, Types, AnswersFit, PaidFit, SeenFit, WritesFit, HasBooked, Fresh, Knows,
            RequestsKnow, First, Recurring
    <2>4. WritesFit'
        BY <1>0, <1>29
        DEF Decide, Slip, Types, Books, WritesFit, Knows, RequestsKnow, PaidFit, HasBooked, Fresh, Checking,
            Leaving, First, Recurring
    <2>5. QED
        BY <2>1, <2>2, <2>3, <2>4
<1>30. ASSUME NEW c \in Charges, NEW r \in Paid, Charge(c, r)
      PROVE  PaidFit' /\ SeenFit' /\ AnswersFit' /\ WritesFit'
    <2>1. PaidFit'
        BY <1>0, <1>30
        DEF Charge, Types, Knows, RequestsKnow, PaymentsFit, BooksFit, PaidFit, IsFor, PaymentStatus, Checking,
            Leaving, First, Recurring
    <2>2. SeenFit'
        BY <1>0, <1>30
        DEF Charge, Types, Knows, RequestsKnow, PaidFit, SeenFit, Fresh, Checking, Leaving, First, Recurring
    <2>3. AnswersFit'
        BY <1>0, <1>30
        DEF Charge, Types, AnswersFit, PaidFit, SeenFit, WritesFit, HasBooked, Fresh, Knows, RequestsKnow,
            First, Recurring
    <2>4. WritesFit'
        BY <1>0, <1>30
        DEF Charge, Types, Books, WritesFit, Knows, RequestsKnow, PaidFit, HasBooked, Fresh, Checking, Leaving,
            First, Recurring
    <2>5. QED
        BY <2>1, <2>2, <2>3, <2>4
<1>31. QED
    <2>1. CASE \E w \in Workers : \E r \in Paid : Checkout(w, r)
        BY <2>1, <1>1
    <2>2. CASE \E w \in Workers : \E f \in Free : Downgrade(w, f)
        BY <2>2, <1>2
    <2>3. CASE \E w \in Workers : \E p \in Payments : Deliver(w, p) \/ Redeliver(w, p)
        BY <2>3, <1>3, <1>4
    <2>4. CASE \E w \in Workers : Reconcile(w)
        BY <2>4, <1>5
    <2>5. CASE \E w \in Workers : CheckoutStep(w)
        BY <2>5, <1>6, <1>7, <1>8, <1>9, <1>10, <1>11 DEF CheckoutStep
    <2>6. CASE \E w \in Workers : DowngradeStep(w)
        BY <2>6, <1>12, <1>13, <1>14, <1>15 DEF DowngradeStep
    <2>7. CASE \E w \in Workers : WebhookStep(w)
        BY <2>7, <1>16, <1>17, <1>18, <1>19, <1>20, <1>21, <1>22, <1>23, <1>24, <1>25, <1>26, <1>27 DEF WebhookStep
    <2>8. CASE \E w \in Workers : Stop(w)
        BY <2>8, <1>28
    <2>9. CASE \E p \in Payments : Decide(p)
        BY <2>9, <1>29
    <2>10. CASE \E c \in Charges, r \in Paid : Charge(c, r)
        BY <2>10, <1>30
    <2>11. QED
        BY <2>1, <2>2, <2>3, <2>4, <2>5, <2>6, <2>7, <2>8, <2>9, <2>10 DEF Next

LEMMA BookedAlways == Spec => []BookedInv
<1>1. Init => PaidFit /\ SeenFit /\ AnswersFit /\ WritesFit
    <2> SUFFICES ASSUME Init
                 PROVE  PaidFit /\ SeenFit /\ AnswersFit /\ WritesFit
        OBVIOUS
    <2>1. PaidFit
        BY DEF Init, PaidFit
    <2>2. SeenFit
        BY DEF Init, SeenFit
    <2>3. AnswersFit
        BY StatusAssumption DEF Init, AnswersFit, PaymentStatus
    <2>4. WritesFit
        BY DEF Init, WritesFit, HasBooked
    <2>5. QED
        BY <2>1, <2>2, <2>3, <2>4
<1>2. BookedInv /\ [Next]_vars => PaidFit' /\ SeenFit' /\ AnswersFit' /\ WritesFit'
    <2> SUFFICES ASSUME BookedInv, [Next]_vars
                 PROVE  PaidFit' /\ SeenFit' /\ AnswersFit' /\ WritesFit'
        OBVIOUS
    <2>1. CASE Next
        BY <2>1, NextBooked DEF BookedInv
    <2>2. CASE UNCHANGED vars
        <3>1. Booked' = Booked /\ Fresh' = Fresh
            BY <2>2 DEF Booked, Fresh, vars, rowVars, mollieVars, workVars, historyVars
        <3>2. PaidFit'
            BY <2>2 DEF BookedInv, PaidFit, vars, rowVars, mollieVars, workVars, historyVars
        <3>3. SeenFit'
            BY <2>2, <3>1 DEF BookedInv, SeenFit, vars, rowVars, mollieVars, workVars, historyVars
        <3>4. AnswersFit'
            BY <2>2, <3>1 DEF BookedInv, AnswersFit, vars, rowVars, mollieVars, workVars, historyVars
        <3>5. WritesFit'
            BY <2>2, <3>1 DEF BookedInv, WritesFit, HasBooked, vars, rowVars, mollieVars, workVars, historyVars
        <3>6. QED
            BY <3>2, <3>3, <3>4, <3>5
    <2>3. QED
        BY <2>1, <2>2
<1>3. BookedInv <=> InvoiceInv /\ PaidFit /\ SeenFit /\ AnswersFit /\ WritesFit
    BY DEF BookedInv
<1>4. QED
    BY InvoicesAlways, <1>1, <1>2, <1>3, PTL DEF Spec

(* A payment that is paid and answered is on a paid invoice, in every state, and its row is no longer pending. *)
THEOREM AnsweredIsBookedHolds == Spec => []AnsweredIsBooked
<1>1. BookedInv => AnsweredIsBooked
    <2> SUFFICES ASSUME BookedInv, "overtaken" \notin slips, NEW p \in Payments, pay[p] = "paid", p \notin due
                 PROVE  /\ \E i \in invoices : i.payment = p /\ i.status = "paid"
                        /\ p \in Paid => status[p] \notin {"pending_payment", "payment_failed"}
        BY DEF AnsweredIsBooked
    <2>1. p \in Booked
        BY DEF BookedInv, AnswersFit, Fresh
    <2>2. p \in Paid => status[p] \in Steady
        BY DEF BookedInv, InvoiceInv, CoreInv, RowsFit
    <2>3. QED
        BY <2>1, <2>2 DEF Booked, Steady
<1>2. QED
    BY BookedAlways, <1>1, PTL

-----------------------------------------------------------------------------
(***************************************************************************)
(* The current row.  While nothing has overlapped, stopped half way or     *)
(* come back, at most one request is about to switch: it downgrades, or it *)
(* has a first payment that is paid.  Between the two statements that      *)
(* replace the old row and activate the new one no row is current, after   *)
(* them the new one is, and the plan follows; everybody else leaves the    *)
(* current row alone.                                                      *)
(***************************************************************************)
Good == slips \cap {"torn", "overlap", "revived"} = {}

Switches(w) == pc[w] \in Leaving \/ (pc[w] \in First /\ saw[w] = "paid")

OneSwitch == Good => \A v, w \in Workers : Switches(v) /\ Switches(w) => v = w

CurrentIsPaid == Good => \A r \in Paid : r \in Current => pay[r] = "paid"

LeaverFits(w) == pc[w] \in {"cancel", "leave", "start"} => status[about[w]] = None

RenewalFits(w) ==
    pc[w] \in Recurring =>
        /\ status[about[w]] \in Steady
        /\ was[w] = "replaced" => status[about[w]] = "replaced"

RowsKnown == Good => \A w \in Workers : LeaverFits(w) /\ RenewalFits(w)

PlanFor(r) == IF r \in Paid THEN PlanOf[r] ELSE "free"

Switched ==
    Good =>
        /\ \A w \in Workers : pc[w] \in {"activate", "start"} => Current = {}
        /\ \A w \in Workers : pc[w] \in {"plan", "down"} => Current = {about[w]}
        /\ (\A w \in Workers : pc[w] \notin {"activate", "start", "plan", "down"}) =>
               \E r \in Rows : Current = {r} /\ plan = PlanFor(r)

SwitchInv == CoreInv /\ OneSwitch /\ CurrentIsPaid /\ RowsKnown /\ Switched

(* A slip is never forgotten. *)
LEMMA SlipsStay == Next => slips \subseteq slips'
<1>1. ASSUME NEW w \in Workers, NEW r \in Paid, Checkout(w, r)
      PROVE  slips \subseteq slips'
    BY <1>1 DEF Checkout
<1>2. ASSUME NEW w \in Workers, NEW f \in Free, Downgrade(w, f)
      PROVE  slips \subseteq slips'
    BY <1>2 DEF Downgrade
<1>3. ASSUME NEW w \in Workers, Reconcile(w) \/ \E q \in Payments : Deliver(w, q) \/ Redeliver(w, q)
      PROVE  slips \subseteq slips'
    BY <1>3 DEF Deliver, Redeliver, Reconcile, historyVars
<1>4. ASSUME NEW w \in Workers, CheckoutStep(w) \/ DowngradeStep(w)
      PROVE  slips \subseteq slips'
    BY <1>4
    DEF CheckoutStep, DropPending, OpenRow, BillFirst, Link, StoreLink, StampInvoice,
        DowngradeStep, CancelOrder, LeavePlan, StartFree, SetFree, historyVars
<1>5. ASSUME NEW w \in Workers, WebhookStep(w)
      PROVE  slips \subseteq slips'
    BY <1>5
    DEF WebhookStep, Find, NotePayment, BookFirst, Settle, OrderRecurring, ReplaceOthers, ActivatePaid, SetPlan,
        LookForInvoice, EnterNew, EnterStatus, Renew, Slip, historyVars
<1>6. ASSUME NEW w \in Workers, Stop(w)
      PROVE  slips \subseteq slips'
    BY <1>6 DEF Stop
<1>7. ASSUME (\E q \in Payments : Decide(q)) \/ \E c \in Charges, r \in Paid : Charge(c, r)
      PROVE  slips \subseteq slips'
    BY <1>7 DEF Decide, Charge, Slip
<1>8. QED
    BY <1>1, <1>2, <1>3, <1>4, <1>5, <1>6, <1>7 DEF Next

LEMMA GoodBefore == Next /\ Good' => Good
BY SlipsStay DEF Good

(* What the end of a first payment's request does to the rows. *)
LEMMA SettleEffect ==
    ASSUME SwitchInv, NEW w \in Workers, Settle(w)
    PROVE  /\ pc[w] = "settle" /\ UNCHANGED <<plan, pay>>
           /\ Goto(w, "order") \/ Rest(w)
           /\ about[w] \in Paid /\ on[w] = about[w]
           /\ \A r \in Rows : status[r] = None <=> status'[r] = None
           /\ Good' => /\ Current' = Current
                       /\ \A r \in Free : status'[r] = status[r]
                       /\ \A r \in Rows : status[r] \in Steady => status'[r] = status[r]
<1> USE StatusAssumption, NamesAssumption DEF Rows, Payments
<1>1. PlanInv /\ Types /\ RequestsKnow /\ RequestsFit /\ CurrentIsPaid
    BY DEF SwitchInv, CoreInv, PlanInv
<1>2. pc[w] = "settle" /\ UNCHANGED <<plan, pay>> /\ (Goto(w, "order") \/ Rest(w))
    BY DEF Settle, Answer, mollieVars
<1>3. about[w] \in Paid /\ on[w] = about[w] /\ status[about[w]] # None
    BY <1>1, <1>2 DEF RequestsKnow, Knows, First, RequestsFit, RequestFits
<1>4. CASE UNCHANGED status
    BY <1>2, <1>3, <1>4 DEF Current
<1>5. CASE saw[w] = "failed"
    <2>1. SetStatus({about[w]}, "payment_failed") /\ slips' = slips \cup Revival(about[w], "payment_failed")
        BY <1>5 DEF Settle
    <2>2. pay[about[w]] = "failed"
        BY <1>1, <1>2, <1>3, <1>5 DEF RequestsFit, RequestFits, First
    <2>3. Good' => Good /\ status[about[w]] \notin Steady
        BY <1>1, <1>3, <2>1, <2>2 DEF Revival, Good, CurrentIsPaid, Current, Steady
    <2>4. \A r \in Rows : status'[r] = IF r = about[w] THEN "payment_failed" ELSE status[r]
        BY <1>1, <2>1 DEF SetStatus, Types
    <2>5. \A r \in Rows : status[r] = None <=> status'[r] = None
        BY <1>3, <2>4 DEF RowStatus
    <2>6. Good' => /\ Current' = Current
                   /\ \A r \in Free : status'[r] = status[r]
                   /\ \A r \in Rows : status[r] \in Steady => status'[r] = status[r]
        BY <1>3, <2>3, <2>4 DEF Current, Steady
    <2>7. QED
        BY <1>2, <1>3, <2>5, <2>6
<1>6. UNCHANGED status \/ saw[w] = "failed"
    <2>1. CASE saw[w] = "paid" /\ was[w] # "active"
        BY <2>1 DEF Settle
    <2>2. CASE ~(saw[w] = "paid" /\ was[w] # "active") /\ saw[w] # "failed"
        <3>1. SetStatus({about[w]}, status[about[w]])
            BY <2>2 DEF Settle
        <3>2. status' = status
            BY <1>1, <3>1 DEF SetStatus, Types
        <3>3. QED
            BY <3>2
    <2>3. QED
        BY <2>1, <2>2
<1>7. QED
    BY <1>4, <1>5, <1>6

(* And the end of a recurring payment's. *)
LEMMA RenewEffect ==
    ASSUME SwitchInv, NEW w \in Workers, Renew(w)
    PROVE  /\ about[w] \in Paid
           /\ \A r \in Rows : status[r] = None <=> status'[r] = None
           /\ Good' => /\ Current' = Current
                       /\ \A r \in Rows : status[r] = None => status'[r] = None
                       /\ \A r \in Rows : status[r] \in Steady => status'[r] \in Steady
                       /\ \A r \in Rows : status[r] = "replaced" => status'[r] = "replaced"
<1> USE StatusAssumption, NamesAssumption DEF Rows, Payments
<1>1. PlanInv /\ Types /\ RequestsKnow /\ RequestsFit /\ RowsKnown
    BY DEF SwitchInv, CoreInv, PlanInv
<1>2. pc[w] = "renew"
    BY DEF Renew
<1>3. about[w] \in Paid /\ was[w] \in Steady /\ status[about[w]] # None
    BY <1>1, <1>2 DEF RequestsKnow, Knows, Recurring, RequestsFit, RequestFits
<1>4. Renewed(w) \in Steady /\ (Renewed(w) = "replaced" => was[w] = "replaced")
    BY <1>3 DEF Renewed, Steady
<1>5. SetStatus({about[w]}, Renewed(w)) /\ slips' = slips \cup Revival(about[w], Renewed(w))
    BY DEF Renew, Slip
<1>6. \A r \in Rows : status'[r] = IF r = about[w] THEN Renewed(w) ELSE status[r]
    BY <1>1, <1>5 DEF SetStatus, Types
<1>7. \A r \in Rows : status[r] = None <=> status'[r] = None
    BY <1>3, <1>4, <1>6 DEF Steady, RowStatus
<1>8. Good' => /\ status[about[w]] \in Steady
               /\ status[about[w]] = "replaced" <=> Renewed(w) = "replaced"
    <2>1. Good' => Good /\ (status[about[w]] = "replaced" => Renewed(w) = "replaced")
        BY <1>5 DEF Revival, Good
    <2>2. QED
        BY <1>1, <1>2, <1>4, <2>1 DEF RowsKnown, RenewalFits, Recurring
<1>9. Good' => /\ \A r \in Rows : status[r] \in Steady => status'[r] \in Steady
               /\ \A r \in Rows : status[r] = "replaced" <=> status'[r] = "replaced"
               /\ \A r \in Rows : status[r] \notin Steady => status'[r] = status[r]
    BY <1>4, <1>6, <1>8
<1>10. Good' => Current' = Current
    BY <1>9 DEF Current, Steady
<1>11. QED
    BY <1>3, <1>7, <1>9, <1>10

(* Every step keeps that. *)
LEMMA NextSwitch ==
    SwitchInv /\ Next => OneSwitch' /\ CurrentIsPaid' /\ RowsKnown' /\ Switched'
<1> SUFFICES ASSUME SwitchInv, Next
             PROVE  OneSwitch' /\ CurrentIsPaid' /\ RowsKnown' /\ Switched'
    OBVIOUS
<1> USE StatusAssumption, NumbersAssumption, PlanOfAssumption, RegisteredAssumption, NamesAssumption,
        NoneAssumption
    DEF Happens, rowVars, mollieVars, workVars, historyVars, Payments, Rows
<1>0. /\ SwitchInv /\ CoreInv /\ PlanInv /\ Types /\ RequestsKnow /\ RowsFit /\ RequestsFit
      /\ OneSwitch /\ CurrentIsPaid /\ RowsKnown /\ Switched
      /\ Good' => Good
      /\ UNCHANGED status => Current' = Current
      /\ \A v \in Workers : pc[v] \in Leaving => about[v] \in Free
      /\ \A v \in Workers : pc[v] \in Recurring => about[v] \in Paid
    BY GoodBefore DEF SwitchInv, CoreInv, PlanInv, Current, RequestsKnow, Knows
<1>1. ASSUME NEW w \in Workers, NEW r \in Paid, Checkout(w, r)
      PROVE  OneSwitch' /\ CurrentIsPaid' /\ RowsKnown' /\ Switched'
    <2>1. OneSwitch'
        BY <1>0, <1>1 DEF Checkout, Takes, Unused, Types, OneSwitch, Switches, Switching, Good, First, Leaving
    <2>2. CurrentIsPaid'
        BY <1>0, <1>1 DEF Checkout, Takes, Unused, Types, RequestsKnow, Knows, CurrentIsPaid, Good
    <2>3. RowsKnown'
        BY <1>0, <1>1
        DEF Checkout, Takes, Unused, Types, RowsKnown, LeaverFits, RenewalFits, Good, Steady, Recurring
    <2>4. Switched'
        BY <1>0, <1>1
        DEF Checkout, Takes, Unused, Types, OneSwitch, Switches, Switched, PlanFor, Good, Leaving, First,
            RequestsKnow, Knows
    <2>5. QED
        BY <2>1, <2>2, <2>3, <2>4
<1>2. ASSUME NEW w \in Workers, NEW f \in Free, Downgrade(w, f)
      PROVE  OneSwitch' /\ CurrentIsPaid' /\ RowsKnown' /\ Switched'
    <2>1. OneSwitch'
        <3>1. pc' = [pc EXCEPT ![w] = "cancel"] /\ UNCHANGED saw /\ slips' = slips \cup Overlap(w)
            BY <1>2 DEF Downgrade
        <3>2. Good' => \A v \in Workers \ {w} : ~Switches(v)
            BY <3>1 DEF Overlap, Good, Switches, Switching, Leaving, First
        <3>3. QED
            BY <1>0, <3>1, <3>2 DEF Types, OneSwitch, Switches
    <2>2. CurrentIsPaid'
        BY <1>0, <1>2 DEF Downgrade, Takes, Unused, Overlap, Types, RequestsKnow, Knows, CurrentIsPaid, Good
    <2>3. RowsKnown'
        BY <1>0, <1>2
        DEF Downgrade, Takes, Unused, Overlap, Types, RowsKnown, LeaverFits, RenewalFits, Good, Steady,
            Recurring
    <2>4. Switched'
        BY <1>0, <1>2
        DEF Downgrade, Takes, Unused, Overlap, Types, OneSwitch, Switches, Switched, PlanFor, Good, Leaving,
            First, RequestsKnow, Knows
    <2>5. QED
        BY <2>1, <2>2, <2>3, <2>4
<1>3. ASSUME NEW w \in Workers, NEW p \in Payments, Deliver(w, p)
      PROVE  OneSwitch' /\ CurrentIsPaid' /\ RowsKnown' /\ Switched'
    <2>1. OneSwitch'
        BY <1>0, <1>3 DEF Deliver, Receive, Takes, Types, OneSwitch, Switches, Switching, Good, First, Leaving
    <2>2. CurrentIsPaid'
        BY <1>0, <1>3 DEF Deliver, Receive, Takes, Types, RequestsKnow, Knows, CurrentIsPaid, Good
    <2>3. RowsKnown'
        BY <1>0, <1>3
        DEF Deliver, Receive, Takes, Types, RowsKnown, LeaverFits, RenewalFits, Good, Steady, Recurring
    <2>4. Switched'
        BY <1>0, <1>3
        DEF Deliver, Receive, Takes, Types, OneSwitch, Switches, Switched, PlanFor, Good, Leaving, First,
            RequestsKnow, Knows
    <2>5. QED
        BY <2>1, <2>2, <2>3, <2>4
<1>4. ASSUME NEW w \in Workers, NEW p \in Payments, Redeliver(w, p)
      PROVE  OneSwitch' /\ CurrentIsPaid' /\ RowsKnown' /\ Switched'
    <2>1. OneSwitch'
        BY <1>0, <1>4 DEF Redeliver, Receive, Takes, Types, OneSwitch, Switches, Switching, Good, First, Leaving
    <2>2. CurrentIsPaid'
        BY <1>0, <1>4 DEF Redeliver, Receive, Takes, Types, RequestsKnow, Knows, CurrentIsPaid, Good
    <2>3. RowsKnown'
        BY <1>0, <1>4
        DEF Redeliver, Receive, Takes, Types, RowsKnown, LeaverFits, RenewalFits, Good, Steady, Recurring
    <2>4. Switched'
        BY <1>0, <1>4
        DEF Redeliver, Receive, Takes, Types, OneSwitch, Switches, Switched, PlanFor, Good, Leaving, First,
            RequestsKnow, Knows
    <2>5. QED
        BY <2>1, <2>2, <2>3, <2>4
<1>5. ASSUME NEW w \in Workers, Reconcile(w)
      PROVE  OneSwitch' /\ CurrentIsPaid' /\ RowsKnown' /\ Switched'
    <2>1. OneSwitch'
        BY <1>0, <1>5 DEF Reconcile, Receive, Takes, Types, OneSwitch, Switches, Switching, Good, First, Leaving
    <2>2. CurrentIsPaid'
        BY <1>0, <1>5 DEF Reconcile, Receive, Takes, Types, RequestsKnow, Knows, CurrentIsPaid, Good
    <2>3. RowsKnown'
        BY <1>0, <1>5
        DEF Reconcile, Receive, Takes, Types, RowsKnown, LeaverFits, RenewalFits, Good, Steady, Recurring
    <2>4. Switched'
        BY <1>0, <1>5
        DEF Reconcile, Receive, Takes, Types, OneSwitch, Switches, Switched, PlanFor, Good, Leaving, First,
            RequestsKnow, Knows
    <2>5. QED
        BY <2>1, <2>2, <2>3, <2>4
<1>6. ASSUME NEW w \in Workers, DropPending(w)
      PROVE  OneSwitch' /\ CurrentIsPaid' /\ RowsKnown' /\ Switched'
    <2>1. /\ pc[w] = "drop" /\ pc'[w] = "open" /\ UNCHANGED <<on, about, saw, was, plan, pay, slips>>
          /\ \A v \in Workers \ {w} : pc'[v] = pc[v]
        BY <1>0, <1>6 DEF DropPending, Goto, Types
    <2>2. /\ Current' = Current
          /\ \A r \in Rows : status[r] = None => status'[r] = None
          /\ \A r \in Rows : status[r] \in Steady => status'[r] = status[r]
        BY <1>0, <1>6 DEF DropPending, SetStatus, Types, Current, Steady, RowStatus
    <2>3. OneSwitch'
        BY <1>0, <1>6, <2>1, <2>2 DEF Types, OneSwitch, Switches, Switching, Good, First, Leaving
    <2>4. CurrentIsPaid'
        BY <1>0, <1>6, <2>1, <2>2 DEF Types, RequestsKnow, Knows, CurrentIsPaid, Good
    <2>5. RowsKnown'
        <3> SUFFICES ASSUME Good', NEW v \in Workers
                     PROVE  LeaverFits(v)' /\ RenewalFits(v)'
            BY DEF RowsKnown
        <3>1. LeaverFits(v) /\ RenewalFits(v)
            BY <1>0 DEF RowsKnown
        <3>2. about'[v] = about[v] /\ was'[v] = was[v]
            BY <2>1
        <3>3. pc'[v] \in {"cancel", "leave", "start"} => pc[v] \in {"cancel", "leave", "start"} /\ about[v] \in Rows
            BY <1>0, <2>1 DEF Leaving
        <3>4. pc'[v] \in Recurring => pc[v] \in Recurring /\ about[v] \in Rows
            BY <1>0, <2>1 DEF Recurring
        <3>5. LeaverFits(v)'
            BY <2>2, <3>1, <3>2, <3>3 DEF LeaverFits
        <3>6. RenewalFits(v)'
            BY <2>2, <3>1, <3>2, <3>4 DEF RenewalFits, Steady
        <3>7. QED
            BY <3>5, <3>6
    <2>6. Switched'
        BY <1>0, <1>6, <2>1, <2>2
        DEF Types, OneSwitch, Switches, Switched, PlanFor, Good, Leaving, First, RequestsKnow, Knows
    <2>7. QED
        BY <2>3, <2>4, <2>5, <2>6
<1>7. ASSUME NEW w \in Workers, OpenRow(w)
      PROVE  OneSwitch' /\ CurrentIsPaid' /\ RowsKnown' /\ Switched'
    <2>1. /\ pc[w] = "open" /\ pc'[w] = "bill" /\ UNCHANGED <<on, about, saw, was, plan, pay, slips>>
          /\ \A v \in Workers \ {w} : pc'[v] = pc[v]
        BY <1>0, <1>7 DEF OpenRow, Goto, Types
    <2>2. about[w] \in Paid /\ status[about[w]] = None
        BY <1>0, <1>7 DEF OpenRow, RequestsKnow, Knows, Checking, RequestsFit, RequestFits
    <2>3. /\ Current' = Current
          /\ \A r \in Free : status'[r] = status[r]
          /\ \A r \in Rows : status[r] \in Steady => status'[r] = status[r]
        BY <1>0, <1>7, <2>2 DEF OpenRow, SetStatus, Types, Current, Steady, RowStatus
    <2>4. OneSwitch'
        BY <1>0, <1>7, <2>1, <2>2, <2>3 DEF Types, OneSwitch, Switches, Switching, Good, First, Leaving
    <2>5. CurrentIsPaid'
        BY <1>0, <1>7, <2>1, <2>2, <2>3 DEF Types, RequestsKnow, Knows, CurrentIsPaid, Good
    <2>6. RowsKnown'
        <3> SUFFICES ASSUME Good', NEW v \in Workers
                     PROVE  LeaverFits(v)' /\ RenewalFits(v)'
            BY DEF RowsKnown
        <3>1. LeaverFits(v) /\ RenewalFits(v)
            BY <1>0 DEF RowsKnown
        <3>2. about'[v] = about[v] /\ was'[v] = was[v]
            BY <2>1
        <3>3. pc'[v] \in {"cancel", "leave", "start"} => pc[v] \in {"cancel", "leave", "start"} /\ about[v] \in Free
            BY <1>0, <2>1 DEF Leaving
        <3>4. pc'[v] \in Recurring => pc[v] \in Recurring /\ about[v] \in Rows
            BY <1>0, <2>1 DEF Recurring
        <3>5. LeaverFits(v)'
            BY <1>0, <2>2, <2>3, <3>1, <3>2, <3>3 DEF LeaverFits, Leaving
        <3>6. RenewalFits(v)'
            BY <2>2, <2>3, <3>1, <3>2, <3>4 DEF RenewalFits, Steady
        <3>7. QED
            BY <3>5, <3>6
    <2>7. Switched'
        BY <1>0, <1>7, <2>1, <2>2, <2>3
        DEF Types, OneSwitch, Switches, Switched, PlanFor, Good, Leaving, First, RequestsKnow, Knows
    <2>8. QED
        BY <2>4, <2>5, <2>6, <2>7
<1>8. ASSUME NEW w \in Workers, BillFirst(w)
      PROVE  OneSwitch' /\ CurrentIsPaid' /\ RowsKnown' /\ Switched'
    <2>1. OneSwitch'
        BY <1>0, <1>8 DEF BillFirst, Goto, Types, OneSwitch, Switches, Switching, Good, First, Leaving
    <2>2. CurrentIsPaid'
        BY <1>0, <1>8 DEF BillFirst, Goto, Types, RequestsKnow, Knows, CurrentIsPaid, Good
    <2>3. RowsKnown'
        BY <1>0, <1>8 DEF BillFirst, Goto, Types, RowsKnown, LeaverFits, RenewalFits, Good, Steady, Recurring
    <2>4. Switched'
        BY <1>0, <1>8
        DEF BillFirst, Goto, Types, OneSwitch, Switches, Switched, PlanFor, Good, Leaving, First, RequestsKnow,
            Knows
    <2>5. QED
        BY <2>1, <2>2, <2>3, <2>4
<1>9. ASSUME NEW w \in Workers, Link(w)
      PROVE  OneSwitch' /\ CurrentIsPaid' /\ RowsKnown' /\ Switched'
    <2>1. OneSwitch'
        BY <1>0, <1>9 DEF Link, Goto, Types, OneSwitch, Switches, Switching, Good, First, Leaving
    <2>2. CurrentIsPaid'
        <3>1. pay' = [pay EXCEPT ![about[w]] = "open"] /\ pay[about[w]] = None /\ UNCHANGED <<status, slips>>
            BY <1>0, <1>9 DEF Link, RequestsKnow, Knows
        <3>2. QED
            BY <1>0, <3>1 DEF Types, CurrentIsPaid, Good, PaymentStatus
    <2>3. RowsKnown'
        BY <1>0, <1>9 DEF Link, Goto, Types, RowsKnown, LeaverFits, RenewalFits, Good, Steady, Recurring
    <2>4. Switched'
        BY <1>0, <1>9
        DEF Link, Goto, Types, OneSwitch, Switches, Switched, PlanFor, Good, Leaving, First, RequestsKnow,
            Knows
    <2>5. QED
        BY <2>1, <2>2, <2>3, <2>4
<1>10. ASSUME NEW w \in Workers, StoreLink(w)
      PROVE  OneSwitch' /\ CurrentIsPaid' /\ RowsKnown' /\ Switched'
    <2>1. OneSwitch'
        BY <1>0, <1>10 DEF StoreLink, Goto, Types, OneSwitch, Switches, Switching, Good, First, Leaving
    <2>2. CurrentIsPaid'
        BY <1>0, <1>10 DEF StoreLink, Goto, Types, RequestsKnow, Knows, CurrentIsPaid, Good
    <2>3. RowsKnown'
        BY <1>0, <1>10 DEF StoreLink, Goto, Types, RowsKnown, LeaverFits, RenewalFits, Good, Steady, Recurring
    <2>4. Switched'
        BY <1>0, <1>10
        DEF StoreLink, Goto, Types, OneSwitch, Switches, Switched, PlanFor, Good, Leaving, First, RequestsKnow,
            Knows
    <2>5. QED
        BY <2>1, <2>2, <2>3, <2>4
<1>11. ASSUME NEW w \in Workers, StampInvoice(w)
      PROVE  OneSwitch' /\ CurrentIsPaid' /\ RowsKnown' /\ Switched'
    <2>1. OneSwitch'
        BY <1>0, <1>11 DEF StampInvoice, Rest, Types, OneSwitch, Switches, Switching, Good, First, Leaving
    <2>2. CurrentIsPaid'
        BY <1>0, <1>11 DEF StampInvoice, Rest, Types, RequestsKnow, Knows, CurrentIsPaid, Good
    <2>3. RowsKnown'
        BY <1>0, <1>11
        DEF StampInvoice, Rest, Types, RowsKnown, LeaverFits, RenewalFits, Good, Steady, Recurring
    <2>4. Switched'
        BY <1>0, <1>11
        DEF StampInvoice, Rest, Types, OneSwitch, Switches, Switched, PlanFor, Good, Leaving, First,
            RequestsKnow, Knows
    <2>5. QED
        BY <2>1, <2>2, <2>3, <2>4
<1>12. ASSUME NEW w \in Workers, CancelOrder(w)
      PROVE  OneSwitch' /\ CurrentIsPaid' /\ RowsKnown' /\ Switched'
    <2>1. /\ pc[w] = "cancel" /\ UNCHANGED <<status, plan, pay, slips>>
          /\ Goto(w, "leave") \/ Rest(w)
        BY <1>12 DEF CancelOrder
    <2>2. OneSwitch'
        BY <1>0, <1>12, <2>1 DEF Rest, Goto, Types, OneSwitch, Switches, Switching, Good, First, Leaving
    <2>3. CurrentIsPaid'
        BY <1>0, <1>12, <2>1 DEF Rest, Goto, Types, RequestsKnow, Knows, CurrentIsPaid, Good
    <2>4. RowsKnown'
        BY <1>0, <1>12, <2>1 DEF Rest, Goto, Types, RowsKnown, LeaverFits, RenewalFits, Good, Steady, Recurring
    <2>5. Switched'
        BY <1>0, <1>12, <2>1
        DEF Rest, Goto, Types, OneSwitch, Switches, Switched, PlanFor, Good, Leaving, First, RequestsKnow,
            Knows
    <2>6. QED
        BY <2>2, <2>3, <2>4, <2>5
<1>13. ASSUME NEW w \in Workers, LeavePlan(w)
      PROVE  OneSwitch' /\ CurrentIsPaid' /\ RowsKnown' /\ Switched'
    <2>1. /\ pc[w] = "leave" /\ pc'[w] = "start" /\ UNCHANGED <<on, about, saw, was, plan, pay, slips>>
          /\ \A v \in Workers \ {w} : pc'[v] = pc[v]
        BY <1>0, <1>13 DEF LeavePlan, Goto, Types
    <2>2. /\ Current' = {}
          /\ \A r \in Rows : status[r] = None => status'[r] = None
          /\ \A r \in Rows : status[r] \in Steady => status'[r] = "replaced"
        BY <1>0, <1>13 DEF LeavePlan, SetStatus, Types, Current, Steady, RowStatus
    <2>3. OneSwitch'
        BY <1>0, <1>13, <2>1, <2>2 DEF Types, OneSwitch, Switches, Switching, Good, First, Leaving
    <2>4. CurrentIsPaid'
        BY <1>0, <1>13, <2>1, <2>2 DEF Types, RequestsKnow, Knows, CurrentIsPaid, Good
    <2>5. RowsKnown'
        <3> SUFFICES ASSUME Good', NEW v \in Workers
                     PROVE  LeaverFits(v)' /\ RenewalFits(v)'
            BY DEF RowsKnown
        <3>1. LeaverFits(v) /\ RenewalFits(v)
            BY <1>0 DEF RowsKnown
        <3>2. about'[v] = about[v] /\ was'[v] = was[v]
            BY <2>1
        <3>3. pc'[v] \in {"cancel", "leave", "start"} => pc[v] \in {"cancel", "leave", "start"} /\ about[v] \in Rows
            BY <1>0, <2>1 DEF Leaving
        <3>4. pc'[v] \in Recurring => pc[v] \in Recurring /\ about[v] \in Rows
            BY <1>0, <2>1 DEF Recurring
        <3>5. LeaverFits(v)'
            BY <2>2, <3>1, <3>2, <3>3 DEF LeaverFits
        <3>6. RenewalFits(v)'
            BY <2>2, <3>1, <3>2, <3>4 DEF RenewalFits, Steady
        <3>7. QED
            BY <3>5, <3>6
    <2>6. Switched'
        BY <1>0, <1>13, <2>1, <2>2
        DEF Types, OneSwitch, Switches, Switched, PlanFor, Good, Leaving, First, RequestsKnow, Knows
    <2>7. QED
        BY <2>3, <2>4, <2>5, <2>6
<1>14. ASSUME NEW w \in Workers, StartFree(w)
      PROVE  OneSwitch' /\ CurrentIsPaid' /\ RowsKnown' /\ Switched'
    <2>1. /\ pc[w] = "start" /\ pc'[w] = "down" /\ UNCHANGED <<on, about, saw, was, plan, pay, slips>>
          /\ \A v \in Workers \ {w} : pc'[v] = pc[v]
        BY <1>0, <1>14 DEF StartFree, Goto, Types
    <2>2. about[w] \in Free /\ (Good => status[about[w]] = None)
        BY <1>0, <1>14 DEF StartFree, RequestsKnow, Knows, Leaving, RowsKnown, LeaverFits
    <2>3. /\ Current' = Current \cup {about[w]}
          /\ status'[about[w]] = "active"
          /\ \A r \in Rows \ {about[w]} : status'[r] = status[r]
        BY <1>0, <1>14, <2>2 DEF StartFree, SetStatus, Types, Current
    <2>4. OneSwitch'
        BY <1>0, <1>14, <2>1, <2>2, <2>3 DEF Types, OneSwitch, Switches, Switching, Good, First, Leaving
    <2>5. CurrentIsPaid'
        BY <1>0, <1>14, <2>1, <2>2, <2>3 DEF Types, RequestsKnow, Knows, CurrentIsPaid, Good
    <2>6. RowsKnown'
        <3>1. Good' => \A v \in Workers \ {w} : pc[v] \notin Leaving
            BY <1>0, <2>1 DEF OneSwitch, Switches, Leaving
        <3>2. Good' => \A v \in Workers : LeaverFits(v)'
            BY <1>0, <2>1, <3>1 DEF LeaverFits, Leaving
        <3>3. Good' => \A v \in Workers : RenewalFits(v)'
            BY <1>0, <2>1, <2>2, <2>3 DEF RowsKnown, RenewalFits, Recurring
        <3>4. QED
            BY <3>2, <3>3 DEF RowsKnown
    <2>7. Switched'
        BY <1>0, <1>14, <2>1, <2>2, <2>3
        DEF Types, OneSwitch, Switches, Switched, PlanFor, Good, Leaving, First, RequestsKnow, Knows
    <2>8. QED
        BY <2>4, <2>5, <2>6, <2>7
<1>15. ASSUME NEW w \in Workers, SetFree(w)
      PROVE  OneSwitch' /\ CurrentIsPaid' /\ RowsKnown' /\ Switched'
    <2>1. OneSwitch'
        BY <1>0, <1>15 DEF SetFree, Rest, Types, OneSwitch, Switches, Switching, Good, First, Leaving
    <2>2. CurrentIsPaid'
        BY <1>0, <1>15 DEF SetFree, Rest, Types, RequestsKnow, Knows, CurrentIsPaid, Good
    <2>3. RowsKnown'
        BY <1>0, <1>15 DEF SetFree, Rest, Types, RowsKnown, LeaverFits, RenewalFits, Good, Steady, Recurring
    <2>4. Switched'
        BY <1>0, <1>15
        DEF SetFree, Rest, Types, OneSwitch, Switches, Switched, PlanFor, Good, Leaving, First, RequestsKnow,
            Knows
    <2>5. QED
        BY <2>1, <2>2, <2>3, <2>4
<1>16. ASSUME NEW w \in Workers, Find(w)
      PROVE  OneSwitch' /\ CurrentIsPaid' /\ RowsKnown' /\ Switched'
    <2>1. OneSwitch'
        <3>1. pc[w] = "find" /\ pc' = [pc EXCEPT ![w] = pc'[w]] /\ pc'[w] \in {"note", "look"} /\ UNCHANGED saw
            BY <1>0, <1>16 DEF Find, Types
        <3>2. pc'[w] = "note" /\ saw[w] = "paid" => Overlap(w) \subseteq slips'
            BY <1>0, <1>16 DEF Find, Slip, Types
        <3>3. Good' /\ Switches(w)' => \A v \in Workers \ {w} : ~Switches(v)
            BY <1>0, <3>1, <3>2 DEF Types, Overlap, Good, Switches, Switching, Leaving, First
        <3>4. \A v \in Workers \ {w} : Switches(v)' <=> Switches(v)
            BY <1>0, <3>1 DEF Types, Switches
        <3>5. QED
            BY <1>0, <3>3, <3>4 DEF OneSwitch
    <2>2. CurrentIsPaid'
        BY <1>0, <1>16 DEF Find, Slip, Overlap, Types, RequestsKnow, Knows, CurrentIsPaid, Good
    <2>3. RowsKnown'
        <3> DEFINE byPayment == {r \in Rows : payId[r] = on[w]}
                   r == IF byPayment # {} THEN CHOOSE x \in byPayment : TRUE ELSE Named(on[w])
                   first == byPayment # {} \/ status[r] \in {"pending_payment", "payment_failed"}
        <3>1. pc[w] = "find" /\ r \in Paid /\ status[r] # None
            BY <1>0, <1>16, FoundRow DEF Find
        <3>2. /\ pc' = [pc EXCEPT ![w] = IF first THEN "note" ELSE "look"]
              /\ about' = [about EXCEPT ![w] = r]
              /\ was' = [was EXCEPT ![w] = status[r]]
              /\ UNCHANGED status
            BY <1>16 DEF Find
        <3>3. ~first => status[r] \in Steady
            BY <1>0, <3>1 DEF Types, RowStatus, Steady
        <3> HIDE DEF byPayment, r, first
        <3>4. Good' => \A v \in Workers \ {w} : LeaverFits(v)' /\ RenewalFits(v)'
            BY <1>0, <3>2 DEF Types, RowsKnown, LeaverFits, RenewalFits, Recurring
        <3>5. LeaverFits(w)' /\ RenewalFits(w)'
            BY <1>0, <3>1, <3>2, <3>3 DEF Types, LeaverFits, RenewalFits, Recurring
        <3>6. QED
            BY <3>4, <3>5 DEF RowsKnown
    <2>4. Switched'
        BY <1>0, <1>16
        DEF Find, Slip, Overlap, Types, OneSwitch, Switches, Switched, PlanFor, Good, Leaving, First,
            RequestsKnow, Knows
    <2>5. QED
        BY <2>1, <2>2, <2>3, <2>4
<1>17. ASSUME NEW w \in Workers, NotePayment(w)
      PROVE  OneSwitch' /\ CurrentIsPaid' /\ RowsKnown' /\ Switched'
    <2>1. OneSwitch'
        BY <1>0, <1>17 DEF NotePayment, Goto, Types, OneSwitch, Switches, Switching, Good, First, Leaving
    <2>2. CurrentIsPaid'
        BY <1>0, <1>17 DEF NotePayment, Goto, Types, RequestsKnow, Knows, CurrentIsPaid, Good
    <2>3. RowsKnown'
        BY <1>0, <1>17 DEF NotePayment, Goto, Types, RowsKnown, LeaverFits, RenewalFits, Good, Steady, Recurring
    <2>4. Switched'
        BY <1>0, <1>17
        DEF NotePayment, Goto, Types, OneSwitch, Switches, Switched, PlanFor, Good, Leaving, First,
            RequestsKnow, Knows
    <2>5. QED
        BY <2>1, <2>2, <2>3, <2>4
<1>18. ASSUME NEW w \in Workers, BookFirst(w)
      PROVE  OneSwitch' /\ CurrentIsPaid' /\ RowsKnown' /\ Switched'
    <2>1. /\ pc[w] = "book" /\ UNCHANGED <<status, plan, pay, slips>>
          /\ Goto(w, "settle") \/ Rest(w)
        BY <1>18 DEF BookFirst
    <2>2. OneSwitch'
        BY <1>0, <1>18, <2>1 DEF Rest, Goto, Types, OneSwitch, Switches, Switching, Good, First, Leaving
    <2>3. CurrentIsPaid'
        BY <1>0, <1>18, <2>1 DEF Rest, Goto, Types, RequestsKnow, Knows, CurrentIsPaid, Good
    <2>4. RowsKnown'
        BY <1>0, <1>18, <2>1 DEF Rest, Goto, Types, RowsKnown, LeaverFits, RenewalFits, Good, Steady, Recurring
    <2>5. Switched'
        BY <1>0, <1>18, <2>1
        DEF Rest, Goto, Types, OneSwitch, Switches, Switched, PlanFor, Good, Leaving, First, RequestsKnow,
            Knows
    <2>6. QED
        BY <2>2, <2>3, <2>4, <2>5
<1>19. ASSUME NEW w \in Workers, Settle(w)
      PROVE  OneSwitch' /\ CurrentIsPaid' /\ RowsKnown' /\ Switched'
    <2>1. /\ pc[w] = "settle" /\ UNCHANGED <<plan, pay>>
          /\ Goto(w, "order") \/ Rest(w)
        BY <1>0, <1>19, SettleEffect
    <2>2. about[w] \in Paid /\ on[w] = about[w]
        BY <1>0, <1>19, SettleEffect
    <2>3. Good' => /\ Current' = Current
                   /\ \A r \in Free : status'[r] = status[r]
                   /\ \A r \in Rows : status[r] \in Steady => status'[r] = status[r]
        BY <1>0, <1>19, SettleEffect
    <2>4. OneSwitch'
        BY <1>0, <1>19, <2>1, <2>2, <2>3
        DEF Rest, Goto, Types, OneSwitch, Switches, Switching, Good, First, Leaving
    <2>5. CurrentIsPaid'
        BY <1>0, <1>19, <2>1, <2>2, <2>3 DEF Rest, Goto, Types, RequestsKnow, Knows, CurrentIsPaid, Good
    <2>6. RowsKnown'
        <3> SUFFICES ASSUME Good', NEW v \in Workers
                     PROVE  LeaverFits(v)' /\ RenewalFits(v)'
            BY DEF RowsKnown
        <3>1. LeaverFits(v) /\ RenewalFits(v)
            BY <1>0 DEF RowsKnown
        <3>2. v # w => about'[v] = about[v] /\ was'[v] = was[v]
            BY <1>0, <2>1 DEF Goto, Rest, Types
        <3>3. pc'[v] \in {"cancel", "leave", "start"} => v # w /\ pc[v] \in {"cancel", "leave", "start"} /\ about[v] \in Free
            BY <1>0, <2>1 DEF Goto, Rest, Types, Leaving
        <3>4. pc'[v] \in Recurring => v # w /\ pc[v] \in Recurring /\ about[v] \in Rows
            BY <1>0, <2>1 DEF Goto, Rest, Types, Recurring
        <3>5. LeaverFits(v)'
            BY <2>3, <3>1, <3>2, <3>3 DEF LeaverFits
        <3>6. RenewalFits(v)'
            BY <2>3, <3>1, <3>2, <3>4 DEF RenewalFits, Steady
        <3>7. QED
            BY <3>5, <3>6
    <2>7. Switched'
        BY <1>0, <1>19, <2>1, <2>2, <2>3
        DEF Rest, Goto, Types, OneSwitch, Switches, Switched, PlanFor, Good, Leaving, First, RequestsKnow,
            Knows
    <2>8. QED
        BY <2>4, <2>5, <2>6, <2>7
<1>20. ASSUME NEW w \in Workers, OrderRecurring(w)
      PROVE  OneSwitch' /\ CurrentIsPaid' /\ RowsKnown' /\ Switched'
    <2>1. OneSwitch'
        BY <1>0, <1>20 DEF OrderRecurring, Goto, Types, OneSwitch, Switches, Switching, Good, First, Leaving
    <2>2. CurrentIsPaid'
        BY <1>0, <1>20 DEF OrderRecurring, Goto, Types, RequestsKnow, Knows, CurrentIsPaid, Good
    <2>3. RowsKnown'
        BY <1>0, <1>20
        DEF OrderRecurring, Goto, Types, RowsKnown, LeaverFits, RenewalFits, Good, Steady, Recurring
    <2>4. Switched'
        BY <1>0, <1>20
        DEF OrderRecurring, Goto, Types, OneSwitch, Switches, Switched, PlanFor, Good, Leaving, First,
            RequestsKnow, Knows
    <2>5. QED
        BY <2>1, <2>2, <2>3, <2>4
<1>21. ASSUME NEW w \in Workers, ReplaceOthers(w)
      PROVE  OneSwitch' /\ CurrentIsPaid' /\ RowsKnown' /\ Switched'
    <2>1. /\ pc[w] = "replace" /\ pc'[w] = "activate" /\ UNCHANGED <<on, about, saw, was, plan, pay>>
          /\ \A v \in Workers \ {w} : pc'[v] = pc[v]
        BY <1>0, <1>21 DEF ReplaceOthers, Goto, Types
    <2>2. /\ Current' = {}
          /\ \A r \in Rows : status[r] = None => status'[r] = None
          /\ \A r \in Rows : status[r] \in Steady => status'[r] = "replaced"
        BY <1>0, <1>21 DEF ReplaceOthers, SetStatus, Types, Current, Steady, RowStatus
    <2>3. OneSwitch'
        BY <1>0, <1>21, <2>1, <2>2 DEF Types, OneSwitch, Switches, Switching, Good, First, Leaving
    <2>4. CurrentIsPaid'
        BY <1>0, <1>21, <2>1, <2>2 DEF Types, RequestsKnow, Knows, CurrentIsPaid, Good
    <2>5. RowsKnown'
        <3> SUFFICES ASSUME Good', NEW v \in Workers
                     PROVE  LeaverFits(v)' /\ RenewalFits(v)'
            BY DEF RowsKnown
        <3>1. LeaverFits(v) /\ RenewalFits(v)
            BY <1>0 DEF RowsKnown
        <3>2. about'[v] = about[v] /\ was'[v] = was[v]
            BY <2>1
        <3>3. pc'[v] \in {"cancel", "leave", "start"} => pc[v] \in {"cancel", "leave", "start"} /\ about[v] \in Rows
            BY <1>0, <2>1 DEF Leaving
        <3>4. pc'[v] \in Recurring => pc[v] \in Recurring /\ about[v] \in Rows
            BY <1>0, <2>1 DEF Recurring
        <3>5. LeaverFits(v)'
            BY <2>2, <3>1, <3>2, <3>3 DEF LeaverFits
        <3>6. RenewalFits(v)'
            BY <2>2, <3>1, <3>2, <3>4 DEF RenewalFits, Steady
        <3>7. QED
            BY <3>5, <3>6
    <2>6. Switched'
        BY <1>0, <1>21, <2>1, <2>2
        DEF Types, OneSwitch, Switches, Switched, PlanFor, Good, Leaving, First, RequestsKnow, Knows
    <2>7. QED
        BY <2>3, <2>4, <2>5, <2>6
<1>22. ASSUME NEW w \in Workers, ActivatePaid(w)
      PROVE  OneSwitch' /\ CurrentIsPaid' /\ RowsKnown' /\ Switched'
    <2>1. /\ pc[w] = "activate" /\ pc'[w] = "plan" /\ UNCHANGED <<on, about, saw, was, plan, pay>>
          /\ \A v \in Workers \ {w} : pc'[v] = pc[v]
        BY <1>0, <1>22 DEF ActivatePaid, Goto, Types
    <2>2. about[w] \in Paid /\ pay[about[w]] = "paid" /\ saw[w] = "paid" /\ (Good' => status[about[w]] # "replaced")
        BY <1>0, <1>22 DEF ActivatePaid, RequestsKnow, Knows, First, RequestsFit, RequestFits, Good, Slip, Revival
    <2>3. /\ Current' = Current \cup {about[w]}
          /\ status'[about[w]] = "active"
          /\ \A r \in Rows \ {about[w]} : status'[r] = status[r]
        BY <1>0, <1>22, <2>2 DEF ActivatePaid, SetStatus, Types, Current
    <2>4. OneSwitch'
        BY <1>0, <1>22, <2>1, <2>2, <2>3 DEF Types, OneSwitch, Switches, Switching, Good, First, Leaving
    <2>5. CurrentIsPaid'
        BY <1>0, <1>22, <2>1, <2>2, <2>3 DEF Types, RequestsKnow, Knows, CurrentIsPaid, Good
    <2>6. RowsKnown'
        <3> SUFFICES ASSUME Good', NEW v \in Workers
                     PROVE  LeaverFits(v)' /\ RenewalFits(v)'
            BY DEF RowsKnown
        <3>1. LeaverFits(v) /\ RenewalFits(v)
            BY <1>0 DEF RowsKnown
        <3>2. about'[v] = about[v] /\ was'[v] = was[v]
            BY <2>1
        <3>3. pc'[v] \in {"cancel", "leave", "start"} => pc[v] \in {"cancel", "leave", "start"} /\ about[v] \in Free
            BY <1>0, <2>1 DEF Leaving
        <3>4. pc'[v] \in Recurring => pc[v] \in Recurring /\ about[v] \in Rows
            BY <1>0, <2>1 DEF Recurring
        <3>5. LeaverFits(v)'
            BY <1>0, <2>2, <2>3, <3>1, <3>2, <3>3 DEF LeaverFits, Leaving
        <3>6. RenewalFits(v)'
            BY <2>2, <2>3, <3>1, <3>2, <3>4 DEF RenewalFits, Steady
        <3>7. QED
            BY <3>5, <3>6
    <2>7. Switched'
        BY <1>0, <1>22, <2>1, <2>2, <2>3
        DEF Types, OneSwitch, Switches, Switched, PlanFor, Good, Leaving, First, RequestsKnow, Knows
    <2>8. QED
        BY <2>4, <2>5, <2>6, <2>7
<1>23. ASSUME NEW w \in Workers, SetPlan(w)
      PROVE  OneSwitch' /\ CurrentIsPaid' /\ RowsKnown' /\ Switched'
    <2>1. OneSwitch'
        BY <1>0, <1>23 DEF SetPlan, Answer, Rest, Types, OneSwitch, Switches, Switching, Good, First, Leaving
    <2>2. CurrentIsPaid'
        BY <1>0, <1>23 DEF SetPlan, Answer, Rest, Types, RequestsKnow, Knows, CurrentIsPaid, Good
    <2>3. RowsKnown'
        BY <1>0, <1>23
        DEF SetPlan, Answer, Rest, Types, RowsKnown, LeaverFits, RenewalFits, Good, Steady, Recurring
    <2>4. Switched'
        BY <1>0, <1>23
        DEF SetPlan, Answer, Rest, Types, OneSwitch, Switches, Switched, PlanFor, Good, Leaving, First,
            RequestsKnow, Knows
    <2>5. QED
        BY <2>1, <2>2, <2>3, <2>4
<1>24. ASSUME NEW w \in Workers, LookForInvoice(w)
      PROVE  OneSwitch' /\ CurrentIsPaid' /\ RowsKnown' /\ Switched'
    <2>1. OneSwitch'
        BY <1>0, <1>24
        DEF LookForInvoice, InvoicesOf, Types, OneSwitch, Switches, Switching, Good, First, Leaving
    <2>2. CurrentIsPaid'
        BY <1>0, <1>24 DEF LookForInvoice, InvoicesOf, Types, RequestsKnow, Knows, CurrentIsPaid, Good
    <2>3. RowsKnown'
        BY <1>0, <1>24
        DEF LookForInvoice, InvoicesOf, Types, RowsKnown, LeaverFits, RenewalFits, Good, Steady, Recurring
    <2>4. Switched'
        BY <1>0, <1>24
        DEF LookForInvoice, InvoicesOf, Types, OneSwitch, Switches, Switched, PlanFor, Good, Leaving, First,
            RequestsKnow, Knows
    <2>5. QED
        BY <2>1, <2>2, <2>3, <2>4
<1>25. ASSUME NEW w \in Workers, EnterNew(w)
      PROVE  OneSwitch' /\ CurrentIsPaid' /\ RowsKnown' /\ Switched'
    <2>1. OneSwitch'
        BY <1>0, <1>25
        DEF EnterNew, InvoicesOf, Rest, Goto, Types, OneSwitch, Switches, Switching, Good, First, Leaving
    <2>2. CurrentIsPaid'
        BY <1>0, <1>25 DEF EnterNew, InvoicesOf, Rest, Goto, Types, RequestsKnow, Knows, CurrentIsPaid, Good
    <2>3. RowsKnown'
        BY <1>0, <1>25
        DEF EnterNew, InvoicesOf, Rest, Goto, Types, RowsKnown, LeaverFits, RenewalFits, Good, Steady,
            Recurring
    <2>4. Switched'
        BY <1>0, <1>25
        DEF EnterNew, InvoicesOf, Rest, Goto, Types, OneSwitch, Switches, Switched, PlanFor, Good, Leaving,
            First, RequestsKnow, Knows
    <2>5. QED
        BY <2>1, <2>2, <2>3, <2>4
<1>26. ASSUME NEW w \in Workers, EnterStatus(w)
      PROVE  OneSwitch' /\ CurrentIsPaid' /\ RowsKnown' /\ Switched'
    <2>1. OneSwitch'
        BY <1>0, <1>26 DEF EnterStatus, Goto, Types, OneSwitch, Switches, Switching, Good, First, Leaving
    <2>2. CurrentIsPaid'
        BY <1>0, <1>26 DEF EnterStatus, Goto, Types, RequestsKnow, Knows, CurrentIsPaid, Good
    <2>3. RowsKnown'
        BY <1>0, <1>26 DEF EnterStatus, Goto, Types, RowsKnown, LeaverFits, RenewalFits, Good, Steady, Recurring
    <2>4. Switched'
        BY <1>0, <1>26
        DEF EnterStatus, Goto, Types, OneSwitch, Switches, Switched, PlanFor, Good, Leaving, First,
            RequestsKnow, Knows
    <2>5. QED
        BY <2>1, <2>2, <2>3, <2>4
<1>27. ASSUME NEW w \in Workers, Renew(w)
      PROVE  OneSwitch' /\ CurrentIsPaid' /\ RowsKnown' /\ Switched'
    <2>1. /\ pc[w] = "renew" /\ UNCHANGED <<plan, pay>> /\ Rest(w)
        BY <1>27 DEF Renew, Answer
    <2>2. about[w] \in Paid
        BY <1>0, <1>27, RenewEffect
    <2>3. Good' => /\ Current' = Current
                   /\ \A r \in Rows : status[r] = None => status'[r] = None
                   /\ \A r \in Rows : status[r] \in Steady => status'[r] \in Steady
                   /\ \A r \in Rows : status[r] = "replaced" => status'[r] = "replaced"
        BY <1>0, <1>27, RenewEffect
    <2>4. OneSwitch'
        BY <1>0, <1>27, <2>1, <2>2, <2>3
        DEF Rest, Goto, Types, OneSwitch, Switches, Switching, Good, First, Leaving
    <2>5. CurrentIsPaid'
        BY <1>0, <1>27, <2>1, <2>2, <2>3 DEF Rest, Goto, Types, RequestsKnow, Knows, CurrentIsPaid, Good
    <2>6. RowsKnown'
        <3> SUFFICES ASSUME Good', NEW v \in Workers
                     PROVE  LeaverFits(v)' /\ RenewalFits(v)'
            BY DEF RowsKnown
        <3>1. LeaverFits(v) /\ RenewalFits(v)
            BY <1>0 DEF RowsKnown
        <3>2. v # w => about'[v] = about[v] /\ was'[v] = was[v]
            BY <1>0, <2>1 DEF Rest, Types
        <3>3. pc'[v] \in {"cancel", "leave", "start"} => v # w /\ pc[v] \in {"cancel", "leave", "start"} /\ about[v] \in Rows
            BY <1>0, <2>1 DEF Rest, Types, Leaving
        <3>4. pc'[v] \in Recurring => v # w /\ pc[v] \in Recurring /\ about[v] \in Rows
            BY <1>0, <2>1 DEF Rest, Types, Recurring
        <3>5. LeaverFits(v)'
            BY <2>3, <3>1, <3>2, <3>3 DEF LeaverFits
        <3>6. RenewalFits(v)'
            BY <2>3, <3>1, <3>2, <3>4 DEF RenewalFits, Steady
        <3>7. QED
            BY <3>5, <3>6
    <2>7. Switched'
        BY <1>0, <1>27, <2>1, <2>2, <2>3
        DEF Rest, Goto, Types, OneSwitch, Switches, Switched, PlanFor, Good, Leaving, First, RequestsKnow,
            Knows
    <2>8. QED
        BY <2>4, <2>5, <2>6, <2>7
<1>28. ASSUME NEW w \in Workers, Stop(w)
      PROVE  OneSwitch' /\ CurrentIsPaid' /\ RowsKnown' /\ Switched'
    <2>1. OneSwitch'
        BY <1>0, <1>28 DEF Stop, Rest, Types, OneSwitch, Switches, Switching, Good, First, Leaving
    <2>2. CurrentIsPaid'
        BY <1>0, <1>28 DEF Stop, Rest, Types, RequestsKnow, Knows, CurrentIsPaid, Good
    <2>3. RowsKnown'
        BY <1>0, <1>28 DEF Stop, Rest, Types, RowsKnown, LeaverFits, RenewalFits, Good, Steady, Recurring
    <2>4. Switched'
        BY <1>0, <1>28
        DEF Stop, Rest, Types, OneSwitch, Switches, Switched, PlanFor, Good, Leaving, First, RequestsKnow,
            Knows
    <2>5. QED
        BY <2>1, <2>2, <2>3, <2>4
<1>29. ASSUME NEW p \in Payments, Decide(p)
      PROVE  OneSwitch' /\ CurrentIsPaid' /\ RowsKnown' /\ Switched'
    <2>1. OneSwitch'
        BY <1>0, <1>29 DEF Decide, Slip, Types, OneSwitch, Switches, Switching, Good, First, Leaving
    <2>2. CurrentIsPaid'
        BY <1>0, <1>29 DEF Decide, Slip, Types, RequestsKnow, Knows, CurrentIsPaid, Good
    <2>3. RowsKnown'
        BY <1>0, <1>29 DEF Decide, Slip, Types, RowsKnown, LeaverFits, RenewalFits, Good, Steady, Recurring
    <2>4. Switched'
        BY <1>0, <1>29
        DEF Decide, Slip, Types, OneSwitch, Switches, Switched, PlanFor, Good, Leaving, First, RequestsKnow,
            Knows
    <2>5. QED
        BY <2>1, <2>2, <2>3, <2>4
<1>30. ASSUME NEW c \in Charges, NEW r \in Paid, Charge(c, r)
      PROVE  OneSwitch' /\ CurrentIsPaid' /\ RowsKnown' /\ Switched'
    <2>1. OneSwitch'
        BY <1>0, <1>30 DEF Charge, Types, OneSwitch, Switches, Switching, Good, First, Leaving
    <2>2. CurrentIsPaid'
        BY <1>0, <1>30 DEF Charge, Types, RequestsKnow, Knows, CurrentIsPaid, Good
    <2>3. RowsKnown'
        BY <1>0, <1>30 DEF Charge, Types, RowsKnown, LeaverFits, RenewalFits, Good, Steady, Recurring
    <2>4. Switched'
        BY <1>0, <1>30
        DEF Charge, Types, OneSwitch, Switches, Switched, PlanFor, Good, Leaving, First, RequestsKnow, Knows
    <2>5. QED
        BY <2>1, <2>2, <2>3, <2>4
<1>31. QED
    <2>1. CASE \E w \in Workers : \E r \in Paid : Checkout(w, r)
        BY <2>1, <1>1
    <2>2. CASE \E w \in Workers : \E f \in Free : Downgrade(w, f)
        BY <2>2, <1>2
    <2>3. CASE \E w \in Workers : \E p \in Payments : Deliver(w, p) \/ Redeliver(w, p)
        BY <2>3, <1>3, <1>4
    <2>4. CASE \E w \in Workers : Reconcile(w)
        BY <2>4, <1>5
    <2>5. CASE \E w \in Workers : CheckoutStep(w)
        BY <2>5, <1>6, <1>7, <1>8, <1>9, <1>10, <1>11 DEF CheckoutStep
    <2>6. CASE \E w \in Workers : DowngradeStep(w)
        BY <2>6, <1>12, <1>13, <1>14, <1>15 DEF DowngradeStep
    <2>7. CASE \E w \in Workers : WebhookStep(w)
        BY <2>7, <1>16, <1>17, <1>18, <1>19, <1>20, <1>21, <1>22, <1>23, <1>24, <1>25, <1>26, <1>27 DEF WebhookStep
    <2>8. CASE \E w \in Workers : Stop(w)
        BY <2>8, <1>28
    <2>9. CASE \E p \in Payments : Decide(p)
        BY <2>9, <1>29
    <2>10. CASE \E c \in Charges, r \in Paid : Charge(c, r)
        BY <2>10, <1>30
    <2>11. QED
        BY <2>1, <2>2, <2>3, <2>4, <2>5, <2>6, <2>7, <2>8, <2>9, <2>10 DEF Next

LEMMA SwitchAlways == Spec => []SwitchInv
<1>1. Init => OneSwitch /\ CurrentIsPaid /\ RowsKnown /\ Switched
    <2> SUFFICES ASSUME Init
                 PROVE  OneSwitch /\ CurrentIsPaid /\ RowsKnown /\ Switched
        OBVIOUS
    <2>1. \A w \in Workers : pc[w] = "idle"
        BY DEF Init
    <2>2. OneSwitch /\ RowsKnown
        BY <2>1 DEF OneSwitch, Switches, RowsKnown, LeaverFits, RenewalFits, Leaving, First, Recurring
    <2>3. Registered \in Rows /\ Registered \notin Paid /\ Current = {Registered}
        BY RegisteredAssumption, NamesAssumption, StatusAssumption DEF Init, Current, Rows, RowStatus
    <2>4. CurrentIsPaid
        BY <2>3 DEF CurrentIsPaid
    <2>5. Switched
        BY <2>1, <2>3 DEF Init, Switched, PlanFor
    <2>6. QED
        BY <2>2, <2>4, <2>5
<1>2. SwitchInv /\ [Next]_vars => OneSwitch' /\ CurrentIsPaid' /\ RowsKnown' /\ Switched'
    <2> SUFFICES ASSUME SwitchInv, [Next]_vars
                 PROVE  OneSwitch' /\ CurrentIsPaid' /\ RowsKnown' /\ Switched'
        OBVIOUS
    <2>1. CASE Next
        BY <2>1, NextSwitch
    <2>2. CASE UNCHANGED vars
        <3>1. Current' = Current /\ Good' = Good
            BY <2>2 DEF Current, Good, vars, rowVars, mollieVars, workVars, historyVars
        <3>2. OneSwitch'
            BY <2>2, <3>1 DEF SwitchInv, OneSwitch, Switches, vars, rowVars, mollieVars, workVars, historyVars
        <3>3. CurrentIsPaid'
            BY <2>2, <3>1 DEF SwitchInv, CurrentIsPaid, vars, rowVars, mollieVars, workVars, historyVars
        <3>4. RowsKnown'
            BY <2>2, <3>1 DEF SwitchInv, RowsKnown, LeaverFits, RenewalFits, vars, rowVars, mollieVars, workVars, historyVars
        <3>5. Switched'
            BY <2>2, <3>1 DEF SwitchInv, Switched, PlanFor, vars, rowVars, mollieVars, workVars, historyVars
        <3>6. QED
            BY <3>2, <3>3, <3>4, <3>5
    <2>3. QED
        BY <2>1, <2>2
<1>3. SwitchInv <=> CoreInv /\ OneSwitch /\ CurrentIsPaid /\ RowsKnown /\ Switched
    BY DEF SwitchInv
<1>4. QED
    BY CoreAlways, <1>1, <1>2, <1>3, PTL DEF Spec

(* Between two requests one row is current, and its plan is the organisation's, in every state without a slip. *)
THEOREM OneCurrentHolds == Spec => []OneCurrent
<1>1. SwitchInv => OneCurrent
    <2> SUFFICES ASSUME SwitchInv, AtRest, slips \cap {"torn", "overlap", "revived"} = {}
                 PROVE  \E r \in Rows : Current = {r} /\ plan = (IF r \in Paid THEN PlanOf[r] ELSE "free")
        BY DEF OneCurrent
    <2>1. Switched /\ Good
        BY DEF SwitchInv, Good
    <2>2. \A w \in Workers : pc[w] \notin {"activate", "start", "plan", "down"}
        BY DEF AtRest
    <2>3. QED
        BY <2>1, <2>2 DEF Switched, PlanFor
<1>2. QED
    BY SwitchAlways, <1>1, PTL

-----------------------------------------------------------------------------
(***************************************************************************)
(* Rows are created once, so the youngest of the current rows is the       *)
(* current row.  As long as nobody has upgraded from a paid row, only the  *)
(* current row has a standing order, and a downgrade cancels it before it  *)
(* replaces the row.                                                       *)
(***************************************************************************)
BirthsFit ==
    Good =>
        /\ \A i, j \in DOMAIN born : born[i] = born[j] => i = j
        /\ \A r \in Rows : status[r] # None <=> \E i \in DOMAIN born : born[i] = r

Cheap == Good /\ "upgrade" \notin slips

OrdersKnown ==
    Cheap =>
        /\ \A w \in Workers : pc[w] \in {"leave", "start", "down"} => \A r \in Rows : standing[r] = 0
        /\ \A w \in Workers : pc[w] = "activate" => \A r \in Rows : standing[r] <= (IF r = about[w] THEN 1 ELSE 0)
        /\ (\A w \in Workers : pc[w] \notin {"replace", "activate", "leave", "start", "down"}) =>
               \A r \in Rows : standing[r] > 0 => r \in Current /\ standing[r] = 1 /\ orderId[r] = "live"

FreeInv == SwitchInv /\ OrdersFit /\ Data /\ BirthsFit /\ OrdersKnown

LEMMA CheapBefore == Next /\ Cheap' => Cheap
<1>1. Next => slips \subseteq slips'
    BY SlipsStay
<1>2. QED
    BY <1>1, GoodBefore DEF Cheap

(* A row that is created is the last. *)
LEMMA BirthEffect ==
    ASSUME FreeInv, NEW r \in Rows, Good, status[r] = None, born' = Append(born, r),
           \A q \in Rows : status'[q] # None <=> status[q] # None \/ q = r
    PROVE  BirthsFit'
<1>1. born \in Seq(Rows)
    BY DEF FreeInv, Data, Births
<1>2. \A i \in DOMAIN born : born[i] # r
    BY DEF FreeInv, BirthsFit
<1>3. /\ DOMAIN born' = DOMAIN born \cup {Len(born) + 1}
      /\ \A i \in DOMAIN born : born'[i] = born[i] /\ i # Len(born) + 1
      /\ born'[Len(born) + 1] = r
    BY <1>1
<1>4. \A i, j \in DOMAIN born' : born'[i] = born'[j] => i = j
    BY <1>2, <1>3 DEF FreeInv, BirthsFit
<1>5. \A q \in Rows : status'[q] # None <=> \E i \in DOMAIN born' : born'[i] = q
    BY <1>3 DEF FreeInv, BirthsFit
<1>6. QED
    BY <1>4, <1>5 DEF BirthsFit

(* The order that a downgrade cancels is that of the current row. *)
LEMMA CancelEffect ==
    ASSUME FreeInv, NEW w \in Workers, CancelOrder(w), Cheap
    PROVE  \/ Rest(w) /\ UNCHANGED standing
           \/ Goto(w, "leave") /\ \A r \in Rows : standing'[r] <= 0
<1>1. Types /\ OneSwitch /\ Switched /\ OrdersKnown /\ BirthsFit /\ pc[w] = "cancel"
    BY DEF FreeInv, SwitchInv, CoreInv, PlanInv, CancelOrder
<1>2. \A v \in Workers : pc[v] \notin {"replace", "activate", "leave", "start", "plan", "down"}
    <2> SUFFICES ASSUME NEW v \in Workers, pc[v] \in {"replace", "activate", "leave", "start", "plan", "down"}
                 PROVE  FALSE
        OBVIOUS
    <2>1. Switches(v) /\ Switches(w)
        BY <1>1 DEF FreeInv, SwitchInv, CoreInv, PlanInv, RequestsKnow, Knows, Switches, Leaving, First
    <2>2. QED
        BY <1>1, <2>1 DEF OneSwitch, Cheap
<1>3. PICK c \in Rows : Current = {c}
    BY <1>1, <1>2 DEF Switched, Cheap
<1>4. IsLatest(c)
    <2>1. PICK i \in DOMAIN born : born[i] = c
        BY <1>1, <1>3, StatusAssumption DEF BirthsFit, Cheap, Current, RowStatus
    <2>2. born \in Seq(Rows)
        BY DEF FreeInv, Data, Births
    <2>3. \A j \in i + 1..Len(born) : j \in DOMAIN born /\ j # i
        BY <2>1, <2>2
    <2>4. \A j \in i + 1..Len(born) : born[j] \notin Current
        BY <1>1, <1>3, <2>1, <2>3 DEF BirthsFit, Cheap
    <2>5. QED
        BY <1>3, <2>1, <2>4 DEF IsLatest
<1>5. \A r \in Rows : standing[r] \in Int /\ (standing[r] > 0 => r = c /\ standing[r] = 1 /\ orderId[r] = "live")
    BY <1>1, <1>2, <1>3 DEF OrdersKnown, Types
<1> DEFINE named == {r \in Rows : IsLatest(r) /\ orderId[r] # "none"}
<1>6. CASE \E r \in named : orderId[r] = "cancelled"
    BY <1>6 DEF CancelOrder
<1>7. CASE ~\E r \in named : orderId[r] = "cancelled"
    <2>1. Goto(w, "leave") /\ standing' = [r \in Rows |-> IF r \in named THEN standing[r] - 1 ELSE standing[r]]
        BY <1>7 DEF CancelOrder
    <2>2. standing[c] > 0 => c \in named
        BY <1>4, <1>5
    <2>3. \A r \in Rows : standing'[r] <= 0
        BY <1>5, <2>1, <2>2
    <2>4. QED
        BY <2>1, <2>3
<1>8. QED
    BY <1>6, <1>7

(* Every step keeps that. *)
LEMMA NextFree ==
    FreeInv /\ OrdersFit' /\ Next => BirthsFit' /\ OrdersKnown'
<1> SUFFICES ASSUME FreeInv /\ OrdersFit', Next
             PROVE  BirthsFit' /\ OrdersKnown'
    OBVIOUS
<1> USE StatusAssumption, NumbersAssumption, PlanOfAssumption, RegisteredAssumption, NamesAssumption,
        NoneAssumption
    DEF Happens, rowVars, mollieVars, workVars, historyVars, Payments, Rows
<1>0. /\ FreeInv /\ SwitchInv /\ Types /\ RequestsKnow /\ RequestsFit /\ OneSwitch /\ RowsKnown /\ Switched /\ BirthsFit /\ OrdersKnown
      /\ (Good' => Good) /\ (Cheap' => Cheap /\ Good')
      /\ UNCHANGED status => Current' = Current
      /\ \A r \in Rows : standing[r] \in Nat /\ standing'[r] \in Nat
    BY GoodBefore, CheapBefore DEF FreeInv, SwitchInv, CoreInv, PlanInv, Current, OrdersFit, Cheap
<1>1. ASSUME NEW w \in Workers, NEW r \in Paid, Checkout(w, r)
      PROVE  BirthsFit' /\ OrdersKnown'
    <2>1. BirthsFit'
        BY <1>0, <1>1 DEF Checkout, Takes, Unused, Types, BirthsFit, Good
    <2>2. OrdersKnown'
        BY <1>0, <1>1 DEF Checkout, Takes, Unused, Types, OrdersKnown, Cheap, Knows, RequestsKnow
    <2>3. QED
        BY <2>1, <2>2
<1>2. ASSUME NEW w \in Workers, NEW f \in Free, Downgrade(w, f)
      PROVE  BirthsFit' /\ OrdersKnown'
    <2>1. BirthsFit'
        BY <1>0, <1>2 DEF Downgrade, Takes, Unused, Overlap, Types, BirthsFit, Good
    <2>2. OrdersKnown'
        BY <1>0, <1>2 DEF Downgrade, Takes, Unused, Overlap, Types, OrdersKnown, Cheap, Knows, RequestsKnow
    <2>3. QED
        BY <2>1, <2>2
<1>3. ASSUME NEW w \in Workers, NEW p \in Payments, Deliver(w, p)
      PROVE  BirthsFit' /\ OrdersKnown'
    <2>1. BirthsFit'
        BY <1>0, <1>3 DEF Deliver, Receive, Takes, Types, BirthsFit, Good
    <2>2. OrdersKnown'
        BY <1>0, <1>3 DEF Deliver, Receive, Takes, Types, OrdersKnown, Cheap, Knows, RequestsKnow
    <2>3. QED
        BY <2>1, <2>2
<1>4. ASSUME NEW w \in Workers, NEW p \in Payments, Redeliver(w, p)
      PROVE  BirthsFit' /\ OrdersKnown'
    <2>1. BirthsFit'
        BY <1>0, <1>4 DEF Redeliver, Receive, Takes, Types, BirthsFit, Good
    <2>2. OrdersKnown'
        BY <1>0, <1>4 DEF Redeliver, Receive, Takes, Types, OrdersKnown, Cheap, Knows, RequestsKnow
    <2>3. QED
        BY <2>1, <2>2
<1>5. ASSUME NEW w \in Workers, Reconcile(w)
      PROVE  BirthsFit' /\ OrdersKnown'
    <2>1. BirthsFit'
        BY <1>0, <1>5 DEF Reconcile, Receive, Takes, Types, BirthsFit, Good
    <2>2. OrdersKnown'
        BY <1>0, <1>5 DEF Reconcile, Receive, Takes, Types, OrdersKnown, Cheap, Knows, RequestsKnow
    <2>3. QED
        BY <2>1, <2>2
<1>6. ASSUME NEW w \in Workers, DropPending(w)
      PROVE  BirthsFit' /\ OrdersKnown'
    <2>1. Current' = Current /\ \A r \in Rows : status[r] = None <=> status'[r] = None
        BY <1>0, <1>6 DEF DropPending, SetStatus, Types, Current, RowStatus
    <2>2. BirthsFit'
        BY <1>0, <1>6, <2>1 DEF DropPending, SetStatus, Goto, Types, BirthsFit, Good
    <2>3. OrdersKnown'
        BY <1>0, <1>6, <2>1 DEF DropPending, SetStatus, Goto, Types, OrdersKnown, Cheap, Knows, RequestsKnow
    <2>4. QED
        BY <2>2, <2>3
<1>7. ASSUME NEW w \in Workers, OpenRow(w)
      PROVE  BirthsFit' /\ OrdersKnown'
    <2>1. about[w] \in Paid /\ status[about[w]] = None /\ pc[w] = "open"
        BY <1>0, <1>7 DEF OpenRow, RequestsKnow, Knows, Checking, RequestsFit, RequestFits
    <2>2. /\ Current' = Current /\ UNCHANGED <<orderId, standing>> /\ born' = Append(born, about[w]) /\ Goto(w, "bill")
          /\ \A q \in Rows : status'[q] # None <=> status[q] # None \/ q = about[w]
        BY <1>0, <1>7, <2>1 DEF OpenRow, SetStatus, Types, Current, RowStatus
    <2>3. BirthsFit'
        <3>1. CASE Good'
            BY <1>0, <2>1, <2>2, <3>1, BirthEffect
        <3>2. CASE ~Good'
            BY <3>2 DEF BirthsFit
        <3>3. QED
            BY <3>1, <3>2
    <2>4. OrdersKnown'
        BY <1>0, <1>7, <2>1, <2>2 DEF Goto, Types, OrdersKnown, Cheap, Knows, RequestsKnow
    <2>5. QED
        BY <2>3, <2>4
<1>8. ASSUME NEW w \in Workers, BillFirst(w)
      PROVE  BirthsFit' /\ OrdersKnown'
    <2>1. BirthsFit'
        BY <1>0, <1>8 DEF BillFirst, Goto, Types, BirthsFit, Good
    <2>2. OrdersKnown'
        BY <1>0, <1>8 DEF BillFirst, Goto, Types, OrdersKnown, Cheap, Knows, RequestsKnow
    <2>3. QED
        BY <2>1, <2>2
<1>9. ASSUME NEW w \in Workers, Link(w)
      PROVE  BirthsFit' /\ OrdersKnown'
    <2>1. BirthsFit'
        BY <1>0, <1>9 DEF Link, Goto, Types, BirthsFit, Good
    <2>2. OrdersKnown'
        BY <1>0, <1>9 DEF Link, Goto, Types, OrdersKnown, Cheap, Knows, RequestsKnow
    <2>3. QED
        BY <2>1, <2>2
<1>10. ASSUME NEW w \in Workers, StoreLink(w)
      PROVE  BirthsFit' /\ OrdersKnown'
    <2>1. BirthsFit'
        BY <1>0, <1>10 DEF StoreLink, Goto, Types, BirthsFit, Good
    <2>2. OrdersKnown'
        BY <1>0, <1>10 DEF StoreLink, Goto, Types, OrdersKnown, Cheap, Knows, RequestsKnow
    <2>3. QED
        BY <2>1, <2>2
<1>11. ASSUME NEW w \in Workers, StampInvoice(w)
      PROVE  BirthsFit' /\ OrdersKnown'
    <2>1. BirthsFit'
        BY <1>0, <1>11 DEF StampInvoice, Rest, Types, BirthsFit, Good
    <2>2. OrdersKnown'
        BY <1>0, <1>11 DEF StampInvoice, Rest, Types, OrdersKnown, Cheap, Knows, RequestsKnow
    <2>3. QED
        BY <2>1, <2>2
<1>12. ASSUME NEW w \in Workers, CancelOrder(w)
      PROVE  BirthsFit' /\ OrdersKnown'
    <2>1. BirthsFit'
        BY <1>0, <1>12 DEF CancelOrder, Goto, Rest, Types, BirthsFit, Good
    <2>2. OrdersKnown'
        <3>1. UNCHANGED <<status, slips>> /\ pc[w] = "cancel" /\ (Rest(w) => UNCHANGED orderId)
            BY <1>0, <1>12 DEF CancelOrder, Goto, Rest, Types
        <3>2. Cheap /\ Rest(w) => UNCHANGED standing
            <4>1. ~(Rest(w) /\ Goto(w, "leave"))
                BY <1>0 DEF Rest, Goto, Types
            <4>2. QED
                BY <1>0, <1>12, <4>1, CancelEffect
        <3>3. CASE Cheap' /\ Rest(w)
            BY <1>0, <3>1, <3>2, <3>3 DEF Rest, Types, OrdersKnown
        <3>4. CASE Cheap' /\ Goto(w, "leave")
            <4>1. \A r \in Rows : standing'[r] = 0
                <5>1. \A r \in Rows : standing'[r] <= 0
                    <6>1. ~Rest(w)
                        BY <1>0, <3>4 DEF Rest, Goto, Types
                    <6>2. QED
                        BY <1>0, <1>12, <3>4, <6>1, CancelEffect
                <5>2. QED
                    BY <1>0, <5>1
            <4>2. \A v \in Workers : pc[v] # "activate"
                BY <1>0, <1>12, <3>1, <3>4 DEF Switches, OneSwitch, Cheap, RequestsKnow, Knows, First, Leaving
            <4>3. QED
                BY <1>0, <3>4, <4>1, <4>2 DEF Goto, Types, OrdersKnown
        <3>5. CASE ~Cheap'
            BY <3>5 DEF OrdersKnown
        <3>6. QED
            BY <1>12, <3>3, <3>4, <3>5 DEF CancelOrder
    <2>3. QED
        BY <2>1, <2>2
<1>13. ASSUME NEW w \in Workers, LeavePlan(w)
      PROVE  BirthsFit' /\ OrdersKnown'
    <2>1. \A r \in Rows : status[r] = None <=> status'[r] = None
        BY <1>0, <1>13 DEF LeavePlan, SetStatus, Types, Current, RowStatus
    <2>2. BirthsFit'
        BY <1>0, <1>13, <2>1 DEF LeavePlan, SetStatus, Goto, Types, BirthsFit, Good
    <2>3. OrdersKnown'
        BY <1>0, <1>13, <2>1 DEF LeavePlan, SetStatus, Goto, Types, OrdersKnown, Cheap, Knows, RequestsKnow
    <2>4. QED
        BY <2>2, <2>3
<1>14. ASSUME NEW w \in Workers, StartFree(w)
      PROVE  BirthsFit' /\ OrdersKnown'
    <2>1. about[w] \in Free /\ (Good => status[about[w]] = None) /\ pc[w] = "start"
        BY <1>0, <1>14 DEF StartFree, RequestsKnow, Knows, Leaving, RowsKnown, LeaverFits
    <2>2. /\ born' = Append(born, about[w]) /\ Goto(w, "down") /\ UNCHANGED <<standing, slips>>
          /\ \A q \in Rows : status'[q] # None <=> status[q] # None \/ q = about[w]
        BY <1>0, <1>14, <2>1 DEF StartFree, SetStatus, Types, RowStatus
    <2>3. BirthsFit'
        <3>1. CASE Good'
            BY <1>0, <2>1, <2>2, <3>1, BirthEffect
        <3>2. CASE ~Good'
            BY <3>2 DEF BirthsFit
        <3>3. QED
            BY <3>1, <3>2
    <2>4. OrdersKnown'
        BY <1>0, <1>14, <2>1, <2>2 DEF Goto, Types, OrdersKnown, Cheap, Knows, RequestsKnow
    <2>5. QED
        BY <2>3, <2>4
<1>15. ASSUME NEW w \in Workers, SetFree(w)
      PROVE  BirthsFit' /\ OrdersKnown'
    <2>1. BirthsFit'
        BY <1>0, <1>15 DEF SetFree, Rest, Types, BirthsFit, Good
    <2>2. OrdersKnown'
        BY <1>0, <1>15 DEF SetFree, Rest, Types, OrdersKnown, Cheap, Knows, RequestsKnow
    <2>3. QED
        BY <2>1, <2>2
<1>16. ASSUME NEW w \in Workers, Find(w)
      PROVE  BirthsFit' /\ OrdersKnown'
    <2>1. BirthsFit'
        BY <1>0, <1>16 DEF Find, Slip, Overlap, Types, BirthsFit, Good
    <2>2. OrdersKnown'
        BY <1>0, <1>16 DEF Find, Slip, Overlap, Types, OrdersKnown, Cheap, Knows, RequestsKnow
    <2>3. QED
        BY <2>1, <2>2
<1>17. ASSUME NEW w \in Workers, NotePayment(w)
      PROVE  BirthsFit' /\ OrdersKnown'
    <2>1. BirthsFit'
        BY <1>0, <1>17 DEF NotePayment, Goto, Types, BirthsFit, Good
    <2>2. OrdersKnown'
        BY <1>0, <1>17 DEF NotePayment, Goto, Types, OrdersKnown, Cheap, Knows, RequestsKnow
    <2>3. QED
        BY <2>1, <2>2
<1>18. ASSUME NEW w \in Workers, BookFirst(w)
      PROVE  BirthsFit' /\ OrdersKnown'
    <2>1. BirthsFit'
        BY <1>0, <1>18 DEF BookFirst, Rest, Goto, Types, BirthsFit, Good
    <2>2. OrdersKnown'
        <3>1. UNCHANGED <<status, orderId, standing, slips>> /\ pc[w] = "book" /\ (Rest(w) \/ Goto(w, "settle"))
            BY <1>18 DEF BookFirst
        <3>2. CASE Rest(w)
            BY <1>0, <3>1, <3>2 DEF Rest, Types, OrdersKnown, Cheap
        <3>3. CASE Goto(w, "settle")
            BY <1>0, <3>1, <3>3 DEF Goto, Types, OrdersKnown, Cheap
        <3>4. QED
            BY <3>1, <3>2, <3>3
    <2>3. QED
        BY <2>1, <2>2
<1>19. ASSUME NEW w \in Workers, Settle(w)
      PROVE  BirthsFit' /\ OrdersKnown'
    <2>1. UNCHANGED <<born, orderId>> /\ (Goto(w, "order") \/ Rest(w)) /\ UNCHANGED standing /\ pc[w] = "settle"
        BY <1>19 DEF Settle, Answer
    <2>2. (Good' => Current' = Current) /\ \A r \in Rows : status[r] = None <=> status'[r] = None
        BY <1>0, <1>19, SettleEffect
    <2>3. BirthsFit'
        BY <1>0, <1>19, <2>1, <2>2 DEF Rest, Goto, Types, BirthsFit, Good
    <2>4. OrdersKnown'
        BY <1>0, <1>19, <2>1, <2>2 DEF Rest, Goto, Types, OrdersKnown, Cheap, Knows, RequestsKnow
    <2>5. QED
        BY <2>3, <2>4
<1>20. ASSUME NEW w \in Workers, OrderRecurring(w)
      PROVE  BirthsFit' /\ OrdersKnown'
    <2>1. pc[w] = "order" /\ (Cheap' => \A v \in Workers \ {w} : pc[v] \notin {"replace", "activate", "leave", "start", "down"})
        BY <1>0, <1>20 DEF OrderRecurring, Cheap, OneSwitch, Switches, RequestsKnow, Knows, First, Leaving
    <2>2. BirthsFit'
        BY <1>0, <1>20, <2>1 DEF OrderRecurring, Goto, Types, BirthsFit, Good
    <2>3. OrdersKnown'
        BY <1>0, <1>20, <2>1 DEF OrderRecurring, Goto, Types, OrdersKnown
    <2>4. QED
        BY <2>2, <2>3
<1>21. ASSUME NEW w \in Workers, ReplaceOthers(w)
      PROVE  BirthsFit' /\ OrdersKnown'
    <2>1. \A r \in Rows : status[r] = None <=> status'[r] = None
        BY <1>0, <1>21 DEF ReplaceOthers, SetStatus, Types, Current, RowStatus
    <2>2. BirthsFit'
        BY <1>0, <1>21, <2>1 DEF ReplaceOthers, SetStatus, Slip, Goto, Types, BirthsFit, Good
    <2>3. OrdersKnown'
        BY <1>0, <1>21, <2>1
        DEF ReplaceOthers, SetStatus, Slip, Goto, Types, OrdersKnown, Cheap, Knows, RequestsKnow
    <2>4. QED
        BY <2>2, <2>3
<1>22. ASSUME NEW w \in Workers, ActivatePaid(w)
      PROVE  BirthsFit' /\ OrdersKnown'
    <2>1. about[w] \in Paid /\ status[about[w]] # None
        BY <1>0, <1>22 DEF ActivatePaid, RequestsKnow, Knows, First
    <2>2. \A r \in Rows : status[r] = None <=> status'[r] = None
        BY <1>0, <1>22, <2>1 DEF ActivatePaid, SetStatus, Types, RowStatus
    <2>3. pc[w] = "activate" /\ (Cheap' => \A v \in Workers \ {w} : pc[v] \notin {"replace", "activate", "leave", "start", "down"})
        BY <1>0, <1>22 DEF ActivatePaid, Cheap, OneSwitch, Switches, RequestsKnow, Knows, First, Leaving
    <2>4. BirthsFit'
        BY <1>0, <1>22, <2>1, <2>2, <2>3
        DEF ActivatePaid, SetStatus, Slip, Revival, Goto, Types, BirthsFit, Good
    <2>5. OrdersKnown'
        <3>1. /\ Cheap' => Cheap
              /\ UNCHANGED <<standing, about>> /\ pc' = [pc EXCEPT ![w] = "plan"]
              /\ orderId' = [orderId EXCEPT ![about[w]] = "live"]
            BY <1>0, <1>22 DEF ActivatePaid, Goto
        <3>2. about[w] \in Current'
            BY <1>0, <1>22, <2>1 DEF ActivatePaid, SetStatus, Types, Current
        <3>3. Cheap' => \A r \in Rows : standing'[r] > 0 => r = about[w] /\ standing'[r] = 1 /\ orderId'[r] = "live"
            BY <1>0, <2>1, <2>3, <3>1 DEF Types, OrdersKnown
        <3>4. Cheap' => \A v \in Workers : pc'[v] \notin {"replace", "activate", "leave", "start", "down"}
            BY <1>0, <2>3, <3>1 DEF Types
        <3>5. QED
            BY <3>2, <3>3, <3>4 DEF OrdersKnown
    <2>6. QED
        BY <2>4, <2>5
<1>23. ASSUME NEW w \in Workers, SetPlan(w)
      PROVE  BirthsFit' /\ OrdersKnown'
    <2>1. BirthsFit'
        BY <1>0, <1>23 DEF SetPlan, Answer, Rest, Types, BirthsFit, Good
    <2>2. OrdersKnown'
        BY <1>0, <1>23 DEF SetPlan, Answer, Rest, Types, OrdersKnown, Cheap, Knows, RequestsKnow
    <2>3. QED
        BY <2>1, <2>2
<1>24. ASSUME NEW w \in Workers, LookForInvoice(w)
      PROVE  BirthsFit' /\ OrdersKnown'
    <2>1. BirthsFit'
        BY <1>0, <1>24 DEF LookForInvoice, InvoicesOf, Types, BirthsFit, Good
    <2>2. OrdersKnown'
        BY <1>0, <1>24 DEF LookForInvoice, InvoicesOf, Types, OrdersKnown, Cheap, Knows, RequestsKnow
    <2>3. QED
        BY <2>1, <2>2
<1>25. ASSUME NEW w \in Workers, EnterNew(w)
      PROVE  BirthsFit' /\ OrdersKnown'
    <2>1. BirthsFit'
        BY <1>0, <1>25 DEF EnterNew, InvoicesOf, Rest, Goto, Types, BirthsFit, Good
    <2>2. OrdersKnown'
        BY <1>0, <1>25 DEF EnterNew, InvoicesOf, Rest, Goto, Types, OrdersKnown, Cheap, Knows, RequestsKnow
    <2>3. QED
        BY <2>1, <2>2
<1>26. ASSUME NEW w \in Workers, EnterStatus(w)
      PROVE  BirthsFit' /\ OrdersKnown'
    <2>1. BirthsFit'
        BY <1>0, <1>26 DEF EnterStatus, Goto, Types, BirthsFit, Good
    <2>2. OrdersKnown'
        BY <1>0, <1>26 DEF EnterStatus, Goto, Types, OrdersKnown, Cheap, Knows, RequestsKnow
    <2>3. QED
        BY <2>1, <2>2
<1>27. ASSUME NEW w \in Workers, Renew(w)
      PROVE  BirthsFit' /\ OrdersKnown'
    <2>1. UNCHANGED <<born, orderId>> /\ Rest(w) /\ UNCHANGED standing /\ pc[w] = "renew"
        BY <1>27 DEF Renew, Answer
    <2>2. (Good' => Current' = Current) /\ \A r \in Rows : status[r] = None <=> status'[r] = None
        BY <1>0, <1>27, RenewEffect
    <2>3. BirthsFit'
        BY <1>0, <1>27, <2>1, <2>2 DEF Rest, Goto, Types, BirthsFit, Good
    <2>4. OrdersKnown'
        BY <1>0, <1>27, <2>1, <2>2 DEF Rest, Goto, Types, OrdersKnown, Cheap, Knows, RequestsKnow
    <2>5. QED
        BY <2>3, <2>4
<1>28. ASSUME NEW w \in Workers, Stop(w)
      PROVE  BirthsFit' /\ OrdersKnown'
    <2>1. BirthsFit'
        BY <1>0, <1>28 DEF Stop, Rest, Types, BirthsFit, Good
    <2>2. OrdersKnown'
        <3>1. Cheap' => pc[w] \notin {"replace", "activate", "leave", "start", "down"}
            BY <1>28 DEF Stop, Cheap, Good
        <3>2. UNCHANGED <<status, orderId, standing>> /\ Rest(w)
            BY <1>28 DEF Stop
        <3>3. QED
            BY <1>0, <3>1, <3>2 DEF Rest, Types, OrdersKnown
    <2>3. QED
        BY <2>1, <2>2
<1>29. ASSUME NEW p \in Payments, Decide(p)
      PROVE  BirthsFit' /\ OrdersKnown'
    <2>1. BirthsFit'
        BY <1>0, <1>29 DEF Decide, Slip, Types, BirthsFit, Good
    <2>2. OrdersKnown'
        BY <1>0, <1>29 DEF Decide, Slip, Types, OrdersKnown, Cheap, Knows, RequestsKnow
    <2>3. QED
        BY <2>1, <2>2
<1>30. ASSUME NEW c \in Charges, NEW r \in Paid, Charge(c, r)
      PROVE  BirthsFit' /\ OrdersKnown'
    <2>1. BirthsFit'
        BY <1>0, <1>30 DEF Charge, Types, BirthsFit, Good
    <2>2. OrdersKnown'
        BY <1>0, <1>30 DEF Charge, Types, OrdersKnown, Cheap, Knows, RequestsKnow
    <2>3. QED
        BY <2>1, <2>2
<1>31. QED
    <2>1. CASE \E w \in Workers : \E r \in Paid : Checkout(w, r)
        BY <2>1, <1>1
    <2>2. CASE \E w \in Workers : \E f \in Free : Downgrade(w, f)
        BY <2>2, <1>2
    <2>3. CASE \E w \in Workers : \E p \in Payments : Deliver(w, p) \/ Redeliver(w, p)
        BY <2>3, <1>3, <1>4
    <2>4. CASE \E w \in Workers : Reconcile(w)
        BY <2>4, <1>5
    <2>5. CASE \E w \in Workers : CheckoutStep(w)
        BY <2>5, <1>6, <1>7, <1>8, <1>9, <1>10, <1>11 DEF CheckoutStep
    <2>6. CASE \E w \in Workers : DowngradeStep(w)
        BY <2>6, <1>12, <1>13, <1>14, <1>15 DEF DowngradeStep
    <2>7. CASE \E w \in Workers : WebhookStep(w)
        BY <2>7, <1>16, <1>17, <1>18, <1>19, <1>20, <1>21, <1>22, <1>23, <1>24, <1>25, <1>26, <1>27 DEF WebhookStep
    <2>8. CASE \E w \in Workers : Stop(w)
        BY <2>8, <1>28
    <2>9. CASE \E p \in Payments : Decide(p)
        BY <2>9, <1>29
    <2>10. CASE \E c \in Charges, r \in Paid : Charge(c, r)
        BY <2>10, <1>30
    <2>11. QED
        BY <2>1, <2>2, <2>3, <2>4, <2>5, <2>6, <2>7, <2>8, <2>9, <2>10 DEF Next

LEMMA FreeAlways == Spec => []FreeInv
<1>1. Init => BirthsFit /\ OrdersKnown
    <2> SUFFICES ASSUME Init
                 PROVE  BirthsFit /\ OrdersKnown
        OBVIOUS
    <2>1. \A w \in Workers : pc[w] = "idle"
        BY DEF Init
    <2>2. OrdersKnown
        BY <2>1 DEF Init, OrdersKnown
    <2>3. born = <<Registered>> /\ Registered \in Rows /\ \A r \in Rows : status[r] # None <=> r = Registered
        BY RegisteredAssumption, StatusAssumption DEF Init, Rows, RowStatus
    <2>4. DOMAIN born = {1} /\ born[1] = Registered
        BY <2>3
    <2>5. BirthsFit
        BY <2>3, <2>4 DEF BirthsFit
    <2>6. QED
        BY <2>2, <2>5
<1>2. FreeInv /\ OrdersFit' /\ [Next]_vars => BirthsFit' /\ OrdersKnown'
    <2> SUFFICES ASSUME FreeInv, OrdersFit', [Next]_vars
                 PROVE  BirthsFit' /\ OrdersKnown'
        OBVIOUS
    <2>1. CASE Next
        BY <2>1, NextFree
    <2>2. CASE UNCHANGED vars
        <3>1. Current' = Current /\ Good' = Good /\ Cheap' = Cheap
            BY <2>2 DEF Current, Good, Cheap, vars, rowVars, mollieVars, workVars, historyVars
        <3>2. BirthsFit'
            BY <2>2, <3>1 DEF FreeInv, BirthsFit, vars, rowVars, mollieVars, workVars, historyVars
        <3>3. OrdersKnown'
            BY <2>2, <3>1 DEF FreeInv, OrdersKnown, vars, rowVars, mollieVars, workVars, historyVars
        <3>4. QED
            BY <3>2, <3>3
    <2>3. QED
        BY <2>1, <2>2
<1>3. FreeInv <=> SwitchInv /\ OrdersFit /\ Data /\ BirthsFit /\ OrdersKnown
    BY DEF FreeInv
<1>4. QED
    BY SwitchAlways, DataAlways, <1>1, <1>2, <1>3, PTL DEF Spec

(* On the free plan nothing is charged any more, in every state without a slip or a paid row replaced by another. *)
THEOREM FreeIsFreeHolds == Spec => []FreeIsFree
<1>1. FreeInv => FreeIsFree
    <2> SUFFICES ASSUME FreeInv, AtRest, plan = "free", slips \cap {"torn", "overlap", "revived", "upgrade"} = {},
                        NEW r \in Rows
                 PROVE  standing[r] = 0
        BY DEF FreeIsFree
    <2>1. /\ Switched /\ OrdersKnown /\ Good /\ Cheap /\ PlanIsPaidFor
          /\ standing[r] \in Nat
        BY DEF FreeInv, SwitchInv, CoreInv, PlanInv, OrdersFit, Good, Cheap
    <2>2. \A w \in Workers : pc[w] \notin {"activate", "start", "plan", "down", "replace", "leave"}
        BY DEF AtRest
    <2>3. PICK c \in Rows : Current = {c} /\ plan = PlanFor(c)
        BY <2>1, <2>2 DEF Switched
    <2>4. c \notin Paid
        BY <2>3, PlanOfAssumption DEF PlanFor
    <2>5. standing[r] > 0 => r \in Current /\ r \in Paid
        BY <2>1, <2>2 DEF OrdersKnown, PlanIsPaidFor
    <2>6. QED
        BY <2>1, <2>3, <2>4, <2>5
<1>2. QED
    BY FreeAlways, <1>1, PTL

-----------------------------------------------------------------------------
(***************************************************************************)
(* Periods.  The invoices of charges are the cycles.  A row that is        *)
(* charged has its first payment on its first invoice, so the first        *)
(* payment never makes a cycle of a row with charges, and of two charges   *)
(* of a row one is settled.                                                *)
(***************************************************************************)
Started == {i.row : i \in {j \in invoices : IsStart(j) /\ j.payment = j.row}}

Cycles == {i \in invoices : ~IsStart(i)}

FirstsBooked ==
    /\ \A w \in Workers : pc[w] \in First \ {"note"} => payId[about[w]] = about[w]
    /\ \A w \in Workers : pc[w] \in First \ {"note", "book"} => about[w] \in Started
    /\ \A r \in Paid : standing[r] > 0 => r \in Started /\ payId[r] = r
    /\ \A c \in Charges : chargeOf[c] # None => chargeOf[c] \in Started /\ payId[chargeOf[c]] = chargeOf[c]

Settled(c) == pay[c] # "open" /\ c \notin due

ChargesFit ==
    /\ \A w \in Workers : pc[w] \in Recurring /\ on[w] \in Paid => \A c \in Charges : chargeOf[c] # about[w]
    /\ \A c, d \in Charges : c # d /\ chargeOf[c] # None /\ chargeOf[c] = chargeOf[d] => Settled(c) \/ Settled(d)

Serial ==
    "crowded" \notin slips =>
        \A v, w \in Workers : pc[v] \in Recurring /\ pc[w] \in Recurring /\ about[v] = about[w] => v = w

(***************************************************************************)
(* As long as requests for a row come one after the other and finish, and  *)
(* see the last status of their payment: the period that a request has     *)
(* read is the row's; a cycle that is not paid, and may still be, is the   *)
(* period after it; and a cycle that is paid is not, unless the request    *)
(* that paid it has yet to write the row.                                  *)
(***************************************************************************)
Tidy == slips \cap {"torn", "crowded", "overtaken"} = {}

RenewalKnows(w) ==
    /\ pc[w] \in Recurring => until[w] = end[about[w]]
    /\ pc[w] = "enter" /\ old[w] # None /\ ~IsStart(old[w]) => old[w] \in Cycles
    /\ pc[w] = "renew" /\ (old[w] = None \/ ~IsStart(old[w])) =>
           \E i \in Cycles : /\ i.payment = on[w] /\ i.status = saw[w]
                             /\ i.end = IF old[w] = None THEN until[w] + 1 ELSE old[w].end
    /\ pc[w] \in {"enter", "renew"} /\ BecamePaid(w) =>
           /\ on[w] \in Charges => on[w] \in due
           /\ old[w] # None /\ ~IsStart(old[w]) => old[w].end = end[about[w]] + 1

RenewalsFit == Tidy => \A w \in Workers : RenewalKnows(w)

Renewing(p) == \E w \in Workers : pc[w] = "renew" /\ on[w] = p /\ BecamePaid(w)

PeriodsFit ==
    Tidy =>
        /\ \A i \in Cycles : i.status # "paid" /\ pay[i.key] # "failed" => i.end = end[i.row] + 1
        /\ \A i \in Cycles : i.status = "paid" => i.end <= end[i.row] \/ Renewing(i.payment)
        /\ \A i, j \in Cycles : i.status = "paid" /\ j.status = "paid" /\ i.row = j.row /\ i.end = j.end => i = j

PeriodInv == BookedInv /\ FirstsBooked /\ ChargesFit /\ Serial /\ RenewalsFit /\ PeriodsFit

LEMMA TidyBefore == Next /\ Tidy' => Tidy /\ Fresh /\ Fresh' /\ "crowded" \notin slips
BY SlipsStay DEF Tidy, Fresh

(* A payment is for one row. *)
LEMMA OneRow ==
    ASSUME NEW p \in Payments, NEW r \in Paid, NEW s \in Paid, IsFor(p, r), IsFor(p, s)
    PROVE  r = s
BY NamesAssumption DEF IsFor, Payments

LEMMA CycleFits ==
    ASSUME BooksFit, Books, NEW i \in Cycles
    PROVE  /\ i \in Invoice /\ i \in invoices /\ i.kind = "cycle" /\ i.key = i.payment /\ i.row \in Paid
           /\ i.payment \in Payments /\ IsFor(i.payment, i.row) /\ i.end > 1 /\ i.end \in Nat
           /\ pay[i.payment] # None /\ (i.status \in {"paid", "failed"} => pay[i.payment] = i.status)
           /\ \A j \in invoices : j.payment = i.payment => j = i
BY NoneAssumption DEF BooksFit, Books, Cycles, Invoice, IsStart, Rows, Payments

(* The requests about a payment of a cycle are about its row. *)
LEMMA CycleRow ==
    ASSUME InvoiceInv, NEW i \in Cycles, NEW w \in Workers, pc[w] \in Recurring, i.payment = on[w]
    PROVE  i.row = about[w]
<1>1. BooksFit /\ Books /\ RequestsKnow /\ RequestsFit
    BY DEF InvoiceInv, CoreInv, PlanInv, Data
<1>2. i.row \in Paid /\ i.payment \in Payments /\ IsFor(i.payment, i.row)
    BY <1>1, CycleFits
<1>3. about[w] \in Paid /\ IsFor(on[w], about[w])
    BY <1>1 DEF RequestsKnow, Knows, RequestsFit, RequestFits, Recurring
<1>4. QED
    BY <1>2, <1>3, OneRow

(* First invoices stay first invoices, and keep the payment they have. *)
LEMMA StartedStay == InvoiceInv /\ Next => Started \subseteq Started'
<1> SUFFICES ASSUME InvoiceInv, Next
             PROVE  Started \subseteq Started'
    OBVIOUS
<1>1. BooksFit /\ Books
    BY DEF InvoiceInv, Data
<1>2. ASSUME NEW i \in invoices, NEW j, SameBill(i, j), IsStart(i) => j.payment = i.row \/ j.payment = i.payment,
             invoices' = (invoices \ {i}) \cup {j}
      PROVE  Started \subseteq Started'
    BY <1>2 DEF Started, SameBill, IsStart
<1>3. ASSUME NEW w \in Workers, StampInvoice(w)
      PROVE  Started \subseteq Started'
    <2>1. ASSUME NEW i \in invoices, i.row = about[w],
                 invoices' = (invoices \ {i}) \cup {[i EXCEPT !.payment = about[w]]}
          PROVE  Started \subseteq Started'
        <3> DEFINE j == [i EXCEPT !.payment = about[w]]
        <3>1. SameBill(i, j) /\ j.payment = i.row
            BY <1>1, <2>1 DEF Books, Invoice, SameBill
        <3> HIDE DEF j
        <3>2. invoices' = (invoices \ {i}) \cup {j}
            BY <2>1 DEF j
        <3>3. QED
            BY <1>2, <3>1, <3>2
    <2>2. QED
        BY <1>3, <2>1, StampEffect DEF Started
<1>4. ASSUME NEW w \in Workers, BookFirst(w)
      PROVE  Started \subseteq Started'
    <2>1. ASSUME NEW i \in invoices, i.row = on[w],
                 invoices' = (invoices \ {i}) \cup {[i EXCEPT !.payment = on[w], !.status = saw[w]]}
          PROVE  Started \subseteq Started'
        <3> DEFINE j == [i EXCEPT !.payment = on[w], !.status = saw[w]]
        <3>1. SameBill(i, j) /\ j.payment = i.row
            BY <1>1, <2>1 DEF Books, Invoice, SameBill
        <3> HIDE DEF j
        <3>2. invoices' = (invoices \ {i}) \cup {j}
            BY <2>1 DEF j
        <3>3. QED
            BY <1>2, <3>1, <3>2
    <2>2. on[w] = about[w]
        BY <1>4 DEF InvoiceInv, CoreInv, RequestsFit, RequestFits, First, BookFirst
    <2>3. QED
        BY <1>4, <2>1, <2>2, BookEffect DEF Started
<1>5. ASSUME NEW w \in Workers, EnterStatus(w)
      PROVE  Started \subseteq Started'
    <2>1. ASSUME NEW i \in invoices, invoices' = (invoices \ {i}) \cup {[i EXCEPT !.status = saw[w]]}
          PROVE  Started \subseteq Started'
        <3> DEFINE j == [i EXCEPT !.status = saw[w]]
        <3>1. SameBill(i, j) /\ j.payment = i.payment
            BY <1>1, <2>1 DEF Books, Invoice, SameBill
        <3> HIDE DEF j
        <3>2. invoices' = (invoices \ {i}) \cup {j}
            BY <2>1 DEF j
        <3>3. QED
            BY <1>2, <3>1, <3>2
    <2>2. QED
        BY <1>5, <2>1, EnterEffect DEF Started
<1>6. CASE ~\E w \in Workers : StampInvoice(w) \/ BookFirst(w) \/ EnterStatus(w)
    <2>1. invoices \subseteq invoices'
        BY <1>6, InvoicesGrow
    <2>2. QED
        BY <2>1 DEF Started
<1>7. QED
    BY <1>3, <1>4, <1>5, <1>6

(* Only the requests about charges touch the cycles. *)
LEMMA CyclesStay ==
    ASSUME InvoiceInv, NEW w \in Workers, BillFirst(w) \/ StampInvoice(w) \/ BookFirst(w)
    PROVE  Cycles' = Cycles
<1>1. BooksFit /\ Books
    BY DEF InvoiceInv, Data
<1>2. ASSUME NEW i \in invoices, NEW j, SameBill(i, j), IsStart(i), invoices' = (invoices \ {i}) \cup {j}
      PROVE  Cycles' = Cycles
    BY <1>2 DEF Cycles, SameBill, IsStart
<1>3. CASE StampInvoice(w)
    <2>1. ASSUME NEW i \in invoices, IsStart(i), invoices' = (invoices \ {i}) \cup {[i EXCEPT !.payment = about[w]]}
          PROVE  Cycles' = Cycles
        <3> DEFINE j == [i EXCEPT !.payment = about[w]]
        <3>1. SameBill(i, j)
            BY <1>1, <2>1 DEF Books, Invoice, SameBill
        <3> HIDE DEF j
        <3>2. invoices' = (invoices \ {i}) \cup {j}
            BY <2>1 DEF j
        <3>3. QED
            BY <1>2, <2>1, <3>1, <3>2
    <2>2. QED
        BY <1>3, <2>1, StampEffect DEF Cycles
<1>4. CASE BookFirst(w)
    <2>1. ASSUME NEW i \in invoices, IsStart(i),
                 invoices' = (invoices \ {i}) \cup {[i EXCEPT !.payment = on[w], !.status = saw[w]]}
          PROVE  Cycles' = Cycles
        <3> DEFINE j == [i EXCEPT !.payment = on[w], !.status = saw[w]]
        <3>1. SameBill(i, j)
            BY <1>1, <2>1 DEF Books, Invoice, SameBill
        <3> HIDE DEF j
        <3>2. invoices' = (invoices \ {i}) \cup {j}
            BY <2>1 DEF j
        <3>3. QED
            BY <1>2, <2>1, <3>1, <3>2
    <2>2. QED
        BY <1>4, <2>1, BookEffect DEF Cycles
<1>5. CASE BillFirst(w)
    <2> DEFINE j == [kind |-> "start", key |-> about[w], row |-> about[w], payment |-> None,
                     status |-> "open", end |-> end[about[w]]]
    <2>1. invoices' = invoices \cup {j}
        BY <1>5 DEF BillFirst
    <2>2. IsStart(j)
        BY DEF IsStart
    <2> HIDE DEF j
    <2>3. QED
        BY <2>1, <2>2 DEF Cycles
<1>6. QED
    BY <1>3, <1>4, <1>5

(* Where a paid cycle of the row is, when a request is about to write another. *)
LEMMA PaidBefore ==
    ASSUME PeriodInv, Tidy, NEW w \in Workers, pc[w] \in Recurring \ {"renew"}, NEW i \in Cycles, i.status = "paid",
           i.row = about[w]
    PROVE  i.end <= end[about[w]]
<1>1. SUFFICES ASSUME Renewing(i.payment)
               PROVE  FALSE
    BY DEF PeriodInv, PeriodsFit
<1>2. PICK v \in Workers : pc[v] = "renew" /\ on[v] = i.payment
    BY <1>1 DEF Renewing
<1>3. i.row = about[v]
    BY <1>2, CycleRow DEF PeriodInv, BookedInv, Recurring
<1>4. QED
    BY <1>2, <1>3 DEF PeriodInv, Serial, Tidy, Recurring

(* A row whose first payment is taken for a renewal has no cycles. *)
LEMMA NoCycles ==
    ASSUME PeriodInv, NEW w \in Workers, pc[w] \in {"enter", "renew"}, old[w] # None, IsStart(old[w]), NEW i \in Cycles
    PROVE  i.row # about[w]
<1>1. Books /\ BooksFit /\ EntryFits(w) /\ Knows(w) /\ RequestFits(w) /\ ChargesFit
    BY DEF PeriodInv, BookedInv, InvoiceInv, CoreInv, PlanInv, Data, EntriesFit, RequestsKnow, RequestsFit
<1>2. PICK s \in invoices : SameBill(s, old[w]) /\ s.payment = on[w]
    BY <1>1 DEF EntryFits
<1>3. IsStart(s)
    BY <1>2 DEF SameBill, IsStart
<1>4. on[w] \in Payments /\ about[w] \in Paid /\ IsFor(on[w], about[w]) /\ on[w] # None
    BY <1>1, NoneAssumption DEF Knows, RequestFits, Recurring, Payments
<1>5. on[w] \in Paid
    BY <1>1, <1>2, <1>3, <1>4 DEF BooksFit
<1>6. on[w] = about[w] /\ \A c \in Charges : chargeOf[c] # about[w]
    BY <1>1, <1>4, <1>5, NamesAssumption DEF IsFor, ChargesFit, Recurring
<1>7. IsFor(i.payment, i.row) /\ (s.payment = i.payment => s = i) /\ ~IsStart(i)
    BY <1>1, CycleFits DEF Cycles
<1>8. QED
    BY <1>2, <1>3, <1>6, <1>7 DEF IsFor

(* When a request has written a paid cycle, nothing else of the row is still to be paid. *)
LEMMA NothingElse ==
    ASSUME PeriodInv, Tidy, NEW w \in Workers, pc[w] = "renew", BecamePaid(w),
           NEW i \in Cycles, i.row = about[w], i.payment # on[w], i.status # "paid", pay[i.key] # "failed"
    PROVE  FALSE
<1> USE NamesAssumption
<1>1. /\ Types /\ Books /\ BooksFit /\ Knows(w) /\ RequestFits(w) /\ ChargesFit /\ FirstsBooked /\ RenewalKnows(w)
      /\ AnswersFit /\ Fresh
    BY DEF PeriodInv, BookedInv, InvoiceInv, CoreInv, PlanInv, Data, RequestsKnow, RequestsFit, RenewalsFit, Tidy, Fresh
<1>2. on[w] \in Payments /\ about[w] \in Paid /\ IsFor(on[w], about[w])
    BY <1>1 DEF Knows, RequestFits, Recurring
<1>3. /\ i.key = i.payment /\ i.payment \in Payments /\ IsFor(i.payment, about[w]) /\ pay[i.payment] # None
      /\ \A j \in invoices : j.payment = i.payment => j = i
    BY <1>1, CycleFits
<1>4. CASE on[w] \in Paid
    <2>1. on[w] = about[w] /\ \A c \in Charges : chargeOf[c] # about[w]
        BY <1>1, <1>2, <1>4 DEF IsFor, ChargesFit, Recurring
    <2>2. QED
        BY <1>3, <2>1 DEF IsFor
<1>5. CASE on[w] \in Charges
    <2>1. on[w] \in due /\ chargeOf[on[w]] = about[w] /\ about[w] # None
        BY <1>1, <1>2, <1>5, NoneAssumption DEF RenewalKnows, IsFor
    <2>2. CASE i.payment \in Charges
        <3>1. chargeOf[i.payment] = about[w]
            BY <1>2, <1>3, <2>2 DEF IsFor
        <3>2. Settled(i.payment)
            BY <1>1, <1>5, <2>1, <2>2, <3>1 DEF ChargesFit, Settled
        <3>3. pay[i.payment] = "paid"
            BY <1>1, <1>3, <3>2 DEF Types, Settled, PaymentStatus
        <3>4. PICK j \in invoices : j.payment = i.payment /\ j.status = "paid"
            BY <1>1, <1>3, <3>2, <3>3 DEF AnswersFit, Settled, Booked
        <3>5. QED
            BY <1>3, <3>4
    <2>3. CASE i.payment = about[w]
        <3>1. about[w] \in Started
            BY <1>1, <1>5, <2>1 DEF FirstsBooked
        <3>2. PICK s \in invoices : IsStart(s) /\ s.payment = about[w]
            BY <3>1 DEF Started
        <3>3. QED
            BY <1>3, <2>3, <3>2 DEF Cycles
    <2>4. QED
        BY <1>3, <2>2, <2>3 DEF IsFor
<1>6. QED
    BY <1>2, <1>4, <1>5 DEF Payments

(* A request that looks for the invoice of a payment knows what it finds. *)
LEMMA LookKeeps ==
    ASSUME PeriodInv, Tidy, NEW w \in Workers, LookForInvoice(w)
    PROVE  RenewalKnows(w)'
<1>1. /\ pc[w] = "look" /\ pc'[w] = "enter" /\ UNCHANGED <<on, about, saw, until, end, due, invoices>>
      /\ Cycles' = Cycles
    BY DEF LookForInvoice, PeriodInv, BookedInv, InvoiceInv, CoreInv, PlanInv, Types, rowVars, mollieVars, Cycles
<1>2. /\ Types /\ Books /\ BooksFit /\ Knows(w) /\ AnswersFit /\ Fresh /\ RenewalKnows(w)
    BY DEF PeriodInv, BookedInv, InvoiceInv, CoreInv, PlanInv, Data, RequestsKnow, RenewalsFit, Tidy, Fresh
<1>3. on[w] \in Payments /\ on[w] # None /\ (saw[w] = "paid" => pay[on[w]] = "paid")
    BY <1>1, <1>2, NoneAssumption DEF Knows, Recurring, Payments
<1>4. CASE InvoicesOf(on[w]) = {}
    <2>1. old'[w] = None
        BY <1>2, <1>4 DEF LookForInvoice, Books
    <2>2. saw[w] = "paid" => on[w] \in due
        BY <1>2, <1>3, <1>4 DEF AnswersFit, Booked, InvoicesOf
    <2>3. QED
        BY <1>1, <1>2, <2>1, <2>2 DEF RenewalKnows, BecamePaid, Recurring
<1>5. CASE InvoicesOf(on[w]) # {}
    <2>1. old'[w] \in invoices /\ old'[w].payment = on[w]
        BY <1>2, <1>5 DEF LookForInvoice, InvoicesOf, Books
    <2>2. saw[w] = "paid" /\ old'[w].status # "paid" => on[w] \in due
        <3>1. SUFFICES ASSUME saw[w] = "paid", old'[w].status # "paid", on[w] \notin due
                       PROVE  FALSE
            OBVIOUS
        <3>2. PICK i \in invoices : i.payment = on[w] /\ i.status = "paid"
            BY <1>2, <1>3, <3>1 DEF AnswersFit, Booked
        <3>3. i = old'[w]
            BY <1>2, <1>3, <2>1, <3>2 DEF BooksFit
        <3>4. QED
            BY <3>1, <3>2, <3>3
    <2>3. ~IsStart(old'[w]) => old'[w] \in Cycles
        BY <2>1 DEF Cycles
    <2>4. saw[w] = "paid" /\ old'[w].status # "paid" /\ old'[w] \in Cycles => old'[w].end = end[about[w]] + 1
        <3>1. SUFFICES ASSUME saw[w] = "paid", old'[w].status # "paid", old'[w] \in Cycles
                       PROVE  old'[w].end = end[about[w]] + 1
            OBVIOUS
        <3>2. old'[w].key = on[w]
            BY <1>2, <2>1, <3>1, CycleFits
        <3>3. old'[w].row = about[w]
            BY <1>1, <2>1, <3>1, CycleRow DEF PeriodInv, BookedInv, Recurring
        <3>4. QED
            BY <1>3, <3>1, <3>2, <3>3 DEF PeriodInv, PeriodsFit
    <2>5. until'[w] = end'[about'[w]]
        BY <1>1, <1>2 DEF RenewalKnows, Recurring
    <2>6. BecamePaid(w)' => saw[w] = "paid" /\ (old'[w] = None \/ old'[w].status # "paid")
        BY <1>1 DEF BecamePaid
    <2>7. BecamePaid(w)' => /\ on[w] \in due
                            /\ (~IsStart(old'[w]) => old'[w].end = end[about[w]] + 1)
        BY <1>2, <2>1, <2>2, <2>3, <2>4, <2>6, NotAnInvoice DEF Books
    <2>8. QED
        BY <1>1, <2>3, <2>5, <2>7 DEF RenewalKnows, IsStart
<1>6. QED
    BY <1>4, <1>5

(* What a renewal has read and written stays, if its row, invoice and period do. *)
LEMMA KnowsStays ==
    ASSUME PeriodInv, Tidy, NEW v \in Workers, UNCHANGED <<pc[v], on[v], about[v], saw[v], until[v], old[v]>>,
           pc[v] \in Recurring => UNCHANGED end[about[v]],
           pc[v] \in Recurring /\ on[v] \in due \cap Charges => on[v] \in due',
           pc[v] \in Recurring => \A i \in Cycles : i.payment = on[v] => i \in Cycles'
    PROVE  RenewalKnows(v)'
<1>1. RenewalKnows(v) /\ EntryFits(v) /\ UNCHANGED BecamePaid(v)
    BY DEF PeriodInv, BookedInv, InvoiceInv, EntriesFit, RenewalsFit, BecamePaid
<1>2. /\ (pc[v] \in Recurring => until[v] = end[about[v]])'
      /\ (pc[v] = "enter" /\ old[v] # None /\ ~IsStart(old[v]) => old[v] \in Cycles)'
    BY <1>1 DEF RenewalKnows, EntryFits, Recurring
<1>3. (pc[v] = "renew" /\ (old[v] = None \/ ~IsStart(old[v])) =>
           \E i \in Cycles : /\ i.payment = on[v] /\ i.status = saw[v]
                             /\ i.end = IF old[v] = None THEN until[v] + 1 ELSE old[v].end)'
    BY <1>1 DEF RenewalKnows, Recurring
<1>4. (pc[v] \in {"enter", "renew"} /\ BecamePaid(v) =>
           /\ on[v] \in Charges => on[v] \in due
           /\ old[v] # None /\ ~IsStart(old[v]) => old[v].end = end[about[v]] + 1)'
    BY <1>1 DEF RenewalKnows, Recurring
<1>5. QED
    BY <1>2, <1>3, <1>4 DEF RenewalKnows

(* Two requests about charges have nothing in common. *)
LEMMA Apart ==
    ASSUME PeriodInv, Tidy, NEW v \in Workers, NEW w \in Workers, v # w, pc[v] \in Recurring, pc[w] \in Recurring
    PROVE  /\ about[v] \in Paid /\ about[w] \in Paid /\ about[v] # about[w] /\ on[v] # on[w]
           /\ \A i \in Cycles : i.payment = on[v] => i.row = about[v] /\ i.payment # on[w]
<1>1. Knows(v) /\ Knows(w) /\ RequestFits(v) /\ RequestFits(w) /\ InvoiceInv
    BY DEF PeriodInv, BookedInv, InvoiceInv, CoreInv, PlanInv, RequestsKnow, RequestsFit
<1>2. /\ about[v] \in Paid /\ about[w] \in Paid /\ on[v] \in Payments
      /\ IsFor(on[v], about[v]) /\ IsFor(on[w], about[w])
    BY <1>1 DEF Knows, RequestFits
<1>3. about[v] # about[w]
    BY DEF PeriodInv, Serial, Tidy
<1>4. on[v] # on[w]
    BY <1>2, <1>3, OneRow
<1>5. QED
    BY <1>1, <1>2, <1>3, <1>4, CycleRow

LEMMA EnterNewKeeps ==
    ASSUME PeriodInv, Tidy, NEW w \in Workers, EnterNew(w)
    PROVE  RenewalsFit' /\ PeriodsFit'
<1>0. PICK j : j = [kind |-> "cycle", key |-> on[w], row |-> about[w], payment |-> on[w],
                    status |-> saw[w], end |-> until[w] + 1]
    OBVIOUS
<1>1. /\ pc[w] = "enter" /\ old[w] = None /\ UNCHANGED <<end, due, pay>>
      /\ \/ Rest(w) /\ UNCHANGED invoices
         \/ Goto(w, "renew") /\ invoices' = invoices \cup {j}
    BY <1>0 DEF EnterNew, rowVars, mollieVars
<1>2. j.row = about[w] /\ j.payment = on[w] /\ j.key = on[w] /\ j.status = saw[w] /\ j.end = until[w] + 1 /\ ~IsStart(j)
    BY <1>0 DEF IsStart
<1>3. /\ Types /\ Books /\ RenewalKnows(w) /\ PeriodsFit /\ until[w] = end[about[w]] /\ until[w] \in Nat
      /\ pc[w] \in Recurring
    BY <1>1 DEF PeriodInv, BookedInv, InvoiceInv, CoreInv, PlanInv, Data, RenewalsFit, Books, RenewalKnows, Recurring
<1>4. \A v \in Workers \ {w} : UNCHANGED <<pc[v], on[v], about[v], saw[v], until[v], old[v]>>
    BY <1>1, <1>3 DEF Rest, Goto, Types, Books
<1>5. Cycles \subseteq Cycles'
    BY <1>1 DEF Cycles
<1>6. \A v \in Workers \ {w} : RenewalKnows(v)'
    BY <1>1, <1>4, <1>5, KnowsStays
<1>7. \A p : Renewing(p) => Renewing(p)'
    <2>1. ASSUME NEW p, NEW v \in Workers, pc[v] = "renew" /\ on[v] = p /\ BecamePaid(v)
          PROVE  pc'[v] = "renew" /\ on'[v] = p /\ BecamePaid(v)'
        BY <1>1, <1>4, <2>1 DEF BecamePaid
    <2>2. QED
        BY <2>1 DEF Renewing
<1>8. CASE Rest(w) /\ UNCHANGED invoices
    <2>1. RenewalKnows(w)'
        BY <1>3, <1>8 DEF Rest, Types, RenewalKnows, Recurring
    <2>2. RenewalsFit'
        BY <1>6, <2>1 DEF RenewalsFit
    <2>3. PeriodsFit'
        BY <1>1, <1>3, <1>7, <1>8 DEF PeriodsFit, Cycles
    <2>4. QED
        BY <2>2, <2>3
<1>9. CASE Goto(w, "renew") /\ invoices' = invoices \cup {j}
    <2>1. /\ pc'[w] = "renew" /\ UNCHANGED <<on, about, saw, until, old>> /\ Cycles' = Cycles \cup {j}
          /\ BecamePaid(w)' = BecamePaid(w)
        BY <1>2, <1>3, <1>9 DEF Goto, Types, Cycles, BecamePaid
    <2>2. RenewalKnows(w)'
        BY <1>1, <1>2, <1>3, <2>1 DEF RenewalKnows
    <2>3. RenewalsFit'
        BY <1>6, <2>2 DEF RenewalsFit
    <2>4. (\A i \in Cycles : i.status # "paid" /\ pay[i.key] # "failed" => i.end = end[i.row] + 1)'
        BY <1>1, <1>2, <1>3, <2>1 DEF PeriodsFit
    <2>5. (\A i \in Cycles : i.status = "paid" => i.end <= end[i.row] \/ Renewing(i.payment))'
        <3>1. j.status = "paid" => Renewing(j.payment)'
            BY <1>1, <1>2, <2>1 DEF Renewing, BecamePaid
        <3>2. QED
            BY <1>1, <1>3, <1>7, <2>1, <3>1 DEF PeriodsFit
    <2>6. ASSUME NEW i \in Cycles, i.status = "paid", i.row = j.row
          PROVE  i.end # j.end
        <3>1. i.end <= end[about[w]] /\ i.end \in Nat
            BY <1>1, <1>2, <1>3, <2>6, PaidBefore DEF Cycles, Books, Invoice
        <3>2. QED
            BY <1>2, <1>3, <3>1
    <2>7. (\A i, k \in Cycles : i.status = "paid" /\ k.status = "paid" /\ i.row = k.row /\ i.end = k.end => i = k)'
        BY <1>3, <2>1, <2>6 DEF PeriodsFit
    <2>8. QED
        BY <2>3, <2>4, <2>5, <2>7 DEF PeriodsFit
<1>10. QED
    BY <1>1, <1>8, <1>9

LEMMA EnterStatusKeeps ==
    ASSUME PeriodInv, Tidy, NEW w \in Workers, EnterStatus(w)
    PROVE  RenewalsFit' /\ PeriodsFit'
<1>1. /\ pc[w] = "enter" /\ old[w] # None /\ UNCHANGED <<end, due, pay>> /\ Goto(w, "renew")
    BY DEF EnterStatus, rowVars, mollieVars
<1>2. /\ InvoiceInv /\ Types /\ Books /\ BooksFit /\ RenewalKnows(w) /\ PeriodsFit /\ until[w] = end[about[w]]
      /\ pc[w] \in Recurring /\ EntryFits(w) /\ SeenFit /\ Fresh /\ on[w] # None
    BY <1>1, NoneAssumption
    DEF PeriodInv, BookedInv, InvoiceInv, CoreInv, PlanInv, Data, RenewalsFit, RenewalKnows, Recurring, EntriesFit,
        RequestsKnow, Knows, Fresh, Tidy, Payments
<1>3. /\ pc'[w] = "renew" /\ UNCHANGED <<on, about, saw, until, old>>
      /\ \A v \in Workers : UNCHANGED BecamePaid(v)
      /\ \A v \in Workers \ {w} : pc'[v] = pc[v]
    BY <1>1, <1>2 DEF Goto, Types, BecamePaid
<1>4. PICK i \in invoices : /\ SameBill(i, old[w]) /\ i.payment = on[w]
                            /\ \/ invoices' = invoices /\ old[w].status = saw[w]
                               \/ /\ invoices' = (invoices \ {i}) \cup {[i EXCEPT !.status = saw[w]]}
                                  /\ old[w].status # saw[w]
    BY <1>2, EnterEffect
<1>0. PICK j : j = [i EXCEPT !.status = saw[w]]
    OBVIOUS
<1>5. SameBill(i, j) /\ j.payment = i.payment /\ j.status = saw[w] /\ j.row = i.row /\ j.end = i.end /\ j.key = i.key
    BY <1>0, <1>2 DEF Books, Invoice, SameBill
<1>6. invoices' = invoices \/ invoices' = (invoices \ {i}) \cup {j}
    BY <1>0, <1>4
<1>7. \A k \in Cycles : k.payment # on[w] => k \in Cycles'
    BY <1>4, <1>6 DEF Cycles
<1>8. \A v \in Workers \ {w} : RenewalKnows(v)'
    <2> TAKE v \in Workers \ {w}
    <2>1. pc[v] \in Recurring => \A k \in Cycles : k.payment = on[v] => k \in Cycles'
        BY <1>2, <1>7, Apart
    <2>2. QED
        BY <1>1, <1>3, <2>1, KnowsStays
<1>9. \A p : Renewing(p) => Renewing(p)'
    <2>1. ASSUME NEW p, NEW v \in Workers, pc[v] = "renew" /\ on[v] = p /\ BecamePaid(v)
          PROVE  pc'[v] = "renew" /\ on'[v] = p /\ BecamePaid(v)'
        BY <1>1, <1>3, <2>1
    <2>2. QED
        BY <2>1 DEF Renewing
<1>10. old[w].payment = on[w]
    BY <1>1, <1>2 DEF EntryFits
<1>11. CASE IsStart(old[w]) \/ invoices' = invoices
    <2>1. Cycles' = Cycles
        <3>1. IsStart(old[w]) => IsStart(i) /\ IsStart(j)
            BY <1>4, <1>5 DEF SameBill, IsStart
        <3>2. QED
            BY <1>6, <1>11, <3>1 DEF Cycles
    <2>2. ~IsStart(old[w]) => old[w].status = saw[w] /\ old[w] \in Cycles
        <3>1. ASSUME ~IsStart(old[w])
              PROVE  old[w] \in Cycles
            BY <1>1, <1>2, <3>1 DEF RenewalKnows
        <3>2. ASSUME ~IsStart(old[w]), old[w].status # saw[w]
              PROVE  FALSE
            <4>1. i = old[w] /\ j \in invoices'
                BY <1>0, <1>2, <1>4, <1>10, <3>1, <3>2 DEF BooksFit, Cycles
            <4>2. j \in invoices /\ j = i
                BY <1>2, <1>5, <1>11, <3>2, <4>1 DEF BooksFit, SameBill
            <4>3. QED
                BY <1>5, <3>2, <4>1, <4>2
        <3>3. QED
            BY <3>1, <3>2
    <2>3. RenewalKnows(w)'
        BY <1>1, <1>2, <1>3, <1>10, <2>1, <2>2 DEF RenewalKnows
    <2>4. RenewalsFit'
        BY <1>8, <2>3 DEF RenewalsFit
    <2>5. PeriodsFit'
        BY <1>1, <1>2, <1>9, <2>1 DEF PeriodsFit
    <2>6. QED
        BY <2>4, <2>5
<1>12. CASE ~IsStart(old[w]) /\ invoices' # invoices
    <2>1. i = old[w] /\ i \in Cycles /\ old[w].status # saw[w]
        BY <1>1, <1>2, <1>4, <1>10, <1>12 DEF RenewalKnows, BooksFit, Cycles
    <2>2. Cycles' = (Cycles \ {i}) \cup {j}
        BY <1>5, <1>6, <1>12, <2>1 DEF Cycles, IsStart, SameBill
    <2>3. i.row = about[w]
        BY <1>2, <1>4, <2>1, CycleRow
    <2>4. RenewalKnows(w)'
        BY <1>1, <1>2, <1>3, <1>4, <1>5, <2>1, <2>2 DEF RenewalKnows
    <2>5. RenewalsFit'
        BY <1>8, <2>4 DEF RenewalsFit
    <2>6. (\A k \in Cycles : k.status # "paid" /\ pay[k.key] # "failed" => k.end = end[k.row] + 1)'
        <3>1. j.status # "paid" /\ pay[j.key] # "failed" => j.end = end[j.row] + 1
            <4>1. saw[w] = pay[on[w]] /\ i.key = i.payment /\ (i.status = "paid" => pay[i.payment] = "paid")
                BY <1>2, <2>1, CycleFits DEF SeenFit
            <4>2. QED
                BY <1>2, <1>4, <1>5, <2>1, <4>1 DEF PeriodsFit
        <3>2. QED
            BY <1>1, <1>2, <2>2, <3>1 DEF PeriodsFit
    <2>7. (\A k \in Cycles : k.status = "paid" => k.end <= end[k.row] \/ Renewing(k.payment))'
        <3>1. j.status = "paid" => Renewing(j.payment)'
            BY <1>3, <1>4, <1>5, <2>1 DEF Renewing, BecamePaid
        <3>2. QED
            BY <1>1, <1>2, <1>9, <2>2, <3>1 DEF PeriodsFit
    <2>8. ASSUME NEW k \in Cycles, j.status = "paid", k.status = "paid", k.row = j.row
          PROVE  k.end # j.end
        <3>1. k.end <= end[about[w]] /\ k.end \in Nat /\ end[about[w]] \in Nat
            <4>1. k.end \in Nat /\ until[w] \in Nat
                BY <1>2 DEF Cycles, Books, Invoice
            <4>2. k.end <= end[about[w]]
                BY <1>1, <1>2, <1>5, <2>3, <2>8, PaidBefore
            <4>3. QED
                BY <1>2, <4>1, <4>2
        <3>2. j.end = end[about[w]] + 1
            BY <1>1, <1>2, <1>5, <1>12, <2>1, <2>8 DEF RenewalKnows, BecamePaid
        <3>3. QED
            BY <3>1, <3>2
    <2>9. (\A h, k \in Cycles : h.status = "paid" /\ k.status = "paid" /\ h.row = k.row /\ h.end = k.end => h = k)'
        BY <1>2, <2>2, <2>8 DEF PeriodsFit
    <2>10. QED
        BY <2>5, <2>6, <2>7, <2>9 DEF PeriodsFit
<1>13. QED
    BY <1>11, <1>12

LEMMA RenewKeeps ==
    ASSUME PeriodInv, Tidy, NEW w \in Workers, Renew(w)
    PROVE  RenewalsFit' /\ PeriodsFit'
<1> DEFINE period == IF old[w] = None THEN until[w] + 1 ELSE old[w].end
<1>1. /\ pc[w] = "renew" /\ UNCHANGED <<invoices, pay>> /\ Rest(w)
      /\ end' = (IF BecamePaid(w) THEN [end EXCEPT ![about[w]] = period] ELSE end)
      /\ due' = (IF saw[w] = pay[on[w]] THEN due \ {on[w]} ELSE due)
    BY DEF Renew, Answer
<1>2. /\ InvoiceInv /\ Types /\ Books /\ BooksFit /\ RenewalKnows(w) /\ PeriodsFit /\ until[w] = end[about[w]]
      /\ pc[w] \in Recurring /\ about[w] \in Rows /\ until[w] \in Nat
    BY <1>1
    DEF PeriodInv, BookedInv, InvoiceInv, CoreInv, PlanInv, Data, RenewalsFit, RenewalKnows, Recurring,
        RequestsKnow, Knows, Rows, Books
<1>3. Cycles' = Cycles
    BY <1>1 DEF Cycles
<1>4. /\ pc'[w] = "idle"
      /\ \A v \in Workers \ {w} : UNCHANGED <<pc[v], on[v], about[v], saw[v], until[v], old[v]>>
    BY <1>1, <1>2 DEF Rest, Types, Books
<1>5. \A r \in Rows : r # about[w] => end'[r] = end[r]
    BY <1>1, <1>2 DEF Books
<1>6. \A v \in Workers \ {w} : RenewalKnows(v)'
    <2> TAKE v \in Workers \ {w}
    <2>1. pc[v] \in Recurring => about[v] \in Rows /\ about[v] # about[w] /\ on[v] # on[w]
        BY <1>2, Apart DEF Rows
    <2>2. QED
        BY <1>1, <1>3, <1>4, <1>5, <2>1, KnowsStays
<1>7. RenewalsFit'
    BY <1>4, <1>6 DEF RenewalsFit, RenewalKnows, Recurring
<1>8. \A p : Renewing(p) => Renewing(p)' \/ (p = on[w] /\ BecamePaid(w))
    <2>1. ASSUME NEW p, NEW v \in Workers \ {w}, pc[v] = "renew" /\ on[v] = p /\ BecamePaid(v)
          PROVE  pc'[v] = "renew" /\ on'[v] = p /\ BecamePaid(v)'
        BY <1>4, <2>1 DEF BecamePaid
    <2>2. QED
        BY <2>1 DEF Renewing
<1>9. ASSUME NEW i \in Cycles, i.row = about[w], BecamePaid(w)
      PROVE  /\ end'[about[w]] = period /\ period = end[about[w]] + 1
             /\ \E k \in Cycles : k.payment = on[w] /\ k.status = "paid" /\ k.end = period
    <2>1. old[w] = None \/ ~IsStart(old[w])
        BY <1>1, <1>9, NoCycles
    <2>2. period = end[about[w]] + 1
        BY <1>1, <1>2, <1>9, <2>1 DEF RenewalKnows
    <2>3. end'[about[w]] = period
        BY <1>1, <1>2, <1>9 DEF Books
    <2>4. QED
        BY <1>1, <1>2, <1>9, <2>1, <2>2, <2>3 DEF RenewalKnows, BecamePaid
<1>10. ASSUME NEW i \in Cycles
       PROVE  i.row \in Rows /\ i.end \in Nat /\ end[i.row] \in Nat
    BY <1>2 DEF Cycles, Books, Invoice
<1>11. ASSUME NEW i \in Cycles, i.status # "paid", pay[i.key] # "failed"
       PROVE  i.end = end'[i.row] + 1
    <2>1. i.end = end[i.row] + 1
        BY <1>2, <1>11 DEF PeriodsFit
    <2>2. CASE i.row # about[w] \/ ~BecamePaid(w)
        BY <1>1, <1>5, <1>10, <2>1, <2>2
    <2>3. CASE i.row = about[w] /\ BecamePaid(w)
        <3>1. PICK k \in Cycles : k.payment = on[w] /\ k.status = "paid"
            BY <1>9, <2>3
        <3>2. i.payment # on[w]
            BY <1>2, <1>11, <3>1, CycleFits DEF Cycles
        <3>3. QED
            BY <1>1, <1>11, <2>3, <3>2, NothingElse
    <2>4. QED
        BY <2>2, <2>3
<1>12. ASSUME NEW i \in Cycles, i.status = "paid"
       PROVE  i.end <= end'[i.row] \/ Renewing(i.payment)'
    <2>1. i.end <= end[i.row] \/ Renewing(i.payment)
        BY <1>2, <1>12 DEF PeriodsFit
    <2>2. CASE i.end <= end[i.row]
        BY <1>1, <1>5, <1>9, <1>10, <2>2
    <2>3. CASE i.payment = on[w] /\ BecamePaid(w)
        <3>1. i.row = about[w]
            BY <1>2, <2>3, CycleRow
        <3>2. PICK k \in Cycles : k.payment = on[w] /\ k.end = period /\ end'[about[w]] = period
            BY <1>9, <2>3, <3>1
        <3>3. k = i
            BY <1>2, <2>3, <3>2, CycleFits DEF Cycles
        <3>4. QED
            BY <1>10, <3>1, <3>2, <3>3
    <2>4. QED
        BY <1>8, <2>1, <2>2, <2>3
<1>13. PeriodsFit'
    BY <1>1, <1>2, <1>3, <1>11, <1>12 DEF PeriodsFit
<1>14. QED
    BY <1>7, <1>13

(* Every step keeps that. *)
LEMMA NextPeriods ==
    PeriodInv /\ BookedInv' /\ Next => FirstsBooked' /\ ChargesFit' /\ Serial' /\ RenewalsFit' /\ PeriodsFit'
<1> SUFFICES ASSUME PeriodInv /\ BookedInv', Next
             PROVE  FirstsBooked' /\ ChargesFit' /\ Serial' /\ RenewalsFit' /\ PeriodsFit'
    OBVIOUS
<1> USE StatusAssumption, NumbersAssumption, PlanOfAssumption, RegisteredAssumption, NamesAssumption,
        NoneAssumption
    DEF Happens, rowVars, mollieVars, workVars, historyVars, Payments, Rows
<1>0. /\ PeriodInv /\ InvoiceInv /\ Types /\ RequestsKnow /\ PaymentsFit /\ RowsFit /\ RequestsFit /\ Books /\ BooksFit
      /\ FirstsBooked /\ ChargesFit /\ Serial /\ RenewalsFit /\ PeriodsFit
      /\ (Tidy' => Tidy /\ Fresh /\ Fresh') /\ slips \subseteq slips'
      /\ Started \subseteq Started'
    BY TidyBefore, SlipsStay, StartedStay DEF PeriodInv, BookedInv, InvoiceInv, CoreInv, PlanInv, Data
<1>1. ASSUME NEW w \in Workers, NEW r \in Paid, Checkout(w, r)
      PROVE  FirstsBooked' /\ ChargesFit' /\ Serial' /\ RenewalsFit' /\ PeriodsFit'
    <2>1. Cycles' = Cycles
        BY <1>1 DEF Checkout, Cycles
    <2>2. FirstsBooked'
        BY <1>0, <1>1, <2>1
        DEF Checkout, Takes, Unused, Types, FirstsBooked, First, Knows, RequestsKnow, RowsFit, RequestsFit,
            RequestFits, PaymentsFit, IsFor, PaymentStatus
    <2>3. ChargesFit'
        BY <1>0, <1>1, <2>1
        DEF Checkout, Takes, Unused, Types, ChargesFit, Settled, Recurring, RequestsKnow, Knows, PaymentsFit,
            IsFor, PaymentStatus
    <2>4. Serial'
        BY <1>0, <1>1, <2>1 DEF Checkout, Takes, Unused, Types, Serial, Recurring
    <2>5. RenewalsFit'
        BY <1>0, <1>1, <2>1
        DEF Checkout, Takes, Unused, Types, Books, RenewalsFit, RenewalKnows, BecamePaid, IsStart, Recurring,
            First, Knows, RequestsKnow
    <2>6. PeriodsFit'
        BY <1>0, <1>1, <2>1 DEF Checkout, Takes, Unused, Types, Books, PeriodsFit, Renewing, BecamePaid
    <2>7. QED
        BY <2>2, <2>3, <2>4, <2>5, <2>6
<1>2. ASSUME NEW w \in Workers, NEW f \in Free, Downgrade(w, f)
      PROVE  FirstsBooked' /\ ChargesFit' /\ Serial' /\ RenewalsFit' /\ PeriodsFit'
    <2>1. Cycles' = Cycles
        BY <1>2 DEF Downgrade, Cycles
    <2>2. FirstsBooked'
        BY <1>0, <1>2, <2>1
        DEF Downgrade, Takes, Unused, Overlap, Types, FirstsBooked, First, Knows, RequestsKnow, RowsFit,
            RequestsFit, RequestFits, PaymentsFit, IsFor, PaymentStatus
    <2>3. ChargesFit'
        BY <1>0, <1>2, <2>1
        DEF Downgrade, Takes, Unused, Overlap, Types, ChargesFit, Settled, Recurring, RequestsKnow, Knows,
            PaymentsFit, IsFor, PaymentStatus
    <2>4. Serial'
        BY <1>0, <1>2, <2>1 DEF Downgrade, Takes, Unused, Overlap, Types, Serial, Recurring
    <2>5. RenewalsFit'
        BY <1>0, <1>2, <2>1
        DEF Downgrade, Takes, Unused, Overlap, Types, Books, RenewalsFit, RenewalKnows, BecamePaid, IsStart,
            Recurring, First, Knows, RequestsKnow
    <2>6. PeriodsFit'
        BY <1>0, <1>2, <2>1
        DEF Downgrade, Takes, Unused, Overlap, Types, Books, PeriodsFit, Renewing, BecamePaid
    <2>7. QED
        BY <2>2, <2>3, <2>4, <2>5, <2>6
<1>3. ASSUME NEW w \in Workers, NEW p \in Payments, Deliver(w, p)
      PROVE  FirstsBooked' /\ ChargesFit' /\ Serial' /\ RenewalsFit' /\ PeriodsFit'
    <2>1. Cycles' = Cycles
        BY <1>3 DEF Deliver, Receive, Cycles
    <2>2. FirstsBooked'
        BY <1>0, <1>3, <2>1
        DEF Deliver, Receive, Takes, Types, FirstsBooked, First, Knows, RequestsKnow, RowsFit, RequestsFit,
            RequestFits, PaymentsFit, IsFor, PaymentStatus
    <2>3. ChargesFit'
        BY <1>0, <1>3, <2>1
        DEF Deliver, Receive, Takes, Types, ChargesFit, Settled, Recurring, RequestsKnow, Knows, PaymentsFit,
            IsFor, PaymentStatus
    <2>4. Serial'
        BY <1>0, <1>3, <2>1 DEF Deliver, Receive, Takes, Types, Serial, Recurring
    <2>5. RenewalsFit'
        BY <1>0, <1>3, <2>1
        DEF Deliver, Receive, Takes, Types, Books, RenewalsFit, RenewalKnows, BecamePaid, IsStart, Recurring,
            First, Knows, RequestsKnow
    <2>6. PeriodsFit'
        BY <1>0, <1>3, <2>1 DEF Deliver, Receive, Takes, Types, Books, PeriodsFit, Renewing, BecamePaid
    <2>7. QED
        BY <2>2, <2>3, <2>4, <2>5, <2>6
<1>4. ASSUME NEW w \in Workers, NEW p \in Payments, Redeliver(w, p)
      PROVE  FirstsBooked' /\ ChargesFit' /\ Serial' /\ RenewalsFit' /\ PeriodsFit'
    <2>1. Cycles' = Cycles
        BY <1>4 DEF Redeliver, Receive, Cycles
    <2>2. FirstsBooked'
        BY <1>0, <1>4, <2>1
        DEF Redeliver, Receive, Takes, Types, FirstsBooked, First, Knows, RequestsKnow, RowsFit, RequestsFit,
            RequestFits, PaymentsFit, IsFor, PaymentStatus
    <2>3. ChargesFit'
        BY <1>0, <1>4, <2>1
        DEF Redeliver, Receive, Takes, Types, ChargesFit, Settled, Recurring, RequestsKnow, Knows, PaymentsFit,
            IsFor, PaymentStatus
    <2>4. Serial'
        BY <1>0, <1>4, <2>1 DEF Redeliver, Receive, Takes, Types, Serial, Recurring
    <2>5. RenewalsFit'
        BY <1>0, <1>4, <2>1
        DEF Redeliver, Receive, Takes, Types, Books, RenewalsFit, RenewalKnows, BecamePaid, IsStart, Recurring,
            First, Knows, RequestsKnow
    <2>6. PeriodsFit'
        BY <1>0, <1>4, <2>1 DEF Redeliver, Receive, Takes, Types, Books, PeriodsFit, Renewing, BecamePaid
    <2>7. QED
        BY <2>2, <2>3, <2>4, <2>5, <2>6
<1>5. ASSUME NEW w \in Workers, Reconcile(w)
      PROVE  FirstsBooked' /\ ChargesFit' /\ Serial' /\ RenewalsFit' /\ PeriodsFit'
    <2>1. Cycles' = Cycles
        BY <1>5 DEF Reconcile, Receive, Cycles
    <2>2. FirstsBooked'
        BY <1>0, <1>5, <2>1
        DEF Reconcile, Receive, Takes, Types, FirstsBooked, First, Knows, RequestsKnow, RowsFit, RequestsFit,
            RequestFits, PaymentsFit, IsFor, PaymentStatus
    <2>3. ChargesFit'
        BY <1>0, <1>5, <2>1
        DEF Reconcile, Receive, Takes, Types, ChargesFit, Settled, Recurring, RequestsKnow, Knows, PaymentsFit,
            IsFor, PaymentStatus
    <2>4. Serial'
        BY <1>0, <1>5, <2>1 DEF Reconcile, Receive, Takes, Types, Serial, Recurring
    <2>5. RenewalsFit'
        BY <1>0, <1>5, <2>1
        DEF Reconcile, Receive, Takes, Types, Books, RenewalsFit, RenewalKnows, BecamePaid, IsStart, Recurring,
            First, Knows, RequestsKnow
    <2>6. PeriodsFit'
        BY <1>0, <1>5, <2>1 DEF Reconcile, Receive, Takes, Types, Books, PeriodsFit, Renewing, BecamePaid
    <2>7. QED
        BY <2>2, <2>3, <2>4, <2>5, <2>6
<1>6. ASSUME NEW w \in Workers, DropPending(w)
      PROVE  FirstsBooked' /\ ChargesFit' /\ Serial' /\ RenewalsFit' /\ PeriodsFit'
    <2>1. Cycles' = Cycles
        BY <1>6 DEF DropPending, Cycles
    <2>2. FirstsBooked'
        BY <1>0, <1>6, <2>1
        DEF DropPending, SetStatus, Goto, Types, FirstsBooked, First, Knows, RequestsKnow, RowsFit,
            RequestsFit, RequestFits, PaymentsFit, IsFor, PaymentStatus
    <2>3. ChargesFit'
        BY <1>0, <1>6, <2>1
        DEF DropPending, SetStatus, Goto, Types, ChargesFit, Settled, Recurring, RequestsKnow, Knows,
            PaymentsFit, IsFor, PaymentStatus
    <2>4. Serial'
        BY <1>0, <1>6, <2>1 DEF DropPending, SetStatus, Goto, Types, Serial, Recurring
    <2>5. RenewalsFit'
        BY <1>0, <1>6, <2>1
        DEF DropPending, SetStatus, Goto, Types, Books, RenewalsFit, RenewalKnows, BecamePaid, IsStart,
            Recurring, First, Knows, RequestsKnow
    <2>6. PeriodsFit'
        BY <1>0, <1>6, <2>1 DEF DropPending, SetStatus, Goto, Types, Books, PeriodsFit, Renewing, BecamePaid
    <2>7. QED
        BY <2>2, <2>3, <2>4, <2>5, <2>6
<1>7. ASSUME NEW w \in Workers, OpenRow(w)
      PROVE  FirstsBooked' /\ ChargesFit' /\ Serial' /\ RenewalsFit' /\ PeriodsFit'
    <2>1. Cycles' = Cycles
        BY <1>7 DEF OpenRow, Cycles
    <2>2. FirstsBooked'
        BY <1>0, <1>7, <2>1
        DEF OpenRow, SetStatus, Goto, Types, FirstsBooked, First, Knows, RequestsKnow, RowsFit, RequestsFit,
            RequestFits, PaymentsFit, IsFor, PaymentStatus
    <2>3. ChargesFit'
        BY <1>0, <1>7, <2>1
        DEF OpenRow, SetStatus, Goto, Types, ChargesFit, Settled, Recurring, RequestsKnow, Knows, PaymentsFit,
            IsFor, PaymentStatus
    <2>4. Serial'
        BY <1>0, <1>7, <2>1 DEF OpenRow, SetStatus, Goto, Types, Serial, Recurring
    <2>5. RenewalsFit'
        BY <1>0, <1>7, <2>1
        DEF OpenRow, SetStatus, Goto, Types, Books, RenewalsFit, RenewalKnows, BecamePaid, IsStart, Recurring,
            First, Knows, RequestsKnow
    <2>6. PeriodsFit'
        BY <1>0, <1>7, <2>1 DEF OpenRow, SetStatus, Goto, Types, Books, PeriodsFit, Renewing, BecamePaid
    <2>7. QED
        BY <2>2, <2>3, <2>4, <2>5, <2>6
<1>8. ASSUME NEW w \in Workers, BillFirst(w)
      PROVE  FirstsBooked' /\ ChargesFit' /\ Serial' /\ RenewalsFit' /\ PeriodsFit'
    <2>1. Cycles' = Cycles
        BY <1>0, <1>8, CyclesStay
    <2>2. FirstsBooked'
        BY <1>0, <1>8, <2>1
        DEF BillFirst, Goto, Types, FirstsBooked, First, Knows, RequestsKnow, RowsFit, RequestsFit,
            RequestFits, PaymentsFit, IsFor, PaymentStatus
    <2>3. ChargesFit'
        BY <1>0, <1>8, <2>1
        DEF BillFirst, Goto, Types, ChargesFit, Settled, Recurring, RequestsKnow, Knows, PaymentsFit, IsFor,
            PaymentStatus
    <2>4. Serial'
        BY <1>0, <1>8, <2>1 DEF BillFirst, Goto, Types, Serial, Recurring
    <2>5. RenewalsFit'
        BY <1>0, <1>8, <2>1
        DEF BillFirst, Goto, Types, Books, RenewalsFit, RenewalKnows, BecamePaid, IsStart, Recurring, First,
            Knows, RequestsKnow
    <2>6. PeriodsFit'
        BY <1>0, <1>8, <2>1 DEF BillFirst, Goto, Types, Books, PeriodsFit, Renewing, BecamePaid
    <2>7. QED
        BY <2>2, <2>3, <2>4, <2>5, <2>6
<1>9. ASSUME NEW w \in Workers, Link(w)
      PROVE  FirstsBooked' /\ ChargesFit' /\ Serial' /\ RenewalsFit' /\ PeriodsFit'
    <2>1. Cycles' = Cycles
        BY <1>9 DEF Link, Cycles
    <2>2. \A i \in Cycles : pay'[i.key] = pay[i.key]
        <3>1. pay[about[w]] = None /\ pay' = [pay EXCEPT ![about[w]] = "open"]
            BY <1>0, <1>9 DEF Link, RequestsKnow, Knows
        <3>2. QED
            BY <1>0, <3>1, CycleFits DEF Types
    <2>3. FirstsBooked'
        BY <1>0, <1>9, <2>1, <2>2
        DEF Link, Goto, Types, FirstsBooked, First, Knows, RequestsKnow, RowsFit, RequestsFit, RequestFits,
            PaymentsFit, IsFor, PaymentStatus
    <2>4. ChargesFit'
        BY <1>0, <1>9, <2>1, <2>2
        DEF Link, Goto, Types, ChargesFit, Settled, Recurring, RequestsKnow, Knows, PaymentsFit, IsFor,
            PaymentStatus
    <2>5. Serial'
        BY <1>0, <1>9, <2>1, <2>2 DEF Link, Goto, Types, Serial, Recurring
    <2>6. RenewalsFit'
        BY <1>0, <1>9, <2>1, <2>2
        DEF Link, Goto, Types, Books, RenewalsFit, RenewalKnows, BecamePaid, IsStart, Recurring, First, Knows,
            RequestsKnow
    <2>7. PeriodsFit'
        BY <1>0, <1>9, <2>1, <2>2 DEF Link, Goto, Types, Books, PeriodsFit, Renewing, BecamePaid
    <2>8. QED
        BY <2>3, <2>4, <2>5, <2>6, <2>7
<1>10. ASSUME NEW w \in Workers, StoreLink(w)
      PROVE  FirstsBooked' /\ ChargesFit' /\ Serial' /\ RenewalsFit' /\ PeriodsFit'
    <2>1. Cycles' = Cycles
        BY <1>10 DEF StoreLink, Cycles
    <2>2. FirstsBooked'
        BY <1>0, <1>10, <2>1
        DEF StoreLink, Goto, Types, FirstsBooked, First, Knows, RequestsKnow, RowsFit, RequestsFit,
            RequestFits, PaymentsFit, IsFor, PaymentStatus
    <2>3. ChargesFit'
        BY <1>0, <1>10, <2>1
        DEF StoreLink, Goto, Types, ChargesFit, Settled, Recurring, RequestsKnow, Knows, PaymentsFit, IsFor,
            PaymentStatus
    <2>4. Serial'
        BY <1>0, <1>10, <2>1 DEF StoreLink, Goto, Types, Serial, Recurring
    <2>5. RenewalsFit'
        BY <1>0, <1>10, <2>1
        DEF StoreLink, Goto, Types, Books, RenewalsFit, RenewalKnows, BecamePaid, IsStart, Recurring, First,
            Knows, RequestsKnow
    <2>6. PeriodsFit'
        BY <1>0, <1>10, <2>1 DEF StoreLink, Goto, Types, Books, PeriodsFit, Renewing, BecamePaid
    <2>7. QED
        BY <2>2, <2>3, <2>4, <2>5, <2>6
<1>11. ASSUME NEW w \in Workers, StampInvoice(w)
      PROVE  FirstsBooked' /\ ChargesFit' /\ Serial' /\ RenewalsFit' /\ PeriodsFit'
    <2>1. Cycles' = Cycles
        BY <1>0, <1>11, CyclesStay
    <2>2. FirstsBooked'
        BY <1>0, <1>11, <2>1
        DEF StampInvoice, Rest, Types, FirstsBooked, First, Knows, RequestsKnow, RowsFit, RequestsFit,
            RequestFits, PaymentsFit, IsFor, PaymentStatus
    <2>3. ChargesFit'
        BY <1>0, <1>11, <2>1
        DEF StampInvoice, Rest, Types, ChargesFit, Settled, Recurring, RequestsKnow, Knows, PaymentsFit, IsFor,
            PaymentStatus
    <2>4. Serial'
        BY <1>0, <1>11, <2>1 DEF StampInvoice, Rest, Types, Serial, Recurring
    <2>5. RenewalsFit'
        BY <1>0, <1>11, <2>1
        DEF StampInvoice, Rest, Types, Books, RenewalsFit, RenewalKnows, BecamePaid, IsStart, Recurring, First,
            Knows, RequestsKnow
    <2>6. PeriodsFit'
        BY <1>0, <1>11, <2>1 DEF StampInvoice, Rest, Types, Books, PeriodsFit, Renewing, BecamePaid
    <2>7. QED
        BY <2>2, <2>3, <2>4, <2>5, <2>6
<1>12. ASSUME NEW w \in Workers, CancelOrder(w)
      PROVE  FirstsBooked' /\ ChargesFit' /\ Serial' /\ RenewalsFit' /\ PeriodsFit'
    <2>1. Cycles' = Cycles
        BY <1>12 DEF CancelOrder, Cycles
    <2>2. FirstsBooked'
        BY <1>0, <1>12, <2>1
        DEF CancelOrder, Goto, Rest, Types, FirstsBooked, First, Knows, RequestsKnow, RowsFit, RequestsFit,
            RequestFits, PaymentsFit, IsFor, PaymentStatus
    <2>3. ChargesFit'
        BY <1>0, <1>12, <2>1
        DEF CancelOrder, Goto, Rest, Types, ChargesFit, Settled, Recurring, RequestsKnow, Knows, PaymentsFit,
            IsFor, PaymentStatus
    <2>4. Serial'
        BY <1>0, <1>12, <2>1 DEF CancelOrder, Goto, Rest, Types, Serial, Recurring
    <2>5. RenewalsFit'
        BY <1>0, <1>12, <2>1
        DEF CancelOrder, Goto, Rest, Types, Books, RenewalsFit, RenewalKnows, BecamePaid, IsStart, Recurring,
            First, Knows, RequestsKnow
    <2>6. PeriodsFit'
        BY <1>0, <1>12, <2>1 DEF CancelOrder, Goto, Rest, Types, Books, PeriodsFit, Renewing, BecamePaid
    <2>7. QED
        BY <2>2, <2>3, <2>4, <2>5, <2>6
<1>13. ASSUME NEW w \in Workers, LeavePlan(w)
      PROVE  FirstsBooked' /\ ChargesFit' /\ Serial' /\ RenewalsFit' /\ PeriodsFit'
    <2>1. Cycles' = Cycles
        BY <1>13 DEF LeavePlan, Cycles
    <2>2. FirstsBooked'
        BY <1>0, <1>13, <2>1
        DEF LeavePlan, SetStatus, Goto, Types, FirstsBooked, First, Knows, RequestsKnow, RowsFit, RequestsFit,
            RequestFits, PaymentsFit, IsFor, PaymentStatus
    <2>3. ChargesFit'
        BY <1>0, <1>13, <2>1
        DEF LeavePlan, SetStatus, Goto, Types, ChargesFit, Settled, Recurring, RequestsKnow, Knows,
            PaymentsFit, IsFor, PaymentStatus
    <2>4. Serial'
        BY <1>0, <1>13, <2>1 DEF LeavePlan, SetStatus, Goto, Types, Serial, Recurring
    <2>5. RenewalsFit'
        BY <1>0, <1>13, <2>1
        DEF LeavePlan, SetStatus, Goto, Types, Books, RenewalsFit, RenewalKnows, BecamePaid, IsStart,
            Recurring, First, Knows, RequestsKnow
    <2>6. PeriodsFit'
        BY <1>0, <1>13, <2>1 DEF LeavePlan, SetStatus, Goto, Types, Books, PeriodsFit, Renewing, BecamePaid
    <2>7. QED
        BY <2>2, <2>3, <2>4, <2>5, <2>6
<1>14. ASSUME NEW w \in Workers, StartFree(w)
      PROVE  FirstsBooked' /\ ChargesFit' /\ Serial' /\ RenewalsFit' /\ PeriodsFit'
    <2>1. Cycles' = Cycles
        BY <1>14 DEF StartFree, Cycles
    <2>2. FirstsBooked'
        BY <1>0, <1>14, <2>1
        DEF StartFree, SetStatus, Goto, Types, FirstsBooked, First, Knows, RequestsKnow, RowsFit, RequestsFit,
            RequestFits, PaymentsFit, IsFor, PaymentStatus
    <2>3. ChargesFit'
        BY <1>0, <1>14, <2>1
        DEF StartFree, SetStatus, Goto, Types, ChargesFit, Settled, Recurring, RequestsKnow, Knows,
            PaymentsFit, IsFor, PaymentStatus
    <2>4. Serial'
        BY <1>0, <1>14, <2>1 DEF StartFree, SetStatus, Goto, Types, Serial, Recurring
    <2>5. RenewalsFit'
        BY <1>0, <1>14, <2>1
        DEF StartFree, SetStatus, Goto, Types, Books, RenewalsFit, RenewalKnows, BecamePaid, IsStart,
            Recurring, First, Knows, RequestsKnow
    <2>6. PeriodsFit'
        BY <1>0, <1>14, <2>1 DEF StartFree, SetStatus, Goto, Types, Books, PeriodsFit, Renewing, BecamePaid
    <2>7. QED
        BY <2>2, <2>3, <2>4, <2>5, <2>6
<1>15. ASSUME NEW w \in Workers, SetFree(w)
      PROVE  FirstsBooked' /\ ChargesFit' /\ Serial' /\ RenewalsFit' /\ PeriodsFit'
    <2>1. Cycles' = Cycles
        BY <1>15 DEF SetFree, Cycles
    <2>2. FirstsBooked'
        BY <1>0, <1>15, <2>1
        DEF SetFree, Rest, Types, FirstsBooked, First, Knows, RequestsKnow, RowsFit, RequestsFit, RequestFits,
            PaymentsFit, IsFor, PaymentStatus
    <2>3. ChargesFit'
        BY <1>0, <1>15, <2>1
        DEF SetFree, Rest, Types, ChargesFit, Settled, Recurring, RequestsKnow, Knows, PaymentsFit, IsFor,
            PaymentStatus
    <2>4. Serial'
        BY <1>0, <1>15, <2>1 DEF SetFree, Rest, Types, Serial, Recurring
    <2>5. RenewalsFit'
        BY <1>0, <1>15, <2>1
        DEF SetFree, Rest, Types, Books, RenewalsFit, RenewalKnows, BecamePaid, IsStart, Recurring, First,
            Knows, RequestsKnow
    <2>6. PeriodsFit'
        BY <1>0, <1>15, <2>1 DEF SetFree, Rest, Types, Books, PeriodsFit, Renewing, BecamePaid
    <2>7. QED
        BY <2>2, <2>3, <2>4, <2>5, <2>6
<1>16. ASSUME NEW w \in Workers, Find(w)
      PROVE  FirstsBooked' /\ ChargesFit' /\ Serial' /\ RenewalsFit' /\ PeriodsFit'
    <2>1. Cycles' = Cycles
        BY <1>16 DEF Find, Cycles
    <2>2. FirstsBooked'
        BY <1>0, <1>16, <2>1
        DEF Find, Slip, Overlap, Types, FirstsBooked, First, Knows, RequestsKnow, RowsFit, RequestsFit,
            RequestFits, PaymentsFit, IsFor, PaymentStatus
    <2>3. ChargesFit'
        <3> DEFINE byPayment == {r \in Rows : payId[r] = on[w]}
                   r == IF byPayment # {} THEN CHOOSE x \in byPayment : TRUE ELSE Named(on[w])
                   first == byPayment # {} \/ status[r] \in {"pending_payment", "payment_failed"}
        <3>1. /\ pc[w] = "find" /\ pc' = [pc EXCEPT ![w] = IF first THEN "note" ELSE "look"]
              /\ about' = [about EXCEPT ![w] = r] /\ UNCHANGED <<on, payId, pay, chargeOf, due>>
            BY <1>16 DEF Find
        <3>2. ~first => r = Named(on[w]) /\ \A q \in Rows : payId[q] # on[w]
            OBVIOUS
        <3>3. ~first /\ on[w] \in Paid => \A c \in Charges : chargeOf[c] # r
            BY <1>0, <3>2 DEF FirstsBooked, Named, Types
        <3> HIDE DEF first, r
        <3>4. pc'[w] \in Recurring /\ on'[w] \in Paid => \A c \in Charges : chargeOf'[c] # about'[w]
            BY <1>0, <3>1, <3>3 DEF Types, Recurring
        <3>5. \A v \in Workers \ {w} : UNCHANGED <<pc[v], on[v], about[v]>>
            BY <1>0, <3>1 DEF Types
        <3>6. QED
            BY <1>0, <3>1, <3>4, <3>5 DEF ChargesFit, Settled
    <2>4. Serial'
        BY <1>0, <1>16, <2>1 DEF Find, Slip, Overlap, Types, Serial, Recurring
    <2>5. RenewalsFit'
        BY <1>0, <1>16, <2>1
        DEF Find, Slip, Overlap, Types, Books, RenewalsFit, RenewalKnows, BecamePaid, IsStart, Recurring,
            First, Knows, RequestsKnow
    <2>6. PeriodsFit'
        BY <1>0, <1>16, <2>1 DEF Find, Slip, Overlap, Types, Books, PeriodsFit, Renewing, BecamePaid
    <2>7. QED
        BY <2>2, <2>3, <2>4, <2>5, <2>6
<1>17. ASSUME NEW w \in Workers, NotePayment(w)
      PROVE  FirstsBooked' /\ ChargesFit' /\ Serial' /\ RenewalsFit' /\ PeriodsFit'
    <2>1. Cycles' = Cycles
        BY <1>17 DEF NotePayment, Cycles
    <2>2. FirstsBooked'
        BY <1>0, <1>17, <2>1
        DEF NotePayment, Goto, Types, FirstsBooked, First, Knows, RequestsKnow, RowsFit, RequestsFit,
            RequestFits, PaymentsFit, IsFor, PaymentStatus
    <2>3. ChargesFit'
        BY <1>0, <1>17, <2>1
        DEF NotePayment, Goto, Types, ChargesFit, Settled, Recurring, RequestsKnow, Knows, PaymentsFit, IsFor,
            PaymentStatus
    <2>4. Serial'
        BY <1>0, <1>17, <2>1 DEF NotePayment, Goto, Types, Serial, Recurring
    <2>5. RenewalsFit'
        BY <1>0, <1>17, <2>1
        DEF NotePayment, Goto, Types, Books, RenewalsFit, RenewalKnows, BecamePaid, IsStart, Recurring, First,
            Knows, RequestsKnow
    <2>6. PeriodsFit'
        BY <1>0, <1>17, <2>1 DEF NotePayment, Goto, Types, Books, PeriodsFit, Renewing, BecamePaid
    <2>7. QED
        BY <2>2, <2>3, <2>4, <2>5, <2>6
<1>18. ASSUME NEW w \in Workers, BookFirst(w)
      PROVE  FirstsBooked' /\ ChargesFit' /\ Serial' /\ RenewalsFit' /\ PeriodsFit'
    <2>1. Cycles' = Cycles
        BY <1>0, <1>18, CyclesStay
    <2>2. /\ pc[w] = "book" /\ UNCHANGED <<status, payId, pay, standing, chargeOf, due, end, slips>>
          /\ Rest(w) \/ Goto(w, "settle")
        BY <1>18 DEF BookFirst
    <2>3. Goto(w, "settle") => about[w] \in Started'
        <3>1. ASSUME NEW i \in invoices, IsStart(i), i.row = about[w],
                     invoices' = (invoices \ {i}) \cup {[i EXCEPT !.payment = on[w], !.status = saw[w]]}
              PROVE  about[w] \in Started'
            <4>1. PICK j : j = [i EXCEPT !.payment = on[w], !.status = saw[w]]
                OBVIOUS
            <4>2. on[w] = about[w]
                BY <1>0, <2>2 DEF RequestsFit, RequestFits, First
            <4>3. IsStart(j) /\ j.row = about[w] /\ j.payment = about[w]
                BY <1>0, <3>1, <4>1, <4>2 DEF Books, Invoice, IsStart
            <4>4. j \in invoices'
                BY <3>1, <4>1
            <4>5. QED
                BY <4>3, <4>4 DEF Started, IsStart
        <3>2. SUFFICES ASSUME Goto(w, "settle")
                       PROVE  about[w] \in Started'
            OBVIOUS
        <3>3. ~Rest(w)
            BY <1>0, <2>2, <3>2 DEF Rest, Goto, Types
        <3>4. QED
            BY <1>0, <1>18, <3>1, <3>3, BookEffect
    <2>4. FirstsBooked'
        BY <1>0, <1>18, <2>1, <2>2, <2>3
        DEF Rest, Goto, Types, FirstsBooked, First, Knows, RequestsKnow, RowsFit, RequestsFit, RequestFits,
            PaymentsFit, IsFor, PaymentStatus
    <2>5. ChargesFit'
        BY <1>0, <1>18, <2>1, <2>2, <2>3
        DEF Rest, Goto, Types, ChargesFit, Settled, Recurring, RequestsKnow, Knows, PaymentsFit, IsFor,
            PaymentStatus
    <2>6. Serial'
        BY <1>0, <1>18, <2>1, <2>2, <2>3 DEF Rest, Goto, Types, Serial, Recurring
    <2>7. RenewalsFit'
        BY <1>0, <1>18, <2>1, <2>2, <2>3
        DEF Rest, Goto, Types, Books, RenewalsFit, RenewalKnows, BecamePaid, IsStart, Recurring, First, Knows,
            RequestsKnow
    <2>8. PeriodsFit'
        BY <1>0, <1>18, <2>1, <2>2, <2>3 DEF Rest, Goto, Types, Books, PeriodsFit, Renewing, BecamePaid
    <2>9. QED
        BY <2>4, <2>5, <2>6, <2>7, <2>8
<1>19. ASSUME NEW w \in Workers, Settle(w)
      PROVE  FirstsBooked' /\ ChargesFit' /\ Serial' /\ RenewalsFit' /\ PeriodsFit'
    <2>1. Cycles' = Cycles
        BY <1>19 DEF Settle, Cycles
    <2>2. /\ pc'[w] \notin Recurring /\ UNCHANGED <<end, pay>> /\ (Tidy' => Tidy)
          /\ \A v \in Workers \ {w} : UNCHANGED <<pc[v], on[v], about[v], saw[v], until[v], old[v]>>
        BY <1>0, <1>19 DEF Settle, Answer, Rest, Goto, Types, Books, Recurring
    <2>3. due \cap Charges \subseteq due'
        <3>1. on[w] \notin Charges
            BY <1>0, <1>19 DEF Settle, RequestsFit, RequestFits, RequestsKnow, Knows, First
        <3>2. QED
            BY <1>19, <3>1 DEF Settle, Answer
    <2>4. FirstsBooked'
        BY <1>0, <1>19, <2>1, <2>2, <2>3
        DEF Settle, Goto, SetStatus, Answer, Rest, Revival, Types, FirstsBooked, First, Knows, RequestsKnow,
            RowsFit, RequestsFit, RequestFits, PaymentsFit, IsFor, PaymentStatus
    <2>5. ChargesFit'
        BY <1>0, <1>19, <2>1, <2>2, <2>3
        DEF Settle, Goto, SetStatus, Answer, Rest, Revival, Types, ChargesFit, Settled, Recurring,
            RequestsKnow, Knows, PaymentsFit, IsFor, PaymentStatus
    <2>6. Serial'
        BY <1>0, <1>19, <2>1, <2>2, <2>3
        DEF Settle, Goto, SetStatus, Answer, Rest, Revival, Types, Serial, Recurring
    <2>7. RenewalsFit'
        <3>1. ASSUME Tidy', NEW v \in Workers \ {w}
              PROVE  RenewalKnows(v)'
            BY <1>0, <2>1, <2>2, <2>3, <3>1, KnowsStays
        <3>2. RenewalKnows(w)'
            BY <2>2 DEF RenewalKnows, Recurring
        <3>3. QED
            BY <3>1, <3>2 DEF RenewalsFit
    <2>8. PeriodsFit'
        BY <1>0, <1>19, <2>1, <2>2, <2>3
        DEF Settle, Goto, SetStatus, Answer, Rest, Revival, Types, Books, PeriodsFit, Renewing, BecamePaid
    <2>9. QED
        BY <2>4, <2>5, <2>6, <2>7, <2>8
<1>20. ASSUME NEW w \in Workers, OrderRecurring(w)
      PROVE  FirstsBooked' /\ ChargesFit' /\ Serial' /\ RenewalsFit' /\ PeriodsFit'
    <2>1. Cycles' = Cycles
        BY <1>20 DEF OrderRecurring, Cycles
    <2>2. FirstsBooked'
        BY <1>0, <1>20, <2>1
        DEF OrderRecurring, Goto, Types, FirstsBooked, First, Knows, RequestsKnow, RowsFit, RequestsFit,
            RequestFits, PaymentsFit, IsFor, PaymentStatus
    <2>3. ChargesFit'
        BY <1>0, <1>20, <2>1
        DEF OrderRecurring, Goto, Types, ChargesFit, Settled, Recurring, RequestsKnow, Knows, PaymentsFit,
            IsFor, PaymentStatus
    <2>4. Serial'
        BY <1>0, <1>20, <2>1 DEF OrderRecurring, Goto, Types, Serial, Recurring
    <2>5. RenewalsFit'
        BY <1>0, <1>20, <2>1
        DEF OrderRecurring, Goto, Types, Books, RenewalsFit, RenewalKnows, BecamePaid, IsStart, Recurring,
            First, Knows, RequestsKnow
    <2>6. PeriodsFit'
        BY <1>0, <1>20, <2>1 DEF OrderRecurring, Goto, Types, Books, PeriodsFit, Renewing, BecamePaid
    <2>7. QED
        BY <2>2, <2>3, <2>4, <2>5, <2>6
<1>21. ASSUME NEW w \in Workers, ReplaceOthers(w)
      PROVE  FirstsBooked' /\ ChargesFit' /\ Serial' /\ RenewalsFit' /\ PeriodsFit'
    <2>1. Cycles' = Cycles
        BY <1>21 DEF ReplaceOthers, Cycles
    <2>2. FirstsBooked'
        BY <1>0, <1>21, <2>1
        DEF ReplaceOthers, SetStatus, Slip, Goto, Types, FirstsBooked, First, Knows, RequestsKnow, RowsFit,
            RequestsFit, RequestFits, PaymentsFit, IsFor, PaymentStatus
    <2>3. ChargesFit'
        BY <1>0, <1>21, <2>1
        DEF ReplaceOthers, SetStatus, Slip, Goto, Types, ChargesFit, Settled, Recurring, RequestsKnow, Knows,
            PaymentsFit, IsFor, PaymentStatus
    <2>4. Serial'
        BY <1>0, <1>21, <2>1 DEF ReplaceOthers, SetStatus, Slip, Goto, Types, Serial, Recurring
    <2>5. RenewalsFit'
        BY <1>0, <1>21, <2>1
        DEF ReplaceOthers, SetStatus, Slip, Goto, Types, Books, RenewalsFit, RenewalKnows, BecamePaid, IsStart,
            Recurring, First, Knows, RequestsKnow
    <2>6. PeriodsFit'
        BY <1>0, <1>21, <2>1
        DEF ReplaceOthers, SetStatus, Slip, Goto, Types, Books, PeriodsFit, Renewing, BecamePaid
    <2>7. QED
        BY <2>2, <2>3, <2>4, <2>5, <2>6
<1>22. ASSUME NEW w \in Workers, ActivatePaid(w)
      PROVE  FirstsBooked' /\ ChargesFit' /\ Serial' /\ RenewalsFit' /\ PeriodsFit'
    <2>1. Cycles' = Cycles
        BY <1>22 DEF ActivatePaid, Cycles
    <2>2. FirstsBooked'
        BY <1>0, <1>22, <2>1
        DEF ActivatePaid, SetStatus, Slip, Revival, Goto, Types, FirstsBooked, First, Knows, RequestsKnow,
            RowsFit, RequestsFit, RequestFits, PaymentsFit, IsFor, PaymentStatus
    <2>3. ChargesFit'
        BY <1>0, <1>22, <2>1
        DEF ActivatePaid, SetStatus, Slip, Revival, Goto, Types, ChargesFit, Settled, Recurring, RequestsKnow,
            Knows, PaymentsFit, IsFor, PaymentStatus
    <2>4. Serial'
        BY <1>0, <1>22, <2>1 DEF ActivatePaid, SetStatus, Slip, Revival, Goto, Types, Serial, Recurring
    <2>5. RenewalsFit'
        BY <1>0, <1>22, <2>1
        DEF ActivatePaid, SetStatus, Slip, Revival, Goto, Types, Books, RenewalsFit, RenewalKnows, BecamePaid,
            IsStart, Recurring, First, Knows, RequestsKnow
    <2>6. PeriodsFit'
        BY <1>0, <1>22, <2>1
        DEF ActivatePaid, SetStatus, Slip, Revival, Goto, Types, Books, PeriodsFit, Renewing, BecamePaid
    <2>7. QED
        BY <2>2, <2>3, <2>4, <2>5, <2>6
<1>23. ASSUME NEW w \in Workers, SetPlan(w)
      PROVE  FirstsBooked' /\ ChargesFit' /\ Serial' /\ RenewalsFit' /\ PeriodsFit'
    <2>1. Cycles' = Cycles
        BY <1>23 DEF SetPlan, Cycles
    <2>2. /\ pc'[w] \notin Recurring /\ UNCHANGED <<end, pay>> /\ (Tidy' => Tidy)
          /\ \A v \in Workers \ {w} : UNCHANGED <<pc[v], on[v], about[v], saw[v], until[v], old[v]>>
        BY <1>0, <1>23 DEF SetPlan, Answer, Rest, Goto, Types, Books, Recurring
    <2>3. due \cap Charges \subseteq due'
        <3>1. on[w] \notin Charges
            BY <1>0, <1>23 DEF SetPlan, RequestsFit, RequestFits, RequestsKnow, Knows, First
        <3>2. QED
            BY <1>23, <3>1 DEF SetPlan, Answer
    <2>4. FirstsBooked'
        BY <1>0, <1>23, <2>1, <2>2, <2>3
        DEF SetPlan, Answer, Rest, Types, FirstsBooked, First, Knows, RequestsKnow, RowsFit, RequestsFit,
            RequestFits, PaymentsFit, IsFor, PaymentStatus
    <2>5. ChargesFit'
        BY <1>0, <1>23, <2>1, <2>2, <2>3
        DEF SetPlan, Answer, Rest, Types, ChargesFit, Settled, Recurring, RequestsKnow, Knows, PaymentsFit,
            IsFor, PaymentStatus
    <2>6. Serial'
        BY <1>0, <1>23, <2>1, <2>2, <2>3 DEF SetPlan, Answer, Rest, Types, Serial, Recurring
    <2>7. RenewalsFit'
        <3>1. ASSUME Tidy', NEW v \in Workers \ {w}
              PROVE  RenewalKnows(v)'
            BY <1>0, <2>1, <2>2, <2>3, <3>1, KnowsStays
        <3>2. RenewalKnows(w)'
            BY <2>2 DEF RenewalKnows, Recurring
        <3>3. QED
            BY <3>1, <3>2 DEF RenewalsFit
    <2>8. PeriodsFit'
        BY <1>0, <1>23, <2>1, <2>2, <2>3
        DEF SetPlan, Answer, Rest, Types, Books, PeriodsFit, Renewing, BecamePaid
    <2>9. QED
        BY <2>4, <2>5, <2>6, <2>7, <2>8
<1>24. ASSUME NEW w \in Workers, LookForInvoice(w)
      PROVE  FirstsBooked' /\ ChargesFit' /\ Serial' /\ RenewalsFit' /\ PeriodsFit'
    <2>1. Cycles' = Cycles
        BY <1>24 DEF LookForInvoice, Cycles
    <2>2. FirstsBooked'
        BY <1>0, <1>24, <2>1
        DEF LookForInvoice, InvoicesOf, Types, FirstsBooked, First, Knows, RequestsKnow, RowsFit, RequestsFit,
            RequestFits, PaymentsFit, IsFor, PaymentStatus
    <2>3. ChargesFit'
        BY <1>0, <1>24, <2>1
        DEF LookForInvoice, InvoicesOf, Types, ChargesFit, Settled, Recurring, RequestsKnow, Knows,
            PaymentsFit, IsFor, PaymentStatus
    <2>4. Serial'
        BY <1>0, <1>24, <2>1 DEF LookForInvoice, InvoicesOf, Types, Serial, Recurring
    <2>5. RenewalsFit'
        <3>1. \A v \in Workers \ {w} : UNCHANGED <<pc[v], on[v], about[v], saw[v], until[v], old[v]>>
            BY <1>0, <1>24 DEF LookForInvoice, Types, Books
        <3>2. UNCHANGED <<end, due>>
            BY <1>24 DEF LookForInvoice
        <3>3. ASSUME Tidy', NEW v \in Workers \ {w}
              PROVE  RenewalKnows(v)'
            BY <1>0, <2>1, <3>1, <3>2, <3>3, KnowsStays
        <3>4. Tidy' => RenewalKnows(w)'
            BY <1>0, <1>24, LookKeeps
        <3>5. QED
            BY <3>3, <3>4 DEF RenewalsFit
    <2>6. PeriodsFit'
        BY <1>0, <1>24, <2>1 DEF LookForInvoice, InvoicesOf, Types, Books, PeriodsFit, Renewing, BecamePaid
    <2>7. QED
        BY <2>2, <2>3, <2>4, <2>5, <2>6
<1>25. ASSUME NEW w \in Workers, EnterNew(w)
      PROVE  FirstsBooked' /\ ChargesFit' /\ Serial' /\ RenewalsFit' /\ PeriodsFit'
    <2>1. FirstsBooked'
        BY <1>0, <1>25
        DEF EnterNew, InvoicesOf, Rest, Goto, Types, FirstsBooked, First, Knows, RequestsKnow, RowsFit,
            RequestsFit, RequestFits, PaymentsFit, IsFor, PaymentStatus
    <2>2. ChargesFit'
        BY <1>0, <1>25
        DEF EnterNew, InvoicesOf, Rest, Goto, Types, ChargesFit, Settled, Recurring, RequestsKnow, Knows,
            PaymentsFit, IsFor, PaymentStatus
    <2>3. Serial'
        BY <1>0, <1>25 DEF EnterNew, InvoicesOf, Rest, Goto, Types, Serial, Recurring
    <2>4. RenewalsFit'
        BY <1>0, <1>25, EnterNewKeeps DEF RenewalsFit
    <2>5. PeriodsFit'
        BY <1>0, <1>25, EnterNewKeeps DEF PeriodsFit
    <2>6. QED
        BY <2>1, <2>2, <2>3, <2>4, <2>5
<1>26. ASSUME NEW w \in Workers, EnterStatus(w)
      PROVE  FirstsBooked' /\ ChargesFit' /\ Serial' /\ RenewalsFit' /\ PeriodsFit'
    <2>1. FirstsBooked'
        BY <1>0, <1>26
        DEF EnterStatus, Goto, Types, FirstsBooked, First, Knows, RequestsKnow, RowsFit, RequestsFit,
            RequestFits, PaymentsFit, IsFor, PaymentStatus
    <2>2. ChargesFit'
        BY <1>0, <1>26
        DEF EnterStatus, Goto, Types, ChargesFit, Settled, Recurring, RequestsKnow, Knows, PaymentsFit, IsFor,
            PaymentStatus
    <2>3. Serial'
        BY <1>0, <1>26 DEF EnterStatus, Goto, Types, Serial, Recurring
    <2>4. RenewalsFit'
        BY <1>0, <1>26, EnterStatusKeeps DEF RenewalsFit
    <2>5. PeriodsFit'
        BY <1>0, <1>26, EnterStatusKeeps DEF PeriodsFit
    <2>6. QED
        BY <2>1, <2>2, <2>3, <2>4, <2>5
<1>27. ASSUME NEW w \in Workers, Renew(w)
      PROVE  FirstsBooked' /\ ChargesFit' /\ Serial' /\ RenewalsFit' /\ PeriodsFit'
    <2>1. Cycles' = Cycles
        BY <1>27 DEF Renew, Cycles
    <2>2. FirstsBooked'
        BY <1>0, <1>27, <2>1
        DEF Renew, SetStatus, Slip, Revival, Renewed, BecamePaid, Answer, Rest, Types, FirstsBooked, First,
            Knows, RequestsKnow, RowsFit, RequestsFit, RequestFits, PaymentsFit, IsFor, PaymentStatus
    <2>3. ChargesFit'
        BY <1>0, <1>27, <2>1
        DEF Renew, SetStatus, Slip, Revival, Renewed, BecamePaid, Answer, Rest, Types, ChargesFit, Settled,
            Recurring, RequestsKnow, Knows, PaymentsFit, IsFor, PaymentStatus
    <2>4. Serial'
        BY <1>0, <1>27, <2>1
        DEF Renew, SetStatus, Slip, Revival, Renewed, BecamePaid, Answer, Rest, Types, Serial, Recurring
    <2>5. RenewalsFit'
        BY <1>0, <1>27, RenewKeeps DEF RenewalsFit
    <2>6. PeriodsFit'
        BY <1>0, <1>27, RenewKeeps DEF PeriodsFit
    <2>7. QED
        BY <2>2, <2>3, <2>4, <2>5, <2>6
<1>28. ASSUME NEW w \in Workers, Stop(w)
      PROVE  FirstsBooked' /\ ChargesFit' /\ Serial' /\ RenewalsFit' /\ PeriodsFit'
    <2>1. Cycles' = Cycles
        BY <1>28 DEF Stop, Cycles
    <2>2. FirstsBooked'
        BY <1>0, <1>28, <2>1
        DEF Stop, Rest, Types, FirstsBooked, First, Knows, RequestsKnow, RowsFit, RequestsFit, RequestFits,
            PaymentsFit, IsFor, PaymentStatus
    <2>3. ChargesFit'
        BY <1>0, <1>28, <2>1
        DEF Stop, Rest, Types, ChargesFit, Settled, Recurring, RequestsKnow, Knows, PaymentsFit, IsFor,
            PaymentStatus
    <2>4. Serial'
        BY <1>0, <1>28, <2>1 DEF Stop, Rest, Types, Serial, Recurring
    <2>5. RenewalsFit'
        BY <1>0, <1>28, <2>1
        DEF Stop, Rest, Types, Books, RenewalsFit, RenewalKnows, BecamePaid, IsStart, Recurring, First, Knows,
            RequestsKnow
    <2>6. PeriodsFit'
        <3>1. /\ pc[w] = "renew" => "torn" \in slips'
              /\ UNCHANGED <<end, pay>> /\ Rest(w)
            BY <1>28 DEF Stop
        <3>2. ASSUME Tidy', NEW p, Renewing(p)
              PROVE  Renewing(p)'
            BY <1>0, <3>1, <3>2 DEF Tidy, Renewing, BecamePaid, Rest, Types, Books
        <3>3. QED
            BY <1>0, <2>1, <3>1, <3>2 DEF PeriodsFit
    <2>7. QED
        BY <2>2, <2>3, <2>4, <2>5, <2>6
<1>29. ASSUME NEW p \in Payments, Decide(p)
      PROVE  FirstsBooked' /\ ChargesFit' /\ Serial' /\ RenewalsFit' /\ PeriodsFit'
    <2>1. Cycles' = Cycles
        BY <1>29 DEF Decide, Cycles
    <2>2. FirstsBooked'
        BY <1>0, <1>29, <2>1
        DEF Decide, Slip, Types, FirstsBooked, First, Knows, RequestsKnow, RowsFit, RequestsFit, RequestFits,
            PaymentsFit, IsFor, PaymentStatus
    <2>3. ChargesFit'
        BY <1>0, <1>29, <2>1
        DEF Decide, Slip, Types, ChargesFit, Settled, Recurring, RequestsKnow, Knows, PaymentsFit, IsFor,
            PaymentStatus
    <2>4. Serial'
        BY <1>0, <1>29, <2>1 DEF Decide, Slip, Types, Serial, Recurring
    <2>5. RenewalsFit'
        BY <1>0, <1>29, <2>1
        DEF Decide, Slip, Types, Books, RenewalsFit, RenewalKnows, BecamePaid, IsStart, Recurring, First,
            Knows, RequestsKnow
    <2>6. PeriodsFit'
        BY <1>0, <1>29, <2>1 DEF Decide, Slip, Types, Books, PeriodsFit, Renewing, BecamePaid
    <2>7. QED
        BY <2>2, <2>3, <2>4, <2>5, <2>6
<1>30. ASSUME NEW c \in Charges, NEW r \in Paid, Charge(c, r)
      PROVE  FirstsBooked' /\ ChargesFit' /\ Serial' /\ RenewalsFit' /\ PeriodsFit'
    <2>1. Cycles' = Cycles
        BY <1>30 DEF Charge, Cycles
    <2>2. \A i \in Cycles : pay'[i.key] = pay[i.key]
        <3>1. pay[c] = None /\ pay' = [pay EXCEPT ![c] = "open"]
            BY <1>30 DEF Charge
        <3>2. QED
            BY <1>0, <3>1, CycleFits DEF Types
    <2>3. FirstsBooked'
        BY <1>0, <1>30, <2>1, <2>2
        DEF Charge, Types, FirstsBooked, First, Knows, RequestsKnow, RowsFit, RequestsFit, RequestFits,
            PaymentsFit, IsFor, PaymentStatus
    <2>4. ChargesFit'
        BY <1>0, <1>30, <2>1, <2>2
        DEF Charge, Types, ChargesFit, Settled, Recurring, RequestsKnow, Knows, PaymentsFit, IsFor,
            PaymentStatus
    <2>5. Serial'
        BY <1>0, <1>30, <2>1, <2>2 DEF Charge, Types, Serial, Recurring
    <2>6. RenewalsFit'
        BY <1>0, <1>30, <2>1, <2>2
        DEF Charge, Types, Books, RenewalsFit, RenewalKnows, BecamePaid, IsStart, Recurring, First, Knows,
            RequestsKnow
    <2>7. PeriodsFit'
        BY <1>0, <1>30, <2>1, <2>2 DEF Charge, Types, Books, PeriodsFit, Renewing, BecamePaid
    <2>8. QED
        BY <2>3, <2>4, <2>5, <2>6, <2>7
<1>31. QED
    <2>1. CASE \E w \in Workers : \E r \in Paid : Checkout(w, r)
        BY <2>1, <1>1
    <2>2. CASE \E w \in Workers : \E f \in Free : Downgrade(w, f)
        BY <2>2, <1>2
    <2>3. CASE \E w \in Workers : \E p \in Payments : Deliver(w, p) \/ Redeliver(w, p)
        BY <2>3, <1>3, <1>4
    <2>4. CASE \E w \in Workers : Reconcile(w)
        BY <2>4, <1>5
    <2>5. CASE \E w \in Workers : CheckoutStep(w)
        BY <2>5, <1>6, <1>7, <1>8, <1>9, <1>10, <1>11 DEF CheckoutStep
    <2>6. CASE \E w \in Workers : DowngradeStep(w)
        BY <2>6, <1>12, <1>13, <1>14, <1>15 DEF DowngradeStep
    <2>7. CASE \E w \in Workers : WebhookStep(w)
        BY <2>7, <1>16, <1>17, <1>18, <1>19, <1>20, <1>21, <1>22, <1>23, <1>24, <1>25, <1>26, <1>27 DEF WebhookStep
    <2>8. CASE \E w \in Workers : Stop(w)
        BY <2>8, <1>28
    <2>9. CASE \E p \in Payments : Decide(p)
        BY <2>9, <1>29
    <2>10. CASE \E c \in Charges, r \in Paid : Charge(c, r)
        BY <2>10, <1>30
    <2>11. QED
        BY <2>1, <2>2, <2>3, <2>4, <2>5, <2>6, <2>7, <2>8, <2>9, <2>10 DEF Next

LEMMA PeriodsAlways == Spec => []PeriodInv
<1>1. Init => FirstsBooked /\ ChargesFit /\ Serial /\ RenewalsFit /\ PeriodsFit
    <2> SUFFICES ASSUME Init
                 PROVE  FirstsBooked /\ ChargesFit /\ Serial /\ RenewalsFit /\ PeriodsFit
        OBVIOUS
    <2>1. /\ \A w \in Workers : pc[w] = "idle"
          /\ \A r \in Rows : standing[r] = 0
          /\ \A c \in Charges : chargeOf[c] = None
          /\ Cycles = {}
        BY DEF Init, Cycles
    <2>2. FirstsBooked
        BY <2>1 DEF FirstsBooked, First, Rows
    <2>3. ChargesFit /\ Serial
        BY <2>1 DEF ChargesFit, Serial, Recurring
    <2>4. RenewalsFit
        BY <2>1 DEF RenewalsFit, RenewalKnows, Recurring
    <2>5. PeriodsFit
        BY <2>1 DEF PeriodsFit
    <2>6. QED
        BY <2>2, <2>3, <2>4, <2>5
<1>2. PeriodInv /\ BookedInv' /\ [Next]_vars => FirstsBooked' /\ ChargesFit' /\ Serial' /\ RenewalsFit' /\ PeriodsFit'
    <2> SUFFICES ASSUME PeriodInv, BookedInv', [Next]_vars
                 PROVE  FirstsBooked' /\ ChargesFit' /\ Serial' /\ RenewalsFit' /\ PeriodsFit'
        OBVIOUS
    <2>1. CASE Next
        BY <2>1, NextPeriods
    <2>2. CASE UNCHANGED vars
        <3>1. Cycles' = Cycles /\ Started' = Started /\ Tidy' = Tidy
            BY <2>2 DEF Cycles, Started, Tidy, vars, rowVars, mollieVars, workVars, historyVars
        <3>2. FirstsBooked'
            BY <2>2, <3>1 DEF PeriodInv, FirstsBooked, vars, rowVars, mollieVars, workVars, historyVars
        <3>3. ChargesFit'
            BY <2>2 DEF PeriodInv, ChargesFit, Settled, vars, rowVars, mollieVars, workVars, historyVars
        <3>4. Serial'
            BY <2>2 DEF PeriodInv, Serial, vars, rowVars, mollieVars, workVars, historyVars
        <3>5. RenewalsFit'
            BY <2>2, <3>1 DEF PeriodInv, RenewalsFit, RenewalKnows, BecamePaid, vars, rowVars, mollieVars, workVars, historyVars
        <3>6. PeriodsFit'
            BY <2>2, <3>1 DEF PeriodInv, PeriodsFit, Renewing, BecamePaid, vars, rowVars, mollieVars, workVars, historyVars
        <3>7. QED
            BY <3>2, <3>3, <3>4, <3>5, <3>6
    <2>3. QED
        BY <2>1, <2>2
<1>3. PeriodInv <=> BookedInv /\ FirstsBooked /\ ChargesFit /\ Serial /\ RenewalsFit /\ PeriodsFit
    BY DEF PeriodInv
<1>4. QED
    BY BookedAlways, <1>1, <1>2, <1>3, PTL DEF Spec

(***************************************************************************)
(* No two paid invoices of a row are for the same period, in every state   *)
(* that requests reach one after the other, without stopping half way and  *)
(* without a payment decided under their hands.  A first invoice is for    *)
(* the first period, and no other invoice is.                              *)
(***************************************************************************)
THEOREM PeriodsAreDistinctHolds == Spec => []PeriodsAreDistinct
<1>1. PeriodInv => PeriodsAreDistinct
    <2> SUFFICES ASSUME PeriodInv, slips \cap {"torn", "crowded", "overtaken"} = {}, NEW i \in invoices, NEW j \in invoices,
                        i.status = "paid", j.status = "paid", i.row = j.row, i.end = j.end
                 PROVE  i = j
        BY DEF PeriodsAreDistinct
    <2>1. BooksFit /\ Books /\ PeriodsFit /\ Tidy
        BY DEF PeriodInv, BookedInv, InvoiceInv, Data, Tidy
    <2>2. CASE IsStart(i) /\ IsStart(j)
        BY <2>1, <2>2 DEF BooksFit, IsStart
    <2>3. CASE (IsStart(i) /\ ~IsStart(j)) \/ (IsStart(j) /\ ~IsStart(i))
        BY <2>1, <2>3 DEF BooksFit
    <2>4. CASE ~IsStart(i) /\ ~IsStart(j)
        BY <2>1, <2>4 DEF PeriodsFit, Cycles
    <2>5. QED
        BY <2>2, <2>3, <2>4
<1>2. QED
    BY PeriodsAlways, <1>1, PTL
=============================================================================
