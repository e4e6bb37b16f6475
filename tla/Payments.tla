------------------------------ MODULE Payments ------------------------------
(***************************************************************************)
(* Collecting the rent: payment links and direct charges                   *)
(* (billing.service.ts, payments.service.ts), Mollie's webhook, the        *)
(* reconciliation job, Stripe's webhook, and the two routines that change  *)
(* an invoice meanwhile, the overdue run and voiding.                      *)
(*                                                                         *)
(* A call is one delivery of Mollie's webhook, or one pass through the     *)
(* loop of the reconciliation job.  A clerk is one pass through the loop   *)
(* of an overdue run, or one call of voidInvoice.  All of them read rows,  *)
(* and write them at a later await by id alone, without looking again.     *)
(*                                                                         *)
(* Provider statuses are reduced to the four that mapMollieStatus and      *)
(* mapStatus tell apart.                                                   *)
(***************************************************************************)
EXTENDS Integers

CONSTANTS
    Invoices,
    Payments,       \* the payments ever created
    InvoiceOf,      \* the invoice each of them is for
    Charged,        \* the payments charged at Stripe; the others are Mollie links
    Calls,          \* concurrent webhook deliveries and reconciliation passes
    Clerks,         \* concurrent overdue passes and void calls
    MaxDeliveries,  \* bound: webhook deliveries
    MaxClerkCalls,  \* bound: overdue passes and void calls
    MaxCrashes,     \* bound: calls that die
    NoPayment, NoInvoice

ASSUME InvoiceOfAssumption == InvoiceOf \in [Payments -> Invoices]
ASSUME ChargedAssumption == Charged \subseteq Payments
ASSUME NoPaymentAssumption == NoPayment \notin Payments
ASSUME NoInvoiceAssumption == NoInvoice \notin Invoices
ASSUME BoundsAssumption == MaxDeliveries \in Nat /\ MaxClerkCalls \in Nat /\ MaxCrashes \in Nat

Links == Payments \ Charged

VARIABLES
    \* rows
    invoice,      \* the status of each Invoice
    credits,      \* the CreditNotes of each Invoice
    payment,      \* the status of each Payment
    attempt,      \* the status of its PaymentAttempt
    ledger,       \* its LedgerEntries
    commissioned, \* payments whose creation has left a CommissionRecord
    activations,  \* invoices whose agreement has a rental.activate-ready job
    \* the provider
    provider,
    \* createMolliePayment and chargeInvoice, per payment
    ppc, result,
    \* calls
    pc, kind, on, seen, answer,
    \* clerks
    dpc, about,
    \* history and bounds
    paidOnce,     \* invoices that were marked paid at some time
    swept,        \* payments that a reconciliation pass has found paid
    overlapped,   \* payments with two calls at once
    raced,        \* invoices that changed under a clerk
    abandoned,    \* payments a call died on
    deliveries, clerkCalls, crashes

invoiceVars == <<invoice, credits, activations, paidOnce>>
paymentVars == <<payment, attempt, ledger, commissioned, swept>>
creationVars == <<ppc, result>>
callVars == <<pc, kind, on, seen, answer>>
clerkVars == <<dpc, about>>
bounds == <<deliveries, clerkCalls, crashes>>
vars == <<invoiceVars, paymentVars, provider, creationVars, callVars, clerkVars, overlapped, raced,
          abandoned, bounds>>

AttemptStatuses == {"pending", "pending_settlement", "succeeded", "failed"}

TypeOK ==
    /\ invoice \in [Invoices -> {"pending", "paid", "overdue", "void"}]
    /\ credits \in [Invoices -> Nat]
    /\ payment \in [Payments -> AttemptStatuses \cup {"none"}]
    /\ attempt \in [Payments -> AttemptStatuses \cup {"none"}]
    /\ ledger \in [Payments -> Nat]
    /\ commissioned \in SUBSET Payments
    /\ activations \in SUBSET Invoices
    /\ provider \in [Payments -> {"none", "open", "authorized", "paid", "failed"}]
    /\ ppc \in [Payments -> {"idle", "created", "asked", "recorded", "posted", "done", "died"}]
    /\ result \in [Payments -> AttemptStatuses \cup {"none"}]
    /\ pc \in [Calls -> {"idle", "found", "asked", "attempted", "post", "mark", "queue"}]
    /\ kind \in [Calls -> {"webhook", "sweep"}]
    /\ on \in [Calls -> Payments \cup {NoPayment}]
    /\ seen \in [Calls -> AttemptStatuses \cup {"none"}]
    /\ answer \in [Calls -> AttemptStatuses \cup {"none"}]
    /\ dpc \in [Clerks -> {"idle", "overdue", "void", "credit"}]
    /\ about \in [Clerks -> Invoices \cup {NoInvoice}]
    /\ paidOnce \in SUBSET Invoices
    /\ swept \in SUBSET Payments
    /\ overlapped \in SUBSET Payments
    /\ raced \in SUBSET Invoices
    /\ abandoned \in SUBSET Payments
    /\ deliveries \in 0..MaxDeliveries
    /\ clerkCalls \in 0..MaxClerkCalls
    /\ crashes \in 0..MaxCrashes

Init ==
    /\ invoice = [i \in Invoices |-> "pending"]
    /\ credits = [i \in Invoices |-> 0]
    /\ payment = [p \in Payments |-> "none"]
    /\ attempt = [p \in Payments |-> "none"]
    /\ ledger = [p \in Payments |-> 0]
    /\ commissioned = {}
    /\ activations = {}
    /\ provider = [p \in Payments |-> "none"]
    /\ ppc = [p \in Payments |-> "idle"]
    /\ result = [p \in Payments |-> "none"]
    /\ pc = [c \in Calls |-> "idle"]
    /\ kind = [c \in Calls |-> "webhook"]
    /\ on = [c \in Calls |-> NoPayment]
    /\ seen = [c \in Calls |-> "none"]
    /\ answer = [c \in Calls |-> "none"]
    /\ dpc = [d \in Clerks |-> "idle"]
    /\ about = [d \in Clerks |-> NoInvoice]
    /\ paidOnce = {} /\ swept = {} /\ overlapped = {} /\ raced = {} /\ abandoned = {}
    /\ deliveries = 0 /\ clerkCalls = 0 /\ crashes = 0

(* Faulty variant: an authorized payment counts as money. *)
MapStatus_Authorized(st) ==
    CASE st \in {"paid", "authorized"} -> "succeeded"
      [] st = "open" -> "pending"
      [] OTHER -> "failed"

(* Faulty variant: the provider's own word for it is stored. *)
MapStatus_Raw(st) ==
    CASE st = "authorized" -> "pending_settlement"
      [] st = "open" -> "pending"
      [] OTHER -> st

(* mapMollieStatus, and mapStatus for Stripe's names of the same statuses. *)
MapStatus(st) ==
    CASE st = "paid" -> "succeeded"
      [] st = "authorized" -> "pending_settlement"
      [] st = "open" -> "pending"
      [] OTHER -> "failed"

-----------------------------------------------------------------------------
(***************************************************************************)
(* The provider: a payment is opened by us, then paid, authorized or not;  *)
(* paid and failed (expired, canceled) are final.                          *)
(***************************************************************************)
Customer(p) ==
    /\ \/ provider[p] = "open" /\ \E st \in {"authorized", "paid", "failed"} : provider' = [provider EXCEPT ![p] = st]
       \/ provider[p] = "authorized" /\ \E st \in {"paid", "failed"} : provider' = [provider EXCEPT ![p] = st]
    /\ UNCHANGED <<invoiceVars, paymentVars, creationVars, callVars, clerkVars, overlapped, raced, abandoned, bounds>>

-----------------------------------------------------------------------------
(***************************************************************************)
(* createMolliePayment and chargeInvoice: the payment row, the request to  *)
(* the provider, the attempt row, and then the commission of a link or the *)
(* booking of a charge that succeeded at once.  Neither of them looks for  *)
(* another payment of the invoice.                                         *)
(***************************************************************************)
CreatePayment(p) ==
    /\ ppc[p] = "idle"
    /\ ppc' = [ppc EXCEPT ![p] = "created"]
    /\ payment' = [payment EXCEPT ![p] = "pending"]
    /\ UNCHANGED <<invoiceVars, attempt, ledger, commissioned, swept, provider, result, callVars, clerkVars,
                   overlapped, raced, abandoned, bounds>>

AskProvider(p) ==
    /\ ppc[p] = "created"
    /\ ppc' = [ppc EXCEPT ![p] = "asked"]
    /\ \E st \in IF p \in Charged THEN {"paid", "authorized", "failed"} ELSE {"open"} :
         /\ provider' = [provider EXCEPT ![p] = st]
         /\ result' = [result EXCEPT ![p] = MapStatus(st)]
    /\ UNCHANGED <<invoiceVars, paymentVars, callVars, clerkVars, overlapped, raced, abandoned, bounds>>

(* Faulty variant: every charge is left to the webhooks. *)
RecordAttempt_NoBooking(p) ==
    /\ ppc[p] = "asked"
    /\ attempt' = [attempt EXCEPT ![p] = result[p]]
    /\ ppc' = [ppc EXCEPT ![p] = IF p \in Charged THEN "done" ELSE "recorded"]
    /\ UNCHANGED <<invoiceVars, payment, ledger, commissioned, swept, provider, result, callVars, clerkVars,
                   overlapped, raced, abandoned, bounds>>

RecordAttempt(p) ==
    /\ ppc[p] = "asked"
    /\ attempt' = [attempt EXCEPT ![p] = result[p]]
    /\ ppc' = [ppc EXCEPT ![p] = IF p \in Charged /\ result[p] # "succeeded" THEN "done" ELSE "recorded"]
    /\ UNCHANGED <<invoiceVars, payment, ledger, commissioned, swept, provider, result, callVars, clerkVars,
                   overlapped, raced, abandoned, bounds>>

RecordCommission(p) ==
    /\ ppc[p] = "recorded" /\ p \in Links
    /\ commissioned' = commissioned \cup {p}
    /\ ppc' = [ppc EXCEPT ![p] = "done"]
    /\ UNCHANGED <<invoiceVars, payment, attempt, ledger, swept, provider, result, callVars, clerkVars,
                   overlapped, raced, abandoned, bounds>>

PostCharge(p) ==
    /\ ppc[p] = "recorded" /\ p \in Charged
    /\ ledger' = [ledger EXCEPT ![p] = @ + 1]
    /\ ppc' = [ppc EXCEPT ![p] = "posted"]
    /\ UNCHANGED <<invoiceVars, payment, attempt, commissioned, swept, provider, result, callVars, clerkVars,
                   overlapped, raced, abandoned, bounds>>

Busy(i) == \E d \in Clerks : dpc[d] # "idle" /\ about[d] = i

(* markPaid: whatever the invoice's status was. *)
PayInvoice(i) ==
    /\ invoice' = [invoice EXCEPT ![i] = "paid"]
    /\ paidOnce' = paidOnce \cup {i}
    /\ raced' = IF Busy(i) THEN raced \cup {i} ELSE raced

SettleCharge(p) ==
    /\ ppc[p] = "posted"
    /\ PayInvoice(InvoiceOf[p])
    /\ ppc' = [ppc EXCEPT ![p] = "done"]
    /\ UNCHANGED <<credits, activations, paymentVars, provider, result, callVars, clerkVars, overlapped, abandoned, bounds>>

(* The request throws, or its process dies, which leaves a charge that succeeded without its booking. *)
GiveUp(p) ==
    /\ ppc[p] \in {"created", "asked", "recorded", "posted"}
    /\ crashes < MaxCrashes
    /\ crashes' = crashes + 1
    /\ ppc' = [ppc EXCEPT ![p] = "died"]
    /\ abandoned' = IF p \in Charged /\ ppc[p] \in {"recorded", "posted"} THEN abandoned \cup {p} ELSE abandoned
    /\ UNCHANGED <<invoiceVars, paymentVars, provider, result, callVars, clerkVars, overlapped, raced,
                   deliveries, clerkCalls>>

(* Stripe's webhook marks the invoice of the payment intent, and nothing else. *)
StripeWebhook(p) ==
    /\ p \in Charged
    /\ provider[p] = "paid"
    /\ PayInvoice(InvoiceOf[p])
    /\ UNCHANGED <<credits, activations, paymentVars, provider, creationVars, callVars, clerkVars, overlapped,
                   abandoned, bounds>>

-----------------------------------------------------------------------------
(***************************************************************************)
(* Mollie's webhook and the reconciliation pass.  A delivery that comes    *)
(* before the attempt row is ignored; so may come any number of others, in *)
(* any order.                                                              *)
(***************************************************************************)
Active(p) == \E c \in Calls : pc[c] # "idle" /\ on[c] = p

Start(c, p, k) ==
    /\ pc[c] = "idle"
    /\ pc' = [pc EXCEPT ![c] = "found"]
    /\ kind' = [kind EXCEPT ![c] = k]
    /\ on' = [on EXCEPT ![c] = p]
    /\ seen' = [seen EXCEPT ![c] = attempt[p]]
    /\ overlapped' = IF Active(p) THEN overlapped \cup {p} ELSE overlapped
    /\ UNCHANGED answer

Finish(c) ==
    /\ pc' = [pc EXCEPT ![c] = "idle"]
    /\ kind' = [kind EXCEPT ![c] = "webhook"]
    /\ on' = [on EXCEPT ![c] = NoPayment]
    /\ seen' = [seen EXCEPT ![c] = "none"]
    /\ answer' = [answer EXCEPT ![c] = "none"]

Goto(c, l) ==
    /\ pc' = [pc EXCEPT ![c] = l]
    /\ UNCHANGED <<kind, on, seen, answer>>

Deliver(c) ==
    /\ deliveries < MaxDeliveries
    /\ deliveries' = deliveries + 1
    /\ \E p \in Links : attempt[p] # "none" /\ Start(c, p, "webhook")
    /\ UNCHANGED <<invoiceVars, paymentVars, provider, creationVars, clerkVars, raced, abandoned, clerkCalls, crashes>>

(* Faulty variant: authorized payments are not listed. *)
Unsettled_PendingOnly == {"pending"}

Unsettled == {"pending", "pending_settlement"}

Sweep(c, p) ==
    /\ p \in Links
    /\ attempt[p] \in Unsettled
    /\ Start(c, p, "sweep")
    /\ UNCHANGED <<invoiceVars, paymentVars, provider, creationVars, clerkVars, raced, abandoned, bounds>>

GetStatus(c) ==
    /\ pc[c] = "found"
    /\ pc' = [pc EXCEPT ![c] = "asked"]
    /\ answer' = [answer EXCEPT ![c] = MapStatus(provider[on[c]])]
    /\ UNCHANGED <<invoiceVars, paymentVars, provider, creationVars, kind, on, seen, clerkVars,
                   overlapped, raced, abandoned, bounds>>

(* The provider cannot be asked: the delivery or the pass ends, and may be repeated. *)
StatusThrows(c) ==
    /\ pc[c] = "found"
    /\ Finish(c)
    /\ UNCHANGED <<invoiceVars, paymentVars, provider, creationVars, clerkVars,
                   overlapped, raced, abandoned, bounds>>

WriteAttempt(c) ==
    /\ pc[c] = "asked"
    /\ attempt' = [attempt EXCEPT ![on[c]] = answer[c]]
    /\ swept' = IF kind[c] = "sweep" /\ answer[c] = "succeeded" THEN swept \cup {on[c]} ELSE swept
    /\ IF kind[c] = "sweep" /\ answer[c] = seen[c] THEN Finish(c) ELSE Goto(c, "attempted")
    /\ UNCHANGED <<invoiceVars, payment, ledger, commissioned, provider, creationVars, clerkVars,
                   overlapped, raced, abandoned, bounds>>

(* Faulty variant: settled payments are booked once more. *)
AlreadySettled_Ignored(c) == FALSE

AlreadySettled(c) == answer[c] = seen[c] /\ answer[c] \in {"succeeded", "failed"}

(* Faulty variant: the sweep leaves the invoice to the webhook. *)
AfterPayment_NoMark(c) ==
    IF kind[c] = "sweep" THEN "idle" ELSE IF AlreadySettled(c) THEN "idle" ELSE "post"

(* Where a call goes on once it has written a payment that succeeded. *)
AfterPayment(c) ==
    IF kind[c] = "sweep" THEN "mark" ELSE IF AlreadySettled(c) THEN "idle" ELSE "post"

WritePayment(c) ==
    /\ pc[c] = "attempted"
    /\ payment' = [payment EXCEPT ![on[c]] = answer[c]]
    /\ IF answer[c] # "succeeded" \/ AfterPayment(c) = "idle" THEN Finish(c) ELSE Goto(c, AfterPayment(c))
    /\ UNCHANGED <<invoiceVars, attempt, ledger, commissioned, swept, provider, creationVars, clerkVars,
                   overlapped, raced, abandoned, bounds>>

PostLedger(c) ==
    /\ pc[c] = "post"
    /\ ledger' = [ledger EXCEPT ![on[c]] = @ + 1]
    /\ Goto(c, "mark")
    /\ UNCHANGED <<invoiceVars, payment, attempt, commissioned, swept, provider, creationVars, clerkVars,
                   overlapped, raced, abandoned, bounds>>

MarkPaid(c) ==
    /\ pc[c] = "mark"
    /\ PayInvoice(InvoiceOf[on[c]])
    /\ Goto(c, "queue")
    /\ UNCHANGED <<credits, activations, paymentVars, provider, creationVars, clerkVars, overlapped, abandoned, bounds>>

QueueActivation(c) ==
    /\ pc[c] = "queue"
    /\ activations' = activations \cup {InvoiceOf[on[c]]}
    /\ Finish(c)
    /\ UNCHANGED <<invoice, credits, paidOnce, paymentVars, provider, creationVars, clerkVars,
                   overlapped, raced, abandoned, bounds>>

(* The attempt says succeeded, so nobody looks at it again, and the invoice is not marked yet. *)
MidBooking(c) == pc[c] \in {"attempted", "post", "mark"} /\ answer[c] = "succeeded"

Crash(c) ==
    /\ pc[c] # "idle"
    /\ crashes < MaxCrashes
    /\ crashes' = crashes + 1
    /\ abandoned' = IF MidBooking(c) THEN abandoned \cup {on[c]} ELSE abandoned
    /\ Finish(c)
    /\ UNCHANGED <<invoiceVars, paymentVars, provider, creationVars, clerkVars, overlapped, raced, deliveries, clerkCalls>>

-----------------------------------------------------------------------------
(***************************************************************************)
(* checkOverdueInvoices lists the pending invoices that are due and writes *)
(* them one by one; voidInvoice checks the status, writes it, and creates  *)
(* the credit note.  A clerk that dies stays where it is.                  *)
(***************************************************************************)
Take(d, i, l) ==
    /\ dpc[d] = "idle"
    /\ clerkCalls < MaxClerkCalls
    /\ clerkCalls' = clerkCalls + 1
    /\ dpc' = [dpc EXCEPT ![d] = l]
    /\ about' = [about EXCEPT ![d] = i]
    /\ raced' = IF Busy(i) THEN raced \cup {i} ELSE raced
    /\ UNCHANGED <<invoiceVars, paymentVars, provider, creationVars, callVars, overlapped, abandoned, deliveries, crashes>>

(* Faulty variant: the run lists every invoice that is due. *)
ListOverdue_Unfiltered(d) == \E i \in Invoices : Take(d, i, "overdue")

ListOverdue(d) == \E i \in Invoices : invoice[i] = "pending" /\ Take(d, i, "overdue")

ReadForVoid(d) == \E i \in Invoices : invoice[i] \notin {"paid", "void"} /\ Take(d, i, "void")

WriteOverdue(d) ==
    /\ dpc[d] = "overdue"
    /\ invoice' = [invoice EXCEPT ![about[d]] = "overdue"]
    /\ dpc' = [dpc EXCEPT ![d] = "idle"]
    /\ about' = [about EXCEPT ![d] = NoInvoice]
    /\ UNCHANGED <<credits, activations, paidOnce, paymentVars, provider, creationVars, callVars,
                   overlapped, raced, abandoned, bounds>>

WriteVoid(d) ==
    /\ dpc[d] = "void"
    /\ invoice' = [invoice EXCEPT ![about[d]] = "void"]
    /\ dpc' = [dpc EXCEPT ![d] = "credit"]
    /\ UNCHANGED <<credits, activations, paidOnce, paymentVars, provider, creationVars, callVars, about,
                   overlapped, raced, abandoned, bounds>>

CreateCreditNote(d) ==
    /\ dpc[d] = "credit"
    /\ credits' = [credits EXCEPT ![about[d]] = @ + 1]
    /\ dpc' = [dpc EXCEPT ![d] = "idle"]
    /\ about' = [about EXCEPT ![d] = NoInvoice]
    /\ UNCHANGED <<invoice, activations, paidOnce, paymentVars, provider, creationVars, callVars,
                   overlapped, raced, abandoned, bounds>>

CallStep(c) ==
    \/ GetStatus(c)
    \/ WriteAttempt(c)
    \/ WritePayment(c)
    \/ PostLedger(c)
    \/ MarkPaid(c)
    \/ QueueActivation(c)

CreationStep(p) ==
    \/ CreatePayment(p)
    \/ AskProvider(p)
    \/ RecordAttempt(p)
    \/ RecordCommission(p)
    \/ PostCharge(p)
    \/ SettleCharge(p)

ClerkStep(d) ==
    \/ ListOverdue(d)
    \/ ReadForVoid(d)
    \/ WriteOverdue(d)
    \/ WriteVoid(d)
    \/ CreateCreditNote(d)

Next ==
    \/ \E p \in Payments : CreationStep(p) \/ GiveUp(p) \/ Customer(p) \/ StripeWebhook(p)
    \/ \E c \in Calls : CallStep(c) \/ Deliver(c) \/ StatusThrows(c) \/ Crash(c) \/ \E p \in Payments : Sweep(c, p)
    \/ \E d \in Clerks : ClerkStep(d)

Spec == Init /\ [][Next]_vars

(***************************************************************************)
(* Calls that have begun go on, and the reconciliation job keeps listing   *)
(* the attempts that are still open.  A provider that is asked about one   *)
(* payment again and again answers at some time: an attempt whose status   *)
(* could never be fetched would end each pass before the attempts created  *)
(* after it.  Nothing else forces the provider, and nothing a customer, a  *)
(* delivery or a clerk.                                                    *)
(***************************************************************************)
Fairness ==
    /\ \A c \in Calls : WF_vars(CallStep(c))
    /\ \A p \in Payments : SF_vars(\E c \in Calls : Sweep(c, p))
    /\ \A p \in Payments : SF_vars(\E c \in Calls : on[c] = p /\ GetStatus(c))

FairSpec == Spec /\ Fairness
-----------------------------------------------------------------------------
(***************************************************************************)
(* However late an answer of the provider is written, nothing is booked    *)
(* before the money is there: an attempt or a payment that says succeeded, *)
(* a ledger entry, and a paid invoice each have a payment that the         *)
(* provider reports as paid.                                               *)
(***************************************************************************)
MoneyFirst ==
    /\ \A p \in Payments :
          attempt[p] = "succeeded" \/ payment[p] = "succeeded" \/ ledger[p] > 0 => provider[p] = "paid"
    /\ \A i \in Invoices :
          invoice[i] = "paid" => \E p \in Payments : InvoiceOf[p] = i /\ provider[p] = "paid"

(***************************************************************************)
(* An attempt that says succeeded is never looked at again, so whoever     *)
(* wrote it has to book it: the invoice has been marked paid and the       *)
(* ledger has its entry (which the reconciliation pass does not write),    *)
(* unless somebody is still at it or has died on the way.                  *)
(***************************************************************************)
Booked(p) == InvoiceOf[p] \in paidOnce /\ (ledger[p] > 0 \/ p \in swept)

SettledIsBooked ==
    \A p \in Payments :
        attempt[p] = "succeeded" => Booked(p) \/ Active(p) \/ ppc[p] \in {"recorded", "posted"} \/ p \in abandoned

(***************************************************************************)
(* Deliveries and reconciliation passes of one payment that do not overlap *)
(* book it once, however often and in whatever order they come.            *)
(***************************************************************************)
QuietIsIdempotent == \A p \in Payments : ledger[p] > 1 => p \in overlapped

(***************************************************************************)
(* The documentation says "Payment webhook handlers must be idempotent":   *)
(* a payment has at most one ledger entry.                                 *)
(***************************************************************************)
WebhookIsIdempotent == \A p \in Payments : ledger[p] <= 1

(***************************************************************************)
(* A payment or a void is undone, and an invoice credited twice, only if a *)
(* clerk was at work on the invoice when another one came, or the payment. *)
(***************************************************************************)
OnlyRacesUndo ==
    \A i \in Invoices \ raced :
        /\ credits[i] <= 1
        /\ i \in paidOnce => invoice[i] = "paid"
        /\ credits[i] = 1 => invoice[i] \in {"void", "paid"}

(***************************************************************************)
(* Money that has arrived for a link reaches the invoice, although the     *)
(* webhook may never come, or come too early: the reconciliation finds it, *)
(* unless a call dies between writing the attempt and the invoice.         *)
(***************************************************************************)
EveryPaymentArrives ==
    \A p \in Payments :
        p \in Links /\ provider[p] = "paid" /\ attempt[p] # "none" ~>
            InvoiceOf[p] \in paidOnce \/ p \in abandoned
=============================================================================
