--------------------------- MODULE Payments_proofs ---------------------------
(***************************************************************************)
(* Proofs about collecting payments, for any number of invoices, payments, *)
(* concurrent calls, clerks, deliveries and crashes.                       *)
(***************************************************************************)
EXTENDS Payments, TLAPS

Booking == {"attempted", "post", "mark", "queue"}

(* What a call knows of the payment it works on. *)
CallKnows ==
    \A c \in Calls :
        pc[c] # "idle" =>
            /\ on[c] \in Links
            /\ attempt[on[c]] # "none"
            /\ kind[c] = "sweep" => seen[c] \in Unsettled
            /\ answer[c] = "succeeded" => provider[on[c]] = "paid"
            /\ pc[c] # "found" => answer[c] # "none"
            /\ pc[c] \in {"post", "mark", "queue"} => answer[c] = "succeeded"
            /\ pc[c] = "post" => kind[c] = "webhook" /\ seen[c] # "succeeded"

IdleKnowsNothing == \A c \in Calls : pc[c] = "idle" => seen[c] = "none" /\ answer[c] = "none"

(* What the creation of a payment knows. *)
CreationKnows ==
    \A p \in Payments :
        /\ ppc[p] \in {"idle", "created"} => provider[p] = "none" /\ result[p] = "none"
        /\ ppc[p] \in {"idle", "created", "asked"} => attempt[p] = "none" /\ ledger[p] = 0
        /\ result[p] = "succeeded" => provider[p] = "paid" /\ p \in Charged
        /\ ppc[p] = "posted" \/ (ppc[p] = "recorded" /\ p \in Charged) => result[p] = "succeeded"

KnowledgeInv == CallKnows /\ IdleKnowsNothing /\ CreationKnows /\ MoneyFirst

(* A call that will book the payment, or has begun to. *)
Responsible(c, p) ==
    /\ on[c] = p
    /\ pc[c] \in Booking
    /\ answer[c] = "succeeded"
    /\ kind[c] = "sweep" \/ seen[c] # "succeeded"

Progress ==
    \A c \in Calls :
        /\ pc[c] \in Booking /\ kind[c] = "sweep" /\ answer[c] = "succeeded" => on[c] \in swept
        /\ pc[c] \in {"mark", "queue"} => ledger[on[c]] > 0 \/ on[c] \in swept
        /\ pc[c] = "queue" => InvoiceOf[on[c]] \in paidOnce

(* A success that is recorded, or that some call has read; and who sees to it. *)
Succeeded(p) == attempt[p] = "succeeded" \/ \E c \in Calls : on[c] = p /\ seen[c] = "succeeded"

Carried(p) == Booked(p) \/ p \in abandoned \/ \E c \in Calls : Responsible(c, p)

LinkIsCarried == \A p \in Links : Succeeded(p) => Carried(p)

ChargeIsCarried ==
    \A p \in Charged :
        /\ ppc[p] = "posted" => ledger[p] > 0
        /\ attempt[p] = "succeeded" => Booked(p) \/ p \in abandoned \/ ppc[p] \in {"recorded", "posted"}

SettledInv == Progress /\ LinkIsCarried /\ ChargeIsCarried

(* A payment whose calls never overlapped has one call at a time, and after *)
(* its ledger entry only calls that know it is settled.                     *)
OneAtATime ==
    \A c, d \in Calls :
        pc[c] # "idle" /\ pc[d] # "idle" /\ on[c] = on[d] /\ on[c] \notin overlapped => c = d

LastWord ==
    \A c \in Calls : pc[c] \in Booking /\ on[c] \notin overlapped => attempt[on[c]] = answer[c]

OneEntry ==
    \A p \in Links \ overlapped :
        /\ ledger[p] <= 1
        /\ ledger[p] = 1 =>
              /\ attempt[p] = "succeeded"
              /\ \A c \in Calls :
                    pc[c] # "idle" /\ on[c] = p =>
                        \/ pc[c] \in {"mark", "queue"}
                        \/ /\ kind[c] = "webhook" /\ seen[c] = "succeeded"
                           /\ pc[c] = "found" \/ (pc[c] \in {"asked", "attempted"} /\ answer[c] = "succeeded")

OneCharge ==
    \A p \in Charged : ledger[p] <= 1 /\ (ppc[p] = "recorded" => ledger[p] = 0)

QuietInv == OneAtATime /\ LastWord /\ OneEntry /\ OneCharge

(* A clerk on an invoice that nothing raced for is alone with what it has read. *)
OneClerk ==
    \A d, e \in Clerks :
        dpc[d] # "idle" /\ dpc[e] # "idle" /\ about[d] = about[e] /\ about[d] \notin raced => d = e

ClerkKnows ==
    \A d \in Clerks :
        dpc[d] # "idle" =>
            /\ about[d] \in Invoices
            /\ about[d] \notin raced => credits[about[d]] = 0 /\ about[d] \notin paidOnce
            /\ about[d] \notin raced /\ dpc[d] = "credit" => invoice[about[d]] = "void"

ClerkInv == OneClerk /\ ClerkKnows /\ OnlyRacesUndo

IInv == TypeOK /\ KnowledgeInv /\ SettledInv /\ QuietInv /\ ClerkInv

LEMMA InitIInv == Init => IInv
<1> SUFFICES ASSUME Init
             PROVE  IInv
    OBVIOUS
<1>1. TypeOK
    BY BoundsAssumption DEF Init, TypeOK, AttemptStatuses
<1>2. KnowledgeInv
    BY DEF Init, KnowledgeInv, CallKnows, IdleKnowsNothing, CreationKnows, MoneyFirst
<1>3. SettledInv
    BY ChargedAssumption DEF Init, SettledInv, Progress, LinkIsCarried, Succeeded, ChargeIsCarried, Booking, Links
<1>4. QuietInv
    BY ChargedAssumption DEF Init, QuietInv, OneAtATime, LastWord, OneEntry, OneCharge, Booking, Links
<1>5. ClerkInv
    BY DEF Init, ClerkInv, OneClerk, ClerkKnows, OnlyRacesUndo
<1>6. QED
    BY <1>1, <1>2, <1>3, <1>4, <1>5 DEF IInv

(* What the provider says is always one of the stored statuses. *)
LEMMA MapStatusType == ASSUME NEW st PROVE MapStatus(st) \in AttemptStatuses
BY DEF MapStatus, AttemptStatuses

(* Marking an invoice paid keeps the invoice's columns in their types. *)
LEMMA PayInvoiceType ==
    ASSUME TypeOK, NEW i \in Invoices, PayInvoice(i)
    PROVE  /\ invoice' \in [Invoices -> {"pending", "paid", "overdue", "void"}]
           /\ paidOnce' \in SUBSET Invoices
           /\ raced' \in SUBSET Invoices
BY DEF TypeOK, PayInvoice

(* Every step keeps the columns and the calls' local state in their types. *)
LEMMA StepType == IInv /\ [Next]_vars => TypeOK'
<1> SUFFICES ASSUME IInv, [Next]_vars
             PROVE  TypeOK'
    OBVIOUS
<1> USE DEF invoiceVars, paymentVars, creationVars, callVars, clerkVars, bounds
<1>0. TypeOK /\ CallKnows /\ ClerkKnows
    BY DEF IInv, KnowledgeInv, ClerkInv
<1>1. ASSUME NEW p \in Payments, CreatePayment(p)
      PROVE  TypeOK'
    BY <1>0, <1>1 DEF TypeOK, CreatePayment, AttemptStatuses
<1>2. ASSUME NEW p \in Payments, AskProvider(p)
      PROVE  TypeOK'
    BY <1>0, <1>2, MapStatusType DEF TypeOK, AskProvider
<1>3. ASSUME NEW p \in Payments, RecordAttempt(p)
      PROVE  TypeOK'
    BY <1>0, <1>3 DEF TypeOK, RecordAttempt
<1>4. ASSUME NEW p \in Payments, RecordCommission(p)
      PROVE  TypeOK'
    BY <1>0, <1>4 DEF TypeOK, RecordCommission
<1>5. ASSUME NEW p \in Payments, PostCharge(p)
      PROVE  TypeOK'
    BY <1>0, <1>5 DEF TypeOK, PostCharge
<1>6. ASSUME NEW p \in Payments, SettleCharge(p)
      PROVE  TypeOK'
    BY <1>0, <1>6, PayInvoiceType, InvoiceOfAssumption DEF TypeOK, SettleCharge
<1>7. ASSUME NEW p \in Payments, GiveUp(p)
      PROVE  TypeOK'
    BY <1>0, <1>7, BoundsAssumption DEF TypeOK, GiveUp
<1>8. ASSUME NEW p \in Payments, Customer(p)
      PROVE  TypeOK'
    BY <1>0, <1>8 DEF TypeOK, Customer
<1>9. ASSUME NEW p \in Payments, StripeWebhook(p)
      PROVE  TypeOK'
    BY <1>0, <1>9, PayInvoiceType, InvoiceOfAssumption DEF TypeOK, StripeWebhook
<1>10. ASSUME NEW c \in Calls, GetStatus(c)
      PROVE  TypeOK'
    BY <1>0, <1>10, MapStatusType DEF TypeOK, GetStatus
<1>11. ASSUME NEW c \in Calls, WriteAttempt(c)
      PROVE  TypeOK'
    BY <1>0, <1>11 DEF TypeOK, WriteAttempt, Finish, Goto, CallKnows, Links
<1>12. ASSUME NEW c \in Calls, WritePayment(c)
      PROVE  TypeOK'
    <2>1. payment' \in [Payments -> AttemptStatuses \cup {"none"}]
        BY <1>0, <1>12 DEF TypeOK, WritePayment
    <2>2. Finish(c) \/ Goto(c, "mark") \/ Goto(c, "post")
        BY <1>12 DEF WritePayment, AfterPayment
    <2>3. /\ pc' \in [Calls -> {"idle", "found", "asked", "attempted", "post", "mark", "queue"}]
          /\ kind' \in [Calls -> {"webhook", "sweep"}]
          /\ on' \in [Calls -> Payments \cup {NoPayment}]
          /\ seen' \in [Calls -> AttemptStatuses \cup {"none"}]
          /\ answer' \in [Calls -> AttemptStatuses \cup {"none"}]
        BY <1>0, <2>2 DEF TypeOK, Finish, Goto
    <2>4. QED
        BY <1>0, <1>12, <2>1, <2>3 DEF TypeOK, WritePayment
<1>13. ASSUME NEW c \in Calls, PostLedger(c)
      PROVE  TypeOK'
    BY <1>0, <1>13 DEF TypeOK, PostLedger, Goto, CallKnows, Links
<1>14. ASSUME NEW c \in Calls, MarkPaid(c)
      PROVE  TypeOK'
    BY <1>0, <1>14, PayInvoiceType, InvoiceOfAssumption DEF TypeOK, MarkPaid, Goto, CallKnows, Links
<1>15. ASSUME NEW c \in Calls, QueueActivation(c)
      PROVE  TypeOK'
    BY <1>0, <1>15, InvoiceOfAssumption DEF TypeOK, QueueActivation, Finish, CallKnows, Links
<1>16. ASSUME NEW c \in Calls, Deliver(c)
      PROVE  TypeOK'
    BY <1>0, <1>16, BoundsAssumption DEF TypeOK, Deliver, Start, Links
<1>17. ASSUME NEW c \in Calls, Crash(c) \/ StatusThrows(c)
      PROVE  TypeOK'
    BY <1>0, <1>17, BoundsAssumption DEF TypeOK, Crash, StatusThrows, Finish, CallKnows, Links
<1>18. ASSUME NEW c \in Calls, NEW p \in Payments, Sweep(c, p)
      PROVE  TypeOK'
    BY <1>0, <1>18 DEF TypeOK, Sweep, Start, Links
<1>19. ASSUME NEW d \in Clerks, ListOverdue(d)
      PROVE  TypeOK'
    BY <1>0, <1>19, BoundsAssumption DEF TypeOK, ListOverdue, Take
<1>20. ASSUME NEW d \in Clerks, ReadForVoid(d)
      PROVE  TypeOK'
    BY <1>0, <1>20, BoundsAssumption DEF TypeOK, ReadForVoid, Take
<1>21. ASSUME NEW d \in Clerks, WriteOverdue(d)
      PROVE  TypeOK'
    BY <1>0, <1>21 DEF TypeOK, WriteOverdue
<1>22. ASSUME NEW d \in Clerks, WriteVoid(d)
      PROVE  TypeOK'
    BY <1>0, <1>22 DEF TypeOK, WriteVoid
<1>23. ASSUME NEW d \in Clerks, CreateCreditNote(d)
      PROVE  TypeOK'
    BY <1>0, <1>23 DEF TypeOK, CreateCreditNote, ClerkKnows
<1>24. CASE UNCHANGED vars
    BY <1>0, <1>24 DEF vars, TypeOK
<1>25. QED
    BY <1>1, <1>2, <1>3, <1>4, <1>5, <1>6, <1>7, <1>8, <1>9, <1>10, <1>11, <1>12, <1>13, <1>14, <1>15, <1>16, <1>17, <1>18, <1>19, <1>20, <1>21, <1>22, <1>23, <1>24
       DEF Next, CreationStep, CallStep, ClerkStep

(* A payment gets its attempt and its ledger entries after the provider was asked. *)
LEMMA StepCreationKnows == IInv /\ [Next]_vars => CreationKnows'
<1> SUFFICES ASSUME IInv, [Next]_vars
             PROVE  CreationKnows'
    OBVIOUS
<1> USE DEF invoiceVars, paymentVars, creationVars, callVars, clerkVars, bounds
<1>0. /\ CreationKnows
      /\ CallKnows
      /\ provider \in [Payments -> {"none", "open", "authorized", "paid", "failed"}]
      /\ ppc \in [Payments -> {"idle", "created", "asked", "recorded", "posted", "done", "died"}]
      /\ result \in [Payments -> AttemptStatuses \cup {"none"}]
      /\ attempt \in [Payments -> AttemptStatuses \cup {"none"}]
      /\ ledger \in [Payments -> Nat]
      /\ pc \in [Calls -> {"idle", "found", "asked", "attempted", "post", "mark", "queue"}]
      /\ on \in [Calls -> Payments \cup {NoPayment}]
    BY DEF IInv, KnowledgeInv, TypeOK
<1>1. ASSUME NEW p \in Payments, CreatePayment(p)
      PROVE  CreationKnows'
    BY <1>0, <1>1 DEF CreatePayment, CreationKnows
<1>2. ASSUME NEW p \in Payments, AskProvider(p)
      PROVE  CreationKnows'
    BY <1>0, <1>2 DEF AskProvider, CreationKnows, MapStatus
<1>3. ASSUME NEW p \in Payments, RecordAttempt(p)
      PROVE  CreationKnows'
    BY <1>0, <1>3 DEF RecordAttempt, CreationKnows
<1>4. ASSUME NEW p \in Payments, RecordCommission(p)
      PROVE  CreationKnows'
    BY <1>0, <1>4 DEF RecordCommission, CreationKnows
<1>5. ASSUME NEW p \in Payments, PostCharge(p)
      PROVE  CreationKnows'
    BY <1>0, <1>5 DEF PostCharge, CreationKnows
<1>6. ASSUME NEW p \in Payments, SettleCharge(p)
      PROVE  CreationKnows'
    BY <1>0, <1>6 DEF SettleCharge, PayInvoice, CreationKnows
<1>7. ASSUME NEW p \in Payments, GiveUp(p)
      PROVE  CreationKnows'
    BY <1>0, <1>7 DEF GiveUp, CreationKnows
<1>8. ASSUME NEW p \in Payments, Customer(p)
      PROVE  CreationKnows'
    BY <1>0, <1>8 DEF Customer, CreationKnows
<1>9. ASSUME NEW c \in Calls, WriteAttempt(c)
      PROVE  CreationKnows'
    BY <1>0, <1>9 DEF WriteAttempt, Finish, Goto, CreationKnows, CallKnows, Links
<1>10. ASSUME NEW c \in Calls, PostLedger(c)
      PROVE  CreationKnows'
    BY <1>0, <1>10 DEF PostLedger, Goto, CreationKnows, CallKnows, Links
<1>11. ASSUME UNCHANGED <<ppc, provider, result, attempt, ledger>>
      PROVE  CreationKnows'
    BY <1>0, <1>11 DEF CreationKnows
<1>12. ASSUME NEW p \in Payments, StripeWebhook(p)
      PROVE  UNCHANGED <<ppc, provider, result, attempt, ledger>>
    BY <1>12 DEF StripeWebhook, PayInvoice
<1>13. ASSUME NEW c \in Calls,
             \/ GetStatus(c) \/ WritePayment(c) \/ MarkPaid(c) \/ QueueActivation(c) \/ Deliver(c)
             \/ Crash(c) \/ StatusThrows(c) \/ \E p \in Payments : Sweep(c, p)
      PROVE  UNCHANGED <<ppc, provider, result, attempt, ledger>>
    BY <1>13 DEF GetStatus, WritePayment, MarkPaid, QueueActivation, Deliver, Crash, MidBooking, StatusThrows, Sweep, AfterPayment,
       Finish, Goto, PayInvoice, Start
<1>14. ASSUME NEW d \in Clerks,
             \/ ListOverdue(d) \/ ReadForVoid(d) \/ WriteOverdue(d) \/ WriteVoid(d)
             \/ CreateCreditNote(d)
      PROVE  UNCHANGED <<ppc, provider, result, attempt, ledger>>
    BY <1>14 DEF ListOverdue, ReadForVoid, WriteOverdue, WriteVoid, CreateCreditNote, Take
<1>15. CASE UNCHANGED vars
    BY <1>11, <1>15 DEF vars
<1>16. QED
    BY <1>1, <1>2, <1>3, <1>4, <1>5, <1>6, <1>7, <1>8, <1>9, <1>10, <1>11, <1>12, <1>13, <1>14,
       <1>15
       DEF Next, CreationStep, CallStep, ClerkStep

(* What a call has read of the attempt and heard from the provider stays true of them. *)
LEMMA StepCallKnows == IInv /\ [Next]_vars => CallKnows'
<1> SUFFICES ASSUME IInv, [Next]_vars
             PROVE  CallKnows'
    OBVIOUS
<1> USE DEF invoiceVars, paymentVars, creationVars, callVars, clerkVars, bounds, Links
<1>0. /\ CallKnows
      /\ CreationKnows
      /\ IdleKnowsNothing
      /\ provider \in [Payments -> {"none", "open", "authorized", "paid", "failed"}]
      /\ ppc \in [Payments -> {"idle", "created", "asked", "recorded", "posted", "done", "died"}]
      /\ result \in [Payments -> AttemptStatuses \cup {"none"}]
      /\ attempt \in [Payments -> AttemptStatuses \cup {"none"}]
      /\ pc \in [Calls -> {"idle", "found", "asked", "attempted", "post", "mark", "queue"}]
      /\ kind \in [Calls -> {"webhook", "sweep"}]
      /\ on \in [Calls -> Payments \cup {NoPayment}]
      /\ seen \in [Calls -> AttemptStatuses \cup {"none"}]
      /\ answer \in [Calls -> AttemptStatuses \cup {"none"}]
    BY DEF IInv, KnowledgeInv, TypeOK
<1>1. ASSUME NEW p \in Payments, AskProvider(p)
      PROVE  CallKnows'
    BY <1>0, <1>1 DEF AskProvider, CallKnows, CreationKnows
<1>2. ASSUME NEW p \in Payments, RecordAttempt(p)
      PROVE  CallKnows'
    BY <1>0, <1>2 DEF RecordAttempt, CallKnows, CreationKnows
<1>3. ASSUME NEW p \in Payments, Customer(p)
      PROVE  CallKnows'
    BY <1>0, <1>3 DEF Customer, CallKnows
<1>4. ASSUME NEW c \in Calls, GetStatus(c)
      PROVE  CallKnows'
    BY <1>0, <1>4, MapStatusType DEF GetStatus, CallKnows, MapStatus, AttemptStatuses
<1>5. ASSUME NEW c \in Calls, WriteAttempt(c)
      PROVE  CallKnows'
    BY <1>0, <1>5 DEF WriteAttempt, Finish, Goto, CallKnows
<1>6. ASSUME NEW c \in Calls, WritePayment(c)
      PROVE  CallKnows'
    <2>1. Finish(c) \/ (answer[c] = "succeeded" /\ Goto(c, AfterPayment(c)))
        BY <1>6 DEF WritePayment
    <2>2. CASE Finish(c)
        BY <1>0, <1>6, <2>2 DEF WritePayment, Finish, CallKnows
    <2>3. CASE answer[c] = "succeeded" /\ Goto(c, AfterPayment(c))
        <3>1. \/ AfterPayment(c) \in {"mark", "idle"}
              \/ AfterPayment(c) = "post" /\ kind[c] = "webhook" /\ seen[c] # "succeeded"
            BY <1>0, <2>3 DEF AfterPayment, AlreadySettled
        <3>2. pc[c] = "attempted"
            BY <1>6 DEF WritePayment
        <3>3. UNCHANGED <<attempt, provider>>
            BY <1>6 DEF WritePayment
        <3>4. QED
            BY <1>0, <2>3, <3>1, <3>2, <3>3 DEF Goto, CallKnows
    <2>4. QED
        BY <2>1, <2>2, <2>3
<1>7. ASSUME NEW c \in Calls, PostLedger(c)
      PROVE  CallKnows'
    BY <1>0, <1>7 DEF PostLedger, Goto, CallKnows
<1>8. ASSUME NEW c \in Calls, MarkPaid(c)
      PROVE  CallKnows'
    BY <1>0, <1>8 DEF MarkPaid, PayInvoice, Goto, CallKnows
<1>9. ASSUME NEW c \in Calls, QueueActivation(c)
      PROVE  CallKnows'
    BY <1>0, <1>9 DEF QueueActivation, Finish, CallKnows
<1>10. ASSUME NEW c \in Calls, Deliver(c)
      PROVE  CallKnows'
    BY <1>0, <1>10 DEF Deliver, Start, CallKnows, IdleKnowsNothing
<1>11. ASSUME NEW c \in Calls, Crash(c) \/ StatusThrows(c)
      PROVE  CallKnows'
    BY <1>0, <1>11 DEF Crash, MidBooking, StatusThrows, Finish, CallKnows
<1>12. ASSUME NEW c \in Calls, NEW p \in Payments, Sweep(c, p)
      PROVE  CallKnows'
    BY <1>0, <1>12 DEF Sweep, Start, CallKnows, IdleKnowsNothing, Unsettled
<1>13. ASSUME UNCHANGED <<pc, kind, on, seen, answer, attempt, provider>>
      PROVE  CallKnows'
    BY <1>0, <1>13 DEF CallKnows
<1>14. ASSUME NEW p \in Payments,
             \/ CreatePayment(p) \/ RecordCommission(p) \/ PostCharge(p) \/ SettleCharge(p) \/ GiveUp(p)
             \/ StripeWebhook(p)
      PROVE  UNCHANGED <<pc, kind, on, seen, answer, attempt, provider>>
    BY <1>14 DEF CreatePayment, RecordCommission, PostCharge, SettleCharge, GiveUp, StripeWebhook, PayInvoice
<1>15. ASSUME NEW d \in Clerks,
             \/ ListOverdue(d) \/ ReadForVoid(d) \/ WriteOverdue(d) \/ WriteVoid(d)
             \/ CreateCreditNote(d)
      PROVE  UNCHANGED <<pc, kind, on, seen, answer, attempt, provider>>
    BY <1>15 DEF ListOverdue, ReadForVoid, WriteOverdue, WriteVoid, CreateCreditNote, Take
<1>16. CASE UNCHANGED vars
    BY <1>13, <1>16 DEF vars
<1>17. QED
    BY <1>1, <1>2, <1>3, <1>4, <1>5, <1>6, <1>7, <1>8, <1>9, <1>10, <1>11, <1>12, <1>13, <1>14,
       <1>15, <1>16
       DEF Next, CreationStep, CallStep, ClerkStep

(* A call that is over has forgotten what it read. *)
LEMMA StepIdle == IInv /\ [Next]_vars => IdleKnowsNothing'
<1> SUFFICES ASSUME IInv, [Next]_vars
             PROVE  IdleKnowsNothing'
    OBVIOUS
<1> USE DEF invoiceVars, paymentVars, creationVars, callVars, clerkVars, bounds
<1>0. /\ IdleKnowsNothing
      /\ pc \in [Calls -> {"idle", "found", "asked", "attempted", "post", "mark", "queue"}]
      /\ seen \in [Calls -> AttemptStatuses \cup {"none"}]
      /\ answer \in [Calls -> AttemptStatuses \cup {"none"}]
    BY DEF IInv, KnowledgeInv, TypeOK
<1>1. ASSUME NEW c \in Calls, GetStatus(c)
      PROVE  IdleKnowsNothing'
    BY <1>0, <1>1 DEF GetStatus, IdleKnowsNothing
<1>2. ASSUME NEW c \in Calls, WriteAttempt(c)
      PROVE  IdleKnowsNothing'
    BY <1>0, <1>2 DEF WriteAttempt, Finish, Goto, IdleKnowsNothing
<1>3. ASSUME NEW c \in Calls, WritePayment(c)
      PROVE  IdleKnowsNothing'
    BY <1>0, <1>3 DEF WritePayment, Finish, Goto, AfterPayment, IdleKnowsNothing
<1>4. ASSUME NEW c \in Calls, PostLedger(c)
      PROVE  IdleKnowsNothing'
    BY <1>0, <1>4 DEF PostLedger, Goto, IdleKnowsNothing
<1>5. ASSUME NEW c \in Calls, MarkPaid(c)
      PROVE  IdleKnowsNothing'
    BY <1>0, <1>5 DEF MarkPaid, PayInvoice, Goto, IdleKnowsNothing
<1>6. ASSUME NEW c \in Calls, QueueActivation(c)
      PROVE  IdleKnowsNothing'
    BY <1>0, <1>6 DEF QueueActivation, Finish, IdleKnowsNothing
<1>7. ASSUME NEW c \in Calls, Deliver(c)
      PROVE  IdleKnowsNothing'
    BY <1>0, <1>7 DEF Deliver, Start, IdleKnowsNothing
<1>8. ASSUME NEW c \in Calls, Crash(c) \/ StatusThrows(c)
      PROVE  IdleKnowsNothing'
    BY <1>0, <1>8 DEF Crash, MidBooking, StatusThrows, Finish, IdleKnowsNothing
<1>9. ASSUME NEW c \in Calls, NEW p \in Payments, Sweep(c, p)
      PROVE  IdleKnowsNothing'
    BY <1>0, <1>9 DEF Sweep, Start, IdleKnowsNothing
<1>10. ASSUME UNCHANGED <<pc, seen, answer>>
      PROVE  IdleKnowsNothing'
    BY <1>0, <1>10 DEF IdleKnowsNothing
<1>11. ASSUME NEW p \in Payments,
             \/ CreatePayment(p) \/ AskProvider(p) \/ RecordAttempt(p) \/ RecordCommission(p)
             \/ PostCharge(p) \/ SettleCharge(p) \/ GiveUp(p) \/ Customer(p) \/ StripeWebhook(p)
      PROVE  UNCHANGED <<pc, seen, answer>>
    BY <1>11 DEF CreatePayment, AskProvider, RecordAttempt, RecordCommission, PostCharge, SettleCharge, GiveUp,
       Customer, StripeWebhook, PayInvoice
<1>12. ASSUME NEW d \in Clerks,
             \/ ListOverdue(d) \/ ReadForVoid(d) \/ WriteOverdue(d) \/ WriteVoid(d)
             \/ CreateCreditNote(d)
      PROVE  UNCHANGED <<pc, seen, answer>>
    BY <1>12 DEF ListOverdue, ReadForVoid, WriteOverdue, WriteVoid, CreateCreditNote, Take
<1>13. CASE UNCHANGED vars
    BY <1>10, <1>13 DEF vars
<1>14. QED
    BY <1>1, <1>2, <1>3, <1>4, <1>5, <1>6, <1>7, <1>8, <1>9, <1>10, <1>11, <1>12, <1>13
       DEF Next, CreationStep, CallStep, ClerkStep

(* Nothing is booked before the provider reports the payment as paid, which is final. *)
LEMMA StepMoneyFirst == IInv /\ [Next]_vars => MoneyFirst'
<1> SUFFICES ASSUME IInv, [Next]_vars
             PROVE  MoneyFirst'
    OBVIOUS
<1> USE DEF invoiceVars, paymentVars, creationVars, callVars, clerkVars, bounds, Links
<1>0. /\ MoneyFirst
      /\ CallKnows
      /\ CreationKnows
      /\ provider \in [Payments -> {"none", "open", "authorized", "paid", "failed"}]
      /\ ppc \in [Payments -> {"idle", "created", "asked", "recorded", "posted", "done", "died"}]
      /\ result \in [Payments -> AttemptStatuses \cup {"none"}]
      /\ attempt \in [Payments -> AttemptStatuses \cup {"none"}]
      /\ payment \in [Payments -> AttemptStatuses \cup {"none"}]
      /\ ledger \in [Payments -> Nat]
      /\ invoice \in [Invoices -> {"pending", "paid", "overdue", "void"}]
      /\ pc \in [Calls -> {"idle", "found", "asked", "attempted", "post", "mark", "queue"}]
      /\ on \in [Calls -> Payments \cup {NoPayment}]
      /\ answer \in [Calls -> AttemptStatuses \cup {"none"}]
    BY DEF IInv, KnowledgeInv, TypeOK
<1>1. ASSUME NEW p \in Payments, CreatePayment(p)
      PROVE  MoneyFirst'
    BY <1>0, <1>1 DEF CreatePayment, MoneyFirst
<1>2. ASSUME NEW p \in Payments, AskProvider(p)
      PROVE  MoneyFirst'
    BY <1>0, <1>2 DEF AskProvider, MoneyFirst, CreationKnows
<1>3. ASSUME NEW p \in Payments, RecordAttempt(p)
      PROVE  MoneyFirst'
    BY <1>0, <1>3 DEF RecordAttempt, MoneyFirst, CreationKnows
<1>4. ASSUME NEW p \in Payments, PostCharge(p)
      PROVE  MoneyFirst'
    BY <1>0, <1>4 DEF PostCharge, MoneyFirst, CreationKnows
<1>5. ASSUME NEW p \in Payments, SettleCharge(p)
      PROVE  MoneyFirst'
    BY <1>0, <1>5 DEF SettleCharge, PayInvoice, MoneyFirst, CreationKnows
<1>6. ASSUME NEW p \in Payments, Customer(p)
      PROVE  MoneyFirst'
    BY <1>0, <1>6 DEF Customer, MoneyFirst
<1>7. ASSUME NEW p \in Payments, StripeWebhook(p)
      PROVE  MoneyFirst'
    BY <1>0, <1>7 DEF StripeWebhook, PayInvoice, MoneyFirst
<1>8. ASSUME NEW c \in Calls, WriteAttempt(c)
      PROVE  MoneyFirst'
    BY <1>0, <1>8 DEF WriteAttempt, Finish, Goto, MoneyFirst, CallKnows
<1>9. ASSUME NEW c \in Calls, WritePayment(c)
      PROVE  MoneyFirst'
    BY <1>0, <1>9 DEF WritePayment, Finish, Goto, AfterPayment, MoneyFirst, CallKnows
<1>10. ASSUME NEW c \in Calls, PostLedger(c)
      PROVE  MoneyFirst'
    BY <1>0, <1>10 DEF PostLedger, Goto, MoneyFirst, CallKnows
<1>11. ASSUME NEW c \in Calls, MarkPaid(c)
      PROVE  MoneyFirst'
    BY <1>0, <1>11 DEF MarkPaid, PayInvoice, Goto, MoneyFirst, CallKnows
<1>12. ASSUME NEW d \in Clerks, WriteOverdue(d)
      PROVE  MoneyFirst'
    BY <1>0, <1>12 DEF WriteOverdue, MoneyFirst
<1>13. ASSUME NEW d \in Clerks, WriteVoid(d)
      PROVE  MoneyFirst'
    BY <1>0, <1>13 DEF WriteVoid, MoneyFirst
<1>14. ASSUME UNCHANGED <<attempt, payment, ledger, provider, invoice>>
      PROVE  MoneyFirst'
    BY <1>0, <1>14 DEF MoneyFirst
<1>15. ASSUME NEW p \in Payments, RecordCommission(p) \/ GiveUp(p)
      PROVE  UNCHANGED <<attempt, payment, ledger, provider, invoice>>
    BY <1>15 DEF RecordCommission, GiveUp
<1>16. ASSUME NEW c \in Calls,
             \/ GetStatus(c) \/ QueueActivation(c) \/ Deliver(c) \/ Crash(c) \/ StatusThrows(c)
             \/ \E p \in Payments : Sweep(c, p)
      PROVE  UNCHANGED <<attempt, payment, ledger, provider, invoice>>
    BY <1>16 DEF GetStatus, QueueActivation, Deliver, Crash, MidBooking, StatusThrows, Sweep, Finish, Start
<1>17. ASSUME NEW d \in Clerks, ListOverdue(d) \/ ReadForVoid(d) \/ CreateCreditNote(d)
      PROVE  UNCHANGED <<attempt, payment, ledger, provider, invoice>>
    BY <1>17 DEF ListOverdue, ReadForVoid, CreateCreditNote, Take
<1>18. CASE UNCHANGED vars
    BY <1>14, <1>18 DEF vars
<1>19. QED
    BY <1>1, <1>2, <1>3, <1>4, <1>5, <1>6, <1>7, <1>8, <1>9, <1>10, <1>11, <1>12, <1>13, <1>14,
       <1>15, <1>16, <1>17, <1>18
       DEF Next, CreationStep, CallStep, ClerkStep

(* A booking, once made, is not taken back. *)
Monotone ==
    /\ paidOnce \subseteq paidOnce'
    /\ swept \subseteq swept'
    /\ abandoned \subseteq abandoned'
    /\ overlapped \subseteq overlapped'
    /\ raced \subseteq raced'
    /\ \A p \in Payments : ledger'[p] >= ledger[p]

(* No step takes a booking back. *)
LEMMA StepMonotone ==
    ASSUME IInv, [Next]_vars
    PROVE  Monotone
<1> USE DEF invoiceVars, paymentVars, creationVars, callVars, clerkVars, bounds
<1>0. ledger \in [Payments -> Nat]
    BY DEF IInv, TypeOK
<1>1. ASSUME NEW p \in Payments, PostCharge(p)
      PROVE  Monotone
    BY <1>0, <1>1 DEF PostCharge, Monotone
<1>2. ASSUME NEW p \in Payments, SettleCharge(p)
      PROVE  Monotone
    BY <1>0, <1>2 DEF SettleCharge, PayInvoice, Monotone
<1>3. ASSUME NEW p \in Payments, GiveUp(p)
      PROVE  Monotone
    BY <1>0, <1>3 DEF GiveUp, Monotone
<1>4. ASSUME NEW p \in Payments, StripeWebhook(p)
      PROVE  Monotone
    BY <1>0, <1>4 DEF StripeWebhook, PayInvoice, Monotone
<1>5. ASSUME NEW c \in Calls, WriteAttempt(c)
      PROVE  Monotone
    BY <1>0, <1>5 DEF WriteAttempt, Finish, Goto, Monotone
<1>6. ASSUME NEW c \in Calls, PostLedger(c)
      PROVE  Monotone
    BY <1>0, <1>6 DEF PostLedger, Goto, Monotone
<1>7. ASSUME NEW c \in Calls, MarkPaid(c)
      PROVE  Monotone
    BY <1>0, <1>7 DEF MarkPaid, PayInvoice, Goto, Monotone
<1>8. ASSUME NEW c \in Calls, Deliver(c)
      PROVE  Monotone
    BY <1>0, <1>8 DEF Deliver, Start, Monotone
<1>9. ASSUME NEW c \in Calls, Crash(c) \/ StatusThrows(c)
      PROVE  Monotone
    BY <1>0, <1>9 DEF Crash, MidBooking, StatusThrows, Finish, Monotone
<1>10. ASSUME NEW c \in Calls, NEW p \in Payments, Sweep(c, p)
      PROVE  Monotone
    BY <1>0, <1>10 DEF Sweep, Start, Monotone
<1>11. ASSUME NEW d \in Clerks, ListOverdue(d)
      PROVE  Monotone
    BY <1>0, <1>11 DEF ListOverdue, Take, Monotone
<1>12. ASSUME NEW d \in Clerks, ReadForVoid(d)
      PROVE  Monotone
    BY <1>0, <1>12 DEF ReadForVoid, Take, Monotone
<1>13. ASSUME UNCHANGED <<paidOnce, swept, abandoned, overlapped, raced, ledger>>
      PROVE  Monotone
    BY <1>0, <1>13 DEF Monotone
<1>14. ASSUME NEW p \in Payments,
             \/ CreatePayment(p) \/ AskProvider(p) \/ RecordAttempt(p) \/ RecordCommission(p)
             \/ Customer(p)
      PROVE  UNCHANGED <<paidOnce, swept, abandoned, overlapped, raced, ledger>>
    BY <1>14 DEF CreatePayment, AskProvider, RecordAttempt, RecordCommission, Customer
<1>15. ASSUME NEW c \in Calls, GetStatus(c) \/ WritePayment(c) \/ QueueActivation(c)
      PROVE  UNCHANGED <<paidOnce, swept, abandoned, overlapped, raced, ledger>>
    BY <1>15 DEF GetStatus, WritePayment, QueueActivation, AfterPayment, Finish, Goto
<1>16. ASSUME NEW d \in Clerks, WriteOverdue(d) \/ WriteVoid(d) \/ CreateCreditNote(d)
      PROVE  UNCHANGED <<paidOnce, swept, abandoned, overlapped, raced, ledger>>
    BY <1>16 DEF WriteOverdue, WriteVoid, CreateCreditNote
<1>17. CASE UNCHANGED vars
    BY <1>13, <1>17 DEF vars
<1>18. QED
    BY <1>1, <1>2, <1>3, <1>4, <1>5, <1>6, <1>7, <1>8, <1>9, <1>10, <1>11, <1>12, <1>13, <1>14,
       <1>15, <1>16, <1>17
       DEF Next, CreationStep, CallStep, ClerkStep

(* A reconciliation pass that has found money has noted it, and a call books in the order of its steps. *)
LEMMA StepProgress == IInv /\ [Next]_vars => Progress'
<1> SUFFICES ASSUME IInv, [Next]_vars
             PROVE  Progress'
    OBVIOUS
<1> USE DEF invoiceVars, paymentVars, creationVars, callVars, clerkVars, bounds, Booking, Links
<1>0. /\ Progress
      /\ CallKnows
      /\ pc \in [Calls -> {"idle", "found", "asked", "attempted", "post", "mark", "queue"}]
      /\ kind \in [Calls -> {"webhook", "sweep"}]
      /\ on \in [Calls -> Payments \cup {NoPayment}]
      /\ seen \in [Calls -> AttemptStatuses \cup {"none"}]
      /\ answer \in [Calls -> AttemptStatuses \cup {"none"}]
      /\ ledger \in [Payments -> Nat]
      /\ swept \in SUBSET Payments
      /\ paidOnce \in SUBSET Invoices
    BY DEF IInv, KnowledgeInv, SettledInv, TypeOK
<1>1. ASSUME NEW p \in Payments, PostCharge(p)
      PROVE  Progress'
    BY <1>0, <1>1 DEF PostCharge, Progress
<1>2. ASSUME NEW p \in Payments, SettleCharge(p)
      PROVE  Progress'
    BY <1>0, <1>2 DEF SettleCharge, PayInvoice, Progress
<1>3. ASSUME NEW p \in Payments, StripeWebhook(p)
      PROVE  Progress'
    BY <1>0, <1>3 DEF StripeWebhook, PayInvoice, Progress
<1>4. ASSUME NEW c \in Calls, GetStatus(c)
      PROVE  Progress'
    BY <1>0, <1>4 DEF GetStatus, Progress
<1>5. ASSUME NEW c \in Calls, WriteAttempt(c)
      PROVE  Progress'
    BY <1>0, <1>5 DEF WriteAttempt, Finish, Goto, Progress
<1>6. ASSUME NEW c \in Calls, WritePayment(c)
      PROVE  Progress'
    BY <1>0, <1>6 DEF WritePayment, Finish, Goto, AfterPayment, Progress, AlreadySettled
<1>7. ASSUME NEW c \in Calls, PostLedger(c)
      PROVE  Progress'
    BY <1>0, <1>7 DEF PostLedger, Goto, Progress, CallKnows
<1>8. ASSUME NEW c \in Calls, MarkPaid(c)
      PROVE  Progress'
    BY <1>0, <1>8 DEF MarkPaid, PayInvoice, Goto, Progress
<1>9. ASSUME NEW c \in Calls, QueueActivation(c)
      PROVE  Progress'
    BY <1>0, <1>9 DEF QueueActivation, Finish, Progress
<1>10. ASSUME NEW c \in Calls, Deliver(c)
      PROVE  Progress'
    BY <1>0, <1>10 DEF Deliver, Start, Progress
<1>11. ASSUME NEW c \in Calls, Crash(c) \/ StatusThrows(c)
      PROVE  Progress'
    BY <1>0, <1>11 DEF Crash, MidBooking, StatusThrows, Finish, Progress
<1>12. ASSUME NEW c \in Calls, NEW p \in Payments, Sweep(c, p)
      PROVE  Progress'
    BY <1>0, <1>12 DEF Sweep, Start, Progress
<1>13. ASSUME UNCHANGED <<pc, kind, on, answer, ledger, swept, paidOnce>>
      PROVE  Progress'
    BY <1>0, <1>13 DEF Progress
<1>14. ASSUME NEW p \in Payments,
             \/ CreatePayment(p) \/ AskProvider(p) \/ RecordAttempt(p) \/ RecordCommission(p)
             \/ GiveUp(p) \/ Customer(p)
      PROVE  UNCHANGED <<pc, kind, on, answer, ledger, swept, paidOnce>>
    BY <1>14 DEF CreatePayment, AskProvider, RecordAttempt, RecordCommission, GiveUp, Customer
<1>15. ASSUME NEW d \in Clerks,
             \/ ListOverdue(d) \/ ReadForVoid(d) \/ WriteOverdue(d) \/ WriteVoid(d)
             \/ CreateCreditNote(d)
      PROVE  UNCHANGED <<pc, kind, on, answer, ledger, swept, paidOnce>>
    BY <1>15 DEF ListOverdue, ReadForVoid, WriteOverdue, WriteVoid, CreateCreditNote, Take
<1>16. CASE UNCHANGED vars
    BY <1>13, <1>16 DEF vars
<1>17. QED
    BY <1>1, <1>2, <1>3, <1>4, <1>5, <1>6, <1>7, <1>8, <1>9, <1>10, <1>11, <1>12, <1>13, <1>14,
       <1>15, <1>16
       DEF Next, CreationStep, CallStep, ClerkStep

(* Whoever is responsible for a payment books it before they leave, unless they die. *)
LEMMA StepResponsible ==
    ASSUME IInv, [Next]_vars, NEW q \in Links, NEW e \in Calls, Responsible(e, q)
    PROVE  Responsible(e, q)' \/ Booked(q)' \/ q \in abandoned'
<1> USE DEF invoiceVars, paymentVars, creationVars, callVars, clerkVars, bounds, Booking
<1>0. /\ Progress
      /\ CallKnows
      /\ IdleKnowsNothing
      /\ Responsible(e, q)
      /\ pc \in [Calls -> {"idle", "found", "asked", "attempted", "post", "mark", "queue"}]
      /\ kind \in [Calls -> {"webhook", "sweep"}]
      /\ on \in [Calls -> Payments \cup {NoPayment}]
      /\ seen \in [Calls -> AttemptStatuses \cup {"none"}]
      /\ answer \in [Calls -> AttemptStatuses \cup {"none"}]
    BY DEF IInv, KnowledgeInv, SettledInv, TypeOK
<1>1. ASSUME NEW c \in Calls, GetStatus(c)
      PROVE  Responsible(e, q)' \/ Booked(q)' \/ q \in abandoned'
    BY <1>0, <1>1 DEF GetStatus, Responsible
<1>2. ASSUME NEW c \in Calls, WriteAttempt(c)
      PROVE  Responsible(e, q)' \/ Booked(q)' \/ q \in abandoned'
    BY <1>0, <1>2 DEF WriteAttempt, Finish, Goto, Responsible
<1>3. ASSUME NEW c \in Calls, WritePayment(c)
      PROVE  Responsible(e, q)' \/ Booked(q)' \/ q \in abandoned'
    BY <1>0, <1>3 DEF WritePayment, Finish, Goto, AfterPayment, Responsible, AlreadySettled
<1>4. ASSUME NEW c \in Calls, PostLedger(c)
      PROVE  Responsible(e, q)' \/ Booked(q)' \/ q \in abandoned'
    BY <1>0, <1>4 DEF PostLedger, Goto, Responsible
<1>5. ASSUME NEW c \in Calls, MarkPaid(c)
      PROVE  Responsible(e, q)' \/ Booked(q)' \/ q \in abandoned'
    BY <1>0, <1>5 DEF MarkPaid, PayInvoice, Goto, Responsible
<1>6. ASSUME NEW c \in Calls, QueueActivation(c)
      PROVE  Responsible(e, q)' \/ Booked(q)' \/ q \in abandoned'
    BY <1>0, <1>6 DEF QueueActivation, Finish, Responsible, Progress, Booked
<1>7. ASSUME NEW c \in Calls, Deliver(c)
      PROVE  Responsible(e, q)' \/ Booked(q)' \/ q \in abandoned'
    BY <1>0, <1>7 DEF Deliver, Start, Responsible
<1>8. ASSUME NEW c \in Calls, Crash(c) \/ StatusThrows(c)
      PROVE  Responsible(e, q)' \/ Booked(q)' \/ q \in abandoned'
    BY <1>0, <1>8 DEF Crash, MidBooking, StatusThrows, Finish, Responsible, Progress, Booked, Booking
<1>9. ASSUME NEW c \in Calls, NEW p \in Payments, Sweep(c, p)
      PROVE  Responsible(e, q)' \/ Booked(q)' \/ q \in abandoned'
    BY <1>0, <1>9 DEF Sweep, Start, Responsible
<1>10. ASSUME UNCHANGED <<pc, kind, on, seen, answer>>
      PROVE  Responsible(e, q)' \/ Booked(q)' \/ q \in abandoned'
    BY <1>0, <1>10 DEF Responsible
<1>11. ASSUME NEW p \in Payments,
             \/ CreatePayment(p) \/ AskProvider(p) \/ RecordAttempt(p) \/ RecordCommission(p)
             \/ PostCharge(p) \/ SettleCharge(p) \/ GiveUp(p) \/ Customer(p) \/ StripeWebhook(p)
      PROVE  UNCHANGED <<pc, kind, on, seen, answer>>
    BY <1>11 DEF CreatePayment, AskProvider, RecordAttempt, RecordCommission, PostCharge, SettleCharge, GiveUp,
       Customer, StripeWebhook, PayInvoice
<1>12. ASSUME NEW d \in Clerks,
             \/ ListOverdue(d) \/ ReadForVoid(d) \/ WriteOverdue(d) \/ WriteVoid(d)
             \/ CreateCreditNote(d)
      PROVE  UNCHANGED <<pc, kind, on, seen, answer>>
    BY <1>12 DEF ListOverdue, ReadForVoid, WriteOverdue, WriteVoid, CreateCreditNote, Take
<1>13. CASE UNCHANGED vars
    BY <1>10, <1>13 DEF vars
<1>14. QED
    BY <1>1, <1>2, <1>3, <1>4, <1>5, <1>6, <1>7, <1>8, <1>9, <1>10, <1>11, <1>12, <1>13
       DEF Next, CreationStep, CallStep, ClerkStep

(* A success that is new is the responsibility of the call that wrote it. *)
LEMMA StepSucceeded ==
    ASSUME IInv, [Next]_vars, NEW q \in Links, Succeeded(q)'
    PROVE  Succeeded(q) \/ Carried(q)'
<1> USE DEF invoiceVars, paymentVars, creationVars, callVars, clerkVars, bounds, Booking, Links
<1>0. /\ CallKnows
      /\ CreationKnows
      /\ IdleKnowsNothing
      /\ Succeeded(q)'
      /\ result \in [Payments -> AttemptStatuses \cup {"none"}]
      /\ attempt \in [Payments -> AttemptStatuses \cup {"none"}]
      /\ pc \in [Calls -> {"idle", "found", "asked", "attempted", "post", "mark", "queue"}]
      /\ kind \in [Calls -> {"webhook", "sweep"}]
      /\ on \in [Calls -> Payments \cup {NoPayment}]
      /\ seen \in [Calls -> AttemptStatuses \cup {"none"}]
      /\ answer \in [Calls -> AttemptStatuses \cup {"none"}]
    BY DEF IInv, KnowledgeInv, TypeOK
<1>1. ASSUME NEW p \in Payments, RecordAttempt(p)
      PROVE  Succeeded(q) \/ Carried(q)'
    BY <1>0, <1>1 DEF RecordAttempt, Succeeded, CreationKnows
<1>2. ASSUME NEW c \in Calls, WriteAttempt(c)
      PROVE  Succeeded(q) \/ Carried(q)'
    BY <1>0, <1>2 DEF WriteAttempt, Finish, Goto, Succeeded, Carried, Responsible, CallKnows, Unsettled
<1>3. ASSUME NEW c \in Calls, WritePayment(c)
      PROVE  Succeeded(q) \/ Carried(q)'
    BY <1>0, <1>3 DEF WritePayment, Finish, Goto, AfterPayment, Succeeded
<1>4. ASSUME NEW c \in Calls, QueueActivation(c)
      PROVE  Succeeded(q) \/ Carried(q)'
    BY <1>0, <1>4 DEF QueueActivation, Finish, Succeeded
<1>5. ASSUME NEW c \in Calls, Deliver(c)
      PROVE  Succeeded(q) \/ Carried(q)'
    BY <1>0, <1>5 DEF Deliver, Start, Succeeded
<1>6. ASSUME NEW c \in Calls, Crash(c) \/ StatusThrows(c)
      PROVE  Succeeded(q) \/ Carried(q)'
    BY <1>0, <1>6 DEF Crash, MidBooking, StatusThrows, Finish, Succeeded
<1>7. ASSUME NEW c \in Calls, NEW p \in Payments, Sweep(c, p)
      PROVE  Succeeded(q) \/ Carried(q)'
    BY <1>0, <1>7 DEF Sweep, Start, Succeeded
<1>8. ASSUME UNCHANGED <<attempt, on, seen>>
      PROVE  Succeeded(q) \/ Carried(q)'
    BY <1>0, <1>8 DEF Succeeded
<1>9. ASSUME NEW p \in Payments,
             \/ CreatePayment(p) \/ AskProvider(p) \/ RecordCommission(p) \/ PostCharge(p)
             \/ SettleCharge(p) \/ GiveUp(p) \/ Customer(p) \/ StripeWebhook(p)
      PROVE  UNCHANGED <<attempt, on, seen>>
    BY <1>9 DEF CreatePayment, AskProvider, RecordCommission, PostCharge, SettleCharge, GiveUp, Customer,
       StripeWebhook, PayInvoice
<1>10. ASSUME NEW c \in Calls, GetStatus(c) \/ PostLedger(c) \/ MarkPaid(c)
      PROVE  UNCHANGED <<attempt, on, seen>>
    BY <1>10 DEF GetStatus, PostLedger, MarkPaid, Goto, PayInvoice
<1>11. ASSUME NEW d \in Clerks,
             \/ ListOverdue(d) \/ ReadForVoid(d) \/ WriteOverdue(d) \/ WriteVoid(d)
             \/ CreateCreditNote(d)
      PROVE  UNCHANGED <<attempt, on, seen>>
    BY <1>11 DEF ListOverdue, ReadForVoid, WriteOverdue, WriteVoid, CreateCreditNote, Take
<1>12. CASE UNCHANGED vars
    BY <1>8, <1>12 DEF vars
<1>13. QED
    BY <1>1, <1>2, <1>3, <1>4, <1>5, <1>6, <1>7, <1>8, <1>9, <1>10, <1>11, <1>12
       DEF Next, CreationStep, CallStep, ClerkStep

(* So no success of a link is forgotten. *)
LEMMA StepLinks == IInv /\ [Next]_vars => LinkIsCarried'
<1> SUFFICES ASSUME IInv, [Next]_vars, NEW q \in Links, Succeeded(q)'
             PROVE  Carried(q)'
    BY DEF LinkIsCarried, Links
<1>1. CASE Carried(q)'
    BY <1>1
<1>2. CASE Succeeded(q)
    <2>1. Carried(q)
        BY <1>2 DEF IInv, SettledInv, LinkIsCarried
    <2>2. CASE Booked(q) \/ q \in abandoned
        BY <2>2, StepMonotone, StepType DEF Monotone, Booked, Carried, Links, IInv, TypeOK
    <2>3. CASE \E c \in Calls : Responsible(c, q)
        BY <2>3, StepResponsible DEF Carried
    <2>4. QED
        BY <2>1, <2>2, <2>3 DEF Carried
<1>3. QED
    BY <1>1, <1>2, StepSucceeded


(* A charge that succeeded is booked by the request that made it, or has already been. *)
LEMMA StepCharges == IInv /\ [Next]_vars => ChargeIsCarried'
<1> SUFFICES ASSUME IInv, [Next]_vars
             PROVE  ChargeIsCarried'
    OBVIOUS
<1> USE DEF invoiceVars, paymentVars, creationVars, callVars, clerkVars, bounds, Links, Booked
<1>0. /\ ChargeIsCarried
      /\ CallKnows
      /\ CreationKnows
      /\ ppc \in [Payments -> {"idle", "created", "asked", "recorded", "posted", "done", "died"}]
      /\ result \in [Payments -> AttemptStatuses \cup {"none"}]
      /\ attempt \in [Payments -> AttemptStatuses \cup {"none"}]
      /\ ledger \in [Payments -> Nat]
      /\ swept \in SUBSET Payments
      /\ paidOnce \in SUBSET Invoices
      /\ abandoned \in SUBSET Payments
      /\ pc \in [Calls -> {"idle", "found", "asked", "attempted", "post", "mark", "queue"}]
      /\ on \in [Calls -> Payments \cup {NoPayment}]
    BY DEF IInv, KnowledgeInv, SettledInv, TypeOK
<1>1. ASSUME NEW p \in Payments, CreatePayment(p)
      PROVE  ChargeIsCarried'
    BY <1>0, <1>1 DEF CreatePayment, ChargeIsCarried, CreationKnows
<1>2. ASSUME NEW p \in Payments, AskProvider(p)
      PROVE  ChargeIsCarried'
    BY <1>0, <1>2 DEF AskProvider, ChargeIsCarried, CreationKnows
<1>3. ASSUME NEW p \in Payments, RecordAttempt(p)
      PROVE  ChargeIsCarried'
    BY <1>0, <1>3 DEF RecordAttempt, ChargeIsCarried, CreationKnows
<1>4. ASSUME NEW p \in Payments, RecordCommission(p)
      PROVE  ChargeIsCarried'
    BY <1>0, <1>4 DEF RecordCommission, ChargeIsCarried
<1>5. ASSUME NEW p \in Payments, PostCharge(p)
      PROVE  ChargeIsCarried'
    BY <1>0, <1>5 DEF PostCharge, ChargeIsCarried, CreationKnows
<1>6. ASSUME NEW p \in Payments, SettleCharge(p)
      PROVE  ChargeIsCarried'
    BY <1>0, <1>6 DEF SettleCharge, PayInvoice, ChargeIsCarried
<1>7. ASSUME NEW p \in Payments, GiveUp(p)
      PROVE  ChargeIsCarried'
    BY <1>0, <1>7 DEF GiveUp, ChargeIsCarried
<1>8. ASSUME NEW p \in Payments, StripeWebhook(p)
      PROVE  ChargeIsCarried'
    BY <1>0, <1>8 DEF StripeWebhook, PayInvoice, ChargeIsCarried
<1>9. ASSUME NEW c \in Calls, WriteAttempt(c)
      PROVE  ChargeIsCarried'
    BY <1>0, <1>9 DEF WriteAttempt, Finish, Goto, ChargeIsCarried, CallKnows
<1>10. ASSUME NEW c \in Calls, PostLedger(c)
      PROVE  ChargeIsCarried'
    BY <1>0, <1>10 DEF PostLedger, Goto, ChargeIsCarried, CallKnows
<1>11. ASSUME NEW c \in Calls, MarkPaid(c)
      PROVE  ChargeIsCarried'
    BY <1>0, <1>11 DEF MarkPaid, PayInvoice, Goto, ChargeIsCarried
<1>12. ASSUME NEW c \in Calls, Crash(c) \/ StatusThrows(c)
      PROVE  ChargeIsCarried'
    BY <1>0, <1>12 DEF Crash, MidBooking, StatusThrows, Finish, ChargeIsCarried
<1>13. ASSUME UNCHANGED <<ppc, attempt, ledger, swept, paidOnce, abandoned>>
      PROVE  ChargeIsCarried'
    BY <1>0, <1>13 DEF ChargeIsCarried
<1>14. ASSUME NEW p \in Payments, Customer(p)
      PROVE  UNCHANGED <<ppc, attempt, ledger, swept, paidOnce, abandoned>>
    BY <1>14 DEF Customer
<1>15. ASSUME NEW c \in Calls,
             \/ GetStatus(c) \/ WritePayment(c) \/ QueueActivation(c) \/ Deliver(c)
             \/ \E p \in Payments : Sweep(c, p)
      PROVE  UNCHANGED <<ppc, attempt, ledger, swept, paidOnce, abandoned>>
    BY <1>15 DEF GetStatus, WritePayment, QueueActivation, Deliver, Sweep, AfterPayment, Finish, Goto, Start
<1>16. ASSUME NEW d \in Clerks,
             \/ ListOverdue(d) \/ ReadForVoid(d) \/ WriteOverdue(d) \/ WriteVoid(d)
             \/ CreateCreditNote(d)
      PROVE  UNCHANGED <<ppc, attempt, ledger, swept, paidOnce, abandoned>>
    BY <1>16 DEF ListOverdue, ReadForVoid, WriteOverdue, WriteVoid, CreateCreditNote, Take
<1>17. CASE UNCHANGED vars
    BY <1>13, <1>17 DEF vars
<1>18. QED
    BY <1>1, <1>2, <1>3, <1>4, <1>5, <1>6, <1>7, <1>8, <1>9, <1>10, <1>11, <1>12, <1>13, <1>14,
       <1>15, <1>16, <1>17
       DEF Next, CreationStep, CallStep, ClerkStep

(* A call that starts while another is at work on the payment marks it as overlapped. *)
LEMMA StepOneAtATime == IInv /\ [Next]_vars => OneAtATime'
<1> SUFFICES ASSUME IInv, [Next]_vars
             PROVE  OneAtATime'
    OBVIOUS
<1> USE DEF invoiceVars, paymentVars, creationVars, callVars, clerkVars, bounds
<1>0. /\ OneAtATime
      /\ pc \in [Calls -> {"idle", "found", "asked", "attempted", "post", "mark", "queue"}]
      /\ on \in [Calls -> Payments \cup {NoPayment}]
      /\ overlapped \in SUBSET Payments
    BY DEF IInv, KnowledgeInv, QuietInv, TypeOK
<1>1. ASSUME NEW c \in Calls, GetStatus(c)
      PROVE  OneAtATime'
    BY <1>0, <1>1 DEF GetStatus, OneAtATime
<1>2. ASSUME NEW c \in Calls, WriteAttempt(c)
      PROVE  OneAtATime'
    BY <1>0, <1>2 DEF WriteAttempt, Finish, Goto, OneAtATime
<1>3. ASSUME NEW c \in Calls, WritePayment(c)
      PROVE  OneAtATime'
    BY <1>0, <1>3 DEF WritePayment, Finish, Goto, AfterPayment, OneAtATime
<1>4. ASSUME NEW c \in Calls, PostLedger(c)
      PROVE  OneAtATime'
    BY <1>0, <1>4 DEF PostLedger, Goto, OneAtATime
<1>5. ASSUME NEW c \in Calls, MarkPaid(c)
      PROVE  OneAtATime'
    BY <1>0, <1>5 DEF MarkPaid, PayInvoice, Goto, OneAtATime
<1>6. ASSUME NEW c \in Calls, QueueActivation(c)
      PROVE  OneAtATime'
    BY <1>0, <1>6 DEF QueueActivation, Finish, OneAtATime
<1>7. ASSUME NEW c \in Calls, Deliver(c)
      PROVE  OneAtATime'
    BY <1>0, <1>7 DEF Deliver, Start, OneAtATime, Active
<1>8. ASSUME NEW c \in Calls, Crash(c) \/ StatusThrows(c)
      PROVE  OneAtATime'
    BY <1>0, <1>8 DEF Crash, MidBooking, StatusThrows, Finish, OneAtATime
<1>9. ASSUME NEW c \in Calls, NEW p \in Payments, Sweep(c, p)
      PROVE  OneAtATime'
    BY <1>0, <1>9 DEF Sweep, Start, OneAtATime, Active
<1>10. ASSUME UNCHANGED <<pc, on, overlapped>>
      PROVE  OneAtATime'
    BY <1>0, <1>10 DEF OneAtATime
<1>11. ASSUME NEW p \in Payments,
             \/ CreatePayment(p) \/ AskProvider(p) \/ RecordAttempt(p) \/ RecordCommission(p)
             \/ PostCharge(p) \/ SettleCharge(p) \/ GiveUp(p) \/ Customer(p) \/ StripeWebhook(p)
      PROVE  UNCHANGED <<pc, on, overlapped>>
    BY <1>11 DEF CreatePayment, AskProvider, RecordAttempt, RecordCommission, PostCharge, SettleCharge, GiveUp,
       Customer, StripeWebhook, PayInvoice
<1>12. ASSUME NEW d \in Clerks,
             \/ ListOverdue(d) \/ ReadForVoid(d) \/ WriteOverdue(d) \/ WriteVoid(d)
             \/ CreateCreditNote(d)
      PROVE  UNCHANGED <<pc, on, overlapped>>
    BY <1>12 DEF ListOverdue, ReadForVoid, WriteOverdue, WriteVoid, CreateCreditNote, Take
<1>13. CASE UNCHANGED vars
    BY <1>10, <1>13 DEF vars
<1>14. QED
    BY <1>1, <1>2, <1>3, <1>4, <1>5, <1>6, <1>7, <1>8, <1>9, <1>10, <1>11, <1>12, <1>13
       DEF Next, CreationStep, CallStep, ClerkStep

(* The attempt keeps what a call wrote while the call is alone with it. *)
LEMMA StepLastWord == IInv /\ [Next]_vars => LastWord'
<1> SUFFICES ASSUME IInv, [Next]_vars
             PROVE  LastWord'
    OBVIOUS
<1> USE DEF invoiceVars, paymentVars, creationVars, callVars, clerkVars, bounds, Booking
<1>0. /\ LastWord
      /\ OneAtATime
      /\ CallKnows
      /\ CreationKnows
      /\ pc \in [Calls -> {"idle", "found", "asked", "attempted", "post", "mark", "queue"}]
      /\ kind \in [Calls -> {"webhook", "sweep"}]
      /\ on \in [Calls -> Payments \cup {NoPayment}]
      /\ seen \in [Calls -> AttemptStatuses \cup {"none"}]
      /\ answer \in [Calls -> AttemptStatuses \cup {"none"}]
      /\ overlapped \in SUBSET Payments
      /\ attempt \in [Payments -> AttemptStatuses \cup {"none"}]
      /\ ppc \in [Payments -> {"idle", "created", "asked", "recorded", "posted", "done", "died"}]
      /\ result \in [Payments -> AttemptStatuses \cup {"none"}]
    BY DEF IInv, KnowledgeInv, QuietInv, TypeOK
<1>1. ASSUME NEW p \in Payments, RecordAttempt(p)
      PROVE  LastWord'
    BY <1>0, <1>1 DEF RecordAttempt, LastWord, CallKnows, CreationKnows
<1>2. ASSUME NEW c \in Calls, GetStatus(c)
      PROVE  LastWord'
    BY <1>0, <1>2 DEF GetStatus, LastWord
<1>3. ASSUME NEW c \in Calls, WriteAttempt(c)
      PROVE  LastWord'
    BY <1>0, <1>3 DEF WriteAttempt, Finish, Goto, LastWord, OneAtATime, CallKnows, Links
<1>4. ASSUME NEW c \in Calls, WritePayment(c)
      PROVE  LastWord'
    BY <1>0, <1>4 DEF WritePayment, Finish, Goto, AfterPayment, LastWord
<1>5. ASSUME NEW c \in Calls, PostLedger(c)
      PROVE  LastWord'
    BY <1>0, <1>5 DEF PostLedger, Goto, LastWord
<1>6. ASSUME NEW c \in Calls, MarkPaid(c)
      PROVE  LastWord'
    BY <1>0, <1>6 DEF MarkPaid, PayInvoice, Goto, LastWord
<1>7. ASSUME NEW c \in Calls, QueueActivation(c)
      PROVE  LastWord'
    BY <1>0, <1>7 DEF QueueActivation, Finish, LastWord
<1>8. ASSUME NEW c \in Calls, Deliver(c)
      PROVE  LastWord'
    BY <1>0, <1>8 DEF Deliver, Start, LastWord
<1>9. ASSUME NEW c \in Calls, Crash(c) \/ StatusThrows(c)
      PROVE  LastWord'
    BY <1>0, <1>9 DEF Crash, MidBooking, StatusThrows, Finish, LastWord
<1>10. ASSUME NEW c \in Calls, NEW p \in Payments, Sweep(c, p)
      PROVE  LastWord'
    BY <1>0, <1>10 DEF Sweep, Start, LastWord
<1>11. ASSUME UNCHANGED <<pc, on, answer, overlapped, attempt>>
      PROVE  LastWord'
    BY <1>0, <1>11 DEF LastWord
<1>12. ASSUME NEW p \in Payments,
             \/ CreatePayment(p) \/ AskProvider(p) \/ RecordCommission(p) \/ PostCharge(p)
             \/ SettleCharge(p) \/ GiveUp(p) \/ Customer(p) \/ StripeWebhook(p)
      PROVE  UNCHANGED <<pc, on, answer, overlapped, attempt>>
    BY <1>12 DEF CreatePayment, AskProvider, RecordCommission, PostCharge, SettleCharge, GiveUp, Customer,
       StripeWebhook, PayInvoice
<1>13. ASSUME NEW d \in Clerks,
             \/ ListOverdue(d) \/ ReadForVoid(d) \/ WriteOverdue(d) \/ WriteVoid(d)
             \/ CreateCreditNote(d)
      PROVE  UNCHANGED <<pc, on, answer, overlapped, attempt>>
    BY <1>13 DEF ListOverdue, ReadForVoid, WriteOverdue, WriteVoid, CreateCreditNote, Take
<1>14. CASE UNCHANGED vars
    BY <1>11, <1>14 DEF vars
<1>15. QED
    BY <1>1, <1>2, <1>3, <1>4, <1>5, <1>6, <1>7, <1>8, <1>9, <1>10, <1>11, <1>12, <1>13, <1>14
       DEF Next, CreationStep, CallStep, ClerkStep

(* Once a payment has its entry, the calls that come know that it is settled. *)
LEMMA StepOneEntry == IInv /\ [Next]_vars => OneEntry'
<1> SUFFICES ASSUME IInv, [Next]_vars
             PROVE  OneEntry'
    OBVIOUS
<1> USE DEF invoiceVars, paymentVars, creationVars, callVars, clerkVars, bounds, Booking, Links
<1>0. /\ OneEntry
      /\ OneAtATime
      /\ LastWord
      /\ CallKnows
      /\ IdleKnowsNothing
      /\ CreationKnows
      /\ MoneyFirst
      /\ pc \in [Calls -> {"idle", "found", "asked", "attempted", "post", "mark", "queue"}]
      /\ kind \in [Calls -> {"webhook", "sweep"}]
      /\ on \in [Calls -> Payments \cup {NoPayment}]
      /\ seen \in [Calls -> AttemptStatuses \cup {"none"}]
      /\ answer \in [Calls -> AttemptStatuses \cup {"none"}]
      /\ overlapped \in SUBSET Payments
      /\ attempt \in [Payments -> AttemptStatuses \cup {"none"}]
      /\ ledger \in [Payments -> Nat]
      /\ ppc \in [Payments -> {"idle", "created", "asked", "recorded", "posted", "done", "died"}]
      /\ result \in [Payments -> AttemptStatuses \cup {"none"}]
    BY DEF IInv, KnowledgeInv, QuietInv, TypeOK
<1>1. ASSUME NEW p \in Payments, RecordAttempt(p)
      PROVE  OneEntry'
    BY <1>0, <1>1 DEF RecordAttempt, OneEntry, CreationKnows
<1>2. ASSUME NEW p \in Payments, PostCharge(p)
      PROVE  OneEntry'
    BY <1>0, <1>2 DEF PostCharge, OneEntry
<1>3. ASSUME NEW c \in Calls, GetStatus(c)
      PROVE  OneEntry'
    BY <1>0, <1>3 DEF GetStatus, OneEntry, MoneyFirst, MapStatus
<1>4. ASSUME NEW c \in Calls, WriteAttempt(c)
      PROVE  OneEntry'
    BY <1>0, <1>4 DEF WriteAttempt, Finish, Goto, OneEntry, CallKnows
<1>5. ASSUME NEW c \in Calls, WritePayment(c)
      PROVE  OneEntry'
    BY <1>0, <1>5 DEF WritePayment, Finish, Goto, AfterPayment, OneEntry, AlreadySettled
<1>6. ASSUME NEW c \in Calls, PostLedger(c)
      PROVE  OneEntry'
    BY <1>0, <1>6 DEF PostLedger, Goto, OneEntry, CallKnows, OneAtATime, LastWord
<1>7. ASSUME NEW c \in Calls, MarkPaid(c)
      PROVE  OneEntry'
    BY <1>0, <1>7 DEF MarkPaid, PayInvoice, Goto, OneEntry
<1>8. ASSUME NEW c \in Calls, QueueActivation(c)
      PROVE  OneEntry'
    BY <1>0, <1>8 DEF QueueActivation, Finish, OneEntry
<1>9. ASSUME NEW c \in Calls, Deliver(c)
      PROVE  OneEntry'
    BY <1>0, <1>9 DEF Deliver, Start, OneEntry
<1>10. ASSUME NEW c \in Calls, Crash(c) \/ StatusThrows(c)
      PROVE  OneEntry'
    BY <1>0, <1>10 DEF Crash, MidBooking, StatusThrows, Finish, OneEntry
<1>11. ASSUME NEW c \in Calls, NEW p \in Payments, Sweep(c, p)
      PROVE  OneEntry'
    BY <1>0, <1>11 DEF Sweep, Start, OneEntry, Unsettled
<1>12. ASSUME UNCHANGED <<pc, kind, on, seen, answer, overlapped, attempt, ledger>>
      PROVE  OneEntry'
    BY <1>0, <1>12 DEF OneEntry
<1>13. ASSUME NEW p \in Payments,
             \/ CreatePayment(p) \/ AskProvider(p) \/ RecordCommission(p) \/ SettleCharge(p) \/ GiveUp(p)
             \/ Customer(p) \/ StripeWebhook(p)
      PROVE  UNCHANGED <<pc, kind, on, seen, answer, overlapped, attempt, ledger>>
    BY <1>13 DEF CreatePayment, AskProvider, RecordCommission, SettleCharge, GiveUp, Customer, StripeWebhook,
       PayInvoice
<1>14. ASSUME NEW d \in Clerks,
             \/ ListOverdue(d) \/ ReadForVoid(d) \/ WriteOverdue(d) \/ WriteVoid(d)
             \/ CreateCreditNote(d)
      PROVE  UNCHANGED <<pc, kind, on, seen, answer, overlapped, attempt, ledger>>
    BY <1>14 DEF ListOverdue, ReadForVoid, WriteOverdue, WriteVoid, CreateCreditNote, Take
<1>15. CASE UNCHANGED vars
    BY <1>12, <1>15 DEF vars
<1>16. QED
    BY <1>1, <1>2, <1>3, <1>4, <1>5, <1>6, <1>7, <1>8, <1>9, <1>10, <1>11, <1>12, <1>13, <1>14,
       <1>15
       DEF Next, CreationStep, CallStep, ClerkStep

(* The request that makes a charge enters it once. *)
LEMMA StepOneCharge == IInv /\ [Next]_vars => OneCharge'
<1> SUFFICES ASSUME IInv, [Next]_vars
             PROVE  OneCharge'
    OBVIOUS
<1> USE DEF invoiceVars, paymentVars, creationVars, callVars, clerkVars, bounds, Links
<1>0. /\ OneCharge
      /\ CallKnows
      /\ CreationKnows
      /\ ppc \in [Payments -> {"idle", "created", "asked", "recorded", "posted", "done", "died"}]
      /\ ledger \in [Payments -> Nat]
      /\ pc \in [Calls -> {"idle", "found", "asked", "attempted", "post", "mark", "queue"}]
      /\ on \in [Calls -> Payments \cup {NoPayment}]
    BY DEF IInv, KnowledgeInv, QuietInv, TypeOK
<1>1. ASSUME NEW p \in Payments, CreatePayment(p)
      PROVE  OneCharge'
    BY <1>0, <1>1 DEF CreatePayment, OneCharge
<1>2. ASSUME NEW p \in Payments, AskProvider(p)
      PROVE  OneCharge'
    BY <1>0, <1>2 DEF AskProvider, OneCharge
<1>3. ASSUME NEW p \in Payments, RecordAttempt(p)
      PROVE  OneCharge'
    BY <1>0, <1>3 DEF RecordAttempt, OneCharge, CreationKnows
<1>4. ASSUME NEW p \in Payments, RecordCommission(p)
      PROVE  OneCharge'
    BY <1>0, <1>4 DEF RecordCommission, OneCharge
<1>5. ASSUME NEW p \in Payments, PostCharge(p)
      PROVE  OneCharge'
    BY <1>0, <1>5 DEF PostCharge, OneCharge
<1>6. ASSUME NEW p \in Payments, SettleCharge(p)
      PROVE  OneCharge'
    BY <1>0, <1>6 DEF SettleCharge, PayInvoice, OneCharge
<1>7. ASSUME NEW p \in Payments, GiveUp(p)
      PROVE  OneCharge'
    BY <1>0, <1>7 DEF GiveUp, OneCharge
<1>8. ASSUME NEW c \in Calls, PostLedger(c)
      PROVE  OneCharge'
    BY <1>0, <1>8 DEF PostLedger, Goto, OneCharge, CallKnows
<1>9. ASSUME UNCHANGED <<ppc, ledger>>
      PROVE  OneCharge'
    BY <1>0, <1>9 DEF OneCharge
<1>10. ASSUME NEW p \in Payments, Customer(p) \/ StripeWebhook(p)
      PROVE  UNCHANGED <<ppc, ledger>>
    BY <1>10 DEF Customer, StripeWebhook, PayInvoice
<1>11. ASSUME NEW c \in Calls,
             \/ GetStatus(c) \/ WriteAttempt(c) \/ WritePayment(c) \/ MarkPaid(c) \/ QueueActivation(c)
             \/ Deliver(c) \/ Crash(c) \/ StatusThrows(c) \/ \E p \in Payments : Sweep(c, p)
      PROVE  UNCHANGED <<ppc, ledger>>
    BY <1>11 DEF GetStatus, WriteAttempt, WritePayment, MarkPaid, QueueActivation, Deliver, Crash, MidBooking, StatusThrows, Sweep,
       AfterPayment, Finish, Goto, PayInvoice, Start
<1>12. ASSUME NEW d \in Clerks,
             \/ ListOverdue(d) \/ ReadForVoid(d) \/ WriteOverdue(d) \/ WriteVoid(d)
             \/ CreateCreditNote(d)
      PROVE  UNCHANGED <<ppc, ledger>>
    BY <1>12 DEF ListOverdue, ReadForVoid, WriteOverdue, WriteVoid, CreateCreditNote, Take
<1>13. CASE UNCHANGED vars
    BY <1>9, <1>13 DEF vars
<1>14. QED
    BY <1>1, <1>2, <1>3, <1>4, <1>5, <1>6, <1>7, <1>8, <1>9, <1>10, <1>11, <1>12, <1>13
       DEF Next, CreationStep, CallStep, ClerkStep

(* A clerk who comes to an invoice that is being worked on marks it as raced. *)
LEMMA StepOneClerk == IInv /\ [Next]_vars => OneClerk'
<1> SUFFICES ASSUME IInv, [Next]_vars
             PROVE  OneClerk'
    OBVIOUS
<1> USE DEF invoiceVars, paymentVars, creationVars, callVars, clerkVars, bounds
<1>0. /\ OneClerk
      /\ dpc \in [Clerks -> {"idle", "overdue", "void", "credit"}]
      /\ about \in [Clerks -> Invoices \cup {NoInvoice}]
      /\ raced \in SUBSET Invoices
    BY DEF IInv, ClerkInv, TypeOK
<1>1. ASSUME NEW p \in Payments, SettleCharge(p)
      PROVE  OneClerk'
    BY <1>0, <1>1 DEF SettleCharge, PayInvoice, OneClerk
<1>2. ASSUME NEW p \in Payments, StripeWebhook(p)
      PROVE  OneClerk'
    BY <1>0, <1>2 DEF StripeWebhook, PayInvoice, OneClerk
<1>3. ASSUME NEW c \in Calls, MarkPaid(c)
      PROVE  OneClerk'
    BY <1>0, <1>3 DEF MarkPaid, PayInvoice, Goto, OneClerk
<1>4. ASSUME NEW d \in Clerks, ListOverdue(d)
      PROVE  OneClerk'
    BY <1>0, <1>4 DEF ListOverdue, Take, OneClerk, Busy
<1>5. ASSUME NEW d \in Clerks, ReadForVoid(d)
      PROVE  OneClerk'
    BY <1>0, <1>5 DEF ReadForVoid, Take, OneClerk, Busy
<1>6. ASSUME NEW d \in Clerks, WriteOverdue(d)
      PROVE  OneClerk'
    BY <1>0, <1>6 DEF WriteOverdue, OneClerk
<1>7. ASSUME NEW d \in Clerks, WriteVoid(d)
      PROVE  OneClerk'
    BY <1>0, <1>7 DEF WriteVoid, OneClerk
<1>8. ASSUME NEW d \in Clerks, CreateCreditNote(d)
      PROVE  OneClerk'
    BY <1>0, <1>8 DEF CreateCreditNote, OneClerk
<1>9. ASSUME UNCHANGED <<dpc, about, raced>>
      PROVE  OneClerk'
    BY <1>0, <1>9 DEF OneClerk
<1>10. ASSUME NEW p \in Payments,
             \/ CreatePayment(p) \/ AskProvider(p) \/ RecordAttempt(p) \/ RecordCommission(p)
             \/ PostCharge(p) \/ GiveUp(p) \/ Customer(p)
      PROVE  UNCHANGED <<dpc, about, raced>>
    BY <1>10 DEF CreatePayment, AskProvider, RecordAttempt, RecordCommission, PostCharge, GiveUp, Customer
<1>11. ASSUME NEW c \in Calls,
             \/ GetStatus(c) \/ WriteAttempt(c) \/ WritePayment(c) \/ PostLedger(c) \/ QueueActivation(c)
             \/ Deliver(c) \/ Crash(c) \/ StatusThrows(c) \/ \E p \in Payments : Sweep(c, p)
      PROVE  UNCHANGED <<dpc, about, raced>>
    BY <1>11 DEF GetStatus, WriteAttempt, WritePayment, PostLedger, QueueActivation, Deliver, Crash, MidBooking, StatusThrows, Sweep,
       AfterPayment, Finish, Goto, Start
<1>12. CASE UNCHANGED vars
    BY <1>9, <1>12 DEF vars
<1>13. QED
    BY <1>1, <1>2, <1>3, <1>4, <1>5, <1>6, <1>7, <1>8, <1>9, <1>10, <1>11, <1>12
       DEF Next, CreationStep, CallStep, ClerkStep

(* What a clerk has read of an invoice stays true until somebody races for it. *)
LEMMA StepClerkKnows == IInv /\ [Next]_vars => ClerkKnows'
<1> SUFFICES ASSUME IInv, [Next]_vars
             PROVE  ClerkKnows'
    OBVIOUS
<1> USE DEF invoiceVars, paymentVars, creationVars, callVars, clerkVars, bounds
<1>0. /\ ClerkKnows
      /\ OneClerk
      /\ OnlyRacesUndo
      /\ dpc \in [Clerks -> {"idle", "overdue", "void", "credit"}]
      /\ about \in [Clerks -> Invoices \cup {NoInvoice}]
      /\ raced \in SUBSET Invoices
      /\ credits \in [Invoices -> Nat]
      /\ paidOnce \in SUBSET Invoices
      /\ invoice \in [Invoices -> {"pending", "paid", "overdue", "void"}]
    BY DEF IInv, ClerkInv, TypeOK
<1>1. ASSUME NEW p \in Payments, SettleCharge(p)
      PROVE  ClerkKnows'
    BY <1>0, <1>1 DEF SettleCharge, PayInvoice, ClerkKnows, Busy
<1>2. ASSUME NEW p \in Payments, StripeWebhook(p)
      PROVE  ClerkKnows'
    BY <1>0, <1>2 DEF StripeWebhook, PayInvoice, ClerkKnows, Busy
<1>3. ASSUME NEW c \in Calls, MarkPaid(c)
      PROVE  ClerkKnows'
    BY <1>0, <1>3 DEF MarkPaid, PayInvoice, Goto, ClerkKnows, Busy
<1>4. ASSUME NEW d \in Clerks, ListOverdue(d)
      PROVE  ClerkKnows'
    BY <1>0, <1>4 DEF ListOverdue, Take, ClerkKnows, Busy, OnlyRacesUndo
<1>5. ASSUME NEW d \in Clerks, ReadForVoid(d)
      PROVE  ClerkKnows'
    BY <1>0, <1>5 DEF ReadForVoid, Take, ClerkKnows, Busy, OnlyRacesUndo
<1>6. ASSUME NEW d \in Clerks, WriteOverdue(d)
      PROVE  ClerkKnows'
    BY <1>0, <1>6 DEF WriteOverdue, ClerkKnows, OneClerk
<1>7. ASSUME NEW d \in Clerks, WriteVoid(d)
      PROVE  ClerkKnows'
    BY <1>0, <1>7 DEF WriteVoid, ClerkKnows, OneClerk
<1>8. ASSUME NEW d \in Clerks, CreateCreditNote(d)
      PROVE  ClerkKnows'
    BY <1>0, <1>8 DEF CreateCreditNote, ClerkKnows, OneClerk
<1>9. ASSUME UNCHANGED <<dpc, about, raced, credits, paidOnce, invoice>>
      PROVE  ClerkKnows'
    BY <1>0, <1>9 DEF ClerkKnows
<1>10. ASSUME NEW p \in Payments,
             \/ CreatePayment(p) \/ AskProvider(p) \/ RecordAttempt(p) \/ RecordCommission(p)
             \/ PostCharge(p) \/ GiveUp(p) \/ Customer(p)
      PROVE  UNCHANGED <<dpc, about, raced, credits, paidOnce, invoice>>
    BY <1>10 DEF CreatePayment, AskProvider, RecordAttempt, RecordCommission, PostCharge, GiveUp, Customer
<1>11. ASSUME NEW c \in Calls,
             \/ GetStatus(c) \/ WriteAttempt(c) \/ WritePayment(c) \/ PostLedger(c) \/ QueueActivation(c)
             \/ Deliver(c) \/ Crash(c) \/ StatusThrows(c) \/ \E p \in Payments : Sweep(c, p)
      PROVE  UNCHANGED <<dpc, about, raced, credits, paidOnce, invoice>>
    BY <1>11 DEF GetStatus, WriteAttempt, WritePayment, PostLedger, QueueActivation, Deliver, Crash, MidBooking, StatusThrows, Sweep,
       AfterPayment, Finish, Goto, Start
<1>12. CASE UNCHANGED vars
    BY <1>9, <1>12 DEF vars
<1>13. QED
    BY <1>1, <1>2, <1>3, <1>4, <1>5, <1>6, <1>7, <1>8, <1>9, <1>10, <1>11, <1>12
       DEF Next, CreationStep, CallStep, ClerkStep

(* A clerk who is alone with an invoice undoes nothing. *)
LEMMA StepOnlyRaces == IInv /\ [Next]_vars => OnlyRacesUndo'
<1> SUFFICES ASSUME IInv, [Next]_vars
             PROVE  OnlyRacesUndo'
    OBVIOUS
<1> USE DEF invoiceVars, paymentVars, creationVars, callVars, clerkVars, bounds
<1>0. /\ ClerkKnows
      /\ OneClerk
      /\ OnlyRacesUndo
      /\ dpc \in [Clerks -> {"idle", "overdue", "void", "credit"}]
      /\ about \in [Clerks -> Invoices \cup {NoInvoice}]
      /\ raced \in SUBSET Invoices
      /\ credits \in [Invoices -> Nat]
      /\ paidOnce \in SUBSET Invoices
      /\ invoice \in [Invoices -> {"pending", "paid", "overdue", "void"}]
    BY DEF IInv, ClerkInv, TypeOK
<1>1. ASSUME NEW p \in Payments, SettleCharge(p)
      PROVE  OnlyRacesUndo'
    BY <1>0, <1>1 DEF SettleCharge, PayInvoice, OnlyRacesUndo
<1>2. ASSUME NEW p \in Payments, StripeWebhook(p)
      PROVE  OnlyRacesUndo'
    BY <1>0, <1>2 DEF StripeWebhook, PayInvoice, OnlyRacesUndo
<1>3. ASSUME NEW c \in Calls, MarkPaid(c)
      PROVE  OnlyRacesUndo'
    BY <1>0, <1>3 DEF MarkPaid, PayInvoice, Goto, OnlyRacesUndo
<1>4. ASSUME NEW d \in Clerks, ListOverdue(d)
      PROVE  OnlyRacesUndo'
    BY <1>0, <1>4 DEF ListOverdue, Take, OnlyRacesUndo
<1>5. ASSUME NEW d \in Clerks, ReadForVoid(d)
      PROVE  OnlyRacesUndo'
    BY <1>0, <1>5 DEF ReadForVoid, Take, OnlyRacesUndo
<1>6. ASSUME NEW d \in Clerks, WriteOverdue(d)
      PROVE  OnlyRacesUndo'
    BY <1>0, <1>6 DEF WriteOverdue, OnlyRacesUndo, ClerkKnows
<1>7. ASSUME NEW d \in Clerks, WriteVoid(d)
      PROVE  OnlyRacesUndo'
    BY <1>0, <1>7 DEF WriteVoid, OnlyRacesUndo, ClerkKnows
<1>8. ASSUME NEW d \in Clerks, CreateCreditNote(d)
      PROVE  OnlyRacesUndo'
    BY <1>0, <1>8 DEF CreateCreditNote, OnlyRacesUndo, ClerkKnows
<1>9. ASSUME UNCHANGED <<raced, credits, paidOnce, invoice>>
      PROVE  OnlyRacesUndo'
    BY <1>0, <1>9 DEF OnlyRacesUndo
<1>10. ASSUME NEW p \in Payments,
             \/ CreatePayment(p) \/ AskProvider(p) \/ RecordAttempt(p) \/ RecordCommission(p)
             \/ PostCharge(p) \/ GiveUp(p) \/ Customer(p)
      PROVE  UNCHANGED <<raced, credits, paidOnce, invoice>>
    BY <1>10 DEF CreatePayment, AskProvider, RecordAttempt, RecordCommission, PostCharge, GiveUp, Customer
<1>11. ASSUME NEW c \in Calls,
             \/ GetStatus(c) \/ WriteAttempt(c) \/ WritePayment(c) \/ PostLedger(c) \/ QueueActivation(c)
             \/ Deliver(c) \/ Crash(c) \/ StatusThrows(c) \/ \E p \in Payments : Sweep(c, p)
      PROVE  UNCHANGED <<raced, credits, paidOnce, invoice>>
    BY <1>11 DEF GetStatus, WriteAttempt, WritePayment, PostLedger, QueueActivation, Deliver, Crash, MidBooking, StatusThrows, Sweep,
       AfterPayment, Finish, Goto, Start
<1>12. CASE UNCHANGED vars
    BY <1>9, <1>12 DEF vars
<1>13. QED
    BY <1>1, <1>2, <1>3, <1>4, <1>5, <1>6, <1>7, <1>8, <1>9, <1>10, <1>11, <1>12
       DEF Next, CreationStep, CallStep, ClerkStep

LEMMA Invariance == Spec => []IInv
<1>1. IInv /\ [Next]_vars => IInv'
    <2> SUFFICES ASSUME IInv, [Next]_vars
                 PROVE  IInv'
        OBVIOUS
    <2>1. TypeOK'
        BY StepType
    <2>2. KnowledgeInv'
        BY StepCallKnows, StepIdle, StepCreationKnows, StepMoneyFirst DEF KnowledgeInv
    <2>3. SettledInv'
        BY StepProgress, StepLinks, StepCharges DEF SettledInv
    <2>4. QuietInv'
        BY StepOneAtATime, StepLastWord, StepOneEntry, StepOneCharge DEF QuietInv
    <2>5. ClerkInv'
        BY StepOneClerk, StepClerkKnows, StepOnlyRaces DEF ClerkInv
    <2>6. QED
        BY <2>1, <2>2, <2>3, <2>4, <2>5 DEF IInv
<1>2. QED
    BY InitIInv, <1>1, PTL DEF Spec

(***************************************************************************)
(* Every column of the payment tables, and what the calls keep of them     *)
(* between their awaits, stays in its type.                                *)
(***************************************************************************)
THEOREM TypeCorrect == Spec => []TypeOK
<1>1. IInv => TypeOK
    BY DEF IInv
<1>2. QED
    BY Invariance, <1>1, PTL

(***************************************************************************)
(* Nothing is recorded as paid before the provider reports the money,      *)
(* however many webhooks, reconciliation passes and clerks interleave.     *)
(***************************************************************************)
THEOREM MoneyComesFirst == Spec => []MoneyFirst
<1>1. IInv => MoneyFirst
    BY DEF IInv, KnowledgeInv
<1>2. QED
    BY Invariance, <1>1, PTL

(***************************************************************************)
(* An attempt that says succeeded has been booked, is being booked, or a   *)
(* call died on its payment: no interleaving of the webhook with the       *)
(* reconciliation drops the booking between the two.                       *)
(***************************************************************************)
THEOREM SuccessIsBooked == Spec => []SettledIsBooked
<1>1. IInv => SettledIsBooked
    <2> SUFFICES ASSUME IInv, NEW p \in Payments, attempt[p] = "succeeded"
                 PROVE  Booked(p) \/ Active(p) \/ ppc[p] \in {"recorded", "posted"} \/ p \in abandoned
        BY DEF SettledIsBooked
    <2>1. CASE p \in Charged
        BY <2>1 DEF IInv, SettledInv, ChargeIsCarried
    <2>2. CASE p \in Links
        <3>1. Carried(p)
            BY <2>2 DEF IInv, SettledInv, LinkIsCarried, Succeeded
        <3>2. ASSUME NEW c \in Calls, Responsible(c, p)
              PROVE  Active(p)
            BY <3>2 DEF Responsible, Booking, Active
        <3>3. QED
            BY <3>1, <3>2 DEF Carried
    <2>3. QED
        BY <2>1, <2>2 DEF Links
<1>2. QED
    BY Invariance, <1>1, PTL

(***************************************************************************)
(* Deliveries and passes of a payment that do not overlap book it once.    *)
(***************************************************************************)
THEOREM OneLedgerEntry == Spec => []QuietIsIdempotent
<1>1. IInv => QuietIsIdempotent
    <2> SUFFICES ASSUME IInv, NEW p \in Payments, ledger[p] > 1
                 PROVE  p \in overlapped
        BY DEF QuietIsIdempotent
    <2>1. p \notin Charged
        BY DEF IInv, QuietInv, OneCharge, TypeOK
    <2>2. QED
        BY <2>1 DEF IInv, QuietInv, OneEntry, TypeOK, Links
<1>2. QED
    BY Invariance, <1>1, PTL

(***************************************************************************)
(* Only a clerk who was not alone with an invoice undoes its payment or    *)
(* its void, or credits it twice.                                          *)
(***************************************************************************)
THEOREM RacesUndo == Spec => []OnlyRacesUndo
<1>1. IInv => OnlyRacesUndo
    BY DEF IInv, ClerkInv
<1>2. QED
    BY Invariance, <1>1, PTL
=============================================================================
