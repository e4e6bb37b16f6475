# SiteLager: a verification project in TLA+

SiteLager rents out self-storage units: a NestJS API over Postgres (`src/apps/api/src`), a Next.js web application
(`src/apps/web`) and small shared packages. This directory holds TLA+ models of the API's stateful core, the TLC
configurations that check them on small instances, and theorems about them that TLAPS proves for every instance.

Paths below are relative to `src/apps/api/src/modules/` unless they say otherwise.

## How the program runs, and what that means for a model

- **Interleaving.** Every request is an `async` handler. Handlers of one or several processes interleave at every
  `await`, so a handler is cut into one action per database statement that other handlers can notice. Statements that
  only fill local variables are joined to the next one that depends on shared rows.
- **Transactions.** `$transaction` runs at Postgres' default isolation, READ COMMITTED: a row read by one statement may
  have changed when the next statement updates it by id. Outside transactions the same holds trivially.
- **Missing rows.** Prisma's `update` and `delete` of a row that is gone throw; `updateMany` and `deleteMany` do not.
- **Crashes.** A handler that throws, or whose process dies, stops where it is; what it has written stays.
- **Events.** `EventBusService` (`../events/event-bus.service.ts`) calls handlers in the same process and does not wait
  for them; an event is lost with its process.
- **Providers.** Mollie and Stripe are asked over the network; Mollie's webhook may come late, twice, out of order, at
  the same time as another, or never. What is not under `src/` is modelled from how the code uses it and marked
  external.

## Inventory

| Component | State | Operations | What is hard | What makes it correct |
|---|---|---|---|---|
| Background jobs (`jobs`, `platform`) | `BackgroundJob` rows | enqueue, claim, process, complete, fail, retry | two-statement claim, late fail, crash, retry | no job lost, none given up early, effects at least once, every job settles |
| Storefront, checkout, reservations (`storefront`, `checkout`, `reservations`, `operator-reservations`) | holds, sessions, reservations, agreements, first invoices, commissions | create session, confirm, reserve by lock token, desk | holds read before and used after awaits, purge, expiry, partial failure | a hold serves one request; a completed session is backed by a hold; first invoices are not forgotten |
| Payments (`payments`, `billing`) | invoices, payments, attempts, ledger, credit notes | payment link, charge, webhooks, reconciliation, overdue run, void | repeated and overlapping deliveries, stale answers, crash between attempt and booking | no booking before the money, no money without a booking, no undone payment |
| Invoice run, numbers, mandates (`billing`) | invoices, lines, sequences, mandates | runForDate, next, mandate life cycle | overlapping runs, upsert beside find | one invoice per agreement and month, one use of each number |
| Subscriptions (`subscriptions`) | subscription, its invoices, plan of the organisation | free plan, checkout, initial and recurring webhooks, reconcile | duplicate webhooks, replacement in several statements | at most one live subscription, plan agrees with it, periods do not overlap |
| Rental life cycle, agreements (`rental-lifecycle`, `agreements`, `operator-agreements`, `tenant-portal`) | agreements, signatories, termination requests | sign, readiness, activate and release, terminate | readiness read before several writes | no access before signatures and payment |
| Access control (`access-control`), event bus | credentials, the vendor's credentials | issue, release, suspend, restore, event handlers | vendor call before the unique row, lost events, missing tenant in events | every vendor credential has a row; an overdue tenant is locked out, a paying one let in |
| Unit status (`site-inventory` and its by-passers) | unit status, auditVersion, inventory events | transition, direct writes | optimistic version that others do not increment | status follows the transition table |
| Idempotency (`../common/middleware`) | idempotency records | middleware, stored response | two requests with one key | one execution per key |
| Team, invitations, plan limits, auth | members, invitations, sessions, counts | remove, invite, accept, create within limits | check then write | an owner remains; limits hold; a revoked invitation is not accepted |
| Documents, listings | version numbers, image lists | create version, add and remove image | read, upload, write | no number twice, no image lost |
| Notifications, webhooks, audit, operations, leads, pricing, reporting, web | rows and messages nobody decides on, queries, rendering | | | not modelled, see below |

Interactions: a confirmed checkout creates the agreement and the first invoice that Payments collects; a booked
payment queues a `rental.activate-ready` job, which the jobs table hands to the rental life cycle; the reconciliation
of payments and the overdue and invoice runs are themselves jobs; invoice and agreement events drive access control;
the plan that Subscriptions sets is the limit that the creation of units is counted against.

## Modules

| Module | Role |
|---|---|
| `Jobs` | The job table and the processes that drain it |
| `DeliveryQueue` | What the table promises: an abstract at-least-once queue, which `Jobs` implements |
| `Booking` | Sessions, holds, confirmations, the desk |
| `HoldRegister` | What holds promise: issued once, redeemed by one request or removed, which `Booking` implements |
| `Payments` | Links, charges, webhooks, reconciliation, overdue run, void |
| `AccessControl` | Credentials, the vendor's keys, suspension and restoration |
| `RentalLifecycle` | Sending, signing, activation by job and by desk, the event bus; extends `AccessControl` |
| `Subscriptions` | What an organisation pays the platform: checkouts, webhooks, standing orders, downgrades |
| `InvoiceRun` | Monthly runs, invoice numbers, imports |
| `Units` | The status of a unit, its version and its history |
| `Team` | Owners, staff, invitations |
| `Idempotency` | The middleware for requests with an Idempotency-Key |
| `Operations` | Incidents, inspections and their tasks |
| `Catalog` | Images of a listing, units under a plan's limit, versions of a document |
| `Office` | Puts the last six next to each other, each as a scene of its own |
| `MCJobs`, `MCBooking`, `MCPayments`, `MCRentals`, `MCSubscriptions`, `MCOffice` | The instances for TLC |
| `Jobs_proofs`, `Booking_proofs`, `Payments_proofs`, `Rentals_proofs`, `Subscriptions_proofs` | Inductive invariants, lemmas and theorems of each |
| `Idempotency_proofs`, `InvoiceRun_proofs`, `Office_proofs` | The same for the scenes of `Office`; the last one extends the other two |

Definitions that end in `_Something` and follow a comment "Faulty variant" are not used by the specifications: each is a
plausible bug in the definition after it, kept to confirm that some property notices it.

### Jobs

`status`, `attempts` and `runAt` are the columns of `BackgroundJob`; a worker is one call of `processNext`, or an
external caller of the claim, complete and fail endpoints. `ClaimRead` and `ClaimWrite` are the two statements of
`claimNext`; `Apply` is one round of a handler's loop (as in `sendSavedSearchAlerts`); `Complete` is `complete`;
`ThrowAndRead` and `FailWrite` are the two statements of `fail`; `Retry` is the platform console's `retryJob`; `Crash`
leaves the row as it is. A refinement maps the four statuses to what the rest of the system relies on (`DeliveryQueue`).

### Booking

A member of `Sessions` is a call of `createCheckoutSession` and names the hold and the session row it inserts:
`PurgeExpired`, `PickUnit`, then `InsertHold` and `InsertSession` in either order (`Promise.all`). A member of
`Requests` is a call of `confirmCheckout` or `createReservation` and names its reservation: `FindHold`, `Reserve`,
`ConsumeHold` or `LoseHold`, `CompleteSession`, `DraftAgreement`, `IssueInvoice`, `RecordCommission`. Time is reduced
to whether a hold and its session, which share one `expiresAt`, have expired. A listing that is not published when it
is looked up takes the path the code takes: with a unit found, the hold is inserted and the session's insert throws
(`stray`). The desk writes a reservation's status whatever it was, and drafts agreements by an upsert, after which the
reservation's status is a statement of its own (`ConvertReservation`). `confirmReservation` leaves a confirmed
reservation alone, which the model writes as confirming it again. A listing with a price on request is booked as an
instant one, which is what the code does; `SiteIsOwned` says whether there is an organisation to pay a commission. A
confirmation takes any live hold of its session's unit; `standing`, the holds that were there and unused when a call
read them, is history and lets `TakenOverFairly` say whose hold that may be.

### Payments

A call is one delivery of Mollie's webhook or one round of the reconciliation's loop: what it read (`seen`), what the
provider answered (`answer`), then `WriteAttempt`, `WritePayment`, and, where the code goes on, `PostLedger` (webhook
only), `MarkPaid`, `QueueActivation`. A payment is created by `createMolliePayment` (a link, with its commission) or
by `chargeInvoice` through Stripe (booked at once when it succeeds). A provider that cannot be asked ends the
delivery, or the whole pass (`StatusThrows`). A clerk is one round of `checkOverdueInvoices` or one `voidInvoice`. The
provider's statuses are the four that `mapMollieStatus` and `mapStatus` tell apart. Amounts, mandates and the choice
of the payment account are left out. Some variables are history: `paidOnce`, `swept`, `overlapped`, `raced`,
`abandoned` record what has happened so that a property can say "unless a call died" or "unless two overlapped"; no
action's guard reads them. `abandoned` is narrow: only a call that dies after the attempt was written as succeeded and
before the invoice was marked abandons its payment.

### RentalLifecycle and AccessControl

`status`, `signatories` and `row` are the rows of `Agreement`, `Signatory` and `AccessCredential`; `lock` is the
vendor's side of a key, which the code changes before its own row. An agreement is drafted at the desk, made by a
checkout (with the row of its signatory and, if it is priced, an invoice), or imported active with a paper signature,
an occupied unit and neither mandate nor credential (`Origins`). Operators send an agreement out (`SendStatus`,
`SendRows`). A sign call is `signMyAgreement` (find, write or create the row, check that all are signed, write the
status, queue the job) or, when `Direct`, `AgreementsService.signAgreement`. A call is one execution of
`activateIfReady`, of `activateAndRelease` or of the issue endpoint, statement by statement: `Readiness`, `Begin`, the
checks and the write of `activateAgreement`, `Emit`, `LookUp`, `CallAsks` and `CallCreates` (vendor first, then the
unique row), `CallReleases`, `Occupy`. `Entry` lists the desk's ways in and where each begins. The event handler of an
activation issues a credential too (`HandlerAsks`, `HandlerCreates`) in the process that emitted. When that handler
rejects, because the row exists or because the vendor or a query throws, nobody catches it and Node ends the process:
`ProcessDies` stops every call, handler, signing, payment and locker in it, and a job it was running keeps the status
`running`, which no later call takes up by itself (`spoiled`). Nothing else ends a process. A call that throws, at a
guard (`Throw`) or at any statement or vendor call (`CallThrows`), puts its job back into the queue while attempts are
left.

Money: `Pay` is a payment that the Mollie webhook or the reconciliation finds succeeded; it may leave another invoice
open, and `PayQueue` queues the activation, unless that fails (`PayStops`: the webhook swallows the error).
`CloseQuietly` is every other way in which an invoice is closed: `chargeInvoice`, Stripe's webhook and `voidInvoice`
queue no job, so an agreement that becomes ready by one of them waits for the desk, which `EarnedIsServed` excuses
(`spoiled`), as it does `signAgreement` and imports. `Bill` is the monthly run, after which an active agreement has an
open invoice again. A mandate is activated (`Grant` is `activateMandate`) or ends (`Revoke`; the schema has the
statuses, no service writes them).

A locker is one call of `suspendCredential` or `restoreCredential`, or one handler of an invoice event going through its
list of agreements: read the row, tell the vendor, write the row. Any of these may throw (`LockerThrows`): a desk's call
ends there, and a handler (`heard`) takes its process with it. `Reach` says whom an event is about: everybody for
INVOICE_OVERDUE, nobody for INVOICE_PAID.

### Subscriptions

`status`, `payId`, `orderId`, `end` are columns of `OrganisationSubscription`, `invoices` the rows of
`SubscriptionInvoice`. A worker is a place for one request: `createCheckout` (drop pending rows, open a row, bill it,
get a link, store it, stamp the invoice), `activateFree` (cancel the order, leave, start, set the plan), one call of
`handlePaymentWebhook` or `reconcileCheckout` (find the row; then `handleInitialPayment` or `handleRecurringPayment`).
Mollie is external: it decides payments, calls until it is answered and sometimes once more, and charges standing
orders, one charge at a time for each, as billing periods lie far apart. Prices, proration and dates are left out; a
period is a number. `slips` names what went wrong so far, and each property says which of these it does not stand:
`torn` (a request stopped between two writes that belong together), `overlap` (a paid first payment or a downgrade met
another one), `crowded` (two requests for one row), `upgrade` (an upgrade replaced a row whose standing order nobody
cancels), `revived` (a late payment brought a replaced row back), `overtaken` (a payment was decided while its older
status was being written). The last one is subtle: the older status may be written last, over an invoice that was
paid; the payment is then seen to become paid a second time, later, and sets the row's period back to its own, so that
the next charge is billed for a period that was paid before. `AnsweredIsBooked` stands every slip but this one.

### The back office: Office and its six scenes

The six parts share no state, so `Office` lets a behaviour be about one of them, and TLC's state space is the sum of
theirs, not the product. Nothing is assumed about their interaction; each is also a specification of its own.

- **InvoiceRun.** `active`, `created`, `number`, `lines`, `document` are an agreement's rows of one month; a run is
  one call of `runForDate`: `Begin` lists the active agreements, then for each one `TakeUp` or `Skip`, `DrawNumber`,
  `UpsertInvoice`, `WriteLines`, `StoreDocument`; a failure is caught and the run goes on (`Fail`), a process may die
  (`Stop`). `Import` is the transaction of `importExistingTenant`. Numbers are unique over all organisations, though
  each organisation counts for itself with the same prefix: `refused` records when that collision happens. The build
  specification says "Unique invoice number per organisation."
  (`src/docs/superpowers/specs/SITE_LAGER_MASTER_BUILD_SPEC.md:3523`).
- **Units.** `Read`, `Update` (guarded by `auditVersion`; `UpdateThrows`), `Note` are the statements of
  `transitionUnitStatus`; `Occupy`, `MoveOut`, `PatchUnit` and imports write the status directly.
- **Team.** `FindMember`, `CountOwners`, `RemoveMember`; `Invite`, `FindToRevoke`, `Revoke`; `FindToAccept` and the
  transaction `Join`, which a known address rolls back.
- **Idempotency.** `Purge` and `FindRecord` or `FindNothing`, `CreateRecord` or `CreateRejects`, `Handle`, `Save`, which
  nobody waits for. Failures of statements, handlers and servers, and expiry, are bounded by `MaxFailures`.
- **Operations.** An incident and its task are two statements, so are an inspection, its tasks (one per failed item) and
  its report; resolving closes the tasks first. Tasks are counted, not named.
- **Catalog.** Three read-then-write handlers: `addImage` and `removeImage` against `updateListing`;
  `assertCanCreateUnit` (plan, then count) and `createUnit` against the inventory's own route, deletion and a change
  of plan; `createVersion` against `storeGeneratedDocument`. Uploads and virus scans are the time between read and
  write.

As in the other modules, history variables (`crossed`, `broken`, `disturbed`, `torn`, `hasty`, `raced`, `crowded`,
`touched`, `cut`, `mixed`, `loose`, `forked`, ...) record that one named race has happened; no guard reads them. Each
property says "unless" exactly these, and thereby which races the code is open to.

## Runs

| Run | Instance | Shows |
|---|---|---|
| `jobs` | 2 jobs (one and two attempts, two and one effects), 2 workers, 1 retry, 1 crash | `RunningIsOwned`, `FailedIsExhausted`, the refinement `DeliversAtLeastOnce`, and, with fairness, `EveryJobSettles` |
| `jobs_idempotent` | the same table | violated: an effect applied twice ("Jobs must be idempotent") |
| `booking` | 2 units, 3 sessions, 2 requests of one customer, 1 desk call; one unit priced and instantly booked, one needing approval | `LoserHasWinner`, `CompletedIsBacked`, `NoSequentialDoubleHold`, `TakenOverFairly`, `FirstInvoice`, the refinement `HoldsAreSingleUse` |
| `booking_double` | the same, no desk call | violated: one unit reserved twice ("Double-booking must be prevented") |
| `payments` | 1 invoice, 1 link and 1 charge, 2 calls, 1 clerk at a time with 2 calls, 2 deliveries | `MoneyFirst`, `SettledIsBooked`, `QuietIsIdempotent`, `OnlyRacesUndo` |
| `payments_recovery` | 1 link, 2 calls, 1 crash | with fairness `EveryPaymentArrives` |
| `payments_idempotent` | 1 link, 2 calls, 2 deliveries | violated: two ledger entries ("Payment webhook handlers must be idempotent") |
| `rentals` | 1 agreement of any origin, 1 portal signer, 1 payment, 2 calls, 2 processes, 2 attempts, 1 event | `AccessIsEarned` and, with fairness, `EarnedIsServed` |
| `rentals_desk` | 1 agreement of any origin, 1 direct signer, 1 payment, 1 call, 2 lockers, 3 events | `ActiveIsIssued`, `LockAgrees` |
| `rentals_lockout` | 2 agreements of 2 tenants, 1 locker, 2 events | violated: a tenant is locked out for another one's debt ("Overdue tenant access can be marked suspended") |
| `subscriptions` | 2 checkouts, 1 downgrade, 2 charges, 2 workers, 3 events | `PlanIsPaidFor`, `OneCurrent`, `FreeIsFree`, `PeriodsAreDistinct`, `AnsweredIsBooked` |
| `office` | see below | `BilledOnce`, `NumbersHaveNoGaps`, `HistoryExplainsStatus`, `TransitionsAreAllowed`, `SomeOwner`, `InvitationsAgree`, `OneBodyPerKey`, `SucceedsOnce`, `TasksAgree`, `CatalogAgrees` |

One run for each module checks its type invariant. The scenes of `office` are: 3 agreements (one of them imported) of
2 organisations and 2 runs, 4 events; 2 desks, 5 events; 2 owners, 1 member of the staff, 2 invitations to one
address, 2 requests, 6 events; 3 requests with one key, one of them with another body, on 2 servers, 3 failures; 1
incident, 1 inspection with up to 2 failed items, 2 clerks, 5 events; 2 editors, 2 images, plans of 1 and 2 units, 3
documents, 5 events.

**Bounds.** Every race in the code is between two calls on one row, with a third event between their steps; so two
workers, two requests or two calls on one row, plus one crash, one retry, one purge or one clerk, produce each of
them. Three sessions are needed in `booking` because a request can take the hold of a session other than its own. To
keep the state space small, its third session is open before the others start (`MCSpec`). The bounded counters are
`MaxRetries`, `MaxCrashes`, `MaxDeskCalls`, `MaxDeliveries`, `MaxClerkCalls`, `MaxEvents`, `MaxAttempts` (a column),
`MaxInvoiceEvents`, `MaxUnitEvents`, `MaxTeamEvents`, `MaxFailures`, `MaxTaskEvents`, `MaxFindings` and
`MaxCatalogEvents`; each stands in a guard of the actions it counts, which its comment names. In `rentals` the two
jobs come from one signature and one payment, which meet in any order, since the invoice may be open or not at the
start and the mandate may come at any time; its one event is a second sending, a bill, a quiet closing, a call of the
desk or a failure. `rentals_desk` has the lockers, the direct signer and two more events instead, as the two together
outgrow TLC. `payments` has no crash, as one outgrows TLC beside the clerk and the charge; what a crash does is in
`payments_recovery` and in the theorems. In `subscriptions` two charges and two rows let a charge meet the one before
it, a first payment, or a downgrade, and no handler looks at more than one other row at a time. What takes longer is
out of that run's reach: the duplicate period that `overtaken` leads to needs three charges and six events (TLC finds
it with one checkout, if the property is stated without that slip), and so rests on the theorem. The theorems hold for
every value of the bounds. Identical sessions, requests and calls are interchangeable and declared symmetric in runs
without liveness. Deadlock is not checked: the system may stop when nobody calls it.

**Fairness.** `Jobs`: the clock advances while a job waits for it, and a worker's next step is eventually taken: a
scheduler keeps calling `process-next`, and a handler returns or throws. Nothing forces an enqueue, a retry, or a
crash. The repository contains the endpoint and not the scheduler, so this is an assumption on its deployment.
`Payments`: a call that has begun goes on (weak), and the reconciliation comes to each attempt that is still open
again and again (strong, since the attempt may be written back and forth by webhooks): the job lists all attempts in
`pending` or `pending_settlement`, oldest first, and stamps the ones it has looked at. A provider that cannot be asked
is uncaught there and ends the pass (`jobs/jobs.service.ts:112`), so for each payment the model assumes that it is not
asked in vain for ever (strong fairness of `GetStatus`), and for each open attempt that a pass gets to it: fewer than
50 older ones stay open, and none of them fails every time. The provider's decisions, customers, webhooks and clerks
are under no fairness. `RentalLifecycle`: a request and a handler that have begun go on (weak), and a queued job is
taken again and again as long as it is queued (strong, since it goes back to the queue after each failure and can be
taken by either call); jobs are retried at most `MaxAttempts` times, and one that was given up spoils its agreement.
Nobody has to sign, pay, send, grant a mandate, or call the desk. `Subscriptions` and `Office` have none. `Booking`
has none: every call may stop after each step, which is how its crashes are modelled.

## Proofs

TLAPS proves the following for any number of actors and rows and any value of the bounds. The assumptions on constants
are named in the modules and are types or disjointness only.

- **Jobs.** `TypeCorrect`, `NoLostRow` (`RunningIsOwned`), `NoEarlyFailure` (`FailedIsExhausted`) and `Delivery`
  (`DeliversAtLeastOnce`). `RunningIsOwned` is not inductive by itself: a claim, a fail and a complete overwrite the row
  blindly, so `IInv` adds what each worker's position says about the row: the job a worker holds exists (`HeldExists`),
  the attempts it read only grow (`SeenIsPast`), and what has been sent and what is left of its loop cover the job's
  effects (`DoneIsSent`) and nothing else (`TodoIsOwn`, `SentIsOwn`).
- **Booking.** `TypeCorrect`, `LosersLoseToWinners`, `CompletionIsBacked`, `HoldsDiffer`, `TakeoversAreFair`,
  `CheckoutIsBilled`, and the refinement `SingleUse`. The invariant has three groups: what a session knew when it
  picked (its unit is fixed before any row of it exists, and the holds it avoided exist); what a request knows of its
  hold (used holds, the history of redemptions and the position of the redeemer agree); and how a request's position
  determines which of its rows exist. `TakeoversAreFair` needs that a standing hold was avoided unless it had expired
  (`StandingAreAvoided`), and that a request which finds another session's hold has seen its own session unexpired
  (`FoundFairly`).
  `StepPersists` and `StepCauses` prove once what a step can change; the invariants follow from them by cases.
- **Payments.** `TypeCorrect`, `MoneyComesFirst`, `SuccessIsBooked`, `OneLedgerEntry`, `RacesUndo`. `MoneyFirst` needs
  that an answer `succeeded` which a call still holds was given by a provider whose `paid` is final. `SettledIsBooked`
  needs who is *responsible*: a success that is recorded, or that any call has read, is booked, abandoned, or carried by
  a call that will book it. `QuietIsIdempotent` needs that a payment without overlap has one call at a time, which
  finds its own word in the attempt. `OnlyRacesUndo` needs that a clerk who is alone with an invoice finds it as read.

- **Rentals.** `TypesHold`, `AccessIsEarnedHolds`, `ActiveIsIssuedHolds`, `LockAgreesHolds`. Positions of calls,
  handlers, jobs and lockers fit what they hold (`FitInv`). `AccessIsEarned` is about the past, because signatures and
  mandates may be gone when the write comes: a call that has passed a check carries that its agreement was signed and
  mandated at some time (`EarnedInv`). `ActiveIsIssued` needs who will still see to the row: the call that activated,
  or the handler of the event it emitted (`IssueInv`); whichever of the two fails on the unique row has found one
  there. `LockAgrees` needs that among lockers in one direction the vendor's state and the row differ only for one
  that is on its way (`LockInv`).
- **Subscriptions.** `TypesHold` and `PlanIsPaidForHolds`. A request that carries "paid" has it from Mollie, whose word
  is final (`PaymentsFit`), and a row whose first payment is paid is what activation and standing orders rest on. That a
  standing order is never cancelled which was not placed (the type of `standing`) is a counting argument over rows and
  the requests that are placing orders (`OrdersFit`).
  The other four rest on two chains of invariants, each over the one before, `CoreInv` - `SwitchInv` - `FreeInv` and
  `CoreInv` - `InvoiceInv` - `BookedInv` - `PeriodInv`:
  - `CoreInv`: a row never bears the payment of a charge, what a request was told of a first payment agrees with the
    row's status, and a row that has been charged never goes back to pending.
  - `OneCurrentHolds` (`SwitchInv`): until the first slip at most one request is on its way with a downgrade or a paid
    first payment, and its position says which rows are current meanwhile.
  - `FreeIsFreeHolds` (`FreeInv`): a row is created once, so the youngest current row, whose order a downgrade cancels,
    is the only current one, and no other row has an order; `OrdersFit` keeps the orders of a row that is being
    activated apart.
  - `InvoiceInv`: invoices are finite in number, differ in key and in payment, and one that a request holds from an
    earlier read is still there, though maybe with another status.
  - `AnsweredIsBookedHolds` (`BookedInv`): while no payment was overtaken, what a request has read is still its
    payment's status, and once past the invoice it has booked a paid one; a payment counts as answered only after
    that.
  - `PeriodsAreDistinctHolds` (`PeriodInv`): of two charges of a row one is settled before the other is made; until
    the first slip one request at a time is at work on a row, the period it has read is the row's, an invoice not yet
    paid is for the period after the row's, and a paid one is for a later period only while the request that paid it
    has yet to renew the row.
- **Office.** `BilledOnceHolds`, `NumbersHaveNoGapsHolds` (a number in hand belongs to one run; rows, lines and
  documents follow the position of the run that has the agreement in hand), `OneBodyPerKeyHolds`, `SucceedsOnceHolds`
  (among requests under one record, outside the named race, only one is between record and response),
  `SomeOwnerHolds`, `InvitationsAgreeHolds` (before the first overlap one removal has passed the count, and two owners
  are left), `TransitionsAreAllowedHolds` (while the version is the one that was read, so is the status, unless
  `disturbed`), `HistoryExplainsStatusHolds` (each status is entered as often as it is left, the ends aside; an update
  puts one transition into a desk's hands, from the status it replaced since the version was right, and a note moves
  it from there to the history, which changes no sum), `TasksAgreeHolds` (tasks made plus items left equal the failed
  items), `CatalogAgreesHolds` (copies are fresh, one creation has room, whoever makes a version has seen the end of
  the line), and `TypesHold` for all six. Since a scene leaves the others alone, each invariant is shown for
  `[Next]_sceneVars` from its own module's steps.

The last step of each theorem is temporal (`PTL`); the lemmas under it are one step per action.

**Only model-checked:** `EveryJobSettles`, `EveryPaymentArrives` and `EarnedIsServed`, which are liveness under fairness
and beyond the prover, and the four violations. Every invariant, action property and refinement that a passing run
checks is also a theorem. No module declares a RECURSIVE operator.

## What the violations say

1. `IdempotentJobs`: the mails of a saved-search alert can go out twice, by two workers or by a retry.
2. `NoDoubleBooking`: a confirmation deletes the hold and leaves the unit `available`; nothing stops the next session
   from booking the unit again until the rental is activated.
3. `WebhookIsIdempotent`: two overlapping deliveries both judge by the status they read first, and both post the ledger.
4. `OnlyDebtorsAreLockedOut`: `billing/delinquency.service.ts:17` emits INVOICE_OVERDUE with the `tenantId` of an
   invoice, a field it does not have; `access-control.service.ts:21` filters agreements by the undefined value, which
   Prisma takes for no filter, and suspends every active agreement. INVOICE_PAID carries an empty tenant and restores
   nobody.

What does hold next to each of them is stated by `DeliversAtLeastOnce`, by `NoSequentialDoubleHold` with
`HoldsAreSingleUse`, by `QuietIsIdempotent` and by `LockAgrees`.

## How the models are composed

`RentalLifecycle` extends `AccessControl`: activations issue keys that lockers suspend, in shared processes. `Jobs` is
the table that its activation jobs live in; `RentalLifecycle` models the rows of these jobs (status and attempts)
itself, since what a call does between taking a job and completing it is its subject. `Payments` and `RentalLifecycle`
meet in one place only: marking an invoice paid and queueing the activation (`MarkPaid` and `QueueActivation` there,
`Pay` and `PayQueue` here). `Subscriptions` sets the plan whose limit `Catalog` reads (`ChangePlan`). `Occupy` of
`RentalLifecycle`, `MoveOut` of inspections and the import of tenants appear again in `Units` as direct writes. The
products of these pairs share no other variable, so no composition beyond this is built.

What is left to do: termination and move-out settlement; pure calculations (the split into net and VAT, billing
periods and proration, the IBAN check) as functions over bounded inputs.

## Not modelled

- **Notifications, outgoing webhooks, audit.** They record or send what others did and are read by no decision of the
  modelled parts; their calls are left out of the actions, except that they are awaits at which a handler may stop.
- **Mandates and SEPA files.** A mandate is created and activated by single statements; that it becomes active and
  ends is `Grant` and `Revoke` of `RentalLifecycle`. SEPA files and IBAN checks format and parse strings.
- **Strangers at the job endpoints.** `complete` and `fail` of the controller take any id in any state
  (`jobs/jobs.controller.ts:25-33`). They are behind the system token; the model assumes that its holder ends the jobs
  it has claimed and no others.
- **Two charges of one standing order at a time, and trials.** Billing periods are a month or a year apart, so
  `Charge` of `Subscriptions` waits for the one before. `trial` is the schema's default only: whoever creates a row
  sets its status (`auth/auth.service.ts:68-73`, `subscriptions/subscriptions.service.ts:204` and `:230`).
- **Sites without an organisation in the invoice run.** `organisations/sites.service.ts` always sets one; the seeds
  may not. Their invoices have no number (`billing/invoice-run.service.ts:57`) and the run's properties do not cover
  them. A document is stored and entered in the invoice by one action, since both belong to the run that has the
  agreement in hand and a failure between them leaves what a failure before them leaves: an invoice without a
  document.
- **Responses that do not go through `res.json`.** The middleware stores what `res.json` sends; Nest sends strings and
  empty answers by `res.send`. Such a request is one whose response was never saved, which the model has as a failed
  `Save`. For the same reason a stored body is not null, and the test for that in the lookup is left out.
- **Login, tokens, sessions, password hashing.** Cryptography and expiry of single rows.
- **Termination requests, move-out settlement, agreement templates, amendments.** One statement each, on rows that the
  modelled parts read nowhere.
- **Listings beyond their images, signature envelopes, object storage, virus scans, PDF generation.** Single
  statements or I/O; a document that an action stores is a step of that action.
- **Leads, pricing, reporting, settings.** Single-statement handlers and aggregating queries.
- **Amounts and calendar dates.** Periods, due dates and expiry are reduced to what a decision compares.
- **The web application, seeds, DTOs, controllers without logic, shared packages.** They render, validate and forward.
  They make up most of the repository's lines, which is why the models stand for a small share of all lines, though for
  most of those that change state under concurrency.

Two customers that two confirmations of one new e-mail address create are visible in the models (`customers`) and
break no rule that the code states.
