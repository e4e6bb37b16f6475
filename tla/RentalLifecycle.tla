--------------------------- MODULE RentalLifecycle ---------------------------
(***************************************************************************)
(* From an agreement to a tenant behind the door: sending it out, signing  *)
(* it (operator-agreements, tenant-portal, agreements services), billing   *)
(* and paying it, the rental.activate-ready jobs that a signature and most *)
(* payments leave behind, activation by job or by the desk                 *)
(* (rental-lifecycle.service.ts), and the event bus, whose handlers run in *)
(* the process that emits and are waited for by nobody.                    *)
(*                                                                         *)
(* A sign call or a pay call names the job it queues.  A call is one       *)
(* execution of an activation or of the issue endpoint; an activation's    *)
(* event handler goes by the name of the call that emitted the event.      *)
(***************************************************************************)
EXTENDS AccessControl

CONSTANTS
    Persons,       \* customers and users who may sign
    SignCalls,     \* calls of the two signing endpoints
    SignerOf,      \* who makes each of them
    Direct,        \* those of AgreementsService.signAgreement; the others are signMyAgreement
    PayCalls,      \* payments that the Mollie webhook or a reconciliation finds succeeded
    About,         \* the agreement each sign call and pay call is for
    Calls,         \* concurrent activations
    Processes,
    ProcessOf,     \* the process that runs each call, sign call, pay call and locker
    MaxAttempts,   \* maxAttempts of a job
    NoJob

Jobs == SignCalls \cup PayCalls

ASSUME SignerOfAssumption == SignerOf \in [SignCalls -> Persons] /\ Direct \subseteq SignCalls
ASSUME AboutAssumption == About \in [Jobs -> Agreements] /\ NoJob \notin Jobs
ASSUME JobsAssumption == SignCalls \cap PayCalls = {}
ASSUME ProcessOfAssumption == ProcessOf \in [Calls \cup Jobs \cup Lockers -> Processes]
ASSUME MaxAttemptsAssumption == MaxAttempts \in Nat \ {0}

VARIABLES
    status,      \* the status of each Agreement
    signatories, \* its Signatory rows, as pairs of person and status
    imported,    \* agreements written by the import of an existing tenant
    sending,     \* agreements that sendForSignature has updated, the rows being still to come
    openInvoice, \* agreements with an invoice that is pending, sent or overdue
    mandated,    \* tenants with an active mandate
    occupied,    \* agreements whose activation has set their unit to occupied
    spc, ppc,    \* positions of sign calls and pay calls
    job, tries,  \* the rental.activate-ready job of each sign call and pay call
    cpc, kind, con, cjob, \* activations: position, kind, agreement, job
    hpc, hon,    \* their event handlers: position, agreement
    \* history and bounds
    everSigned,  \* agreements that had all their signatories signed at some time
    everMandated,\* tenants that had an active mandate at some time
    everPaid,    \* agreements that had no open invoice at some time
    deskTouched, \* agreements the desk has activated, issued or released for
    cut,         \* agreements with an activation or a handler that stopped before it was through
    spoiled      \* agreements whose automatic activation was given up somewhere

paperVars == <<status, signatories, imported, sending, everSigned>>
partyVars == <<openInvoice, mandated, everMandated, everPaid>>
signVars == <<spc, ppc>>
jobVars == <<job, tries>>
callVars == <<cpc, kind, con, cjob>>
handlerVars == <<hpc, hon>>
rentalHistory == <<deskTouched, cut, spoiled>>
vars == <<accessVars, paperVars, partyVars, occupied, signVars, jobVars, callVars, handlerVars, rentalHistory>>

TypeOK ==
    /\ AccessTypeOK
    /\ status \in [Agreements -> {"draft", "pending_signature", "signed", "active"}]
    /\ signatories \in [Agreements -> SUBSET (Persons \X {"pending", "signed"})]
    /\ openInvoice \in SUBSET Agreements
    /\ {mandated, everMandated} \subseteq SUBSET Tenants
    /\ {imported, sending, occupied, everSigned, everPaid, deskTouched, cut, spoiled} \subseteq SUBSET Agreements
    /\ spc \in [SignCalls -> {"idle", "row", "check", "write", "queue", "done"}]
    /\ ppc \in [PayCalls -> {"idle", "queue", "done"}]
    /\ job \in [Jobs -> {"none", "queued", "running", "completed", "failed"}]
    /\ tries \in [Jobs -> 0..MaxAttempts]
    /\ cpc \in [Calls -> {"idle", "ready", "begin", "signatures", "mandate", "activate", "emit", "lookup",
                          "ask", "create", "release", "occupy"}]
    /\ kind \in [Calls -> {"job", "desk", "waived", "bare", "issue"}]
    /\ con \in [Calls -> Agreements \cup {NoAgreement}]
    /\ cjob \in [Calls -> Jobs \cup {NoJob}]
    /\ hpc \in [Calls -> {"idle", "ask", "create"}]
    /\ hon \in [Calls -> Agreements \cup {NoAgreement}]

(***************************************************************************)
(* Where an agreement comes from: a desk's draft, a checkout, which makes  *)
(* the row of its signatory and often an invoice, or the import of a       *)
(* tenant who moved in long ago and has signed on paper.                   *)
(***************************************************************************)
Origins == [desk |-> "draft", checkout |-> "pending_signature", import |-> "active"]

FirstRows(origin, person) ==
    IF origin = "desk" THEN {} ELSE {<<person, IF origin = "import" THEN "signed" ELSE "pending">>}

Init ==
    /\ AccessInit
    /\ \E origin \in [Agreements -> DOMAIN Origins], who \in [Agreements -> Persons] :
         /\ status = [a \in Agreements |-> Origins[origin[a]]]
         /\ signatories = [a \in Agreements |-> FirstRows(origin[a], who[a])]
         /\ imported = {a \in Agreements : origin[a] = "import"}
         /\ openInvoice \in SUBSET {a \in Agreements : origin[a] = "checkout"}
    /\ everSigned = imported /\ occupied = imported /\ spoiled = imported
    /\ everPaid = Agreements \ openInvoice
    /\ mandated \in SUBSET Tenants
    /\ everMandated = mandated
    /\ sending = {} /\ deskTouched = {} /\ cut = {}
    /\ spc = [t \in SignCalls |-> "idle"]
    /\ ppc = [t \in PayCalls |-> "idle"]
    /\ job = [t \in Jobs |-> "none"]
    /\ tries = [t \in Jobs |-> 0]
    /\ cpc = [c \in Calls |-> "idle"]
    /\ kind = [c \in Calls |-> "job"]
    /\ con = [c \in Calls |-> NoAgreement]
    /\ cjob = [c \in Calls |-> NoJob]
    /\ hpc = [c \in Calls |-> "idle"]
    /\ hon = [c \in Calls |-> NoAgreement]

(* signatories.length > 0 && signatories.every(...). *)
Complete(rows) == rows # {} /\ \A r \in rows : r[2] = "signed"

SetRows(a, rows) ==
    /\ signatories' = [signatories EXCEPT ![a] = rows]
    /\ everSigned' = IF Complete(rows) THEN everSigned \cup {a} ELSE everSigned

-----------------------------------------------------------------------------
(***************************************************************************)
(* sendForSignature: the status, whatever it was, then the rows.           *)
(***************************************************************************)
SendStatus(a) ==
    /\ a \notin sending
    /\ Happens
    /\ status' = [status EXCEPT ![a] = "pending_signature"]
    /\ sending' = sending \cup {a}
    /\ UNCHANGED <<doorVars, signatories, imported, everSigned, partyVars, occupied, signVars, jobVars, callVars,
                   handlerVars, deskTouched, cut, spoiled>>

SendRows(a) ==
    /\ a \in sending
    /\ sending' = sending \ {a}
    /\ \E people \in SUBSET Persons :
         /\ SetRows(a, signatories[a] \cup (people \X {"pending"}))
         /\ spoiled' = IF people = {} THEN spoiled \cup {a} ELSE spoiled
    /\ UNCHANGED <<accessVars, status, imported, partyVars, occupied, signVars, jobVars, callVars, handlerVars,
                   deskTouched, cut>>

(***************************************************************************)
(* A sign call.  The portal's looks for a pending agreement first and      *)
(* signs the customer's rows or adds one; signAgreement just adds one.     *)
(***************************************************************************)
SignFind(t) ==
    /\ spc[t] = "idle"
    /\ t \in Direct \/ status[About[t]] = "pending_signature"
    /\ spc' = [spc EXCEPT ![t] = "row"]
    /\ UNCHANGED <<accessVars, paperVars, partyVars, occupied, ppc, jobVars, callVars, handlerVars, rentalHistory>>

SignRow(t) ==
    LET mine(s) == <<SignerOf[t], s>>
        others == IF t \in Direct THEN signatories[About[t]] ELSE signatories[About[t]] \ {mine("pending")}
    IN  /\ spc[t] = "row"
        /\ SetRows(About[t], others \cup {mine("signed")})
        /\ spc' = [spc EXCEPT ![t] = "check"]
        /\ UNCHANGED <<accessVars, status, imported, sending, partyVars, occupied, ppc, jobVars, callVars, handlerVars,
                       rentalHistory>>

SignCheck(t) ==
    /\ spc[t] = "check"
    /\ spc' = [spc EXCEPT ![t] = IF Complete(signatories[About[t]]) THEN "write" ELSE "done"]
    /\ UNCHANGED <<accessVars, paperVars, partyVars, occupied, ppc, jobVars, callVars, handlerVars, rentalHistory>>

SignWrite(t) ==
    /\ spc[t] = "write"
    /\ status' = [status EXCEPT ![About[t]] = "signed"]
    /\ spc' = [spc EXCEPT ![t] = IF t \in Direct THEN "done" ELSE "queue"]
    /\ spoiled' = IF t \in Direct THEN spoiled \cup {About[t]} ELSE spoiled
    /\ UNCHANGED <<accessVars, signatories, imported, sending, everSigned, partyVars, occupied, ppc, jobVars, callVars,
                   handlerVars, deskTouched, cut>>

SignQueue(t) ==
    /\ spc[t] = "queue"
    /\ job' = [job EXCEPT ![t] = "queued"]
    /\ spc' = [spc EXCEPT ![t] = "done"]
    /\ UNCHANGED <<accessVars, paperVars, partyVars, occupied, ppc, tries, callVars, handlerVars, rentalHistory>>

(* A statement throws; that of the job is even ignored. *)
SignStops(t) ==
    /\ spc[t] \in {"row", "check", "write", "queue"}
    /\ Happens
    /\ spc' = [spc EXCEPT ![t] = "done"]
    /\ spoiled' = spoiled \cup {About[t]}
    /\ UNCHANGED <<doorVars, paperVars, partyVars, occupied, ppc, jobVars, callVars, handlerVars, deskTouched,
                   cut>>

(***************************************************************************)
(* A payment is found succeeded and booked, which may leave another        *)
(* invoice open, then a job is queued (MarkPaid and QueueActivation of     *)
(* Payments).                                                              *)
(***************************************************************************)
Pay(t) ==
    /\ ppc[t] = "idle"
    /\ openInvoice' \in {openInvoice, openInvoice \ {About[t]}}
    /\ everPaid' = everPaid \cup (Agreements \ openInvoice')
    /\ ppc' = [ppc EXCEPT ![t] = "queue"]
    /\ UNCHANGED <<accessVars, paperVars, mandated, everMandated, occupied, spc, jobVars,
                   callVars, handlerVars, rentalHistory>>

(* Faulty variant: the payment is booked without a thought for the rental, as chargeInvoice does. *)
PayQueue_Omitted(t) ==
    /\ ppc[t] = "queue"
    /\ ppc' = [ppc EXCEPT ![t] = "done"]
    /\ UNCHANGED <<accessVars, paperVars, partyVars, occupied, spc, jobVars, callVars, handlerVars, rentalHistory>>

PayQueue(t) ==
    /\ ppc[t] = "queue"
    /\ job' = [job EXCEPT ![t] = "queued"]
    /\ ppc' = [ppc EXCEPT ![t] = "done"]
    /\ UNCHANGED <<accessVars, paperVars, partyVars, occupied, spc, tries, callVars, handlerVars, rentalHistory>>

(* The job is not stored: the webhook ignores that, the reconciliation throws but does not see the payment again. *)
PayStops(t) ==
    /\ ppc[t] = "queue"
    /\ Happens
    /\ ppc' = [ppc EXCEPT ![t] = "done"]
    /\ spoiled' = spoiled \cup {About[t]}
    /\ UNCHANGED <<doorVars, paperVars, partyVars, occupied, spc, jobVars, callVars, handlerVars, deskTouched, cut>>

(* The monthly run bills the active agreements. *)
Bill(a) ==
    /\ status[a] = "active" /\ a \notin openInvoice
    /\ Happens
    /\ openInvoice' = openInvoice \cup {a}
    /\ UNCHANGED <<doorVars, paperVars, mandated, everMandated, everPaid, occupied, signVars, jobVars, callVars,
                   handlerVars, rentalHistory>>

(* The last open invoice is charged to the mandate, paid through Stripe or voided: none of these queues a job. *)
CloseQuietly(a) ==
    /\ a \in openInvoice
    /\ Happens
    /\ openInvoice' = openInvoice \ {a}
    /\ everPaid' = everPaid \cup {a}
    /\ spoiled' = spoiled \cup {a}
    /\ UNCHANGED <<doorVars, paperVars, mandated, everMandated, occupied, signVars, jobVars, callVars,
                   handlerVars, deskTouched, cut>>

(* activateMandate. *)
Grant(tenant) ==
    /\ tenant \notin mandated
    /\ mandated' = mandated \cup {tenant}
    /\ everMandated' = everMandated \cup {tenant}
    /\ UNCHANGED <<accessVars, paperVars, openInvoice, everPaid, occupied, signVars, jobVars, callVars,
                   handlerVars, rentalHistory>>

(* A mandate is cancelled or fails, which the schema knows and no service writes. *)
Revoke(tenant) ==
    /\ tenant \in mandated
    /\ Happens
    /\ mandated' = mandated \ {tenant}
    /\ UNCHANGED <<doorVars, paperVars, openInvoice, everMandated, everPaid, occupied, signVars, jobVars, callVars,
                   handlerVars, rentalHistory>>

-----------------------------------------------------------------------------
Goto(c, where) == cpc' = [cpc EXCEPT ![c] = where] /\ UNCHANGED <<kind, con, cjob>>

Leave(c) ==
    /\ cpc' = [cpc EXCEPT ![c] = "idle"]
    /\ con' = [con EXCEPT ![c] = NoAgreement]
    /\ cjob' = [cjob EXCEPT ![c] = NoJob]
    /\ UNCHANGED kind

(* The call returns; a job's is completed. *)
Return(c) ==
    /\ Leave(c)
    /\ job' = IF cjob[c] = NoJob THEN job ELSE [job EXCEPT ![cjob[c]] = "completed"]
    /\ UNCHANGED tries

(* Faulty variant: one attempt too many. *)
Throw_Extra(c) ==
    LET spent == cjob[c] # NoJob /\ tries[cjob[c]] > MaxAttempts
    IN  /\ Leave(c)
        /\ job' = IF cjob[c] = NoJob THEN job ELSE [job EXCEPT ![cjob[c]] = IF spent THEN "failed" ELSE "queued"]
        /\ spoiled' = IF spent THEN spoiled \cup {con[c]} ELSE spoiled
        /\ UNCHANGED <<tries, deskTouched>>

(* The call throws; a job is queued again while it has attempts left. *)
Throw(c) ==
    LET spent == cjob[c] # NoJob /\ tries[cjob[c]] = MaxAttempts
    IN  /\ Leave(c)
        /\ job' = IF cjob[c] = NoJob THEN job ELSE [job EXCEPT ![cjob[c]] = IF spent THEN "failed" ELSE "queued"]
        /\ spoiled' = IF spent THEN spoiled \cup {con[c]} ELSE spoiled
        /\ UNCHANGED <<tries, deskTouched>>

TakeJob(c, t) ==
    /\ cpc[c] = "idle" /\ hpc[c] = "idle"
    /\ job[t] = "queued"
    /\ job' = [job EXCEPT ![t] = "running"]
    /\ tries' = [tries EXCEPT ![t] = @ + 1]
    /\ cpc' = [cpc EXCEPT ![c] = "ready"]
    /\ kind' = [kind EXCEPT ![c] = "job"]
    /\ con' = [con EXCEPT ![c] = About[t]]
    /\ cjob' = [cjob EXCEPT ![c] = t]
    /\ UNCHANGED <<accessVars, paperVars, partyVars, occupied, signVars, handlerVars, rentalHistory>>

(* Where the endpoints of the desk enter: the rentals' with and without the inspection, the agreements', the keys'. *)
Entry == [desk |-> "begin", waived |-> "begin", bare |-> "signatures", issue |-> "ask"]

DeskCall(c, k, a) ==
    /\ cpc[c] = "idle" /\ hpc[c] = "idle"
    /\ Happens
    /\ deskTouched' = deskTouched \cup {a}
    /\ cpc' = [cpc EXCEPT ![c] = Entry[k]]
    /\ kind' = [kind EXCEPT ![c] = k]
    /\ con' = [con EXCEPT ![c] = a]
    /\ UNCHANGED <<doorVars, paperVars, partyVars, occupied, signVars, jobVars, cjob, handlerVars, cut, spoiled>>

(* Faulty variant: readiness looks at the signatures only. *)
CanActivate_Signed(a) == Complete(signatories[a])

(* canActivate of readiness; the mandate it reads is only shown. *)
CanActivate(a) == Complete(signatories[a]) /\ a \notin openInvoice

(* activateIfReady. *)
Readiness(c) ==
    /\ cpc[c] = "ready"
    /\ IF CanActivate(con[c]) THEN Goto(c, "begin") /\ UNCHANGED jobVars ELSE Return(c)
    /\ UNCHANGED <<accessVars, paperVars, partyVars, occupied, signVars, handlerVars, rentalHistory>>

(* activateAndRelease: the desk may need a completed inspection; activateAgreement is skipped when active. *)
Begin(c) ==
    /\ cpc[c] = "begin"
    /\ \/ kind[c] = "desk" /\ Throw(c)
       \/ Goto(c, IF status[con[c]] = "active" THEN "lookup" ELSE "signatures") /\ UNCHANGED <<jobVars, rentalHistory>>
    /\ UNCHANGED <<accessVars, paperVars, partyVars, occupied, signVars, handlerVars, cut>>

(* activateAgreement: two checks, the update, the documents, the event. *)
CheckSignatures(c) ==
    /\ cpc[c] = "signatures"
    /\ IF Complete(signatories[con[c]]) THEN Goto(c, "mandate") /\ UNCHANGED <<jobVars, rentalHistory>> ELSE Throw(c)
    /\ UNCHANGED <<accessVars, paperVars, partyVars, occupied, signVars, handlerVars, cut>>

CheckMandate(c) ==
    /\ cpc[c] = "mandate"
    /\ IF TenantOf[con[c]] \in mandated THEN Goto(c, "activate") /\ UNCHANGED <<jobVars, rentalHistory>> ELSE Throw(c)
    /\ UNCHANGED <<accessVars, paperVars, partyVars, occupied, signVars, handlerVars, cut>>

Activate(c) ==
    /\ cpc[c] = "activate"
    /\ status' = [status EXCEPT ![con[c]] = "active"]
    /\ Goto(c, "emit")
    /\ UNCHANGED <<accessVars, signatories, imported, sending, everSigned, partyVars, occupied, signVars, jobVars,
                   handlerVars, rentalHistory>>

(* A statement throws: a query or an update, the documents before the event, the vendor asked for a key. *)
CallThrows(c) ==
    /\ cpc[c] # "idle"
    /\ Happens
    /\ Throw(c)
    /\ cut' = IF cpc[c] = "emit" THEN cut \cup {con[c]} ELSE cut
    /\ UNCHANGED <<doorVars, paperVars, partyVars, occupied, signVars, handlerVars>>

(* Faulty variant: nobody has subscribed to the event. *)
Emit_Unheard(c) ==
    /\ cpc[c] = "emit"
    /\ IF kind[c] = "bare" THEN Return(c) ELSE Goto(c, "lookup") /\ UNCHANGED jobVars
    /\ UNCHANGED <<accessVars, paperVars, partyVars, occupied, signVars, handlerVars, rentalHistory>>

(* AGREEMENT_ACTIVATED starts its handler and goes on. *)
Emit(c) ==
    /\ cpc[c] = "emit"
    /\ hpc' = [hpc EXCEPT ![c] = "ask"]
    /\ hon' = [hon EXCEPT ![c] = con[c]]
    /\ IF kind[c] = "bare" THEN Return(c) ELSE Goto(c, "lookup") /\ UNCHANGED jobVars
    /\ UNCHANGED <<accessVars, paperVars, partyVars, occupied, signVars, rentalHistory>>

LookUp(c) ==
    /\ cpc[c] = "lookup"
    /\ Goto(c, IF row[con[c]] = "none" THEN "ask" ELSE IF con[c] \in released THEN "occupy" ELSE "release")
    /\ UNCHANGED <<accessVars, paperVars, partyVars, occupied, signVars, jobVars, handlerVars, rentalHistory>>

CallAsks(c) ==
    /\ cpc[c] = "ask"
    /\ Goto(c, "create")
    /\ UNCHANGED <<accessVars, paperVars, partyVars, occupied, signVars, jobVars,
                   handlerVars, rentalHistory>>

CallCreates(c) ==
    /\ cpc[c] = "create"
    /\ IF CanCreate(con[c])
       THEN /\ CreateRow(con[c])
            /\ IF kind[c] = "issue" THEN Return(c) ELSE Goto(c, "release") /\ UNCHANGED jobVars
            /\ UNCHANGED rentalHistory
       ELSE Throw(c) /\ UNCHANGED <<row, lock>>
    /\ UNCHANGED <<released, lockerVars, lockHistory, events, paperVars, partyVars, occupied, signVars, handlerVars, cut>>

CallReleases(c) ==
    /\ cpc[c] = "release"
    /\ Release(con[c])
    /\ Goto(c, "occupy")
    /\ UNCHANGED <<row, lock, lockerVars, lockHistory, events, paperVars, partyVars, occupied, signVars, jobVars,
                   handlerVars, rentalHistory>>

Occupy(c) ==
    /\ cpc[c] = "occupy"
    /\ occupied' = occupied \cup {con[c]}
    /\ Return(c)
    /\ UNCHANGED <<accessVars, paperVars, partyVars, signVars, handlerVars, rentalHistory>>

(* The desk's release endpoint. *)
DeskRelease(a) ==
    /\ Happens
    /\ deskTouched' = deskTouched \cup {a}
    /\ Release(a)
    /\ UNCHANGED <<row, lock, lockerVars, lockHistory, paperVars, partyVars, occupied, signVars, jobVars,
                   callVars, handlerVars, cut, spoiled>>

-----------------------------------------------------------------------------
HandlerAsks(c) ==
    /\ hpc[c] = "ask"
    /\ hpc' = [hpc EXCEPT ![c] = "create"]
    /\ UNCHANGED <<accessVars, paperVars, partyVars, occupied, signVars, jobVars,
                   callVars, hon, rentalHistory>>

HandlerCreates(c) ==
    /\ hpc[c] = "create"
    /\ CanCreate(hon[c])
    /\ CreateRow(hon[c])
    /\ hpc' = [hpc EXCEPT ![c] = "idle"]
    /\ hon' = [hon EXCEPT ![c] = NoAgreement]
    /\ UNCHANGED <<released, lockerVars, lockHistory, events, paperVars, partyVars, occupied, signVars, jobVars, callVars,
                   rentalHistory>>

(***************************************************************************)
(* A process dies: its calls, handlers and lockers stop where they are,    *)
(* and a job it was running keeps the status running.                      *)
(***************************************************************************)
ProcessDies(p) ==
    LET callsOf == {c \in Calls : ProcessOf[c] = p}
        working == {c \in callsOf : cpc[c] # "idle"}
        signing == {t \in SignCalls : ProcessOf[t] = p /\ spc[t] \in {"row", "check", "write", "queue"}}
        paying == {t \in PayCalls : ProcessOf[t] = p /\ ppc[t] = "queue"}
    IN  /\ cpc' = [c \in Calls |-> IF c \in callsOf THEN "idle" ELSE cpc[c]]
        /\ con' = [c \in Calls |-> IF c \in callsOf THEN NoAgreement ELSE con[c]]
        /\ cjob' = [c \in Calls |-> IF c \in callsOf THEN NoJob ELSE cjob[c]]
        /\ hpc' = [c \in Calls |-> IF c \in callsOf THEN "idle" ELSE hpc[c]]
        /\ hon' = [c \in Calls |-> IF c \in callsOf THEN NoAgreement ELSE hon[c]]
        /\ spc' = [t \in SignCalls |-> IF t \in signing THEN "done" ELSE spc[t]]
        /\ ppc' = [t \in PayCalls |-> IF t \in paying THEN "done" ELSE ppc[t]]
        /\ LockersStop({l \in Lockers : ProcessOf[l] = p})
        /\ cut' = cut \cup {con[c] : c \in working} \cup {hon[c] : c \in {d \in callsOf : hpc[d] # "idle"}}
        /\ spoiled' = spoiled \cup {con[c] : c \in working} \cup {About[t] : t \in signing \cup paying}
        /\ UNCHANGED <<keyVars, paperVars, partyVars, occupied, jobVars, kind, deskTouched>>

(***************************************************************************)
(* A handler of the event bus rejects: the row of its agreement exists     *)
(* already, or the vendor or a query throws.  Nobody waits for it, so the  *)
(* rejection is unhandled, which ends a Node process.                      *)
(***************************************************************************)
HandlerRejects(c) ==
    /\ hpc[c] # "idle"
    /\ \/ hpc[c] = "create" /\ ~CanCreate(hon[c]) /\ UNCHANGED events
       \/ Happens
    /\ ProcessDies(ProcessOf[c])

(* The vendor or a query throws in a locker.  A vendor that did its part first has been told already. *)
LockerThrows(l) ==
    /\ lpc[l] # "idle"
    /\ Happens
    /\ IF l \in heard
       THEN ProcessDies(ProcessOf[l])
       ELSE /\ LockersStop({l})
            /\ UNCHANGED <<keyVars, paperVars, partyVars, occupied, signVars, jobVars, callVars, handlerVars, rentalHistory>>

-----------------------------------------------------------------------------
Active == {a \in Agreements : status[a] = "active"}

(* Invoice events reach the lockers through the event bus, for the active agreements of that moment. *)
Lock(l) ==
    /\ \/ \E m \in {"suspend", "restore"}, a \in Agreements : DeskLock(l, m, a)
       \/ \E m \in {"suspend", "restore"}, a \in Agreements : InvoiceEvent(l, m, TenantOf[a], Active)
       \/ LockerStep(l)
    /\ UNCHANGED <<paperVars, partyVars, occupied, signVars, jobVars, callVars, handlerVars, rentalHistory>>

SignStep(t) == SignRow(t) \/ SignCheck(t) \/ SignWrite(t) \/ SignQueue(t)

CallStep(c) ==
    \/ Readiness(c) \/ Begin(c)
    \/ CheckSignatures(c) \/ CheckMandate(c) \/ Activate(c) \/ Emit(c)
    \/ LookUp(c) \/ CallAsks(c) \/ CallCreates(c) \/ CallReleases(c) \/ Occupy(c) \/ CallThrows(c)

HandlerStep(c) == HandlerAsks(c) \/ HandlerCreates(c) \/ HandlerRejects(c)

Next ==
    \/ \E a \in Agreements : SendStatus(a) \/ SendRows(a) \/ DeskRelease(a) \/ Bill(a) \/ CloseQuietly(a)
    \/ \E t \in SignCalls : SignFind(t) \/ SignStep(t) \/ SignStops(t)
    \/ \E t \in PayCalls : Pay(t) \/ PayQueue(t) \/ PayStops(t)
    \/ \E tenant \in Tenants : Grant(tenant) \/ Revoke(tenant)
    \/ \E c \in Calls : CallStep(c) \/ HandlerStep(c) \/ \E t \in Jobs : TakeJob(c, t)
    \/ \E c \in Calls, k \in DOMAIN Entry, a \in Agreements : DeskCall(c, k, a)
    \/ \E l \in Lockers : Lock(l) \/ LockerThrows(l)

Spec == Init /\ [][Next]_vars

(***************************************************************************)
(* A request that has begun goes on, a queued job is taken again and again *)
(* as long as it is queued, and lockers return.  Nobody has to sign, pay,  *)
(* send, or call the desk.                                                 *)
(***************************************************************************)
Fairness ==
    /\ \A t \in SignCalls : WF_vars(SignStep(t))
    /\ \A t \in PayCalls : WF_vars(PayQueue(t))
    /\ \A c \in Calls : WF_vars(CallStep(c)) /\ WF_vars(HandlerStep(c))
    /\ \A t \in Jobs : SF_vars(\E c \in Calls : TakeJob(c, t))

FairSpec == Spec /\ Fairness
-----------------------------------------------------------------------------
(***************************************************************************)
(* No door opens before its time: an agreement is active only after all of *)
(* its signatories had signed and, unless it was imported, its tenant had  *)
(* a mandate; and unless the desk took it in hand, its key is released     *)
(* only after that and after its invoices had been paid, whatever is       *)
(* signed, billed, revoked, sent out again or activated a second time      *)
(* between the checks and the writes.                                      *)
(***************************************************************************)
Entitled(a) == a \in everSigned /\ (a \in imported \/ TenantOf[a] \in everMandated)

AccessIsEarned ==
    \A a \in Agreements :
        /\ status[a] = "active" => Entitled(a)
        /\ a \in released \ deskTouched => Entitled(a) /\ a \in everPaid

(***************************************************************************)
(* The activation and its event handler race for the one row, and either   *)
(* of them may fail on it: not both.  When nobody is at work any more, an  *)
(* active agreement that was not imported has a credential, unless a call  *)
(* was cut short between activating and emitting, or its handler was.      *)
(***************************************************************************)
Quiet(a) == \A c \in Calls : con[c] # a /\ hon[c] # a

ActiveIsIssued ==
    \A a \in Agreements : status[a] = "active" /\ Quiet(a) /\ a \notin cut \cup imported => row[a] # "none"

(***************************************************************************)
(* Signatures and payments may come in any order and overlap with          *)
(* activations, which may lose the race for the row and be retried, and a  *)
(* late signature may overwrite "active" by "signed".  In the end an       *)
(* agreement that is signed, paid and mandated is active, its unit         *)
(* occupied and its key released, unless a step of it was given up: a job  *)
(* was not stored or ran out of attempts, or a call that queues none came  *)
(* last (signAgreement, CloseQuietly, an import).                          *)
(***************************************************************************)
Earned(a) ==
    /\ Complete(signatories[a]) /\ a \notin openInvoice /\ TenantOf[a] \in mandated
    /\ a \notin sending \cup spoiled

Served(a) == status[a] = "active" /\ a \in released /\ a \in occupied

EarnedIsServed == \A a \in Agreements : <>[](Earned(a) => Served(a))
=============================================================================
