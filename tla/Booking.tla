------------------------------ MODULE Booking ------------------------------
(***************************************************************************)
(* Booking a storage unit of one type at one site: the storefront's        *)
(* checkout sessions and reservation holds, the confirmation of a checkout *)
(* (modules/checkout), the lock-token path (modules/reservations) and the  *)
(* operator's desk (modules/operator-reservations).                        *)
(*                                                                         *)
(* Each call of createCheckoutSession is a member of Sessions, and names   *)
(* the hold and the checkout session it inserts.  Each call of             *)
(* confirmCheckout or createReservation is a member of Requests, and names *)
(* the reservation it inserts and that reservation's agreement and first   *)
(* invoice.  A handler gives way to the others at every await; awaits that *)
(* only fill local variables are joined to the next one that depends on    *)
(* shared rows.                                                            *)
(*                                                                         *)
(* Clock times are abstracted to what the handlers compare: a hold and its *)
(* session, which share one expiresAt, have expired or not.                *)
(*                                                                         *)
(* A call whose process dies, or one of whose statements throws, stops     *)
(* where it is and what it has written stays: the specification has no     *)
(* fairness, so every call may stop after each of its steps.               *)
(***************************************************************************)

EXTENDS Integers

CONSTANTS
    Units,      \* the units of the type, with status available
    Sessions,   \* calls of createCheckoutSession
    Requests,   \* calls of confirmCheckout and createReservation
    Emails,     \* the e-mail addresses customers give
    Listing,    \* for each session, the unit of the listing it asks for, or NoUnit
    Mode,       \* the booking mode of each unit's listing
    EmailOf,    \* for each request, the customer's e-mail address
    OperatorStatuses,  \* the statuses operators set by hand
    Priced,     \* the units whose listing has a price
    SiteIsOwned, \* whether the site has an organisation, which pays commissions
    MaxDeskCalls, \* bound: calls of the desk and of the reservation endpoints
    NoUnit,     \* no unit
    NoSession   \* no session

Modes == {"unlisted", "instant_booking", "approval_required", "request_price"}

ReservationStatuses ==
    {"pending", "pending_signature", "confirmed", "expired", "cancelled", "converted"}

ASSUME NoUnitAssumption == NoUnit \notin Units
ASSUME NoSessionAssumption == NoSession \notin Sessions
ASSUME ListingAssumption == Listing \in [Sessions -> Units \cup {NoUnit}]
ASSUME ModeAssumption == Mode \in [Units -> Modes \ {"unlisted"}]
ASSUME PricedAssumption == Priced \subseteq Units
ASSUME SiteIsOwnedAssumption == SiteIsOwned \in BOOLEAN
ASSUME MaxDeskCallsAssumption == MaxDeskCalls \in Nat
ASSUME EmailOfAssumption == EmailOf \in [Requests -> Emails]
ASSUME OperatorStatusesAssumption == OperatorStatuses \subseteq ReservationStatuses

VARIABLES
    \* createCheckoutSession, per session
    spc,        \* where the call is
    unit,       \* the unit it has picked
    mode,       \* the booking mode it stores in the session's metadata
    \* rows
    hold,       \* the ReservationHold of each session
    session,    \* the CheckoutSession of each session
    expired,    \* sessions whose expiresAt has passed
    customers,  \* how many customers each e-mail address has
    reservation, \* the status of each request's Reservation
    agreement,  \* who created the Agreement of each reservation
    invoices,   \* reservations whose agreement has its first Invoice
    commissions, \* reservations with a CommissionRecord
    \* confirmCheckout and createReservation, per request
    rpc,        \* where the call is
    kind,       \* which of the two it is
    via,        \* the session it was given
    found,      \* the hold it has found
    known,      \* whether it has found a contact with its e-mail address
    \* history
    avoided,    \* the holds that were live when the call read them
    standing,   \* the sessions that had a hold, unused until then, when the call read them
    redeemed,   \* which request consumed which hold
    deskCalls,  \* calls of the desk and of the reservation endpoints so far
    converting  \* drafts at the desk that have yet to convert the reservation

sessionVars == <<spc, unit, mode, avoided, standing>>
holdVars == <<hold, expired, redeemed>>
requestVars == <<rpc, kind, via, found, known>>
bookingVars == <<reservation, agreement, invoices, commissions>>
deskVars == <<deskCalls, converting>>
vars == <<sessionVars, holdVars, session, customers, bookingVars, requestVars, deskVars>>

TypeOK ==
    /\ spc \in [Sessions -> {"idle", "purged", "picked", "stray", "open", "sold_out", "failed"}]
    /\ unit \in [Sessions -> Units \cup {NoUnit}]
    /\ mode \in [Sessions -> Modes]
    /\ hold \in [Sessions -> {"none", "present", "used", "purged"}]
    /\ session \in [Sessions -> {"none", "started", "completed"}]
    /\ expired \in SUBSET Sessions
    /\ customers \in [Emails -> Nat]
    /\ reservation \in [Requests -> ReservationStatuses \cup {"none"}]
    /\ agreement \in [Requests -> {"none", "checkout", "operator"}]
    /\ invoices \in SUBSET Requests
    /\ commissions \in SUBSET Requests
    /\ rpc \in [Requests -> {"idle", "found", "reserved", "consumed", "closed", "agreed",
                             "billed", "done", "lost"}]
    /\ kind \in [Requests -> {"checkout", "token"}]
    /\ via \in [Requests -> Sessions \cup {NoSession}]
    /\ found \in [Requests -> Sessions \cup {NoSession}]
    /\ known \in [Requests -> BOOLEAN]
    /\ avoided \in [Sessions -> SUBSET Sessions]
    /\ standing \in [Sessions -> SUBSET Sessions]
    /\ redeemed \in SUBSET (Sessions \X Requests)
    /\ deskCalls \in 0..MaxDeskCalls
    /\ converting \in [Requests -> Nat]

Init ==
    /\ spc = [s \in Sessions |-> "idle"]
    /\ unit = [s \in Sessions |-> NoUnit]
    /\ mode = [s \in Sessions |-> "unlisted"]
    /\ hold = [s \in Sessions |-> "none"]
    /\ session = [s \in Sessions |-> "none"]
    /\ expired = {}
    /\ customers = [e \in Emails |-> 0]
    /\ reservation = [r \in Requests |-> "none"]
    /\ agreement = [r \in Requests |-> "none"]
    /\ invoices = {}
    /\ commissions = {}
    /\ rpc = [r \in Requests |-> "idle"]
    /\ kind = [r \in Requests |-> "checkout"]
    /\ via = [r \in Requests |-> NoSession]
    /\ found = [r \in Requests |-> NoSession]
    /\ known = [r \in Requests |-> FALSE]
    /\ avoided = [s \in Sessions |-> {}]
    /\ standing = [s \in Sessions |-> {}]
    /\ redeemed = {}
    /\ deskCalls = 0
    /\ converting = [r \in Requests |-> 0]

Live(s) == hold[s] = "present" /\ s \notin expired

(* Fifteen minutes pass: a hold and its session expire together. *)
Expire(s) ==
    /\ s \notin expired
    /\ hold[s] # "none" \/ session[s] # "none"
    /\ expired' = expired \cup {s}
    /\ UNCHANGED <<sessionVars, hold, redeemed, session, customers, bookingVars, requestVars, deskVars>>

-----------------------------------------------------------------------------
(***************************************************************************)
(* createCheckoutSession: delete the expired holds, read the others, pick  *)
(* a unit, then insert the hold and the session side by side.              *)
(***************************************************************************)
(* Faulty variant: the comparison with the clock is the wrong way round. *)
PurgeExpired_Swapped(s) ==
    /\ spc[s] = "idle"
    /\ spc' = [spc EXCEPT ![s] = "purged"]
    /\ hold' = [t \in Sessions |-> IF Live(t) THEN "purged" ELSE hold[t]]
    /\ UNCHANGED <<unit, mode, avoided, standing, expired, redeemed, session, customers, bookingVars, requestVars, deskVars>>

PurgeExpired(s) ==
    /\ spc[s] = "idle"
    /\ spc' = [spc EXCEPT ![s] = "purged"]
    /\ hold' = [t \in Sessions |-> IF hold[t] = "present" /\ t \in expired THEN "purged" ELSE hold[t]]
    /\ UNCHANGED <<unit, mode, avoided, standing, expired, redeemed, session, customers, bookingVars, requestVars, deskVars>>

HeldNow == {unit[t] : t \in {t \in Sessions : Live(t)}}

Asked(s) == Listing[s] \in Units

(* Faulty variant: the unit of a published listing is taken unseen. *)
Candidates_Unseen(s, listed) == IF listed THEN {Listing[s]} ELSE Units \ HeldNow

(* The units a call may pick, having found its listing published or not. *)
Candidates(s, listed) ==
    IF listed /\ Listing[s] \notin HeldNow THEN {Listing[s]} ELSE Units \ HeldNow

PickUnit(s) ==
    /\ spc[s] = "purged"
    /\ avoided' = [avoided EXCEPT ![s] = {t \in Sessions : Live(t)}]
    /\ standing' = [standing EXCEPT ![s] = {t \in Sessions : hold[t] \in {"present", "purged"}}]
    /\ \E listed \in {Asked(s), FALSE} :
         IF Candidates(s, listed) = {}
           THEN /\ spc' = [spc EXCEPT ![s] = "sold_out"]
                /\ UNCHANGED <<unit, mode>>
           ELSE /\ spc' = [spc EXCEPT ![s] = IF Asked(s) /\ ~listed THEN "stray" ELSE "picked"]
                /\ \E u \in Candidates(s, listed) : unit' = [unit EXCEPT ![s] = u]
                /\ mode' = [mode EXCEPT ![s] = IF listed THEN Mode[Listing[s]] ELSE "unlisted"]
    /\ UNCHANGED <<holdVars, session, customers, bookingVars, requestVars, deskVars>>

(***************************************************************************)
(* The inserts happen in either order.  A call whose listing is not        *)
(* published has no site to store in the session: the session's insert     *)
(* throws, the hold stays.                                                 *)
(***************************************************************************)
InsertHold(s) ==
    /\ spc[s] \in {"picked", "stray"}
    /\ hold[s] = "none"
    /\ hold' = [hold EXCEPT ![s] = "present"]
    /\ spc' = [spc EXCEPT ![s] = IF @ = "stray" THEN "failed"
                                  ELSE IF session[s] # "none" THEN "open" ELSE @]
    /\ UNCHANGED <<unit, mode, avoided, standing, expired, redeemed, session, customers, bookingVars, requestVars, deskVars>>

InsertSession(s) ==
    /\ spc[s] = "picked"
    /\ session[s] = "none"
    /\ session' = [session EXCEPT ![s] = "started"]
    /\ spc' = [spc EXCEPT ![s] = IF hold[s] # "none" THEN "open" ELSE @]
    /\ UNCHANGED <<unit, mode, avoided, standing, holdVars, customers, bookingVars, requestVars, deskVars>>

-----------------------------------------------------------------------------
(***************************************************************************)
(* confirmCheckout looks for any live hold of the session's unit;          *)
(* createReservation for the hold of the lock token it was given.  The     *)
(* contact is read before the reservation is created.                      *)
(***************************************************************************)
(* Faulty variant: the session's own expiry is not looked at. *)
Matches_AnyAge(k, s, h) ==
    /\ Live(h)
    /\ IF k = "checkout" THEN unit[h] = unit[s] ELSE h = s

Matches(k, s, h) ==
    /\ Live(h)
    /\ IF k = "checkout" THEN unit[h] = unit[s] /\ s \notin expired ELSE h = s

FindHold(r) ==
    /\ rpc[r] = "idle"
    /\ \E s \in Sessions, k \in {"checkout", "token"}, h \in Sessions :
         /\ spc[s] = "open"
         /\ Matches(k, s, h)
         /\ via' = [via EXCEPT ![r] = s]
         /\ kind' = [kind EXCEPT ![r] = k]
         /\ found' = [found EXCEPT ![r] = h]
         /\ known' = [known EXCEPT ![r] = k = "token" \/ customers[EmailOf[r]] > 0]
    /\ rpc' = [rpc EXCEPT ![r] = "found"]
    /\ UNCHANGED <<sessionVars, holdVars, session, customers, bookingVars, deskVars>>

ModeOf(r) == IF kind[r] = "checkout" THEN mode[via[r]] ELSE "unlisted"

(* The customer is created if no contact was found, then the reservation. *)
Reserve(r) ==
    /\ rpc[r] = "found"
    /\ customers' = [customers EXCEPT ![EmailOf[r]] = IF known[r] THEN @ ELSE @ + 1]
    /\ reservation' = [reservation EXCEPT ![r] =
                          IF ModeOf(r) = "approval_required" THEN "pending" ELSE "pending_signature"]
    /\ known' = [known EXCEPT ![r] = FALSE]
    /\ rpc' = [rpc EXCEPT ![r] = "reserved"]
    /\ UNCHANGED <<sessionVars, holdVars, session, agreement, invoices, commissions, kind, via, found, deskVars>>

(* Faulty variant: deleteMany, which does not mind that the row is gone. *)
ConsumeHold_DeleteMany(r) ==
    /\ rpc[r] = "reserved"
    /\ hold' = [hold EXCEPT ![found[r]] = "used"]
    /\ redeemed' = redeemed \cup {<<found[r], r>>}
    /\ rpc' = [rpc EXCEPT ![r] = IF kind[r] = "token" THEN "done" ELSE "consumed"]
    /\ UNCHANGED <<sessionVars, expired, session, customers, bookingVars, kind, via, found, known, deskVars>>

(* The hold is deleted by its id: deleting a row that is gone throws. *)
ConsumeHold(r) ==
    /\ rpc[r] = "reserved"
    /\ hold[found[r]] = "present"
    /\ hold' = [hold EXCEPT ![found[r]] = "used"]
    /\ redeemed' = redeemed \cup {<<found[r], r>>}
    /\ rpc' = [rpc EXCEPT ![r] = IF kind[r] = "token" THEN "done" ELSE "consumed"]
    /\ UNCHANGED <<sessionVars, expired, session, customers, bookingVars, kind, via, found, known, deskVars>>

LoseHold(r) ==
    /\ rpc[r] = "reserved"
    /\ hold[found[r]] # "present"
    /\ rpc' = [rpc EXCEPT ![r] = "lost"]
    /\ UNCHANGED <<sessionVars, holdVars, session, customers, bookingVars, kind, via, found, known, deskVars>>

(* Faulty variant: the session is completed before the hold is consumed. *)
CompleteSession_Early(r) ==
    /\ rpc[r] = "reserved" /\ kind[r] = "checkout"
    /\ session' = [session EXCEPT ![via[r]] = "completed"]
    /\ UNCHANGED <<sessionVars, holdVars, customers, bookingVars, requestVars, deskVars>>

CompleteSession(r) ==
    /\ rpc[r] = "consumed"
    /\ session' = [session EXCEPT ![via[r]] = "completed"]
    /\ rpc' = [rpc EXCEPT ![r] = "closed"]
    /\ UNCHANGED <<sessionVars, holdVars, customers, bookingVars, kind, via, found, known, deskVars>>

(* A listing gets its agreement at once unless the operator has to approve the booking. *)
BooksInstantly(r) == ModeOf(r) \notin {"unlisted", "approval_required"}

(* agreement.create, unless the operator's upsert came first: the reservation is unique. *)
DraftAgreement(r) ==
    /\ rpc[r] = "closed"
    /\ BooksInstantly(r)
    /\ agreement[r] = "none"
    /\ agreement' = [agreement EXCEPT ![r] = "checkout"]
    /\ rpc' = [rpc EXCEPT ![r] = "agreed"]
    /\ UNCHANGED <<sessionVars, holdVars, session, customers, reservation, invoices, commissions>>
    /\ UNCHANGED <<kind, via, found, known, deskVars>>

(* Faulty variant: priced by the unit that was picked, not by the listing. *)
IssueInvoice_OfUnit(r) ==
    /\ rpc[r] = "agreed"
    /\ invoices' = IF unit[via[r]] \in Priced THEN invoices \cup {r} ELSE invoices
    /\ rpc' = [rpc EXCEPT ![r] = "billed"]
    /\ UNCHANGED <<sessionVars, holdVars, session, customers, reservation, agreement, commissions>>
    /\ UNCHANGED <<kind, via, found, known, deskVars>>

IssueInvoice(r) ==
    /\ rpc[r] = "agreed"
    /\ invoices' = IF Listing[via[r]] \in Priced THEN invoices \cup {r} ELSE invoices
    /\ rpc' = [rpc EXCEPT ![r] = "billed"]
    /\ UNCHANGED <<sessionVars, holdVars, session, customers, reservation, agreement, commissions>>
    /\ UNCHANGED <<kind, via, found, known, deskVars>>

RecordCommission(r) ==
    /\ rpc[r] = "billed" \/ (rpc[r] = "closed" /\ ~BooksInstantly(r))
    /\ commissions' = IF SiteIsOwned THEN commissions \cup {r} ELSE commissions
    /\ rpc' = [rpc EXCEPT ![r] = "done"]
    /\ UNCHANGED <<sessionVars, holdVars, session, customers, reservation, agreement, invoices>>
    /\ UNCHANGED <<kind, via, found, known, deskVars>>

-----------------------------------------------------------------------------
(* The desk and the public endpoints write a status whatever it was. *)
DeskCall(r) ==
    /\ reservation[r] # "none"
    /\ deskCalls < MaxDeskCalls
    /\ deskCalls' = deskCalls + 1

DeskWrites(r, st) ==
    /\ DeskCall(r)
    /\ reservation' = [reservation EXCEPT ![r] = st]
    /\ UNCHANGED converting

UpdateStatus(r) ==
    /\ \E st \in OperatorStatuses : DeskWrites(r, st)
    /\ UNCHANGED <<sessionVars, holdVars, session, customers, agreement, invoices, commissions, requestVars>>

ConfirmReservation(r) ==
    /\ DeskWrites(r, "confirmed")
    /\ UNCHANGED <<sessionVars, holdVars, session, customers, agreement, invoices, commissions, requestVars>>

(* Faulty variant: a status the schema does not have. *)
CancelReservation_Misspelt(r) ==
    /\ DeskWrites(r, "canceled")
    /\ UNCHANGED <<sessionVars, holdVars, session, customers, agreement, invoices, commissions, requestVars>>

CancelReservation(r) ==
    /\ DeskWrites(r, "cancelled")
    /\ UNCHANGED <<sessionVars, holdVars, session, customers, agreement, invoices, commissions, requestVars>>

(* createAgreementFromReservation: the agreement's upsert, then the reservation's status. *)
DraftAtDesk(r) ==
    /\ DeskCall(r)
    /\ agreement' = [agreement EXCEPT ![r] = IF @ = "none" THEN "operator" ELSE @]
    /\ converting' = [converting EXCEPT ![r] = @ + 1]
    /\ UNCHANGED <<sessionVars, holdVars, session, customers, reservation, invoices, commissions, requestVars>>

ConvertReservation(r) ==
    /\ converting[r] > 0
    /\ converting' = [converting EXCEPT ![r] = @ - 1]
    /\ reservation' = [reservation EXCEPT ![r] = "converted"]
    /\ UNCHANGED <<sessionVars, holdVars, session, customers, agreement, invoices, commissions, requestVars, deskCalls>>

SessionStep(s) ==
    \/ PurgeExpired(s)
    \/ PickUnit(s)
    \/ InsertHold(s)
    \/ InsertSession(s)

RequestStep(r) ==
    \/ FindHold(r)
    \/ Reserve(r)
    \/ ConsumeHold(r)
    \/ LoseHold(r)
    \/ CompleteSession(r)
    \/ DraftAgreement(r)
    \/ IssueInvoice(r)
    \/ RecordCommission(r)

DeskStep(r) ==
    \/ UpdateStatus(r)
    \/ ConfirmReservation(r)
    \/ CancelReservation(r)
    \/ DraftAtDesk(r)
    \/ ConvertReservation(r)

Next ==
    \/ \E s \in Sessions : SessionStep(s) \/ Expire(s)
    \/ \E r \in Requests : RequestStep(r) \/ DeskStep(r)

Spec == Init /\ [][Next]_vars
-----------------------------------------------------------------------------
(***************************************************************************)
(* A request that fails because its hold is gone lost it to somebody: to   *)
(* one other request that redeemed it, or to a purge after it expired.     *)
(***************************************************************************)
LoserHasWinner ==
    \A r \in Requests :
        rpc[r] = "lost" =>
            \/ \E q \in Requests \ {r} : <<found[r], q>> \in redeemed
            \/ hold[found[r]] = "purged" /\ found[r] \in expired

(***************************************************************************)
(* A checkout session marked completed has a reservation of its unit, made *)
(* by a request that consumed a hold of that unit, although the request    *)
(* may have used up the hold of another session.                           *)
(***************************************************************************)
CompletedIsBacked ==
    \A s \in Sessions :
        session[s] = "completed" =>
            \E r \in Requests :
                /\ via[r] = s
                /\ reservation[r] # "none"
                /\ <<found[r], r>> \in redeemed
                /\ unit[found[r]] = unit[s]

(***************************************************************************)
(* Two holds of one unit come from overlapping calls only: a call never    *)
(* picks a unit whose hold was live when it read the holds.                *)
(***************************************************************************)
NoSequentialDoubleHold ==
    \A s, t \in Sessions :
        hold[s] # "none" /\ t \in avoided[s] => unit[s] # unit[t]

(***************************************************************************)
(* confirmCheckout takes any live hold of the session's unit.  It takes    *)
(* the hold of another call, the stray one of a failed call included, only *)
(* if that call picked the unit before this session had its own hold       *)
(* (overlapping calls) or after this session's hold was used: while the    *)
(* own hold stands nobody else picks the unit, and once it has expired     *)
(* the session has expired too.                                            *)
(***************************************************************************)
TakenOverFairly ==
    \A p \in redeemed :
        LET own == via[p[2]] IN own # p[1] => own \notin standing[p[1]]

(***************************************************************************)
(* An agreement that a checkout created lacks the first invoice of a       *)
(* priced listing only if its request is still running or has died between *)
(* the two inserts; an agreement drafted at the desk never gets one.       *)
(***************************************************************************)
FirstInvoice ==
    \A r \in Requests :
        /\ r \in invoices => agreement[r] = "checkout"
        /\ agreement[r] = "checkout" /\ Listing[via[r]] \in Priced /\ r \notin invoices =>
              rpc[r] = "agreed"

(***************************************************************************)
(* The documentation says "Double-booking must be prevented": two          *)
(* completed requests never hold reservations of one unit.                 *)
(***************************************************************************)
Occupies(r) ==
    rpc[r] = "done" /\ reservation[r] \in {"pending_signature", "confirmed", "converted"}

NoDoubleBooking ==
    \A r, q \in Requests :
        r # q /\ Occupies(r) /\ Occupies(q) => unit[via[r]] # unit[via[q]]

(***************************************************************************)
(* Holds are issued once and redeemed by at most one request each.         *)
(***************************************************************************)
RegisterOf(h) ==
    CASE h = "none" -> "unissued"
      [] h = "present" -> "issued"
      [] h = "used" -> "redeemed"
      [] h = "purged" -> "removed"

Register == [s \in Sessions |-> RegisterOf(hold[s])]

HR == INSTANCE HoldRegister WITH Holds <- Sessions, Redeemers <- Requests, register <- Register

HoldsAreSingleUse == HR!Spec
=============================================================================
